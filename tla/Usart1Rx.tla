------------------------------ MODULE Usart1Rx ------------------------------
(***************************************************************************)
(* Reception on USART1 of the sensor board: the DMA writes every byte into *)
(* a circular buffer, the IDLE interrupt at the end of a burst copies what *)
(* is new into a frame and queues it, and a task receives the frames.      *)
(*                                                                         *)
(* A byte is its number: the n-th byte received is n.  The interrupt may   *)
(* be delayed as long as it likes.                                         *)
(***************************************************************************)
EXTENDS Integers, Sequences

CONSTANTS
  BufSize,     (* USART1_DMA_BUF_SIZE                                      *)
  MaxFrame,    (* USART1_MAX_FRAME_SIZE                                    *)
  QueueDepth,  (* USART1_QUEUE_DEPTH                                       *)
  BurstLens,   (* lengths of the messages that peers send                  *)
  MaxBytes     (* bound on the bytes                                       *)

ASSUME UsartAssumption ==
  /\ BufSize \in Nat \ {0} /\ MaxFrame \in Nat \ {0} /\ QueueDepth \in Nat \ {0}
  /\ MaxFrame < BufSize
  /\ BurstLens \subseteq Nat \ {0}
  /\ MaxBytes \in Nat

VARIABLES
  raw,         (* dma_raw_buf                                              *)
  pos,         (* where the DMA writes next: BufSize - CNDTR               *)
  n,           (* history: bytes received so far                           *)
  rest,        (* bytes left of the burst that is arriving                 *)
  idle,        (* the IDLE flag of the USART                               *)
  last,        (* dma_last_pos                                             *)
  queue,       (* rx_queue                                                 *)
  bounds,      (* history: the bytes after which the line was idle         *)
  seen,        (* history: n at the latest run of the interrupt            *)
  taken,       (* history: the last byte given to the task                 *)
  missed,      (* history: the last byte of a frame a full queue refused   *)
  fits         (* history: no byte came while the interrupt was pending,   *)
               (* or made a message longer than a frame                    *)

line == <<raw, pos, n, rest, idle, bounds, fits>>
vars == <<line, last, queue, seen, taken, missed>>

Cells == 0 .. BufSize - 1

TypeOK ==
  /\ raw \in [Cells -> Nat]
  /\ pos \in Cells /\ n \in Nat /\ rest \in Nat /\ idle \in BOOLEAN
  /\ last \in Cells
  /\ queue \in Seq(Seq(Nat)) /\ Len(queue) <= QueueDepth
  /\ \A i \in 1 .. Len(queue) : Len(queue[i]) \in 1 .. MaxFrame
  /\ bounds \subseteq Nat
  /\ seen \in Nat /\ taken \in Nat /\ missed \in Nat /\ fits \in BOOLEAN

(* BSP_USART1_Init. *)
Init ==
  /\ raw = [p \in Cells |-> 0]
  /\ pos = 0 /\ n = 0 /\ rest = 0 /\ idle = FALSE
  /\ last = 0
  /\ queue = << >>
  /\ bounds = {0}
  /\ seen = 0 /\ taken = 0 /\ missed = 0 /\ fits = TRUE

(* A peer begins a message. *)
BeginBurst ==
  /\ rest = 0
  /\ rest' \in { b \in BurstLens : n + b <= MaxBytes }
  /\ UNCHANGED <<raw, pos, n, idle, bounds, fits, last, queue, seen, taken, missed>>

(* The DMA counter reloads itself. *)
NextPos(p) == IF p + 1 = BufSize THEN 0 ELSE p + 1

(* A byte: the DMA stores it; after the last one the line is idle. *)
ReceiveByte ==
  /\ rest > 0
  /\ raw' = [raw EXCEPT ![pos] = n + 1]
  /\ pos' = NextPos(pos)
  /\ n' = n + 1
  /\ rest' = rest - 1
  /\ fits' = (fits /\ ~idle /\ n' - seen <= MaxFrame)
  /\ IF rest = 1 THEN idle' = TRUE /\ bounds' = bounds \cup {n + 1}
                 ELSE UNCHANGED <<idle, bounds>>
  /\ UNCHANGED <<last, queue, seen, taken, missed>>

(* memcpy of len bytes from &dma_raw_buf[off]. *)
Copy(off, len) == [i \in 1 .. len |-> raw[off + i - 1]]

(* Mutant of Frame: the data past the end of the buffer is forgotten. *)
FrameUnwrapped(from, to) ==
  IF to > from
  THEN Copy(from, IF to - from > MaxFrame THEN MaxFrame ELSE to - from)
  ELSE Copy(from, BufSize - from)

(* The frame made of the buffer from dma_last_pos to cur_pos. *)
Frame(from, to) ==
  LET seg1     == BufSize - from
      seg2     == to
      overflow == seg1 + seg2 - MaxFrame
  IN  IF to > from
      THEN Copy(from, IF to - from > MaxFrame THEN MaxFrame ELSE to - from)
      ELSE IF overflow <= 0
           THEN Copy(from, seg1) \o Copy(0, seg2)
           ELSE IF overflow < seg2
                THEN Copy(overflow, seg2 - overflow) \o Copy(0, seg1)
                ELSE Copy(from + (overflow - seg2), seg1 - (overflow - seg2))

(* xQueueSendToBackFromISR: a full queue refuses, and the result is        *)
(* ignored.                                                                *)
SendFromISR(f) ==
  IF Len(queue) < QueueDepth
  THEN queue' = Append(queue, f) /\ UNCHANGED missed
  ELSE missed' = n /\ UNCHANGED queue

(* Mutant of ProcessIdle: dma_last_pos advances by what was kept only when *)
(* the queue had room.                                                     *)
ProcessIdleRetry ==
  /\ idle
  /\ idle' = FALSE
  /\ seen' = n
  /\ IF pos # last
     THEN /\ SendFromISR(Frame(last, pos))
          /\ last' = IF Len(queue) < QueueDepth THEN pos ELSE last
     ELSE UNCHANGED <<queue, missed, last>>
  /\ UNCHANGED <<raw, pos, n, rest, bounds, fits, taken>>

(* Mutant of ProcessIdle: data that crosses the end is taken for none. *)
ProcessIdleForward ==
  /\ idle
  /\ idle' = FALSE
  /\ seen' = n
  /\ last' = pos
  /\ IF pos > last THEN SendFromISR(Frame(last, pos))
                   ELSE UNCHANGED <<queue, missed>>
  /\ UNCHANGED <<raw, pos, n, rest, bounds, fits, taken>>

(* usart1_process_idle. *)
ProcessIdle ==
  /\ idle
  /\ idle' = FALSE
  /\ seen' = n
  /\ last' = pos
  /\ IF pos # last THEN SendFromISR(Frame(last, pos))
                   ELSE UNCHANGED <<queue, missed>>
  /\ UNCHANGED <<raw, pos, n, rest, bounds, fits, taken>>

(* BSP_USART1_Receive by the task. *)
Receive ==
  /\ queue # << >>
  /\ taken' = Head(queue)[Len(Head(queue))]
  /\ queue' = Tail(queue)
  /\ UNCHANGED <<line, last, seen, missed>>

(* The bound is reached and everything is handled. *)
Quiet ==
  /\ rest = 0 /\ ~idle /\ queue = << >>
  /\ \A b \in BurstLens : n + b > MaxBytes
  /\ UNCHANGED vars

Next == BeginBurst \/ ReceiveByte \/ ProcessIdle \/ Receive \/ Quiet

Spec == Init /\ [][Next]_vars
-----------------------------------------------------------------------------
(* Properties. *)

(* f is one message, from the byte after one idle line to the byte before  *)
(* the next.                                                               *)
Consecutive(f) == \A i \in 1 .. Len(f) : f[i] = f[1] + i - 1
Message(f) ==
  /\ Consecutive(f)
  /\ f[1] - 1 \in bounds /\ f[Len(f)] \in bounds
  /\ \A i \in 1 .. Len(f) - 1 : f[i] \notin bounds

(* As long as the interrupt was in time and messages no longer than a      *)
(* frame, each queued frame is one whole message ("whole frames are        *)
(* queued"), wherever it lies across the end of the buffer.                *)
Whole == \A i \in 1 .. Len(queue) : Message(queue[i])
FramesAreMessages == fits => Whole

(* And every message that the interrupt has handled is waiting, was taken, *)
(* or met a full queue: none is lost in silence, none is queued twice.     *)
Ends == { queue[i][Len(queue[i])] : i \in 1 .. Len(queue) }
Kept ==
  /\ seen > 0 => seen \in Ends \cup {taken, missed}
  /\ \A i, j \in 1 .. Len(queue) : i < j => queue[i][Len(queue[i])] < queue[j][1]
  /\ \A i \in 1 .. Len(queue) : taken < queue[i][1]
NothingLost == fits => Kept

(* "No new data, return": however late the interrupt is and however long   *)
(* the messages, nothing is queued only when nothing arrived since the     *)
(* last time, or the DMA went round the buffer a whole number of times,    *)
(* which the code takes for the same.                                      *)
ReturnsOnlyOnLaps ==
  [][ProcessIdle /\ queue' = queue /\ missed' = missed
       => \E k \in 0 .. n : n = seen + k * BufSize]_vars

(* The reception implements the message stream: what the task gets are the *)
(* messages, whole, in order and each once, but for those that met a full  *)
(* queue, as long as they fit.                                             *)
Abstract == INSTANCE MessageStream
StreamSpec == Abstract!Spec

(* The inductive invariant of module Usart1RxProofs.  The positions are    *)
(* the counts of bytes, up to whole laps.                                  *)
LapsInv ==
  /\ missed <= seen /\ seen <= n
  /\ \E a \in 0 .. n : n = pos + a * BufSize
  /\ \E a \in 0 .. seen : seen = last + a * BufSize

(* What arrived since the interrupt last ran is one message at most, it is *)
(* shorter than the buffer, and it lies in the buffer backwards from where *)
(* the DMA writes.                                                         *)
Back(p, d) == IF d <= p THEN p - d ELSE p - d + BufSize

NewsInv ==
  /\ seen <= n /\ n - seen <= MaxFrame
  /\ last = Back(pos, n - seen)
  /\ \A d \in 1 .. n - seen : raw[Back(pos, d)] = n + 1 - d

BoundsInv ==
  /\ seen \in bounds
  /\ \A b \in bounds : b <= seen \/ b = n
  /\ IF idle THEN n \in bounds /\ seen < n
             ELSE (rest = 0 => seen = n) /\ (seen < n => n \notin bounds)

QueueInv ==
  /\ taken <= seen
  /\ \A i \in 1 .. Len(queue) : queue[i][Len(queue[i])] <= seen

RxInv ==
  /\ TypeOK /\ LapsInv
  /\ fits => NewsInv /\ BoundsInv /\ QueueInv /\ Whole /\ Kept
=============================================================================
