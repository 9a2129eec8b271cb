--------------------------- MODULE Usart1RxProofs ---------------------------
(***************************************************************************)
(* Proofs about Usart1Rx, for every size of the buffer, of a frame and of  *)
(* the queue, of the messages and of the delay of the interrupt: its       *)
(* copies stay within the buffer and the frame, and it takes news for none *)
(* only when the DMA went round whole laps.  As long as the interrupt was  *)
(* in time and messages fitted, every queued frame is one message.         *)
(***************************************************************************)
EXTENDS Usart1Rx, SequenceTheorems, TLAPS

(* What the invariant says as long as messages fitted. *)
Good == TypeOK /\ NewsInv /\ BoundsInv /\ QueueInv /\ Whole /\ Kept

LEMMA Sizes ==
  /\ BufSize \in Nat /\ MaxFrame \in Nat /\ QueueDepth \in Nat
  /\ 0 < MaxFrame /\ MaxFrame < BufSize /\ 0 < QueueDepth
  BY UsartAssumption

(* Steps back from a position of the buffer. *)
LEMMA BackStep ==
  ASSUME NEW p \in Cells, NEW d \in 0 .. MaxFrame - 1
  PROVE  /\ NextPos(p) \in Cells
         /\ Back(p, d) \in Cells
         /\ Back(NextPos(p), d + 1) = Back(p, d)
         /\ d > 0 => Back(p, d) # p
         /\ Back(p, 0) = p
         /\ Back(p, d + 1) # p
  BY Sizes DEF Cells, NextPos, Back

(* Two runs of consecutive bytes join into one. *)
LEMMA RunsJoin ==
  ASSUME NEW c \in Int, NEW s \in Nat, NEW p \in Nat, NEW d \in Int, NEW k, d = c + s, k = s + p
  PROVE  [i \in 1 .. s |-> c + i] \o [i \in 1 .. p |-> d + i] = [i \in 1 .. k |-> c + i]
<1> DEFINE a == [i \in 1 .. s |-> c + i]
           b == [i \in 1 .. p |-> d + i]
           r == [i \in 1 .. k |-> c + i]
<1>1. a \in Seq(Int) /\ Len(a) = s /\ b \in Seq(Int) /\ Len(b) = p
  OBVIOUS
<1>2. r \in Seq(Int) /\ Len(r) = k
  OBVIOUS
<1>3. /\ a \o b \in Seq(Int) /\ Len(a \o b) = k
      /\ \A i \in 1 .. k : (a \o b)[i] = IF i <= s THEN a[i] ELSE b[i - s]
  <2> HIDE DEF a, b
  <2> QED BY <1>1, ConcatProperties
<1>4. \A i \in 1 .. k : (IF i <= s THEN a[i] ELSE b[i - s]) = r[i]
  OBVIOUS
<1> HIDE DEF a, b, r
<1>5. \A i \in 1 .. k : (a \o b)[i] = r[i]
  BY <1>3, <1>4
<1>6. a \o b = r
  BY <1>1, <1>2, <1>3, <1>5, SeqEqual
<1> QED BY <1>6 DEF a, b, r

(* The frame that the interrupt makes of k new bytes is those bytes, in    *)
(* order, whether or not they cross the end of the buffer.                 *)
LEMMA FrameOfNews ==
  ASSUME raw \in [Cells -> Nat], pos \in Cells, n \in Nat,
         NEW k \in 1 .. MaxFrame, k <= n,
         last = Back(pos, k),
         \A d \in 1 .. k : raw[Back(pos, d)] = n + 1 - d
  PROVE  /\ pos # last
         /\ Frame(last, pos) = [i \in 1 .. k |-> n - k + i]
<1>1. pos # last
  BY Sizes DEF Back, Cells
<1>2. \A i \in 1 .. k : raw[Back(pos, k + 1 - i)] = n - k + i
  <2> TAKE i \in 1 .. k
  <2>1. k + 1 - i \in 1 .. k
    BY Sizes
  <2>2. raw[Back(pos, k + 1 - i)] = n + 1 - (k + 1 - i)
    BY <2>1
  <2> QED BY <2>2, Sizes
<1>3. CASE pos > last
  <2>1. last = pos - k
    BY <1>3, Sizes DEF Back, Cells
  <2>2. Frame(last, pos) = Copy(last, k)
    BY <1>3, <2>1, Sizes DEF Frame, Cells
  <2>3. \A i \in 1 .. k : last + i - 1 = Back(pos, k + 1 - i)
    BY <1>3, <2>1, Sizes DEF Back, Cells
  <2>4. \A i \in 1 .. k : raw[last + i - 1] = n - k + i
    BY <2>3, <1>2
  <2> QED BY <1>1, <2>2, <2>4 DEF Copy
<1>4. CASE ~(pos > last)
  <2>1. pos <= last /\ last = pos - k + BufSize /\ pos < k
    BY <1>4, <1>1, Sizes DEF Back, Cells
  <2> DEFINE s1 == BufSize - last
  <2>2. s1 = k - pos /\ s1 \in Nat /\ 0 < s1 /\ s1 + pos = k /\ s1 + pos - MaxFrame <= 0
    BY <2>1, Sizes DEF Cells
  <2>3. Frame(last, pos) = Copy(last, s1) \o Copy(0, pos)
    <3>1. pos \in Int /\ last \in Int /\ BufSize \in Int /\ MaxFrame \in Int
      BY <2>1, Sizes DEF Cells
    <3>2. BufSize - last + pos - MaxFrame <= 0
      BY <2>2
    <3> QED BY <1>4, <3>2 DEF Frame
  <2>4. \A i \in 1 .. s1 : raw[last + i - 1] = n - k + i
    <3> TAKE i \in 1 .. s1
    <3>1. last + i - 1 = Back(pos, k + 1 - i)
      BY <2>1, <2>2, Sizes DEF Back, Cells
    <3>2. i \in 1 .. k
      BY <2>2, Sizes DEF Cells
    <3> QED BY <3>1, <3>2, <1>2
  <2>5. \A i \in 1 .. pos : raw[i - 1] = n - pos + i
    <3> TAKE i \in 1 .. pos
    <3>1. i - 1 = Back(pos, pos + 1 - i)
      BY <2>1, <2>2, Sizes DEF Back, Cells
    <3>2. pos + 1 - i \in 1 .. k
      BY <2>1, <2>2, Sizes DEF Cells
    <3>3. raw[i - 1] = n + 1 - (pos + 1 - i)
      BY <3>1, <3>2
    <3> QED BY <3>3, Sizes DEF Cells
  <2>6. Copy(last, s1) = [i \in 1 .. s1 |-> n - k + i]
    BY <2>4 DEF Copy
  <2>7. Copy(0, pos) = [i \in 1 .. pos |-> n - pos + i]
    <3>1. \A i \in 1 .. pos : raw[0 + i - 1] = n - pos + i
      BY <2>5, Sizes DEF Cells
    <3> QED BY <3>1 DEF Copy
  <2> HIDE DEF s1
  <2>8. [i \in 1 .. s1 |-> n - k + i] \o [i \in 1 .. pos |-> n - pos + i]
          = [i \in 1 .. k |-> n - k + i]
    <3>1. pos \in Nat /\ n - k \in Int /\ (n - k) + s1 = n - pos /\ s1 + pos = k
      BY <2>2, Sizes DEF Cells
    <3> QED BY <3>1, <2>2, RunsJoin
  <2> QED BY <1>1, <2>3, <2>6, <2>7, <2>8
<1> QED BY <1>3, <1>4
-----------------------------------------------------------------------------
(* However late the interrupt is.                                          *)

LEMMA CopyFits ==
  ASSUME raw \in [Cells -> Nat], NEW off \in Nat, NEW len \in Nat, off + len <= BufSize
  PROVE  Copy(off, len) \in Seq(Nat) /\ Len(Copy(off, len)) = len
<1>1. \A i \in 1 .. len : raw[off + i - 1] \in Nat
  BY Sizes DEF Cells
<1> QED BY <1>1 DEF Copy

(* Each of the four ways to copy reads within the buffer and writes within *)
(* the frame.                                                              *)
LEMMA FrameFits ==
  ASSUME raw \in [Cells -> Nat], NEW from \in Cells, NEW to \in Cells, from # to
  PROVE  Frame(from, to) \in Seq(Nat) /\ Len(Frame(from, to)) \in 1 .. MaxFrame
<1> DEFINE seg1     == BufSize - from
           overflow == seg1 + to - MaxFrame
<1>1. /\ from \in Nat /\ to \in Nat /\ from < BufSize /\ to < BufSize
      /\ seg1 \in Nat /\ 0 < seg1 /\ overflow \in Int /\ overflow = seg1 + to - MaxFrame
      /\ from + seg1 = BufSize /\ seg1 <= BufSize
  BY Sizes DEF Cells
<1>2. CASE to > from
  <2>1. CASE to - from > MaxFrame
    <3>1. MaxFrame \in Nat /\ from + MaxFrame <= BufSize
      BY <1>1, <2>1, Sizes
    <3>2. Copy(from, MaxFrame) \in Seq(Nat) /\ Len(Copy(from, MaxFrame)) = MaxFrame
      <4> HIDE DEF seg1, overflow
      <4> QED BY <1>1, <3>1, CopyFits
    <3> QED BY <1>2, <2>1, <3>2, Sizes DEF Frame
  <2>2. CASE ~(to - from > MaxFrame)
    <3> DEFINE d == to - from
    <3>1. d \in Nat /\ d \in 1 .. MaxFrame /\ from + d <= BufSize
      BY <1>1, <1>2, <2>2, Sizes
    <3>2. Copy(from, d) \in Seq(Nat) /\ Len(Copy(from, d)) = d
      <4> HIDE DEF d, seg1, overflow
      <4> QED BY <1>1, <3>1, CopyFits
    <3> QED BY <1>2, <2>2, <3>1, <3>2 DEF Frame
  <2> QED BY <2>1, <2>2
<1>3. CASE ~(to > from) /\ overflow <= 0
  <2>1. Copy(from, seg1) \in Seq(Nat) /\ Len(Copy(from, seg1)) = seg1
    BY <1>1, CopyFits
  <2>2. Copy(0, to) \in Seq(Nat) /\ Len(Copy(0, to)) = to
    BY <1>1, CopyFits
  <2>3. Frame(from, to) = Copy(from, seg1) \o Copy(0, to)
    BY <1>3 DEF Frame
  <2>4. seg1 + to \in 1 .. MaxFrame
    BY <1>1, <1>3, Sizes
  <2> HIDE DEF seg1, overflow
  <2> QED BY <2>1, <2>2, <2>3, <2>4, ConcatProperties
<1>4. CASE ~(to > from) /\ ~(overflow <= 0) /\ overflow < to
  <2>1. overflow \in Nat /\ to - overflow \in Nat /\ overflow + (to - overflow) <= BufSize
    BY <1>1, <1>4
  <2>2. /\ Copy(overflow, to - overflow) \in Seq(Nat)
        /\ Len(Copy(overflow, to - overflow)) = to - overflow
    BY <2>1, CopyFits
  <2>3. Copy(0, seg1) \in Seq(Nat) /\ Len(Copy(0, seg1)) = seg1
    BY <1>1, CopyFits
  <2>4. Frame(from, to) = Copy(overflow, to - overflow) \o Copy(0, seg1)
    BY <1>4 DEF Frame
  <2>5. to - overflow + seg1 \in 1 .. MaxFrame
    BY <1>1, Sizes
  <2> HIDE DEF seg1, overflow
  <2> QED BY <2>2, <2>3, <2>4, <2>5, ConcatProperties
<1>5. CASE ~(to > from) /\ ~(overflow <= 0) /\ ~(overflow < to)
  <2> DEFINE cut == overflow - to
  <2>1. /\ cut \in Nat /\ from + cut \in Nat /\ seg1 - cut = MaxFrame
        /\ from + cut + MaxFrame = BufSize
    BY <1>1, <1>5, Sizes
  <2>2. Copy(from + cut, MaxFrame) \in Seq(Nat) /\ Len(Copy(from + cut, MaxFrame)) = MaxFrame
    <3> HIDE DEF cut
    <3> QED BY <2>1, Sizes, CopyFits
  <2>3. Frame(from, to) = Copy(from + cut, seg1 - cut)
    BY <1>5 DEF Frame
  <2> QED BY <2>1, <2>2, <2>3, Sizes
<1> QED BY <1>2, <1>3, <1>4, <1>5

LEMMA TypeInit ==
  ASSUME Init
  PROVE  TypeOK
<1>1. 0 \in Cells
  BY Sizes DEF Cells
<1>2. queue \in Seq(Seq(Nat)) /\ Len(queue) = 0
  BY DEF Init
<1> QED BY <1>1, <1>2, Sizes DEF Init, TypeOK

LEMMA TypeStep ==
  ASSUME TypeOK, [Next]_vars
  PROVE  TypeOK'
<1>0. /\ raw \in [Cells -> Nat] /\ pos \in Cells /\ last \in Cells
      /\ n \in Nat /\ rest \in Nat /\ idle \in BOOLEAN /\ bounds \subseteq Nat
      /\ queue \in Seq(Seq(Nat)) /\ Len(queue) \in Nat /\ Len(queue) <= QueueDepth
      /\ \A i \in 1 .. Len(queue) : Len(queue[i]) \in 1 .. MaxFrame
      /\ seen \in Nat /\ taken \in Nat /\ missed \in Nat /\ fits \in BOOLEAN
  BY DEF TypeOK
<1>1. CASE BeginBurst
  <2>1. rest' \in Nat
    BY <1>1, UsartAssumption DEF BeginBurst
  <2> QED BY <1>0, <1>1, <2>1 DEF BeginBurst, TypeOK
<1>2. CASE ReceiveByte
  <2>1. /\ n + 1 \in Nat /\ n' = n + 1 /\ rest' \in Nat
        /\ raw' = [raw EXCEPT ![pos] = n + 1] /\ pos' = NextPos(pos)
    BY <1>0, <1>2 DEF ReceiveByte
  <2>2. pos' \in Cells
    BY <1>0, <2>1, Sizes DEF NextPos, Cells
  <2>3. raw' \in [Cells -> Nat]
    BY <1>0, <2>1
  <2>4. idle' \in BOOLEAN /\ fits' \in BOOLEAN
    BY <1>0, <1>2 DEF ReceiveByte
  <2>5. bounds' = bounds \/ bounds' = bounds \cup {n + 1}
    BY <1>2 DEF ReceiveByte
  <2> QED BY <1>0, <1>2, <2>1, <2>2, <2>3, <2>4, <2>5 DEF ReceiveByte, TypeOK
<1>3. CASE ProcessIdle
  <2>1. /\ idle' = FALSE /\ seen' = n /\ last' = pos
        /\ UNCHANGED <<raw, pos, n, rest, bounds, fits, taken>>
    BY <1>3 DEF ProcessIdle
  <2>2. missed' \in Nat
    BY <1>0, <1>3 DEF ProcessIdle, SendFromISR
  <2>3. /\ queue' \in Seq(Seq(Nat)) /\ Len(queue') <= QueueDepth
        /\ \A i \in 1 .. Len(queue') : Len(queue'[i]) \in 1 .. MaxFrame
    <3>1. CASE queue' = queue
      BY <1>0, <3>1
    <3>2. CASE queue' # queue
      <4> DEFINE f == Frame(last, pos)
      <4>1. pos # last /\ Len(queue) < QueueDepth /\ queue' = Append(queue, f)
        BY <1>3, <3>2 DEF ProcessIdle, SendFromISR
      <4>2. f \in Seq(Nat) /\ Len(f) \in 1 .. MaxFrame
        BY <1>0, <4>1, FrameFits
      <4> HIDE DEF f
      <4>3. /\ queue' \in Seq(Seq(Nat)) /\ Len(queue') = Len(queue) + 1
            /\ \A i \in 1 .. Len(queue) : queue'[i] = queue[i]
            /\ queue'[Len(queue) + 1] = f
        BY <1>0, <4>1, <4>2
      <4>4. ASSUME NEW i \in 1 .. Len(queue') PROVE Len(queue'[i]) \in 1 .. MaxFrame
        <5>1. i \in 1 .. Len(queue) \/ i = Len(queue) + 1
          BY <1>0, <4>3
        <5> QED BY <1>0, <4>2, <4>3, <5>1
      <4>5. Len(queue') <= QueueDepth
        BY <1>0, <4>1, <4>3, Sizes
      <4> QED BY <4>3, <4>4, <4>5
    <3> QED BY <3>1, <3>2
  <2> QED BY <1>0, <2>1, <2>2, <2>3 DEF TypeOK
<1>4. CASE Receive
  <2>1. queue # << >> /\ queue' = Tail(queue) /\ taken' = queue[1][Len(queue[1])]
    BY <1>4 DEF Receive
  <2>2. 1 \in 1 .. Len(queue) /\ queue[1] \in Seq(Nat)
    BY <1>0, <2>1
  <2>3. taken' \in Nat
    BY <1>0, <2>1, <2>2
  <2>4. /\ queue' \in Seq(Seq(Nat)) /\ Len(queue') = Len(queue) - 1
        /\ \A i \in 1 .. Len(queue') : queue'[i] = queue[i + 1] /\ i + 1 \in 1 .. Len(queue)
    BY <1>0, <2>1, <2>2
  <2>5. Len(queue') <= QueueDepth
    BY <1>0, <2>4, Sizes
  <2>6. \A i \in 1 .. Len(queue') : Len(queue'[i]) \in 1 .. MaxFrame
    BY <1>0, <2>4
  <2> QED BY <1>0, <1>4, <2>3, <2>4, <2>5, <2>6 DEF Receive, line, TypeOK
<1>5. CASE UNCHANGED vars
  BY <1>5 DEF vars, line, TypeOK
<1> QED BY <1>1, <1>2, <1>3, <1>4, <1>5 DEF Next, Quiet

(* Whatever the delay of the interrupt and the length of the messages, a   *)
(* queued frame has 1 to USART1_MAX_FRAME_SIZE bytes, all of them from the *)
(* buffer: none of the four memcpy of usart1_process_idle leaves           *)
(* dma_raw_buf or frame.data.                                              *)
THEOREM FramesFit == Spec => []TypeOK
<1>1. Init => TypeOK
  BY TypeInit
<1>2. TypeOK /\ [Next]_vars => TypeOK'
  BY TypeStep
<1> QED BY <1>1, <1>2, PTL DEF Spec
-----------------------------------------------------------------------------
(* The positions are the counts of bytes, but for whole laps.              *)

LEMMA LapsInit ==
  ASSUME Init
  PROVE  LapsInv
<1>1. 0 \in 0 .. n /\ n = pos + 0 * BufSize /\ 0 \in 0 .. seen /\ seen = last + 0 * BufSize
  BY Sizes DEF Init
<1> QED BY <1>1 DEF Init, LapsInv

(* The next byte, on the same lap or on the next. *)
LEMMA LapsByte ==
  ASSUME NEW p \in Cells, NEW c \in Nat, \E a \in 0 .. c : c = p + a * BufSize
  PROVE  \E a \in 0 .. c + 1 : c + 1 = NextPos(p) + a * BufSize
<1>1. PICK a \in 0 .. c : c = p + a * BufSize
  OBVIOUS
<1>2. CASE p + 1 = BufSize
  <2>1. (a + 1) * BufSize = a * BufSize + BufSize
    BY Sizes
  <2>2. c + 1 = NextPos(p) + (a + 1) * BufSize
    BY <1>1, <1>2, <2>1, Sizes DEF NextPos, Cells
  <2>3. a + 1 \in 0 .. c + 1
    OBVIOUS
  <2> QED BY <2>2, <2>3
<1>3. CASE p + 1 # BufSize
  <2>1. c + 1 = NextPos(p) + a * BufSize
    BY <1>1, <1>3, Sizes DEF NextPos, Cells
  <2>2. a \in 0 .. c + 1
    OBVIOUS
  <2> QED BY <2>1, <2>2
<1> QED BY <1>2, <1>3

LEMMA LapsStep ==
  ASSUME TypeOK, LapsInv, [Next]_vars
  PROVE  LapsInv'
<1>1. CASE ReceiveByte
  <2>1. pos \in Cells /\ n \in Nat /\ seen \in Nat /\ seen <= n
    BY DEF TypeOK, LapsInv
  <2>2. n' = n + 1 /\ pos' = NextPos(pos) /\ UNCHANGED <<last, seen, missed>>
    BY <1>1 DEF ReceiveByte
  <2>3. \E a \in 0 .. n + 1 : n + 1 = NextPos(pos) + a * BufSize
    BY <2>1, LapsByte DEF LapsInv
  <2>4. seen <= n + 1
    BY <2>1
  <2> QED BY <2>2, <2>3, <2>4 DEF LapsInv
<1>2. CASE ProcessIdle
  <2>1. seen' = n /\ last' = pos /\ UNCHANGED <<pos, n>>
    BY <1>2 DEF ProcessIdle
  <2>2. n \in Nat /\ missed \in Nat /\ seen \in Nat
    BY DEF TypeOK
  <2>3. missed' = n \/ missed' = missed
    BY <1>2 DEF ProcessIdle, SendFromISR
  <2>4. missed' <= n
    BY <2>2, <2>3 DEF LapsInv
  <2> QED BY <2>1, <2>2, <2>4 DEF LapsInv
<1>3. CASE BeginBurst \/ Receive \/ Quiet \/ UNCHANGED vars
  <2>1. UNCHANGED <<pos, n, last, seen, missed>>
    BY <1>3 DEF BeginBurst, Receive, Quiet, line, vars
  <2> QED BY <2>1 DEF LapsInv
<1> QED BY <1>1, <1>2, <1>3 DEF Next

(* At the same position the counts differ by whole laps. *)
LEMMA SamePosition ==
  ASSUME TypeOK, LapsInv, pos = last
  PROVE  \E k \in 0 .. n : n = seen + k * BufSize
<1>1. n \in Nat /\ seen \in Nat /\ seen <= n /\ pos \in Nat /\ BufSize \in Nat /\ 0 < BufSize
  BY Sizes DEF TypeOK, Cells, LapsInv
<1>2. PICK a \in 0 .. n : n = pos + a * BufSize
  BY DEF LapsInv
<1>3. PICK b \in 0 .. seen : seen = last + b * BufSize
  BY DEF LapsInv
<1>4. a \in Int /\ b \in Int /\ a * BufSize \in Int /\ b * BufSize \in Int
  BY <1>1
<1>5. (a - b) * BufSize = a * BufSize - b * BufSize
  BY <1>1, <1>4
<1>6. n = seen + (a - b) * BufSize
  BY <1>1, <1>2, <1>3, <1>4, <1>5
<1>7. b <= a
  <2>1. ASSUME a < b PROVE FALSE
    <3>1. b = a + (b - a) /\ 1 <= b - a
      BY <1>4, <2>1
    <3>2. b * BufSize = a * BufSize + (b - a) * BufSize /\ (b - a) * BufSize \in Int
      BY <1>1, <1>4
    <3>3. 0 < (b - a) * BufSize
      BY <1>1, <1>4, <3>1
    <3> QED BY <1>1, <1>2, <1>3, <1>4, <3>2, <3>3
  <2> QED BY <2>1, <1>4
<1>8. a - b \in 0 .. n
  BY <1>1, <1>7
<1> QED BY <1>6, <1>8
-----------------------------------------------------------------------------
(* The invariant holds at first. *)
LEMMA InitRx ==
  ASSUME Init
  PROVE  Good
<1>1. TypeOK
  BY TypeInit
<1>2. NewsInv
  BY Sizes DEF Init, NewsInv, Back
<1>3. BoundsInv
  BY DEF Init, BoundsInv
<1>4. QueueInv
  BY DEF Init, QueueInv
<1>5. Whole /\ Kept
  BY DEF Init, Whole, Kept
<1> QED BY <1>1, <1>2, <1>3, <1>4, <1>5 DEF Good

(* A peer begins a message. *)
LEMMA BeginBurstRx ==
  ASSUME Good, BeginBurst, fits'
  PROVE  Good'
<1> USE DEF Good
<1>1. rest = 0 /\ rest' \in Nat /\ UNCHANGED <<raw, pos, n, idle, bounds, last, queue, seen, taken, missed>>
  BY UsartAssumption DEF BeginBurst
<1>4. TypeOK'
  BY TypeStep DEF Next
<1>5. NewsInv'
  BY <1>1 DEF NewsInv
<1>6. BoundsInv'
  BY <1>1 DEF BoundsInv
<1>7. QueueInv' /\ Whole' /\ Kept'
  BY DEF BeginBurst, QueueInv, Whole, Message, Kept, Ends
<1> QED BY <1>4, <1>5, <1>6, <1>7

(* The bytes of a queued frame have all been handled. *)
LEMMA BytesOfFrames ==
  ASSUME TypeOK, QueueInv, Whole, NEW i \in 1 .. Len(queue)
  PROVE  /\ queue[i] \in Seq(Nat) /\ Len(queue[i]) \in Nat /\ 1 <= Len(queue[i])
         /\ \A j \in 1 .. Len(queue[i]) : queue[i][j] \in Nat /\ queue[i][j] <= seen
<1> DEFINE f == queue[i]
<1>1. f \in Seq(Nat) /\ Len(f) \in Nat /\ 1 <= Len(f)
  BY DEF TypeOK
<1>2. \A j \in 1 .. Len(f) : f[j] = f[1] + j - 1
  BY DEF Whole, Message, Consecutive
<1>3. f[Len(f)] <= seen /\ seen \in Nat
  BY DEF QueueInv, TypeOK
<1> HIDE DEF f
<1>4. f[1] \in Nat /\ f[Len(f)] \in Nat /\ f[Len(f)] = f[1] + Len(f) - 1
  BY <1>1, <1>2
<1>5. ASSUME NEW j \in 1 .. Len(f) PROVE f[j] \in Nat /\ f[j] <= seen
  <2>1. f[j] = f[1] + j - 1 /\ j \in Nat /\ j <= Len(f)
    BY <1>1, <1>2
  <2>2. f[j] \in Nat
    BY <1>1
  <2> QED BY <2>1, <2>2, <1>3, <1>4, <1>1
<1> QED BY <1>1, <1>5 DEF f

(* A byte enters the buffer in front of those that are not handled. *)
LEMMA ReceiveByteRx ==
  ASSUME Good, ReceiveByte, fits'
  PROVE  Good'
<1> USE DEF Good
<1> DEFINE k == n - seen
<1>1. /\ n \in Nat /\ rest \in Nat /\ seen \in Nat /\ rest > 0 /\ seen <= n
      /\ k \in 0 .. MaxFrame - 1
      /\ n' = n + 1 /\ rest' = rest - 1 /\ seen' = seen /\ n' - seen' = k + 1
  <2>1. n \in Nat /\ rest \in Nat /\ seen \in Nat /\ seen <= n
    BY DEF TypeOK, NewsInv
  <2>2. rest > 0 /\ n' = n + 1 /\ rest' = rest - 1 /\ seen' = seen
    BY DEF ReceiveByte
  <2>3. n' - seen <= MaxFrame
    BY Zenon DEF ReceiveByte
  <2> QED BY <2>1, <2>2, <2>3, Sizes
<1>2. /\ pos \in Cells /\ pos' = NextPos(pos) /\ last' = last
      /\ raw \in [Cells -> Nat] /\ raw' = [raw EXCEPT ![pos] = n + 1]
  BY DEF TypeOK, ReceiveByte
<1> HIDE DEF k
<1>3. TypeOK'
  BY TypeStep DEF Next
<1>4. NewsInv'
  <2>1. last' = Back(pos', n' - seen')
    BY <1>1, <1>2, BackStep DEF NewsInv, k
  <2>2. \A d \in 1 .. n' - seen' : raw'[Back(pos', d)] = n' + 1 - d
    <3> SUFFICES ASSUME NEW d \in 1 .. k + 1
                 PROVE  raw'[Back(pos', d)] = n' + 1 - d
      BY <1>1
    <3>1. d - 1 \in 0 .. MaxFrame - 1 /\ (d - 1) + 1 = d
      BY <1>1, Sizes
    <3>2. Back(pos', d) = Back(pos, d - 1) /\ Back(pos, d - 1) \in Cells
      BY <1>2, <3>1, BackStep
    <3>3. CASE d = 1
      <4>1. Back(pos', d) = pos
        BY <3>2, <3>1, <3>3, <1>2, BackStep
      <4> QED BY <4>1, <3>3, <1>1, <1>2
    <3>4. CASE d # 1
      <4>1. d - 1 \in 1 .. n - seen
        BY <3>4, <1>1 DEF k
      <4>2. Back(pos, d - 1) # pos
        BY <4>1, <3>1, <1>2, BackStep, <1>1
      <4>3. raw'[Back(pos', d)] = raw[Back(pos, d - 1)]
        BY <3>2, <4>2, <1>2
      <4>4. raw[Back(pos, d - 1)] = n + 1 - (d - 1)
        BY <4>1 DEF NewsInv
      <4> QED BY <4>3, <4>4, <1>1
    <3> QED BY <3>3, <3>4
  <2> QED BY <1>1, <2>1, <2>2, Sizes DEF NewsInv
<1>5. BoundsInv'
  <2>1. \A b \in bounds : b \in Nat /\ b <= n
    BY <1>1 DEF BoundsInv, TypeOK
  <2>2. ~idle
    BY DEF ReceiveByte
  <2>3. \A b \in bounds : b <= seen
    BY <2>2, <1>1, <2>1 DEF BoundsInv
  <2>4. CASE rest = 1
    <3>1. idle' = TRUE /\ bounds' = bounds \cup {n + 1} /\ rest' = 0
      BY <2>4, <1>1 DEF ReceiveByte
    <3>2. \A b \in bounds' : b <= seen' \/ b = n'
      BY <3>1, <2>3, <1>1
    <3>3. seen' \in bounds' /\ n' \in bounds' /\ seen' < n'
      BY <3>1, <1>1 DEF BoundsInv
    <3> QED BY <3>1, <3>2, <3>3 DEF BoundsInv
  <2>5. CASE rest # 1
    <3>1. idle' = idle /\ bounds' = bounds /\ rest' > 0
      BY <2>5, <1>1 DEF ReceiveByte
    <3>2. n + 1 \notin bounds
      BY <2>1, <1>1
    <3>3. seen' \in bounds' /\ \A b \in bounds' : b <= seen' \/ b = n'
      BY <3>1, <2>3, <1>1 DEF BoundsInv
    <3>4. ~idle' /\ rest' # 0 /\ n' \notin bounds'
      BY <3>1, <3>2, <2>2, <1>1
    <3> QED BY <3>3, <3>4 DEF BoundsInv
  <2> QED BY <2>4, <2>5
<1>6. queue' = queue /\ taken' = taken /\ missed' = missed
  BY DEF ReceiveByte
<1>7. QueueInv' /\ Kept'
  BY <1>1, <1>6 DEF QueueInv, Kept, Ends
<1>8. Whole'
  <2> SUFFICES ASSUME NEW i \in 1 .. Len(queue) PROVE Message(queue[i])'
    BY <1>6 DEF Whole
  <2>1. \A j \in 1 .. Len(queue[i]) : queue[i][j] \in bounds' <=> queue[i][j] \in bounds
    <3> TAKE j \in 1 .. Len(queue[i])
    <3>1. queue[i][j] \in Nat /\ queue[i][j] <= seen
      BY BytesOfFrames
    <3>2. queue[i][j] # n + 1
      BY <3>1, <1>1
    <3> QED BY <3>2 DEF ReceiveByte
  <2>2. bounds \subseteq bounds'
    BY DEF ReceiveByte
  <2>3. Len(queue[i]) \in Nat /\ 1 <= Len(queue[i])
    BY BytesOfFrames
  <2>4. \A j \in 1 .. Len(queue[i]) - 1 : j \in 1 .. Len(queue[i])
    BY <2>3
  <2>5. Message(queue[i])
    BY DEF Whole
  <2> QED BY <1>6, <2>1, <2>2, <2>4, <2>5 DEF Message, Consecutive
<1> QED BY <1>3, <1>4, <1>5, <1>7, <1>8

(* When the interrupt runs, the new bytes are one message, which becomes   *)
(* the frame.                                                              *)
LEMMA IdleFrame ==
  ASSUME Good, ProcessIdle
  PROVE  /\ n \in Nat /\ seen \in Nat /\ seen < n /\ n \in bounds
         /\ pos # last
         /\ Frame(last, pos) \in Seq(Nat) /\ Len(Frame(last, pos)) \in 1 .. MaxFrame
         /\ Frame(last, pos)[1] = seen + 1
         /\ Frame(last, pos)[Len(Frame(last, pos))] = n
         /\ Message(Frame(last, pos))
         /\ Frame(last, pos) = [i \in 1 .. n - seen |-> seen + i]
<1> USE DEF Good
<1> DEFINE k == n - seen
           f == [i \in 1 .. k |-> n - k + i]
<1>1. /\ n \in Nat /\ seen \in Nat /\ seen < n /\ n \in bounds
      /\ k \in 1 .. MaxFrame /\ k <= n /\ n - k = seen
  <2>1. n \in Nat /\ seen \in Nat
    BY DEF TypeOK
  <2>2. idle /\ n \in bounds /\ seen < n
    BY DEF ProcessIdle, BoundsInv
  <2> QED BY <2>1, <2>2, Sizes DEF NewsInv
<1>2. pos # last /\ Frame(last, pos) = f
  <2>1. raw \in [Cells -> Nat] /\ pos \in Cells
    BY DEF TypeOK
  <2>2. last = Back(pos, k) /\ \A d \in 1 .. k : raw[Back(pos, d)] = n + 1 - d
    BY DEF NewsInv
  <2> HIDE DEF k
  <2> QED BY <2>1, <2>2, <1>1, FrameOfNews
<1>4. f \in Seq(Nat) /\ Len(f) = k /\ \A i \in 1 .. k : f[i] = seen + i
  <2> HIDE DEF k
  <2> QED BY <1>1
<1>7. f = [i \in 1 .. n - seen |-> seen + i]
  BY <1>1
<1> HIDE DEF k, f
<1>5. f[1] = seen + 1 /\ f[Len(f)] = n
  BY <1>1, <1>4
<1>6. Message(f)
  <2>1. Consecutive(f)
    BY <1>1, <1>4, <1>5 DEF Consecutive
  <2>2. f[1] - 1 \in bounds /\ f[Len(f)] \in bounds
    BY <1>1, <1>5 DEF BoundsInv
  <2>3. \A i \in 1 .. Len(f) - 1 : f[i] \notin bounds
    BY <1>1, <1>4 DEF BoundsInv
  <2> QED BY <2>1, <2>2, <2>3 DEF Message
<1> QED BY <1>1, <1>2, <1>4, <1>5, <1>6, <1>7

(* The interrupt. *)
LEMMA ProcessIdleRx ==
  ASSUME Good, ProcessIdle
  PROVE  Good'
<1> USE DEF Good
<1> DEFINE f == Frame(last, pos)
<1>1. /\ n \in Nat /\ seen \in Nat /\ seen < n /\ n \in bounds
  BY IdleFrame
<1>3. /\ idle' = FALSE /\ seen' = n /\ last' = pos /\ SendFromISR(f)
      /\ raw' = raw /\ pos' = pos /\ n' = n /\ rest' = rest /\ bounds' = bounds /\ taken' = taken
  BY IdleFrame DEF ProcessIdle
<1>4. f \in Seq(Nat) /\ Len(f) \in 1 .. MaxFrame
  BY IdleFrame
<1>5. f[1] = seen + 1 /\ f[Len(f)] = n
  BY IdleFrame
<1>6. Message(f)
  BY IdleFrame
<1> HIDE DEF f
<1>7. TypeOK /\ queue \in Seq(Seq(Nat)) /\ Len(queue) \in Nat /\ Len(queue) <= QueueDepth
  BY DEF TypeOK
<1>8. NewsInv'
  <2>1. seen' <= n' /\ n' - seen' <= MaxFrame /\ n' - seen' = 0
    BY <1>1, <1>3, Sizes
  <2>2. last' = Back(pos', 0)
    BY <1>3, <1>7, Sizes, BackStep DEF TypeOK
  <2> QED BY <2>1, <2>2 DEF NewsInv
<1>9. BoundsInv'
  BY <1>1, <1>3, <1>7 DEF BoundsInv, TypeOK
<1>10. CASE Len(queue) < QueueDepth
  <2>1. queue' = Append(queue, f) /\ missed' = missed
    BY <1>3, <1>10 DEF SendFromISR
  <2>2. /\ queue' \in Seq(Seq(Nat)) /\ Len(queue') = Len(queue) + 1
        /\ \A i \in 1 .. Len(queue) : queue'[i] = queue[i]
        /\ queue'[Len(queue')] = f
    BY <2>1, <1>4, <1>7
  <2>3. \A i \in 1 .. Len(queue') : i \in 1 .. Len(queue) \/ i = Len(queue')
    BY <2>2, <1>7
  <2>4. TypeOK'
    BY TypeStep DEF Next
  <2>5. QueueInv'
    <3>1. taken <= n
      BY <1>1, <1>7 DEF QueueInv, TypeOK
    <3>2. ASSUME NEW i \in 1 .. Len(queue) PROVE queue[i][Len(queue[i])] <= n
      <4>1. queue[i][Len(queue[i])] \in Nat /\ queue[i][Len(queue[i])] <= seen
        BY BytesOfFrames
      <4> QED BY <4>1, <1>1
    <3>3. \A i \in 1 .. Len(queue') : queue'[i][Len(queue'[i])] <= n
      <4> TAKE i \in 1 .. Len(queue')
      <4>1. CASE i \in 1 .. Len(queue)
        BY <4>1, <2>2, <3>2
      <4>2. CASE i = Len(queue')
        <5>1. queue'[i][Len(queue'[i])] = n
          BY <4>2, <2>2, <1>5
        <5> QED BY <5>1, <1>1
      <4> QED BY <4>1, <4>2, <2>3
    <3> QED BY <3>1, <3>3, <2>1, <1>3 DEF QueueInv
  <2>6. Whole'
    <3>1. \A i \in 1 .. Len(queue') : Message(queue'[i])
      BY <2>2, <2>3, <1>6 DEF Whole
    <3> QED BY <3>1, <1>3 DEF Whole, Message, Consecutive
  <2>7. Kept'
    <3>1. seen' \in Ends'
      <4>1. Len(queue') \in 1 .. Len(queue')
        BY <2>2, <1>7
      <4> QED BY <4>1, <2>2, <1>3, <1>5 DEF Ends
    <3>2. ASSUME NEW i \in 1 .. Len(queue'), NEW j \in 1 .. Len(queue'), i < j
          PROVE  queue'[i][Len(queue'[i])] < queue'[j][1]
      <4>1. i \in 1 .. Len(queue) /\ queue'[i] = queue[i]
        BY <3>2, <2>2, <2>3, <1>7
      <4>2. CASE j \in 1 .. Len(queue)
        BY <4>1, <4>2, <3>2, <2>2 DEF Kept
      <4>3. CASE j = Len(queue')
        <5>1. queue[i][Len(queue[i])] \in Nat /\ queue[i][Len(queue[i])] <= seen
          BY <4>1, BytesOfFrames
        <5> QED BY <5>1, <4>1, <4>3, <2>2, <1>1, <1>5
      <4> QED BY <4>2, <4>3, <2>3
    <3>3. ASSUME NEW i \in 1 .. Len(queue') PROVE taken' < queue'[i][1]
      <4>1. CASE i \in 1 .. Len(queue)
        BY <4>1, <2>2, <1>3 DEF Kept
      <4>2. CASE i = Len(queue')
        <5>1. taken \in Nat /\ taken <= seen
          BY DEF TypeOK, QueueInv
        <5> QED BY <5>1, <4>2, <2>2, <1>1, <1>3, <1>5
      <4> QED BY <4>1, <4>2, <2>3
    <3> QED BY <3>1, <3>2, <3>3 DEF Kept
  <2> QED BY <2>4, <2>5, <2>6, <2>7, <1>8, <1>9
<1>11. CASE ~(Len(queue) < QueueDepth)
  <2>1. queue' = queue /\ missed' = n
    BY <1>3, <1>11 DEF SendFromISR
  <2>2. TypeOK'
    BY TypeStep DEF Next
  <2>3. QueueInv'
    <3>1. taken <= n
      BY <1>1, <1>7 DEF QueueInv, TypeOK
    <3>2. ASSUME NEW i \in 1 .. Len(queue) PROVE queue[i][Len(queue[i])] <= n
      <4>1. queue[i][Len(queue[i])] \in Nat /\ queue[i][Len(queue[i])] <= seen
        BY BytesOfFrames
      <4> QED BY <4>1, <1>1
    <3> QED BY <3>1, <3>2, <2>1, <1>1, <1>3 DEF QueueInv
  <2>4. Whole'
    BY <2>1, <1>3 DEF Whole, Message, Consecutive
  <2>5. Kept'
    BY <2>1, <1>3 DEF Kept, Ends
  <2> QED BY <2>2, <2>3, <2>4, <2>5, <1>8, <1>9
<1> QED BY <1>10, <1>11

(* The task takes the oldest frame. *)
LEMMA ReceiveRx ==
  ASSUME Good, Receive
  PROVE  Good'
<1> USE DEF Good
<1> DEFINE h == queue[1]
<1>1. queue \in Seq(Seq(Nat)) /\ queue # << >> /\ Len(queue) \in Nat /\ 1 \in 1 .. Len(queue)
  BY DEF TypeOK, Receive
<1>2. /\ queue' \in Seq(Seq(Nat)) /\ Len(queue') = Len(queue) - 1
      /\ \A i \in 1 .. Len(queue') : queue'[i] = queue[i + 1] /\ i + 1 \in 1 .. Len(queue)
      /\ taken' = h[Len(h)]
  BY <1>1 DEF Receive
<1>3. /\ raw' = raw /\ pos' = pos /\ n' = n /\ rest' = rest /\ idle' = idle /\ last' = last
      /\ bounds' = bounds /\ seen' = seen /\ missed' = missed
  BY DEF Receive, line
<1>4. taken' \in Nat /\ taken' <= seen /\ h[1] \in Nat /\ h[1] <= seen
  BY <1>1, <1>2, BytesOfFrames
<1>5. TypeOK'
  BY TypeStep DEF Next
<1>6. NewsInv' /\ BoundsInv'
  BY <1>3 DEF NewsInv, BoundsInv
<1>7. QueueInv'
  <2>1. \A i \in 1 .. Len(queue') : queue'[i][Len(queue'[i])] <= seen
    BY <1>2 DEF QueueInv
  <2> QED BY <2>1, <1>3, <1>4 DEF QueueInv
<1>8. Whole'
  <2>1. \A i \in 1 .. Len(queue') : Message(queue'[i])
    BY <1>2 DEF Whole
  <2> QED BY <2>1, <1>3 DEF Whole, Message, Consecutive
<1>9. Kept'
  <2>1. ASSUME seen > 0 PROVE seen \in Ends' \cup {taken', missed'}
    <3>1. seen \in Ends \cup {taken, missed}
      BY <2>1 DEF Kept
    <3>2. taken < h[1] /\ taken \in Nat /\ seen \in Nat
      BY <1>1 DEF Kept, TypeOK
    <3>3. seen # taken
      BY <3>2, <1>4
    <3>4. ASSUME seen \in Ends PROVE seen \in Ends' \cup {taken'}
      <4>1. PICK i \in 1 .. Len(queue) : seen = queue[i][Len(queue[i])]
        BY <3>4 DEF Ends
      <4>2. CASE i = 1
        BY <4>1, <4>2, <1>2
      <4>3. CASE i # 1
        <5>1. i - 1 \in 1 .. Len(queue') /\ queue'[i - 1] = queue[i]
          BY <4>3, <1>1, <1>2
        <5> QED BY <5>1, <4>1 DEF Ends
      <4> QED BY <4>2, <4>3
    <3> QED BY <3>1, <3>3, <3>4, <1>3
  <2>2. ASSUME NEW i \in 1 .. Len(queue'), NEW j \in 1 .. Len(queue'), i < j
        PROVE  queue'[i][Len(queue'[i])] < queue'[j][1]
    <3>1. /\ queue'[i] = queue[i + 1] /\ i + 1 \in 1 .. Len(queue)
          /\ queue'[j] = queue[j + 1] /\ j + 1 \in 1 .. Len(queue)
      BY <1>2
    <3>2. i + 1 < j + 1
      BY <2>2, <1>1, <1>2
    <3> QED BY <3>1, <3>2 DEF Kept
  <2>3. ASSUME NEW i \in 1 .. Len(queue') PROVE taken' < queue'[i][1]
    <3>1. queue'[i] = queue[i + 1] /\ i + 1 \in 1 .. Len(queue) /\ 1 < i + 1
      BY <1>1, <1>2
    <3> QED BY <3>1, <1>1, <1>2 DEF Kept
  <2> QED BY <2>1, <2>2, <2>3, <1>3 DEF Kept
<1> QED BY <1>5, <1>6, <1>7, <1>8, <1>9

(* However late the interrupt is and however long the messages, positions  *)
(* and counts agree up to whole laps, and as long as messages fitted the   *)
(* driver's invariant holds.                                               *)
THEOREM RxInvariant == Spec => []RxInv
<1>1. Init => RxInv
  BY LapsInit, InitRx DEF RxInv, Good
<1>2. RxInv /\ [Next]_vars => RxInv'
  <2> SUFFICES ASSUME RxInv, [Next]_vars PROVE RxInv'
    OBVIOUS
  <2>1. TypeOK' /\ LapsInv'
    BY TypeStep, LapsStep DEF RxInv
  <2>2. ASSUME fits' PROVE Good'
    <3>1. Good
      <4>1. fits
        BY <2>2 DEF Next, BeginBurst, ReceiveByte, ProcessIdle, Receive, Quiet, line, vars
      <4> QED BY <4>1 DEF RxInv, Good
    <3>2. CASE BeginBurst
      BY <2>2, <3>1, <3>2, BeginBurstRx
    <3>3. CASE ReceiveByte
      BY <2>2, <3>1, <3>3, ReceiveByteRx
    <3>4. CASE ProcessIdle
      BY <3>1, <3>4, ProcessIdleRx
    <3>5. CASE Receive
      BY <3>1, <3>5, ReceiveRx
    <3>6. CASE UNCHANGED vars
      BY <3>1, <3>6 DEF vars, line, Good, TypeOK, NewsInv, BoundsInv, QueueInv,
                        Whole, Message, Consecutive, Kept, Ends
    <3> QED BY <3>2, <3>3, <3>4, <3>5, <3>6 DEF Next, Quiet
  <2> QED BY <2>1, <2>2 DEF RxInv, Good
<1> QED BY <1>1, <1>2, PTL DEF Spec

(* As long as the interrupt was in time and messages fitted, every frame   *)
(* in the queue is one whole message, wherever the DMA buffer wrapped.     *)
THEOREM WholeFrames == Spec => []FramesAreMessages
<1>1. RxInv => FramesAreMessages
  BY DEF RxInv, FramesAreMessages
<1> QED BY <1>1, RxInvariant, PTL

(* As long as that is so, the driver loses no message in silence and       *)
(* queues none twice.                                                      *)
THEOREM NoneLost == Spec => []NothingLost
<1>1. RxInv => NothingLost
  BY DEF RxInv, NothingLost
<1> QED BY <1>1, RxInvariant, PTL

(* However late the interrupt is and however long the messages, the        *)
(* interrupt queues nothing only when nothing came, or when what came      *)
(* filled the buffer a whole number of times.                              *)
THEOREM ReturnsOnLaps == Spec => ReturnsOnlyOnLaps
<1>1. RxInv /\ RxInv' /\ [Next]_vars
        => [ProcessIdle /\ queue' = queue /\ missed' = missed
              => \E k \in 0 .. n : n = seen + k * BufSize]_vars
  <2> SUFFICES ASSUME RxInv, RxInv', ProcessIdle, queue' = queue, missed' = missed
               PROVE  \E k \in 0 .. n : n = seen + k * BufSize
    OBVIOUS
  <2>1. TypeOK /\ LapsInv
    BY DEF RxInv
  <2>2. CASE pos = last
    BY <2>1, <2>2, SamePosition
  <2>3. CASE pos # last /\ Len(queue) < QueueDepth
    <3>1. Frame(last, pos) \in Seq(Nat) /\ queue \in Seq(Seq(Nat))
      BY <2>1, <2>3, FrameFits DEF TypeOK
    <3>2. queue = Append(queue, Frame(last, pos))
      BY <2>3 DEF ProcessIdle, SendFromISR
    <3> QED BY <3>1, <3>2
  <2>4. CASE pos # last /\ ~(Len(queue) < QueueDepth)
    <3>1. missed = n
      BY <2>4 DEF ProcessIdle, SendFromISR
    <3>2. missed <= seen /\ seen <= n
      BY <2>1 DEF LapsInv, TypeOK
    <3>3. n \in Nat /\ seen \in Nat /\ missed \in Nat
      BY <2>1 DEF TypeOK
    <3>4. n = seen + 0 * BufSize /\ 0 \in 0 .. n
      BY <3>1, <3>2, <3>3, Sizes
    <3> QED BY <3>4
  <2> QED BY <2>2, <2>3, <2>4
<1> QED BY <1>1, RxInvariant, PTL DEF Spec, ReturnsOnlyOnLaps

(* The end of a message, a run of the interrupt and a receive are steps of *)
(* the message stream; nothing else changes what it shows.                 *)
LEMMA StreamStep ==
  ASSUME RxInv, [Next]_vars
  PROVE  Abstract!Next \/ UNCHANGED Abstract!streamVars
<1>0. SUFFICES ASSUME fits'
               PROVE  (Abstract!Next /\ fits) \/ UNCHANGED Abstract!streamVars
  BY DEF Abstract!Next
<1>f. fits /\ Good /\ fits' = fits
  <2>1. fits
    BY <1>0 DEF Next, BeginBurst, ReceiveByte, ProcessIdle, Receive, Quiet, line, vars
  <2>2. fits \in BOOLEAN /\ fits' \in BOOLEAN
    BY TypeStep DEF RxInv, TypeOK
  <2> QED BY <2>1, <2>2, <1>0 DEF RxInv, Good
<1>1. CASE ReceiveByte
  <2>1. /\ UNCHANGED <<seen, queue>>
        /\ bounds' = bounds \/ bounds' = bounds \cup {n + 1}
    BY <1>1 DEF ReceiveByte
  <2>2. n + 1 \in Nat /\ \A b \in bounds : b < n + 1
    <3>1. n \in Nat /\ seen \in Nat /\ seen <= n /\ bounds \subseteq Nat
      BY <1>f DEF Good, TypeOK, NewsInv
    <3> QED BY <3>1, <1>f DEF Good, BoundsInv
  <2> QED BY <2>1, <2>2, <1>0, <1>f DEF Abstract!Next, Abstract!Arrive, Abstract!streamVars
<1>2. CASE ProcessIdle
  <2>1. /\ n \in bounds /\ seen < n /\ pos # last
        /\ Frame(last, pos) = [i \in 1 .. n - seen |-> seen + i]
    BY <1>2, <1>f, IdleFrame
  <2>2. \A b \in bounds : b <= seen \/ n <= b
    <3>1. n \in Nat
      BY <1>f DEF Good, TypeOK
    <3> QED BY <3>1, <1>f DEF Good, BoundsInv
  <2>3. /\ seen' = n /\ UNCHANGED bounds /\ SendFromISR(Frame(last, pos))
    BY <1>2, <2>1 DEF ProcessIdle
  <2>4. queue' = IF Len(queue) < QueueDepth THEN Append(queue, Abstract!MessageTo(n))
                                            ELSE queue
    BY <2>1, <2>3 DEF SendFromISR, Abstract!MessageTo
  <2>5. Abstract!Handle
    BY <2>1, <2>2, <2>3, <2>4 DEF Abstract!Handle
  <2> QED BY <2>5, <1>0, <1>f DEF Abstract!Next
<1>3. CASE Receive
  BY <1>0, <1>f, <1>3 DEF Receive, line, Abstract!Next, Abstract!Take
<1>4. CASE BeginBurst \/ Quiet \/ UNCHANGED vars
  BY <1>4, <1>f DEF BeginBurst, Quiet, vars, line, Abstract!streamVars
<1> QED BY <1>1, <1>2, <1>3, <1>4 DEF Next

(* The DMA, the interrupt and the queue implement the message stream.      *)
THEOREM Refinement == Spec => StreamSpec
<1>1. Init => Abstract!Init
  BY DEF Init, Abstract!Init
<1>2. RxInv /\ [Next]_vars => [Abstract!Next]_(Abstract!streamVars)
  BY StreamStep
<1> QED BY <1>1, <1>2, RxInvariant, PTL DEF Spec, StreamSpec, Abstract!Spec
=============================================================================
