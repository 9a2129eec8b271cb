-------------------------------- MODULE EthRx --------------------------------
(***************************************************************************)
(* Receiving through the Ethernet driver of the gateway without copies.    *)
(*                                                                         *)
(* The DMA fills descriptors.  eth_thread takes their buffers out, chains  *)
(* them to a frame, gives the frame to the stack, and gets new buffers     *)
(* from the pool for the descriptors.  The stack gives buffers back when   *)
(* it likes.  When the pool was empty, RxAllocStatus stops eth_thread      *)
(* until a buffer comes back.  The link thread stops and starts all this.  *)
(*                                                                         *)
(* The threads of the stack have a higher priority than eth_thread, and    *)
(* eth_thread a higher one than the link thread.  So giving a buffer back  *)
(* is one step, and the link thread runs only while eth_thread waits.      *)
(***************************************************************************)
EXTENDS Integers, Sequences, FiniteSets

CONSTANTS
  Buffers,    (* RX_POOL                                                   *)
  NoBuf,      (* NULL                                                      *)
  Descs,      (* ETH_RX_DESC_CNT                                           *)
  BufLen,     (* RxBuffLen, what the DMA writes into one buffer            *)
  FrameLens,  (* lengths of frames, with their checksum                    *)
  MaxFrames,  (* bound on frames                                           *)
  MaxStops    (* bound on stops of the driver                              *)

(* "Rx Buffers number: ETH_RX_BUFFER_CNT must be greater than              *)
(* ETH_RX_DESC_CNT."  The longest frame of Ethernet fits two buffers.      *)
ASSUME EthRxAssumption ==
  /\ NoBuf \notin Buffers /\ IsFiniteSet(Buffers)
  /\ Descs \in Nat \ {0} /\ Cardinality(Buffers) > Descs
  /\ BufLen \in Nat /\ FrameLens \subseteq 4 .. 2 * BufLen
  /\ MaxFrames \in Nat /\ MaxStops \in Nat

VARIABLES
  own,       (* descriptors with OWN                                       *)
  buf,       (* BackupAddr0                                                *)
  addr,      (* DESC2: where the DMA writes                                *)
  part,      (* DESC0: the part of a frame that came last: number of the   *)
             (* frame, first, last, length of the frame, cut off           *)
  dma,       (* the descriptor the DMA will fill                           *)
  mid,       (* the frame it is in the middle of, or 0                     *)
  frames,    (* frames that have come                                      *)
  rxOn,      (* the receiver of the MAC and the DMA are on                 *)
  flag,      (* RS or RBUS is set                                          *)
  sem,       (* g_rx_semaphore is available                                *)
  started,   (* gState = HAL_ETH_STATE_STARTED, interrupts enabled         *)
  lpc,       (* the link thread                                            *)
  stops,     (* stops so far                                               *)
  epc,       (* eth_thread                                                 *)
  read,      (* RxDescIdx                                                  *)
  build,     (* RxBuildDescIdx                                             *)
  unbuilt,   (* RxBuildDescCnt                                             *)
  chain,     (* the list from pRxStart                                     *)
  total,     (* tot_len of its first buffer                                *)
  error,     (* RxAllocStatus = RX_ALLOC_ERROR                             *)
  pool, held,(* buffers in the pool; buffers that the stack has            *)
  given,     (* history: the last frame given to the stack                 *)
  raced,     (* history: a buffer came back between a failed allocation    *)
             (* and the store of RX_ALLOC_ERROR                            *)
  shifted    (* history: a start found descriptors unread or not built     *)

list   == <<chain, total>>
hw     == <<own, buf, addr, part, dma, mid, frames, rxOn, flag>>
link   == <<started, lpc, stops>>
reader == <<epc, read, build, unbuilt, list, given>>
heap   == <<error, pool, held>>
vars   == <<hw, sem, link, reader, heap, raced, shifted>>

Ring == 0 .. Descs - 1
After(i) == (i + 1) % Descs
NoPart == [f |-> 0, fs |-> FALSE, ls |-> FALSE, len |-> 0, cut |-> FALSE]
Parts  == [f : 0 .. MaxFrames, fs : BOOLEAN, ls : BOOLEAN, len : FrameLens \cup {0}, cut : BOOLEAN]

TypeOK ==
  /\ own \subseteq Ring /\ buf \in [Ring -> Buffers \cup {NoBuf}]
  /\ addr \in [Ring -> Buffers] /\ part \in [Ring -> Parts]
  /\ dma \in Ring /\ mid \in 0 .. MaxFrames /\ frames \in 0 .. MaxFrames
  /\ rxOn \in BOOLEAN /\ flag \in BOOLEAN /\ sem \in BOOLEAN /\ started \in BOOLEAN
  /\ lpc \in {"run", "stopping", "down", "building", "failed"}
  /\ stops \in 0 .. MaxStops
  /\ epc \in {"wait", "look", "reading", "building", "failed", "give"}
  /\ read \in Ring /\ build \in Ring /\ unbuilt \in 0 .. Descs
  /\ chain \in Seq([buf : Buffers, part : Parts]) /\ total \in Int
  /\ error \in BOOLEAN /\ pool \subseteq Buffers /\ held \subseteq Buffers
  /\ given \in 0 .. MaxFrames /\ raced \in BOOLEAN /\ shifted \in BOOLEAN

(* After HAL_ETH_Start_IT in low_level_init: every descriptor has a buffer *)
(* and belongs to the DMA.                                                 *)
Init ==
  /\ own = Ring
  /\ buf \in [Ring -> Buffers] /\ \A i, j \in Ring : buf[i] = buf[j] => i = j
  /\ addr = buf
  /\ pool = Buffers \ {buf[i] : i \in Ring} /\ held = {}
  /\ part = [i \in Ring |-> NoPart]
  /\ dma = 0 /\ mid = 0 /\ frames = 0 /\ rxOn = TRUE /\ flag = FALSE
  /\ sem = FALSE /\ started = TRUE /\ lpc = "run" /\ stops = 0
  /\ epc = "wait" /\ read = 0 /\ build = 0 /\ unbuilt = 0 /\ chain = << >> /\ total = 0
  /\ error = FALSE /\ given = 0 /\ raced = FALSE /\ shifted = FALSE
-----------------------------------------------------------------------------
(* The DMA and the interrupt. *)

Filled(p) ==
  /\ own' = own \ {dma}
  /\ part' = [part EXCEPT ![dma] = p]
  /\ dma' = After(dma)
  /\ flag' = (flag \/ p.ls)

(* A frame comes.  A long one goes on in the next descriptor, or is cut    *)
(* off when the DMA does not own that one; its length is then not valid.   *)
DmaFirst ==
  /\ rxOn /\ mid = 0 /\ frames < MaxFrames /\ dma \in own
  /\ frames' = frames + 1
  /\ \E n \in FrameLens :
       \/ /\ n <= BufLen
          /\ Filled([f |-> frames', fs |-> TRUE, ls |-> TRUE, len |-> n, cut |-> FALSE])
          /\ mid' = 0
       \/ /\ n > BufLen /\ After(dma) \in own \ {dma}
          /\ Filled([f |-> frames', fs |-> TRUE, ls |-> FALSE, len |-> 0, cut |-> FALSE])
          /\ mid' = frames'
       \/ /\ n > BufLen /\ After(dma) \notin own \ {dma}
          /\ \E any \in FrameLens :
               Filled([f |-> frames', fs |-> TRUE, ls |-> TRUE, len |-> any, cut |-> TRUE])
          /\ mid' = 0
  /\ UNCHANGED <<buf, addr, rxOn, sem, link, reader, heap, raced, shifted>>

(* The rest of it, also while the receiver is being turned off. *)
DmaLast ==
  /\ mid # 0 /\ dma \in own
  /\ \E n \in FrameLens :
       /\ n > BufLen
       /\ Filled([f |-> mid, fs |-> FALSE, ls |-> TRUE, len |-> n, cut |-> FALSE])
  /\ mid' = 0
  /\ UNCHANGED <<buf, addr, frames, rxOn, sem, link, reader, heap, raced, shifted>>

(* A frame comes and there is no descriptor: it is lost, and RBUS is set.  *)
DmaNone ==
  /\ rxOn /\ mid = 0 /\ frames < MaxFrames /\ dma \notin own
  /\ frames' = frames + 1
  /\ flag' = TRUE
  /\ UNCHANGED <<own, buf, addr, part, dma, mid, rxOn, sem, link, reader, heap, raced, shifted>>

(* HAL_ETH_IRQHandler, with the callbacks for RS and RBUS. *)
Interrupt ==
  /\ started /\ flag
  /\ flag' = FALSE /\ sem' = TRUE
  /\ UNCHANGED <<own, buf, addr, part, dma, mid, frames, rxOn, link, reader, heap, raced, shifted>>
-----------------------------------------------------------------------------
(* ETH_UpdateDescriptor, by eth_thread or the link thread.                 *)

Building == epc = "building" \/ lpc = "building"
Failing  == epc = "failed" \/ lpc = "failed"

ToDma ==
  /\ own' = own \cup {build}
  /\ part' = [part EXCEPT ![build] = NoPart]
  /\ build' = After(build)
  /\ unbuilt' = unbuilt - 1

(* One descriptor: HAL_ETH_RxAllocateCallback when it has no buffer. *)
BuildOne ==
  /\ Building /\ unbuilt > 0
  /\ \/ /\ buf[build] # NoBuf
        /\ ToDma /\ UNCHANGED <<buf, addr, pool>>
     \/ /\ buf[build] = NoBuf /\ pool # {}
        /\ LET b == CHOOSE x \in pool : TRUE
           IN  /\ buf' = [buf EXCEPT ![build] = b]
               /\ addr' = [addr EXCEPT ![build] = b]
               /\ pool' = pool \ {b}
        /\ ToDma
  /\ UNCHANGED <<dma, mid, frames, rxOn, flag, sem, link, epc, read, list, given,
                 error, held, raced, shifted>>

(* The pool is empty. *)
BuildFails ==
  /\ Building /\ unbuilt > 0 /\ buf[build] = NoBuf /\ pool = {}
  /\ IF epc = "building" THEN epc' = "failed" /\ UNCHANGED lpc
                         ELSE lpc' = "failed" /\ UNCHANGED epc
  /\ UNCHANGED <<hw, sem, started, stops, read, build, unbuilt, list, given, heap,
                 raced, shifted>>

(* HAL_ETH_ReadData returns the frame if its last part was linked. *)
Whole == chain # << >> /\ chain[Len(chain)].part.ls
EndRead == epc' = IF Whole THEN "give" ELSE "wait"

(* The end of HAL_ETH_Start_IT. *)
EndStart == started' = TRUE /\ rxOn' = TRUE /\ lpc' = "run"

BuildEnds ==
  /\ \/ Building /\ unbuilt = 0 /\ UNCHANGED error
     \/ Failing /\ error' = TRUE
  /\ IF epc \in {"building", "failed"} THEN EndRead /\ UNCHANGED <<started, rxOn, lpc>>
                                       ELSE EndStart /\ UNCHANGED epc
  /\ UNCHANGED <<own, buf, addr, part, dma, mid, frames, flag, sem, stops, read, build, unbuilt,
                 list, given, pool, held, raced, shifted>>

UpdateDescriptor == BuildOne \/ BuildFails \/ BuildEnds
-----------------------------------------------------------------------------
(* eth_thread: ethernetif_input.                                           *)

TakeSemaphore ==
  /\ epc = "wait" /\ sem
  /\ sem' = FALSE /\ epc' = "look"
  /\ UNCHANGED <<hw, link, read, build, unbuilt, list, given, heap, raced, shifted>>

(* low_level_input and the first tests of HAL_ETH_ReadData. *)
Look ==
  /\ epc = "look"
  /\ epc' = IF error \/ ~started THEN "wait" ELSE "reading"
  /\ UNCHANGED <<hw, sem, link, read, build, unbuilt, list, given, heap, raced, shifted>>

(* Mutant of Detach: the descriptor keeps the buffer. *)
Attached(i) == UNCHANGED buf

Detach(i) == buf' = [buf EXCEPT ![i] = NoBuf]

(* The loop of HAL_ETH_ReadData goes on. *)
More == read \notin own /\ unbuilt < Descs /\ ~Whole

(* The length that is linked for a part: the last one has that of the      *)
(* whole frame, less the checksum.  That it was cut off is not looked at.  *)
Linked(p) == IF p.ls THEN p.len - 4 ELSE BufLen

(* HAL_ETH_RxLinkCallback. *)
RxLink(b, p) ==
  /\ chain' = Append(chain, [buf |-> b, part |-> p])
  /\ total' = total + Linked(p)

(* One descriptor: DESC2 is linked.  A part that begins no frame and       *)
(* continues none is left with its buffer.  DESC0 and DESC2 stay.          *)
ReadOne ==
  /\ epc = "reading" /\ More
  /\ IF part[read].fs \/ chain # << >>
     THEN RxLink(addr[read], part[read]) /\ Detach(read)
     ELSE UNCHANGED <<list, buf>>
  /\ read' = After(read)
  /\ unbuilt' = unbuilt + 1
  /\ UNCHANGED <<own, addr, part, dma, mid, frames, rxOn, flag, sem, link, epc, build,
                 given, heap, raced, shifted>>

ReadEnds ==
  /\ epc = "reading" /\ ~More
  /\ epc' = "building"
  /\ UNCHANGED <<hw, sem, link, read, build, unbuilt, list, given, heap, raced, shifted>>

(* Mutant of Refilled: eth_thread is not told. *)
RefilledUntold == error' = FALSE /\ UNCHANGED sem

Refilled == error' = FALSE /\ sem' = (sem \/ error)

(* pbuf_free_custom, for each buffer of bs. *)
FreeAll(bs) == pool' = pool \cup bs /\ Refilled

(* Mutant of ResetChain: pRxStart stays. *)
KeepChain == UNCHANGED list

ResetChain == chain' = << >> /\ total' = 0

(* netif->input puts the frame into the mailbox of the stack, or fails. *)
Give ==
  /\ epc = "give"
  /\ LET bs == {chain[i].buf : i \in 1 .. Len(chain)}
     IN  \/ held' = held \cup bs /\ UNCHANGED <<pool, error, sem>>
         \/ FreeAll(bs) /\ UNCHANGED held
  /\ given' = chain[1].part.f
  /\ ResetChain
  /\ epc' = "look"
  /\ UNCHANGED <<hw, link, read, build, unbuilt, raced, shifted>>

EthThread ==
  TakeSemaphore \/ Look \/ ReadOne \/ ReadEnds \/ Give
    \/ (epc \in {"building", "failed"} /\ UpdateDescriptor)
-----------------------------------------------------------------------------
(* The stack gives a buffer back. *)
StackFree ==
  /\ \E b \in held : held' = held \ {b} /\ FreeAll({b})
  /\ raced' = (raced \/ Failing)
  /\ UNCHANGED <<hw, link, reader, shifted>>
-----------------------------------------------------------------------------
(* The link thread. *)

LinkRuns == epc = "wait" /\ ~sem

(* HAL_ETH_Stop_IT: first the interrupts, then the receiver. *)
StopInterrupts ==
  /\ lpc = "run" /\ stops < MaxStops /\ LinkRuns
  /\ lpc' = "stopping" /\ started' = FALSE /\ stops' = stops + 1
  /\ UNCHANGED <<hw, sem, reader, heap, raced, shifted>>

StopReceiver ==
  /\ lpc = "stopping" /\ LinkRuns
  /\ lpc' = "down" /\ rxOn' = FALSE
  /\ UNCHANGED <<own, buf, addr, part, dma, mid, frames, flag, sem, started, stops, reader,
                 heap, raced, shifted>>

(* HAL_ETH_Start_IT builds all the descriptors, from wherever              *)
(* RxBuildDescIdx is; RxDescIdx stays.                                     *)
StartBuild ==
  /\ lpc = "down" /\ mid = 0 /\ LinkRuns
  /\ lpc' = "building" /\ unbuilt' = Descs
  /\ shifted' = (shifted \/ unbuilt # 0 \/ own # Ring \/ chain # << >>)
  /\ UNCHANGED <<hw, sem, started, stops, epc, read, build, list, given, heap, raced>>

LinkThread ==
  \/ StopInterrupts \/ StopReceiver \/ StartBuild
  \/ lpc \in {"building", "failed"} /\ LinkRuns /\ UpdateDescriptor

Next ==
  \/ DmaFirst \/ DmaLast \/ DmaNone \/ Interrupt
  \/ EthThread \/ StackFree \/ LinkThread

Spec == Init /\ [][Next]_vars

(* The threads run, the hardware works, the stack keeps no buffer for ever *)
(* and the link thread starts again what it stopped.                       *)
Fair ==
  /\ WF_vars(DmaLast) /\ WF_vars(Interrupt) /\ WF_vars(EthThread)
  /\ \A b \in Buffers : WF_vars(StackFree /\ b \in held /\ b \notin held')
  /\ SF_vars(LinkThread /\ lpc # "run")
FairSpec == Spec /\ Fair
-----------------------------------------------------------------------------
(* Properties. *)

(* Unless a start found the ring in use, a buffer is in exactly one place: *)
(* the pool, a descriptor, the chain or the stack.  So the DMA never       *)
(* writes into what the stack is reading, and none is lost, whatever       *)
(* allocations fail.                                                       *)
InChain == {chain[i].buf : i \in 1 .. Len(chain)}
InDesc  == {buf[i] : i \in Ring} \ {NoBuf}
OnePlace ==
  ~shifted =>
    /\ Buffers = pool \cup held \cup InChain \cup InDesc
    /\ pool \cap held = {} /\ InChain \cap InDesc = {}
    /\ (pool \cup held) \cap (InChain \cup InDesc) = {}
    /\ \A i, j \in Ring : buf[i] = buf[j] /\ buf[i] # NoBuf => i = j
    /\ \A i, j \in 1 .. Len(chain) : chain[i].buf = chain[j].buf => i = j
    /\ \A i \in Ring : buf[i] # NoBuf => addr[i] = buf[i]

(* And reader and builder agree: what is read and not built lies between   *)
(* their indices, and all the other descriptors have a buffer.             *)
Span(i, n) == {(i + k) % Descs : k \in 0 .. n - 1}
InStep ==
  ~shifted =>
    /\ (build + unbuilt) % Descs = read
    /\ Span(build, unbuilt) \cap own = {} \/ lpc \in {"building", "failed"}
    /\ \A i \in Ring \ Span(build, unbuilt) : buf[i] # NoBuf

RxInv == TypeOK /\ OnePlace /\ InStep

(* What eth_thread gives to the stack is all the parts of one frame, and   *)
(* frames come in the order of the wire, unless a start found the ring in  *)
(* use.  A frame of one part has the length it had, one of two is handed   *)
(* on a buffer longer than it was, and one that was cut off as if it were  *)
(* whole, with any length.                                                 *)
WholeInOrder ==
  epc = "give" /\ ~shifted =>
    LET n    == Len(chain)
        last == chain[n].part
    IN  /\ chain[1].part.f > given
        /\ \A i \in 1 .. n :
             LET p == chain[i].part
             IN  p.f = chain[1].part.f /\ (p.fs <=> i = 1) /\ (p.ls <=> i = n)
        /\ ~last.cut =>
             /\ n = IF last.len > BufLen THEN 2 ELSE 1
             /\ total = last.len - 4 + (n - 1) * BufLen

(* "If the Rx Buffer Pool was exhausted, signal the ethernetif_input task  *)
(* ... to rebuild the Rx descriptors": a frame in the ring does not stay   *)
(* there, unless a buffer came back at the one wrong moment, a start found *)
(* the ring in use or the driver was stopped.                              *)
Complete(f) ==
  \E i \in Ring \ Span(build, unbuilt) : part[i].f = f /\ part[i].ls
FramesTaken ==
  \A f \in 1 .. MaxFrames : Complete(f) ~> (~Complete(f) \/ raced \/ shifted \/ ~started)
=============================================================================
