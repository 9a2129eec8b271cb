----------------------------- MODULE EthRxProofs -----------------------------
(***************************************************************************)
(* Proofs about EthRx: unless a start found the ring in use, a buffer of   *)
(* the receiver is in one place, reader and builder agree, and the stack   *)
(* gets whole frames in order, for every size of the ring and of the pool. *)
(***************************************************************************)
EXTENDS EthRx, SequenceTheorems, TLAPS

USE DEF list

LEMMA Sizes ==
  /\ Descs \in Nat /\ 0 < Descs /\ NoBuf \notin Buffers /\ MaxFrames \in Nat
  /\ MaxStops \in Nat /\ BufLen \in Nat /\ FrameLens \subseteq Int
  BY EthRxAssumption
-----------------------------------------------------------------------------
(* The ring. *)

(* Positions up to one round ahead. *)
LEMMA Wrap ==
  ASSUME NEW i \in Ring, NEW k \in 0 .. Descs
  PROVE  /\ (i + k) % Descs \in Ring
         /\ (i + k) % Descs = IF i + k < Descs THEN i + k ELSE i + k - Descs
<1>1. Descs \in Nat /\ 0 < Descs /\ i \in Nat /\ i < Descs /\ k \in Nat /\ k <= Descs
  BY Sizes DEF Ring
<1>2. CASE i + k < Descs
  BY <1>1, <1>2 DEF Ring
<1>3. CASE ~(i + k < Descs)
  BY <1>1, <1>3 DEF Ring
<1> QED BY <1>2, <1>3

LEMMA AfterIs ==
  ASSUME NEW i \in Ring
  PROVE  After(i) \in Ring /\ After(i) = IF i + 1 = Descs THEN 0 ELSE i + 1
<1>1. Descs \in Nat /\ 0 < Descs /\ i \in Nat /\ i < Descs /\ 1 \in 0 .. Descs
  BY Sizes DEF Ring
<1> QED BY <1>1, Wrap DEF After

(* How far j lies ahead of i. *)
Ahead(i, j) == IF i <= j THEN j - i ELSE j - i + Descs

(* The span of n positions from i is what lies less than n ahead of i. *)
LEMMA InSpan ==
  ASSUME NEW i \in Ring, NEW n \in 0 .. Descs
  PROVE  /\ Span(i, n) \subseteq Ring
         /\ \A j \in Ring : j \in Span(i, n) <=> Ahead(i, j) < n
<1>0. Descs \in Nat /\ 0 < Descs /\ i \in Nat /\ i < Descs /\ n \in Nat /\ n <= Descs
  BY Sizes DEF Ring
<1>1. \A k \in 0 .. n - 1 : k \in 0 .. Descs /\ k < n
  BY <1>0
<1>2. Span(i, n) \subseteq Ring
  BY <1>1, Wrap DEF Span
<1>3. ASSUME NEW j \in Ring, j \in Span(i, n)
      PROVE  Ahead(i, j) < n
  <2>1. PICK k \in 0 .. n - 1 : j = (i + k) % Descs
    BY <1>3 DEF Span
  <2>2. j = IF i + k < Descs THEN i + k ELSE i + k - Descs
    BY <2>1, <1>1, Wrap
  <2> QED BY <2>2, <1>0 DEF Ahead
<1>4. ASSUME NEW j \in Ring, Ahead(i, j) < n
      PROVE  j \in Span(i, n)
  <2>1. j \in Nat /\ j < Descs
    BY <1>0 DEF Ring
  <2>2. Ahead(i, j) \in 0 .. n - 1
    BY <1>0, <1>4, <2>1 DEF Ahead
  <2>3. (i + Ahead(i, j)) % Descs = j
    <3>1. (i + Ahead(i, j)) % Descs
            = IF i + Ahead(i, j) < Descs THEN i + Ahead(i, j) ELSE i + Ahead(i, j) - Descs
      BY <2>2, <1>1, Wrap
    <3> QED BY <3>1, <2>1, <1>0 DEF Ahead
  <2> QED BY <2>2, <2>3 DEF Span
<1> QED BY <1>2, <1>3, <1>4

(* Reading: the span grows at its end, by the descriptor that was read. *)
LEMMA SpanGrows ==
  ASSUME NEW i \in Ring, NEW n \in 0 .. Descs, n < Descs, NEW r, r = (i + n) % Descs
  PROVE  /\ r \in Ring \ Span(i, n)
         /\ (i + (n + 1)) % Descs = After(r)
         /\ Span(i, n + 1) = Span(i, n) \cup {r}
<1>0. Descs \in Nat /\ 0 < Descs /\ i \in Nat /\ i < Descs /\ n \in Nat /\ n + 1 \in 0 .. Descs
  BY Sizes DEF Ring
<1>1. r \in Ring /\ r = IF i + n < Descs THEN i + n ELSE i + n - Descs
  BY Wrap
<1>2. Ahead(i, r) = n
  BY <1>0, <1>1 DEF Ahead
<1>3. (i + (n + 1)) % Descs = After(r)
  <2>1. (i + (n + 1)) % Descs
          = IF i + (n + 1) < Descs THEN i + (n + 1) ELSE i + (n + 1) - Descs
    BY <1>0, Wrap
  <2> QED BY <2>1, <1>0, <1>1, AfterIs
<1>4. \A j \in Ring : Ahead(i, j) < n + 1 <=> Ahead(i, j) < n \/ j = r
  BY <1>0, <1>1 DEF Ahead, Ring
<1>5. r \notin Span(i, n)
  BY <1>0, <1>1, <1>2, InSpan
<1>6. Span(i, n + 1) = Span(i, n) \cup {r}
  BY <1>0, <1>1, <1>4, InSpan
<1> QED BY <1>1, <1>3, <1>5, <1>6

(* Building: it shrinks at its start, by the descriptor that was built. *)
LEMMA SpanShrinks ==
  ASSUME NEW i \in Ring, NEW n \in 0 .. Descs, n > 0
  PROVE  /\ n - 1 \in 0 .. Descs
         /\ (After(i) + (n - 1)) % Descs = (i + n) % Descs
         /\ i \notin Span(After(i), n - 1)
         /\ Span(i, n) = Span(After(i), n - 1) \cup {i}
<1>0. /\ Descs \in Nat /\ 0 < Descs /\ i \in Nat /\ i < Descs
      /\ n \in Nat /\ n <= Descs /\ n - 1 \in 0 .. Descs
  BY Sizes DEF Ring
<1>1. After(i) \in Ring /\ After(i) = IF i + 1 = Descs THEN 0 ELSE i + 1
  BY AfterIs
<1>2. (After(i) + (n - 1)) % Descs = (i + n) % Descs
  <2>1. (After(i) + (n - 1)) % Descs
          = IF After(i) + (n - 1) < Descs THEN After(i) + (n - 1) ELSE After(i) + (n - 1) - Descs
    BY <1>0, <1>1, Wrap
  <2>2. (i + n) % Descs = IF i + n < Descs THEN i + n ELSE i + n - Descs
    BY Wrap
  <2> QED BY <2>1, <2>2, <1>0, <1>1
<1>3. Ahead(After(i), i) = Descs - 1
  BY <1>0, <1>1 DEF Ahead
<1>4. i \notin Span(After(i), n - 1)
  BY <1>0, <1>1, <1>3, InSpan
<1>5. \A j \in Ring : Ahead(i, j) < n <=> Ahead(After(i), j) < n - 1 \/ j = i
  BY <1>0, <1>1 DEF Ahead, Ring
<1>6. Span(i, n) = Span(After(i), n - 1) \cup {i}
  BY <1>0, <1>1, <1>5, InSpan
<1> QED BY <1>0, <1>2, <1>4, <1>6

(* Nothing, and the whole ring. *)
LEMMA SpanEnds ==
  ASSUME NEW i \in Ring
  PROVE  /\ Span(i, 0) = {} /\ (i + 0) % Descs = i
         /\ Span(i, Descs) = Ring /\ (i + Descs) % Descs = i
<1>0. Descs \in Nat /\ 0 < Descs /\ i \in Nat /\ i < Descs /\ 0 \in 0 .. Descs /\ Descs \in 0 .. Descs
  BY Sizes DEF Ring
<1>1. \A j \in Ring : 0 <= Ahead(i, j) /\ Ahead(i, j) < Descs
  BY <1>0 DEF Ahead, Ring
<1>2. Span(i, 0) = {}
  <2> SUFFICES ASSUME NEW j \in Span(i, 0) PROVE FALSE
    OBVIOUS
  <2>1. j \in Ring /\ Ahead(i, j) < 0
    BY <1>0, InSpan
  <2> QED BY <2>1, <1>0 DEF Ahead, Ring
<1>3. Span(i, Descs) = Ring
  BY <1>0, <1>1, InSpan
<1>4. (i + 0) % Descs = i
  BY <1>0, Wrap
<1>5. (i + Descs) % Descs = i
  BY <1>0, Wrap
<1> QED BY <1>2, <1>3, <1>4, <1>5
-----------------------------------------------------------------------------
(* The inductive invariant.  The link thread builds only while eth_thread  *)
(* waits or finds the driver stopped; its start needs no new buffer when   *)
(* every descriptor has one.                                               *)
Links ==
  /\ started <=> lpc = "run"
  /\ lpc # "run" => epc \in {"wait", "look"}
  /\ epc = "give" => chain # << >>
  /\ ~shifted =>
       /\ lpc # "failed"
       /\ lpc = "building" => \A i \in Ring : buf[i] # NoBuf

IInv == RxInv /\ Links

Part == [buf : Buffers, part : Parts]

LEMMA Initially == Init => IInv
<1> SUFFICES ASSUME Init PROVE IInv
  OBVIOUS
<1>1. 0 \in Ring /\ 0 \in 0 .. Descs /\ 0 \in 0 .. MaxFrames /\ 0 \in 0 .. MaxStops
  BY Sizes DEF Ring
<1>2. NoPart \in Parts
  BY <1>1 DEF NoPart, Parts
<1>3. chain \in Seq(Part) /\ Len(chain) = 0
  BY DEF Init
<1>4. InChain = {}
  BY <1>3 DEF InChain
<1>5. TypeOK
  BY <1>1, <1>2, <1>3 DEF Init, TypeOK, Part
<1>6. InDesc = {buf[i] : i \in Ring}
  BY Sizes DEF Init, InDesc
<1>7. OnePlace
  BY <1>3, <1>4, <1>6, Sizes DEF Init, OnePlace, InDesc
<1>8. InStep
  <2>1. (build + unbuilt) % Descs = read /\ Span(build, unbuilt) = {}
    BY <1>1, SpanEnds DEF Init
  <2> QED BY <2>1, Sizes DEF Init, InStep
<1>9. Links
  BY <1>3 DEF Init, Links
<1> QED BY <1>5, <1>7, <1>8, <1>9 DEF IInv, RxInv

(* What the invariant says of the buffers and of the ring stays when what  *)
(* it speaks of stays.                                                     *)
LEMMA KeepsPlaces ==
  ASSUME OnePlace, UNCHANGED <<shifted, pool, held, chain, buf, addr>>
  PROVE  OnePlace'
  BY DEF OnePlace, InChain, InDesc

LEMMA Keeps ==
  ASSUME OnePlace, InStep,
         UNCHANGED <<shifted, pool, held, chain, buf, addr, build, unbuilt, read>>,
         own' \subseteq own, lpc' = lpc \/ lpc \notin {"building", "failed"}
  PROVE  OnePlace' /\ InStep'
<1>1. OnePlace'
  BY KeepsPlaces
<1>2. InStep'
  BY DEF InStep, Span
<1> QED BY <1>1, <1>2

(* A part that the DMA writes says what it is. *)
Proper(p) ==
  p.f # 0 =>
    /\ p.ls => p.len \in FrameLens
    /\ ~p.fs => p.ls /\ ~p.cut /\ p.len > BufLen
    /\ p.fs /\ p.ls /\ ~p.cut => p.len <= BufLen

LEMMA DmaFirstFills ==
  ASSUME TypeOK, DmaFirst
  PROVE  \E p \in Parts : /\ Filled(p) /\ Proper(p) /\ p.fs /\ p.f = frames'
                         /\ mid' = IF p.ls THEN 0 ELSE frames'
<1>1. frames' \in 0 .. MaxFrames
  BY Sizes DEF TypeOK, DmaFirst
<1>2. PICK n \in FrameLens :
        \/ /\ n <= BufLen
           /\ Filled([f |-> frames', fs |-> TRUE, ls |-> TRUE, len |-> n, cut |-> FALSE])
           /\ mid' = 0
        \/ /\ n > BufLen
           /\ Filled([f |-> frames', fs |-> TRUE, ls |-> FALSE, len |-> 0, cut |-> FALSE])
           /\ mid' = frames'
        \/ /\ n > BufLen
           /\ \E any \in FrameLens :
                Filled([f |-> frames', fs |-> TRUE, ls |-> TRUE, len |-> any, cut |-> TRUE])
           /\ mid' = 0
  BY DEF DmaFirst
<1> DEFINE q(ls, len, cut) == [f |-> frames', fs |-> TRUE, ls |-> ls, len |-> len, cut |-> cut]
<1>3. CASE n <= BufLen /\ Filled(q(TRUE, n, FALSE)) /\ mid' = 0
  <2>1. q(TRUE, n, FALSE) \in Parts /\ Proper(q(TRUE, n, FALSE))
    BY <1>1, <1>3 DEF Parts, Proper
  <2> QED BY <1>3, <2>1
<1>4. CASE Filled(q(FALSE, 0, FALSE)) /\ mid' = frames'
  <2>1. q(FALSE, 0, FALSE) \in Parts /\ Proper(q(FALSE, 0, FALSE))
    BY <1>1 DEF Parts, Proper
  <2> QED BY <1>4, <2>1
<1>5. CASE (\E any \in FrameLens : Filled(q(TRUE, any, TRUE))) /\ mid' = 0
  <2>1. PICK any \in FrameLens : Filled(q(TRUE, any, TRUE))
    BY <1>5
  <2>2. q(TRUE, any, TRUE) \in Parts /\ Proper(q(TRUE, any, TRUE))
    BY <1>1 DEF Parts, Proper
  <2> QED BY <1>5, <2>1, <2>2
<1> QED BY <1>2, <1>3, <1>4, <1>5

LEMMA DmaLastFills ==
  ASSUME TypeOK, DmaLast
  PROVE  \E p \in Parts : Filled(p) /\ Proper(p) /\ ~p.fs /\ p.ls /\ p.f = mid
<1>1. PICK n \in FrameLens :
        /\ n > BufLen
        /\ Filled([f |-> mid, fs |-> FALSE, ls |-> TRUE, len |-> n, cut |-> FALSE])
  BY DEF DmaLast
<1> DEFINE p == [f |-> mid, fs |-> FALSE, ls |-> TRUE, len |-> n, cut |-> FALSE]
<1>2. p \in Parts /\ Proper(p)
  BY <1>1 DEF TypeOK, Parts, Proper
<1> QED BY <1>1, <1>2

LEMMA HardwareStep ==
  ASSUME IInv, DmaFirst \/ DmaLast \/ DmaNone \/ Interrupt
  PROVE  IInv'
<1> USE DEF IInv, RxInv
<1>1. own' \subseteq own /\ UNCHANGED <<started, lpc, epc, chain, shifted, buf, addr,
                                       read, build, unbuilt, pool, held>>
  BY DEF DmaFirst, DmaLast, DmaNone, Interrupt, Filled, link, reader, heap
<1>2. OnePlace' /\ InStep'
  BY <1>1, Keeps
<1>3. Links'
  BY <1>1 DEF Links
<1>4. TypeOK'
  <2>1. frames < MaxFrames => frames + 1 \in 0 .. MaxFrames
    BY Sizes DEF TypeOK
  <2>2. ASSUME NEW p \in Parts, Filled(p)
        PROVE  own' \subseteq Ring /\ part' \in [Ring -> Parts] /\ dma' \in Ring /\ flag' \in BOOLEAN
    <3>1. After(dma) \in Ring /\ p.ls \in BOOLEAN
      BY AfterIs DEF TypeOK, Parts
    <3> QED BY <2>2, <3>1 DEF Filled, TypeOK
  <2>3. CASE DmaFirst
    <3>1. PICK p \in Parts : Filled(p) /\ mid' \in {0, frames'}
      BY <2>3, DmaFirstFills
    <3>2. frames' \in 0 .. MaxFrames /\ 0 \in 0 .. MaxFrames
      BY <2>1, <2>3, Sizes DEF DmaFirst
    <3>3. own' \subseteq Ring /\ part' \in [Ring -> Parts] /\ dma' \in Ring /\ flag' \in BOOLEAN
      BY <3>1, <2>2
    <3> QED BY <2>3, <3>1, <3>2, <3>3 DEF DmaFirst, TypeOK, link, reader, heap
  <2>4. CASE DmaLast
    <3>1. 0 \in 0 .. MaxFrames
      BY Sizes
    <3>2. PICK p \in Parts : Filled(p)
      BY <2>4, DmaLastFills
    <3>3. own' \subseteq Ring /\ part' \in [Ring -> Parts] /\ dma' \in Ring /\ flag' \in BOOLEAN
      BY <3>2, <2>2
    <3> QED BY <2>4, <3>1, <3>3 DEF DmaLast, TypeOK, link, reader, heap
  <2>5. CASE DmaNone
    BY <2>1, <2>5 DEF DmaNone, TypeOK, link, reader, heap
  <2>6. CASE Interrupt
    BY <2>6 DEF Interrupt, TypeOK, link, reader, heap
  <2> QED BY <2>3, <2>4, <2>5, <2>6
<1> QED BY <1>2, <1>3, <1>4

(* A step of a thread that moves no buffer and no index. *)
LEMMA QuietStep ==
  ASSUME IInv, TakeSemaphore \/ Look \/ ReadEnds \/ StopInterrupts \/ StopReceiver
  PROVE  IInv'
<1> USE DEF IInv, RxInv
<1>1. /\ own' = own
      /\ UNCHANGED <<shifted, pool, held, chain, buf, addr, build, unbuilt, read>>
      /\ lpc' = lpc \/ lpc \notin {"building", "failed"}
  BY DEF TakeSemaphore, Look, ReadEnds, StopInterrupts, StopReceiver, hw, link, reader, heap
<1>2. OnePlace' /\ InStep'
  BY <1>1, Keeps
<1>3. Links'
  BY DEF Links, TakeSemaphore, Look, ReadEnds, StopInterrupts, StopReceiver, hw, link,
         reader, heap, LinkRuns
<1>4. TypeOK'
  <2>1. stops < MaxStops => stops + 1 \in 0 .. MaxStops
    BY Sizes DEF TypeOK
  <2>2. CASE TakeSemaphore \/ Look \/ ReadEnds
    <3>1. sem' \in BOOLEAN /\ epc' \in {"wait", "look", "reading", "building", "failed", "give"}
      BY <2>2 DEF TypeOK, TakeSemaphore, Look, ReadEnds
    <3>2. UNCHANGED <<hw, link, read, build, unbuilt, list, given, heap, raced, shifted>>
      BY <2>2 DEF TakeSemaphore, Look, ReadEnds
    <3> QED BY <3>1, <3>2 DEF TypeOK, hw, link, reader, heap
  <2>3. CASE StopInterrupts
    BY <2>1, <2>3 DEF TypeOK, StopInterrupts, hw, link, reader, heap
  <2>4. CASE StopReceiver
    BY <2>4 DEF TypeOK, StopReceiver, hw, link, reader, heap
  <2> QED BY <2>2, <2>3, <2>4
<1> QED BY <1>2, <1>3, <1>4

(* The buffers of the chain after one more part. *)
LEMMA ChainGrows ==
  ASSUME chain \in Seq(Part), NEW p \in Part, chain' = Append(chain, p)
  PROVE  /\ chain' \in Seq(Part) /\ chain' # << >>
         /\ InChain' = InChain \cup {p.buf}
         /\ (\A i, j \in 1 .. Len(chain) : chain[i].buf = chain[j].buf => i = j)
              /\ p.buf \notin InChain
            => \A i, j \in 1 .. Len(chain') : chain'[i].buf = chain'[j].buf => i = j
<1>1. /\ chain' \in Seq(Part) /\ chain' # << >>
      /\ Len(chain') = Len(chain) + 1 /\ Len(chain) \in Nat
      /\ \A i \in 1 .. Len(chain) : chain'[i] = chain[i]
      /\ chain'[Len(chain) + 1] = p
  BY AppendProperties
<1>2. InChain' = InChain \cup {p.buf}
  <2>1. ASSUME NEW b \in InChain' PROVE b \in InChain \cup {p.buf}
    BY <1>1, <2>1 DEF InChain
  <2>2. ASSUME NEW b \in InChain PROVE b \in InChain'
    <3>1. PICK i \in 1 .. Len(chain) : b = chain[i].buf
      BY <2>2 DEF InChain
    <3>2. i \in 1 .. Len(chain') /\ chain'[i] = chain[i]
      BY <1>1
    <3> QED BY <3>1, <3>2 DEF InChain
  <2>3. p.buf \in InChain'
    <3>1. Len(chain) + 1 \in 1 .. Len(chain')
      BY <1>1
    <3> QED BY <3>1, <1>1 DEF InChain
  <2> QED BY <2>1, <2>2, <2>3
<1>3. ASSUME \A i, j \in 1 .. Len(chain) : chain[i].buf = chain[j].buf => i = j,
             p.buf \notin InChain,
             NEW i \in 1 .. Len(chain'), NEW j \in 1 .. Len(chain'),
             chain'[i].buf = chain'[j].buf
      PROVE  i = j
  <2>1. \A k \in 1 .. Len(chain) : chain'[k].buf # p.buf
    BY <1>1, <1>3 DEF InChain
  <2>2. CASE i \in 1 .. Len(chain) /\ j \in 1 .. Len(chain)
    BY <1>1, <1>3, <2>2
  <2>3. CASE ~(i \in 1 .. Len(chain) /\ j \in 1 .. Len(chain))
    BY <1>1, <1>3, <2>1, <2>3
  <2> QED BY <2>2, <2>3
<1> QED BY <1>1, <1>2, <1>3

(* Taking a descriptor out of the ring moves its buffer to the chain. *)
LEMMA ReadStep ==
  ASSUME IInv, ReadOne
  PROVE  IInv'
<1> USE DEF IInv, RxInv
<1>1. /\ read \in Ring /\ build \in Ring /\ unbuilt \in 0 .. Descs /\ unbuilt < Descs
      /\ chain \in Seq(Part) /\ read \notin own
      /\ lpc = "run" /\ epc = "reading"
      /\ read' = After(read) /\ unbuilt' = unbuilt + 1
      /\ UNCHANGED <<own, addr, lpc, epc, build, shifted, pool, held, started>>
  BY DEF ReadOne, RxLink, More, TypeOK, Links, Part, link, heap
<1>2. read' \in Ring /\ unbuilt' \in 0 .. Descs
  BY <1>1, Sizes, AfterIs
<1> DEFINE p == [buf |-> addr[read], part |-> part[read]]
<1>3. p \in Part
  BY <1>1 DEF TypeOK, Part
<1>4. \/ chain' = Append(chain, p) /\ buf' = [buf EXCEPT ![read] = NoBuf]
      \/ UNCHANGED <<chain, buf>>
  BY DEF ReadOne, RxLink, Detach
<1>5. chain' \in Seq(Part) /\ buf' \in [Ring -> Buffers \cup {NoBuf}]
  BY <1>1, <1>3, <1>4, ChainGrows DEF TypeOK
<1>6. TypeOK'
  <2>1. part[read].len \in Int /\ part[read].ls \in BOOLEAN
    <3>1. part[read] \in Parts
      BY <1>1 DEF TypeOK
    <3>2. FrameLens \cup {0} \subseteq Int
      BY Sizes
    <3> QED BY <3>1, <3>2 DEF Parts
  <2>2. total' \in Int
    BY <2>1, Sizes DEF TypeOK, ReadOne, RxLink, Linked
  <2> QED BY <1>1, <1>2, <1>5, <2>2 DEF TypeOK, Part, ReadOne, RxLink, link, heap
<1>7. ASSUME ~shifted PROVE
        /\ read \in Ring \ Span(build, unbuilt)
        /\ (build + unbuilt') % Descs = read'
        /\ Span(build, unbuilt') = Span(build, unbuilt) \cup {read}
        /\ buf[read] # NoBuf /\ addr[read] = buf[read]
  <2>1. (build + unbuilt) % Descs = read
    BY <1>7 DEF InStep
  <2>2. /\ read \in Ring \ Span(build, unbuilt)
        /\ (build + (unbuilt + 1)) % Descs = After(read)
        /\ Span(build, unbuilt + 1) = Span(build, unbuilt) \cup {read}
    BY <1>1, <2>1, SpanGrows
  <2>3. buf[read] # NoBuf
    BY <1>7, <2>2 DEF InStep
  <2> QED BY <1>1, <1>7, <2>2, <2>3 DEF OnePlace
<1>8. OnePlace'
  <2> SUFFICES ASSUME ~shifted PROVE OnePlace'
    BY <1>1 DEF OnePlace
  <2>1. CASE UNCHANGED <<chain, buf>>
    BY <1>1, <2>1, KeepsPlaces
  <2>2. CASE chain' = Append(chain, p) /\ buf' = [buf EXCEPT ![read] = NoBuf]
    <3> DEFINE b == buf[read]
    <3>1. p.buf = b /\ b \in InDesc /\ b \in Buffers
      BY <1>1, <1>7 DEF InDesc, TypeOK
    <3>2. /\ Buffers = pool \cup held \cup InChain \cup InDesc
          /\ pool \cap held = {} /\ InChain \cap InDesc = {}
          /\ (pool \cup held) \cap (InChain \cup InDesc) = {}
          /\ \A i, j \in Ring : buf[i] = buf[j] /\ buf[i] # NoBuf => i = j
          /\ \A i, j \in 1 .. Len(chain) : chain[i].buf = chain[j].buf => i = j
          /\ \A i \in Ring : buf[i] # NoBuf => addr[i] = buf[i]
      BY DEF OnePlace
    <3>3. InDesc' = InDesc \ {b}
      BY <1>1, <1>7, <2>2, <3>2 DEF InDesc, TypeOK
    <3>4. /\ InChain' = InChain \cup {b}
          /\ \A i, j \in 1 .. Len(chain') : chain'[i].buf = chain'[j].buf => i = j
      BY <1>1, <1>3, <2>2, <3>1, <3>2, ChainGrows
    <3>5. /\ \A i, j \in Ring : buf'[i] = buf'[j] /\ buf'[i] # NoBuf => i = j
          /\ \A i \in Ring : buf'[i] # NoBuf => addr'[i] = buf'[i]
      BY <1>1, <2>2, <3>2 DEF TypeOK
    <3>6. /\ Buffers = pool \cup held \cup InChain' \cup InDesc'
          /\ InChain' \cap InDesc' = {}
          /\ (pool \cup held) \cap (InChain' \cup InDesc') = {}
      BY <3>1, <3>2, <3>3, <3>4
    <3> QED BY <1>1, <3>2, <3>4, <3>5, <3>6 DEF OnePlace
  <2> QED BY <1>4, <2>1, <2>2
<1>9. InStep'
  <2> SUFFICES ASSUME ~shifted PROVE InStep'
    BY <1>1 DEF InStep
  <2>1. Span(build, unbuilt)' = Span(build, unbuilt')
    BY <1>1 DEF Span
  <2>2. Span(build, unbuilt) \cap own = {}
    BY <1>1 DEF InStep
  <2>3. Span(build, unbuilt') \cap own' = {}
    BY <1>1, <1>7, <2>2
  <2>4. \A i \in Ring \ Span(build, unbuilt') : buf'[i] # NoBuf
    BY <1>1, <1>4, <1>7 DEF InStep, TypeOK
  <2> QED BY <1>1, <1>7, <2>1, <2>3, <2>4 DEF InStep
<1>10. Links'
  BY <1>1 DEF Links
<1> QED BY <1>6, <1>8, <1>9, <1>10

(* Building a descriptor gives it a buffer of the pool if it has none, and *)
(* takes it out of the span.                                               *)
LEMMA BuildStep ==
  ASSUME IInv, BuildOne
  PROVE  IInv'
<1> USE DEF IInv, RxInv
<1>1. /\ build \in Ring /\ unbuilt \in 0 .. Descs /\ unbuilt > 0
      /\ own' = own \cup {build} /\ build' = After(build) /\ unbuilt' = unbuilt - 1
      /\ part' = [part EXCEPT ![build] = NoPart]
      /\ lpc # "building" => lpc = "run" /\ epc = "building"
      /\ UNCHANGED <<lpc, epc, started, read, chain, held, shifted>>
  BY DEF BuildOne, ToDma, Building, TypeOK, Links, link
<1>2. /\ unbuilt' \in 0 .. Descs /\ build' \in Ring
      /\ (build' + unbuilt') % Descs = (build + unbuilt) % Descs
      /\ build \notin Span(build', unbuilt')
      /\ Span(build, unbuilt) = Span(build', unbuilt') \cup {build}
  BY <1>1, SpanShrinks, AfterIs
<1>3. \/ buf[build] # NoBuf /\ UNCHANGED <<buf, addr, pool>>
      \/ /\ buf[build] = NoBuf
         /\ \E b \in pool : /\ buf' = [buf EXCEPT ![build] = b]
                           /\ addr' = [addr EXCEPT ![build] = b]
                           /\ pool' = pool \ {b}
  BY DEF BuildOne
<1>4. /\ buf' \in [Ring -> Buffers \cup {NoBuf}] /\ addr' \in [Ring -> Buffers]
      /\ pool' \subseteq Buffers
      /\ \A i \in Ring : (buf[i] # NoBuf \/ i = build) => buf'[i] # NoBuf
  BY <1>1, <1>3, Sizes DEF TypeOK
<1>5. part' \in [Ring -> Parts]
  <2>1. NoPart \in Parts
    BY Sizes DEF NoPart, Parts
  <2> QED BY <1>1, <2>1 DEF TypeOK
<1>6. TypeOK'
  BY <1>1, <1>2, <1>4, <1>5 DEF TypeOK, BuildOne, link
<1>7. OnePlace'
  <2> SUFFICES ASSUME ~shifted PROVE OnePlace'
    BY <1>1 DEF OnePlace
  <2>1. CASE UNCHANGED <<buf, addr, pool>>
    BY <1>1, <2>1, KeepsPlaces
  <2>2. ASSUME buf[build] = NoBuf, NEW b \in pool, buf' = [buf EXCEPT ![build] = b],
               addr' = [addr EXCEPT ![build] = b], pool' = pool \ {b}
        PROVE  OnePlace'
    <3>1. b \in Buffers /\ b # NoBuf
      BY <2>2, Sizes DEF TypeOK
    <3>2. /\ Buffers = pool \cup held \cup InChain \cup InDesc
          /\ pool \cap held = {} /\ InChain \cap InDesc = {}
          /\ (pool \cup held) \cap (InChain \cup InDesc) = {}
          /\ \A i, j \in Ring : buf[i] = buf[j] /\ buf[i] # NoBuf => i = j
          /\ \A i, j \in 1 .. Len(chain) : chain[i].buf = chain[j].buf => i = j
          /\ \A i \in Ring : buf[i] # NoBuf => addr[i] = buf[i]
      BY DEF OnePlace
    <3>3. InDesc' = InDesc \cup {b}
      BY <1>1, <2>2, <3>1 DEF InDesc, TypeOK
    <3>4. InChain' = InChain
      BY <1>1 DEF InChain
    <3>5. b \notin InDesc
      BY <2>2, <3>2
    <3>6. \A i \in Ring : buf[i] # b
      BY <3>1, <3>5 DEF InDesc
    <3>7. /\ \A i, j \in Ring : buf'[i] = buf'[j] /\ buf'[i] # NoBuf => i = j
          /\ \A i \in Ring : buf'[i] # NoBuf => addr'[i] = buf'[i]
      BY <1>1, <2>2, <3>2, <3>6 DEF TypeOK
    <3>8. /\ Buffers = pool' \cup held \cup InChain' \cup InDesc'
          /\ pool' \cap held = {} /\ InChain' \cap InDesc' = {}
          /\ (pool' \cup held) \cap (InChain' \cup InDesc') = {}
      BY <2>2, <3>2, <3>3, <3>4
    <3> QED BY <1>1, <3>2, <3>7, <3>8 DEF OnePlace
  <2> QED BY <1>3, <2>1, <2>2
<1>8. InStep'
  <2> SUFFICES ASSUME ~shifted PROVE InStep'
    BY <1>1 DEF InStep
  <2>1. Span(build, unbuilt)' = Span(build', unbuilt')
    BY DEF Span
  <2>2. (build' + unbuilt') % Descs = read'
    BY <1>1, <1>2 DEF InStep
  <2>3. Span(build', unbuilt') \cap own' = {} \/ lpc' \in {"building", "failed"}
    BY <1>1, <1>2 DEF InStep
  <2>4. \A i \in Ring \ Span(build', unbuilt') : buf'[i] # NoBuf
    BY <1>2, <1>4 DEF InStep
  <2> QED BY <2>1, <2>2, <2>3, <2>4 DEF InStep
<1>9. Links'
  BY <1>1, <1>3, <1>4 DEF Links
<1> QED BY <1>6, <1>7, <1>8, <1>9

(* An empty pool: only eth_thread can meet it in step. *)
LEMMA FailsStep ==
  ASSUME IInv, BuildFails
  PROVE  IInv'
<1> USE DEF IInv, RxInv
<1>1. /\ build \in Ring /\ buf[build] = NoBuf
      /\ lpc # "building" => lpc = "run"
      /\ UNCHANGED <<own, started, read, build, unbuilt, chain, pool, held, shifted, buf, addr>>
  BY DEF BuildFails, Building, TypeOK, Links, hw, heap
<1>2. ~shifted => epc = "building" /\ lpc = "run"
  BY <1>1 DEF BuildFails, Building, Links
<1>3. epc = "building" => lpc = "run" /\ epc' = "failed" /\ lpc' = lpc
  BY <1>1 DEF BuildFails, Links
<1>4. epc # "building" => lpc = "building" /\ lpc' = "failed" /\ epc' = epc
  BY DEF BuildFails, Building
<1>5. TypeOK'
  BY <1>1, <1>3, <1>4 DEF TypeOK, BuildFails, hw, heap
<1>6. OnePlace' /\ InStep'
  <2>1. CASE shifted
    BY <1>1, <2>1 DEF OnePlace, InStep
  <2>2. CASE ~shifted
    BY <1>1, <1>2, <1>3, <2>2, Keeps
  <2> QED BY <2>1, <2>2
<1>7. Links'
  BY <1>1, <1>2, <1>3, <1>4 DEF Links
<1> QED BY <1>5, <1>6, <1>7

LEMMA EndsStep ==
  ASSUME IInv, BuildEnds
  PROVE  IInv'
<1> USE DEF IInv, RxInv
<1>1. UNCHANGED <<own, buf, addr, read, build, unbuilt, chain, pool, held, shifted>>
  BY DEF BuildEnds
<1>2. /\ epc \in {"building", "failed"} =>
           lpc = "run" /\ EndRead /\ UNCHANGED <<started, rxOn, lpc>>
      /\ epc \notin {"building", "failed"} =>
           /\ lpc \in {"building", "failed"} /\ epc \in {"wait", "look"}
           /\ EndStart /\ UNCHANGED epc
  BY DEF BuildEnds, Building, Failing, Links
<1>3. epc' = "give" => chain # << >>
  BY <1>2 DEF EndRead, Whole
<1>4. TypeOK'
  <2>1. /\ epc' \in {"wait", "look", "reading", "building", "failed", "give"}
        /\ lpc' \in {"run", "stopping", "down", "building", "failed"}
        /\ started' \in BOOLEAN /\ rxOn' \in BOOLEAN /\ error' \in BOOLEAN
    BY <1>2 DEF TypeOK, EndRead, EndStart, BuildEnds
  <2> QED BY <1>1, <2>1 DEF TypeOK, BuildEnds
<1>5. OnePlace'
  BY <1>1, KeepsPlaces
<1>6. InStep'
  <2> SUFFICES ASSUME ~shifted PROVE InStep'
    BY <1>1 DEF InStep
  <2>1. Span(build, unbuilt)' = Span(build, unbuilt)
    BY <1>1 DEF Span
  <2>2. CASE epc \in {"building", "failed"}
    BY <1>1, <1>2, <2>1, <2>2 DEF InStep
  <2>3. CASE epc \notin {"building", "failed"}
    <3>1. unbuilt = 0 /\ build \in Ring
      BY <1>2, <2>3 DEF BuildEnds, Failing, Links, TypeOK
    <3>2. Span(build, unbuilt) = {}
      BY <3>1, SpanEnds
    <3> QED BY <1>1, <2>1, <3>2 DEF InStep
  <2> QED BY <2>2, <2>3
<1>7. Links'
  BY <1>1, <1>2, <1>3 DEF Links, EndStart, EndRead
<1> QED BY <1>4, <1>5, <1>6, <1>7

(* The chain goes to the stack, or back to the pool.                       *)
LEMMA GiveStep ==
  ASSUME IInv, Give
  PROVE  IInv'
<1> USE DEF IInv, RxInv
<1>1. /\ chain \in Seq(Part) /\ chain # << >> /\ lpc = "run"
      /\ chain' = << >> /\ total' = 0 /\ epc' = "look" /\ given' = chain[1].part.f
      /\ UNCHANGED <<own, buf, addr, lpc, started, read, build, unbuilt, shifted>>
  BY DEF Give, ResetChain, TypeOK, Links, Part, hw, link
<1>2. /\ \/ held' = held \cup InChain /\ pool' = pool
         \/ pool' = pool \cup InChain /\ held' = held
      /\ error' \in BOOLEAN /\ sem' \in BOOLEAN
  BY DEF Give, FreeAll, Refilled, InChain, TypeOK
<1>3. \A i \in 1 .. Len(chain) : chain[i] \in Part
  BY <1>1
<1>4. InChain \subseteq Buffers
  BY <1>3 DEF InChain, Part
<1>5. given' \in 0 .. MaxFrames
  <2>1. 1 \in 1 .. Len(chain)
    BY <1>1
  <2> QED BY <1>1, <1>3, <2>1 DEF Part, Parts
<1>6. chain' \in Seq(Part) /\ Len(chain') = 0
  BY <1>1
<1>7. TypeOK'
  BY <1>1, <1>2, <1>4, <1>5, <1>6 DEF TypeOK, Give, Part, hw, link
<1>8. OnePlace'
  <2>1. InChain' = {} /\ InDesc' = InDesc
    BY <1>1, <1>6 DEF InChain, InDesc
  <2> QED BY <1>1, <1>2, <1>6, <2>1 DEF OnePlace
<1>9. InStep'
  BY <1>1 DEF InStep, Span
<1>10. Links'
  BY <1>1 DEF Links
<1> QED BY <1>7, <1>8, <1>9, <1>10

LEMMA FreeStep ==
  ASSUME IInv, StackFree
  PROVE  IInv'
<1> USE DEF IInv, RxInv
<1>1. PICK b \in held : held' = held \ {b} /\ pool' = pool \cup {b} /\ Refilled
  BY DEF StackFree, FreeAll
<1>2. UNCHANGED <<hw, link, reader, shifted>> /\ raced' = (raced \/ Failing)
  BY DEF StackFree
<1>3. TypeOK'
  <2>1. error' \in BOOLEAN /\ sem' \in BOOLEAN /\ raced' \in BOOLEAN
    BY <1>1, <1>2 DEF Refilled, Failing, TypeOK
  <2> QED BY <1>1, <1>2, <2>1 DEF TypeOK, hw, link, reader
<1>4. OnePlace'
  <2>1. InChain' = InChain /\ InDesc' = InDesc
    BY <1>2 DEF InChain, InDesc, hw, reader
  <2> QED BY <1>1, <1>2, <2>1 DEF OnePlace, hw, reader
<1>5. InStep'
  BY <1>2 DEF InStep, Span, hw, link, reader
<1>6. Links'
  BY <1>2 DEF Links, hw, link, reader
<1> QED BY <1>3, <1>4, <1>5, <1>6

(* A start that is in step finds nothing to read or to build, so every     *)
(* descriptor has its buffer.                                              *)
LEMMA StartStep ==
  ASSUME IInv, StartBuild
  PROVE  IInv'
<1> USE DEF IInv, RxInv
<1>1. /\ lpc = "down" /\ lpc' = "building" /\ epc = "wait" /\ unbuilt' = Descs
      /\ shifted' = (shifted \/ unbuilt # 0 \/ own # Ring \/ chain # << >>)
      /\ UNCHANGED <<hw, sem, started, epc, read, build, list, given, heap, raced, stops>>
  BY DEF StartBuild, LinkRuns
<1>2. UNCHANGED <<own, buf, addr, pool, held>>
  BY <1>1 DEF hw, heap
<1>3. build \in Ring
  BY DEF TypeOK
<1>4. TypeOK'
  <2>1. unbuilt' \in 0 .. Descs /\ shifted' \in BOOLEAN
    BY <1>1, Sizes DEF TypeOK
  <2> QED BY <1>1, <2>1 DEF TypeOK, hw, heap
<1>5. CASE shifted'
  BY <1>1, <1>4, <1>5 DEF OnePlace, InStep, Links
<1>6. CASE ~shifted'
  <2>1. ~shifted /\ unbuilt = 0
    BY <1>1, <1>6 DEF TypeOK
  <2>2. Span(build, 0) = {} /\ (build + 0) % Descs = build /\ (build + Descs) % Descs = build
    BY <1>3, SpanEnds
  <2>3. read = build /\ \A i \in Ring : buf[i] # NoBuf
    BY <2>1, <2>2 DEF InStep
  <2>4. OnePlace'
    BY <1>1, <1>2, <1>6, <2>1, KeepsPlaces DEF TypeOK
  <2>5. InStep'
    <3>1. (build' + unbuilt') % Descs = read' /\ lpc' \in {"building", "failed"}
      BY <1>1, <2>2, <2>3
    <3> QED BY <1>2, <2>3, <3>1 DEF InStep
  <2>6. Links'
    BY <1>1, <1>2, <2>3 DEF Links
  <2> QED BY <1>4, <2>4, <2>5, <2>6
<1> QED BY <1>5, <1>6

LEMMA StepInv ==
  ASSUME IInv, [Next]_vars
  PROVE  IInv'
<1>1. CASE Next
  <2>1. UpdateDescriptor => IInv'
    BY BuildStep, FailsStep, EndsStep DEF UpdateDescriptor
  <2>2. EthThread => IInv'
    BY <2>1, QuietStep, ReadStep, GiveStep DEF EthThread
  <2>3. LinkThread => IInv'
    BY <2>1, QuietStep, StartStep DEF LinkThread
  <2> QED BY <1>1, <2>2, <2>3, HardwareStep, FreeStep DEF Next
<1>2. CASE UNCHANGED vars
  <2>1. UNCHANGED <<own, buf, addr, lpc, started, epc, read, build, unbuilt, chain, pool,
                    held, shifted>>
    BY <1>2 DEF vars, hw, link, reader, heap
  <2>2. OnePlace' /\ InStep'
    BY <2>1, Keeps DEF IInv, RxInv
  <2>3. TypeOK'
    BY <1>2 DEF IInv, RxInv, TypeOK, vars, hw, link, reader, heap
  <2>4. Links'
    BY <2>1 DEF IInv, Links
  <2> QED BY <2>2, <2>3, <2>4 DEF IInv, RxInv
<1> QED BY <1>1, <1>2

(* Unless a start of the driver found frames in the ring or descriptors    *)
(* not built, every buffer is in one place, so the DMA never writes into   *)
(* what the stack reads and none is lost, and what is read and not built   *)
(* lies between the indices of reader and builder, whatever allocations    *)
(* fail.                                                                   *)
THEOREM RxIsInvariant == Spec => []RxInv
<1>1. IInv /\ [Next]_vars => IInv'
  BY StepInv
<1>2. IInv => RxInv
  BY DEF IInv
<1> QED BY <1>1, <1>2, Initially, PTL DEF Spec
-----------------------------------------------------------------------------
(* The order of the frames.  The m descriptors from RxDescIdx that the DMA *)
(* has filled go on where the chain, or the last frame given, ended; and   *)
(* the frame that the DMA is in the middle of goes on after them.          *)
At(k) == part[(read + k) % Descs]
Before(k) ==
  IF k > 0 THEN At(k - 1)
  ELSE IF chain = << >> THEN [f |-> given, fs |-> TRUE, ls |-> TRUE]
  ELSE chain[Len(chain)].part

Follows(y, x) == IF x.ls THEN y.fs /\ y.f > x.f ELSE ~y.fs /\ y.f = x.f

Unread(m) ==
  /\ dma = (read + m) % Descs
  /\ own = Ring \ Span(build, unbuilt + m)
  /\ \A k \in 0 .. m - 1 : Follows(At(k), Before(k))
  /\ Before(m).f <= frames /\ (mid = 0 <=> Before(m).ls) /\ (mid # 0 => mid = Before(m).f)

(* While the link thread builds, the ring is empty. *)
Idle == own = Ring /\ dma = read /\ mid = 0 /\ chain = << >> /\ given <= frames

OneFrame ==
  /\ chain # << >> => chain[1].part.f > given
  /\ \A i \in 1 .. Len(chain) :
       LET p == chain[i].part
       IN  p.f = chain[1].part.f /\ (p.fs <=> i = 1) /\ (p.ls => i = Len(chain))

InOrder == OneFrame /\ IF lpc = "building" THEN Idle ELSE \E m \in 0 .. Descs - unbuilt : Unread(m)

Order ==
  /\ lpc \in {"down", "building", "failed"} => ~rxOn
  /\ epc = "give" => Whole
  /\ ~shifted => InOrder

LEMMA Sum ==
  ASSUME NEW b \in Ring, NEW u \in 0 .. Descs, NEW k \in 0 .. Descs, u + k <= Descs
  PROVE  /\ u + k \in 0 .. Descs
         /\ (((b + u) % Descs) + k) % Descs = (b + (u + k)) % Descs
<1>1. Descs \in Nat /\ 0 < Descs /\ b \in Nat /\ b < Descs /\ u + k \in 0 .. Descs
  BY Sizes DEF Ring
<1> DEFINE c == (b + u) % Descs
<1>2. c \in Ring /\ c = IF b + u < Descs THEN b + u ELSE b + u - Descs
  BY Wrap
<1>3. (b + (u + k)) % Descs = IF b + (u + k) < Descs THEN b + (u + k) ELSE b + (u + k) - Descs
  BY <1>1, Wrap
<1> HIDE DEF c
<1>4. (c + k) % Descs = IF c + k < Descs THEN c + k ELSE c + k - Descs
  BY <1>2, Wrap
<1>5. (c + k) % Descs = (b + (u + k)) % Descs
  BY <1>1, <1>2, <1>3, <1>4
<1> QED BY <1>1, <1>5 DEF c

LEMMA Distinct ==
  ASSUME NEW i \in Ring, NEW j \in 0 .. Descs - 1, NEW k \in 0 .. Descs - 1,
         (i + j) % Descs = (i + k) % Descs
  PROVE  j = k
<1>1. Descs \in Nat /\ i \in Nat /\ i < Descs /\ j \in 0 .. Descs /\ k \in 0 .. Descs
  BY Sizes DEF Ring
<1>2. (i + j) % Descs = IF i + j < Descs THEN i + j ELSE i + j - Descs
  BY <1>1, Wrap
<1>3. (i + k) % Descs = IF i + k < Descs THEN i + k ELSE i + k - Descs
  BY <1>1, Wrap
<1> QED BY <1>1, <1>2, <1>3

(* The number of the frame before. *)
LEMMA BeforeType ==
  ASSUME TypeOK, NEW m \in 0 .. Descs
  PROVE  Before(m).f \in Nat
<1>1. CASE m > 0
  <2>1. m - 1 \in 0 .. Descs /\ read \in Ring
    BY <1>1, Sizes DEF TypeOK
  <2>2. At(m - 1) \in Parts
    BY <2>1, Wrap DEF At, TypeOK
  <2> QED BY <1>1, <2>2, Sizes DEF Before, Parts
<1>2. CASE ~(m > 0) /\ chain = << >>
  BY <1>2, Sizes DEF Before, TypeOK
<1>3. CASE ~(m > 0) /\ chain # << >>
  <2>1. chain \in Seq(Part)
    BY DEF TypeOK, Part
  <2>2. Len(chain) \in 1 .. Len(chain)
    BY <1>3, <2>1
  <2>3. chain[Len(chain)] \in Part
    BY <2>1, <2>2
  <2> QED BY <1>3, <2>3, Sizes DEF Before, Part, Parts
<1> QED BY <1>1, <1>2, <1>3

LEMMA InitOrder == Init => Order
<1> SUFFICES ASSUME Init PROVE Order
  OBVIOUS
<1>1. 0 \in Ring /\ 0 \in 0 .. Descs /\ 0 \in 0 .. Descs - unbuilt /\ Len(chain) = 0
  BY Sizes DEF Init, Ring
<1>2. Unread(0)
  <2>1. (0 + 0) % Descs = 0 /\ Span(0, 0) = {}
    BY <1>1, SpanEnds
  <2> QED BY <2>1 DEF Init, Unread, Before
<1>3. OneFrame
  BY <1>1 DEF Init, OneFrame
<1> QED BY <1>1, <1>2, <1>3 DEF Init, Order, InOrder

(* Steps that change neither the ring nor the chain. *)
LEMMA OrderKeeps ==
  ASSUME InOrder, TypeOK, TypeOK',
         UNCHANGED <<read, build, unbuilt, part, own, dma, mid, chain, given>>,
         frames' >= frames, lpc' = "building" <=> lpc = "building"
  PROVE  InOrder'
<1>1. OneFrame'
  BY DEF InOrder, OneFrame
<1>2. Idle => Idle'
  BY DEF Idle, TypeOK
<1>3. ASSUME NEW m \in 0 .. Descs - unbuilt, Unread(m)
      PROVE  Unread(m)'
  <2>1. /\ \A k \in 0 .. m - 1 : Follows(At(k), Before(k))'
        /\ Before(m)' = Before(m) /\ Span(build, unbuilt + m)' = Span(build, unbuilt + m)
    BY <1>3 DEF Unread, Follows, At, Before, Span
  <2>2. Before(m).f <= frames'
    <3>1. Before(m).f \in Nat
      <4>1. m \in 0 .. Descs
        BY Sizes DEF TypeOK
      <4> QED BY <4>1, BeforeType
    <3> QED BY <1>3, <3>1, Sizes DEF Unread, TypeOK
  <2> QED BY <1>3, <2>1, <2>2 DEF Unread
<1> QED BY <1>1, <1>2, <1>3 DEF InOrder

(* The DMA fills one more descriptor. *)
LEMMA FilledOrder ==
  ASSUME TypeOK, InStep, ~shifted, NEW m \in 0 .. Descs - unbuilt, Unread(m), dma \in own,
         NEW q \in Parts, Filled(q), Follows(q, Before(m)),
         q.f # 0, q.f <= frames', mid' = IF q.ls THEN 0 ELSE q.f,
         UNCHANGED <<read, build, unbuilt, chain, given>>
  PROVE  \E n \in 0 .. Descs - unbuilt' : Unread(n)'
<1>1. /\ Descs \in Nat /\ read \in Ring /\ build \in Ring /\ unbuilt \in 0 .. Descs
      /\ m \in Nat /\ m \in 0 .. Descs /\ unbuilt + m \in 0 .. Descs /\ unbuilt + m <= Descs
  BY Sizes DEF TypeOK
<1>2. dma = (build + (unbuilt + m)) % Descs
  <2>1. (((build + unbuilt) % Descs) + m) % Descs = (build + (unbuilt + m)) % Descs
    BY <1>1, Sum
  <2>2. (build + unbuilt) % Descs = read
    BY DEF InStep
  <2> QED BY <2>1, <2>2 DEF Unread
<1>3. unbuilt + m < Descs
  <2>1. CASE unbuilt + m = Descs
    <3>1. Span(build, unbuilt + m) = Ring
      BY <1>1, <2>1, SpanEnds
    <3> QED BY <3>1 DEF Unread
  <2> QED BY <1>1, <2>1
<1>4. /\ m + 1 \in 0 .. Descs - unbuilt /\ m \in 0 .. Descs - 1
      /\ (unbuilt + m) + 1 = unbuilt + (m + 1)
      /\ \A k \in 0 .. m - 1 : k \in 0 .. Descs - 1
  BY <1>1, <1>3
<1>5. dma' = (read + (m + 1)) % Descs
  <2>1. m < Descs /\ m \in 0 .. Descs
    BY <1>1, <1>4
  <2>2. (read + (m + 1)) % Descs = After(dma)
    BY <1>1, <2>1, SpanGrows DEF Unread
  <2> QED BY <2>2 DEF Filled
<1>6. own' = Ring \ Span(build, unbuilt + (m + 1))
  <2>1. Span(build, (unbuilt + m) + 1) = Span(build, unbuilt + m) \cup {dma}
    BY <1>1, <1>2, <1>3, SpanGrows
  <2>2. Span(build, unbuilt + (m + 1)) = Span(build, unbuilt + m) \cup {dma}
    BY <1>4, <2>1
  <2> QED BY <2>2 DEF Filled, Unread
<1>7. \A k \in 0 .. m - 1 : At(k)' = At(k)
  <2> TAKE k \in 0 .. m - 1
  <2>1. (read + k) % Descs # dma
    <3>1. k # m
      BY <1>1
    <3> QED BY <1>1, <1>4, <3>1, Distinct DEF Unread
  <2> QED BY <2>1 DEF At, Filled, TypeOK
<1>8. At(m)' = q
  <2>1. dma \in Ring
    BY DEF TypeOK
  <2> QED BY <2>1 DEF At, Filled, TypeOK, Unread
<1>9. \A k \in 0 .. m : Before(k)' = Before(k)
  <2> TAKE k \in 0 .. m
  <2>1. CASE k > 0
    <3>1. k - 1 \in 0 .. m - 1
      BY <1>1, <2>1
    <3> QED BY <2>1, <3>1, <1>7 DEF Before
  <2>2. CASE ~(k > 0)
    BY <2>2 DEF Before
  <2> QED BY <2>1, <2>2
<1>10. Before(m + 1)' = q
  <2>1. m + 1 > 0 /\ (m + 1) - 1 = m
    BY <1>1
  <2> QED BY <2>1, <1>8 DEF Before
<1>11. \A k \in 0 .. (m + 1) - 1 : Follows(At(k), Before(k))'
  <2> TAKE k \in 0 .. (m + 1) - 1
  <2>1. CASE k \in 0 .. m - 1
    <3>1. k \in 0 .. m
      BY <1>1, <2>1
    <3> QED BY <2>1, <3>1, <1>7, <1>9 DEF Unread, Follows
  <2>2. CASE k = m
    <3>1. m \in 0 .. m
      BY <1>1
    <3>2. At(k)' = q /\ Before(k)' = Before(m)
      BY <2>2, <3>1, <1>8, <1>9
    <3> QED BY <3>2 DEF Follows
  <2> QED BY <1>1, <2>1, <2>2
<1>12. /\ Before(m + 1)'.f <= frames' /\ (mid' = 0 <=> Before(m + 1)'.ls)
       /\ (mid' # 0 => mid' = Before(m + 1)'.f)
  BY <1>10
<1>13. Unread(m + 1)'
  <2>1. Span(build, unbuilt + (m + 1))' = Span(build, unbuilt + (m + 1))
    BY DEF Span
  <2> QED BY <1>5, <1>6, <1>11, <1>12, <2>1 DEF Unread
<1> QED BY <1>4, <1>13

(* The first part of a frame follows the end of another, the rest its own  *)
(* first part.                                                             *)
LEMMA DmaOrder ==
  ASSUME IInv, Order, IInv', DmaFirst \/ DmaLast
  PROVE  Order'
<1> USE DEF IInv, RxInv
<1>1. UNCHANGED <<read, build, unbuilt, chain, given, shifted, lpc, epc, rxOn>>
  BY DEF DmaFirst, DmaLast, link, reader
<1>2. ASSUME ~shifted PROVE InOrder'
  <2>1. OneFrame'
    BY <1>1, <1>2 DEF Order, InOrder, OneFrame
  <2>2. lpc # "building"
    BY <1>2 DEF DmaFirst, DmaLast, Order, InOrder, Idle
  <2>3. PICK m \in 0 .. Descs - unbuilt : Unread(m)
    BY <1>2, <2>2 DEF Order, InOrder
  <2>4. m \in 0 .. Descs /\ Before(m).f \in Nat /\ frames \in Nat /\ mid \in Nat
    <3>1. m \in 0 .. Descs
      BY Sizes DEF TypeOK
    <3> QED BY <3>1, BeforeType, Sizes DEF TypeOK
  <2>5. CASE DmaFirst
    <3>1. PICK p \in Parts : Filled(p) /\ p.fs /\ p.f = frames' /\ mid' = IF p.ls THEN 0 ELSE frames'
      BY <2>5, DmaFirstFills
    <3>2. frames' = frames + 1 /\ dma \in own /\ mid = 0
      BY <2>5 DEF DmaFirst
    <3>3. Before(m).ls /\ frames' > Before(m).f /\ frames' # 0 /\ frames' <= frames'
      BY <2>3, <2>4, <3>2 DEF Unread
    <3>4. Follows(p, Before(m))
      BY <3>1, <3>3 DEF Follows
    <3>5. \E n \in 0 .. Descs - unbuilt' : Unread(n)'
      BY <1>1, <1>2, <2>3, <3>1, <3>2, <3>3, <3>4, FilledOrder
    <3> QED BY <1>1, <2>1, <2>2, <3>5 DEF InOrder
  <2>6. CASE DmaLast
    <3>1. PICK p \in Parts : Filled(p) /\ ~p.fs /\ p.ls /\ p.f = mid
      BY <2>6, DmaLastFills
    <3>2. mid # 0 /\ dma \in own /\ mid' = 0 /\ frames' = frames
      BY <2>6 DEF DmaLast
    <3>3. mid = Before(m).f /\ ~Before(m).ls /\ mid <= frames'
      BY <2>3, <3>2 DEF Unread
    <3>4. Follows(p, Before(m))
      BY <3>1, <3>3 DEF Follows
    <3>5. \E n \in 0 .. Descs - unbuilt' : Unread(n)'
      BY <1>1, <1>2, <2>3, <3>1, <3>2, <3>3, <3>4, FilledOrder
    <3> QED BY <1>1, <2>1, <2>2, <3>5 DEF InOrder
  <2> QED BY <2>5, <2>6
<1> QED BY <1>1, <1>2 DEF Order, Whole

(* The oldest filled descriptor becomes the end of the chain. *)
LEMMA ReadOrder ==
  ASSUME IInv, Order, ~shifted, ReadOne
  PROVE  InOrder'
<1> USE DEF IInv, RxInv
<1> DEFINE p == [buf |-> addr[read], part |-> part[read]]
           len == Len(chain)
<1>1. /\ read \in Ring /\ build \in Ring /\ unbuilt \in 0 .. Descs /\ unbuilt < Descs
      /\ chain \in Seq(Part) /\ read \notin own /\ ~Whole /\ p \in Part
      /\ lpc = "run" /\ lpc' = lpc /\ read' = After(read) /\ unbuilt' = unbuilt + 1
      /\ UNCHANGED <<own, part, dma, mid, frames, build, given>>
  BY DEF ReadOne, RxLink, More, TypeOK, Links, Part, link
<1>2. PICK m \in 0 .. Descs - unbuilt : Unread(m)
  BY <1>1 DEF Order, InOrder
<1>3. /\ Descs \in Nat /\ unbuilt \in Nat /\ m \in Nat /\ unbuilt + m <= Descs /\ len \in Nat
      /\ m <= Descs
  BY <1>1, Sizes
<1>4. m > 0
  <2>1. CASE m = 0
    <3>1. read \notin Span(build, unbuilt)
      BY <1>1, SpanGrows DEF InStep
    <3>2. unbuilt + m = unbuilt
      BY <1>3, <2>1
    <3> QED BY <1>1, <1>2, <3>1, <3>2 DEF Unread
  <2> QED BY <1>3, <2>1
<1>5. At(0) = part[read] /\ Follows(At(0), Before(0))
  <2>1. (read + 0) % Descs = read
    BY <1>1, SpanEnds
  <2>2. 0 \in 0 .. m - 1
    BY <1>3, <1>4
  <2> QED BY <1>2, <2>1, <2>2 DEF At, Unread
<1>6. chain' = Append(chain, p)
  <2>1. chain = << >> => part[read].fs
    BY <1>5 DEF Before, Follows
  <2> QED BY <2>1 DEF ReadOne, RxLink
<1>7. /\ chain' \in Seq(Part) /\ chain' # << >> /\ Len(chain') = len + 1
      /\ \A i \in 1 .. len : chain'[i] = chain[i]
      /\ chain'[len + 1] = p
  BY <1>1, <1>6, AppendProperties
<1>8. \A k \in 0 .. m - 1 : (After(read) + k) % Descs = (read + (k + 1)) % Descs
  <2> TAKE k \in 0 .. m - 1
  <2>1. 1 \in 0 .. Descs /\ k \in 0 .. Descs /\ 1 + k <= Descs /\ 1 + k = k + 1
    BY <1>3, <1>4
  <2>2. (((read + 1) % Descs) + k) % Descs = (read + (1 + k)) % Descs
    BY <1>1, <2>1, Sum
  <2> QED BY <2>1, <2>2 DEF After
<1>9. \A k \in 0 .. m - 1 : At(k)' = At(k + 1)
  BY <1>1, <1>8 DEF At
<1>10. \A k \in 0 .. m - 1 : Before(k)' = Before(k + 1)
  <2> TAKE k \in 0 .. m - 1
  <2>1. CASE k = 0
    <3>1. Before(k)' = chain'[Len(chain')].part
      BY <1>7, <2>1 DEF Before
    <3>2. Before(k + 1) = At(0)
      BY <2>1 DEF Before
    <3> QED BY <1>5, <1>7, <3>1, <3>2
  <2>2. CASE k > 0
    <3>1. k - 1 \in 0 .. m - 1 /\ (k - 1) + 1 = k /\ (k + 1) - 1 = k /\ k + 1 > 0
      BY <1>3, <2>2
    <3> QED BY <1>9, <2>2, <3>1 DEF Before
  <2> QED BY <1>3, <2>1, <2>2
<1>11. m - 1 \in 0 .. Descs - unbuilt' /\ m - 1 \in 0 .. m - 1 /\ (m - 1) + 1 = m
       /\ unbuilt' + (m - 1) = unbuilt + m
  BY <1>1, <1>3, <1>4
<1>12. Unread(m - 1)'
  <2>1. dma' = (read' + (m - 1)) % Descs
    BY <1>1, <1>2, <1>8, <1>11 DEF Unread
  <2>2. Span(build, unbuilt + (m - 1))' = Span(build, unbuilt' + (m - 1))
    BY <1>1 DEF Span
  <2>3. own' = Ring \ Span(build, unbuilt + (m - 1))'
    BY <1>1, <1>2, <1>11, <2>2 DEF Unread
  <2>4. \A k \in 0 .. (m - 1) - 1 : Follows(At(k), Before(k))'
    <3> TAKE k \in 0 .. (m - 1) - 1
    <3>1. k \in 0 .. m - 1 /\ k + 1 \in 0 .. m - 1
      BY <1>3
    <3>2. Follows(At(k + 1), Before(k + 1))
      BY <1>2, <3>1 DEF Unread
    <3> QED BY <1>9, <1>10, <3>1, <3>2 DEF Follows
  <2>5. Before(m - 1)' = Before(m)
    BY <1>10, <1>11
  <2> QED BY <1>1, <1>2, <2>1, <2>3, <2>4, <2>5 DEF Unread
<1>13. OneFrame'
  <2>0. OneFrame
    BY DEF Order, InOrder
  <2>1. CASE chain = << >>
    <3>1. len = 0 /\ chain'[1] = p /\ Len(chain') = 1
      BY <1>7, <2>1
    <3>2. p.part.fs /\ p.part.f > given
      BY <1>5, <2>1 DEF Before, Follows
    <3>3. \A i \in 1 .. Len(chain') : i = 1
      BY <3>1
    <3> QED BY <1>1, <3>1, <3>2, <3>3 DEF OneFrame
  <2>2. CASE chain # << >>
    <3>1. len > 0 /\ len \in 1 .. len /\ 1 \in 1 .. len
      BY <1>1, <1>3, <2>2
    <3>2. ~chain[len].part.ls
      BY <1>1, <2>2 DEF Whole
    <3>3. ~p.part.fs /\ p.part.f = chain[1].part.f
      BY <1>5, <2>0, <2>2, <3>1, <3>2 DEF Before, Follows, OneFrame
    <3>4. chain'[1] = chain[1] /\ chain'[1].part.f > given'
      BY <1>1, <1>7, <2>0, <2>2, <3>1 DEF OneFrame
    <3>5. ASSUME NEW i \in 1 .. Len(chain')
          PROVE  LET q == chain'[i].part
                 IN  q.f = chain'[1].part.f /\ (q.fs <=> i = 1) /\ (q.ls => i = Len(chain'))
      <4>1. CASE i \in 1 .. len
        <5>1. chain'[i] = chain[i] /\ ~chain[i].part.ls
          BY <1>7, <2>0, <3>2, <4>1 DEF OneFrame
        <5> QED BY <2>0, <3>4, <4>1, <5>1 DEF OneFrame
      <4>2. CASE i = len + 1
        <5>1. i # 1 /\ i = Len(chain') /\ chain'[i] = p
          BY <1>3, <1>7, <3>1, <4>2
        <5> QED BY <3>3, <3>4, <5>1
      <4> QED BY <1>3, <1>7, <4>1, <4>2
    <3> QED BY <3>4, <3>5 DEF OneFrame
  <2> QED BY <2>1, <2>2
<1> QED BY <1>1, <1>11, <1>12, <1>13 DEF InOrder

(* Building takes nothing that is unread. *)
LEMMA BuildOrder ==
  ASSUME IInv, Order, ~shifted, BuildOne
  PROVE  InOrder'
<1> USE DEF IInv, RxInv
<1>1. /\ build \in Ring /\ unbuilt \in 0 .. Descs /\ unbuilt > 0 /\ read \in Ring
      /\ own' = own \cup {build} /\ build' = After(build) /\ unbuilt' = unbuilt - 1
      /\ part' = [part EXCEPT ![build] = NoPart]
      /\ UNCHANGED <<lpc, read, chain, given, dma, mid, frames>>
  BY DEF BuildOne, ToDma, TypeOK, link
<1>2. OneFrame'
  BY <1>1 DEF Order, InOrder, OneFrame
<1>3. CASE lpc = "building"
  BY <1>1, <1>2, <1>3 DEF Order, InOrder, Idle
<1>4. CASE lpc # "building"
  <2>1. PICK m \in 0 .. Descs - unbuilt : Unread(m)
    BY <1>4 DEF Order, InOrder
  <2>2. /\ Descs \in Nat /\ unbuilt \in Nat /\ m \in Nat /\ unbuilt + m <= Descs
        /\ unbuilt + m \in 0 .. Descs /\ unbuilt + m > 0
        /\ unbuilt' + m = (unbuilt + m) - 1 /\ m \in 0 .. Descs - unbuilt'
    BY <1>1, Sizes
  <2>3. own' = Ring \ Span(build', unbuilt' + m)
    <3>1. /\ build \notin Span(After(build), (unbuilt + m) - 1)
          /\ Span(build, unbuilt + m) = Span(After(build), (unbuilt + m) - 1) \cup {build}
      BY <1>1, <2>2, SpanShrinks
    <3>2. own = Ring \ Span(build, unbuilt + m)
      BY <2>1 DEF Unread
    <3> QED BY <1>1, <2>2, <3>1, <3>2
  <2>4. \A k \in 0 .. m - 1 : At(k)' = At(k)
    <3> TAKE k \in 0 .. m - 1
    <3>1. /\ k \in 0 .. Descs /\ unbuilt + k <= Descs /\ unbuilt + k \in 0 .. Descs - 1
          /\ unbuilt + k # 0 /\ 0 \in 0 .. Descs - 1
      BY <1>1, <2>2
    <3>2. (((build + unbuilt) % Descs) + k) % Descs = (build + (unbuilt + k)) % Descs
      BY <1>1, <3>1, Sum
    <3>3. (read + k) % Descs = (build + (unbuilt + k)) % Descs
      BY <3>2 DEF InStep
    <3>4. (build + 0) % Descs = build
      BY <1>1, SpanEnds
    <3>5. (read + k) % Descs # build
      BY <1>1, <3>1, <3>3, <3>4, Distinct
    <3>6. (read + k) % Descs \in Ring
      BY <1>1, <3>1, Wrap
    <3> QED BY <1>1, <3>5, <3>6 DEF At, TypeOK
  <2>5. \A k \in 0 .. m : Before(k)' = Before(k)
    <3> TAKE k \in 0 .. m
    <3>1. CASE k > 0
      <4>1. k - 1 \in 0 .. m - 1
        BY <2>2, <3>1
      <4> QED BY <3>1, <4>1, <2>4 DEF Before
    <3>2. CASE ~(k > 0)
      BY <1>1, <3>2 DEF Before
    <3> QED BY <3>1, <3>2
  <2>6. \A k \in 0 .. m - 1 : Follows(At(k), Before(k))'
    <3> TAKE k \in 0 .. m - 1
    <3>1. k \in 0 .. m
      BY <2>2
    <3> QED BY <2>1, <2>4, <2>5, <3>1 DEF Unread, Follows
  <2>7. Unread(m)'
    <3>1. Span(build, unbuilt + m)' = Span(build', unbuilt' + m) /\ m \in 0 .. m
      BY <2>2 DEF Span
    <3> QED BY <1>1, <2>1, <2>3, <2>5, <2>6, <3>1 DEF Unread
  <2> QED BY <1>1, <1>2, <1>4, <2>2, <2>7 DEF InOrder
<1> QED BY <1>3, <1>4

(* The next frame follows the one that was given. *)
LEMMA GiveOrder ==
  ASSUME IInv, Order, ~shifted, Give
  PROVE  InOrder'
<1> USE DEF IInv, RxInv
<1>1. /\ chain \in Seq(Part) /\ Whole /\ chain' = << >> /\ given' = chain[1].part.f
      /\ lpc = "run"
      /\ UNCHANGED <<own, part, dma, mid, frames, lpc, read, build, unbuilt>>
  BY DEF Give, ResetChain, TypeOK, Links, Order, Part, hw, link
<1>2. chain # << >> /\ Len(chain) \in 1 .. Len(chain) /\ chain[Len(chain)].part.ls
  BY <1>1 DEF Whole
<1>3. chain[Len(chain)].part.f = given'
  BY <1>1, <1>2 DEF Order, InOrder, OneFrame
<1>4. PICK m \in 0 .. Descs - unbuilt : Unread(m)
  BY <1>1 DEF Order, InOrder
<1>5. \A k \in 0 .. m : Before(k)'.f = Before(k).f /\ Before(k)'.ls = Before(k).ls
  BY <1>1, <1>2, <1>3 DEF Before, At
<1>6. \A k \in 0 .. m - 1 : Follows(At(k), Before(k))'
  <2> TAKE k \in 0 .. m - 1
  <2>1. k \in 0 .. m
    BY <1>1, Sizes DEF TypeOK
  <2>2. At(k)' = At(k)
    BY <1>1 DEF At
  <2> QED BY <1>4, <1>5, <2>1, <2>2 DEF Unread, Follows
<1>7. Unread(m)'
  <2>1. Span(build, unbuilt + m)' = Span(build, unbuilt + m) /\ m \in 0 .. m
    BY <1>1, Sizes DEF Span, TypeOK
  <2> QED BY <1>1, <1>4, <1>5, <1>6, <2>1 DEF Unread
<1>8. OneFrame'
  <2>1. Len(chain') = 0
    BY <1>1
  <2> QED BY <1>1, <2>1 DEF OneFrame
<1> QED BY <1>1, <1>7, <1>8 DEF InOrder

(* A start, and its end. *)
LEMMA StartOrder ==
  ASSUME IInv, Order, ~shifted, ~shifted', StartBuild
  PROVE  InOrder'
<1> USE DEF IInv, RxInv
<1>1. /\ lpc = "down" /\ lpc' = "building" /\ mid = 0
      /\ unbuilt = 0 /\ own = Ring /\ chain = << >>
      /\ UNCHANGED <<own, part, dma, mid, frames, read, chain, given>>
  BY DEF StartBuild, TypeOK, hw
<1>2. PICK m \in 0 .. Descs - unbuilt : Unread(m)
  BY <1>1 DEF Order, InOrder
<1>3. m \in 0 .. Descs /\ build \in Ring /\ read \in Ring
  BY <1>1, <1>2, Sizes DEF TypeOK
<1>4. m = 0
  <2>1. Span(build, m) = {}
    <3>1. unbuilt + m = m
      BY <1>1, <1>3
    <3>2. Span(build, m) \subseteq Ring
      BY <1>3, InSpan
    <3> QED BY <1>1, <1>2, <3>1, <3>2 DEF Unread
  <2>2. 0 < m => build \in Span(build, m)
    <3>1. Ahead(build, build) = 0
      BY <1>3, Sizes DEF Ahead, Ring
    <3> QED BY <1>3, <3>1, InSpan
  <2> QED BY <1>3, <2>1, <2>2
<1>5. dma = read
  BY <1>2, <1>3, <1>4, SpanEnds DEF Unread
<1>6. given <= frames
  BY <1>1, <1>2, <1>4 DEF Unread, Before
<1>7. OneFrame'
  BY <1>1 DEF Order, InOrder, OneFrame
<1> QED BY <1>1, <1>5, <1>6, <1>7 DEF InOrder, Idle

LEMMA EndsOrder ==
  ASSUME IInv, IInv', Order, ~shifted, BuildEnds
  PROVE  InOrder'
<1> USE DEF IInv, RxInv
<1>1. UNCHANGED <<own, part, dma, mid, frames, read, build, unbuilt, chain, given>>
  BY DEF BuildEnds
<1>2. CASE epc \in {"building", "failed"}
  <2>1. lpc' = lpc
    BY <1>2 DEF BuildEnds
  <2>2. frames' >= frames
    BY <1>1, Sizes DEF TypeOK
  <2> QED BY <1>1, <2>1, <2>2, OrderKeeps DEF Order
<1>3. CASE epc \notin {"building", "failed"}
  <2>1. lpc = "building" /\ lpc' = "run" /\ unbuilt = 0
    BY <1>3 DEF BuildEnds, Building, Failing, EndStart, Links
  <2>2. Idle /\ OneFrame
    BY <2>1 DEF Order, InOrder
  <2>3. /\ 0 \in 0 .. Descs - unbuilt' /\ read \in Ring /\ build \in Ring
        /\ unbuilt' + 0 = 0 /\ unbuilt' = 0
    BY <1>1, <2>1, Sizes DEF TypeOK
  <2>4. Span(build, 0) = {} /\ (read + 0) % Descs = read
    BY <2>3, SpanEnds
  <2>5. Unread(0)'
    <3>1. dma' = (read' + 0) % Descs
      BY <1>1, <2>2, <2>4 DEF Idle
    <3>2. Span(build, unbuilt + 0)' = {}
      BY <1>1, <2>3, <2>4 DEF Span
    <3>3. Before(0)' = [f |-> given, fs |-> TRUE, ls |-> TRUE]
      BY <1>1, <2>2 DEF Before, Idle
    <3> QED BY <1>1, <2>2, <3>1, <3>2, <3>3 DEF Unread, Idle
  <2>6. OneFrame'
    BY <1>1, <2>2 DEF OneFrame
  <2> QED BY <2>1, <2>3, <2>5, <2>6 DEF InOrder
<1> QED BY <1>2, <1>3

(* The other steps leave ring and chain alone. *)
LEMMA OtherOrder ==
  ASSUME IInv, IInv', Order, ~shifted,
         \/ DmaNone \/ Interrupt \/ TakeSemaphore \/ Look \/ ReadEnds \/ BuildFails
         \/ StackFree \/ StopInterrupts \/ StopReceiver
  PROVE  InOrder'
<1> USE DEF IInv, RxInv
<1>1. UNCHANGED <<read, build, unbuilt, part, own, dma, mid, chain, given>>
  BY DEF DmaNone, Interrupt, TakeSemaphore, Look, ReadEnds, BuildFails, StackFree,
     StopInterrupts, StopReceiver, hw, reader
<1>2. frames' >= frames
  <2>1. frames' \in {frames, frames + 1}
    BY DEF DmaNone, Interrupt, TakeSemaphore, Look, ReadEnds, BuildFails, StackFree,
       StopInterrupts, StopReceiver, hw
  <2> QED BY <2>1, Sizes DEF TypeOK
<1>3. lpc' = "building" <=> lpc = "building"
  <2>1. CASE BuildFails
    <3>1. shifted' = shifted
      BY <2>1 DEF BuildFails
    <3> QED BY <2>1, <3>1 DEF BuildFails, Building, Links
  <2>2. CASE \/ DmaNone \/ Interrupt \/ TakeSemaphore \/ Look \/ ReadEnds
             \/ StackFree \/ StopInterrupts \/ StopReceiver
    BY <2>2 DEF DmaNone, Interrupt, TakeSemaphore, Look, ReadEnds, StackFree,
       StopInterrupts, StopReceiver, link
  <2> QED BY <2>1, <2>2
<1> QED BY <1>1, <1>2, <1>3, OrderKeeps DEF Order

LEMMA OrderStep ==
  ASSUME IInv, IInv', Order, [Next]_vars
  PROVE  Order'
<1> USE DEF IInv, RxInv
<1>1. CASE DmaFirst \/ DmaLast
  BY <1>1, DmaOrder
<1>2. CASE UNCHANGED vars
  <2>1. UNCHANGED <<read, build, unbuilt, part, own, dma, mid, frames, chain, given, lpc, epc,
                    rxOn, shifted>>
    BY <1>2 DEF vars, hw, link, reader
  <2>2. ~shifted => InOrder'
    BY <2>1, OrderKeeps, Sizes DEF Order, TypeOK
  <2> QED BY <2>1, <2>2 DEF Order, Whole
<1>3. CASE Next /\ ~(DmaFirst \/ DmaLast)
  <2>1. \/ DmaNone \/ Interrupt \/ TakeSemaphore \/ Look \/ ReadEnds \/ BuildFails
        \/ StackFree \/ StopInterrupts \/ StopReceiver
        \/ ReadOne \/ BuildOne \/ BuildEnds \/ Give \/ StartBuild
    BY <1>3 DEF Next, EthThread, LinkThread, UpdateDescriptor
  <2>2. ~shifted' => ~shifted
    BY <2>1 DEF DmaNone, Interrupt, TakeSemaphore, Look, ReadEnds, BuildFails, StackFree,
       StopInterrupts, StopReceiver, ReadOne, BuildOne, BuildEnds, Give, StartBuild
  <2>3. ~shifted' => InOrder'
    BY <2>1, <2>2, OtherOrder, ReadOrder, BuildOrder, EndsOrder, GiveOrder, StartOrder
  <2>4. lpc' \in {"down", "building", "failed"} => ~rxOn'
    <3>1. CASE StopReceiver \/ StartBuild \/ StopInterrupts
      BY <3>1 DEF StopReceiver, StartBuild, StopInterrupts, Order, hw
    <3>2. CASE BuildFails \/ BuildEnds
      BY <3>2 DEF BuildFails, BuildEnds, Building, Failing, EndStart, Order, Links, hw
    <3>3. CASE \/ DmaNone \/ Interrupt \/ TakeSemaphore \/ Look \/ ReadEnds
               \/ StackFree \/ ReadOne \/ BuildOne \/ Give
      BY <3>3 DEF DmaNone, Interrupt, TakeSemaphore, Look, ReadEnds, StackFree, ReadOne, RxLink,
         BuildOne, Give, Order, hw, link
    <3> QED BY <2>1, <3>1, <3>2, <3>3
  <2>5. epc' = "give" => Whole'
    <3>1. CASE BuildEnds
      BY <3>1 DEF BuildEnds, EndRead, Whole, Order
    <3>2. CASE \/ DmaNone \/ Interrupt \/ TakeSemaphore \/ Look \/ ReadEnds \/ BuildFails
               \/ StackFree \/ StopInterrupts \/ StopReceiver
               \/ ReadOne \/ BuildOne \/ Give \/ StartBuild
      BY <3>2 DEF DmaNone, Interrupt, TakeSemaphore, Look, ReadEnds, BuildFails, StackFree,
         StopInterrupts, StopReceiver, ReadOne, BuildOne, Give, StartBuild, Order, Whole, reader
    <3> QED BY <2>1, <3>1, <3>2
  <2> QED BY <2>3, <2>4, <2>5 DEF Order
<1> QED BY <1>1, <1>2, <1>3

-----------------------------------------------------------------------------
(* Lengths: every part is what the DMA writes, and tot_len is a whole      *)
(* buffer for every part but the last.                                     *)
Measured ==
  /\ \A i \in Ring : Proper(part[i])
  /\ \A i \in 1 .. Len(chain) : Proper(chain[i].part)
  /\ total = IF chain = << >> THEN 0
             ELSE (Len(chain) - 1) * BufLen + Linked(chain[Len(chain)].part)

LEMMA MeasuredInit == Init => Measured
<1> SUFFICES ASSUME Init PROVE Measured
  OBVIOUS
<1>1. Len(chain) = 0 /\ \A i \in Ring : part[i].f = 0
  BY DEF Init, NoPart
<1> QED BY <1>1 DEF Init, Measured, Proper

LEMMA ReadMeasured ==
  ASSUME IInv, Measured, ReadOne
  PROVE  Measured'
<1> USE DEF IInv, RxInv
<1> DEFINE p == [buf |-> addr[read], part |-> part[read]]
           n == Len(chain)
<1>1. /\ read \in Ring /\ chain \in Seq(Part) /\ p \in Part /\ ~Whole /\ part' = part
      /\ BufLen \in Int /\ n \in Nat
  BY Sizes DEF ReadOne, RxLink, More, TypeOK, Part
<1>2. CASE UNCHANGED <<chain, total>>
  BY <1>1, <1>2 DEF Measured
<1>3. CASE chain' = Append(chain, p) /\ total' = total + Linked(part[read])
  <2>1. /\ Len(chain') = n + 1 /\ chain' # << >> /\ chain'[n + 1] = p
        /\ \A i \in 1 .. n : chain'[i] = chain[i]
    BY <1>1, <1>3, AppendProperties
  <2>2. \A i \in 1 .. n + 1 : Proper(chain'[i].part)
    <3> TAKE i \in 1 .. n + 1
    <3>1. CASE i = n + 1
      BY <1>1, <2>1, <3>1 DEF Measured
    <3>2. CASE i \in 1 .. n
      BY <1>1, <2>1, <3>2 DEF Measured
    <3> QED BY <1>1, <3>1, <3>2
  <2>3. total = n * BufLen
    <3>1. CASE chain = << >>
      BY <1>1, <3>1 DEF Measured
    <3>2. CASE chain # << >>
      <4>1. Linked(chain[n].part) = BufLen
        BY <1>1, <3>2 DEF Whole, Linked
      <4>2. (n - 1) * BufLen + BufLen = n * BufLen
        BY <1>1
      <4> QED BY <3>2, <4>1, <4>2 DEF Measured
    <3> QED BY <3>1, <3>2
  <2>4. (n + 1) - 1 = n /\ Linked(chain'[n + 1].part) = Linked(part[read])
    BY <1>1, <2>1
  <2>5. total' = ((n + 1) - 1) * BufLen + Linked(chain'[n + 1].part)
    BY <1>3, <2>3, <2>4
  <2>6. \A i \in Ring : Proper(part'[i])
    BY <1>1 DEF Measured
  <2>7. Linked(chain'[Len(chain')].part) = Linked(chain[Len(chain)].part)'
    BY DEF Linked
  <2>8. total' = IF chain' = << >> THEN 0
                 ELSE (Len(chain') - 1) * BufLen + Linked(chain'[Len(chain')].part)
    BY <2>1, <2>5
  <2> QED BY <2>1, <2>2, <2>6, <2>7, <2>8 DEF Measured, Proper
<1> QED BY <1>2, <1>3 DEF ReadOne, RxLink

LEMMA MeasuredStep ==
  ASSUME IInv, Measured, [Next]_vars
  PROVE  Measured'
<1> USE DEF IInv, RxInv
<1>1. ASSUME NEW q \in Parts, Proper(q), NEW i, part' = [part EXCEPT ![i] = q], UNCHANGED <<chain, total>>
      PROVE  Measured'
  <2>1. \A k \in Ring : Proper(part'[k])
    BY <1>1 DEF Measured, TypeOK
  <2> QED BY <1>1, <2>1 DEF Measured, Proper, Linked
<1>2. CASE DmaFirst
  <2>1. PICK p \in Parts : Filled(p) /\ Proper(p)
    BY <1>2, DmaFirstFills
  <2>2. UNCHANGED <<chain, total>>
    BY <1>2 DEF DmaFirst, reader
  <2> QED BY <1>1, <2>1, <2>2 DEF Filled
<1>3. CASE DmaLast
  <2>1. PICK p \in Parts : Filled(p) /\ Proper(p)
    BY <1>3, DmaLastFills
  <2>2. UNCHANGED <<chain, total>>
    BY <1>3 DEF DmaLast, reader
  <2> QED BY <1>1, <2>1, <2>2 DEF Filled
<1>4. CASE BuildOne
  <2>1. part' = [part EXCEPT ![build] = NoPart] /\ UNCHANGED <<chain, total>>
    BY <1>4 DEF BuildOne, ToDma
  <2>2. NoPart \in Parts /\ Proper(NoPart)
    BY Sizes DEF NoPart, Parts, Proper
  <2> QED BY <1>1, <2>1, <2>2
<1>5. CASE Give
  <2>1. chain' = << >> /\ total' = 0 /\ part' = part /\ Len(chain') = 0
    BY <1>5 DEF Give, ResetChain, hw
  <2> QED BY <2>1 DEF Measured, Proper
<1>6. CASE \/ DmaNone \/ Interrupt \/ TakeSemaphore \/ Look \/ ReadEnds \/ BuildFails
           \/ StackFree \/ StopInterrupts \/ StopReceiver \/ BuildEnds \/ StartBuild
           \/ UNCHANGED vars
  <2>1. UNCHANGED <<part, chain, total>>
    BY <1>6 DEF DmaNone, Interrupt, TakeSemaphore, Look, ReadEnds, BuildFails, StackFree,
       StopInterrupts, StopReceiver, BuildEnds, StartBuild, vars, hw, reader
  <2> QED BY <2>1 DEF Measured, Proper, Linked
<1> QED BY <1>2, <1>3, <1>4, <1>5, <1>6, ReadMeasured
        DEF Next, EthThread, LinkThread, UpdateDescriptor

(* Unless a start found the ring in use, what eth_thread gives to the      *)
(* stack is all the parts of one frame, frames come in the order of the    *)
(* wire, and the length is the frame's own, or a buffer more for a frame   *)
(* of two parts.                                                           *)
THEOREM FramesInOrder == Spec => []WholeInOrder
<1>1. Init => IInv /\ Order /\ Measured
  BY Initially, InitOrder, MeasuredInit
<1>2. IInv /\ Order /\ Measured /\ [Next]_vars => (IInv /\ Order /\ Measured)'
  BY StepInv, OrderStep, MeasuredStep
<1>3. IInv /\ Order /\ Measured => WholeInOrder
  <2> SUFFICES ASSUME IInv, Order, Measured, epc = "give", ~shifted
               PROVE  WholeInOrder
    BY DEF WholeInOrder
  <2> DEFINE n == Len(chain)
             last == chain[n].part
  <2>1. Whole /\ OneFrame /\ chain \in Seq(Part) /\ given \in Nat /\ BufLen \in Nat
    BY Sizes DEF Order, InOrder, IInv, RxInv, TypeOK, Part
  <2>2. n \in Nat \ {0} /\ 1 \in 1 .. n /\ n \in 1 .. n /\ last.ls
    BY <2>1 DEF Whole
  <2>3. /\ chain[1].part.f > given
        /\ \A i \in 1 .. n :
             LET p == chain[i].part
             IN  p.f = chain[1].part.f /\ (p.fs <=> i = 1) /\ (p.ls <=> i = n)
    BY <2>1, <2>2 DEF OneFrame
  <2>4. \A i \in 1 .. n : chain[i].part.f # 0 /\ Proper(chain[i].part) /\ chain[i].part \in Parts
    <3> TAKE i \in 1 .. n
    <3>1. chain[i] \in Part
      BY <2>1
    <3>2. chain[i].part \in Parts /\ chain[i].part.f = chain[1].part.f /\ chain[1].part.f > given
      BY <2>3, <3>1 DEF Part
    <3>3. chain[i].part.f \in Nat
      BY <3>2, Sizes DEF Parts
    <3> QED BY <2>1, <3>2, <3>3 DEF Measured
  <2>5. n <= 2
    <3> SUFFICES ASSUME n > 2 PROVE FALSE
      BY <2>2
    <3>1. 2 \in 1 .. n /\ 2 # 1 /\ 2 # n
      BY <2>2
    <3> QED BY <2>3, <2>4, <3>1 DEF Proper
  <2>6. last.len \in Int
    BY <2>2, <2>4, Sizes DEF Proper
  <2>7. ~last.cut => n = IF last.len > BufLen THEN 2 ELSE 1
    <3>1. CASE n = 1
      BY <2>1, <2>2, <2>3, <2>4, <2>6, <3>1 DEF Proper
    <3>2. CASE n # 1
      <4>1. n = 2
        <5>1. n \in Nat \ {0} /\ n # 1 /\ n <= 2
          BY <2>2, <2>5, <3>2
        <5> HIDE DEF n, last
        <5> QED BY <5>1
      <4>2. ~last.fs
        BY <2>2, <2>3, <3>2
      <4>3. Proper(last) /\ last.f # 0
        BY <2>2, <2>4
      <4>4. last.len > BufLen
        BY <4>2, <4>3 DEF Proper
      <4> QED BY <4>1, <4>4
    <3> QED BY <3>1, <3>2
  <2>8. total = last.len - 4 + (n - 1) * BufLen
    <3>1. total = (n - 1) * BufLen + Linked(last)
      BY <2>2 DEF Measured
    <3>2. Linked(last) = last.len - 4
      BY <2>2 DEF Linked
    <3> DEFINE laps == (n - 1) * BufLen
    <3>3. laps \in Int
      BY <2>1, <2>2
    <3>4. laps + (last.len - 4) = last.len - 4 + laps
      <4> HIDE DEF laps, last
      <4> QED BY <2>6, <3>3
    <3> QED BY <3>1, <3>2, <3>4
  <2> QED BY <2>3, <2>7, <2>8 DEF WholeInOrder
<1> QED BY <1>1, <1>2, <1>3, PTL DEF Spec
=============================================================================
