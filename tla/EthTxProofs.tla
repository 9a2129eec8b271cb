----------------------------- MODULE EthTxProofs -----------------------------
(***************************************************************************)
(* Proofs about EthTx: as long as no two threads were in the driver        *)
(* together and none was refused, the indices of the driver agree with the *)
(* one packet in it, and a send that returns has sent its packet once, for *)
(* every ring, every size of a packet and every set of threads.            *)
(***************************************************************************)
EXTENDS EthTx, FiniteSetTheorems, WellFoundedInduction, TLAPS

LEMMA Bounds ==
  /\ Descs \in Nat /\ 0 < Descs /\ 0 \in Ring
  /\ \A n \in Sizes : n \in Nat /\ 0 < n
  /\ MaxSends \in Nat /\ MaxAfter \in Nat /\ MaxAfter <= MaxSends /\ MaxFlips \in Nat
  BY EthTxAssumption DEF Ring
-----------------------------------------------------------------------------
(* The ring. *)

(* Positions up to one round ahead. *)
LEMMA Wrap ==
  ASSUME NEW i \in Ring, NEW k \in 0 .. Descs
  PROVE  /\ Ahead(i, k) \in Ring
         /\ Ahead(i, k) = IF i + k < Descs THEN i + k ELSE i + k - Descs
<1>1. Descs \in Nat /\ 0 < Descs /\ i \in Nat /\ i < Descs /\ k \in Nat /\ k <= Descs
  BY Bounds DEF Ring
<1>2. CASE i + k < Descs
  BY <1>1, <1>2 DEF Ring, Ahead
<1>3. CASE ~(i + k < Descs)
  BY <1>1, <1>3 DEF Ring, Ahead
<1> QED BY <1>2, <1>3

(* Positions within one round are distinct. *)
LEMMA Distinct ==
  ASSUME NEW i \in Ring, NEW j \in 0 .. Descs - 1, NEW k \in 0 .. Descs - 1,
         Ahead(i, j) = Ahead(i, k)
  PROVE  j = k
<1>1. Descs \in Nat /\ i \in Nat /\ i < Descs /\ j \in 0 .. Descs /\ k \in 0 .. Descs
  BY Bounds DEF Ring
<1> QED BY <1>1, Wrap

(* What lies in a span. *)
LEMMA InSpan ==
  ASSUME NEW i \in Ring, NEW n \in 0 .. Descs
  PROVE  /\ Span(i, n) \subseteq Ring
         /\ \A k \in 0 .. Descs - 1 : Ahead(i, k) \in Span(i, n) <=> k < n
<1>1. Descs \in Nat /\ n \in Nat /\ n <= Descs
  BY Bounds
<1>2. \A k \in 0 .. n - 1 : k \in 0 .. Descs - 1 /\ k \in 0 .. Descs
  BY <1>1
<1>3. Span(i, n) \subseteq Ring
  BY <1>2, Wrap DEF Span
<1>4. ASSUME NEW k \in 0 .. Descs - 1 PROVE Ahead(i, k) \in Span(i, n) <=> k < n
  <2>1. CASE k < n
    <3>1. k \in 0 .. n - 1
      BY <1>1, <2>1
    <3> QED BY <2>1, <3>1 DEF Span
  <2>2. CASE Ahead(i, k) \in Span(i, n)
    <3>1. PICK j \in 0 .. n - 1 : Ahead(i, k) = Ahead(i, j)
      BY <2>2 DEF Span
    <3>2. k = j
      BY <3>1, <1>2, Distinct
    <3> QED BY <3>2, <1>1, <2>2
  <2> QED BY <2>1, <2>2
<1> QED BY <1>3, <1>4

(* A span and its next position. *)
LEMMA SpanGrows ==
  ASSUME NEW i \in Ring, NEW d \in 0 .. Descs - 1
  PROVE  /\ Ahead(Ahead(i, d), 1) = Ahead(i, d + 1)
         /\ Span(i, d + 1) = Span(i, d) \cup {Ahead(i, d)}
<1>1. /\ Descs \in Nat /\ 0 < Descs /\ i \in Nat /\ i < Descs /\ d \in Nat /\ d < Descs
      /\ d \in 0 .. Descs /\ d + 1 \in 0 .. Descs /\ 1 \in 0 .. Descs
  BY Bounds DEF Ring
<1>2. Ahead(i, d) \in Ring /\ Ahead(i, d) = IF i + d < Descs THEN i + d ELSE i + d - Descs
  BY <1>1, Wrap
<1>3. Ahead(i, d + 1) = IF i + (d + 1) < Descs THEN i + (d + 1) ELSE i + (d + 1) - Descs
  BY <1>1, Wrap
<1>4. Ahead(Ahead(i, d), 1)
        = IF Ahead(i, d) + 1 < Descs THEN Ahead(i, d) + 1 ELSE Ahead(i, d) + 1 - Descs
  BY <1>1, <1>2, Wrap
<1>5. Ahead(Ahead(i, d), 1) = Ahead(i, d + 1)
  BY <1>1, <1>2, <1>3, <1>4
<1>6. 0 .. (d + 1) - 1 = (0 .. d - 1) \cup {d}
  BY <1>1
<1> QED BY <1>5, <1>6 DEF Span

(* Whatever the distance. *)
LEMMA OnRing ==
  ASSUME NEW i \in Ring, NEW k \in Int
  PROVE  Ahead(i, k) \in Ring
<1>1. i + k \in Int /\ Descs \in Nat \ {0}
  BY Bounds DEF Ring
<1> QED BY <1>1 DEF Ahead, Ring

LEMMA NoSpan == \A i : Span(i, 0) = {}
  BY DEF Span

LEMMA AheadZero ==
  ASSUME NEW i \in Ring
  PROVE  Ahead(i, 0) = i
<1>1. Descs \in Nat /\ i \in Nat /\ i < Descs /\ 0 \in 0 .. Descs
  BY Bounds DEF Ring
<1> QED BY <1>1, Wrap

(* A set of numbers has a least one, and a bounded one a greatest. *)
LEMMA Least ==
  ASSUME NEW T \in SUBSET Nat, T # {}
  PROVE  \E k \in T : \A j \in T : k <= j
<1>1. PICK x \in T : \A y \in T : ~(<<y, x>> \in OpToRel(<, Nat))
  BY NatLessThanWellFounded, WFMin, Zenon
<1>2. ASSUME NEW y \in T PROVE ~(y < x)
  <2>1. <<y, x>> \in Nat \X Nat
    BY <1>1
  <2> QED BY <1>1, <2>1, Zenon DEF OpToRel
<1>3. \A y \in T : x <= y
  BY <1>2
<1> QED BY <1>3

LEMMA Greatest ==
  ASSUME NEW n \in Nat, NEW T \in SUBSET (0 .. n), T # {}
  PROVE  \E k \in T : \A j \in T : j <= k
<1> DEFINE U == {n - k : k \in T}
<1>1. U \subseteq Nat /\ U # {}
  <2>1. \A k \in T : n - k \in Nat
    OBVIOUS
  <2> QED BY <2>1
<1>2. PICK u \in U : \A v \in U : u <= v
  BY <1>1, Least
<1>3. PICK k \in T : u = n - k
  OBVIOUS
<1>4. \A j \in T : u <= n - j
  BY <1>2
<1> QED BY <1>3, <1>4
-----------------------------------------------------------------------------
(* Types. *)

LEMMA InitType ==
  ASSUME Init
  PROVE  TypeOK
<1>1. /\ 0 \in 0 .. MaxFlips /\ 0 \in 0 .. MaxSends /\ 0 \in Ring
      /\ NothingSeen \in [used : Nat, rel : Ring]
  BY Bounds DEF NothingSeen
<1>2. /\ cable \in BOOLEAN /\ flips \in 0 .. MaxFlips
      /\ lpc \in {"poll", "delay", "stopped", "up"} /\ up \in BOOLEAN /\ started \in BOOLEAN
  BY <1>1 DEF Init
<1>3. /\ pc \in [Threads -> Places] /\ sends \in 0 .. MaxSends
      /\ pkt \in [Threads -> Packets \cup {NoPkt}] /\ size \in [Threads -> Sizes \cup {0}]
      /\ config \in [pkt : Packets \cup {NoPkt}, n : Sizes \cup {0}]
      /\ seen \in [Threads -> [used : Nat, rel : Ring]]
  BY <1>1 DEF Init, Places
<1>4. /\ owned \subseteq Ring /\ last \subseteq Ring
      /\ address \in [Ring -> Packets \cup {NoPkt}]
      /\ cur \in Ring /\ rel \in Ring /\ used \in Nat /\ dma \in Ring
  BY <1>1 DEF Init
<1>5. refs \in [Packets -> Int] /\ given \in [Packets -> Nat] /\ toolong \subseteq Packets \cup {NoPkt}
  BY DEF Init
<1>6. /\ suspended \in BOOLEAN /\ ts \in BOOLEAN /\ sem \in BOOLEAN
      /\ overlapped \in BOOLEAN /\ refused \in BOOLEAN
  BY DEF Init
<1> QED BY <1>2, <1>3, <1>4, <1>5, <1>6 DEF TypeOK

(* Counting one more. *)
LEMMA CountsUp ==
  ASSUME NEW S, NEW T \in {Nat, Int}, NEW f \in [S -> T], NEW x
  PROVE  [f EXCEPT ![x] = @ + 1] \in [S -> T]
<1>1. \A y \in S : f[y] \in T /\ f[y] + 1 \in T
  OBVIOUS
<1>2. \A y \in S : [f EXCEPT ![x] = @ + 1][y] \in {f[y], f[y] + 1}
  OBVIOUS
<1> QED BY <1>1, <1>2

(* A binary semaphore, flags and the link. *)
LEMMA LinkType ==
  ASSUME TypeOK, Flip \/ LinkThread \/ DmaSuspend \/ Interrupt
  PROVE  TypeOK'
<1>1. flips < MaxFlips => flips + 1 \in 0 .. MaxFlips
  BY Bounds DEF TypeOK
<1>2. CASE Flip
  BY <1>1, <1>2 DEF Flip, TypeOK, callVars, descVars, dmaVars, history
<1>3. CASE LinkThread
  <2>1. /\ UNCHANGED <<cable, flips, callVars, descVars, dmaVars, history>>
        /\ lpc' \in {"poll", "delay", "stopped", "up"}
    BY <1>3 DEF LinkThread, PollOut, NetifDown, PollIn, Reported, LinkWakes, TypeOK
  <2>2. up' \in BOOLEAN /\ started' \in BOOLEAN
    BY <1>3 DEF LinkThread, PollOut, NetifDown, PollIn, Reported, LinkWakes, TypeOK
  <2> QED BY <2>1, <2>2 DEF TypeOK, callVars, descVars, dmaVars, history
<1>4. CASE DmaSuspend \/ Interrupt
  BY <1>4 DEF DmaSuspend, Interrupt, TypeOK, linkVars, callVars, descVars, history
<1> QED BY <1>2, <1>3, <1>4

LEMMA DmaType ==
  ASSUME TypeOK, DmaSend
  PROVE  TypeOK'
<1>1. dma \in Ring /\ 1 \in 0 .. Descs
  BY Bounds DEF TypeOK
<1>2. dma' \in Ring /\ owned' \subseteq Ring /\ ts' \in BOOLEAN
  BY <1>1, Wrap DEF DmaSend, TypeOK
<1> QED BY <1>2 DEF DmaSend, TypeOK, linkVars, callVars, history

LEMMA TooLongType ==
  ASSUME TypeOK, NEW t \in Threads, TooLong(t)
  PROVE  TypeOK'
<1>1. pc' \in [Threads -> Places] /\ pkt' \in [Threads -> Packets \cup {NoPkt}]
  BY DEF TooLong, TypeOK, Places
<1>2. size' \in [Threads -> Sizes \cup {0}]
  BY DEF TooLong, TypeOK
<1>3. toolong' \subseteq Packets \cup {NoPkt}
  BY DEF TooLong, TypeOK
<1> QED BY <1>1, <1>2, <1>3 DEF TooLong, TypeOK, linkVars, descVars, dmaVars

LEMMA CallType ==
  ASSUME TypeOK, NEW t \in Threads, Route(t) \/ Fill(t) \/ TakeSemaphore(t) \/ ReleaseBegin(t)
  PROVE  TypeOK'
<1>1. CASE Route(t)
  <2>1. sends + 1 \in Packets /\ sends + 1 \in 0 .. MaxSends
    BY <1>1, Bounds DEF Route, TypeOK, Packets
  <2>2. /\ pc' \in [Threads -> Places] /\ size' \in [Threads -> Sizes \cup {0}]
        /\ pkt' \in [Threads -> Packets \cup {NoPkt}] /\ sends' \in 0 .. MaxSends
    BY <1>1, <2>1 DEF Route, TypeOK, Places
  <2> QED BY <1>1, <2>2 DEF Route, TypeOK, linkVars, descVars, dmaVars, history
<1>2. CASE Fill(t)
  <2>1. pc' \in [Threads -> Places] /\ config' \in [pkt : Packets \cup {NoPkt}, n : Sizes \cup {0}]
    BY <1>2 DEF Fill, TypeOK, Places
  <2>2. refs' \in [Packets -> Int]
    BY <1>2, CountsUp DEF Fill, PbufRef, TypeOK
  <2>3. overlapped' \in BOOLEAN
    BY <1>2 DEF Fill, Inside, TypeOK
  <2> QED BY <1>2, <2>1, <2>2, <2>3 DEF Fill, TypeOK, linkVars, descVars, dmaVars
<1>3. CASE TakeSemaphore(t)
  BY <1>3 DEF TakeSemaphore, TypeOK, Places, linkVars, descVars, history
<1>4. CASE ReleaseBegin(t)
  <2>1. [used |-> used, rel |-> rel] \in [used : Nat, rel : Ring]
    BY DEF TypeOK
  <2>2. seen' = [seen EXCEPT ![t] = [used |-> used, rel |-> rel]]
    BY <1>4 DEF ReleaseBegin
  <2>3. seen' \in [Threads -> [used : Nat, rel : Ring]]
    BY <2>1, <2>2, ZenonT(40) DEF TypeOK
  <2>4. pc' \in [Threads -> Places]
    BY <1>4 DEF ReleaseBegin, TypeOK, Places
  <2> QED BY <1>4, <2>3, <2>4 DEF ReleaseBegin, TypeOK, linkVars, descVars, dmaVars, history
<1> QED BY <1>1, <1>2, <1>3, <1>4

LEMMA TransmitType ==
  ASSUME TypeOK, NEW t \in Threads, Transmit(t)
  PROVE  TypeOK'
<1>1. pc' \in [Threads -> Places]
  BY DEF Transmit, TypeOK, Places
<1>2. CASE refused' = TRUE /\ UNCHANGED <<descVars, dmaVars, given>>
  BY <1>1, <1>2 DEF Transmit, TypeOK, linkVars, descVars, dmaVars
<1>3. CASE TransmitOk(config.n)
  <2> DEFINE n == config.n
  <2>1. n \in Nat /\ cur \in Ring
    BY Bounds DEF TypeOK
  <2>2. Ahead(cur, n) \in Ring /\ Ahead(cur, n - 1) \in Ring /\ Span(cur, n) \subseteq Ring
    BY <2>1, OnRing DEF Span
  <2>3. /\ owned' = owned \cup Span(cur, n)
        /\ last' = (last \ Span(cur, n)) \cup {Ahead(cur, n - 1)}
        /\ address' = [address EXCEPT ![Ahead(cur, n - 1)] = config.pkt]
        /\ cur' = Ahead(cur, n) /\ used' = used + n /\ suspended' = FALSE
        /\ given' = [given EXCEPT ![config.pkt] = @ + 1]
    BY <1>3 DEF TransmitOk, Resume
  <2>4. /\ owned' \subseteq Ring /\ last' \subseteq Ring /\ cur' \in Ring /\ used' \in Nat
        /\ suspended' \in BOOLEAN
    <3> HIDE DEF n
    <3>1. owned' \subseteq Ring /\ last' \subseteq Ring /\ cur' \in Ring /\ suspended' \in BOOLEAN
      BY <2>2, <2>3 DEF TypeOK
    <3>2. used' \in Nat
      BY <2>1, <2>3 DEF TypeOK
    <3> QED BY <3>1, <3>2
  <2>5. address' \in [Ring -> Packets \cup {NoPkt}] /\ given' \in [Packets -> Nat]
    <3>1. config.pkt \in Packets \cup {NoPkt}
      BY DEF TypeOK
    <3>2. given' \in [Packets -> Nat]
      BY <2>3, CountsUp DEF TypeOK
    <3> HIDE DEF n
    <3>3. address' \in [Ring -> Packets \cup {NoPkt}]
      BY <2>3, <3>1 DEF TypeOK
    <3> QED BY <3>2, <3>3
  <2> QED BY <1>1, <1>3, <2>4, <2>5 DEF Transmit, TransmitOk, TypeOK, linkVars
<1> QED BY <1>2, <1>3 DEF Transmit

(* What is released was given. *)
LEMMA ReleasableBelow ==
  ASSUME NEW s \in [used : Nat, rel : Ring]
  PROVE  Releasable(s) \subseteq 0 .. s.used - 1
<1> DEFINE busy == {k \in 0 .. s.used - 1 :
                     LET i == Ahead(s.rel, k) IN address[i] # NoPkt /\ i \in owned}
           stop == IF busy = {} THEN s.used ELSE CHOOSE k \in busy : \A j \in busy : k <= j
<1>1. busy \in SUBSET Nat
  OBVIOUS
<1>2. stop \in Nat /\ stop <= s.used
  <2>1. CASE busy = {}
    BY <2>1
  <2>2. CASE busy # {}
    <3>1. \E k \in busy : \A j \in busy : k <= j
      <4> HIDE DEF busy
      <4> QED BY <1>1, <2>2, Least
    <3>2. stop \in busy
      BY <2>2, <3>1
    <3> QED BY <3>2
  <2> QED BY <2>1, <2>2
<1>3. Releasable(s) \subseteq 0 .. stop - 1
  BY DEF Releasable
<1> HIDE DEF stop
<1> QED BY <1>2, <1>3

LEMMA ReleaseType ==
  ASSUME TypeOK, NEW t \in Threads, ReleaseEnd(t)
  PROVE  TypeOK'
<1>1. /\ pc' \in [Threads -> Places] /\ seen' \in [Threads -> [used : Nat, rel : Ring]]
      /\ pkt' \in [Threads -> Packets \cup {NoPkt}] /\ size' \in [Threads -> Sizes \cup {0}]
  BY Bounds DEF ReleaseEnd, TypeOK, Places, NothingSeen
<1> DEFINE s == seen[t]
           done == Releasable(s)
<1>2. CASE UNCHANGED <<used, rel, refs, address>>
  BY <1>1, <1>2 DEF ReleaseEnd, TypeOK, linkVars, dmaVars
<1>3. CASE done # {} /\ Released(t, done)
  <2> DEFINE far == CHOOSE k \in done : \A j \in done : j <= k
             at == {Ahead(s.rel, k) : k \in done}
  <2>1. s \in [used : Nat, rel : Ring] /\ s.used \in Nat /\ done \subseteq 0 .. s.used - 1
    BY ReleasableBelow DEF TypeOK
  <2>2. far \in 0 .. s.used - 1
    <3>1. done \in SUBSET (0 .. s.used)
      BY <2>1
    <3>2. \E k \in done : \A j \in done : j <= k
      <4> HIDE DEF done
      <4> QED BY <1>3, <2>1, <3>1, Greatest
    <3> QED BY <2>1, <3>2
  <2>3. /\ used' = s.used - far - 1 /\ rel' = Ahead(s.rel, far + 1)
        /\ refs' = [p \in Packets |-> refs[p] - Cardinality({i \in at : address[i] = p})]
        /\ address' = [i \in Ring |-> IF i \in at THEN NoPkt ELSE address[i]]
    BY <1>3 DEF Released, Cleared
  <2> HIDE DEF far
  <2>4. used' \in Nat
    BY <2>1, <2>2, <2>3
  <2>5. \A k \in Int : Ahead(s.rel, k) \in Ring
    <3>1. s.rel \in Int /\ Descs \in Nat \ {0}
      BY <2>1, Bounds DEF Ring
    <3> QED BY <3>1 DEF Ahead, Ring
  <2>6. rel' \in Ring
    BY <2>1, <2>2, <2>3, <2>5
  <2>7. address' \in [Ring -> Packets \cup {NoPkt}]
    BY <2>3 DEF TypeOK
  <2>8. at \subseteq Ring
    BY <2>1, <2>5
  <2>9. refs' \in [Packets -> Int]
    <3>1. IsFiniteSet(Ring)
      BY Bounds, FS_Interval DEF Ring
    <3>2. \A p \in Packets : Cardinality({i \in at : address[i] = p}) \in Nat
      <4> HIDE DEF at
      <4> TAKE p \in Packets
      <4>1. {i \in at : address[i] = p} \in SUBSET Ring
        BY <2>8
      <4> QED BY <3>1, <4>1, FS_Subset, FS_CardinalityType
    <3> HIDE DEF at
    <3> QED BY <2>3, <3>2 DEF TypeOK
  <2> QED BY <1>1, <2>4, <2>6, <2>7, <2>9 DEF ReleaseEnd, TypeOK, linkVars, dmaVars
<1> QED BY <1>2, <1>3 DEF ReleaseEnd

LEMMA TypeStep ==
  ASSUME TypeOK, [Next]_vars
  PROVE  TypeOK'
<1>1. CASE Next
  BY <1>1, LinkType, DmaType, CallType, TransmitType, ReleaseType, TooLongType
     DEF Next, LowLevelOutput
<1>2. CASE UNCHANGED vars
  BY <1>2 DEF TypeOK, vars, linkVars, callVars, descVars, dmaVars, history
<1> QED BY <1>1, <1>2
-----------------------------------------------------------------------------
(* The inductive invariant.  As long as it is quiet the driver is empty,   *)
(* or it has the packet of one thread, of which the DMA has sent the first *)
(* d descriptors, and TS or the semaphore tells when it has sent them all. *)
Sent(t) == pc[t] \in {"waiting", "woken", "releasing"}

OneInside == \A t, k \in Threads : Inside(t) /\ Inside(k) => t = k
OwnConfig ==
  \A t \in Threads :
    /\ pc[t] = "filled" => config = [pkt |-> pkt[t], n |-> size[t]]
    /\ pc[t] = "routed" => size[t] \in Sizes
    /\ Inside(t) => size[t] \in 1 .. Descs

Empty ==
  /\ used = 0 /\ cur = rel /\ dma = rel /\ owned = {} /\ ~ts /\ ~sem
  /\ address = [i \in Ring |-> NoPkt]

Busy(t, d) ==
  /\ used = size[t] /\ cur = Ahead(rel, used) /\ dma = Ahead(rel, d)
  /\ owned = Span(rel, used) \ Span(rel, d)
  /\ address = [i \in Ring |-> IF i = Ahead(rel, used - 1) THEN pkt[t] ELSE NoPkt]
  /\ last \cap Span(rel, used) = {Ahead(rel, used - 1)}
  /\ d < used => ~ts /\ ~sem /\ ~suspended
  /\ pc[t] = "waiting" <=> d < used \/ ts \/ sem
  /\ ~(ts /\ sem)
  /\ pc[t] = "releasing" => seen[t] = [used |-> used, rel |-> rel]

Flow ==
  \/ Empty /\ \A t \in Threads : ~Sent(t)
  \/ \E t \in Threads : Sent(t) /\ \E d \in 0 .. used : Busy(t, d)

(* And every packet is given to the DMA once and freed once, but for those *)
(* that are too long, which nobody has any more.                           *)
OwnPacket ==
  /\ \A p \in toolong : p \in 1 .. sends /\ \A t \in Threads : pc[t] # "idle" => pkt[t] # p
  /\ \A t \in Threads : pc[t] # "idle" => pkt[t] \in 1 .. sends
  /\ \A t, k \in Threads : pc[t] # "idle" /\ pc[k] # "idle" /\ pkt[t] = pkt[k] => t = k

GivenOnce ==
  \A p \in Packets :
    given[p] = IF p <= sends /\ p \notin toolong
                  /\ \A t \in Threads : pc[t] \in {"routed", "filled"} => pkt[t] # p
               THEN 1 ELSE 0
HeldOnce ==
  \A p \in Packets :
    refs[p] = IF \E t \in Threads : Inside(t) /\ pkt[t] = p THEN 1 ELSE 0

Calm == OneInside /\ OwnConfig /\ Flow /\ OwnPacket /\ GivenOnce /\ HeldOnce

IInv == TypeOK /\ (Quiet => Calm)

LEMMA Initially == Init => IInv
<1> SUFFICES ASSUME Init PROVE IInv
  OBVIOUS
<1>1. TypeOK
  BY InitType
<1>2. \A t \in Threads : pc[t] = "idle"
  BY DEF Init
<1>3. OneInside /\ OwnConfig
  BY <1>2 DEF OneInside, OwnConfig, Inside
<1>4. Flow
  BY <1>2 DEF Flow, Empty, Sent, Init
<1>5. OwnPacket
  BY <1>2 DEF OwnPacket, Init
<1>6. GivenOnce
  <2>1. \A p \in Packets : ~(p <= sends) /\ given[p] = 0
    BY Bounds DEF Init, Packets
  <2> QED BY <2>1 DEF GivenOnce
<1>7. HeldOnce
  BY <1>2 DEF HeldOnce, Inside, Init
<1> QED BY <1>1, <1>3, <1>4, <1>5, <1>6, <1>7 DEF IInv, Calm

(* What the calls of the threads say stays when they stay.                 *)
LEMMA CallsStay ==
  ASSUME Calm, UNCHANGED <<callVars, refs, given, toolong>>
  PROVE  OneInside' /\ OwnConfig' /\ OwnPacket' /\ GivenOnce' /\ HeldOnce'
<1>1. OneInside' /\ OwnConfig' /\ OwnPacket'
  BY DEF Calm, callVars, OneInside, OwnConfig, OwnPacket, Inside
<1>2. GivenOnce' /\ HeldOnce'
  BY DEF Calm, callVars, GivenOnce, HeldOnce, Inside
<1> QED BY <1>1, <1>2

(* And what the driver says, when nobody in it moves.                      *)
LEMMA FlowStays ==
  ASSUME Flow, UNCHANGED <<descVars, dmaVars>>,
         \A t \in Threads : /\ Sent(t)' <=> Sent(t)
                            /\ Sent(t) => /\ pc'[t] = pc[t] /\ size'[t] = size[t]
                                          /\ pkt'[t] = pkt[t] /\ seen'[t] = seen[t]
  PROVE  Flow'
<1>1. CASE Empty /\ \A t \in Threads : ~Sent(t)
  BY <1>1 DEF Flow, Empty, descVars, dmaVars
<1>2. CASE \E t \in Threads : Sent(t) /\ \E d \in 0 .. used : Busy(t, d)
  <2>1. PICK t \in Threads : Sent(t) /\ \E d \in 0 .. used : Busy(t, d)
    BY <1>2
  <2>2. PICK d \in 0 .. used : Busy(t, d)
    BY <2>1
  <2>3. Busy(t, d)' /\ used' = used
    BY <2>1, <2>2 DEF Busy, descVars, dmaVars, Span, Ahead
  <2> QED BY <2>1, <2>3 DEF Flow
<1> QED BY <1>1, <1>2 DEF Flow

LEMMA LinkStep ==
  ASSUME Calm, Flip \/ LinkThread
  PROVE  Calm'
<1>1. UNCHANGED <<callVars, descVars, dmaVars, history>>
  BY DEF Flip, LinkThread, PollOut, NetifDown, PollIn, Reported, LinkWakes
<1>2. Flow'
  BY <1>1, FlowStays DEF Calm, callVars, Sent
<1> QED BY <1>1, <1>2, CallsStay DEF Calm, history

(* In the driver a packet has a buffer and fits the ring; the DMA owns the *)
(* descriptor it looks at unless it has sent them all.                     *)
LEMMA BusyRing ==
  ASSUME TypeOK, OwnConfig, NEW t \in Threads, Sent(t), NEW d \in 0 .. used, Busy(t, d)
  PROVE  /\ used \in Nat /\ 0 < used /\ used <= Descs /\ d \in Nat /\ d <= used
         /\ d < used => d \in 0 .. Descs - 1
         /\ rel \in Ring
         /\ d < used <=> dma \in owned
         /\ d < used <=> owned # {}
         /\ d < used => (dma \in last <=> d = used - 1)
         /\ d = used => dma = cur
<1>1. /\ used \in Nat /\ 0 < used /\ used <= Descs /\ d \in Nat /\ d <= used
      /\ d < used => d \in 0 .. Descs - 1
      /\ rel \in Ring
      /\ d \in 0 .. Descs /\ used \in 0 .. Descs /\ used - 1 \in 0 .. Descs - 1
  <2>1. used \in 1 .. Descs
    BY DEF Busy, OwnConfig, Inside, Sent
  <2> QED BY <2>1, Bounds DEF TypeOK
<1>2. d < used => dma \in Span(rel, used)
  BY <1>1, InSpan DEF Busy
<1>3. d < used => dma \notin Span(rel, d)
  BY <1>1, InSpan DEF Busy
<1>4. d < used <=> dma \in owned
  <2>1. ~(d < used) => owned = {}
    <3>1. ~(d < used) => d = used
      BY <1>1
    <3> QED BY <3>1 DEF Busy
  <2> QED BY <1>2, <1>3, <2>1 DEF Busy
<1>5. d < used <=> owned # {}
  <2>1. CASE d < used
    BY <1>4, <2>1
  <2>2. CASE ~(d < used)
    <3>1. d = used
      BY <1>1, <2>2
    <3> QED BY <3>1, <2>2 DEF Busy
  <2> QED BY <2>1, <2>2
<1>6. ASSUME d < used PROVE dma \in last <=> d = used - 1
  <2>1. dma \in last <=> dma = Ahead(rel, used - 1)
    BY <1>2, <1>6 DEF Busy
  <2>2. dma = Ahead(rel, used - 1) => d = used - 1
    BY <1>1, <1>6, Distinct DEF Busy
  <2> QED BY <2>1, <2>2 DEF Busy
<1>7. d = used => dma = cur
  BY DEF Busy
<1> QED BY <1>1, <1>4, <1>5, <1>6, <1>7

LEMMA DmaSendStep ==
  ASSUME TypeOK, Calm, DmaSend
  PROVE  Calm'
<1>1. /\ dma \in owned /\ ~suspended /\ owned' = owned \ {dma} /\ ts' = (ts \/ dma \in last)
      /\ dma' = Ahead(dma, 1)
      /\ UNCHANGED <<callVars, last, address, cur, rel, used, suspended, sem, history>>
  BY DEF DmaSend
<1>2. PICK t \in Threads : Sent(t) /\ \E d \in 0 .. used : Busy(t, d)
  BY <1>1 DEF Calm, Flow, Empty
<1>3. PICK d \in 0 .. used : Busy(t, d)
  BY <1>2
<1>4. /\ used \in Nat /\ 0 < used /\ used <= Descs /\ d \in Nat /\ d < used
      /\ d \in 0 .. Descs - 1 /\ rel \in Ring
      /\ dma \in last <=> d = used - 1
  BY <1>1, <1>2, <1>3, BusyRing DEF Calm
<1>5. d + 1 \in 0 .. used' /\ d + 1 <= used
  BY <1>1, <1>4
<1>6. dma' = Ahead(rel, d + 1) /\ owned' = Span(rel, used) \ Span(rel, d + 1)
  <2>1. Ahead(Ahead(rel, d), 1) = Ahead(rel, d + 1) /\ Span(rel, d + 1) = Span(rel, d) \cup {Ahead(rel, d)}
    BY <1>4, SpanGrows
  <2> QED BY <1>1, <1>3, <2>1 DEF Busy
<1>7. ~ts /\ ~sem /\ pc[t] = "waiting"
  BY <1>3, <1>4 DEF Busy
<1>8. ts' <=> d + 1 = used
  <2>1. ts' <=> dma \in last
    BY <1>1, <1>7, Zenon
  <2>2. d = used - 1 <=> d + 1 = used
    BY <1>4
  <2> QED BY <1>4, <2>1, <2>2
<1>9. Busy(t, d + 1)'
  <2>1. d + 1 < used => ~ts' /\ ~sem' /\ ~suspended'
    BY <1>1, <1>4, <1>7, <1>8
  <2>2. pc'[t] = "waiting" /\ (d + 1 < used \/ ts' \/ sem') /\ ~(ts' /\ sem')
    BY <1>1, <1>4, <1>7, <1>8 DEF callVars
  <2>3. /\ used' = size'[t] /\ cur' = Ahead(rel', used')
        /\ address' = [i \in Ring |-> IF i = Ahead(rel', used' - 1) THEN pkt'[t] ELSE NoPkt]
        /\ last' \cap Span(rel', used') = {Ahead(rel', used' - 1)}
    BY <1>1, <1>3 DEF Busy, callVars
  <2> QED BY <1>1, <1>6, <2>1, <2>2, <2>3 DEF Busy, Span, Ahead
<1>10. Sent(t)'
  BY <1>1, <1>2 DEF Sent, callVars
<1>11. Flow'
  BY <1>5, <1>9, <1>10 DEF Flow
<1> QED BY <1>1, <1>11, CallsStay DEF Calm, history

(* The DMA stops looking when it has sent everything; the interrupt turns  *)
(* its flag into the semaphore.                                            *)
LEMMA SignalStep ==
  ASSUME TypeOK, Calm, DmaSuspend \/ Interrupt
  PROVE  Calm'
<1>1. UNCHANGED <<callVars, descVars, dma, history>>
  BY DEF DmaSuspend, Interrupt
<1>2. CASE Empty /\ \A t \in Threads : ~Sent(t)
  <2>1. DmaSuspend
    BY <1>2 DEF Interrupt, Empty
  <2>2. Empty' /\ \A t \in Threads : ~Sent(t)'
    BY <1>1, <1>2, <2>1 DEF DmaSuspend, Empty, Sent, callVars, descVars
  <2> QED BY <1>1, <2>2, CallsStay DEF Calm, history, Flow
<1>3. CASE \E t \in Threads : Sent(t) /\ \E d \in 0 .. used : Busy(t, d)
  <2>1. PICK t \in Threads : Sent(t) /\ \E d \in 0 .. used : Busy(t, d)
    BY <1>3
  <2>2. PICK d \in 0 .. used : Busy(t, d)
    BY <2>1
  <2>3. ~(d < used)
    <3>1. d < used => ~ts /\ dma \in owned
      BY <2>1, <2>2, BusyRing DEF Busy, Calm
    <3> QED BY <3>1 DEF DmaSuspend, Interrupt
  <2>4. UNCHANGED <<pc, size, pkt, seen, owned, last, address, cur, rel, used, dma>>
    BY <1>1 DEF callVars, descVars
  <2>5. (ts' \/ sem') <=> (ts \/ sem)
    BY DEF DmaSuspend, Interrupt
  <2>6. ~(ts' /\ sem')
    BY <2>2 DEF DmaSuspend, Interrupt, Busy
  <2>7. Busy(t, d)'
    BY <2>2, <2>3, <2>4, <2>5, <2>6 DEF Busy, Span, Ahead
  <2>8. Flow'
    BY <2>1, <2>4, <2>7 DEF Flow, Sent
  <2> QED BY <1>1, <2>8, CallsStay DEF Calm, history
<1> QED BY <1>2, <1>3 DEF Calm, Flow

(* Someone sets out with a new packet. *)
LEMMA RouteStep ==
  ASSUME TypeOK, Calm, NEW t \in Threads, Route(t)
  PROVE  Calm'
<1>1. /\ pc[t] = "idle" /\ pc' = [pc EXCEPT ![t] = "routed"]
      /\ sends' = sends + 1 /\ pkt' = [pkt EXCEPT ![t] = sends + 1]
      /\ \E n \in Sizes : size' = [size EXCEPT ![t] = n]
      /\ UNCHANGED <<config, seen, descVars, dmaVars, refs, given, toolong>>
  BY DEF Route, history
<1>2. /\ \A k \in Threads \ {t} : pc'[k] = pc[k] /\ pkt'[k] = pkt[k] /\ size'[k] = size[k]
      /\ pc'[t] = "routed" /\ pkt'[t] = sends + 1
  BY <1>1 DEF TypeOK
<1>3. sends \in Nat /\ sends + 1 \in Nat
  BY Bounds DEF TypeOK
<1>4. \A k \in Threads : Inside(k)' <=> Inside(k)
  BY <1>1, <1>2 DEF Inside
<1>5. OneInside'
  BY <1>4 DEF Calm, OneInside
<1>6. OwnConfig'
  <2>1. ~Inside(t) /\ size'[t] \in Sizes
    BY <1>1 DEF Inside, TypeOK
  <2> QED BY <1>1, <1>2, <1>4, <2>1 DEF Calm, OwnConfig
<1>7. Flow'
  BY <1>1, <1>2, FlowStays DEF Calm, Sent
<1>8. OwnPacket'
  <2>1. \A k \in Threads : pc[k] # "idle" => pkt[k] \in 1 .. sends
    BY DEF Calm, OwnPacket
  <2>2. \A k \in Threads \ {t} : pc[k] # "idle" => pkt'[k] \in 1 .. sends' /\ pkt'[k] # pkt'[t]
    BY <1>1, <1>2, <1>3, <2>1
  <2>3. pkt'[t] \in 1 .. sends'
    BY <1>1, <1>2, <1>3
  <2>4. \A p \in toolong' : p \in 1 .. sends' /\ \A k \in Threads : pc'[k] # "idle" => pkt'[k] # p
    <3> TAKE p \in toolong'
    <3>1. p \in 1 .. sends /\ \A k \in Threads : pc[k] # "idle" => pkt[k] # p
      BY <1>1 DEF Calm, OwnPacket
    <3>2. p \in 1 .. sends' /\ p # sends + 1
      BY <1>1, <1>3, <3>1
    <3> QED BY <1>2, <3>1, <3>2
  <2> QED BY <1>2, <2>2, <2>3, <2>4 DEF Calm, OwnPacket
<1>9. GivenOnce'
  <2> SUFFICES ASSUME NEW p \in Packets
               PROVE  given[p] = IF p <= sends' /\ p \notin toolong /\ \A k \in Threads :
                                      pc'[k] \in {"routed", "filled"} => pkt'[k] # p
                                 THEN 1 ELSE 0
    BY <1>1 DEF GivenOnce
  <2>1. given[p] = IF p <= sends /\ p \notin toolong
                      /\ \A k \in Threads : pc[k] \in {"routed", "filled"} => pkt[k] # p
                   THEN 1 ELSE 0
    BY DEF Calm, GivenOnce
  <2>2. p \in Nat
    BY DEF Packets
  <2>3. CASE p = sends + 1
    BY <1>2, <1>3, <2>1, <2>3
  <2>4. CASE p # sends + 1
    <3>1. p <= sends' <=> p <= sends
      BY <1>1, <1>3, <2>2, <2>4
    <3>2. \A k \in Threads : (pc'[k] \in {"routed", "filled"} => pkt'[k] # p)
                             <=> (pc[k] \in {"routed", "filled"} => pkt[k] # p)
      BY <1>1, <1>2, <2>4
    <3> QED BY <2>1, <3>1, <3>2
  <2> QED BY <2>3, <2>4
<1>10. HeldOnce'
  <2>1. \A k \in Threads : Inside(k) => pkt'[k] = pkt[k]
    BY <1>1, <1>2 DEF Inside
  <2> QED BY <1>1, <1>4, <2>1 DEF Calm, HeldOnce
<1> QED BY <1>5, <1>6, <1>7, <1>8, <1>9, <1>10 DEF Calm

(* Or gets ERR_IF for it. *)
LEMMA TooLongStep ==
  ASSUME TypeOK, Calm, NEW t \in Threads, TooLong(t)
  PROVE  Calm'
<1>1. /\ pc[t] = "routed" /\ pc' = [pc EXCEPT ![t] = "idle"]
      /\ pkt' = [pkt EXCEPT ![t] = NoPkt] /\ size' = [size EXCEPT ![t] = 0]
      /\ toolong' = toolong \cup {pkt[t]}
      /\ UNCHANGED <<sends, config, seen, descVars, dmaVars, refs, given>>
  BY DEF TooLong
<1>2. /\ \A k \in Threads \ {t} : pc'[k] = pc[k] /\ pkt'[k] = pkt[k] /\ size'[k] = size[k]
      /\ pc'[t] = "idle"
  BY <1>1 DEF TypeOK
<1>3. \A k \in Threads : (Inside(k)' <=> Inside(k)) /\ (Inside(k) => k # t)
  BY <1>1, <1>2 DEF Inside
<1>4. OneInside' /\ OwnConfig'
  BY <1>1, <1>2, <1>3 DEF Calm, OneInside, OwnConfig
<1>5. Flow'
  BY <1>1, <1>2, FlowStays DEF Calm, Sent
<1>6. pkt[t] \in 1 .. sends /\ \A k \in Threads \ {t} : pc[k] # "idle" => pkt[k] # pkt[t]
  BY <1>1 DEF Calm, OwnPacket
<1>7. OwnPacket'
  BY <1>1, <1>2, <1>6 DEF Calm, OwnPacket
<1>8. GivenOnce'
  <2> SUFFICES ASSUME NEW p \in Packets
               PROVE  given[p] = IF p <= sends /\ p \notin toolong' /\ \A k \in Threads :
                                      pc'[k] \in {"routed", "filled"} => pkt'[k] # p
                                 THEN 1 ELSE 0
    BY <1>1 DEF GivenOnce
  <2>1. given[p] = IF p <= sends /\ p \notin toolong
                      /\ \A k \in Threads : pc[k] \in {"routed", "filled"} => pkt[k] # p
                   THEN 1 ELSE 0
    BY DEF Calm, GivenOnce
  <2>2. CASE p = pkt[t]
    BY <1>1, <2>1, <2>2
  <2>3. CASE p # pkt[t]
    BY <1>1, <1>2, <2>1, <2>3
  <2> QED BY <2>2, <2>3
<1>9. HeldOnce'
  BY <1>1, <1>2, <1>3 DEF Calm, HeldOnce
<1> QED BY <1>4, <1>5, <1>7, <1>8, <1>9 DEF Calm

(* And fills TxConfig.  He is alone, or they overlap. *)
LEMMA FillStep ==
  ASSUME TypeOK, Calm, NEW t \in Threads, Fill(t), Quiet'
  PROVE  Calm'
<1>1. /\ pc[t] = "routed" /\ pc' = [pc EXCEPT ![t] = "filled"]
      /\ config' = [pkt |-> pkt[t], n |-> size[t]]
      /\ refs' = [refs EXCEPT ![pkt[t]] = @ + 1]
      /\ UNCHANGED <<sends, pkt, size, seen, descVars, dmaVars, given, toolong>>
      /\ size[t] <= Descs
      /\ \A k \in Threads \ {t} : ~Inside(k)
  BY DEF Fill, PbufRef, Quiet
<1>2. pc'[t] = "filled" /\ \A k \in Threads \ {t} : pc'[k] = pc[k]
  BY <1>1 DEF TypeOK
<1>3. /\ Inside(t)' /\ \A k \in Threads \ {t} : ~Inside(k)'
      /\ \A k \in Threads : ~Inside(k)
  BY <1>1, <1>2 DEF Inside
<1>4. OneInside'
  BY <1>3 DEF OneInside
<1>5. OwnConfig'
  <2>1. size[t] \in 1 .. Descs
    <3>1. size[t] \in Sizes
      BY <1>1 DEF Calm, OwnConfig
    <3> QED BY <1>1, <3>1, Bounds
  <2>2. \A k \in Threads : pc'[k] = "routed" => size'[k] \in Sizes
    BY <1>1, <1>2 DEF Calm, OwnConfig
  <2>3. \A k \in Threads : pc'[k] = "filled" => k = t
    BY <1>3 DEF Inside
  <2>4. \A k \in Threads : Inside(k)' => size'[k] \in 1 .. Descs
    BY <1>1, <1>3, <2>1
  <2>5. config' = [pkt |-> pkt'[t], n |-> size'[t]]
    BY <1>1
  <2> QED BY <2>2, <2>3, <2>4, <2>5 DEF OwnConfig
<1>6. Flow'
  BY <1>1, <1>2, FlowStays DEF Calm, Sent
<1>7. OwnPacket'
  BY <1>1, <1>2 DEF Calm, OwnPacket
<1>8. GivenOnce'
  BY <1>1, <1>2 DEF Calm, GivenOnce
<1>9. HeldOnce'
  <2>1. \A p \in Packets : refs[p] = 0
    BY <1>3 DEF Calm, HeldOnce
  <2>2. \A p \in Packets : refs'[p] = IF p = pkt[t] THEN 1 ELSE 0
    BY <1>1, <2>1 DEF TypeOK
  <2> QED BY <1>1, <1>3, <2>2 DEF HeldOnce
<1> QED BY <1>4, <1>5, <1>6, <1>7, <1>8, <1>9 DEF Calm

(* A thread inside that moves on inside keeps its accounts.                *)
LEMMA AccountsStay ==
  ASSUME TypeOK, Calm, NEW t \in Threads, NEW w \in {"waiting", "woken", "releasing"}, Sent(t),
         pc' = [pc EXCEPT ![t] = w],
         UNCHANGED <<sends, pkt, size, config, refs, given, toolong>>
  PROVE  OneInside' /\ OwnConfig' /\ OwnPacket' /\ GivenOnce' /\ HeldOnce'
<1>1. pc'[t] = w /\ \A k \in Threads \ {t} : pc'[k] = pc[k]
  BY DEF TypeOK
<1>2. \A k \in Threads : Inside(k)' <=> Inside(k)
  BY <1>1 DEF Inside, Sent
<1>3. \A k \in Threads : /\ pc'[k] = "idle" <=> pc[k] = "idle"
                         /\ pc'[k] = "filled" <=> pc[k] = "filled"
                         /\ pc'[k] = "routed" <=> pc[k] = "routed"
  BY <1>1 DEF Sent
<1>4. OneInside' /\ OwnConfig' /\ OwnPacket'
  BY <1>2, <1>3 DEF Calm, OneInside, OwnConfig, OwnPacket
<1>5. GivenOnce' /\ HeldOnce'
  BY <1>2, <1>3 DEF Calm, GivenOnce, HeldOnce
<1> QED BY <1>4, <1>5

LEMMA WakeStep ==
  ASSUME TypeOK, Calm, NEW t \in Threads, TakeSemaphore(t) \/ ReleaseBegin(t)
  PROVE  Calm'
<1>1. Sent(t) /\ UNCHANGED <<sends, pkt, size, config, descVars, dma, suspended, ts, history>>
  BY DEF TakeSemaphore, ReleaseBegin, Sent, dmaVars
<1>2. PICK k \in Threads : Sent(k) /\ \E d \in 0 .. used : Busy(k, d)
  BY <1>1 DEF Calm, Flow
<1>3. k = t
  BY <1>1, <1>2 DEF Calm, OneInside, Inside, Sent
<1>4. PICK d \in 0 .. used : Busy(t, d)
  BY <1>2, <1>3
<1>5. CASE TakeSemaphore(t)
  <2>1. sem /\ sem' = FALSE /\ pc[t] = "waiting" /\ pc' = [pc EXCEPT ![t] = "woken"] /\ seen' = seen
    BY <1>5 DEF TakeSemaphore
  <2>2. ~ts /\ ~(d < used)
    BY <1>4, <2>1 DEF Busy
  <2>3. pc'[t] = "woken"
    BY <2>1 DEF TypeOK
  <2>4. Busy(t, d)' /\ Sent(t)' /\ used' = used
    BY <1>1, <1>4, <2>1, <2>2, <2>3 DEF Busy, Sent, Span, Ahead, descVars
  <2>5. Flow'
    BY <2>4 DEF Flow
  <2> QED BY <1>1, <2>1, <2>5, AccountsStay DEF Calm, history
<1>6. CASE ReleaseBegin(t)
  <2>1. /\ pc[t] = "woken" /\ pc' = [pc EXCEPT ![t] = "releasing"] /\ sem' = sem
        /\ seen' = [seen EXCEPT ![t] = [used |-> used, rel |-> rel]]
    BY <1>6 DEF ReleaseBegin, dmaVars
  <2>2. pc'[t] = "releasing" /\ seen'[t] = [used |-> used, rel |-> rel]
    BY <2>1 DEF TypeOK
  <2>3. Busy(t, d)' /\ Sent(t)' /\ used' = used
    BY <1>1, <1>4, <2>1, <2>2 DEF Busy, Sent, Span, Ahead, descVars
  <2>4. Flow'
    BY <2>3 DEF Flow
  <2> QED BY <1>1, <2>1, <2>4, AccountsStay DEF Calm, history
<1> QED BY <1>5, <1>6

(* A packet given to an empty driver. *)
LEMMA TransmitStep ==
  ASSUME TypeOK, Calm, NEW t \in Threads, Transmit(t), Quiet'
  PROVE  Calm'
<1> DEFINE n == size[t]
           end == Ahead(rel, n - 1)
<1>1. /\ pc[t] = "filled" /\ pc' = [pc EXCEPT ![t] = "waiting"]
      /\ UNCHANGED <<sends, pkt, size, config, seen, refs, toolong>>
      /\ config = [pkt |-> pkt[t], n |-> n] /\ n \in 1 .. Descs
      /\ TransmitOk(n)
  BY DEF Transmit, Quiet, Calm, OwnConfig, Inside
<1>2. pc'[t] = "waiting" /\ \A k \in Threads \ {t} : pc'[k] = pc[k]
  BY <1>1 DEF TypeOK
<1>3. \A k \in Threads : ~Sent(k)
  BY <1>1 DEF Calm, OneInside, Inside, Sent
<1>4. Empty
  BY <1>3 DEF Calm, Flow
<1>5. /\ n \in Nat /\ 0 < n /\ n <= Descs /\ n \in 0 .. Descs /\ n - 1 \in 0 .. Descs
      /\ n - 1 \in 0 .. Descs - 1 /\ Descs \in Nat /\ rel \in Ring /\ 0 \in 0 .. n
  <2> HIDE DEF n
  <2>1. Descs \in Nat /\ rel \in Ring
    BY Bounds DEF TypeOK
  <2> QED BY <1>1, <2>1
<1>6. end \in Ring /\ end \in Span(rel, n) /\ Ahead(rel, 0) = rel /\ Span(rel, 0) = {}
  <2>1. end \in Ring
    BY <1>5, Wrap
  <2>2. end \in Span(rel, n)
    <3>1. n - 1 < n
      BY <1>5
    <3> QED BY <1>5, <3>1, InSpan
  <2> QED BY <1>5, <2>1, <2>2, AheadZero, NoSpan
<1>7. /\ owned' = Span(rel, n) /\ cur' = Ahead(rel, n) /\ rel' = rel /\ dma' = rel
      /\ used' = n /\ ts' = ts /\ sem' = sem /\ suspended' = FALSE
  BY <1>1, <1>4, <1>5 DEF TransmitOk, Resume, Empty
<1>8. last' \cap Span(rel, n) = {end}
  BY <1>1, <1>4, <1>6 DEF TransmitOk, Empty
<1>9. address' = [i \in Ring |-> IF i = end THEN pkt[t] ELSE NoPkt]
  BY <1>1, <1>4, <1>6 DEF TransmitOk, Empty
<1>10. Busy(t, 0)'
  <2>1. /\ used' = size'[t] /\ cur' = Ahead(rel', used') /\ dma' = Ahead(rel', 0)
        /\ owned' = Span(rel', used') \ Span(rel', 0)
        /\ address' = [i \in Ring |-> IF i = Ahead(rel', used' - 1) THEN pkt'[t] ELSE NoPkt]
        /\ last' \cap Span(rel', used') = {Ahead(rel', used' - 1)}
    BY <1>1, <1>6, <1>7, <1>8, <1>9
  <2>2. ~ts' /\ ~sem' /\ ~suspended' /\ 0 < used' /\ pc'[t] = "waiting"
    BY <1>2, <1>4, <1>5, <1>7 DEF Empty
  <2> HIDE DEF n, end
  <2> QED BY <2>1, <2>2 DEF Busy, Span, Ahead
<1>11. Flow'
  <2>1. Sent(t)' /\ 0 \in 0 .. used'
    BY <1>2, <1>5, <1>7 DEF Sent
  <2> QED BY <1>10, <2>1 DEF Flow
<1>12. \A k \in Threads : Inside(k)' <=> Inside(k)
  BY <1>1, <1>2 DEF Inside
<1>13. OneInside' /\ HeldOnce'
  BY <1>1, <1>12 DEF Calm, OneInside, HeldOnce
<1>14. OwnConfig' /\ OwnPacket'
  <2>1. OwnConfig'
    BY <1>1, <1>2, <1>12 DEF Calm, OwnConfig
  <2>2. OwnPacket'
    BY <1>1, <1>2 DEF Calm, OwnPacket
  <2> QED BY <2>1, <2>2
<1>15. GivenOnce'
  <2>1. given' = [given EXCEPT ![pkt[t]] = @ + 1]
    BY <1>1 DEF TransmitOk
  <2>2. /\ pkt[t] \in 1 .. sends /\ \A k \in Threads \ {t} : pc[k] # "idle" => pkt[k] # pkt[t]
        /\ pkt[t] \notin toolong
    BY <1>1 DEF Calm, OwnPacket
  <2> SUFFICES ASSUME NEW p \in Packets
               PROVE  given'[p] = IF p <= sends /\ p \notin toolong /\ \A k \in Threads :
                                        pc'[k] \in {"routed", "filled"} => pkt[k] # p
                                   THEN 1 ELSE 0
    BY <1>1 DEF GivenOnce
  <2>3. given[p] = IF p <= sends /\ p \notin toolong
                      /\ \A k \in Threads : pc[k] \in {"routed", "filled"} => pkt[k] # p
                   THEN 1 ELSE 0
    BY DEF Calm, GivenOnce
  <2>4. CASE p = pkt[t]
    <3>1. given[p] = 0
      BY <1>1, <2>3, <2>4
    <3>2. given'[p] = 1
      BY <2>1, <2>4, <3>1 DEF TypeOK
    <3>3. p <= sends /\ p \notin toolong
      BY <2>2, <2>4
    <3>4. \A k \in Threads : pc'[k] \in {"routed", "filled"} => pkt[k] # p
      BY <1>2, <2>2, <2>4
    <3> QED BY <3>2, <3>3, <3>4
  <2>5. CASE p # pkt[t]
    <3>1. given'[p] = given[p]
      BY <2>1, <2>5 DEF TypeOK
    <3>2. \A k \in Threads : (pc'[k] \in {"routed", "filled"} => pkt[k] # p)
                             <=> (pc[k] \in {"routed", "filled"} => pkt[k] # p)
      BY <1>1, <1>2, <2>5
    <3> QED BY <2>3, <3>1, <3>2
  <2> QED BY <2>4, <2>5
<1> QED BY <1>11, <1>13, <1>14, <1>15 DEF Calm

(* The release finds the one entry, at the last descriptor of the packet.  *)
LEMMA ReleaseStep ==
  ASSUME TypeOK, Calm, NEW t \in Threads, ReleaseEnd(t)
  PROVE  Calm'
<1>1. /\ pc[t] = "releasing" /\ pc' = [pc EXCEPT ![t] = "idle"]
      /\ pkt' = [pkt EXCEPT ![t] = NoPkt] /\ size' = [size EXCEPT ![t] = 0]
      /\ UNCHANGED <<sends, config, owned, last, cur, dmaVars, given, toolong>>
  BY DEF ReleaseEnd
<1>2. /\ pc'[t] = "idle"
      /\ \A k \in Threads \ {t} : pc'[k] = pc[k] /\ pkt'[k] = pkt[k] /\ size'[k] = size[k]
  BY <1>1 DEF TypeOK
<1>3. Inside(t) /\ \A k \in Threads \ {t} : ~Inside(k)
  BY <1>1 DEF Calm, OneInside, Inside
<1>4. PICK k \in Threads : Sent(k) /\ \E d \in 0 .. used : Busy(k, d)
  BY <1>1 DEF Calm, Flow, Sent
<1>5. k = t
  BY <1>3, <1>4 DEF Inside, Sent
<1>6. PICK d \in 0 .. used : Busy(t, d)
  BY <1>4, <1>5
<1> DEFINE end == Ahead(rel, used - 1)
           s == [used |-> used, rel |-> rel]
<1>7. /\ used \in Nat /\ 0 < used /\ used <= Descs /\ used - 1 \in 0 .. Descs - 1
      /\ used - 1 \in 0 .. Descs /\ rel \in Ring /\ used - 1 \in 0 .. used - 1
      /\ \A j \in 0 .. used - 1 : j \in 0 .. Descs - 1 /\ j \in 0 .. Descs
  <2>1. used \in Nat /\ 0 < used /\ used <= Descs /\ rel \in Ring
    BY <1>4, <1>5, <1>6, BusyRing DEF Calm
  <2> QED BY <2>1, Bounds
<1>8. d = used /\ owned = {} /\ ~ts /\ ~sem /\ dma = cur
  <2>1. ~(d < used) /\ ~ts /\ ~sem
    BY <1>1, <1>6 DEF Busy
  <2>2. owned = {} /\ d = used /\ dma = cur
    BY <1>4, <1>5, <1>6, <2>1, BusyRing DEF Calm
  <2> QED BY <2>1, <2>2
<1>9. /\ seen[t] = s /\ cur = Ahead(rel, used)
      /\ address = [i \in Ring |-> IF i = end THEN pkt[t] ELSE NoPkt]
  BY <1>1, <1>6 DEF Busy
<1>10. end \in Ring /\ pkt[t] \in Packets /\ pkt[t] # NoPkt
  <2>1. pkt[t] \in 1 .. sends
    BY <1>1 DEF Calm, OwnPacket
  <2>2. pkt[t] \in Packets
    BY <2>1, Bounds DEF TypeOK, Packets
  <2> QED BY <1>7, <2>2, Wrap, NoPktAssumption
<1>11. Releasable(s) = {used - 1}
  <2>1. Releasable(s) = {j \in 0 .. used - 1 : address[Ahead(rel, j)] # NoPkt}
    BY <1>8 DEF Releasable
  <2>2. \A j \in 0 .. used - 1 : address[Ahead(rel, j)] # NoPkt <=> j = used - 1
    <3> TAKE j \in 0 .. used - 1
    <3>1. Ahead(rel, j) \in Ring
      <4>1. j \in 0 .. Descs
        BY <1>7
      <4> QED BY <1>7, <4>1, Wrap
    <3>2. Ahead(rel, j) = end => j = used - 1
      BY <1>7, Distinct
    <3> HIDE DEF end
    <3>3. j = used - 1 => Ahead(rel, j) = end
      BY DEF end
    <3> QED BY <1>9, <1>10, <3>1, <3>2, <3>3
  <2> HIDE DEF s
  <2> QED BY <1>7, <2>1, <2>2
<1>12. Released(t, {used - 1})
  <2> HIDE DEF s
  <2> QED BY <1>9, <1>11 DEF ReleaseEnd
<1>13. (CHOOSE j \in {used - 1} : \A i \in {used - 1} : i <= j) = used - 1
  BY <1>7
<1>14. {Ahead(rel, j) : j \in {used - 1}} = {end}
  OBVIOUS
<1>15. /\ used' = used - (used - 1) - 1 /\ rel' = Ahead(rel, (used - 1) + 1)
       /\ refs' = [p \in Packets |-> refs[p] - Cardinality({i \in {end} : address[i] = p})]
       /\ address' = [i \in Ring |-> IF i \in {end} THEN NoPkt ELSE address[i]]
  <2>1. seen[t].used = used /\ seen[t].rel = rel
    BY <1>9
  <2> HIDE DEF end
  <2>2. /\ used' = used - (CHOOSE j \in {used - 1} : \A i \in {used - 1} : i <= j) - 1
        /\ rel' = Ahead(rel, (CHOOSE j \in {used - 1} : \A i \in {used - 1} : i <= j) + 1)
        /\ refs' = [p \in Packets |-> refs[p] -
             Cardinality({i \in {Ahead(rel, j) : j \in {used - 1}} : address[i] = p})]
        /\ address' = [i \in Ring |->
             IF i \in {Ahead(rel, j) : j \in {used - 1}} THEN NoPkt ELSE address[i]]
    BY <1>12, <2>1, Zenon DEF Released, Cleared
  <2> QED BY <1>13, <1>14, <2>2
<1>16. used' = 0 /\ rel' = cur
  BY <1>7, <1>9, <1>15
<1>17. address' = [i \in Ring |-> NoPkt]
  BY <1>9, <1>15
<1>18. Empty'
  BY <1>1, <1>8, <1>16, <1>17 DEF Empty, dmaVars
<1>19. Flow'
  BY <1>2, <1>3, <1>18 DEF Flow, Sent, Inside
<1>20. \A j \in Threads : ~Inside(j)'
  BY <1>2, <1>3 DEF Inside
<1>21. OneInside' /\ OwnConfig'
  <2>1. OneInside'
    BY <1>20 DEF OneInside
  <2>2. \A j \in Threads : pc'[j] = "routed" => pc[j] = "routed" /\ size'[j] = size[j]
    BY <1>2
  <2>3. \A j \in Threads : pc'[j] # "filled"
    BY <1>20 DEF Inside
  <2>4. OwnConfig'
    BY <1>20, <2>2, <2>3 DEF Calm, OwnConfig
  <2> QED BY <2>1, <2>4
<1>22. OwnPacket' /\ GivenOnce'
  <2>1. \A j \in Threads : pc'[j] # "idle" => j # t /\ pc[j] # "idle" /\ pkt'[j] = pkt[j]
    BY <1>2
  <2>2. OwnPacket'
    BY <1>1, <2>1 DEF Calm, OwnPacket
  <2>3. \A j \in Threads : pc'[j] \in {"routed", "filled"} <=> pc[j] \in {"routed", "filled"}
    BY <1>1, <1>2
  <2>4. \A j \in Threads : pc'[j] \in {"routed", "filled"} => pkt'[j] = pkt[j]
    BY <1>2
  <2>5. GivenOnce'
    BY <1>1, <2>3, <2>4 DEF Calm, GivenOnce
  <2> QED BY <2>2, <2>5
<1>23. HeldOnce'
  <2>1. \A p \in Packets : refs[p] = IF p = pkt[t] THEN 1 ELSE 0
    BY <1>3 DEF Calm, HeldOnce
  <2>2. \A p \in Packets : Cardinality({i \in {end} : address[i] = p}) = IF p = pkt[t] THEN 1 ELSE 0
    <3> TAKE p \in Packets
    <3> HIDE DEF end
    <3>1. CASE p = pkt[t]
      <4>1. {i \in {end} : address[i] = p} = {end}
        BY <1>9, <1>10, <3>1
      <4> QED BY <3>1, <4>1, FS_Singleton
    <3>2. CASE p # pkt[t]
      <4>1. {i \in {end} : address[i] = p} = {}
        BY <1>9, <1>10, <3>2
      <4> QED BY <3>2, <4>1, FS_EmptySet
    <3> QED BY <3>1, <3>2
  <2>3. \A p \in Packets : refs'[p] = 0
    <3> HIDE DEF end
    <3> QED BY <1>15, <2>1, <2>2
  <2> QED BY <1>20, <2>3 DEF HeldOnce
<1> QED BY <1>19, <1>21, <1>22, <1>23 DEF Calm
-----------------------------------------------------------------------------
(* Who was not alone stays so. *)
LEMMA QuietBefore ==
  ASSUME TypeOK, Next, Quiet'
  PROVE  Quiet
<1>1. CASE \E t \in Threads : Route(t) \/ LowLevelOutput(t)
  <2> PICK t \in Threads : Route(t) \/ LowLevelOutput(t)
    BY <1>1
  <2>1. CASE Route(t) \/ TooLong(t) \/ TakeSemaphore(t) \/ ReleaseBegin(t) \/ ReleaseEnd(t)
    BY <2>1 DEF Route, TooLong, TakeSemaphore, ReleaseBegin, ReleaseEnd, Quiet, history
  <2>2. CASE Fill(t)
    BY <2>2 DEF Fill, Quiet
  <2>3. CASE Transmit(t)
    BY <2>3 DEF Transmit, TransmitOk, Quiet
  <2> QED BY <2>1, <2>2, <2>3 DEF LowLevelOutput
<1>2. CASE DmaSend \/ DmaSuspend \/ Interrupt
  BY <1>2 DEF DmaSend, DmaSuspend, Interrupt, Quiet, history
<1>3. CASE Flip \/ LinkThread
  BY <1>3 DEF Flip, LinkThread, PollOut, NetifDown, PollIn, Reported, LinkWakes, Quiet, history
<1> QED BY <1>1, <1>2, <1>3 DEF Next

LEMMA CalmStep ==
  ASSUME TypeOK, Calm, Next, Quiet'
  PROVE  Calm'
<1>1. CASE \E t \in Threads : Route(t) \/ LowLevelOutput(t)
  BY <1>1, RouteStep, TooLongStep, FillStep, TransmitStep, WakeStep, ReleaseStep DEF LowLevelOutput
<1>2. CASE DmaSend \/ DmaSuspend \/ Interrupt
  BY <1>2, DmaSendStep, SignalStep
<1>3. CASE Flip \/ LinkThread
  BY <1>3, LinkStep
<1> QED BY <1>1, <1>2, <1>3 DEF Next

LEMMA StepInv ==
  ASSUME IInv, [Next]_vars
  PROVE  IInv'
<1>1. TypeOK'
  BY TypeStep DEF IInv
<1>2. CASE Next
  BY <1>1, <1>2, QuietBefore, CalmStep DEF IInv
<1>3. CASE UNCHANGED vars
  <2>1. UNCHANGED <<callVars, descVars, dmaVars, history>>
    BY <1>3 DEF vars
  <2>2. Quiet' <=> Quiet
    BY <2>1 DEF Quiet, history
  <2>3. Calm => Flow'
    BY <2>1, FlowStays DEF Calm, callVars, Sent
  <2>4. Calm => Calm'
    BY <2>1, <2>3, CallsStay DEF Calm, history
  <2> QED BY <1>1, <2>2, <2>4 DEF IInv
<1> QED BY <1>2, <1>3

LEMMA Invariant == Spec => []IInv
<1>1. IInv /\ [Next]_vars => IInv'
  BY StepInv
<1> QED BY <1>1, Initially, PTL DEF Spec

(* As long as no two threads were in the driver together and none was      *)
(* refused, what lies between releaseIndex and CurTxDesc is the packet of  *)
(* the one thread in the driver, and the signal of its completion is at    *)
(* exactly one place: still to come from the DMA, the flag, or the         *)
(* semaphore.                                                              *)
THEOREM TxIsInvariant == Spec => []TxInv
<1>1. IInv => TxInv
  <2> SUFFICES ASSUME TypeOK, Calm PROVE TxInv
    BY DEF IInv, TxInv
  <2>1. /\ \A t, k \in Threads : Inside(t) /\ Inside(k) => t = k
        /\ \A t \in Threads : pc[t] = "filled" => config = [pkt |-> pkt[t], n |-> size[t]]
    BY DEF Calm, OneInside, OwnConfig
  <2>2. CASE Empty /\ \A t \in Threads : ~Sent(t)
    BY <2>1, <2>2 DEF TxInv, Empty, Sent
  <2>3. CASE \E t \in Threads : Sent(t) /\ \E d \in 0 .. used : Busy(t, d)
    <3>1. PICK t \in Threads : Sent(t) /\ \E d \in 0 .. used : Busy(t, d)
      BY <2>3
    <3>2. PICK d \in 0 .. used : Busy(t, d)
      BY <3>1
    <3>3. d < used <=> owned # {}
      BY <3>1, <3>2, BusyRing DEF Calm
    <3>4. \E k \in 0 .. used : dma = Ahead(rel, k) /\ owned = Span(rel, used) \ Span(rel, k)
      BY <3>2 DEF Busy
    <3>7. Ahead(rel, used - 1) \in last
      BY <3>2 DEF Busy
    <3>8. /\ pc[t] = "waiting" <=> owned # {} \/ ts \/ sem
          /\ ~(ts /\ sem) /\ (owned # {} => ~ts /\ ~sem /\ ~suspended)
      BY <3>2, <3>3 DEF Busy
    <3>9. /\ used = size[t] /\ cur = Ahead(rel, used)
          /\ address = [i \in Ring |-> IF i = Ahead(rel, used - 1) THEN pkt[t] ELSE NoPkt]
      BY <3>2 DEF Busy
    <3>10. pc[t] \in {"waiting", "woken", "releasing"}
      BY <3>1 DEF Sent
    <3> QED BY <2>1, <3>1, <3>4, <3>7, <3>8, <3>9, <3>10 DEF TxInv
  <2> QED BY <2>2, <2>3 DEF Calm, Flow
<1> QED BY <1>1, Invariant, PTL

(* A send that returns has given its packet to the DMA exactly once, or    *)
(* never if it was too long, and the driver holds no reference to it any   *)
(* more, as long as no two threads were in the driver together and none    *)
(* was refused.                                                            *)
THEOREM ReturnMeansSent == Spec => []ReturnedWasSent
<1>1. IInv => ReturnedWasSent
  <2> SUFFICES ASSUME TypeOK, Calm, NEW p \in Returned
               PROVE  given[p] = (IF p \in toolong THEN 0 ELSE 1) /\ refs[p] = 0
    BY DEF IInv, ReturnedWasSent
  <2>1. p \in Packets /\ p <= sends
    BY Bounds DEF Returned, Packets, TypeOK
  <2>2. \A t \in Threads : pc[t] # "idle" => pkt[t] # p
    BY DEF Returned
  <2>3. given[p] = IF p \in toolong THEN 0 ELSE 1
    BY <2>1, <2>2 DEF Calm, GivenOnce
  <2>4. refs[p] = 0
    BY <2>1, <2>2 DEF Calm, HeldOnce, Inside
  <2> QED BY <2>3, <2>4
<1> QED BY <1>1, Invariant, PTL
=============================================================================
