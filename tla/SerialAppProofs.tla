--------------------------- MODULE SerialAppProofs ---------------------------
(***************************************************************************)
(* Proofs about SerialApp: for any set of nodes and any lengths of frames, *)
(* a node that has joined has a timer or an event to go on with, and the   *)
(* two buffers of the UART are one queue that fires when it has to.        *)
(***************************************************************************)
EXTENDS SerialApp, SequenceTheorems, TLAPS

(* What follows a prefix in a sequence. *)
LEMMA Rest ==
  ASSUME NEW S, NEW s \in Seq(S), NEW t \in Seq(S)
  PROVE  SubSeq(s \o t, Len(s) + 1, Len(s \o t)) = t
<1>1. /\ s \o t \in Seq(S) /\ Len(s \o t) = Len(s) + Len(t)
      /\ \A i \in 1 .. Len(s) + Len(t) :
           (s \o t)[i] = IF i <= Len(s) THEN s[i] ELSE t[i - Len(s)]
  BY ConcatProperties
<1>2. Len(s) \in Nat /\ Len(t) \in Nat
  BY LenProperties
<1> DEFINE u == s \o t  m == Len(s) + 1  n == Len(u)
<1>3. \A i \in m .. n : u[i] \in S
  BY <1>1, <1>2, ElementOfSeq
<1> HIDE DEF u
<1>4. m \in Int /\ n \in Int /\ n = Len(s) + Len(t)
  BY <1>1, <1>2 DEF u
<1> HIDE DEF m, n
<1>5. /\ SubSeq(u, m, n) \in Seq(S)
      /\ Len(SubSeq(u, m, n)) = IF m <= n THEN n - m + 1 ELSE 0
      /\ \A i \in 1 .. n - m + 1 : SubSeq(u, m, n)[i] = u[m + i - 1]
  BY <1>3, <1>4, SubSeqProperties
<1>6. Len(SubSeq(u, m, n)) = Len(t)
  BY <1>2, <1>4, <1>5 DEF m
<1>7. \A i \in 1 .. Len(t) : u[m + i - 1] = t[i]
  <2> SUFFICES ASSUME NEW i \in 1 .. Len(t) PROVE u[m + i - 1] = t[i]
    OBVIOUS
  <2> m + i - 1 = Len(s) + i /\ Len(s) + i \in 1 .. Len(s) + Len(t)
    BY <1>2 DEF m
  <2> QED BY <1>1, <1>2 DEF u
<1>8. \A i \in 1 .. Len(t) : SubSeq(u, m, n)[i] = t[i]
  BY <1>2, <1>4, <1>5, <1>7 DEF m
<1>9. SubSeq(u, m, n) = t
  BY <1>5, <1>6, <1>8, SeqEqual
<1> QED BY <1>9 DEF u, m, n

(* One more element at the end of the second of two joined sequences. *)
LEMMA AppendOnRight ==
  ASSUME NEW S, NEW s \in Seq(S), NEW t \in Seq(S), NEW e \in S
  PROVE  s \o Append(t, e) = Append(s \o t, e)
<1>1. <<e>> \in Seq(S)
  OBVIOUS
<1>2. s \o t \in Seq(S)
  BY ConcatProperties
<1>3. Append(t, e) = t \o <<e>> /\ Append(s \o t, e) = (s \o t) \o <<e>>
  BY <1>2
<1> QED BY <1>1, <1>3, ConcatAssociative

-------------------------------------------------------------------------------
(* A start of a timer leaves the node with a timer, or notes its failure. *)
LEMMA Started ==
  ASSUME TypeOK, NEW n \in Nodes, NEW e \in {"read", "ready"}, Start(n, e)
  PROVE  /\ timers' \in [Nodes -> SUBSET {"read", "ready"}]
         /\ failed' \in [Nodes -> BOOLEAN]
         /\ timers'[n] # {} \/ failed'[n]
         /\ \A m \in Nodes \ {n} : timers'[m] = timers[m] /\ failed'[m] = failed[m]
<1>0. timers \in [Nodes -> SUBSET {"read", "ready"}] /\ failed \in [Nodes -> BOOLEAN]
  BY DEF TypeOK
<1>1. CASE /\ timers' = [timers EXCEPT ![n] = @ \cup {e}]
           /\ failed' = [failed EXCEPT ![n] = FALSE]
  <2>1. timers'[n] = timers[n] \cup {e}
    BY <1>0, <1>1
  <2>2. /\ timers' \in [Nodes -> SUBSET {"read", "ready"}]
        /\ \A m \in Nodes \ {n} : timers'[m] = timers[m]
    BY <1>0, <1>1
  <2>3. /\ failed' \in [Nodes -> BOOLEAN]
        /\ \A m \in Nodes \ {n} : failed'[m] = failed[m]
    BY <1>0, <1>1
  <2> QED BY <2>1, <2>2, <2>3
<1>2. CASE /\ UNCHANGED timers
           /\ failed' = [failed EXCEPT ![n] = TRUE]
  BY <1>0, <1>2
<1> QED BY <1>1, <1>2 DEF Start

LEMMA Init_SerialInv == Init => SerialInv
<1> SUFFICES ASSUME Init PROVE SerialInv
  OBVIOUS
<1>1. "away" \in States /\ "away" \notin Joined
  BY DEF States, Joined
<1>2. <<>> \in Seq(States) /\ <<>> \in Seq(Nodes) /\ <<>> \in Seq(Frames)
  OBVIOUS
<1>3. TypeOK
  BY <1>1, <1>2 DEF Init, TypeOK
<1>4. LoopGoesOn
  BY <1>1 DEF Init, LoopGoesOn
<1> QED BY <1>3, <1>4 DEF Init, SerialInv, UartFires

LEMMA NetworkChange_SerialInv ==
  ASSUME SerialInv, NEW n \in Nodes, NetworkChange(n)
  PROVE  SerialInv'
<1>1. PICK s \in NextStates(n) :
        /\ zdo' = [zdo EXCEPT ![n] = s]
        /\ msgs' = [msgs EXCEPT ![n] = Append(@, s)] \/ UNCHANGED msgs
  BY DEF NetworkChange
<1>2. s \in States
  <2> zdo[n] \in States
    BY DEF SerialInv, TypeOK
  <2> QED BY <1>1 DEF NextStates, States
<1>3. msgs' \in [Nodes -> Seq(States)] /\ zdo' \in [Nodes -> States]
  <2>1. msgs \in [Nodes -> Seq(States)] /\ zdo \in [Nodes -> States]
    BY DEF SerialInv, TypeOK
  <2>2. Append(msgs[n], s) \in Seq(States)
    BY <1>2, <2>1
  <2>3. [msgs EXCEPT ![n] = Append(@, s)] \in [Nodes -> Seq(States)]
    BY <2>1, <2>2
  <2> QED BY <1>1, <1>2, <2>1, <2>3
<1> QED
  BY <1>3 DEF NetworkChange, SerialInv, TypeOK, LoopGoesOn, UartFires, round, coord, uart

LEMMA Expire_SerialInv ==
  ASSUME SerialInv, NEW n \in Nodes, NEW e \in {"read", "ready"}, Expire(n, e)
  PROVE  SerialInv'
<1>1. TypeOK'
  BY DEF Expire, SerialInv, TypeOK, network, coord, uart
<1>2. \A m \in Nodes : timers[m] \cup events[m] # {} => timers'[m] \cup events'[m] # {}
  BY DEF Expire, SerialInv, TypeOK
<1> QED
  BY <1>1, <1>2 DEF Expire, SerialInv, LoopGoesOn, UartFires, uart

LEMMA StateChanges_SerialInv ==
  ASSUME SerialInv, NEW n \in Nodes, StateChanges(n)
  PROVE  SerialInv'
<1> DEFINE k == Len(msgs[n])
<1>1. msgs[n] \in Seq(States) /\ msgs[n] # <<>>
  BY DEF StateChanges, SerialInv, TypeOK
<1>2. k \in DOMAIN msgs[n] /\ msgs[n][k] \in States
  BY <1>1, EmptySeq, LenProperties, ElementOfSeq
<1>3. nwk' = [nwk EXCEPT ![n] = msgs[n][k]]
  BY DEF StateChanges, Last
<1>4. /\ timers' \in [Nodes -> SUBSET {"read", "ready"}]
      /\ failed' \in [Nodes -> BOOLEAN]
      /\ \A m \in Nodes \ {n} : timers'[m] = timers[m] /\ failed'[m] = failed[m]
      /\ msgs[n][k] \in Joined => timers'[n] # {} \/ failed'[n]
  <2>1. CASE \E i \in DOMAIN msgs[n] : msgs[n][i] \in Joined
    BY <2>1, Started DEF StateChanges, SerialInv
  <2>2. CASE ~\E i \in DOMAIN msgs[n] : msgs[n][i] \in Joined
    BY <1>2, <2>2 DEF StateChanges, SerialInv, TypeOK
  <2> QED BY <2>1, <2>2
<1>5. TypeOK'
  <2>1. <<>> \in Seq(States)
    OBVIOUS
  <2>2. msgs' \in [Nodes -> Seq(States)] /\ nwk' \in [Nodes -> States]
    BY <1>2, <1>3, <2>1 DEF StateChanges, SerialInv, TypeOK
  <2> QED
    BY <1>4, <2>2 DEF StateChanges, SerialInv, TypeOK, coord, uart
<1>6. LoopGoesOn'
  <2> SUFFICES ASSUME NEW m \in Nodes, nwk'[m] \in Joined
               PROVE  timers'[m] \cup events'[m] # {} \/ failed'[m]
    BY DEF LoopGoesOn
  <2>1. CASE m = n
    BY <2>1, <1>3, <1>4 DEF SerialInv, TypeOK
  <2>2. CASE m # n
    BY <2>2, <1>3, <1>4 DEF StateChanges, SerialInv, TypeOK, LoopGoesOn
  <2> QED BY <2>1, <2>2
<1> QED
  BY <1>5, <1>6 DEF StateChanges, SerialInv, UartFires, uart

(* A handler that ends with the start of a timer keeps the loop going. *)
LEMMA Ends_SerialInv ==
  ASSUME SerialInv, NEW n \in Nodes, NEW e \in {"read", "ready"}, Start(n, e),
         nwk' = nwk,
         events' \in [Nodes -> SUBSET {"read", "ready"}],
         \A m \in Nodes \ {n} : events'[m] = events[m]
  PROVE  LoopGoesOn' /\ timers' \in [Nodes -> SUBSET {"read", "ready"}]
                     /\ failed' \in [Nodes -> BOOLEAN]
<1>1. /\ timers' \in [Nodes -> SUBSET {"read", "ready"}]
      /\ failed' \in [Nodes -> BOOLEAN]
      /\ timers'[n] # {} \/ failed'[n]
      /\ \A m \in Nodes \ {n} : timers'[m] = timers[m] /\ failed'[m] = failed[m]
  BY Started DEF SerialInv
<1> QED BY <1>1 DEF SerialInv, LoopGoesOn

LEMMA SensorRead_SerialInv ==
  ASSUME SerialInv, NEW n \in Nodes, SensorRead(n)
  PROVE  SerialInv'
<1>1. /\ events' \in [Nodes -> SUBSET {"read", "ready"}]
      /\ \A m \in Nodes \ {n} : events'[m] = events[m]
  BY DEF SensorRead, SerialInv, TypeOK
<1>2. /\ \E e \in {"read", "ready"} : Start(n, e)
      /\ sensor' \in [Nodes -> {"idle", "data"}]
  BY DEF SensorRead, StartMeasurement, SerialInv, TypeOK
<1>3. /\ LoopGoesOn' /\ timers' \in [Nodes -> SUBSET {"read", "ready"}]
      /\ failed' \in [Nodes -> BOOLEAN]
  BY <1>1, <1>2, Ends_SerialInv DEF SensorRead
<1> QED
  BY <1>1, <1>2, <1>3
  DEF SensorRead, SerialInv, TypeOK, UartFires, network, coord, uart

LEMMA DataReady_SerialInv ==
  ASSUME SerialInv, NEW n \in Nodes, DataReady(n)
  PROVE  SerialInv'
<1>1. /\ events' \in [Nodes -> SUBSET {"read", "ready"}]
      /\ \A m \in Nodes \ {n} : events'[m] = events[m]
  BY DEF DataReady, SerialInv, TypeOK
<1>2. sensor' \in [Nodes -> {"idle", "data"}] /\ inbox' \in Seq(Nodes)
  <2>1. sensor \in [Nodes -> {"idle", "data"}] /\ inbox \in Seq(Nodes)
    BY DEF SerialInv, TypeOK
  <2>2. Append(inbox, n) \in Seq(Nodes)
    BY <2>1
  <2>3. sensor' = sensor \/ sensor' = [sensor EXCEPT ![n] = "idle"]
    BY DEF DataReady, ReadData
  <2>4. inbox' = inbox \/ inbox' = Append(inbox, n)
    BY DEF DataReady, ReadData, SendTLVData
  <2> QED BY <2>1, <2>2, <2>3, <2>4
<1>3. /\ LoopGoesOn' /\ timers' \in [Nodes -> SUBSET {"read", "ready"}]
      /\ failed' \in [Nodes -> BOOLEAN]
  BY <1>1, Ends_SerialInv DEF DataReady
<1> QED
  BY <1>1, <1>2, <1>3 DEF DataReady, SerialInv, TypeOK, UartFires, network, uart

-------------------------------------------------------------------------------
(* What a write does to the two buffers. *)
LEMMA Written ==
  ASSUME SerialInv, NEW f \in Frames, Write(f)
  PROVE  /\ filling' \in Seq(Frames) /\ sending' \in Seq(Frames) /\ pending' \in BOOLEAN
         /\ UartFires'
         /\ Queue' = Queue \/ Queue' = Append(Queue, f)
<1>1. /\ filling \in Seq(Frames) /\ sending \in Seq(Frames) /\ pending \in BOOLEAN
      /\ pending <=> filling # <<>> /\ sending = <<>>
  BY DEF SerialInv, TypeOK, UartFires
<1>2. CASE UNCHANGED <<filling, sending, pending>>
  BY <1>1, <1>2 DEF UartFires, Queue
<1>3. CASE /\ filling' = Append(filling, f) /\ sending' = sending
           /\ pending' = (pending \/ sending = <<>>)
  <2>1. filling' \in Seq(Frames) /\ filling' # <<>>
    BY <1>1, <1>3
  <2>2. Queue' = Append(Queue, f)
    BY <1>1, <1>3, AppendOnRight DEF Queue
  <2> QED BY <1>1, <1>3, <2>1, <2>2 DEF UartFires
<1> QED BY <1>2, <1>3 DEF Write

LEMMA Uplink_SerialInv ==
  ASSUME SerialInv, Uplink
  PROVE  SerialInv' /\ \E f \in Frames : Queue' = Queue \/ Queue' = Append(Queue, f)
<1>1. /\ Head(inbox) \in Nodes /\ Tail(inbox) \in Seq(Nodes)
      /\ Head(inbox) \in Frames
  BY HeadTailProperties DEF Uplink, SerialInv, TypeOK, Frames
<1>2. /\ filling' \in Seq(Frames) /\ sending' \in Seq(Frames) /\ pending' \in BOOLEAN
      /\ UartFires'
      /\ Queue' = Queue \/ Queue' = Append(Queue, Head(inbox))
  BY <1>1, Written DEF Uplink
<1>3. TypeOK'
  <2>1. inLoop' \in BOOLEAN
    BY DEF Uplink
  <2> QED BY <1>1, <1>2, <2>1 DEF Uplink, SerialInv, TypeOK, network, round
<1>4. LoopGoesOn'
  BY DEF Uplink, SerialInv, LoopGoesOn, round
<1> QED BY <1>1, <1>2, <1>3, <1>4 DEF SerialInv

LEMMA Heartbeat_SerialInv ==
  ASSUME SerialInv, Heartbeat
  PROVE  SerialInv' /\ \E f \in Frames : Queue' = Queue \/ Queue' = Append(Queue, f)
<1>1. Heart \in Frames
  BY DEF Frames
<1>2. /\ filling' \in Seq(Frames) /\ sending' \in Seq(Frames) /\ pending' \in BOOLEAN
      /\ UartFires'
      /\ Queue' = Queue \/ Queue' = Append(Queue, Heart)
  BY <1>1, Written DEF Heartbeat
<1> QED
  BY <1>1, <1>2 DEF Heartbeat, SerialInv, TypeOK, LoopGoesOn, network, round

(* The buffers change places when the one that is sent is empty. *)
LEMMA Fire_SerialInv ==
  ASSUME SerialInv, Fire
  PROVE  SerialInv' /\ Queue' = Queue
<1>1. /\ filling \in Seq(Frames) /\ filling # <<>> /\ sending = <<>>
      /\ sending' = filling /\ filling' = <<>> /\ pending' = FALSE
  BY DEF Fire, SerialInv, TypeOK, UartFires
<1>2. Queue' = Queue
  BY <1>1, ConcatEmptySeq DEF Queue
<1> QED
  BY <1>1, <1>2
  DEF Fire, SerialInv, TypeOK, LoopGoesOn, UartFires, network, round, coord

LEMMA DmaDone_SerialInv ==
  ASSUME SerialInv, DmaDone
  PROVE  /\ SerialInv'
         /\ \E k \in 1 .. Len(Queue) : Queue' = SubSeq(Queue, k + 1, Len(Queue))
<1>1. /\ filling \in Seq(Frames) /\ sending \in Seq(Frames) /\ sending # <<>>
      /\ sending' = <<>> /\ filling' = filling
      /\ pending' = (pending \/ filling # <<>>) /\ pending \in BOOLEAN
      /\ pending => filling # <<>>
  BY DEF DmaDone, SerialInv, TypeOK, UartFires
<1>2. Queue' = filling
  BY <1>1, ConcatEmptySeq DEF Queue
<1>3. SubSeq(Queue, Len(sending) + 1, Len(Queue)) = filling
  BY <1>1, Rest DEF Queue
<1>4. Len(sending) \in 1 .. Len(Queue)
  BY <1>1, ConcatProperties, EmptySeq, LenProperties DEF Queue
<1>5. TypeOK'
  <2>1. <<>> \in Seq(Frames)
    OBVIOUS
  <2>2. pending' \in BOOLEAN
    BY <1>1
  <2> QED BY <1>1, <2>1, <2>2 DEF DmaDone, SerialInv, TypeOK, network, round, coord
<1>6. LoopGoesOn' /\ UartFires'
  BY <1>1 DEF DmaDone, SerialInv, LoopGoesOn, UartFires, round
<1>7. SerialInv'
  BY <1>5, <1>6 DEF SerialInv
<1> QED BY <1>2, <1>3, <1>4, <1>7

-------------------------------------------------------------------------------
(* Every step keeps the invariant and the order of the UART's queue. *)
LEMMA Next_SerialInv ==
  ASSUME SerialInv, [Next]_vars
  PROVE  /\ SerialInv'
         /\ \/ Queue' = Queue
            \/ \E f \in Frames : Queue' = Append(Queue, f)
            \/ \E k \in 1 .. Len(Queue) : Queue' = SubSeq(Queue, k + 1, Len(Queue))
<1>1. ASSUME NEW n \in Nodes, NetworkChange(n)
      PROVE  SerialInv' /\ Queue' = Queue
  BY <1>1, NetworkChange_SerialInv DEF NetworkChange, uart, Queue
<1>2. ASSUME NEW n \in Nodes, StateChanges(n)
      PROVE  SerialInv' /\ Queue' = Queue
  BY <1>2, StateChanges_SerialInv DEF StateChanges, uart, Queue
<1>3. ASSUME NEW n \in Nodes, SensorRead(n)
      PROVE  SerialInv' /\ Queue' = Queue
  BY <1>3, SensorRead_SerialInv DEF SensorRead, uart, Queue
<1>4. ASSUME NEW n \in Nodes, DataReady(n)
      PROVE  SerialInv' /\ Queue' = Queue
  BY <1>4, DataReady_SerialInv DEF DataReady, uart, Queue
<1>5. ASSUME NEW n \in Nodes, NEW e \in {"read", "ready"}, Expire(n, e)
      PROVE  SerialInv' /\ Queue' = Queue
  BY <1>5, Expire_SerialInv DEF Expire, uart, Queue
<1>6. CASE UNCHANGED vars
  BY <1>6 DEF SerialInv, TypeOK, LoopGoesOn, UartFires, Queue,
              vars, network, round, coord, uart
<1> QED
  BY <1>1, <1>2, <1>3, <1>4, <1>5, <1>6, Uplink_SerialInv, Heartbeat_SerialInv,
     Fire_SerialInv, DmaDone_SerialInv
  DEF Next, ProcessEvent, Coordinator

(* SerialApp_ProcessEvent starts a timer on every path of a node that has  *)
(* joined, and HalUARTWriteDMA, HalUARTPollDMA and HalUARTIsrDMA keep      *)
(* txDMAPending for exactly the time in which there is something to fire   *)
(* and a free buffer: for any nodes, and any lengths of frames.            *)
THEOREM SerialIsInvariant == Spec => []SerialInv
<1>1. SerialInv /\ [Next]_vars => SerialInv'
  BY Next_SerialInv
<1> QED BY Init_SerialInv, <1>1, PTL DEF Spec

(* The two buffers of the UART are one queue of whole frames: nothing is   *)
(* reordered, cut, or sent twice.                                          *)
THEOREM UartKeepsOrder == Spec => UartInOrder
<1>1. SerialInv /\ [Next]_vars =>
        [\/ Queue' = Queue
         \/ \E f \in Frames : Queue' = Append(Queue, f)
         \/ \E k \in 1 .. Len(Queue) : Queue' = SubSeq(Queue, k + 1, Len(Queue))]_vars
  BY Next_SerialInv
<1> QED BY SerialIsInvariant, <1>1, PTL DEF Spec, UartInOrder
===============================================================================
