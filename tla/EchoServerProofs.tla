-------------------------- MODULE EchoServerProofs --------------------------
(***************************************************************************)
(* Proofs about EchoServer: for any sizes of the table and of the heap,    *)
(* and any number of clients, every task works on its own connection, and  *)
(* closes no other, until the heap gives a freed record away again.        *)
(***************************************************************************)
EXTENDS EchoServer, FiniteSetTheorems, SequenceTheorems, WellFoundedInduction, TLAPS

(* A set of naturals that is not empty has a smallest element. *)
LEMMA Smallest ==
  ASSUME NEW T, T \subseteq Nat, T # {}
  PROVE  \E x \in T : \A y \in T : x <= y
<1> DEFINE Below(x) == 0 .. x - 1
           B == {Below(x) : x \in T}
           R == StrictSubsetOrdering(Nat)
<1>1. \A x \in T : Below(x) \subseteq Nat /\ IsFiniteSet(Below(x))
  BY FS_Interval
<1>2. B \subseteq FiniteSubsetsOf(Nat) /\ B # {}
  BY <1>1 DEF FiniteSubsetsOf
<1>3. PICK m \in B : \A b \in B : ~(<<b, m>> \in R)
  <2> HIDE DEF B, R
  <2>1. IsWellFoundedOn(R, FiniteSubsetsOf(Nat))
    BY FS_StrictSubsetOrderingWellFounded DEF R
  <2> QED BY <1>2, <2>1, WFMin
<1>4. PICK x \in T : m = Below(x)
  OBVIOUS
<1>5. ASSUME NEW y \in T, y < x PROVE FALSE
  <2>1. Below(y) \subseteq Below(x) /\ y \in Below(x) /\ y \notin Below(y)
    BY <1>5
  <2>2. <<Below(y), Below(x)>> \in R
    <3>1. Below(y) \in SUBSET Nat /\ Below(x) \in SUBSET Nat /\ Below(y) # Below(x)
      BY <1>1, <2>1
    <3> HIDE DEF Below
    <3> QED BY <1>1, <2>1, <3>1 DEF R, StrictSubsetOrdering, FiniteSubsetsOf
  <2> QED BY <1>3, <1>4, <2>2
<1> QED BY <1>5

(* The lowest free descriptor is one, when there is one. *)
LEMMA LowestFree ==
  ASSUME Unused # {}
  PROVE  Lowest \in Unused
<1>1. Unused \subseteq Nat
  BY EchoServerAssumption DEF Unused, Descs
<1>2. PICK d \in Unused : \A e \in Unused : d <= e
  BY <1>1, Smallest
<1> QED BY <1>2 DEF Lowest

-------------------------------------------------------------------------------
(* Every connection needs a netconn, of which there are as many as         *)
(* descriptors.                                                            *)
Room == Cardinality(InUse) + Len(backlog) <= Sockets

LEMMA Table ==
  /\ Sockets \in Nat /\ 0 \in Descs /\ Descs \subseteq Nat /\ NoDesc \notin Descs
  /\ IsFiniteSet(Descs) /\ Cardinality(Descs) = Sockets
  /\ IsFiniteSet(InUse) /\ Cardinality(InUse) \in Nat
<1>1. Sockets \in Nat /\ Sockets >= 2
  BY EchoServerAssumption
<1>2. 0 \in Int /\ Sockets - 1 \in Int
  BY <1>1
<1>3. IsFiniteSet(Descs) /\ Cardinality(Descs) = Sockets
  BY <1>1, <1>2, FS_Interval DEF Descs
<1>4. IsFiniteSet(InUse)
  BY <1>3, FS_Subset DEF InUse
<1> QED BY <1>1, <1>3, <1>4, FS_CardinalityType DEF Descs, NoDesc

LEMMA SomeUnused ==
  ASSUME Cardinality(InUse) < Sockets
  PROVE  Lowest \in Descs /\ table[Lowest] = Free /\ Lowest \notin InUse
<1>1. Unused # {}
  <2> SUFFICES ASSUME Unused = {} PROVE FALSE
    OBVIOUS
  <2>1. InUse = Descs
    BY DEF Unused, InUse
  <2> QED BY <2>1, Table
<1> QED BY <1>1, LowestFree DEF Unused, InUse

(* One descriptor is taken, or given back. *)
LEMMA OneMore ==
  ASSUME TypeOK, NEW v, v # Free, Lowest \in Descs, Lowest \notin InUse,
         table' = [table EXCEPT ![Lowest] = v]
  PROVE  Cardinality(InUse') = Cardinality(InUse) + 1
<1>1. InUse' = InUse \cup {Lowest}
  BY DEF InUse, TypeOK
<1> QED BY <1>1, Table, FS_AddElement

LEMMA OneLess ==
  ASSUME TypeOK, NEW d \in InUse, table' = [table EXCEPT ![d] = Free]
  PROVE  Cardinality(InUse') = Cardinality(InUse) - 1
<1>1. InUse' = InUse \ {d}
  BY DEF InUse, TypeOK
<1> QED BY <1>1, Table, FS_RemoveElement

-------------------------------------------------------------------------------
(* A connection is new, then waits, then is handled by lwip_demo, then     *)
(* has a task.                                                             *)
Stages ==
  /\ \A i \in DOMAIN backlog : peer[backlog[i]] # "new" /\ task[backlog[i]] = "none"
  /\ \A i, j \in DOMAIN backlog : backlog[i] = backlog[j] => i = j
  /\ demo = "create" =>
       /\ fresh.conn \in Conns /\ fresh.rec \in Records
       /\ peer[fresh.conn] # "new" /\ task[fresh.conn] = "none"
       /\ \A i \in DOMAIN backlog : backlog[i] # fresh.conn
  /\ \A c \in Conns : task[c] # "none" => peer[c] # "new" /\ record[c] \in Records
  /\ modbus = "first" => sockfd = 0

(* The task c has a record of its own, with its own descriptor.            *)
Owns(c) ==
  /\ record[c] \in Records /\ number[record[c]] \in Descs
  /\ table[number[record[c]]] = c
  /\ task[c] = "recv" => record[c] \in used

(* The record that lwip_demo is about to give to a task.                   *)
FreshOwned ==
  demo = "create" =>
    /\ fresh.rec \in used /\ number[fresh.rec] = fresh.sock
    /\ table[fresh.sock] = fresh.conn
    /\ \A c \in Conns : Alive(c) => record[c] # fresh.rec

Apart == \A b, c \in Conns : Alive(b) /\ Alive(c) /\ b # c => record[b] # record[c]

ModbusOwns ==
  /\ modbus = "first" => table[0] = Listen
  /\ modbus \in {"connect", "up", "end"} /\ sockfd # NoDesc => table[sockfd] = Modbus

Own == (\A c \in Conns : Alive(c) => Owns(c)) /\ Apart /\ FreshOwned /\ ModbusOwns

IInv == TypeOK /\ Room /\ Stages /\ (astray = {} => Own)

LEMMA Init_IInv == Init => IInv
<1> SUFFICES ASSUME Init PROVE IInv
  OBVIOUS
<1>1. TypeOK
  <2>1. table \in [Descs -> Conns \cup {Listen, Modbus, Free}]
    BY DEF Init
  <2>2. fresh \in [conn : Conns \cup {0}, sock : Descs, rec : Records \cup {NoRecord}]
    BY Table DEF Init
  <2>3. /\ backlog \in Seq(Conns) /\ sockfd \in Descs \cup {NoDesc}
        /\ opens \in 0 .. MaxOpens
    BY Table, EchoServerAssumption DEF Init
  <2>4. /\ peer \in [Conns -> {"new", "open", "gone"}]
        /\ task \in [Conns -> {"none", "recv", "stuck", "freed", "done"}]
        /\ record \in [Conns -> Records \cup {NoRecord}]
        /\ number \in [Records -> Descs \cup {NoDesc}]
    BY DEF Init
  <2> QED BY <2>1, <2>2, <2>3, <2>4 DEF Init, TypeOK
<1>2. Room
  <2>1. table = [d \in Descs |-> IF d = 0 THEN Listen ELSE Free] /\ Listen # Free
    BY DEF Init, Listen, Free
  <2>2. InUse = {0}
    BY <2>1, Table DEF InUse
  <2>3. Cardinality(InUse) = 1 /\ Len(backlog) = 0
    BY <2>2, FS_Singleton DEF Init
  <2> QED BY <2>3, EchoServerAssumption DEF Room
<1>3. Stages
  BY DEF Init, Stages
<1>4. Own
  BY Table DEF Init, Own, Apart, FreshOwned, ModbusOwns, Alive
<1> QED BY <1>1, <1>2, <1>3, <1>4 DEF IInv

(* A step that touches no record, and no descriptor of a running task,     *)
(* leaves every task with its own connection.                              *)
LEMMA OwnKept ==
  ASSUME TypeOK, Stages, Own,
         UNCHANGED <<record, number>>,
         \A c \in Conns : Alive(c)' => Alive(c),
         \A c \in Conns : task'[c] = "recv" => record[c] \in used',
         demo' = "create" => demo = "create" /\ fresh' = fresh /\ fresh.rec \in used',
         \A c \in Conns : Alive(c)' => \A e \in Descs : table[e] = c => table'[e] = c,
         demo' = "create" =>
           \A e \in Descs : table[e] = fresh.conn => table'[e] = fresh.conn
  PROVE  (\A c \in Conns : Alive(c)' => Owns(c)') /\ Apart' /\ FreshOwned'
<1>1. ASSUME NEW c \in Conns, Alive(c)' PROVE Owns(c)'
  <2>1. Owns(c)
    BY <1>1 DEF Own
  <2>2. \A e \in Descs : table[e] = c => table'[e] = c
    BY <1>1 DEF Alive
  <2>3. table'[number[record[c]]] = c
    BY <2>1, <2>2 DEF Owns
  <2> QED BY <2>1, <2>3 DEF Owns
<1>2. Apart'
  BY DEF Own, Apart
<1>3. FreshOwned'
  <2> SUFFICES ASSUME demo' = "create" PROVE FreshOwned'
    BY DEF FreshOwned
  <2>1. fresh.conn \in Conns /\ fresh.sock \in Descs
    BY DEF Stages, TypeOK
  <2>2. /\ number[fresh.rec] = fresh.sock /\ table[fresh.sock] = fresh.conn
        /\ \A c \in Conns : Alive(c) => record[c] # fresh.rec
    BY DEF Own, FreshOwned
  <2> QED BY <2>1, <2>2 DEF FreshOwned
<1> QED BY <1>1, <1>2, <1>3

-------------------------------------------------------------------------------
LEMMA Connect_IInv ==
  ASSUME IInv, NEW c \in Conns, Connect(c)
  PROVE  IInv'
<1> USE DEF IInv
<1>1. backlog \in Seq(Conns) /\ backlog' = Append(backlog, c) /\ backlog' \in Seq(Conns)
  BY DEF Connect, TypeOK
<1>2. /\ DOMAIN backlog = 1 .. Len(backlog) /\ Len(backlog) \in Nat
      /\ DOMAIN backlog' = 1 .. Len(backlog) + 1 /\ Len(backlog') = Len(backlog) + 1
      /\ \A i \in 1 .. Len(backlog) : backlog'[i] = backlog[i] /\ backlog[i] \in Conns
      /\ backlog'[Len(backlog) + 1] = c
  BY <1>1
<1>3. TypeOK'
  BY <1>1 DEF Connect, TypeOK, heap, client, past
<1>4. Room'
  BY <1>2, Table DEF Connect, Room, NetconnLeft, InUse
<1>5. Stages'
  <2>1. peer' = [peer EXCEPT ![c] = "open"] /\ peer[c] = "new" /\ task' = task
    BY DEF Connect
  <2>2. \A b \in Conns : peer[b] # "new" => peer'[b] # "new"
    BY <2>1 DEF TypeOK
  <2>3. peer'[c] # "new" /\ task[c] = "none"
    BY <2>1 DEF TypeOK, Stages
  <2>4. \A i \in 1 .. Len(backlog) : backlog[i] # c
    BY <1>2, <2>1 DEF Stages
  <2> QED
    BY <1>2, <2>1, <2>2, <2>3, <2>4 DEF Connect, Stages, heap, client
<1>6. ASSUME astray' = {} PROVE Own'
  <2>1. Own
    BY <1>6 DEF Connect, past
  <2>2. (\A b \in Conns : Alive(b)' => Owns(b)') /\ Apart' /\ FreshOwned'
    BY <2>1, OwnKept DEF Connect, heap, Alive, Own, Owns, FreshOwned
  <2> QED BY <2>1, <2>2 DEF Connect, Own, ModbusOwns, client
<1> QED BY <1>3, <1>4, <1>5, <1>6

LEMMA HangUp_IInv ==
  ASSUME IInv, NEW c \in Conns, HangUp(c)
  PROVE  IInv'
<1> USE DEF IInv
<1>1. TypeOK'
  BY DEF HangUp, TypeOK, server, heap, client, past
<1>2. Room'
  BY DEF HangUp, Room, InUse, server
<1>3. Stages'
  <2>1. \A b \in Conns : peer[b] # "new" => peer'[b] # "new"
    BY DEF HangUp, TypeOK
  <2>2. \A i \in DOMAIN backlog : backlog[i] \in Conns
    BY DEF TypeOK
  <2> QED BY <2>1, <2>2 DEF HangUp, Stages, server, heap, client
<1>4. Own' <=> Own
  BY DEF HangUp, Own, Apart, FreshOwned, ModbusOwns, Alive, Owns, server, heap, client
<1> QED BY <1>1, <1>2, <1>3, <1>4 DEF HangUp, past

LEMMA Scribble_IInv ==
  ASSUME IInv, NEW c \in Conns, NEW v \in Descs \cup {NoDesc}, Scribble(c, v)
  PROVE  IInv'
<1> USE DEF IInv
<1>1. TypeOK'
  BY DEF Scribble, TypeOK, server, client
<1>2. Room'
  BY DEF Scribble, Room, InUse, server
<1>3. Stages'
  BY DEF Scribble, Stages, server, client
<1>4. astray' # {}
  BY DEF Scribble
<1> QED BY <1>1, <1>2, <1>3, <1>4

(* What holds of the elements of the backlog holds when the first leaves.  *)
LEMMA Shorter ==
  ASSUME NEW k \in Nat, Stages, DOMAIN backlog = 1 .. k + 1, DOMAIN backlog' = 1 .. k,
         \A i \in 1 .. k : backlog'[i] = backlog[i + 1]
  PROVE  /\ \A i \in DOMAIN backlog' : peer[backlog'[i]] # "new" /\ task[backlog'[i]] = "none"
         /\ \A i, j \in DOMAIN backlog' : backlog'[i] = backlog'[j] => i = j
<1>1. /\ \A i \in 1 .. k + 1 : peer[backlog[i]] # "new" /\ task[backlog[i]] = "none"
      /\ \A i, j \in 1 .. k + 1 : backlog[i] = backlog[j] => i = j
  BY DEF Stages
<1>2. ASSUME NEW i \in 1 .. k
      PROVE  i + 1 \in 1 .. k + 1 /\ backlog'[i] = backlog[i + 1]
  OBVIOUS
<1>3. \A i \in 1 .. k : peer[backlog'[i]] # "new" /\ task[backlog'[i]] = "none"
  BY <1>1, <1>2
<1>4. ASSUME NEW i \in 1 .. k, NEW j \in 1 .. k, backlog'[i] = backlog'[j]
      PROVE  i = j
  <2>1. backlog[i + 1] = backlog[j + 1]
    BY <1>2, <1>4
  <2>2. i + 1 = j + 1
    BY <1>1, <1>2, <2>1
  <2> QED BY <2>2
<1> QED BY <1>3, <1>4

LEMMA Accept_IInv ==
  ASSUME IInv, NEW r \in Records, Accept(r)
  PROVE  IInv'
<1> USE DEF IInv
<1> DEFINE c == Head(backlog)
<1>1. /\ backlog \in Seq(Conns) /\ backlog # <<>> /\ backlog' = Tail(backlog)
      /\ backlog' \in Seq(Conns) /\ c \in Conns
  BY HeadTailProperties DEF Accept, TypeOK
<1>2. /\ Len(backlog) \in Nat \ {0} /\ Len(backlog') = Len(backlog) - 1
      /\ DOMAIN backlog = 1 .. Len(backlog) /\ DOMAIN backlog' = 1 .. Len(backlog')
      /\ \A i \in 1 .. Len(backlog') : backlog'[i] = backlog[i + 1]
      /\ c = backlog[1]
  BY <1>1, HeadTailProperties, LenProperties, EmptySeq
<1>3. Lowest \in Descs /\ table[Lowest] = Free /\ Lowest \notin InUse
  BY <1>2, Table, SomeUnused DEF Room
<1>4. table' = [table EXCEPT ![Lowest] = c] /\ c # Free
  BY <1>1 DEF Accept, Conns, Free
<1>5. /\ fresh' = [conn |-> c, sock |-> Lowest, rec |-> r]
      /\ used' = used \cup {r} /\ number' = [number EXCEPT ![r] = Lowest]
      /\ demo = "accept" /\ demo' = "create" /\ r \notin used
      /\ astray' = astray \cup {b \in Conns : task[b] = "freed" /\ record[b] = r}
      /\ UNCHANGED <<handler, peer, task, record, modbus, sockfd, joined, opens, orphans>>
  BY DEF Accept, client
<1> HIDE DEF c
<1>6. TypeOK'
  <2>1. table' \in [Descs -> Conns \cup {Listen, Modbus, Free}]
    BY <1>1, <1>4 DEF TypeOK
  <2>2. number' \in [Records -> Descs \cup {NoDesc}] /\ used' \subseteq Records
    BY <1>3, <1>5 DEF TypeOK
  <2>3. fresh' \in [conn : Conns \cup {0}, sock : Descs, rec : Records \cup {NoRecord}]
    BY <1>1, <1>3, <1>5
  <2>4. astray' \subseteq Conns
    BY <1>5 DEF TypeOK
  <2> QED BY <1>1, <1>5, <2>1, <2>2, <2>3, <2>4 DEF TypeOK
<1>7. Room'
  <2>1. Cardinality(InUse') = Cardinality(InUse) + 1
    BY <1>3, <1>4, OneMore
  <2> QED BY <1>2, <2>1, Table DEF Room
<1>8. Stages'
  <2>1. \A i \in 1 .. Len(backlog') : i + 1 \in 1 .. Len(backlog) /\ i + 1 # 1
    BY <1>2
  <2>2. 1 \in DOMAIN backlog
    BY <1>2
  <2>3. peer[c] # "new" /\ task[c] = "none"
    BY <1>2, <2>2 DEF Stages
  <2>4. \A i \in 1 .. Len(backlog') : backlog'[i] # c
    BY <1>2, <2>1, <2>2 DEF Stages
  <2>5. /\ \A i \in DOMAIN backlog' : peer[backlog'[i]] # "new" /\ task[backlog'[i]] = "none"
        /\ \A i, j \in DOMAIN backlog' : backlog'[i] = backlog'[j] => i = j
    BY <1>2, <2>1, Shorter DEF Stages
  <2> QED BY <1>1, <1>2, <1>5, <2>3, <2>4, <2>5 DEF Stages
<1>9. ASSUME astray' = {} PROVE Own'
  <2>1. Own /\ \A b \in Conns : task[b] = "freed" => record[b] # r
    BY <1>5, <1>9
  <2>2. \A b \in Conns : Alive(b) => record[b] # r
    BY <1>5, <2>1 DEF Alive, Own, Owns
  <2>3. ASSUME NEW b \in Conns, Alive(b) PROVE Owns(b)'
    <3>1. Owns(b) /\ record[b] # r
      BY <2>1, <2>2, <2>3 DEF Own
    <3>2. number'[record'[b]] = number[record[b]]
      BY <1>5, <3>1 DEF Owns, TypeOK
    <3>3. number[record[b]] # Lowest
      BY <1>3, <3>1 DEF Owns, Conns, Free
    <3> QED BY <1>4, <1>5, <3>1, <3>2, <3>3 DEF Owns, TypeOK
  <2>4. Apart'
    BY <1>5, <2>1 DEF Own, Apart, Alive
  <2>5. FreshOwned'
    BY <1>3, <1>4, <1>5, <2>2 DEF FreshOwned, TypeOK, Alive
  <2>6. ModbusOwns'
    <3>1. \A d \in Descs : table[d] # Free => table'[d] = table[d]
      BY <1>3, <1>4 DEF TypeOK
    <3> QED BY <1>5, <2>1, <3>1, Table DEF Own, ModbusOwns, TypeOK, Listen, Modbus, Free
  <2>7. \A b \in Conns : Alive(b)' => Alive(b)
    BY <1>5 DEF Alive
  <2> QED BY <2>3, <2>4, <2>5, <2>6, <2>7 DEF Own
<1> QED BY <1>6, <1>7, <1>8, <1>9, <1>5

(* Without a record the connection only takes its descriptor. *)
LEMMA AcceptNoMemory_IInv ==
  ASSUME IInv, AcceptNoMemory
  PROVE  /\ IInv'
         /\ \A d \in Descs : table[d] # Free => table'[d] = table[d]
<1> USE DEF IInv
<1> DEFINE c == Head(backlog)
<1>1. /\ backlog \in Seq(Conns) /\ backlog # <<>> /\ backlog' = Tail(backlog)
      /\ backlog' \in Seq(Conns) /\ c \in Conns
  BY HeadTailProperties DEF AcceptNoMemory, TypeOK
<1>2. /\ Len(backlog) \in Nat \ {0} /\ Len(backlog') = Len(backlog) - 1
      /\ DOMAIN backlog = 1 .. Len(backlog) /\ DOMAIN backlog' = 1 .. Len(backlog')
      /\ \A i \in 1 .. Len(backlog') : backlog'[i] = backlog[i + 1]
  BY <1>1, HeadTailProperties, LenProperties, EmptySeq
<1>3. Lowest \in Descs /\ table[Lowest] = Free /\ Lowest \notin InUse
  BY <1>2, Table, SomeUnused DEF Room
<1>4. table' = [table EXCEPT ![Lowest] = c] /\ c # Free
  BY <1>1 DEF AcceptNoMemory, Conns, Free
<1>5. /\ demo = "accept" /\ demo' \in {"halted", "accept"} /\ handler' \in {handler, TRUE}
      /\ orphans' = orphans \cup {c}
      /\ UNCHANGED <<peer, task, fresh, record, used, number, modbus, sockfd, joined, opens, astray>>
  BY DEF AcceptNoMemory, heap, client
<1> HIDE DEF c
<1>6. \A d \in Descs : table[d] # Free => table'[d] = table[d]
  BY <1>3, <1>4 DEF TypeOK
<1>7. TypeOK'
  <2>1. table' \in [Descs -> Conns \cup {Listen, Modbus, Free}]
    BY <1>1, <1>4 DEF TypeOK
  <2> QED BY <1>1, <1>5, <2>1 DEF TypeOK
<1>8. Room'
  <2>1. Cardinality(InUse') = Cardinality(InUse) + 1
    BY <1>3, <1>4, OneMore
  <2> QED BY <1>2, <2>1, Table DEF Room
<1>9. Stages'
  <2>1. \A i \in 1 .. Len(backlog') : i + 1 \in 1 .. Len(backlog)
    BY <1>2
  <2>2. /\ \A i \in DOMAIN backlog' : peer[backlog'[i]] # "new" /\ task[backlog'[i]] = "none"
        /\ \A i, j \in DOMAIN backlog' : backlog'[i] = backlog'[j] => i = j
    BY <1>2, <2>1, Shorter DEF Stages
  <2> QED BY <1>5, <2>2 DEF Stages
<1>10. ASSUME astray' = {} PROVE Own'
  <2>1. Own
    BY <1>5, <1>10
  <2>2. \A b \in Conns : Alive(b)' <=> Alive(b)
    BY <1>5 DEF Alive
  <2>3. ASSUME NEW b \in Conns, Alive(b) PROVE Owns(b)'
    <3>1. Owns(b)
      BY <2>1, <2>3 DEF Own
    <3>2. table'[number[record[b]]] = b
      BY <1>6, <3>1 DEF Owns, Conns, Free
    <3> QED BY <1>5, <3>1, <3>2 DEF Owns
  <2>4. Apart' /\ FreshOwned'
    BY <1>5, <2>1, <2>2 DEF Own, Apart, FreshOwned
  <2>5. ModbusOwns'
    BY <1>5, <1>6, <2>1, Table DEF Own, ModbusOwns, TypeOK, Listen, Modbus, Free
  <2> QED BY <2>2, <2>3, <2>4, <2>5 DEF Own
<1> QED BY <1>5, <1>6, <1>7, <1>8, <1>9, <1>10

LEMMA AcceptFails_IInv ==
  ASSUME IInv, AcceptFails
  PROVE  IInv'
<1> USE DEF IInv
<1>1. /\ backlog \in Seq(Conns) /\ backlog # <<>> /\ backlog' = Tail(backlog)
      /\ backlog' \in Seq(Conns)
  BY HeadTailProperties DEF AcceptFails, TypeOK
<1>2. /\ Len(backlog) \in Nat \ {0} /\ Len(backlog') = Len(backlog) - 1
      /\ DOMAIN backlog = 1 .. Len(backlog) /\ DOMAIN backlog' = 1 .. Len(backlog')
      /\ \A i \in 1 .. Len(backlog') : backlog'[i] = backlog[i + 1]
  BY <1>1, HeadTailProperties, LenProperties, EmptySeq
<1>3. TypeOK'
  BY <1>1 DEF AcceptFails, TypeOK, heap, client, past
<1>4. Room'
  BY <1>2, Table DEF AcceptFails, Room, InUse
<1>5. Stages'
  <2>1. \A i \in 1 .. Len(backlog') : i + 1 \in 1 .. Len(backlog)
    BY <1>2
  <2>2. /\ \A i \in DOMAIN backlog' : peer[backlog'[i]] # "new" /\ task[backlog'[i]] = "none"
        /\ \A i, j \in DOMAIN backlog' : backlog'[i] = backlog'[j] => i = j
    BY <1>2, <2>1, Shorter DEF Stages
  <2> QED BY <2>2 DEF AcceptFails, Stages, heap, client
<1>6. Own' <=> Own
  BY DEF AcceptFails, Own, Apart, FreshOwned, ModbusOwns, Alive, Owns, heap, client
<1> QED BY <1>3, <1>4, <1>5, <1>6 DEF AcceptFails, past

LEMMA Created_IInv ==
  ASSUME IInv, Created
  PROVE  IInv'
<1> USE DEF IInv
<1> DEFINE c == fresh.conn
<1>1. /\ c \in Conns /\ fresh.rec \in Records /\ fresh.sock \in Descs
      /\ task[c] = "none" /\ peer[c] # "new"
      /\ \A i \in DOMAIN backlog : backlog[i] # c
  BY DEF Created, Stages, TypeOK
<1>2. /\ demo' = "accept" /\ handler' = TRUE
      /\ task' = [task EXCEPT ![c] = "recv"]
      /\ record' = [record EXCEPT ![c] = fresh.rec]
      /\ UNCHANGED <<table, peer, backlog, fresh, used, number, modbus, sockfd,
                     joined, opens, astray, orphans>>
  BY DEF Created, client, past
<1> HIDE DEF c
<1>3. /\ task' \in [Conns -> {"none", "recv", "stuck", "freed", "done"}]
      /\ record' \in [Conns -> Records \cup {NoRecord}]
      /\ task'[c] = "recv" /\ record'[c] = fresh.rec
      /\ \A b \in Conns \ {c} : task'[b] = task[b] /\ record'[b] = record[b]
  BY <1>1, <1>2 DEF TypeOK
<1>4. TypeOK'
  BY <1>2, <1>3 DEF TypeOK
<1>5. Room'
  BY <1>2 DEF Room, InUse
<1>6. Stages'
  <2>1. \A i \in DOMAIN backlog : backlog[i] \in Conns /\ backlog[i] # c
    BY <1>1 DEF TypeOK
  <2> QED BY <1>1, <1>2, <1>3, <2>1 DEF Stages
<1>7. ASSUME astray' = {} PROVE Own'
  <2>1. Own
    BY <1>2, <1>7
  <2>2. /\ fresh.rec \in used /\ number[fresh.rec] = fresh.sock /\ table[fresh.sock] = c
        /\ \A b \in Conns : Alive(b) => record[b] # fresh.rec
    BY <2>1 DEF Created, Own, FreshOwned, c
  <2>3. \A b \in Conns \ {c} : Alive(b)' <=> Alive(b)
    BY <1>3 DEF Alive
  <2>4. ASSUME NEW b \in Conns, Alive(b)' PROVE Owns(b)'
    <3>1. CASE b = c
      BY <3>1, <1>1, <1>2, <1>3, <2>2 DEF Owns
    <3>2. CASE b # c
      BY <3>2, <2>1, <2>3, <2>4, <1>2, <1>3 DEF Own, Owns
    <3> QED BY <3>1, <3>2
  <2>5. Apart'
    <3> SUFFICES ASSUME NEW a \in Conns, NEW b \in Conns, Alive(a)', Alive(b)', a # b
                 PROVE  record'[a] # record'[b]
      BY DEF Apart
    <3>1. CASE a = c
      BY <3>1, <1>3, <2>2, <2>3
    <3>2. CASE b = c
      BY <3>2, <1>3, <2>2, <2>3
    <3>3. CASE a # c /\ b # c
      BY <3>3, <1>3, <2>1, <2>3 DEF Own, Apart
    <3> QED BY <3>1, <3>2, <3>3
  <2>6. FreshOwned' /\ ModbusOwns'
    BY <1>2, <2>1 DEF FreshOwned, Own, ModbusOwns
  <2> QED BY <2>4, <2>5, <2>6 DEF Own
<1> QED BY <1>4, <1>5, <1>6, <1>7

LEMMA NotCreated_IInv ==
  ASSUME IInv, NotCreated
  PROVE  IInv'
<1> USE DEF IInv
<1>1. fresh.conn \in Conns
  BY DEF NotCreated, Stages
<1>2. /\ demo = "create" /\ demo' = "accept"
      /\ used' = (IF handler THEN used ELSE used \ {fresh.rec})
      /\ orphans' = orphans \cup {fresh.conn}
      /\ UNCHANGED <<table, peer, task, backlog, fresh, handler, record, number,
                     modbus, sockfd, joined, opens, astray>>
  BY DEF NotCreated, client
<1>3. TypeOK'
  <2>1. used' \subseteq Records /\ orphans' \subseteq Conns
    BY <1>1, <1>2 DEF TypeOK
  <2> QED BY <1>2, <2>1 DEF TypeOK
<1>4. Room' /\ Stages'
  BY <1>2 DEF Room, InUse, Stages
<1>5. ASSUME astray' = {} PROVE Own'
  <2>1. Own /\ \A c \in Conns : Alive(c) => record[c] # fresh.rec
    BY <1>2, <1>5 DEF Own, FreshOwned
  <2>2. \A c \in Conns : Alive(c)' <=> Alive(c)
    BY <1>2 DEF Alive
  <2>3. \A c \in Conns : task'[c] = "recv" => record[c] \in used'
    BY <1>2, <2>1 DEF Own, Owns, Alive
  <2>4. (\A c \in Conns : Alive(c)' => Owns(c)') /\ Apart' /\ FreshOwned'
    BY <1>2, <2>1, <2>2, <2>3, OwnKept
  <2> QED BY <1>2, <2>1, <2>4 DEF Own, ModbusOwns
<1> QED BY <1>3, <1>4, <1>5, <1>2

-------------------------------------------------------------------------------
LEMMA RecvEnds_IInv ==
  ASSUME IInv, NEW c \in Conns, RecvEnds(c)
  PROVE  IInv'
<1> USE DEF IInv
<1>1. /\ task[c] = "recv" /\ task' = [task EXCEPT ![c] = "freed"]
      /\ used' = used \ {record[c]}
      /\ UNCHANGED <<table, peer, backlog, demo, fresh, handler, record, number,
                     modbus, sockfd, joined, opens, astray, orphans>>
  BY DEF RecvEnds, server, client, past
<1>2. /\ task' \in [Conns -> {"none", "recv", "stuck", "freed", "done"}]
      /\ task'[c] = "freed"
      /\ \A b \in Conns \ {c} : task'[b] = task[b]
  BY <1>1 DEF TypeOK
<1>3. TypeOK'
  BY <1>1, <1>2 DEF TypeOK
<1>4. Room'
  BY <1>1 DEF Room, InUse
<1>5. Stages'
  <2>1. \A i \in DOMAIN backlog : backlog[i] \in Conns /\ backlog[i] # c
    BY <1>1 DEF TypeOK, Stages
  <2> QED BY <1>1, <1>2, <2>1 DEF Stages
<1>6. ASSUME astray' = {} PROVE Own'
  <2>1. Own
    BY <1>1, <1>6
  <2>2. \A b \in Conns : Alive(b)' <=> Alive(b)
    BY <1>1, <1>2 DEF Alive
  <2>3. \A b \in Conns : task'[b] = "recv" => record[b] \in used'
    <3> SUFFICES ASSUME NEW b \in Conns, task'[b] = "recv" PROVE record[b] \in used'
      OBVIOUS
    <3>1. b # c /\ task[b] = "recv" /\ Alive(b) /\ Alive(c)
      BY <1>1, <1>2 DEF Alive
    <3>2. record[b] \in used /\ record[b] # record[c]
      BY <3>1, <2>1 DEF Own, Owns, Apart
    <3> QED BY <1>1, <3>2
  <2>4. demo' = "create" => demo = "create" /\ fresh' = fresh /\ fresh.rec \in used'
    <3>1. Alive(c)
      BY <1>1 DEF Alive
    <3> QED BY <1>1, <2>1, <3>1 DEF Own, FreshOwned
  <2>5. (\A b \in Conns : Alive(b)' => Owns(b)') /\ Apart' /\ FreshOwned'
    BY <1>1, <2>1, <2>2, <2>3, <2>4, OwnKept
  <2> QED BY <1>1, <2>1, <2>5 DEF Own, ModbusOwns
<1> QED BY <1>3, <1>4, <1>5, <1>6, <1>1

(* What a close of any descriptor does. *)
LEMMA Closed ==
  ASSUME IInv, NEW d \in Descs \cup {NoDesc}, NEW by, Close(d, by),
         by \in Conns => task[by] = "freed"
  PROVE  /\ table' \in [Descs -> Conns \cup {Listen, Modbus, Free}]
         /\ task' \in [Conns -> {"none", "recv", "stuck", "freed", "done"}]
         /\ \A c \in Conns : \/ task'[c] = task[c]
                             \/ task[c] = "recv" /\ task'[c] = "stuck"
                             \/ c = by /\ task[c] = "freed" /\ task'[c] = "done"
         /\ by \in Conns => task'[by] = "done"
         /\ backlog' = backlog \/ backlog' = <<>>
         /\ demo' = demo \/ (demo = "accept" /\ demo' = "stuck")
         /\ \A e \in Descs \ {d} : table'[e] = table[e]
         /\ d \in Descs => table'[d] = Free
         /\ Room'
<1> USE DEF IInv
<1>1. CASE d \notin InUse
  <2>1. /\ table' = table /\ backlog' = backlog /\ demo' = demo
        /\ task' = [c \in Conns |-> IF c = by THEN "done" ELSE task[c]]
    BY <1>1 DEF Close
  <2>2. d \in Descs => table[d] = Free
    BY <1>1 DEF InUse
  <2>3. Room'
    BY <2>1 DEF Room, InUse
  <2> QED BY <2>1, <2>2, <2>3 DEF TypeOK
<1>2. CASE d \in InUse
  <2>1. PICK waits \in SUBSET Waiting(d) :
          task' = [c \in Conns |-> IF c = by THEN "done"
                                   ELSE IF c \in waits THEN "stuck" ELSE task[c]]
    BY <1>2 DEF Close
  <2>2. /\ table' = [table EXCEPT ![d] = Free]
        /\ backlog' = IF table[d] = Listen THEN <<>> ELSE backlog
        /\ demo' = IF table[d] = Listen /\ demo = "accept" THEN "stuck" ELSE demo
    BY <1>2 DEF Close
  <2>3. d \in Descs
    BY <1>2 DEF InUse
  <2>4. /\ table' \in [Descs -> Conns \cup {Listen, Modbus, Free}]
        /\ table'[d] = Free /\ \A e \in Descs \ {d} : table'[e] = table[e]
    BY <2>2, <2>3 DEF TypeOK
  <2>5. \A c \in waits : task[c] = "recv"
    BY DEF Waiting
  <2>6. /\ task' \in [Conns -> {"none", "recv", "stuck", "freed", "done"}]
        /\ \A c \in Conns : \/ task'[c] = task[c]
                            \/ task[c] = "recv" /\ task'[c] = "stuck"
                            \/ c = by /\ task[c] = "freed" /\ task'[c] = "done"
        /\ by \in Conns => task'[by] = "done"
    BY <2>1, <2>5 DEF TypeOK
  <2>7. Room'
    <3>1. Cardinality(InUse') = Cardinality(InUse) - 1
      BY <1>2, <2>2, OneLess
    <3>2. Len(backlog') \in Nat /\ Len(backlog') <= Len(backlog)
      <4>1. Len(backlog) \in Nat /\ Len(<<>>) = 0
        BY DEF TypeOK
      <4> QED BY <2>2, <4>1
    <3> QED BY <3>1, <3>2, Table DEF Room, TypeOK
  <2> QED BY <2>2, <2>4, <2>6, <2>7
<1> QED BY <1>1, <1>2

(* A close keeps the stages of the connections. *)
LEMMA ClosedStages ==
  ASSUME IInv, NEW d \in Descs \cup {NoDesc}, NEW by, Close(d, by),
         by \in Conns => task[by] = "freed",
         UNCHANGED <<peer, fresh, record>>,
         modbus' = "first" => modbus = "first" /\ sockfd' = sockfd
  PROVE  Stages'
<1> USE DEF IInv
<1>1. \A c \in Conns : (task'[c] = "none") = (task[c] = "none")
  BY Closed
<1>2. backlog' = backlog \/ backlog' = <<>>
  BY Closed
<1>3. demo' = demo \/ (demo = "accept" /\ demo' = "stuck")
  BY Closed
<1>4. /\ \A i \in DOMAIN backlog' : backlog[i] \in Conns /\ backlog'[i] = backlog[i]
      /\ DOMAIN backlog' \subseteq DOMAIN backlog
  <2>1. \A i \in DOMAIN backlog : backlog[i] \in Conns
    BY DEF TypeOK
  <2>2. CASE backlog' = <<>>
    BY <2>2
  <2>3. CASE backlog' = backlog
    BY <2>1, <2>3
  <2> QED BY <1>2, <2>2, <2>3
<1>5. /\ \A i \in DOMAIN backlog' : peer[backlog'[i]] # "new" /\ task'[backlog'[i]] = "none"
      /\ \A i, j \in DOMAIN backlog' : backlog'[i] = backlog'[j] => i = j
  BY <1>1, <1>4 DEF Stages
<1> QED BY <1>1, <1>3, <1>4, <1>5 DEF Stages

(* A close of a descriptor that is no other running task's keeps the rest. *)
LEMMA ClosedOwn ==
  ASSUME IInv, Own, NEW d \in Descs \cup {NoDesc}, NEW by, Close(d, by),
         by \in Conns => task[by] = "freed",
         UNCHANGED <<fresh, record, number, used>>,
         d \in Descs => table[d] \notin Conns \/ table[d] = by
  PROVE  (\A c \in Conns : Alive(c)' => Owns(c)') /\ Apart' /\ FreshOwned'
<1> USE DEF IInv
<1>1. \A c \in Conns : \/ task'[c] = task[c]
                       \/ task[c] = "recv" /\ task'[c] = "stuck"
                       \/ c = by /\ task[c] = "freed" /\ task'[c] = "done"
  BY Closed
<1>2. \A c \in Conns : Alive(c)' => Alive(c) /\ c # by
  BY <1>1, Closed DEF Alive
<1>3. \A c \in Conns : task'[c] = "recv" => record[c] \in used'
  BY <1>1 DEF Own, Owns, Alive
<1>4. demo' = "create" => demo = "create" /\ fresh' = fresh /\ fresh.rec \in used'
  BY Closed DEF Own, FreshOwned
<1>5. \A c \in Conns : c # by => \A e \in Descs : table[e] = c => table'[e] = c
  BY Closed
<1>6. demo' = "create" => fresh.conn \in Conns /\ fresh.conn # by
  BY <1>4 DEF Stages
<1> QED BY <1>2, <1>3, <1>4, <1>5, <1>6, OwnKept

LEMMA CloseSocket_IInv ==
  ASSUME IInv, NEW c \in Conns, CloseSocket(c)
  PROVE  IInv' /\ (astray = {} => Own /\ table[number[record[c]]] = c)
<1> USE DEF IInv
<1> DEFINE d == number[record[c]]
<1>1. /\ task[c] = "freed" /\ Close(d, c)
      /\ UNCHANGED <<peer, fresh, handler, record, used, number, modbus, sockfd,
                     joined, opens, astray, orphans>>
  BY DEF CloseSocket, heap, client, past
<1>2. astray = {} => Own /\ Owns(c) /\ d \in Descs /\ table[d] = c
  BY <1>1 DEF Own, Alive, Owns
<1>3. d \in Descs \cup {NoDesc}
  BY <1>1 DEF Stages, TypeOK
<1> HIDE DEF d
<1>4. IInv'
  <2>1. TypeOK' /\ Room'
    <3>1. /\ table' \in [Descs -> Conns \cup {Listen, Modbus, Free}]
          /\ task' \in [Conns -> {"none", "recv", "stuck", "freed", "done"}]
          /\ backlog' = backlog \/ backlog' = <<>>
          /\ demo' = demo \/ demo' = "stuck"
          /\ Room'
      BY <1>1, <1>3, Closed
    <3>2. backlog' \in Seq(Conns)
      <4>1. backlog \in Seq(Conns) /\ <<>> \in Seq(Conns)
        BY DEF TypeOK
      <4> QED BY <3>1, <4>1
    <3> QED BY <1>1, <3>1, <3>2 DEF TypeOK
  <2>2. Stages'
    BY <1>1, <1>3, ClosedStages
  <2>3. ASSUME astray' = {} PROVE Own'
    <3>1. (\A b \in Conns : Alive(b)' => Owns(b)') /\ Apart' /\ FreshOwned'
      BY <1>1, <1>2, <1>3, <2>3, ClosedOwn
    <3>2. \A e \in Descs : table[e] \in {Listen, Modbus} => table'[e] = table[e]
      BY <1>1, <1>2, <1>3, <2>3, Closed DEF Conns, Listen, Modbus
    <3> QED BY <1>1, <1>2, <2>3, <3>1, <3>2, Table DEF Own, ModbusOwns, TypeOK
  <2> QED BY <2>1, <2>2, <2>3
<1> QED BY <1>2, <1>4 DEF d

-------------------------------------------------------------------------------
(* The Modbus task closes the descriptor in its handle.                    *)
LEMMA ModbusCloses ==
  ASSUME IInv, Close(sockfd, 0), modbus \in {"first", "connect", "up"},
         modbus' \in {"socket", "up", "end"},
         modbus' = "socket" \/ sockfd' = NoDesc, sockfd' \in Descs \cup {NoDesc},
         UNCHANGED <<peer, fresh, handler, heap, joined, opens, past>>
  PROVE  /\ IInv'
         /\ astray = {} /\ sockfd \in Descs => table[sockfd] = IF modbus = "first" THEN Listen
                                                                            ELSE Modbus
         /\ \A d \in Descs \ {sockfd} : table'[d] = table[d]
<1> USE DEF IInv
<1>1. sockfd \in Descs \cup {NoDesc} /\ 0 \notin Conns /\ modbus' # "first"
  BY DEF TypeOK, Conns
<1>2. astray = {} /\ sockfd \in Descs =>
        table[sockfd] = IF modbus = "first" THEN Listen ELSE Modbus
  <2> SUFFICES ASSUME astray = {}, sockfd \in Descs
               PROVE  table[sockfd] = IF modbus = "first" THEN Listen ELSE Modbus
    OBVIOUS
  <2>1. Own /\ sockfd # NoDesc
    BY Table
  <2> QED BY <2>1 DEF Own, ModbusOwns, Stages
<1>3. TypeOK' /\ Room'
  <2>1. /\ table' \in [Descs -> Conns \cup {Listen, Modbus, Free}]
        /\ task' \in [Conns -> {"none", "recv", "stuck", "freed", "done"}]
        /\ backlog' = backlog \/ backlog' = <<>>
        /\ demo' = demo \/ demo' = "stuck"
        /\ Room'
    BY <1>1, Closed
  <2>2. backlog' \in Seq(Conns)
    <3>1. backlog \in Seq(Conns) /\ <<>> \in Seq(Conns)
      BY DEF TypeOK
    <3> QED BY <2>1, <3>1
  <2> QED BY <2>1, <2>2 DEF TypeOK, heap, past
<1>4. Stages'
  BY <1>1, ClosedStages DEF heap
<1>5. ASSUME astray' = {} PROVE Own'
  <2>1. Own /\ astray = {}
    BY <1>5 DEF past
  <2>2. sockfd \in Descs => table[sockfd] \notin Conns
    BY <1>2, <2>1 DEF Conns, Listen, Modbus
  <2>3. (\A c \in Conns : Alive(c)' => Owns(c)') /\ Apart' /\ FreshOwned'
    BY <1>1, <2>1, <2>2, ClosedOwn DEF heap
  <2> QED BY <1>1, <2>3 DEF Own, ModbusOwns
<1>6. \A d \in Descs \ {sockfd} : table'[d] = table[d]
  BY <1>1, Closed
<1> QED BY <1>2, <1>3, <1>4, <1>5, <1>6

LEMMA ModbusSocket_IInv ==
  ASSUME IInv, ModbusSocket
  PROVE  IInv' /\ \A d \in Descs : table[d] # Free => table'[d] = table[d]
<1> USE DEF IInv
<1>1. Len(backlog) \in Nat /\ Cardinality(InUse) < Sockets
  BY Table DEF TypeOK, ModbusSocket, NetconnLeft
<1>2. Lowest \in Descs /\ table[Lowest] = Free /\ Lowest \notin InUse
  BY <1>1, SomeUnused
<1>3. /\ table' = [table EXCEPT ![Lowest] = Modbus] /\ Modbus # Free
      /\ sockfd' = Lowest /\ opens' = opens + 1 /\ opens < MaxOpens /\ modbus' = "connect"
      /\ UNCHANGED <<peer, task, backlog, demo, fresh, handler, record, used, number,
                     joined, astray, orphans>>
  BY DEF ModbusSocket, Modbus, Free, server, heap, past
<1>4. \A d \in Descs : table[d] # Free => table'[d] = table[d]
  BY <1>2, <1>3 DEF TypeOK
<1>5. TypeOK'
  <2>1. table' \in [Descs -> Conns \cup {Listen, Modbus, Free}]
    BY <1>2, <1>3 DEF TypeOK
  <2>2. opens' \in 0 .. MaxOpens
    BY <1>3, EchoServerAssumption DEF TypeOK
  <2> QED BY <1>2, <1>3, <2>1, <2>2 DEF TypeOK
<1>6. Room'
  <2>1. Cardinality(InUse') = Cardinality(InUse) + 1
    BY <1>2, <1>3, OneMore
  <2> QED BY <1>1, <1>3, <2>1, Table DEF Room, ModbusSocket, NetconnLeft
<1>7. Stages'
  BY <1>3 DEF Stages
<1>8. ASSUME astray' = {} PROVE Own'
  <2>1. Own
    BY <1>3, <1>8
  <2>2. (\A c \in Conns : Alive(c)' <=> Alive(c)) /\ \A c \in Conns : c # Free
    BY <1>3 DEF Alive, Conns, Free
  <2>3. \A c \in Conns : task'[c] = "recv" => record[c] \in used'
    BY <1>3, <2>1 DEF Own, Owns, Alive
  <2>4. demo' = "create" => fresh.conn \in Conns /\ fresh.rec \in used'
    BY <1>3, <2>1 DEF Stages, Own, FreshOwned
  <2>5. (\A c \in Conns : Alive(c)' => Owns(c)') /\ Apart' /\ FreshOwned'
    BY <1>3, <1>4, <2>1, <2>2, <2>3, <2>4, OwnKept
  <2>6. ModbusOwns'
    BY <1>2, <1>3 DEF ModbusOwns, TypeOK
  <2> QED BY <2>5, <2>6 DEF Own
<1> QED BY <1>4, <1>5, <1>6, <1>7, <1>8

LEMMA ModbusElse_IInv ==
  ASSUME IInv, ModbusNoSocket \/ ModbusConnected
  PROVE  IInv'
<1> USE DEF IInv
<1>1. /\ UNCHANGED <<table, peer, task, backlog, demo, fresh, handler, record, used,
                     number, opens, astray, orphans>>
      /\ modbus' \in {"up", "end"} /\ joined' \in BOOLEAN
      /\ sockfd' = NoDesc \/ (sockfd' = sockfd /\ modbus = "connect")
  BY DEF ModbusNoSocket, ModbusConnected, Failed, server, heap, past, TypeOK
<1>2. TypeOK'
  BY <1>1 DEF TypeOK
<1>3. Room' /\ Stages'
  BY <1>1 DEF Room, InUse, Stages
<1>4. Own => Own'
  BY <1>1 DEF Own, Apart, FreshOwned, ModbusOwns, Alive, Owns
<1> QED BY <1>1, <1>2, <1>3, <1>4

-------------------------------------------------------------------------------
ClosesRight ==
  astray = {} =>
    \A d \in Descs : table[d] # Free /\ table'[d] = Free =>
      CASE table[d] = Listen -> modbus = "first" /\ modbus' = "socket"
        [] table[d] = Modbus -> sockfd = d /\ sockfd' = NoDesc
        [] OTHER             -> task'[table[d]] = "done"

LEMMA NothingCloses ==
  ASSUME \A d \in Descs : table[d] # Free => table'[d] = table[d]
  PROVE  ClosesRight
  BY DEF ClosesRight

LEMMA Modbus_IInv ==
  ASSUME IInv, ModbusTask
  PROVE  IInv' /\ ClosesRight
<1> USE DEF IInv
<1>1. CASE ModbusFirst \/ ModbusRefused \/ ModbusReconnect
  <2>1. /\ Close(sockfd, 0) /\ modbus \in {"first", "connect", "up"}
        /\ modbus' \in {"socket", "up", "end"}
        /\ modbus = "first" => modbus' = "socket" /\ sockfd' = sockfd
        /\ modbus # "first" => sockfd' = NoDesc
        /\ UNCHANGED <<peer, fresh, handler, heap, joined, opens, past>>
    BY <1>1 DEF ModbusFirst, ModbusRefused, ModbusReconnect, Failed
  <2>2. sockfd' \in Descs \cup {NoDesc} /\ (modbus' = "socket" \/ sockfd' = NoDesc)
    BY <2>1 DEF TypeOK
  <2>3. /\ IInv'
        /\ astray = {} /\ sockfd \in Descs =>
             table[sockfd] = IF modbus = "first" THEN Listen ELSE Modbus
        /\ \A d \in Descs \ {sockfd} : table'[d] = table[d]
    BY <2>1, <2>2, ModbusCloses
  <2>4. ClosesRight
    <3> SUFFICES ASSUME astray = {}, NEW d \in Descs, table[d] # Free, table'[d] = Free
                 PROVE  CASE table[d] = Listen -> modbus = "first" /\ modbus' = "socket"
                          [] table[d] = Modbus -> sockfd = d /\ sockfd' = NoDesc
                          [] OTHER             -> task'[table[d]] = "done"
      BY DEF ClosesRight
    <3>1. d = sockfd
      BY <2>3
    <3>2. table[d] = IF modbus = "first" THEN Listen ELSE Modbus
      BY <2>3, <3>1
    <3> QED BY <2>1, <3>1, <3>2 DEF Listen, Modbus
  <2> QED BY <2>3, <2>4
<1>2. CASE ModbusSocket
  BY <1>2, ModbusSocket_IInv, NothingCloses
<1>3. CASE ModbusNoSocket \/ ModbusConnected
  BY <1>3, ModbusElse_IInv, NothingCloses DEF ModbusNoSocket, ModbusConnected
<1> QED BY <1>1, <1>2, <1>3 DEF ModbusTask

LEMMA CloseSocket_Right ==
  ASSUME IInv, NEW c \in Conns, CloseSocket(c)
  PROVE  ClosesRight
<1> SUFFICES ASSUME astray = {}, NEW d \in Descs, table[d] # Free, table'[d] = Free
             PROVE  CASE table[d] = Listen -> modbus = "first" /\ modbus' = "socket"
                      [] table[d] = Modbus -> sockfd = d /\ sockfd' = NoDesc
                      [] OTHER             -> task'[table[d]] = "done"
  BY DEF ClosesRight
<1>1. table[number[record[c]]] = c
  BY CloseSocket_IInv
<1>2. number[record[c]] \in Descs \cup {NoDesc} /\ task[c] = "freed" /\ Close(number[record[c]], c)
  BY DEF CloseSocket, IInv, Stages, TypeOK
<1>3. (\A e \in Descs \ {number[record[c]]} : table'[e] = table[e]) /\ task'[c] = "done"
  BY <1>2, Closed
<1>4. table[d] = c /\ c # Listen /\ c # Modbus
  BY <1>1, <1>3 DEF Conns, Listen, Modbus
<1> QED BY <1>3, <1>4

LEMMA Next_IInv ==
  ASSUME IInv, [Next]_vars
  PROVE  IInv' /\ ClosesRight
<1>1. ASSUME NEW r \in Records, Accept(r) PROVE IInv' /\ ClosesRight
  <2>1. \A d \in Descs : table[d] # Free => table'[d] = table[d]
    <3>1. table' = [table EXCEPT ![Lowest] = Head(backlog)] /\ backlog # <<>>
      BY <1>1 DEF Accept
    <3>2. Len(backlog) \in Nat \ {0}
      BY <3>1, EmptySeq DEF IInv, TypeOK
    <3>3. Lowest \in Descs /\ table[Lowest] = Free
      BY <3>2, SomeUnused, Table DEF IInv, Room
    <3> QED BY <3>1, <3>3 DEF IInv, TypeOK
  <2> QED BY <1>1, <2>1, Accept_IInv, NothingCloses
<1>0. CASE AcceptNoMemory
  BY <1>0, AcceptNoMemory_IInv, NothingCloses
<1>2. CASE AcceptFails \/ Created \/ NotCreated
  BY <1>2, AcceptFails_IInv, Created_IInv, NotCreated_IInv, NothingCloses
  DEF AcceptFails, Created, NotCreated
<1>3. ASSUME NEW c \in Conns, Connect(c) \/ HangUp(c) PROVE IInv' /\ ClosesRight
  BY <1>3, Connect_IInv, HangUp_IInv, NothingCloses DEF Connect, HangUp
<1>4. ASSUME NEW c \in Conns, NEW v \in Descs \cup {NoDesc}, Scribble(c, v)
      PROVE  IInv' /\ ClosesRight
  BY <1>4, Scribble_IInv, NothingCloses DEF Scribble
<1>5. ASSUME NEW c \in Conns, RecvEnds(c) PROVE IInv' /\ ClosesRight
  BY <1>5, RecvEnds_IInv, NothingCloses DEF RecvEnds
<1>6. ASSUME NEW c \in Conns, CloseSocket(c) PROVE IInv' /\ ClosesRight
  BY <1>6, CloseSocket_IInv, CloseSocket_Right
<1>7. CASE UNCHANGED vars
  <2>1. IInv'
    BY <1>7 DEF IInv, TypeOK, Room, InUse, Stages, Own, Apart, FreshOwned, ModbusOwns,
                Alive, Owns, vars, server, heap, client, past
  <2> QED BY <1>7, <2>1, NothingCloses DEF vars
<1> QED
  BY <1>0, <1>1, <1>2, <1>3, <1>4, <1>5, <1>6, <1>7, Modbus_IInv DEF Next, Demo, Client

LEMMA IInv_EchoInv == IInv => EchoInv
<1> SUFFICES ASSUME IInv PROVE EchoInv
  OBVIOUS
<1>1. TypeOK /\ (astray = {} => Own)
  BY DEF IInv
<1>2. modbus \in {"first", "socket", "connect", "up", "end"}
  BY <1>1 DEF TypeOK
<1> QED BY <1>1, <1>2 DEF EchoInv, OwnNumbers, Own, Owns, Apart, FreshOwned, ModbusOwns

(* lwip_client_thread_entry and the Modbus task work on their own          *)
(* connections, whatever the sizes and whoever runs when, as long as no    *)
(* freed record is given away before its task has closed.                  *)
THEOREM EchoIsInvariant == Spec => []EchoInv
<1>1. IInv /\ [Next]_vars => IInv'
  BY Next_IInv
<1> QED BY Init_IInv, <1>1, IInv_EchoInv, PTL DEF Spec

(* Nobody closes the connection of another, but for the first              *)
(* ModbusTCP_Init, which closes the one that lwip_demo listens on.         *)
THEOREM EchoClosedByOwner == Spec => ClosedByOwner
<1>1. IInv /\ [Next]_vars => IInv'
  BY Next_IInv
<1>2. IInv /\ [Next]_vars =>
        [astray = {} =>
           \A d \in Descs : table[d] # Free /\ table'[d] = Free =>
             CASE table[d] = Listen -> modbus = "first" /\ modbus' = "socket"
               [] table[d] = Modbus -> sockfd = d /\ sockfd' = NoDesc
               [] OTHER             -> task'[table[d]] = "done"]_vars
  BY Next_IInv DEF ClosesRight
<1> QED BY Init_IInv, <1>1, <1>2, PTL DEF Spec, ClosedByOwner
===============================================================================
