------------------------------ MODULE EchoServer ------------------------------
(***************************************************************************)
(* The sockets of the gateway.  lwip_demo listens on port 8088 and starts  *)
(* a task for every client it accepts.  The Modbus task opens, closes and  *)
(* reopens its own socket.  They share the table of descriptors of lwIP    *)
(* (a new socket gets the lowest free one), its connections, and its heap, *)
(* where lwip_demo puts a record for every client.                         *)
(*                                                                         *)
(* A client task frees its record first, and reads the number of the       *)
(* socket to close from it after that.                                     *)
(*                                                                         *)
(* The model leaves the priorities of the tasks out: it has every order.   *)
(***************************************************************************)
EXTENDS Integers, Sequences, FiniteSets

CONSTANTS
  Sockets,    (* NUM_SOCKETS, and MEMP_NUM_NETCONN                         *)
  Records,    (* places in the heap for a record of a client               *)
  NoRecord,
  MaxConns,   (* bound on connections of clients                           *)
  MaxOpens    (* bound on sockets of the Modbus task                       *)

ASSUME EchoServerAssumption ==
  /\ Sockets \in Nat /\ Sockets >= 2
  /\ NoRecord \notin Records
  /\ MaxConns \in Nat /\ MaxOpens \in Nat

VARIABLES
  table,     (* sockets: whose connection each descriptor names            *)
  backlog,   (* acceptmbox of the listening connection                     *)
  peer,      (* the client's end of a connection                           *)
  demo,      (* lwip_demo                                                  *)
  fresh,     (* sock_connect, client_fo: what lwip_demo is starting        *)
  handler,   (* client_handler is not NULL                                 *)
  task,      (* the task of a connection                                   *)
  record,    (* the param of a task                                        *)
  used,      (* records that are allocated                                 *)
  number,    (* socket_num of a record, also after it was freed            *)
  modbus,    (* the Modbus task                                            *)
  sockfd,    (* hmodbus.sockfd                                             *)
  joined,    (* the first ModbusTCP_Init has returned true                 *)
  opens,     (* sockets the Modbus task has opened                         *)
  astray,    (* history: tasks whose record changed before they closed     *)
  orphans    (* history: connections that no task of their own closes,     *)
             (* for want of memory                                         *)

server == <<backlog, demo, fresh, handler>>
heap   == <<record, used, number>>
client == <<modbus, sockfd, joined, opens>>
past   == <<astray, orphans>>
vars   == <<table, peer, task, server, heap, client, past>>

Conns  == 1 .. MaxConns
Listen == 0      (* the listening connection                               *)
Modbus == -1     (* the connection of the Modbus task                      *)
Free   == -2
Descs  == 0 .. Sockets - 1
NoDesc == -1

InUse  == {d \in Descs : table[d] # Free}
Unused == Descs \ InUse
Lowest == CHOOSE d \in Unused : \A e \in Unused : d <= e

(* A connection takes a netconn from the SYN on, a descriptor later.       *)
NetconnLeft == Cardinality(InUse) + Len(backlog) < Sockets

TypeOK ==
  /\ table \in [Descs -> Conns \cup {Listen, Modbus, Free}]
  /\ backlog \in Seq(Conns)
  /\ peer \in [Conns -> {"new", "open", "gone"}]
  /\ demo \in {"accept", "create", "stuck", "halted"}
  /\ fresh \in [conn : Conns \cup {0}, sock : Descs, rec : Records \cup {NoRecord}]
  /\ handler \in BOOLEAN
  /\ task \in [Conns -> {"none", "recv", "stuck", "freed", "done"}]
  /\ record \in [Conns -> Records \cup {NoRecord}]
  /\ used \subseteq Records /\ number \in [Records -> Descs \cup {NoDesc}]
  /\ modbus \in {"first", "socket", "connect", "up", "end"}
  /\ sockfd \in Descs \cup {NoDesc} /\ joined \in BOOLEAN /\ opens \in 0 .. MaxOpens
  /\ astray \subseteq Conns /\ orphans \subseteq Conns

(* lwip_demo has the highest priority of the tasks here: it waits in       *)
(* accept before the Modbus task, whose handle is cleared memory, runs.    *)
Init ==
  /\ table = [d \in Descs |-> IF d = 0 THEN Listen ELSE Free]
  /\ backlog = <<>> /\ demo = "accept" /\ handler = FALSE
  /\ fresh = [conn |-> 0, sock |-> 0, rec |-> NoRecord]
  /\ peer = [c \in Conns |-> "new"] /\ task = [c \in Conns |-> "none"]
  /\ record = [c \in Conns |-> NoRecord]
  /\ used = {} /\ number = [r \in Records |-> NoDesc]
  /\ modbus = "first" /\ sockfd = 0 /\ joined = FALSE /\ opens = 0
  /\ astray = {} /\ orphans = {}

-------------------------------------------------------------------------------
(* The other ends, and lwIP.                                               *)

(* A client connects: accept_function puts it into the mailbox.            *)
Connect(c) ==
  /\ peer[c] = "new" /\ \A b \in 1 .. c - 1 : peer[b] # "new"
  /\ table[0] = Listen /\ NetconnLeft /\ demo # "halted"
  /\ peer' = [peer EXCEPT ![c] = "open"]
  /\ backlog' = Append(backlog, c)
  /\ UNCHANGED <<table, task, demo, fresh, handler, heap, client, past>>

(* The client closes, or is reset.                                         *)
HangUp(c) ==
  /\ peer[c] = "open"
  /\ peer' = [peer EXCEPT ![c] = "gone"]
  /\ UNCHANGED <<table, task, server, heap, client, past>>

(* lwIP uses a freed record for something else and frees it again.         *)
Scribble(c, v) ==
  /\ task[c] = "freed" /\ record[c] \notin used /\ demo # "halted"
  /\ number' = [number EXCEPT ![record[c]] = v]
  /\ astray' = astray \cup {c}
  /\ UNCHANGED <<table, peer, task, server, record, used, client, orphans>>

(* lwip_close(d) by whoever it is.  A task that waits on the connection    *)
(* waits on a mailbox that is gone: it never returns.                      *)
Waiting(d) == {c \in Conns : task[c] = "recv" /\ number[record[c]] = d}
Close(d, by) ==
  IF d \notin InUse
  THEN /\ task' = [c \in Conns |-> IF c = by THEN "done" ELSE task[c]]
       /\ UNCHANGED <<table, backlog, demo>>
  ELSE /\ table' = [table EXCEPT ![d] = Free]
       /\ \E waits \in SUBSET Waiting(d) :
            task' = [c \in Conns |-> IF c = by THEN "done"
                                     ELSE IF c \in waits THEN "stuck" ELSE task[c]]
       /\ backlog' = IF table[d] = Listen THEN <<>> ELSE backlog
       /\ demo' = IF table[d] = Listen /\ demo = "accept" THEN "stuck" ELSE demo

(* lwip_demo goes round without a pause when descriptor 0 is not its own   *)
(* any more: no other task runs then, nor after a fault of the processor.  *)
Spins == (demo = "accept" /\ table[0] # Listen) \/ demo = "halted"

-------------------------------------------------------------------------------
(* lwip_demo.                                                              *)

(* Mutant of Accept: one static record for every client.                   *)
AcceptStatic(r) ==
  /\ demo = "accept" /\ backlog # <<>>
  /\ table' = [table EXCEPT ![Lowest] = Head(backlog)]
  /\ backlog' = Tail(backlog) /\ demo' = "create"
  /\ fresh' = [conn |-> Head(backlog), sock |-> Lowest, rec |-> r]
  /\ used' = used \cup {r} /\ number' = [number EXCEPT ![r] = Lowest]
  /\ UNCHANGED <<handler, peer, task, record, client, past>>

(* accept, mem_malloc, and the record.                                     *)
Accept(r) ==
  /\ demo = "accept" /\ backlog # <<>> /\ r \notin used
  /\ table' = [table EXCEPT ![Lowest] = Head(backlog)]
  /\ backlog' = Tail(backlog) /\ demo' = "create"
  /\ fresh' = [conn |-> Head(backlog), sock |-> Lowest, rec |-> r]
  /\ used' = used \cup {r} /\ number' = [number EXCEPT ![r] = Lowest]
  /\ astray' = astray \cup {c \in Conns : task[c] = "freed" /\ record[c] = r}
  /\ UNCHANGED <<handler, peer, task, record, client, orphans>>

(* mem_malloc gives no record, and what belongs into it is stored through  *)
(* NULL.  The processor faults, whose handler is an endless loop; or the   *)
(* store is lost, and the task, if there is one, reads no valid number     *)
(* there and ends without closing anything.                                *)
AcceptNoMemory ==
  /\ demo = "accept" /\ backlog # <<>>
  /\ table' = [table EXCEPT ![Lowest] = Head(backlog)]
  /\ backlog' = Tail(backlog)
  /\ \/ demo' = "halted" /\ UNCHANGED handler
     \/ demo' = "accept" /\ handler' \in {handler, TRUE}
  /\ orphans' = orphans \cup {Head(backlog)}
  /\ UNCHANGED <<peer, task, fresh, heap, client, astray>>

(* netconn_peer fails: accept frees the descriptor and returns -1.         *)
AcceptFails ==
  /\ demo = "accept" /\ backlog # <<>> /\ peer[Head(backlog)] = "gone"
  /\ backlog' = Tail(backlog)
  /\ UNCHANGED <<table, peer, task, demo, fresh, handler, heap, client, past>>

(* xTaskCreate gives a task.                                               *)
Created ==
  /\ demo = "create" /\ demo' = "accept"
  /\ task' = [task EXCEPT ![fresh.conn] = "recv"]
  /\ record' = [record EXCEPT ![fresh.conn] = fresh.rec]
  /\ handler' = TRUE
  /\ UNCHANGED <<table, peer, backlog, fresh, used, number, client, past>>

(* xTaskCreate gives none.  That is seen the first time only, and even     *)
(* then the socket stays open.                                             *)
NotCreated ==
  /\ demo = "create" /\ demo' = "accept"
  /\ used' = IF handler THEN used ELSE used \ {fresh.rec}
  /\ orphans' = orphans \cup {fresh.conn}
  /\ UNCHANGED <<table, peer, task, backlog, fresh, handler, record, number,
                 client, astray>>

Demo == (\E r \in Records : Accept(r)) \/ AcceptNoMemory \/ AcceptFails \/ Created \/ NotCreated

-------------------------------------------------------------------------------
(* lwip_client_thread_entry.                                               *)

(* recv returns 0 or less, mem_free.  An echo changes nothing here.        *)
RecvEnds(c) ==
  LET whose == table[number[record[c]]] IN
  /\ ~Spins /\ task[c] = "recv" /\ (whose \in Conns => peer[whose] = "gone")
  /\ used' = used \ {record[c]}
  /\ task' = [task EXCEPT ![c] = "freed"]
  /\ UNCHANGED <<table, peer, server, record, number, client, past>>

(* Mutant of CloseSocket: the task ends without closesocket.               *)
LeaveOpen(c) ==
  /\ ~Spins /\ task[c] = "freed"
  /\ task' = [task EXCEPT ![c] = "done"]
  /\ UNCHANGED <<table, peer, server, heap, client, past>>

(* closesocket(client->socket_num), with what the record holds now.        *)
CloseSocket(c) ==
  /\ ~Spins /\ task[c] = "freed"
  /\ Close(number[record[c]], c)
  /\ UNCHANGED <<peer, fresh, handler, heap, client, past>>

Client(c) == RecvEnds(c) \/ CloseSocket(c)

-------------------------------------------------------------------------------
(* The Modbus task.                                                        *)

(* ModbusTCP_Init closes the socket of the handle, which is 0 at first.    *)
ModbusFirst ==
  /\ ~Spins /\ modbus = "first" /\ modbus' = "socket"
  /\ Close(sockfd, 0)
  /\ UNCHANGED <<peer, fresh, handler, heap, sockfd, joined, opens, past>>

(* socket.                                                                 *)
ModbusSocket ==
  /\ ~Spins /\ modbus = "socket" /\ NetconnLeft /\ opens < MaxOpens
  /\ table' = [table EXCEPT ![Lowest] = Modbus]
  /\ sockfd' = Lowest /\ opens' = opens + 1 /\ modbus' = "connect"
  /\ UNCHANGED <<peer, task, server, heap, joined, past>>

(* Where a failed ModbusTCP_Init leads to: the task ends, or goes on and   *)
(* tries again after a second.                                             *)
Failed == IF joined THEN "up" ELSE "end"

(* socket fails: no netconn, or no memory for its mailbox.                 *)
ModbusNoSocket ==
  /\ ~Spins /\ modbus = "socket"
  /\ sockfd' = NoDesc /\ modbus' = Failed
  /\ UNCHANGED <<table, peer, task, server, heap, joined, opens, past>>

ModbusConnected ==
  /\ ~Spins /\ modbus = "connect" /\ modbus' = "up" /\ joined' = TRUE
  /\ UNCHANGED <<table, peer, task, server, heap, sockfd, opens, past>>

(* Mutant of ModbusRefused: the handle keeps the closed number.            *)
ModbusRefusedKept ==
  /\ ~Spins /\ modbus = "connect" /\ modbus' = Failed
  /\ Close(sockfd, 0)
  /\ UNCHANGED <<peer, fresh, handler, heap, sockfd, joined, opens, past>>

ModbusRefused ==
  /\ ~Spins /\ modbus = "connect" /\ modbus' = Failed
  /\ Close(sockfd, 0) /\ sockfd' = NoDesc
  /\ UNCHANGED <<peer, fresh, handler, heap, joined, opens, past>>

(* ModbusTCP_WriteRegisters fails, ModbusTCP_Reconnect calls DeInit.       *)
ModbusReconnect ==
  /\ ~Spins /\ modbus = "up" /\ modbus' = "socket"
  /\ Close(sockfd, 0) /\ sockfd' = NoDesc
  /\ UNCHANGED <<peer, fresh, handler, heap, joined, opens, past>>

ModbusTask ==
  \/ ModbusFirst \/ ModbusSocket \/ ModbusNoSocket
  \/ ModbusConnected \/ ModbusRefused \/ ModbusReconnect

-------------------------------------------------------------------------------
Next ==
  \/ Demo \/ ModbusTask
  \/ \E c \in Conns : Connect(c) \/ HangUp(c) \/ Client(c)
  \/ \E c \in Conns, v \in Descs \cup {NoDesc} : Scribble(c, v)

Spec == Init /\ [][Next]_vars

(* The scheduler: lwip_demo and the client tasks get to run.               *)
FairSpec == Spec /\ WF_vars(Demo) /\ \A c \in Conns : WF_vars(Client(c))

-------------------------------------------------------------------------------
(* Until the memory of a freed record is used again, the number that a     *)
(* client task has, and the one of the Modbus task after its first close,  *)
(* name their own connections, and no two running tasks share a record.    *)
(* (lwip_demo.c:83-84, modbus_tcp_client.c:45-79)                          *)
Alive(c) == task[c] \in {"recv", "freed"}
OwnNumbers ==
  astray = {} =>
    /\ \A c \in Conns : Alive(c) => table[number[record[c]]] = c
    /\ \A b, c \in Conns : Alive(b) /\ Alive(c) /\ b # c => record[b] # record[c]
    /\ demo = "create" => table[fresh.sock] = fresh.conn
    /\ modbus # "first" /\ sockfd # NoDesc /\ modbus # "socket" => table[sockfd] = Modbus
EchoInv == TypeOK /\ OwnNumbers

(* While that holds a connection is closed by its own task only.  The      *)
(* first step of the Modbus task is the exception: it closes the           *)
(* connection that lwip_demo listens on.                                   *)
ClosedByOwner ==
  [][astray = {} =>
       \A d \in Descs : table[d] # Free /\ table'[d] = Free =>
         CASE table[d] = Listen -> modbus = "first" /\ modbus' = "socket"
           [] table[d] = Modbus -> sockfd = d /\ sockfd' = NoDesc
           [] OTHER             -> task'[table[d]] = "done"]_vars

(* The descriptor of a client that has gone comes back, unless it got no   *)
(* record or no task, or the loop of lwip_demo starves its task.           *)
DescriptorsComeBack ==
  \A c \in Conns :
    (\E d \in Descs : table[d] = c) /\ peer[c] = "gone" ~>
      \/ \A d \in Descs : table[d] # c
      \/ c \in orphans \/ astray # {} \/ Spins

(* Violated.  "ask for the connection of a client" (lwip_demo.c:147):      *)
(* while lwip_demo waits in accept, its listening socket is open.          *)
AcceptsWhileItWaits == demo \in {"accept", "stuck"} => table[0] = Listen
===============================================================================
