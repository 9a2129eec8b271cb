----------------------------- MODULE ModbusLink -----------------------------
(***************************************************************************)
(* The reporting link: modbus_tcp_task and the Modbus TCP client on the    *)
(* STM32F429 board, the TCP connections, and the cloud server with one     *)
(* task per connection and a mutex around the shared registers.            *)
(*                                                                         *)
(* A connection carries bytes.  With Segmented = FALSE a read returns      *)
(* everything written so far; with Segmented = TRUE it returns any         *)
(* non-empty prefix, as TCP allows.                                        *)
(***************************************************************************)
EXTENDS ModbusFrame, FiniteSets

CONSTANTS
  Clients,     (* boards that report to the server                         *)
  Conns,       (* the connections they may open: bounds reconnections      *)
  NoConn,      (* sockfd = -1, and no holder of the mutex                  *)
  Samples,     (* sensor samples; each is reported once: bounds reports    *)
  IdSpace,     (* transaction ids are 0 .. IdSpace-1; 65536 in the code    *)
  MaxFaults,   (* bound on faults of the network and of the server         *)
  Segmented    (* whether TCP cuts and joins what was written              *)

ASSUME LinkAssumption ==
  /\ NoConn \notin Conns
  /\ Samples \subseteq Sample
  /\ IdSpace \in Nat /\ 0 < IdSpace /\ IdSpace <= 65536
  /\ MaxFaults \in Nat
  /\ Segmented \in BOOLEAN

VARIABLES
  pc,          (* client task: where modbus_tcp_task is                    *)
  sock,        (* client: hmodbus.sockfd                                   *)
  transId,     (* client: hmodbus.trans_id                                 *)
  cur,         (* client: regs, the sample of the latest WriteRegisters    *)
  got,         (* client: total, the response bytes received so far        *)
  conn,        (* connection: free, open, closed by the client, reset      *)
  c2s, s2c,    (* connection: bytes to the server, responses to the client *)
  task,        (* server task of a connection: where it is                 *)
  buf,         (* server task: buf[0..n], the bytes of its latest read     *)
  todo,        (* server task: registers its loop has yet to store         *)
  lock,        (* server: the connection whose task holds the mutex        *)
  regs,        (* server: the ten registers                                *)
  issued,      (* history: samples given to WriteRegisters                 *)
  acked,       (* history: samples WriteRegisters returned true for        *)
  view,        (* history: the reported registers at the latest unlock     *)
  installed,   (* history: every view there was at an unlock               *)
  faults       (* faults that have happened                                *)

clientVars == <<pc, sock, transId, cur, got, issued, acked>>
serverVars == <<task, buf, todo, lock, regs, view, installed>>
netVars    == <<conn, c2s, s2c>>
vars == <<clientVars, serverVars, netVars, faults>>

NoSample == [i \in Report |-> 0]
Visible  == [i \in Report |-> regs[i]]
Replies  == Seq(Seq(Byte))

TypeOK ==
  /\ pc \in [Clients -> {"start", "idle", "await", "failed", "reconnect", "exited"}]
  /\ sock \in [Clients -> Conns \cup {NoConn}]
  /\ transId \in [Clients -> 0 .. IdSpace - 1]
  /\ cur \in [Clients -> Samples \cup {NoSample}]
  /\ got \in [Clients -> 0 .. ReplyLen - 1]
  /\ conn \in [Conns -> {"free", "open", "closed", "reset"}]
  /\ c2s \in [Conns -> Seq(Byte)]
  /\ s2c \in [Conns -> Replies]
  /\ task \in [Conns -> {"none", "backlog", "read", "lock", "store", "reply", "ended"}]
  /\ buf \in [Conns -> Seq(Byte)]
  /\ todo \in [Conns -> SUBSET Regs]
  /\ lock \in Conns \cup {NoConn}
  /\ regs \in [Regs -> Word]
  /\ issued \subseteq Samples
  /\ acked \subseteq issued
  /\ view \in [Report -> Word]
  /\ installed \subseteq [Report -> Word]
  /\ faults \in 0 .. MaxFaults

Init ==
  /\ pc = [k \in Clients |-> "start"]
  /\ sock = [k \in Clients |-> NoConn]
  /\ transId = [k \in Clients |-> 0]
  /\ cur = [k \in Clients |-> NoSample]
  /\ got = [k \in Clients |-> 0]
  /\ conn = [c \in Conns |-> "free"]
  /\ c2s = [c \in Conns |-> << >>]
  /\ s2c = [c \in Conns |-> << >>]
  /\ task = [c \in Conns |-> "none"]
  /\ buf = [c \in Conns |-> << >>]
  /\ todo = [c \in Conns |-> {}]
  /\ lock = NoConn
  /\ regs = [r \in Regs |-> 0]
  /\ issued = {}
  /\ acked = {}
  /\ view = NoSample
  /\ installed = {}
  /\ faults = 0

Fault == faults < MaxFaults /\ faults' = faults + 1

-----------------------------------------------------------------------------
(* ModbusTCP_Init: a socket, a connection, transaction ids from 0. *)
InitOk(k) ==
  /\ pc[k] \in {"start", "reconnect"}
  /\ \E c \in Conns :
       /\ conn[c] = "free"
       /\ conn' = [conn EXCEPT ![c] = "open"]
       /\ task' = [task EXCEPT ![c] = "backlog"]
       /\ sock' = [sock EXCEPT ![k] = c]
  /\ transId' = [transId EXCEPT ![k] = 0]
  /\ pc' = [pc EXCEPT ![k] = "idle"]
  /\ UNCHANGED <<cur, got, issued, acked, c2s, s2c, buf, todo, lock, regs,
                 view, installed, faults>>

(* Mutant of InitFail: a failed reconnection ends the task as well. *)
InitFailExits(k) ==
  /\ pc[k] \in {"start", "reconnect"}
  /\ Fault
  /\ pc' = [pc EXCEPT ![k] = "exited"]
  /\ UNCHANGED <<sock, transId, cur, got, issued, acked, netVars, serverVars>>

(* No socket or no answer: at the start the task deletes itself, later the *)
(* result of ModbusTCP_Reconnect is ignored.                               *)
InitFail(k) ==
  /\ pc[k] \in {"start", "reconnect"}
  /\ Fault
  /\ pc' = [pc EXCEPT ![k] = IF @ = "start" THEN "exited" ELSE "idle"]
  /\ UNCHANGED <<sock, transId, cur, got, issued, acked, netVars, serverVars>>

(* Mutant of DeInit: no reconnection after a failure. *)
DeInitSkipped(k) ==
  /\ pc[k] = "failed"
  /\ pc' = [pc EXCEPT ![k] = IF sock[k] = NoConn THEN "reconnect" ELSE "idle"]
  /\ UNCHANGED <<sock, transId, cur, got, issued, acked, netVars, serverVars, faults>>

(* ModbusTCP_DeInit, the first half of ModbusTCP_Reconnect.  What was      *)
(* written before the close is still delivered.                            *)
DeInit(k) ==
  /\ pc[k] = "failed"
  /\ pc' = [pc EXCEPT ![k] = "reconnect"]
  /\ sock' = [sock EXCEPT ![k] = NoConn]
  /\ conn' = [c \in Conns |->
                IF c = sock[k] /\ conn[c] = "open" THEN "closed" ELSE conn[c]]
  /\ UNCHANGED <<transId, cur, got, issued, acked, c2s, s2c, serverVars, faults>>

Usable(c) == c # NoConn /\ conn[c] = "open"

NextId(id) == (id + 1) % IdSpace

(* ModbusTCP_WriteRegisters up to the send, with a fresh sample.  Send     *)
(* fails without a socket or after a reset.                                *)
WriteRegisters(k) ==
  /\ pc[k] = "idle"
  /\ \E s \in Samples \ issued :
       LET c  == sock[k]
           id == NextId(transId[k])
       IN  /\ issued' = issued \cup {s}
           /\ cur' = [cur EXCEPT ![k] = s]
           /\ transId' = [transId EXCEPT ![k] = id]
           /\ \/ /\ Usable(c)
                 /\ c2s' = [c2s EXCEPT ![c] = @ \o Frame(id, s)]
                 /\ pc' = [pc EXCEPT ![k] = "await"]
              \/ /\ ~Usable(c)
                 /\ pc' = [pc EXCEPT ![k] = "failed"]
                 /\ UNCHANGED c2s
  /\ got' = [got EXCEPT ![k] = 0]
  /\ UNCHANGED <<sock, acked, conn, s2c, serverVars, faults>>

RecvSizes(k) ==
  IF Segmented THEN 1 .. ReplyLen - got[k] ELSE {ReplyLen - got[k]}

(* A pass of the receive loop that leaves the response incomplete. *)
RecvPart(k) ==
  /\ pc[k] = "await"
  /\ s2c[sock[k]] # << >>
  /\ \E n \in RecvSizes(k) : /\ got[k] + n < ReplyLen
                             /\ got' = [got EXCEPT ![k] = @ + n]
  /\ UNCHANGED <<pc, sock, transId, cur, issued, acked, netVars, serverVars, faults>>

(* The pass that completes it, and the checks of the response.  The        *)
(* transaction id is not among them.                                       *)
RecvReply(k) ==
  /\ pc[k] = "await"
  /\ s2c[sock[k]] # << >>
  /\ ReplyLen - got[k] \in RecvSizes(k)
  /\ got' = [got EXCEPT ![k] = 0]
  /\ s2c' = [s2c EXCEPT ![sock[k]] = Tail(@)]
  /\ IF ResponseOK(Head(s2c[sock[k]]))
     THEN /\ pc' = [pc EXCEPT ![k] = "idle"]
          /\ acked' = acked \cup {cur[k]}
     ELSE /\ pc' = [pc EXCEPT ![k] = "failed"]
          /\ UNCHANGED acked
  /\ UNCHANGED <<sock, transId, cur, issued, conn, c2s, serverVars, faults>>

(* recv fails on a reset connection. *)
RecvError(k) ==
  /\ pc[k] = "await"
  /\ conn[sock[k]] = "reset"
  /\ pc' = [pc EXCEPT ![k] = "failed"]
  /\ UNCHANGED <<sock, transId, cur, got, issued, acked, netVars, serverVars, faults>>

(* No response is on its way and none will be: the server has consumed     *)
(* everything and waits for more bytes.                                    *)
Starved(c) ==
  /\ conn[c] = "open"
  /\ task[c] = "read"
  /\ c2s[c] = << >>
  /\ s2c[c] = << >>

(* Mutant of Timeout: a time-out makes the task wait again. *)
TimeoutRetries(k) ==
  /\ pc[k] = "await"
  /\ Starved(sock[k])
  /\ UNCHANGED vars

(* wait_ready gives up after 3 s: because nothing will come, or, a fault,  *)
(* because what comes is late.                                             *)
Timeout(k) ==
  /\ pc[k] = "await"
  /\ \/ Starved(sock[k]) /\ UNCHANGED faults
     \/ ~Starved(sock[k]) /\ Fault
  /\ pc' = [pc EXCEPT ![k] = "failed"]
  /\ UNCHANGED <<sock, transId, cur, got, issued, acked, netVars, serverVars>>

-----------------------------------------------------------------------------
(* The accept loop spawns the task of a connection. *)
Accept(c) ==
  /\ task[c] = "backlog"
  /\ task' = [task EXCEPT ![c] = "read"]
  /\ UNCHANGED <<clientVars, netVars, buf, todo, lock, regs, view, installed, faults>>

ReadSizes(c) ==
  { n \in 1 .. Len(c2s[c]) :
      n <= ReadBuffer /\ (Segmented \/ n = Len(c2s[c]) \/ n = ReadBuffer) }

(* Mutant of Read: a read shorter than 13 bytes is not dropped. *)
ReadShort(c) ==
  /\ task[c] = "read"
  /\ \E n \in ReadSizes(c) :
       LET b == SubSeq(c2s[c], 1, n)
       IN  /\ c2s' = [c2s EXCEPT ![c] = SubSeq(@, n + 1, Len(@))]
           /\ IF n > 7 /\ At(b, 7) = 16
              THEN /\ buf' = [buf EXCEPT ![c] = b]
                   /\ task' = [task EXCEPT ![c] = "lock"]
              ELSE UNCHANGED <<buf, task>>
  /\ UNCHANGED <<clientVars, conn, s2c, todo, lock, regs, view, installed, faults>>

(* One read; bytes that are not an acceptable request are dropped without  *)
(* an answer.                                                              *)
Read(c) ==
  /\ task[c] = "read"
  /\ \E n \in ReadSizes(c) :
       LET b == SubSeq(c2s[c], 1, n)
       IN  /\ c2s' = [c2s EXCEPT ![c] = SubSeq(@, n + 1, Len(@))]
           /\ IF Accepted(b)
              THEN /\ buf' = [buf EXCEPT ![c] = b]
                   /\ task' = [task EXCEPT ![c] = "lock"]
              ELSE UNCHANGED <<buf, task>>
  /\ UNCHANGED <<clientVars, conn, s2c, todo, lock, regs, view, installed, faults>>

(* Read returns 0 or an error: the task ends. *)
Eof(c) ==
  /\ task[c] = "read"
  /\ conn[c] \in {"closed", "reset"}
  /\ c2s[c] = << >>
  /\ task' = [task EXCEPT ![c] = "ended"]
  /\ UNCHANGED <<clientVars, netVars, buf, todo, lock, regs, view, installed, faults>>

(* Mutant of Lock: no mutual exclusion. *)
LockAnyway(c) ==
  /\ task[c] = "lock"
  /\ lock' = c
  /\ task' = [task EXCEPT ![c] = "store"]
  /\ todo' = [todo EXCEPT ![c] = Targets(buf[c])]
  /\ UNCHANGED <<clientVars, netVars, buf, regs, view, installed, faults>>

Lock(c) ==
  /\ task[c] = "lock"
  /\ lock = NoConn
  /\ lock' = c
  /\ task' = [task EXCEPT ![c] = "store"]
  /\ todo' = [todo EXCEPT ![c] = Targets(buf[c])]
  /\ UNCHANGED <<clientVars, netVars, buf, regs, view, installed, faults>>

(* One pass of the loop that stores a register, in ascending order. *)
Store(c) ==
  /\ task[c] = "store"
  /\ \E r \in todo[c] :
       /\ \A q \in todo[c] : r <= q
       /\ regs' = [regs EXCEPT ![r] = WordAt(buf[c], DataOff(buf[c], r))]
       /\ todo' = [todo EXCEPT ![c] = @ \ {r}]
  /\ UNCHANGED <<clientVars, netVars, task, buf, lock, view, installed, faults>>

Unlock(c) ==
  /\ task[c] = "store"
  /\ todo[c] = {}
  /\ lock' = NoConn
  /\ task' = [task EXCEPT ![c] = "reply"]
  /\ view' = Visible
  /\ installed' = installed \cup {Visible}
  /\ UNCHANGED <<clientVars, netVars, buf, todo, regs, faults>>

(* write_all; on a dead connection the error is ignored. *)
Reply(c) ==
  /\ task[c] = "reply"
  /\ task' = [task EXCEPT ![c] = "read"]
  /\ s2c' = [s2c EXCEPT ![c] = IF conn[c] = "open" THEN Append(@, Response(buf[c]))
                                                   ELSE @]
  /\ UNCHANGED <<clientVars, conn, c2s, buf, todo, lock, regs, view, installed, faults>>

-----------------------------------------------------------------------------
(* A connection breaks: what is under way is lost, both ends see an error. *)
Reset(c) ==
  /\ conn[c] \in {"open", "closed"}
  /\ Fault
  /\ conn' = [conn EXCEPT ![c] = "reset"]
  /\ c2s' = [c2s EXCEPT ![c] = << >>]
  /\ s2c' = [s2c EXCEPT ![c] = << >>]
  /\ UNCHANGED <<clientVars, serverVars>>

(* The server process stops and starts again: its registers are only in    *)
(* memory.                                                                 *)
Restart ==
  /\ Fault
  /\ conn' = [c \in Conns |-> IF conn[c] = "free" THEN "free" ELSE "reset"]
  /\ c2s' = [c \in Conns |-> << >>]
  /\ s2c' = [c \in Conns |-> << >>]
  /\ task' = [c \in Conns |-> IF task[c] = "none" THEN "none" ELSE "ended"]
  /\ todo' = [c \in Conns |-> {}]
  /\ lock' = NoConn
  /\ regs' = [r \in Regs |-> 0]
  /\ view' = NoSample
  /\ UNCHANGED <<clientVars, buf, installed>>

(* Every task waits for ever: the boards have exited, have no sample left  *)
(* or no connection left by the bounds, and the server's tasks have        *)
(* nothing to read.                                                        *)
Quiet ==
  /\ \A k \in Clients : \/ pc[k] = "exited"
                        \/ pc[k] = "idle" /\ Samples \subseteq issued
                        \/ pc[k] = "reconnect" /\ \A c \in Conns : conn[c] # "free"
  /\ \A c \in Conns : task[c] \in {"none", "ended"} \/ Starved(c)
  /\ UNCHANGED vars

Client(k) == \/ InitOk(k) \/ InitFail(k) \/ DeInit(k) \/ WriteRegisters(k)
             \/ RecvPart(k) \/ RecvReply(k) \/ RecvError(k) \/ Timeout(k)

Server(c) == Accept(c) \/ Read(c) \/ Eof(c) \/ Lock(c) \/ Store(c) \/ Unlock(c) \/ Reply(c)

Next == \/ \E k \in Clients : Client(k)
        \/ \E c \in Conns : Server(c) \/ Reset(c)
        \/ Restart
        \/ Quiet

Spec == Init /\ [][Next]_vars

-----------------------------------------------------------------------------
(* Fairness: FreeRTOS and tokio run every ready task, and a TCP connection *)
(* that is not broken delivers.                                            *)
ClientProgress(k) == \/ InitOk(k) \/ DeInit(k) \/ WriteRegisters(k)
                     \/ RecvPart(k) \/ RecvReply(k) \/ RecvError(k)
                     \/ (Timeout(k) /\ UNCHANGED faults)

Fairness == /\ \A k \in Clients : WF_vars(ClientProgress(k))
            /\ \A c \in Conns : WF_vars(Server(c))

FairSpec == Spec /\ Fairness
-----------------------------------------------------------------------------
(* Properties.  The safety properties hold when reads return whole frames; *)
(* when they do not, the runs on byte streams show what is left of them.   *)

(* A report the client counts as delivered (WriteRegisters returned true)  *)
(* was in the server's registers, all five values of it, when some task    *)
(* released the mutex.                                                     *)
AckedWasInstalled == acked \subseteq installed

(* Whenever no task holds the mutex the five reported registers come from  *)
(* one report, or are all zero: no mixture of two reports can be seen,     *)
(* although tasks of live and of abandoned connections store concurrently. *)
UniformSnapshot == lock = NoConn => Visible \in issued \cup {NoSample}

(* A response waiting for a client that awaits one carries the transaction *)
(* id of its request ("[0-1] transaction id, same as the request"), though *)
(* WriteRegisters does not compare them.                                   *)
ReplyIdMatches ==
  \A k \in Clients :
    pc[k] = "await" /\ s2c[sock[k]] # << >>
      => WordAt(Head(s2c[sock[k]]), 0) = transId[k]

(* Between two reports a live connection carries nothing in either         *)
(* direction and its server task only waits: one request is outstanding at *)
(* most, which is why responses need no matching.                          *)
NothingOutstanding ==
  \A k \in Clients :
    pc[k] = "idle" /\ Usable(sock[k])
      => /\ c2s[sock[k]] = << >>
         /\ s2c[sock[k]] = << >>
         /\ task[sock[k]] \in {"backlog", "read"}

(* Late reports: an unlock by the task of a connection that is still open  *)
(* installs the report its client made last.  An older report can overwrite  *)
(* a newer one only from a connection its client has given up.             *)
OpenInstallsCurrent ==
  [][\A c \in Conns :
       lock = c /\ lock' = NoConn /\ conn'[c] = "open"
         => \E k \in Clients : /\ sock[k] = c
                               /\ pc[k] \in {"await", "failed"}
                               /\ view' = cur[k]]_vars

(* However TCP cuts the stream, what the server takes for a request is     *)
(* stored as a whole: at the unlock every register that it names holds its *)
(* value, although tasks of other connections wait to store theirs.        *)
WritesAreWhole ==
  [][\A c \in Conns :
       task[c] = "store" /\ task'[c] = "reply"
         => \A r \in Targets(buf[c]) : regs[r] = WordAt(buf[c], DataOff(buf[c], r))]_vars

(* The client's check never refuses what this server sends, also not the   *)
(* answer to bytes that were a part of a request or of two: a report fails *)
(* by an error or a time-out only.                                         *)
ResponsesAccepted ==
  \A c \in Conns : \A i \in 1 .. Len(s2c[c]) : ResponseOK(s2c[c][i])

(* A fault costs each client one report at most: apart from the reports    *)
(* being sent, those never acknowledged number at most one per client and  *)
(* fault, whatever the point at which connections broke or connecting      *)
(* failed.                                                                 *)
LossBounded ==
  Cardinality(issued \ acked)
    <= faults * Cardinality(Clients) + Cardinality({k \in Clients : pc[k] = "await"})

(* Once it has connected for the first time a client comes back to         *)
(* reporting after every failure: nothing makes modbus_tcp_task wait for   *)
(* ever or give up.                                                        *)
KeepsReporting ==
  \A k \in Clients : pc[k] = "idle" ~> (pc[k] = "idle" /\ Samples \subseteq issued)

(* The link implements the register store of module RegisterStore: each    *)
(* report is installed as a whole, once, before it is acknowledged.        *)
Abstract == INSTANCE RegisterStore
StoreSpec == Abstract!Spec
=============================================================================
