--------------------------- MODULE ModbusLinkInv ---------------------------
(***************************************************************************)
(* The invariants that the proofs about ModbusLink rest on: TypeInv and    *)
(* StreamInv, which hold however TCP cuts the stream, and IInv, which holds *)
(* when reads return whole frames.  All are inductive (module              *)
(* ModbusLinkProofs).                                                      *)
(***************************************************************************)
EXTENDS ModbusLink

(* The server never takes a byte beyond those of the latest read, however  *)
(* TCP cut the stream: a task that handles a buffer has a whole header in  *)
(* it, and stores only registers whose two bytes were read.  An unused     *)
(* connection has no task.                                                 *)
ServerBounds ==
  \A c \in Conns :
    /\ conn[c] = "free" => task[c] = "none"
    /\ task[c] \in {"lock", "store", "reply"} => Accepted(buf[c])
    /\ IF task[c] = "store" THEN todo[c] \subseteq Targets(buf[c]) ELSE todo[c] = {}

(* A client that waits, or gave up waiting, made the report it has.        *)
CurIssued ==
  \A k \in Clients : pc[k] \in {"await", "failed"} => cur[k] \in issued

TypeInv == TypeOK /\ ServerBounds /\ CurIssued

(* The mutex: its holder is the one task in the loop, and what the loop    *)
(* has stored is still there.  An answer is due only to accepted bytes.    *)
MutexInv ==
  \A c \in Conns :
    /\ lock = c <=> task[c] = "store"
    /\ task[c] = "store" =>
         \A r \in Targets(buf[c]) \ todo[c] : regs[r] = WordAt(buf[c], DataOff(buf[c], r))

StreamInv == TypeInv /\ MutexInv /\ ResponsesAccepted

(* A request of some report that was made. *)
IsRequest(b) == /\ WordAt(b, 0) \in Word
                /\ \E s \in issued : b = Frame(WordAt(b, 0), s)

(* Sockets and connections: a connection is the socket of at most one      *)
(* client, and an open one is the socket of some client.                   *)
OwnerInv ==
  /\ \A k \in Clients :
       /\ pc[k] \in {"start", "reconnect", "exited"} => sock[k] = NoConn
       /\ pc[k] = "await" => sock[k] # NoConn
       /\ sock[k] # NoConn => conn[sock[k]] \in {"open", "reset"}
  /\ \A k, j \in Clients : sock[k] = sock[j] /\ sock[k] # NoConn => k = j
  /\ \A c \in Conns : conn[c] = "open" => \E k \in Clients : sock[k] = c

(* A connection holds one request or one response, never more; an unused   *)
(* or broken one holds nothing.                                            *)
ConnInv ==
  \A c \in Conns :
    /\ task[c] = "none" => conn[c] = "free"
    /\ conn[c] \in {"free", "reset"} => c2s[c] = << >> /\ s2c[c] = << >>
    /\ c2s[c] # << >> => /\ IsRequest(c2s[c])
                         /\ s2c[c] = << >>
                         /\ task[c] \in {"backlog", "read"}
    /\ task[c] \in {"lock", "store", "reply"} => IsRequest(buf[c]) /\ s2c[c] = << >>

(* Where the latest report of client k is, on connection c. *)
Sent(k, c) ==
  /\ c2s[c] = Frame(transId[k], cur[k])
  /\ s2c[c] = << >>
  /\ task[c] \in {"backlog", "read"}

Handled(k, c) ==
  /\ c2s[c] = << >>
  /\ s2c[c] = << >>
  /\ task[c] \in {"lock", "store", "reply"}
  /\ buf[c] = Frame(transId[k], cur[k])
  /\ task[c] = "reply" => cur[k] \in installed

Answered(k, c) ==
  /\ c2s[c] = << >>
  /\ s2c[c] = << Response(Frame(transId[k], cur[k])) >>
  /\ task[c] = "read"
  /\ cur[k] \in installed

PhaseInv ==
  \A k \in Clients :
    pc[k] \in {"await", "failed"} /\ Usable(sock[k])
      => Sent(k, sock[k]) \/ Handled(k, sock[k]) \/ Answered(k, sock[k])

(* The mutex and the registers: the holder's loop has stored its report's  *)
(* values except in the registers it has yet to store.                     *)
LockInv ==
  /\ \A c \in Conns : lock = c <=> task[c] = "store"
  /\ \A c \in Conns : task[c] = "store" =>
       /\ todo[c] \subseteq Report
       /\ \A r \in Report \ todo[c] : regs[r] = WordAt(buf[c], DataOff(buf[c], r))

(* The request for report s is in connection c, or its task has read it    *)
(* and has not yet published it.                                           *)
IsRequestFor(b, s) == b = Frame(WordAt(b, 0), s)

Pending(c, s) ==
  \/ c2s[c] # << >> /\ IsRequestFor(c2s[c], s)
  \/ task[c] \in {"lock", "store"} /\ IsRequestFor(buf[c], s)

(* No report is shown twice: one that has been shown is pending nowhere,   *)
(* and none is pending on two connections, also not on one that its client *)
(* has given up.                                                           *)
PendingOnce ==
  /\ installed \subseteq issued
  /\ \A c \in Conns, s \in issued :
       Pending(c, s) => /\ s \notin installed
                        /\ \A d \in Conns : Pending(d, s) => d = c

IInv ==
  /\ TypeInv
  /\ OwnerInv
  /\ ConnInv
  /\ NothingOutstanding
  /\ PhaseInv
  /\ LockInv
  /\ UniformSnapshot
  /\ AckedWasInstalled
  /\ PendingOnce
-----------------------------------------------------------------------------
(* What faults cost.  A report that is awaited is not yet acknowledged, and *)
(* no two clients await the same one.                                      *)
AwaitedOnce ==
  \A k \in Clients : pc[k] = "await" =>
    /\ cur[k] \notin acked
    /\ \A j \in Clients : pc[j] = "await" /\ cur[j] = cur[k] => j = k

(* The clients that await a response, and those that a fault has cut off   *)
(* and that lose the report they await or make next.                       *)
Awaiting == { k \in Clients : pc[k] = "await" }
CutOff   == { k \in Clients : pc[k] \in {"idle", "await"} /\ ~Usable(sock[k]) }

LossInv ==
  /\ IsFiniteSet(issued)
  /\ AwaitedOnce
  /\ Cardinality(issued \ acked) + Cardinality(CutOff)
       <= faults * Cardinality(Clients) + Cardinality(Awaiting)
=============================================================================
