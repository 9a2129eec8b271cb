-------------------------- MODULE ModbusLinkProofs --------------------------
(***************************************************************************)
(* Theorems about ModbusLink, for every set of boards, connections and     *)
(* samples and any number of faults, when reads return whole frames.       *)
(***************************************************************************)
EXTENDS ModbusLinkInv, FiniteSetTheorems, TLAPS

(* Splitting a word into bytes and joining them again gives the word. *)
LEMMA SplitJoin ==
  ASSUME NEW v \in Word
  PROVE  Hi(v) \in Byte /\ Lo(v) \in Byte /\ Hi(v) * 256 + Lo(v) = v
  BY DEF Hi, Lo, Word, Byte

LEMMA JoinWord ==
  ASSUME NEW h \in Byte, NEW l \in Byte
  PROVE  h * 256 + l \in Word
  BY DEF Word, Byte

(* The bytes of a request that the server and the client look at. *)
LEMMA FrameBytes ==
  ASSUME NEW id \in Word, NEW s \in Sample
  PROVE  LET f == Frame(id, s)
         IN  /\ f \in Seq(Byte) /\ Len(f) = FrameLen
             /\ At(f, 0) = Hi(id) /\ At(f, 1) = Lo(id)
             /\ At(f, 6) = 1 /\ At(f, 7) = 16 /\ At(f, 8) = 0 /\ At(f, 9) = 0
             /\ At(f, 10) = 0 /\ At(f, 11) = RegCount
             /\ \A r \in Report : /\ At(f, 13 + 2 * r) = Hi(s[r])
                                  /\ At(f, 14 + 2 * r) = Lo(s[r])
<1>. DEFINE f == Frame(id, s)
<1>1. Hi(id) \in Byte /\ Lo(id) \in Byte
  BY SplitJoin
<1>2. \A r \in Report : s[r] \in Word
  BY DEF Sample
<1>3. \A r \in Report : Hi(s[r]) \in Byte /\ Lo(s[r]) \in Byte
  BY <1>2, SplitJoin
<1>4. /\ 0 \in Report /\ 1 \in Report /\ 2 \in Report /\ 3 \in Report /\ 4 \in Report
      /\ 0 \in Byte /\ 1 \in Byte /\ 5 \in Byte /\ 10 \in Byte /\ 16 \in Byte
  BY DEF Report, RegCount, Byte
<1>5. f \in Seq(Byte)
  BY <1>1, <1>3, <1>4 DEF Frame, RegCount
<1>6. Len(f) = 24
  BY DEF Frame
<1>7. /\ f[1] = Hi(id) /\ f[2] = Lo(id)
      /\ f[7] = 1 /\ f[8] = 16 /\ f[9] = 0 /\ f[10] = 0 /\ f[11] = 0 /\ f[12] = RegCount
  BY DEF Frame
<1>8. /\ f[14] = Hi(s[0]) /\ f[15] = Lo(s[0]) /\ f[16] = Hi(s[1]) /\ f[17] = Lo(s[1])
      /\ f[18] = Hi(s[2]) /\ f[19] = Lo(s[2]) /\ f[20] = Hi(s[3]) /\ f[21] = Lo(s[3])
      /\ f[22] = Hi(s[4]) /\ f[23] = Lo(s[4])
  BY DEF Frame
<1>9. \A r \in Report : r = 0 \/ r = 1 \/ r = 2 \/ r = 3 \/ r = 4
  BY DEF Report, RegCount
<1>10. \A r \in Report : /\ At(f, 13 + 2 * r) = Hi(s[r])
                         /\ At(f, 14 + 2 * r) = Lo(s[r])
  <2>. SUFFICES ASSUME NEW r \in Report
                PROVE  f[13 + 2 * r + 1] = Hi(s[r]) /\ f[14 + 2 * r + 1] = Lo(s[r])
    BY DEF At
  <2>0. CASE r = 0
    BY <2>0, <1>8
  <2>1. CASE r = 1
    BY <2>1, <1>8
  <2>2. CASE r = 2
    BY <2>2, <1>8
  <2>3. CASE r = 3
    BY <2>3, <1>8
  <2>4. CASE r = 4
    BY <2>4, <1>8
  <2>. QED
    BY <2>0, <2>1, <2>2, <2>3, <2>4, <1>9
<1>. QED
  BY <1>5, <1>6, <1>7, <1>10 DEF At, FrameLen

(* What the server makes of a whole request: it accepts it, stores the     *)
(* five values, and answers with the request's transaction id.             *)
THEOREM FrameHandled ==
  ASSUME NEW id \in Word, NEW s \in Sample
  PROVE  LET f == Frame(id, s)
         IN  /\ f \in Seq(Byte) /\ Len(f) = FrameLen
             /\ Accepted(f) /\ Start(f) = 0 /\ Count(f) = RegCount
             /\ WordAt(f, 0) = id
             /\ Targets(f) = Report
             /\ \A r \in Report : WordAt(f, DataOff(f, r)) = s[r]
<1>. DEFINE f == Frame(id, s)
<1>1. f \in Seq(Byte) /\ Len(f) = 24
  BY FrameBytes DEF FrameLen
<1>2. Accepted(f)
  <2>1. At(f, 7) = 16
    BY FrameBytes
  <2>. QED
    BY <1>1, <2>1 DEF Accepted, MinFrame
<1>3. Start(f) = 0 /\ Count(f) = 5
  BY FrameBytes DEF Start, Count, WordAt, RegCount
<1>4. WordAt(f, 0) = id
  BY FrameBytes, SplitJoin DEF WordAt
<1>5. \A r \in Report : DataOff(f, r) = 13 + 2 * r
  BY <1>3 DEF DataOff, MinFrame, Report, RegCount
<1>6. \A r \in Report : WordAt(f, DataOff(f, r)) = s[r]
  <2>. SUFFICES ASSUME NEW r \in Report
                PROVE  WordAt(f, DataOff(f, r)) = s[r]
    OBVIOUS
  <2>1. s[r] \in Word
    BY DEF Sample
  <2>2. At(f, 13 + 2 * r) = Hi(s[r]) /\ At(f, 13 + 2 * r + 1) = Lo(s[r])
    <3>1. 13 + 2 * r + 1 = 14 + 2 * r
      BY DEF Report, RegCount
    <3>. QED
      BY <3>1, FrameBytes
  <2>. QED
    BY <1>5, <2>1, <2>2, SplitJoin DEF WordAt
<1>7. Targets(f) = Report
  <2>1. \A r \in Regs : DataOff(f, r) = 13 + 2 * r
    BY <1>3 DEF DataOff, MinFrame, Regs, NumRegs
  <2>. QED
    BY <1>1, <1>3, <2>1 DEF Targets, Regs, NumRegs, Report, RegCount
<1>. QED
  BY <1>1, <1>2, <1>3, <1>4, <1>6, <1>7 DEF FrameLen, RegCount

(* The response to bytes the server accepted: the client accepts it, and   *)
(* it carries the first word of the request.                               *)
THEOREM ResponseBytes ==
  ASSUME NEW b \in Seq(Byte), Accepted(b)
  PROVE  /\ Response(b) \in Seq(Byte)
         /\ ResponseOK(Response(b))
         /\ WordAt(Response(b), 0) = WordAt(b, 0)
<1>1. \A i \in 0 .. 12 : At(b, i) \in Byte
  BY DEF Accepted, MinFrame, At
<1>2. 0 \in Byte /\ 6 \in Byte /\ 16 \in Byte
  BY DEF Byte
<1>3. Response(b) \in Seq(Byte)
  BY <1>1, <1>2 DEF Response
<1>4. /\ Response(b)[1] = At(b, 0) /\ Response(b)[2] = At(b, 1)
      /\ Response(b)[3] = 0 /\ Response(b)[4] = 0 /\ Response(b)[5] = 0
      /\ Response(b)[6] = 6 /\ Response(b)[8] = 16
  BY DEF Response
<1>. QED
  BY <1>3, <1>4 DEF ResponseOK, WordAt, At

(* A word stored from the bytes of a read is a word. *)
LEMMA StoredWord ==
  ASSUME NEW b \in Seq(Byte), Accepted(b), NEW r \in Targets(b)
  PROVE  r \in Regs /\ WordAt(b, DataOff(b, r)) \in Word
<1>1. b[9] \in Byte /\ b[10] \in Byte
  BY DEF Accepted, MinFrame
<1>2. Start(b) \in Nat
  <2>1. At(b, 8) = b[9] /\ At(b, 8 + 1) = b[10]
    BY DEF At
  <2>2. Start(b) = b[9] * 256 + b[10]
    BY <2>1 DEF Start, WordAt
  <2>3. b[9] * 256 + b[10] \in Word
    BY <1>1, JoinWord
  <2>4. \A v \in Word : v \in Nat
    BY DEF Word
  <2>. QED
    BY <2>2, <2>3, <2>4
<1>3. /\ r \in Regs /\ Start(b) <= r /\ DataOff(b, r) + 1 < Len(b)
  BY DEF Targets
<1>4. DataOff(b, r) \in Nat
  <2>1. \A q \in 0 .. 9, st \in Nat : st <= q => 13 + 2 * (q - st) \in Nat
    OBVIOUS
  <2>2. r \in 0 .. 9 /\ Start(b) <= r
    BY <1>3 DEF Regs, NumRegs
  <2>. QED
    BY <1>2, <2>1, <2>2 DEF DataOff, MinFrame
<1>5. b[DataOff(b, r) + 1] \in Byte /\ b[DataOff(b, r) + 1 + 1] \in Byte
  BY <1>3, <1>4
<1>. QED
  BY <1>3, <1>5, JoinWord DEF WordAt, At

-----------------------------------------------------------------------------
(* The type invariant. *)

LEMMA Bounds ==
  IdSpace \in Nat /\ 0 < IdSpace /\ IdSpace <= 65536 /\ MaxFaults \in Nat
  BY LinkAssumption

LEMMA NextIdInRange ==
  ASSUME NEW id \in 0 .. IdSpace - 1
  PROVE  NextId(id) \in 0 .. IdSpace - 1
  BY Bounds DEF NextId

LEMMA IdsAreWords ==
  \A id \in 0 .. IdSpace - 1 : id \in Word
  BY Bounds DEF Word

LEMMA FrameType ==
  ASSUME NEW id \in 0 .. IdSpace - 1, NEW s \in Samples
  PROVE  Frame(id, s) \in Seq(Byte)
  BY FrameBytes, IdsAreWords, LinkAssumption

LEMMA TypeStep ==
  TypeInv /\ [Next]_vars => TypeInv'
<1>. SUFFICES ASSUME TypeInv, [Next]_vars PROVE TypeInv'
  OBVIOUS
<1>. USE DEF TypeInv, TypeOK, ServerBounds, CurIssued, vars, clientVars, serverVars, netVars
<1>1. ASSUME NEW k \in Clients, InitOk(k) PROVE TypeInv'
  <2>1. PICK c \in Conns : /\ conn' = [conn EXCEPT ![c] = "open"]
                           /\ task' = [task EXCEPT ![c] = "backlog"]
                           /\ sock' = [sock EXCEPT ![k] = c]
                           /\ conn[c] = "free"
    BY <1>1 DEF InitOk
  <2>2. /\ transId' = [transId EXCEPT ![k] = 0] /\ pc' = [pc EXCEPT ![k] = "idle"]
        /\ UNCHANGED <<cur, got, issued, acked, c2s, s2c, buf, todo, lock, regs,
                       view, installed, faults>>
    BY <1>1 DEF InitOk
  <2>3. 0 \in 0 .. IdSpace - 1
    BY Bounds
  <2>4. TypeOK'
    BY <2>1, <2>2, <2>3
  <2>. QED
    BY <2>1, <2>2, <2>4
<1>2. ASSUME NEW k \in Clients, InitFail(k) PROVE TypeInv'
  BY <1>2, Bounds DEF InitFail, Fault
<1>3. ASSUME NEW k \in Clients, DeInit(k) PROVE TypeInv'
  BY <1>3 DEF DeInit
<1>4. ASSUME NEW k \in Clients, WriteRegisters(k) PROVE TypeInv'
  <2>1. PICK s \in Samples \ issued :
          /\ issued' = issued \cup {s}
          /\ cur' = [cur EXCEPT ![k] = s]
          /\ transId' = [transId EXCEPT ![k] = NextId(transId[k])]
          /\ \/ /\ c2s' = [c2s EXCEPT ![sock[k]] = @ \o Frame(NextId(transId[k]), s)]
                /\ pc' = [pc EXCEPT ![k] = "await"]
             \/ /\ pc' = [pc EXCEPT ![k] = "failed"]
                /\ UNCHANGED c2s
    BY <1>4 DEF WriteRegisters
  <2>2. NextId(transId[k]) \in 0 .. IdSpace - 1
    BY NextIdInRange
  <2>3. Frame(NextId(transId[k]), s) \in Seq(Byte)
    BY <2>2, FrameType
  <2>4. c2s' \in [Conns -> Seq(Byte)]
    <3>1. \A c \in Conns : c2s[c] \o Frame(NextId(transId[k]), s) \in Seq(Byte)
      BY <2>3
    <3>2. CASE c2s' = [c2s EXCEPT ![sock[k]] = @ \o Frame(NextId(transId[k]), s)]
      BY <3>1, <3>2
    <3>3. CASE UNCHANGED c2s
      BY <3>3
    <3>. QED
      BY <2>1, <3>2, <3>3
  <2>5. UNCHANGED <<sock, acked, conn, s2c, task, buf, todo, lock, regs, view,
                    installed, faults>> /\ got' = [got EXCEPT ![k] = 0]
    BY <1>4 DEF WriteRegisters
  <2>. QED
    <3>1. 0 \in 0 .. ReplyLen - 1
      BY DEF ReplyLen
    <3>2. TypeOK'
      BY <2>1, <2>2, <2>4, <2>5, <3>1
    <3>3. ServerBounds'
      BY <2>5
    <3>4. CurIssued'
      BY <2>1, <2>5
    <3>. QED
      BY <3>2, <3>3, <3>4
<1>5. ASSUME NEW k \in Clients, RecvPart(k) PROVE TypeInv'
  <2>1. PICK n \in RecvSizes(k) : got[k] + n < ReplyLen /\ got' = [got EXCEPT ![k] = @ + n]
    BY <1>5 DEF RecvPart
  <2>2. got[k] \in 0 .. 11 /\ got \in [Clients -> 0 .. 11]
    BY DEF ReplyLen
  <2>3. n \in Nat
    <3>1. RecvSizes(k) \in {1 .. 12 - got[k], {12 - got[k]}}
      BY DEF RecvSizes, ReplyLen
    <3>. QED
      BY <2>2, <3>1
  <2>4. got[k] + n \in 0 .. 11
    <3>1. \A g \in 0 .. 11, m \in Nat : g + m < 12 => g + m \in 0 .. 11
      OBVIOUS
    <3>2. got[k] + n < 12
      BY <2>1 DEF ReplyLen
    <3>. QED
      BY <2>2, <2>3, <3>1, <3>2
  <2>5. got' \in [Clients -> 0 .. ReplyLen - 1]
    BY <2>1, <2>2, <2>4 DEF ReplyLen
  <2>. QED
    BY <1>5, <2>5 DEF RecvPart
<1>6. ASSUME NEW k \in Clients, RecvReply(k) PROVE TypeInv'
  <2>1. s2c' \in [Conns -> Replies]
    <3>1. s2c[sock[k]] # << >> /\ s2c' = [s2c EXCEPT ![sock[k]] = Tail(@)]
      BY <1>6 DEF RecvReply
    <3>2. \A q \in Replies : q # << >> => Tail(q) \in Replies
      BY DEF Replies
    <3>. QED
      BY <3>1, <3>2
  <2>2. 0 \in 0 .. ReplyLen - 1
    BY DEF ReplyLen
  <2>3. /\ got' = [got EXCEPT ![k] = 0]
        /\ \/ pc' = [pc EXCEPT ![k] = "idle"] /\ acked' = acked \cup {cur[k]}
           \/ pc' = [pc EXCEPT ![k] = "failed"] /\ UNCHANGED acked
        /\ UNCHANGED <<sock, transId, cur, issued, conn, c2s, serverVars, faults>>
    BY <1>6 DEF RecvReply
  <2>4. cur[k] \in issued
    BY <1>6 DEF RecvReply
  <2>5. TypeOK'
    BY <2>1, <2>2, <2>3, <2>4
  <2>. QED
    BY <2>3, <2>4, <2>5
<1>7. ASSUME NEW k \in Clients, RecvError(k) PROVE TypeInv'
  BY <1>7 DEF RecvError
<1>8. ASSUME NEW k \in Clients, Timeout(k) PROVE TypeInv'
  BY <1>8, Bounds DEF Timeout, Fault
<1>9. ASSUME NEW c \in Conns, Accept(c) PROVE TypeInv'
  BY <1>9 DEF Accept
<1>10. ASSUME NEW c \in Conns, Read(c) PROVE TypeInv'
  <2>1. PICK n \in 1 .. Len(c2s[c]) :
          /\ c2s' = [c2s EXCEPT ![c] = SubSeq(@, n + 1, Len(@))]
          /\ IF Accepted(SubSeq(c2s[c], 1, n))
             THEN /\ buf' = [buf EXCEPT ![c] = SubSeq(c2s[c], 1, n)]
                  /\ task' = [task EXCEPT ![c] = "lock"]
             ELSE UNCHANGED <<buf, task>>
    BY <1>10 DEF Read, ReadSizes
  <2>2. SubSeq(c2s[c], 1, n) \in Seq(Byte) /\ SubSeq(c2s[c], n + 1, Len(c2s[c])) \in Seq(Byte)
    OBVIOUS
  <2>3. task[c] = "read"
        /\ UNCHANGED <<clientVars, conn, s2c, todo, lock, regs, view, installed, faults>>
    BY <1>10 DEF Read
  <2>. QED
    BY <2>1, <2>2, <2>3
<1>11. ASSUME NEW c \in Conns, Eof(c) PROVE TypeInv'
  BY <1>11 DEF Eof
<1>12. ASSUME NEW c \in Conns, Lock(c) PROVE TypeInv'
  <2>1. Targets(buf[c]) \subseteq Regs
    BY DEF Targets
  <2>. QED
    BY <1>12, <2>1 DEF Lock
<1>13. ASSUME NEW c \in Conns, Store(c) PROVE TypeInv'
  <2>1. PICK r \in todo[c] :
          /\ regs' = [regs EXCEPT ![r] = WordAt(buf[c], DataOff(buf[c], r))]
          /\ todo' = [todo EXCEPT ![c] = @ \ {r}]
    BY <1>13 DEF Store
  <2>2. task[c] = "store" /\ Accepted(buf[c]) /\ r \in Targets(buf[c]) /\ buf[c] \in Seq(Byte)
    BY <1>13 DEF Store
  <2>3. WordAt(buf[c], DataOff(buf[c], r)) \in Word
    BY <2>2, StoredWord
  <2>. QED
    BY <1>13, <2>1, <2>2, <2>3 DEF Store
<1>14. ASSUME NEW c \in Conns, Unlock(c) PROVE TypeInv'
  <2>1. Visible \in [Report -> Word]
    BY DEF Visible, Report, RegCount, Regs, NumRegs
  <2>. QED
    BY <1>14, <2>1 DEF Unlock
<1>15. ASSUME NEW c \in Conns, Reply(c) PROVE TypeInv'
  <2>1. Response(buf[c]) \in Seq(Byte)
    BY <1>15, ResponseBytes DEF Reply
  <2>2. s2c' \in [Conns -> Replies]
    BY <1>15, <2>1 DEF Reply, Replies
  <2>. QED
    BY <1>15, <2>2 DEF Reply
<1>16. ASSUME NEW c \in Conns, Reset(c) PROVE TypeInv'
  BY <1>16, Bounds DEF Reset, Fault, Replies
<1>17. CASE Restart
  <2>1. NoSample \in [Report -> Word] /\ 0 \in Word
    BY DEF NoSample, Word
  <2>. QED
    BY <1>17, <2>1, Bounds DEF Restart, Fault, Replies
<1>18. CASE Quiet \/ UNCHANGED vars
  BY <1>18 DEF Quiet
<1>. QED
  BY <1>1, <1>2, <1>3, <1>4, <1>5, <1>6, <1>7, <1>8, <1>9, <1>10, <1>11, <1>12,
     <1>13, <1>14, <1>15, <1>16, <1>17, <1>18 DEF Next, Client, Server

(* Types are right, the server stays within the bytes it read and within   *)
(* its registers, whatever the segmentation of the stream.                 *)
THEOREM TypeCorrect ==
  Spec => []TypeInv
<1>1. Init => TypeInv
  <2>1. 0 \in Word /\ NoSample \in [Report -> Word]
    BY DEF Word, NoSample
  <2>. QED
    BY <2>1, Bounds
       DEF Init, TypeInv, TypeOK, ServerBounds, CurIssued, ReplyLen, Replies
<1>. QED
  BY <1>1, TypeStep, PTL DEF Spec

(* The holder of the mutex is the one task that stores, and what it has    *)
(* stored stays until it unlocks: no other task stores, and a request that *)
(* was cut names only registers whose bytes were read.                     *)
LEMMA MutexStep ==
  TypeInv /\ MutexInv /\ [Next]_vars => MutexInv'
<1>. SUFFICES ASSUME TypeInv, MutexInv, [Next]_vars PROVE MutexInv'
  OBVIOUS
<1>. USE DEF MutexInv
<1>0. /\ NoConn \notin Conns
      /\ lock \in Conns \cup {NoConn}
      /\ task \in [Conns -> {"none", "backlog", "read", "lock", "store", "reply", "ended"}]
      /\ todo \in [Conns -> SUBSET Regs]
      /\ buf \in [Conns -> Seq(Byte)]
      /\ regs \in [Regs -> Word]
  BY LinkAssumption DEF TypeInv, TypeOK
<1>a. ASSUME UNCHANGED <<task, buf, todo, lock, regs>> PROVE MutexInv'
  BY <1>a
<1>1. ASSUME NEW k \in Clients, InitOk(k) PROVE MutexInv'
  <2>1. PICK c \in Conns : conn[c] = "free" /\ task' = [task EXCEPT ![c] = "backlog"]
    BY <1>1 DEF InitOk
  <2>2. task[c] = "none" /\ UNCHANGED <<buf, todo, lock, regs>>
    BY <1>1, <2>1 DEF InitOk, TypeInv, ServerBounds
  <2>. QED
    BY <1>0, <2>1, <2>2
<1>2. ASSUME NEW k \in Clients,
             \/ InitFail(k) \/ DeInit(k) \/ WriteRegisters(k) \/ RecvPart(k)
             \/ RecvReply(k) \/ RecvError(k) \/ Timeout(k)
      PROVE  MutexInv'
  <2>1. UNCHANGED <<task, buf, todo, lock, regs>>
    BY <1>2 DEF InitFail, DeInit, WriteRegisters, RecvPart, RecvReply, RecvError,
                Timeout, serverVars
  <2>. QED
    BY <1>a, <2>1
<1>3. ASSUME NEW c \in Conns, Accept(c) \/ Eof(c) \/ Reply(c) PROVE MutexInv'
  <2>1. /\ UNCHANGED <<buf, todo, lock, regs>> /\ task[c] # "store"
        /\ task' = [task EXCEPT ![c] = "read"] \/ task' = [task EXCEPT ![c] = "ended"]
    BY <1>3 DEF Accept, Eof, Reply
  <2>. QED
    BY <1>0, <2>1
<1>4. ASSUME NEW c \in Conns, Read(c) PROVE MutexInv'
  <2>1. /\ task[c] = "read" /\ UNCHANGED <<todo, lock, regs>>
        /\ \/ task' = [task EXCEPT ![c] = "lock"]
              /\ \E b : buf' = [buf EXCEPT ![c] = b]
           \/ UNCHANGED <<buf, task>>
    BY <1>4 DEF Read
  <2>. QED
    BY <1>0, <2>1
<1>5. ASSUME NEW c \in Conns, Lock(c) PROVE MutexInv'
  <2>1. /\ task[c] = "lock" /\ lock = NoConn /\ lock' = c
        /\ task' = [task EXCEPT ![c] = "store"]
        /\ todo' = [todo EXCEPT ![c] = Targets(buf[c])]
        /\ UNCHANGED <<buf, regs>>
    BY <1>5 DEF Lock
  <2>. QED
    BY <1>0, <2>1
<1>6. ASSUME NEW c \in Conns, Store(c) PROVE MutexInv'
  <2>1. PICK r \in todo[c] :
          /\ regs' = [regs EXCEPT ![r] = WordAt(buf[c], DataOff(buf[c], r))]
          /\ todo' = [todo EXCEPT ![c] = @ \ {r}]
    BY <1>6 DEF Store
  <2>2. task[c] = "store" /\ UNCHANGED <<task, buf, lock>>
    BY <1>6 DEF Store
  <2>3. \A d \in Conns : task[d] = "store" => d = c
    BY <1>0, <2>2
  <2>4. \A q \in Targets(buf[c]) \ todo'[c] : regs'[q] = WordAt(buf[c], DataOff(buf[c], q))
    <3>1. Targets(buf[c]) \subseteq Regs /\ todo'[c] = todo[c] \ {r}
      BY <1>0, <2>1 DEF Targets
    <3>2. ASSUME NEW q \in Targets(buf[c]) \ todo'[c]
          PROVE  regs'[q] = WordAt(buf[c], DataOff(buf[c], q))
      <4>1. CASE q = r
        BY <1>0, <2>1, <3>1, <4>1
      <4>2. CASE q # r
        <5>1. q \in Targets(buf[c]) \ todo[c] /\ regs'[q] = regs[q]
          BY <1>0, <2>1, <3>1, <3>2, <4>2
        <5>. QED
          BY <2>2, <5>1
      <4>. QED
        BY <4>1, <4>2
    <3>. QED
      BY <3>2
  <2>. QED
    BY <1>0, <2>2, <2>3, <2>4
<1>7. ASSUME NEW c \in Conns, Unlock(c) PROVE MutexInv'
  <2>1. /\ task[c] = "store" /\ lock' = NoConn
        /\ task' = [task EXCEPT ![c] = "reply"]
        /\ UNCHANGED <<buf, todo, regs>>
    BY <1>7 DEF Unlock
  <2>. QED
    BY <1>0, <2>1
<1>8. ASSUME NEW c \in Conns, Reset(c) PROVE MutexInv'
  BY <1>a, <1>8 DEF Reset, serverVars
<1>9. CASE Restart
  BY <1>0, <1>9 DEF Restart
<1>10. CASE Quiet \/ UNCHANGED vars
  BY <1>a, <1>10 DEF Quiet, vars, serverVars
<1>. QED
  BY <1>1, <1>2, <1>3, <1>4, <1>5, <1>6, <1>7, <1>8, <1>9, <1>10 DEF Next, Client, Server

(* The server answers accepted bytes only, with bytes the client accepts.  *)
LEMMA AcceptedStep ==
  TypeInv /\ ResponsesAccepted /\ [Next]_vars => ResponsesAccepted'
<1>. SUFFICES ASSUME TypeInv, ResponsesAccepted, [Next]_vars PROVE ResponsesAccepted'
  OBVIOUS
<1>. USE DEF ResponsesAccepted
<1>0. s2c \in [Conns -> Seq(Seq(Byte))]
  BY DEF TypeInv, TypeOK, Replies
<1>a. ASSUME UNCHANGED s2c PROVE ResponsesAccepted'
  BY <1>a
<1>1. ASSUME NEW k \in Clients, RecvReply(k) PROVE ResponsesAccepted'
  <2>1. s2c' = [s2c EXCEPT ![sock[k]] = Tail(@)] /\ s2c[sock[k]] # << >>
    BY <1>1 DEF RecvReply
  <2>2. ASSUME NEW c \in Conns, NEW i \in 1 .. Len(s2c'[c]) PROVE ResponseOK(s2c'[c][i])
    <3>1. CASE c = sock[k]
      <4>1. /\ s2c[c] \in Seq(Seq(Byte)) /\ s2c[c] # << >> /\ s2c'[c] = Tail(s2c[c])
        BY <1>0, <2>1, <3>1
      <4>2. i + 1 \in 1 .. Len(s2c[c]) /\ Tail(s2c[c])[i] = s2c[c][i + 1]
        BY <2>2, <4>1
      <4>. QED
        BY <4>1, <4>2
    <3>2. CASE c # sock[k]
      <4>1. s2c'[c] = s2c[c]
        BY <1>0, <2>1, <3>2
      <4>. QED
        BY <2>2, <4>1
    <3>. QED
      BY <3>1, <3>2
  <2>. QED
    BY <2>2
<1>2. ASSUME NEW c \in Conns, Reply(c) PROVE ResponsesAccepted'
  <2>1. ResponseOK(Response(buf[c])) /\ Response(buf[c]) \in Seq(Byte)
    <3>1. buf[c] \in Seq(Byte) /\ Accepted(buf[c])
      BY <1>2 DEF Reply, TypeInv, TypeOK, ServerBounds
    <3>. QED
      BY <3>1, ResponseBytes
  <2>2. \/ s2c' = [s2c EXCEPT ![c] = Append(s2c[c], Response(buf[c]))]
        \/ s2c' = [s2c EXCEPT ![c] = s2c[c]]
    BY <1>2 DEF Reply
  <2>3. ASSUME NEW d \in Conns, NEW i \in 1 .. Len(s2c'[d]) PROVE ResponseOK(s2c'[d][i])
    <3>1. CASE s2c'[d] = s2c[d]
      BY <2>3, <3>1
    <3>2. CASE s2c'[d] # s2c[d]
      <4>1. d = c /\ s2c'[c] = Append(s2c[c], Response(buf[c])) /\ s2c[c] \in Seq(Seq(Byte))
        BY <1>0, <2>2, <3>2
      <4>2. /\ i \in 1 .. Len(s2c[c]) \/ i = Len(s2c[c]) + 1
            /\ \A j \in 1 .. Len(s2c[c]) : s2c'[c][j] = s2c[c][j]
            /\ s2c'[c][Len(s2c[c]) + 1] = Response(buf[c])
        BY <2>1, <2>3, <4>1
      <4>. QED
        BY <2>1, <4>1, <4>2
    <3>. QED
      BY <3>1, <3>2
  <2>. QED
    BY <2>3
<1>3. ASSUME NEW k \in Clients,
             \/ InitOk(k) \/ InitFail(k) \/ DeInit(k) \/ WriteRegisters(k)
             \/ RecvPart(k) \/ RecvError(k) \/ Timeout(k)
      PROVE  ResponsesAccepted'
  BY <1>a, <1>3 DEF InitOk, InitFail, DeInit, WriteRegisters, RecvPart, RecvError,
                    Timeout, netVars
<1>4. ASSUME NEW c \in Conns,
             Accept(c) \/ Read(c) \/ Eof(c) \/ Lock(c) \/ Store(c) \/ Unlock(c)
      PROVE  ResponsesAccepted'
  BY <1>a, <1>4 DEF Accept, Read, Eof, Lock, Store, Unlock, netVars
<1>5. ASSUME NEW c \in Conns, Reset(c) PROVE ResponsesAccepted'
  <2>1. \A d \in Conns : s2c'[d] = s2c[d] \/ s2c'[d] = << >>
    BY <1>0, <1>5 DEF Reset
  <2>. QED
    BY <2>1
<1>6. CASE Restart
  <2>1. \A d \in Conns : s2c'[d] = << >>
    BY <1>6 DEF Restart
  <2>. QED
    BY <2>1
<1>7. CASE Quiet \/ UNCHANGED vars
  BY <1>a, <1>7 DEF Quiet, vars, netVars
<1>. QED
  BY <1>1, <1>2, <1>3, <1>4, <1>5, <1>6, <1>7 DEF Next, Client, Server

(* However TCP cuts the stream: the mutex excludes, what was stored under  *)
(* it stays until the unlock, and every answer is one the client accepts.  *)
THEOREM StreamInvariant ==
  Spec => []StreamInv
<1>1. Init => MutexInv /\ ResponsesAccepted
  BY LinkAssumption DEF Init, MutexInv, ResponsesAccepted
<1>2. TypeInv /\ MutexInv /\ ResponsesAccepted /\ [Next]_vars
        => MutexInv' /\ ResponsesAccepted'
  BY MutexStep, AcceptedStep
<1>3. TypeInv /\ MutexInv /\ ResponsesAccepted => StreamInv
  BY DEF StreamInv
<1>. QED
  BY <1>1, <1>2, <1>3, TypeCorrect, PTL DEF Spec

(* What the server takes for a request is stored as a whole, however TCP   *)
(* cut it and whichever other tasks wait.                                  *)
THEOREM StoredWhole ==
  Spec => WritesAreWhole
<1>1. ASSUME TypeInv, MutexInv, [Next]_vars, NEW c \in Conns,
             task[c] = "store", task'[c] = "reply"
      PROVE  \A r \in Targets(buf[c]) : regs[r] = WordAt(buf[c], DataOff(buf[c], r))
  <2>0. task \in [Conns -> {"none", "backlog", "read", "lock", "store", "reply", "ended"}]
    BY <1>1 DEF TypeInv, TypeOK
  <2>1. Unlock(c)
    <3>1. ~Restart
      BY <1>1 DEF Restart
    <3>2. ~(Quiet \/ UNCHANGED vars)
      BY <1>1 DEF Quiet, vars, serverVars
    <3>3. \A k \in Clients : ~Client(k)
      <4>. SUFFICES ASSUME NEW k \in Clients, Client(k) PROVE FALSE
        OBVIOUS
      <4>1. CASE InitOk(k)
        <5>1. PICK d \in Conns : task' = [task EXCEPT ![d] = "backlog"]
          BY <4>1 DEF InitOk
        <5>. QED
          BY <1>1, <2>0, <5>1
      <4>2. CASE ~InitOk(k)
        <5>1. task' = task
          BY <4>2 DEF Client, InitFail, DeInit, WriteRegisters, RecvPart, RecvReply,
                      RecvError, Timeout, serverVars
        <5>. QED
          BY <1>1, <5>1
      <4>. QED
        BY <4>1, <4>2
    <3>4. \A d \in Conns : ~Reset(d)
      BY <1>1 DEF Reset, serverVars
    <3>5. PICK d \in Conns : Server(d)
      BY <1>1, <3>1, <3>2, <3>3, <3>4 DEF Next
    <3>6. Unlock(d) /\ d = c
      BY <1>1, <2>0, <3>5 DEF Server, Accept, Read, Eof, Lock, Store, Unlock, Reply
    <3>. QED
      BY <3>6
  <2>2. todo[c] = {}
    BY <2>1 DEF Unlock
  <2>. QED
    BY <1>1, <2>2 DEF MutexInv
<1>2. StreamInv /\ [Next]_vars
        => [\A c \in Conns :
              task[c] = "store" /\ task'[c] = "reply"
                => \A r \in Targets(buf[c]) : regs[r] = WordAt(buf[c], DataOff(buf[c], r))]_vars
  BY <1>1 DEF StreamInv
<1>. QED
  BY <1>2, StreamInvariant, PTL DEF Spec, WritesAreWhole

(* The client's check refuses no answer of this server.                    *)
THEOREM AnswersAccepted ==
  Spec => []ResponsesAccepted
<1>1. StreamInv => ResponsesAccepted
  BY DEF StreamInv
<1>. QED
  BY <1>1, StreamInvariant, PTL

-----------------------------------------------------------------------------
(* Whole frames: what the actions do in a state that satisfies IInv.       *)

LEMMA RequestHandled ==
  ASSUME TypeInv, NEW id \in Word, NEW s \in issued
  PROVE  LET f == Frame(id, s)
         IN  /\ f \in Seq(Byte) /\ Len(f) = 24 /\ Accepted(f)
             /\ WordAt(f, 0) = id
             /\ Targets(f) = Report
             /\ \A r \in Report : WordAt(f, DataOff(f, r)) = s[r]
             /\ WordAt(Response(f), 0) = id
             /\ ResponseOK(Response(f))
             /\ IsRequest(f)
<1>1. s \in Sample
  BY LinkAssumption DEF TypeInv, TypeOK
<1>2. PICK f : f = Frame(id, s)
  OBVIOUS
<1>3. /\ f \in Seq(Byte) /\ Len(f) = 24 /\ Accepted(f) /\ WordAt(f, 0) = id
      /\ Targets(f) = Report /\ \A r \in Report : WordAt(f, DataOff(f, r)) = s[r]
  BY <1>1, <1>2, FrameHandled DEF FrameLen
<1>4. WordAt(Response(f), 0) = id /\ ResponseOK(Response(f))
  BY <1>3, ResponseBytes
<1>5. IsRequest(f)
  BY <1>2, <1>3 DEF IsRequest
<1>. QED
  BY <1>2, <1>3, <1>4, <1>5

(* The socket of a client that has a usable one. *)
LEMMA UsableSocket ==
  ASSUME TypeInv, NEW k \in Clients, Usable(sock[k])
  PROVE  sock[k] \in Conns /\ conn[sock[k]] = "open"
  BY DEF TypeInv, TypeOK, Usable

LEMMA WriteEffect ==
  ASSUME IInv, NEW k \in Clients, WriteRegisters(k)
  PROVE  \E s \in Samples \ issued :
           LET c == sock[k]
               id == NextId(transId[k])
           IN  /\ id \in Word
               /\ issued' = issued \cup {s}
               /\ cur' = [cur EXCEPT ![k] = s]
               /\ transId' = [transId EXCEPT ![k] = id]
               /\ \/ /\ c \in Conns /\ conn[c] = "open"
                     /\ c2s[c] = << >> /\ s2c[c] = << >> /\ task[c] \in {"backlog", "read"}
                     /\ c2s' = [c2s EXCEPT ![c] = Frame(id, s)]
                     /\ pc' = [pc EXCEPT ![k] = "await"]
                  \/ /\ ~Usable(c)
                     /\ pc' = [pc EXCEPT ![k] = "failed"]
                     /\ UNCHANGED c2s
<1>1. PICK s \in Samples \ issued :
        /\ issued' = issued \cup {s}
        /\ cur' = [cur EXCEPT ![k] = s]
        /\ transId' = [transId EXCEPT ![k] = NextId(transId[k])]
        /\ \/ /\ Usable(sock[k])
              /\ c2s' = [c2s EXCEPT ![sock[k]] = @ \o Frame(NextId(transId[k]), s)]
              /\ pc' = [pc EXCEPT ![k] = "await"]
           \/ /\ ~Usable(sock[k])
              /\ pc' = [pc EXCEPT ![k] = "failed"]
              /\ UNCHANGED c2s
  BY DEF WriteRegisters
<1>2. NextId(transId[k]) \in 0 .. IdSpace - 1 /\ NextId(transId[k]) \in Word
  BY NextIdInRange, IdsAreWords DEF IInv, TypeInv, TypeOK
<1>3. pc[k] = "idle"
  BY DEF WriteRegisters
<1>4. CASE Usable(sock[k])
  <2>1. sock[k] \in Conns /\ conn[sock[k]] = "open"
    BY <1>4, UsableSocket DEF IInv
  <2>2. c2s[sock[k]] = << >> /\ s2c[sock[k]] = << >> /\ task[sock[k]] \in {"backlog", "read"}
    BY <1>3, <1>4 DEF IInv, NothingOutstanding
  <2>3. Frame(NextId(transId[k]), s) \in Seq(Byte)
    BY <1>2, FrameType
  <2>4. << >> \o Frame(NextId(transId[k]), s) = Frame(NextId(transId[k]), s)
    BY <2>3
  <2>. QED
    BY <1>1, <1>2, <1>4, <2>1, <2>2, <2>4
<1>. QED
  BY <1>1, <1>2, <1>4

LEMMA ReadEffect ==
  ASSUME IInv, ~Segmented, NEW c \in Conns, Read(c)
  PROVE  /\ task[c] = "read" /\ c2s[c] # << >> /\ IsRequest(c2s[c]) /\ s2c[c] = << >>
         /\ c2s' = [c2s EXCEPT ![c] = << >>]
         /\ buf' = [buf EXCEPT ![c] = c2s[c]]
         /\ task' = [task EXCEPT ![c] = "lock"]
<1>1. task[c] = "read"
  BY DEF Read
<1>2. PICK n \in ReadSizes(c) :
        LET b == SubSeq(c2s[c], 1, n)
        IN  /\ c2s' = [c2s EXCEPT ![c] = SubSeq(@, n + 1, Len(@))]
            /\ IF Accepted(b)
               THEN buf' = [buf EXCEPT ![c] = b] /\ task' = [task EXCEPT ![c] = "lock"]
               ELSE UNCHANGED <<buf, task>>
  BY DEF Read
<1>3. c2s[c] \in Seq(Byte)
  BY DEF IInv, TypeInv, TypeOK
<1>4. n \in 1 .. Len(c2s[c]) /\ (n = Len(c2s[c]) \/ n = 256)
  BY <1>2 DEF ReadSizes, ReadBuffer
<1>5. c2s[c] # << >>
  BY <1>3, <1>4
<1>6. IsRequest(c2s[c]) /\ s2c[c] = << >>
  BY <1>5 DEF IInv, ConnInv
<1>7. Len(c2s[c]) = 24 /\ Accepted(c2s[c])
  <2>1. PICK s \in issued : WordAt(c2s[c], 0) \in Word /\ c2s[c] = Frame(WordAt(c2s[c], 0), s)
    BY <1>6 DEF IsRequest
  <2>. QED
    BY <2>1, RequestHandled DEF IInv
<1>8. n = Len(c2s[c])
  BY <1>4, <1>7
<1>9. SubSeq(c2s[c], 1, n) = c2s[c] /\ SubSeq(c2s[c], n + 1, Len(c2s[c])) = << >>
  BY <1>3, <1>8
<1>. QED
  BY <1>1, <1>2, <1>5, <1>6, <1>7, <1>9

LEMMA RecvEffect ==
  ASSUME IInv, NEW k \in Clients, RecvReply(k)
  PROVE  /\ sock[k] \in Conns /\ Answered(k, sock[k])
         /\ s2c' = [s2c EXCEPT ![sock[k]] = << >>]
         /\ pc' = [pc EXCEPT ![k] = "idle"]
         /\ acked' = acked \cup {cur[k]}
         /\ cur[k] \in issued /\ cur[k] \in installed
<1>1. pc[k] = "await" /\ s2c[sock[k]] # << >>
  BY DEF RecvReply
<1>2. sock[k] \in Conns /\ conn[sock[k]] \in {"open", "reset"}
  BY <1>1 DEF IInv, TypeInv, TypeOK, OwnerInv
<1>3. Usable(sock[k])
  BY <1>1, <1>2, LinkAssumption DEF IInv, ConnInv, Usable
<1>4. Answered(k, sock[k])
  BY <1>1, <1>3 DEF IInv, PhaseInv, Sent, Handled
<1>5. cur[k] \in issued /\ cur[k] \in installed
  BY <1>1, <1>4 DEF IInv, TypeInv, CurIssued, Answered
<1>6. transId[k] \in Word
  BY IdsAreWords DEF IInv, TypeInv, TypeOK
<1>7. ResponseOK(Head(s2c[sock[k]])) /\ Tail(s2c[sock[k]]) = << >>
  BY <1>4, <1>5, <1>6, RequestHandled DEF Answered, IInv
<1>. QED
  BY <1>2, <1>4, <1>5, <1>7 DEF RecvReply

-----------------------------------------------------------------------------
(* One lemma per conjunct of IInv: every step preserves it. *)

LEMMA OwnerStep ==
  IInv /\ [Next]_vars => OwnerInv'
<1>. SUFFICES ASSUME IInv, [Next]_vars PROVE OwnerInv'
  OBVIOUS
<1>. USE DEF OwnerInv
<1>0. /\ OwnerInv /\ NoConn \notin Conns
      /\ pc \in [Clients -> {"start", "idle", "await", "failed", "reconnect", "exited"}]
      /\ sock \in [Clients -> Conns \cup {NoConn}]
      /\ conn \in [Conns -> {"free", "open", "closed", "reset"}]
  BY LinkAssumption DEF IInv, TypeInv, TypeOK
<1>1. ASSUME NEW k \in Clients, InitOk(k) PROVE OwnerInv'
  <2>1. PICK c \in Conns : /\ conn[c] = "free"
                           /\ conn' = [conn EXCEPT ![c] = "open"]
                           /\ sock' = [sock EXCEPT ![k] = c]
    BY <1>1 DEF InitOk
  <2>2. pc' = [pc EXCEPT ![k] = "idle"]
    BY <1>1 DEF InitOk
  <2>3. \A j \in Clients : sock[j] # c
    BY <1>0, <2>1
  <2>4. sock[k] = NoConn
    BY <1>0, <1>1 DEF InitOk
  <2>. QED
    BY <1>0, <2>1, <2>2, <2>3, <2>4
<1>2. ASSUME NEW k \in Clients, InitFail(k) PROVE OwnerInv'
  BY <1>0, <1>2 DEF InitFail, netVars
<1>3. ASSUME NEW k \in Clients, DeInit(k) PROVE OwnerInv'
  BY <1>0, <1>3 DEF DeInit
<1>4. ASSUME NEW k \in Clients, WriteRegisters(k) PROVE OwnerInv'
  <2>1. UNCHANGED <<sock, conn>>
    BY <1>4 DEF WriteRegisters
  <2>2. \/ pc' = [pc EXCEPT ![k] = "await"] /\ sock[k] \in Conns
        \/ pc' = [pc EXCEPT ![k] = "failed"]
    BY <1>4, WriteEffect
  <2>. QED
    BY <1>0, <2>1, <2>2
<1>5. ASSUME NEW k \in Clients, RecvPart(k) \/ RecvError(k) \/ Timeout(k) PROVE OwnerInv'
  <2>1. /\ UNCHANGED <<sock, conn>>
        /\ pc' = pc \/ pc' = [pc EXCEPT ![k] = "failed"]
    BY <1>5 DEF RecvPart, RecvError, Timeout, netVars
  <2>. QED
    BY <1>0, <2>1
<1>6. ASSUME NEW k \in Clients, RecvReply(k) PROVE OwnerInv'
  <2>1. UNCHANGED <<sock, conn>> /\ pc' = [pc EXCEPT ![k] = "idle"]
    BY <1>6, RecvEffect DEF RecvReply
  <2>. QED
    BY <1>0, <2>1
<1>7. ASSUME NEW c \in Conns, Server(c) PROVE OwnerInv'
  <2>1. UNCHANGED <<pc, sock, conn>>
    BY <1>7 DEF Server, Accept, Read, Eof, Lock, Store, Unlock, Reply, clientVars, netVars
  <2>. QED
    BY <1>0, <2>1
<1>8. ASSUME NEW c \in Conns, Reset(c) PROVE OwnerInv'
  BY <1>0, <1>8 DEF Reset, clientVars
<1>9. CASE Restart
  BY <1>0, <1>9 DEF Restart, clientVars
<1>10. CASE Quiet \/ UNCHANGED vars
  BY <1>0, <1>10 DEF Quiet, vars, clientVars, netVars
<1>. QED
  BY <1>1, <1>2, <1>3, <1>4, <1>5, <1>6, <1>7, <1>8, <1>9, <1>10 DEF Next, Client

LEMMA ConnStep ==
  IInv /\ ~Segmented /\ [Next]_vars => ConnInv'
<1>. SUFFICES ASSUME IInv, ~Segmented, [Next]_vars PROVE ConnInv'
  OBVIOUS
<1>. USE DEF ConnInv
<1>0. /\ ConnInv /\ NoConn \notin Conns
      /\ conn \in [Conns -> {"free", "open", "closed", "reset"}]
      /\ c2s \in [Conns -> Seq(Byte)]
      /\ s2c \in [Conns -> Replies]
      /\ task \in [Conns -> {"none", "backlog", "read", "lock", "store", "reply", "ended"}]
      /\ buf \in [Conns -> Seq(Byte)]
      /\ \A c \in Conns : conn[c] = "free" => task[c] = "none"
  BY LinkAssumption DEF IInv, TypeInv, TypeOK, ServerBounds
(* Requests remain requests when more reports are made. *)
<1>a. ASSUME issued \subseteq issued', NEW b, IsRequest(b) PROVE IsRequest(b)'
  BY <1>a DEF IsRequest
<1>b. ASSUME UNCHANGED <<conn, c2s, s2c, task, buf, issued>> PROVE ConnInv'
  BY <1>0, <1>b DEF IsRequest
<1>1. ASSUME NEW k \in Clients, InitOk(k) PROVE ConnInv'
  <2>1. PICK c \in Conns : /\ conn[c] = "free"
                           /\ conn' = [conn EXCEPT ![c] = "open"]
                           /\ task' = [task EXCEPT ![c] = "backlog"]
    BY <1>1 DEF InitOk
  <2>2. UNCHANGED <<c2s, s2c, buf, issued>>
    BY <1>1 DEF InitOk
  <2>. QED
    BY <1>0, <2>1, <2>2 DEF IsRequest
<1>3. ASSUME NEW k \in Clients, DeInit(k) PROVE ConnInv'
  <2>1. UNCHANGED <<c2s, s2c, task, buf, issued>>
    BY <1>3 DEF DeInit, serverVars
  <2>2. \A c \in Conns : conn'[c] = conn[c] \/ (conn[c] = "open" /\ conn'[c] = "closed")
    BY <1>3 DEF DeInit
  <2>. QED
    BY <1>0, <2>1, <2>2 DEF IsRequest
<1>4. ASSUME NEW k \in Clients, WriteRegisters(k) PROVE ConnInv'
  <2>0. UNCHANGED <<conn, s2c, task, buf>>
    BY <1>4 DEF WriteRegisters, serverVars
  <2>1. PICK s \in Samples \ issued :
           LET c == sock[k]
               id == NextId(transId[k])
           IN  /\ id \in Word
               /\ issued' = issued \cup {s}
               /\ \/ /\ c \in Conns /\ conn[c] = "open"
                     /\ c2s[c] = << >> /\ s2c[c] = << >> /\ task[c] \in {"backlog", "read"}
                     /\ c2s' = [c2s EXCEPT ![c] = Frame(id, s)]
                  \/ UNCHANGED c2s
    BY <1>4, WriteEffect
  <2>2. CASE UNCHANGED c2s
    BY <1>0, <1>a, <2>0, <2>1, <2>2
  <2>3. CASE /\ sock[k] \in Conns /\ conn[sock[k]] = "open"
             /\ s2c[sock[k]] = << >> /\ task[sock[k]] \in {"backlog", "read"}
             /\ c2s' = [c2s EXCEPT ![sock[k]] = Frame(NextId(transId[k]), s)]
    <3>1. TypeInv' /\ s \in issued'
      BY <2>1, TypeStep DEF IInv
    <3>2. s \in Sample
      BY LinkAssumption
    <3>3. WordAt(Frame(NextId(transId[k]), s), 0) = NextId(transId[k])
      BY <2>1, <3>2, FrameHandled
    <3>4. PICK f : f = Frame(NextId(transId[k]), s)
      OBVIOUS
    <3>5. IsRequest(f)'
      BY <2>1, <3>1, <3>3, <3>4 DEF IsRequest
    <3>6. c2s' = [c2s EXCEPT ![sock[k]] = f]
      BY <2>3, <3>4
    <3>. QED
      BY <1>0, <1>a, <2>0, <2>1, <2>3, <3>5, <3>6
  <2>. QED
    BY <2>1, <2>2, <2>3
<1>5. ASSUME NEW k \in Clients,
             InitFail(k) \/ RecvPart(k) \/ RecvError(k) \/ Timeout(k)
      PROVE  ConnInv'
  <2>1. UNCHANGED <<conn, c2s, s2c, task, buf, issued>>
    BY <1>5 DEF InitFail, RecvPart, RecvError, Timeout, netVars, serverVars
  <2>. QED
    BY <1>b, <2>1
<1>6. ASSUME NEW k \in Clients, RecvReply(k) PROVE ConnInv'
  <2>1. UNCHANGED <<conn, c2s, task, buf, issued>> /\ s2c' = [s2c EXCEPT ![sock[k]] = << >>]
    BY <1>6, RecvEffect DEF RecvReply, serverVars
  <2>. QED
    BY <1>0, <2>1 DEF IsRequest
<1>7. ASSUME NEW c \in Conns, Read(c) PROVE ConnInv'
  <2>1. /\ task[c] = "read" /\ IsRequest(c2s[c]) /\ s2c[c] = << >>
        /\ c2s' = [c2s EXCEPT ![c] = << >>]
        /\ buf' = [buf EXCEPT ![c] = c2s[c]]
        /\ task' = [task EXCEPT ![c] = "lock"]
    BY <1>7, ReadEffect
  <2>2. UNCHANGED <<conn, s2c, issued>>
    BY <1>7 DEF Read, clientVars
  <2>. QED
    BY <1>0, <1>a, <2>1, <2>2
<1>8. ASSUME NEW c \in Conns, Accept(c) \/ Eof(c) \/ Lock(c) \/ Unlock(c) PROVE ConnInv'
  <2>1. /\ UNCHANGED <<conn, c2s, s2c, buf, issued>>
        /\ \/ task[c] = "backlog" /\ task' = [task EXCEPT ![c] = "read"]
           \/ task[c] = "read" /\ c2s[c] = << >> /\ task' = [task EXCEPT ![c] = "ended"]
           \/ task[c] = "lock" /\ task' = [task EXCEPT ![c] = "store"]
           \/ task[c] = "store" /\ task' = [task EXCEPT ![c] = "reply"]
    BY <1>8 DEF Accept, Eof, Lock, Unlock, clientVars, netVars
  <2>. QED
    BY <1>0, <1>a, <2>1
<1>9. ASSUME NEW c \in Conns, Store(c) PROVE ConnInv'
  <2>1. UNCHANGED <<conn, c2s, s2c, task, buf, issued>>
    BY <1>9 DEF Store, clientVars, netVars
  <2>. QED
    BY <1>b, <2>1
<1>10. ASSUME NEW c \in Conns, Reply(c) PROVE ConnInv'
  <2>1. /\ task[c] = "reply"
        /\ task' = [task EXCEPT ![c] = "read"]
        /\ \A d \in Conns : s2c'[d] = s2c[d] \/ (d = c /\ conn[d] = "open")
        /\ UNCHANGED <<conn, c2s, buf, issued>>
    BY <1>0, <1>10 DEF Reply, clientVars
  <2>. QED
    BY <1>0, <1>a, <2>1
<1>11. ASSUME NEW c \in Conns, Reset(c) PROVE ConnInv'
  <2>1. /\ conn[c] \in {"open", "closed"}
        /\ conn' = [conn EXCEPT ![c] = "reset"]
        /\ c2s' = [c2s EXCEPT ![c] = << >>]
        /\ s2c' = [s2c EXCEPT ![c] = << >>]
        /\ UNCHANGED <<task, buf, issued>>
    BY <1>11 DEF Reset, clientVars, serverVars
  <2>. QED
    BY <1>0, <1>a, <2>1
<1>12. CASE Restart
  BY <1>0, <1>12 DEF Restart, clientVars
<1>13. CASE Quiet \/ UNCHANGED vars
  BY <1>b, <1>13 DEF Quiet, vars, clientVars, netVars, serverVars
<1>. QED
  BY <1>1, <1>3, <1>4, <1>5, <1>6, <1>7, <1>8, <1>9, <1>10, <1>11, <1>12, <1>13
     DEF Next, Client, Server

(* Where the latest report of each client is.  Phase(k) puts the claims of *)
(* NothingOutstanding and PhaseInv about one client together.              *)
Phase(k) ==
  LET c == sock[k]
  IN  Usable(c) =>
        /\ pc[k] = "idle" => /\ c2s[c] = << >>
                             /\ s2c[c] = << >>
                             /\ task[c] \in {"backlog", "read"}
        /\ pc[k] \in {"await", "failed"} => Sent(k, c) \/ Handled(k, c) \/ Answered(k, c)

LEMMA PhaseStep ==
  IInv /\ ~Segmented /\ [Next]_vars => NothingOutstanding' /\ PhaseInv'
<1>. SUFFICES ASSUME IInv, ~Segmented, [Next]_vars PROVE \A k \in Clients : Phase(k)'
  BY DEF Phase, NothingOutstanding, PhaseInv
<1>. USE DEF Phase, Usable, Sent, Handled, Answered
<1>0. /\ \A k \in Clients : Phase(k)
      /\ NoConn \notin Conns
      /\ pc \in [Clients -> {"start", "idle", "await", "failed", "reconnect", "exited"}]
      /\ sock \in [Clients -> Conns \cup {NoConn}]
      /\ transId \in [Clients -> Word]
      /\ cur \in [Clients -> Samples \cup {NoSample}]
      /\ conn \in [Conns -> {"free", "open", "closed", "reset"}]
      /\ c2s \in [Conns -> Seq(Byte)]
      /\ s2c \in [Conns -> Replies]
      /\ task \in [Conns -> {"none", "backlog", "read", "lock", "store", "reply", "ended"}]
      /\ buf \in [Conns -> Seq(Byte)]
  BY LinkAssumption, IdsAreWords DEF IInv, TypeInv, TypeOK, NothingOutstanding, PhaseInv
<1>o. /\ \A k \in Clients : pc[k] \in {"start", "reconnect", "exited"} => sock[k] = NoConn
      /\ \A k, j \in Clients : sock[k] = sock[j] /\ sock[k] # NoConn => k = j
      /\ \A k \in Clients : sock[k] # NoConn => conn[sock[k]] \in {"open", "reset"}
  BY DEF IInv, OwnerInv
<1>a. ASSUME UNCHANGED <<pc, sock, transId, cur, conn, c2s, s2c, task, buf>>,
             installed \subseteq installed'
      PROVE  \A k \in Clients : Phase(k)'
  BY <1>0, <1>a
<1>1. ASSUME NEW k \in Clients, InitOk(k) PROVE \A j \in Clients : Phase(j)'
  <2>1. PICK c \in Conns : /\ conn[c] = "free"
                           /\ conn' = [conn EXCEPT ![c] = "open"]
                           /\ task' = [task EXCEPT ![c] = "backlog"]
                           /\ sock' = [sock EXCEPT ![k] = c]
    BY <1>1 DEF InitOk
  <2>2. /\ pc' = [pc EXCEPT ![k] = "idle"]
        /\ transId' = [transId EXCEPT ![k] = 0]
        /\ UNCHANGED <<cur, c2s, s2c, buf, installed>>
    BY <1>1 DEF InitOk
  <2>3. c2s[c] = << >> /\ s2c[c] = << >>
    BY <2>1 DEF IInv, ConnInv
  <2>4. ASSUME NEW j \in Clients, sock[j] = c PROVE FALSE
    <3>1. sock[j] # NoConn
      BY <2>1, <2>4, LinkAssumption
    <3>. QED
      BY <1>o, <2>1, <2>4, <3>1
  <2>. QED
    BY <1>0, <2>1, <2>2, <2>3, <2>4
<1>2. ASSUME NEW k \in Clients, InitFail(k) PROVE \A j \in Clients : Phase(j)'
  <2>1. /\ pc[k] \in {"start", "reconnect"}
        /\ pc' = [pc EXCEPT ![k] = IF @ = "start" THEN "exited" ELSE "idle"]
        /\ UNCHANGED <<sock, transId, cur, conn, c2s, s2c, task, buf, installed>>
    BY <1>2 DEF InitFail, netVars, serverVars
  <2>. QED
    BY <1>0, <1>o, <2>1
<1>3. ASSUME NEW k \in Clients, DeInit(k) PROVE \A j \in Clients : Phase(j)'
  <2>1. /\ pc' = [pc EXCEPT ![k] = "reconnect"]
        /\ sock' = [sock EXCEPT ![k] = NoConn]
        /\ \A c \in Conns : c # sock[k] => conn'[c] = conn[c]
        /\ UNCHANGED <<transId, cur, c2s, s2c, task, buf, installed>>
    BY <1>3 DEF DeInit, serverVars
  <2>. QED
    BY <1>0, <1>o, <2>1
<1>4. ASSUME NEW k \in Clients, WriteRegisters(k) PROVE \A j \in Clients : Phase(j)'
  <2>0. UNCHANGED <<sock, conn, s2c, task, buf, installed>>
    BY <1>4 DEF WriteRegisters, serverVars
  <2>1. PICK s \in Samples \ issued :
           LET c == sock[k]
               id == NextId(transId[k])
           IN  /\ cur' = [cur EXCEPT ![k] = s]
               /\ transId' = [transId EXCEPT ![k] = id]
               /\ \/ /\ c \in Conns /\ conn[c] = "open"
                     /\ s2c[c] = << >> /\ task[c] \in {"backlog", "read"}
                     /\ c2s' = [c2s EXCEPT ![c] = Frame(id, s)]
                     /\ pc' = [pc EXCEPT ![k] = "await"]
                  \/ /\ ~Usable(c)
                     /\ pc' = [pc EXCEPT ![k] = "failed"]
                     /\ UNCHANGED c2s
    BY <1>4, WriteEffect
  <2>2. ASSUME NEW j \in Clients, j # k PROVE Phase(j)'
    BY <1>0, <1>o, <2>0, <2>1, <2>2
  <2>3. Phase(k)'
    BY <1>0, <2>0, <2>1
  <2>. QED
    BY <2>2, <2>3
<1>5. ASSUME NEW k \in Clients, RecvPart(k) \/ RecvError(k) \/ Timeout(k)
      PROVE  \A j \in Clients : Phase(j)'
  <2>1. /\ UNCHANGED <<sock, transId, cur, conn, c2s, s2c, task, buf, installed>>
        /\ pc[k] = "await"
        /\ pc' = pc \/ pc' = [pc EXCEPT ![k] = "failed"]
    BY <1>5 DEF RecvPart, RecvError, Timeout, netVars, serverVars
  <2>. QED
    BY <1>0, <2>1
<1>6. ASSUME NEW k \in Clients, RecvReply(k) PROVE \A j \in Clients : Phase(j)'
  <2>1. /\ sock[k] \in Conns /\ Answered(k, sock[k])
        /\ s2c' = [s2c EXCEPT ![sock[k]] = << >>]
        /\ pc' = [pc EXCEPT ![k] = "idle"]
    BY <1>6, RecvEffect
  <2>2. UNCHANGED <<sock, transId, cur, conn, c2s, task, buf, installed>>
    BY <1>6 DEF RecvReply, serverVars
  <2>. QED
    BY <1>0, <1>o, <2>1, <2>2
<1>7. ASSUME NEW c \in Conns, Accept(c) \/ Eof(c) \/ Lock(c)
      PROVE  \A j \in Clients : Phase(j)'
  <2>1. /\ UNCHANGED <<pc, sock, transId, cur, conn, c2s, s2c, buf, installed>>
        /\ \/ task[c] = "backlog" /\ task' = [task EXCEPT ![c] = "read"]
           \/ /\ task[c] = "read" /\ conn[c] \in {"closed", "reset"}
              /\ task' = [task EXCEPT ![c] = "ended"]
           \/ task[c] = "lock" /\ task' = [task EXCEPT ![c] = "store"]
    BY <1>7 DEF Accept, Eof, Lock, clientVars, netVars
  <2>2. ASSUME NEW k \in Clients PROVE Phase(k)'
    <3>1. CASE sock[k] # c
      BY <1>0, <2>1, <3>1
    <3>2. CASE sock[k] = c /\ task[c] = "backlog" /\ task' = [task EXCEPT ![c] = "read"]
      BY <1>0, <2>1, <3>2
    <3>3. CASE sock[k] = c /\ task[c] = "lock" /\ task' = [task EXCEPT ![c] = "store"]
      BY <1>0, <2>1, <3>3
    <3>4. CASE sock[k] = c /\ conn[c] \in {"closed", "reset"}
      BY <1>0, <2>1, <3>4
    <3>. QED
      BY <2>1, <3>1, <3>2, <3>3, <3>4
  <2>. QED
    BY <2>2
<1>8. ASSUME NEW c \in Conns, Read(c) PROVE \A j \in Clients : Phase(j)'
  <2>1. /\ task[c] = "read" /\ c2s[c] # << >> /\ s2c[c] = << >>
        /\ c2s' = [c2s EXCEPT ![c] = << >>]
        /\ buf' = [buf EXCEPT ![c] = c2s[c]]
        /\ task' = [task EXCEPT ![c] = "lock"]
    BY <1>8, ReadEffect
  <2>2. UNCHANGED <<pc, sock, transId, cur, conn, s2c, installed>>
    BY <1>8 DEF Read, clientVars
  <2>. QED
    BY <1>0, <2>1, <2>2
<1>9. ASSUME NEW c \in Conns, Store(c) PROVE \A j \in Clients : Phase(j)'
  <2>1. UNCHANGED <<pc, sock, transId, cur, conn, c2s, s2c, task, buf, installed>>
    BY <1>9 DEF Store, clientVars, netVars
  <2>. QED
    BY <1>a, <2>1
<1>10. ASSUME NEW c \in Conns, Unlock(c) PROVE \A j \in Clients : Phase(j)'
  <2>1. /\ task[c] = "store" /\ todo[c] = {}
        /\ task' = [task EXCEPT ![c] = "reply"]
        /\ installed' = installed \cup {Visible}
        /\ UNCHANGED <<pc, sock, transId, cur, conn, c2s, s2c, buf>>
    BY <1>10 DEF Unlock, clientVars, netVars
  <2>2. ASSUME NEW k \in Clients, sock[k] = c, pc[k] \in {"await", "failed"},
               Usable(c)
        PROVE  cur[k] = Visible
    <3>1. Handled(k, c)
      BY <1>0, <2>1, <2>2
    <3>2. cur[k] \in issued /\ cur[k] \in Sample
      BY <2>2, LinkAssumption DEF IInv, TypeInv, TypeOK, CurIssued
    <3>3. \A r \in Report : WordAt(buf[c], DataOff(buf[c], r)) = cur[k][r]
      BY <1>0, <3>1, <3>2, RequestHandled DEF IInv
    <3>4. \A r \in Report : regs[r] = WordAt(buf[c], DataOff(buf[c], r))
      BY <2>1 DEF IInv, LockInv
    <3>5. cur[k] \in [Report -> Word]
      BY <3>2 DEF Sample
    <3>. QED
      BY <3>3, <3>4, <3>5 DEF Visible
  <2>. QED
    BY <1>0, <1>o, <2>1, <2>2
<1>11. ASSUME NEW c \in Conns, Reply(c) PROVE \A j \in Clients : Phase(j)'
  <2>1. /\ task[c] = "reply"
        /\ task' = [task EXCEPT ![c] = "read"]
        /\ s2c' = [s2c EXCEPT ![c] = IF conn[c] = "open" THEN Append(@, Response(buf[c]))
                                                         ELSE @]
        /\ UNCHANGED <<pc, sock, transId, cur, conn, c2s, buf, installed>>
    BY <1>11 DEF Reply, clientVars
  <2>2. s2c[c] = << >>
    BY <2>1 DEF IInv, ConnInv
  <2>3. conn[c] = "open" => s2c'[c] = << Response(buf[c]) >>
    BY <1>0, <2>1, <2>2
  <2>4. \A d \in Conns : d # c => s2c'[d] = s2c[d]
    BY <1>0, <2>1
  <2>5. ASSUME NEW k \in Clients PROVE Phase(k)'
    <3>1. CASE sock[k] = c
      BY <1>0, <2>1, <2>3, <3>1
    <3>2. CASE sock[k] # c
      BY <1>0, <2>1, <2>4, <3>2
    <3>. QED
      BY <3>1, <3>2
  <2>. QED
    BY <2>5
<1>12. ASSUME NEW c \in Conns, Reset(c) PROVE \A j \in Clients : Phase(j)'
  <2>1. /\ conn' = [conn EXCEPT ![c] = "reset"]
        /\ c2s' = [c2s EXCEPT ![c] = << >>]
        /\ s2c' = [s2c EXCEPT ![c] = << >>]
        /\ UNCHANGED <<pc, sock, transId, cur, task, buf, installed>>
    BY <1>12 DEF Reset, clientVars, serverVars
  <2>. QED
    BY <1>0, <2>1
<1>13. CASE Restart
  <2>1. /\ \A c \in Conns : conn'[c] # "open"
        /\ UNCHANGED sock
    BY <1>13 DEF Restart, clientVars
  <2>. QED
    BY <1>0, <2>1
<1>14. CASE Quiet \/ UNCHANGED vars
  BY <1>a, <1>14 DEF Quiet, vars, clientVars, netVars, serverVars
<1>. QED
  BY <1>1, <1>2, <1>3, <1>4, <1>5, <1>6, <1>7, <1>8, <1>9, <1>10, <1>11, <1>12, <1>13,
     <1>14 DEF Next, Client, Server

(* The steps of clients and of the network leave the server alone, except  *)
(* that a new connection gets a task.                                      *)
LEMMA LockStep ==
  IInv /\ ~Segmented /\ [Next]_vars => LockInv'
<1>. SUFFICES ASSUME IInv, ~Segmented, [Next]_vars PROVE LockInv'
  OBVIOUS
<1>. USE DEF LockInv
<1>0. /\ LockInv /\ NoConn \notin Conns
      /\ lock \in Conns \cup {NoConn}
      /\ task \in [Conns -> {"none", "backlog", "read", "lock", "store", "reply", "ended"}]
      /\ todo \in [Conns -> SUBSET Regs]
      /\ buf \in [Conns -> Seq(Byte)]
      /\ regs \in [Regs -> Word]
  BY LinkAssumption DEF IInv, TypeInv, TypeOK
<1>a. ASSUME UNCHANGED <<task, buf, todo, lock, regs>> PROVE LockInv'
  BY <1>0, <1>a
<1>1. ASSUME NEW k \in Clients, InitOk(k) PROVE LockInv'
  <2>1. PICK c \in Conns : conn[c] = "free" /\ task' = [task EXCEPT ![c] = "backlog"]
    BY <1>1 DEF InitOk
  <2>2. task[c] = "none" /\ UNCHANGED <<buf, todo, lock, regs>>
    BY <1>1, <2>1 DEF InitOk, IInv, TypeInv, ServerBounds
  <2>. QED
    BY <1>0, <2>1, <2>2
<1>2. ASSUME NEW k \in Clients,
             \/ InitFail(k) \/ DeInit(k) \/ WriteRegisters(k) \/ RecvPart(k)
             \/ RecvReply(k) \/ RecvError(k) \/ Timeout(k)
      PROVE  LockInv'
  <2>1. UNCHANGED <<task, buf, todo, lock, regs>>
    BY <1>2 DEF InitFail, DeInit, WriteRegisters, RecvPart, RecvReply, RecvError,
                Timeout, serverVars
  <2>. QED
    BY <1>a, <2>1
<1>3. ASSUME NEW c \in Conns, Accept(c) \/ Eof(c) \/ Reply(c) PROVE LockInv'
  <2>1. /\ UNCHANGED <<buf, todo, lock, regs>> /\ task[c] # "store"
        /\ task' = [task EXCEPT ![c] = "read"] \/ task' = [task EXCEPT ![c] = "ended"]
    BY <1>3 DEF Accept, Eof, Reply
  <2>. QED
    BY <1>0, <2>1
<1>4. ASSUME NEW c \in Conns, Read(c) PROVE LockInv'
  <2>1. /\ task[c] = "read"
        /\ buf' = [buf EXCEPT ![c] = c2s[c]]
        /\ task' = [task EXCEPT ![c] = "lock"]
    BY <1>4, ReadEffect
  <2>2. UNCHANGED <<todo, lock, regs>>
    BY <1>4 DEF Read
  <2>. QED
    BY <1>0, <2>1, <2>2
<1>5. ASSUME NEW c \in Conns, Lock(c) PROVE LockInv'
  <2>1. /\ task[c] = "lock" /\ lock = NoConn /\ lock' = c
        /\ task' = [task EXCEPT ![c] = "store"]
        /\ todo' = [todo EXCEPT ![c] = Targets(buf[c])]
        /\ UNCHANGED <<buf, regs>>
    BY <1>5 DEF Lock
  <2>2. PICK s \in issued :
          WordAt(buf[c], 0) \in Word /\ buf[c] = Frame(WordAt(buf[c], 0), s)
    BY <2>1 DEF IInv, ConnInv, IsRequest
  <2>3. Targets(buf[c]) = Report
    BY <2>2, RequestHandled DEF IInv
  <2>. QED
    BY <1>0, <2>1, <2>3
<1>6. ASSUME NEW c \in Conns, Store(c) PROVE LockInv'
  <2>1. PICK r \in todo[c] :
          /\ regs' = [regs EXCEPT ![r] = WordAt(buf[c], DataOff(buf[c], r))]
          /\ todo' = [todo EXCEPT ![c] = @ \ {r}]
    BY <1>6 DEF Store
  <2>2. task[c] = "store" /\ UNCHANGED <<task, buf, lock>>
    BY <1>6 DEF Store
  <2>3. \A d \in Conns : task[d] = "store" => d = c
    BY <1>0, <2>2
  <2>4. Report \subseteq Regs
    BY DEF Report, Regs, RegCount, NumRegs
  <2>. QED
    BY <1>0, <2>1, <2>2, <2>3, <2>4
<1>7. ASSUME NEW c \in Conns, Unlock(c) PROVE LockInv'
  <2>1. /\ task[c] = "store" /\ lock' = NoConn
        /\ task' = [task EXCEPT ![c] = "reply"]
        /\ UNCHANGED <<buf, todo, regs>>
    BY <1>7 DEF Unlock
  <2>. QED
    BY <1>0, <2>1
<1>8. ASSUME NEW c \in Conns, Reset(c) PROVE LockInv'
  BY <1>a, <1>8 DEF Reset, serverVars
<1>9. CASE Restart
  BY <1>0, <1>9 DEF Restart
<1>10. CASE Quiet \/ UNCHANGED vars
  BY <1>a, <1>10 DEF Quiet, vars, serverVars
<1>. QED
  BY <1>1, <1>2, <1>3, <1>4, <1>5, <1>6, <1>7, <1>8, <1>9, <1>10 DEF Next, Client, Server

(* What an unlock publishes is one of the reports, complete. *)
LEMMA UnlockEffect ==
  ASSUME IInv, NEW c \in Conns, Unlock(c)
  PROVE  \E id \in Word, s \in issued : buf[c] = Frame(id, s) /\ Visible = s
<1>1. task[c] = "store" /\ todo[c] = {}
  BY DEF Unlock
<1>2. PICK s \in issued :
        WordAt(buf[c], 0) \in Word /\ buf[c] = Frame(WordAt(buf[c], 0), s)
  BY <1>1 DEF IInv, ConnInv, IsRequest
<1>3. \A r \in Report : regs[r] = s[r]
  BY <1>1, <1>2, RequestHandled DEF IInv, LockInv
<1>4. s \in [Report -> Word]
  BY LinkAssumption DEF IInv, TypeInv, TypeOK, Sample
<1>. QED
  BY <1>2, <1>3, <1>4 DEF Visible

LEMMA SnapshotStep ==
  IInv /\ ~Segmented /\ [Next]_vars => UniformSnapshot' /\ AckedWasInstalled'
<1>. SUFFICES ASSUME IInv, ~Segmented, [Next]_vars
              PROVE  UniformSnapshot' /\ AckedWasInstalled'
  OBVIOUS
<1>. USE DEF UniformSnapshot, AckedWasInstalled
<1>0. UniformSnapshot /\ AckedWasInstalled /\ NoConn \notin Conns
  BY LinkAssumption DEF IInv
<1>a. ASSUME UNCHANGED <<lock, regs, installed, acked>>, issued \subseteq issued'
      PROVE  UniformSnapshot' /\ AckedWasInstalled'
  BY <1>0, <1>a DEF Visible
<1>1. ASSUME NEW k \in Clients,
             \/ InitOk(k) \/ InitFail(k) \/ DeInit(k) \/ WriteRegisters(k) \/ RecvPart(k)
             \/ RecvError(k) \/ Timeout(k)
      PROVE  UniformSnapshot' /\ AckedWasInstalled'
  <2>1. UNCHANGED <<lock, regs, installed, acked>> /\ issued \subseteq issued'
    BY <1>1 DEF InitOk, InitFail, DeInit, WriteRegisters, RecvPart, RecvError, Timeout,
                serverVars
  <2>. QED
    BY <1>a, <2>1
<1>2. ASSUME NEW k \in Clients, RecvReply(k) PROVE UniformSnapshot' /\ AckedWasInstalled'
  <2>1. UNCHANGED <<lock, regs, installed, issued>>
    BY <1>2 DEF RecvReply, serverVars
  <2>2. acked' = acked \cup {cur[k]} /\ cur[k] \in installed
    BY <1>2, RecvEffect
  <2>. QED
    BY <1>0, <2>1, <2>2 DEF Visible
<1>3. ASSUME NEW c \in Conns, Accept(c) \/ Eof(c) \/ Reply(c) \/ Read(c) \/ Reset(c)
      PROVE  UniformSnapshot' /\ AckedWasInstalled'
  <2>1. UNCHANGED <<lock, regs, installed, acked, issued>>
    BY <1>3 DEF Accept, Eof, Reply, Read, Reset, clientVars, serverVars
  <2>. QED
    BY <1>a, <2>1
<1>4. ASSUME NEW c \in Conns, Lock(c) \/ Store(c) PROVE UniformSnapshot' /\ AckedWasInstalled'
  <2>1. UNCHANGED <<installed, acked>> /\ lock' \in Conns
    BY <1>4 DEF Lock, Store, clientVars, IInv, LockInv
  <2>. QED
    BY <1>0, <2>1
<1>5. ASSUME NEW c \in Conns, Unlock(c) PROVE UniformSnapshot' /\ AckedWasInstalled'
  <2>1. /\ UNCHANGED <<regs, issued, acked>>
        /\ installed' = installed \cup {Visible}
    BY <1>5 DEF Unlock, clientVars
  <2>2. Visible \in issued
    BY <1>5, UnlockEffect
  <2>. QED
    BY <1>0, <2>1, <2>2 DEF Visible
<1>6. CASE Restart
  <2>1. UNCHANGED <<issued, acked, installed>> /\ regs' = [r \in Regs |-> 0]
    BY <1>6 DEF Restart, clientVars
  <2>2. Visible' = NoSample
    BY <2>1 DEF Visible, NoSample, Report, Regs, RegCount, NumRegs
  <2>. QED
    BY <1>0, <2>1, <2>2
<1>7. CASE Quiet \/ UNCHANGED vars
  BY <1>a, <1>7 DEF Quiet, vars, clientVars, serverVars
<1>. QED
  BY <1>1, <1>2, <1>3, <1>4, <1>5, <1>6, <1>7 DEF Next, Client, Server

-----------------------------------------------------------------------------
(* Reports that are pending.  A request tells which report it is for.      *)

LEMMA OneReport ==
  ASSUME NEW s \in Sample, NEW t \in Sample, NEW id \in Word, NEW jd \in Word,
         Frame(id, s) = Frame(jd, t)
  PROVE  s = t
<1>1. \A r \in Report : WordAt(Frame(id, s), DataOff(Frame(id, s), r)) = s[r]
  BY FrameHandled
<1>2. \A r \in Report : WordAt(Frame(jd, t), DataOff(Frame(jd, t), r)) = t[r]
  BY FrameHandled
<1>3. \A r \in Report : s[r] = t[r]
  BY <1>1, <1>2
<1>. QED
  BY <1>3 DEF Sample

LEMMA SamplesAreReports ==
  TypeInv => issued \subseteq Sample
  BY LinkAssumption DEF TypeInv, TypeOK

LEMMA RequestsFor ==
  ASSUME TypeInv, NEW b, IsRequest(b), NEW s \in Sample, IsRequestFor(b, s)
  PROVE  s \in issued
<1>1. PICK t \in issued : WordAt(b, 0) \in Word /\ b = Frame(WordAt(b, 0), t)
  BY DEF IsRequest
<1>2. t \in Sample /\ b = Frame(WordAt(b, 0), s)
  BY <1>1, SamplesAreReports DEF IsRequestFor
<1>3. s = t
  BY <1>1, <1>2, OneReport
<1>. QED
  BY <1>1, <1>3

LEMMA PendingIsIssued ==
  ASSUME IInv, NEW c \in Conns, NEW s \in Sample, Pending(c, s)
  PROVE  s \in issued
<1>1. CASE c2s[c] # << >> /\ IsRequestFor(c2s[c], s)
  BY <1>1, RequestsFor DEF IInv, ConnInv
<1>2. CASE task[c] \in {"lock", "store"} /\ IsRequestFor(buf[c], s)
  BY <1>2, RequestsFor DEF IInv, ConnInv
<1>. QED
  BY <1>1, <1>2 DEF Pending

(* The unlocking task shows the report that was pending with it, and then  *)
(* has none.                                                               *)
LEMMA UnlockPublishes ==
  ASSUME IInv, NEW c \in Conns, Unlock(c)
  PROVE  /\ Visible \in issued /\ Pending(c, Visible)
         /\ \A s : ~Pending(c, s)'
<1>1. /\ task[c] = "store" /\ task' = [task EXCEPT ![c] = "reply"]
      /\ UNCHANGED c2s
  BY DEF Unlock, netVars
<1>2. PICK id \in Word, s \in issued : buf[c] = Frame(id, s) /\ Visible = s
  BY UnlockEffect
<1>3. WordAt(buf[c], 0) = id
  BY <1>2, RequestHandled DEF IInv
<1>4. Pending(c, Visible)
  BY <1>1, <1>2, <1>3 DEF Pending, IsRequestFor
<1>5. c2s'[c] = << >> /\ task'[c] = "reply"
  BY <1>1 DEF IInv, ConnInv, TypeInv, TypeOK
<1>. QED
  BY <1>2, <1>4, <1>5 DEF Pending

(* A new report is pending where it was sent, and nowhere else.            *)
LEMMA WritePends ==
  ASSUME IInv, NEW k \in Clients, WriteRegisters(k)
  PROVE  \E s \in Samples \ issued :
           /\ issued' = issued \cup {s}
           /\ \A d \in Conns, t \in Sample :
                Pending(d, t)' => Pending(d, t) \/ (t = s /\ d = sock[k])
<1>1. PICK s \in Samples \ issued :
        LET c == sock[k]
            id == NextId(transId[k])
        IN  /\ id \in Word
            /\ issued' = issued \cup {s}
            /\ \/ /\ c \in Conns /\ task[c] \in {"backlog", "read"}
                  /\ c2s' = [c2s EXCEPT ![c] = Frame(id, s)]
               \/ UNCHANGED c2s
  BY WriteEffect
<1>2. UNCHANGED <<task, buf>> /\ c2s \in [Conns -> Seq(Byte)]
  BY DEF WriteRegisters, serverVars, IInv, TypeInv, TypeOK
<1>3. SUFFICES ASSUME NEW d \in Conns, NEW t \in Sample, Pending(d, t)'
               PROVE  Pending(d, t) \/ (t = s /\ d = sock[k])
  BY <1>1
<1>4. CASE UNCHANGED c2s
  BY <1>2, <1>3, <1>4 DEF Pending, IsRequestFor
<1>5. CASE /\ sock[k] \in Conns /\ task[sock[k]] \in {"backlog", "read"}
           /\ c2s' = [c2s EXCEPT ![sock[k]] = Frame(NextId(transId[k]), s)]
  <2>1. CASE d # sock[k]
    <3>1. c2s'[d] = c2s[d]
      BY <1>2, <1>5, <2>1
    <3>. QED
      BY <1>2, <1>3, <3>1 DEF Pending, IsRequestFor
  <2>2. CASE d = sock[k]
    <3>1. c2s'[d] = Frame(NextId(transId[k]), s) /\ task'[d] \in {"backlog", "read"}
      BY <1>2, <1>5, <2>2
    <3>2. IsRequestFor(c2s[d], t)'
      BY <1>3, <3>1 DEF Pending
    <3>3. s \in Sample
      BY LinkAssumption
    <3>4. WordAt(c2s'[d], 0) = NextId(transId[k])
      BY <1>1, <3>1, <3>3, FrameHandled
    <3>5. Frame(NextId(transId[k]), s) = Frame(NextId(transId[k]), t)
      BY <3>1, <3>2, <3>4 DEF IsRequestFor
    <3>. QED
      BY <1>1, <2>2, <3>3, <3>5, OneReport
  <2>. QED
    BY <2>1, <2>2
<1>. QED
  BY <1>1, <1>4, <1>5

LEMMA OnceStep ==
  IInv /\ ~Segmented /\ [Next]_vars => PendingOnce'
<1>. SUFFICES ASSUME IInv, ~Segmented, [Next]_vars PROVE PendingOnce'
  OBVIOUS
<1>0. /\ PendingOnce /\ issued \subseteq Sample
      /\ conn \in [Conns -> {"free", "open", "closed", "reset"}]
      /\ c2s \in [Conns -> Seq(Byte)]
      /\ task \in [Conns -> {"none", "backlog", "read", "lock", "store", "reply", "ended"}]
      /\ buf \in [Conns -> Seq(Byte)]
  BY SamplesAreReports DEF IInv, TypeInv, TypeOK
(* No step of this kind makes a report pending or shows one. *)
<1>a. ASSUME UNCHANGED <<issued, installed>>,
             \A d \in Conns, t \in issued : Pending(d, t)' => Pending(d, t)
      PROVE  PendingOnce'
  BY <1>0, <1>a DEF PendingOnce
<1>b. ASSUME UNCHANGED <<issued, installed, c2s, buf>>,
             \A d \in Conns : task'[d] \in {"lock", "store"} => task[d] \in {"lock", "store"}
      PROVE  PendingOnce'
  BY <1>a, <1>b DEF Pending, IsRequestFor
<1>1. ASSUME NEW k \in Clients, InitOk(k) PROVE PendingOnce'
  <2>1. PICK c \in Conns : task' = [task EXCEPT ![c] = "backlog"]
    BY <1>1 DEF InitOk
  <2>2. UNCHANGED <<issued, installed, c2s, buf>>
    BY <1>1 DEF InitOk
  <2>. QED
    BY <1>0, <1>b, <2>1, <2>2
<1>2. ASSUME NEW k \in Clients,
             \/ InitFail(k) \/ DeInit(k) \/ RecvPart(k) \/ RecvReply(k)
             \/ RecvError(k) \/ Timeout(k)
      PROVE  PendingOnce'
  <2>1. UNCHANGED <<issued, installed, c2s, buf, task>>
    BY <1>2 DEF InitFail, DeInit, RecvPart, RecvReply, RecvError, Timeout, netVars,
                serverVars
  <2>. QED
    BY <1>b, <2>1
<1>3. ASSUME NEW k \in Clients, WriteRegisters(k) PROVE PendingOnce'
  <2>1. PICK s \in Samples \ issued :
           /\ issued' = issued \cup {s}
           /\ \A d \in Conns, t \in Sample :
                Pending(d, t)' => Pending(d, t) \/ (t = s /\ d = sock[k])
    BY <1>3, WritePends
  <2>2. s \in Sample /\ installed' = installed
    BY <1>3, LinkAssumption DEF WriteRegisters, serverVars
  <2>3. \A d \in Conns : ~Pending(d, s)
    BY <2>1, <2>2, PendingIsIssued
  <2>4. s \notin installed /\ installed' \subseteq issued'
    BY <1>0, <2>1, <2>2 DEF PendingOnce
  <2>5. ASSUME NEW c \in Conns, NEW t \in issued', Pending(c, t)'
        PROVE  t \notin installed' /\ \A d \in Conns : Pending(d, t)' => d = c
    <3>1. CASE t = s
      BY <2>1, <2>2, <2>3, <2>4, <2>5, <3>1
    <3>2. CASE t # s
      <4>1. t \in issued /\ t \in Sample
        BY <1>0, <2>1, <3>2
      <4>2. Pending(c, t) /\ \A d \in Conns : Pending(d, t)' => Pending(d, t)
        BY <2>1, <2>5, <3>2, <4>1
      <4>. QED
        BY <1>0, <2>2, <4>1, <4>2 DEF PendingOnce
    <3>. QED
      BY <3>1, <3>2
  <2>. QED
    BY <2>4, <2>5 DEF PendingOnce
<1>4. ASSUME NEW c \in Conns, Accept(c) \/ Eof(c) \/ Reply(c) \/ Lock(c) \/ Store(c)
      PROVE  PendingOnce'
  <2>1. /\ UNCHANGED <<issued, installed, c2s, buf>>
        /\ \/ \E p \in {"read", "ended"} : task' = [task EXCEPT ![c] = p]
           \/ task[c] = "lock" /\ task' = [task EXCEPT ![c] = "store"]
           \/ task' = task
    BY <1>4 DEF Accept, Eof, Reply, Lock, Store, clientVars, netVars
  <2>. QED
    BY <1>0, <1>b, <2>1
<1>5. ASSUME NEW c \in Conns, Read(c) PROVE PendingOnce'
  <2>1. /\ task[c] = "read" /\ c2s[c] # << >>
        /\ c2s' = [c2s EXCEPT ![c] = << >>]
        /\ buf' = [buf EXCEPT ![c] = c2s[c]]
        /\ task' = [task EXCEPT ![c] = "lock"]
    BY <1>5, ReadEffect
  <2>2. UNCHANGED <<issued, installed>>
    BY <1>5 DEF Read, clientVars
  <2>3. ASSUME NEW d \in Conns, NEW t \in issued, Pending(d, t)'
        PROVE  Pending(d, t)
    <3>1. CASE d = c
      <4>1. c2s'[c] = << >> /\ buf'[c] = c2s[c]
        BY <1>0, <2>1
      <4>. QED
        BY <2>1, <2>3, <3>1, <4>1 DEF Pending, IsRequestFor
    <3>2. CASE d # c
      <4>1. c2s'[d] = c2s[d] /\ buf'[d] = buf[d] /\ task'[d] = task[d]
        BY <1>0, <2>1, <3>2
      <4>. QED
        BY <2>3, <4>1 DEF Pending, IsRequestFor
    <3>. QED
      BY <3>1, <3>2
  <2>. QED
    BY <1>a, <2>2, <2>3
<1>6. ASSUME NEW c \in Conns, Unlock(c) PROVE PendingOnce'
  <2>1. /\ UNCHANGED <<issued, c2s, buf>>
        /\ installed' = installed \cup {Visible}
        /\ task' = [task EXCEPT ![c] = "reply"]
    BY <1>6 DEF Unlock, clientVars, netVars
  <2>2. /\ Visible \in issued /\ Pending(c, Visible)
        /\ \A s : ~Pending(c, s)'
    BY <1>6, UnlockPublishes
  <2>3. ASSUME NEW d \in Conns, NEW t \in issued, Pending(d, t)'
        PROVE  d # c /\ Pending(d, t)
    <3>1. d # c
      BY <2>2, <2>3
    <3>2. task'[d] = task[d]
      BY <1>0, <2>1, <3>1
    <3>. QED
      BY <2>1, <2>3, <3>1, <3>2 DEF Pending, IsRequestFor
  <2>4. \A d \in Conns : Pending(d, Visible) => d = c
    BY <1>0, <2>2 DEF PendingOnce
  <2>. QED
    BY <1>0, <2>1, <2>2, <2>3, <2>4 DEF PendingOnce
<1>7. ASSUME NEW c \in Conns, Reset(c) PROVE PendingOnce'
  <2>1. UNCHANGED <<issued, installed, task, buf>> /\ c2s' = [c2s EXCEPT ![c] = << >>]
    BY <1>7 DEF Reset, clientVars, serverVars
  <2>2. \A d \in Conns : c2s'[d] = << >> \/ c2s'[d] = c2s[d]
    BY <1>0, <2>1
  <2>. QED
    BY <1>a, <2>1, <2>2 DEF Pending, IsRequestFor
<1>8. CASE Restart
  <2>1. /\ UNCHANGED <<issued, installed>>
        /\ \A d \in Conns : c2s'[d] = << >> /\ task'[d] \notin {"lock", "store"}
    BY <1>8 DEF Restart, clientVars
  <2>. QED
    BY <1>a, <2>1 DEF Pending
<1>9. CASE Quiet \/ UNCHANGED vars
  BY <1>b, <1>9 DEF Quiet, vars, clientVars, netVars, serverVars
<1>. QED
  BY <1>1, <1>2, <1>3, <1>4, <1>5, <1>6, <1>7, <1>8, <1>9 DEF Next, Client, Server

-----------------------------------------------------------------------------
(* The theorems about whole frames. *)

LEMMA InvInit == Init => IInv
<1>. SUFFICES ASSUME Init PROVE IInv
  OBVIOUS
<1>1. TypeInv
  <2>1. 0 \in Word /\ NoSample \in [Report -> Word]
    BY DEF Word, NoSample
  <2>. QED
    BY <2>1, Bounds
       DEF Init, TypeInv, TypeOK, ServerBounds, CurIssued, ReplyLen, Replies
<1>2. OwnerInv /\ ConnInv
  BY LinkAssumption DEF Init, OwnerInv, ConnInv
<1>3. NothingOutstanding /\ PhaseInv
  BY DEF Init, NothingOutstanding, PhaseInv
<1>4. LockInv
  BY LinkAssumption DEF Init, LockInv
<1>5. UniformSnapshot /\ AckedWasInstalled
  BY DEF Init, UniformSnapshot, AckedWasInstalled, Visible, NoSample, Report, Regs,
         RegCount, NumRegs
<1>6. PendingOnce
  BY DEF Init, PendingOnce
<1>. QED
  BY <1>1, <1>2, <1>3, <1>4, <1>5, <1>6 DEF IInv

LEMMA InvStep == IInv /\ ~Segmented /\ [Next]_vars => IInv'
  BY TypeStep, OwnerStep, ConnStep, PhaseStep, LockStep, SnapshotStep, OnceStep DEF IInv

(* The invariant of module ModbusLinkInv holds in every state, for every   *)
(* set of clients and connections, when requests arrive whole.             *)
THEOREM Invariant ==
  ASSUME ~Segmented
  PROVE  Spec => []IInv
<1>1. IInv /\ [Next]_vars => IInv'
  BY InvStep
<1>. QED
  BY <1>1, InvInit, PTL DEF Spec

(* What the client counts as delivered was in the server's registers. *)
THEOREM Delivery ==
  ASSUME ~Segmented
  PROVE  Spec => []AckedWasInstalled
<1>1. IInv => AckedWasInstalled
  BY DEF IInv
<1>. QED
  BY <1>1, Invariant, PTL

(* No mixture of two reports is ever visible to a holder of the mutex. *)
THEOREM Snapshots ==
  ASSUME ~Segmented
  PROVE  Spec => []UniformSnapshot
<1>1. IInv => UniformSnapshot
  BY DEF IInv
<1>. QED
  BY <1>1, Invariant, PTL

(* At most one request is outstanding on a live connection. *)
THEOREM OneOutstanding ==
  ASSUME ~Segmented
  PROVE  Spec => []NothingOutstanding
<1>1. IInv => NothingOutstanding
  BY DEF IInv
<1>. QED
  BY <1>1, Invariant, PTL

(* The comparison of transaction ids that the client leaves out would      *)
(* never fail.                                                             *)
THEOREM ReplyMatches ==
  ASSUME ~Segmented
  PROVE  Spec => []ReplyIdMatches
<1>1. IInv => ReplyIdMatches
  <2>. SUFFICES ASSUME IInv, NEW k \in Clients, pc[k] = "await", s2c[sock[k]] # << >>
                PROVE  WordAt(Head(s2c[sock[k]]), 0) = transId[k]
    BY DEF ReplyIdMatches
  <2>1. sock[k] \in Conns /\ conn[sock[k]] \in {"open", "reset"}
    BY DEF IInv, TypeInv, TypeOK, OwnerInv
  <2>2. Usable(sock[k])
    BY <2>1, LinkAssumption DEF IInv, ConnInv, Usable
  <2>3. Answered(k, sock[k])
    BY <2>2 DEF IInv, PhaseInv, Sent, Handled
  <2>4. cur[k] \in issued /\ transId[k] \in Word
    BY IdsAreWords DEF IInv, TypeInv, TypeOK, CurIssued
  <2>. QED
    BY <2>3, <2>4, RequestHandled DEF Answered, IInv
<1>. QED
  BY <1>1, Invariant, PTL

(* Only the report its client made last is installed from an open          *)
(* connection: a late report comes from a connection that was given up.    *)
THEOREM LateReports ==
  ASSUME ~Segmented
  PROVE  Spec => OpenInstallsCurrent
<1>1. ASSUME IInv, [Next]_vars, NEW c \in Conns,
             lock = c, lock' = NoConn, conn'[c] = "open"
      PROVE  \E k \in Clients : /\ sock[k] = c
                                /\ pc[k] \in {"await", "failed"}
                                /\ view' = cur[k]
  <2>1. Unlock(c)
    <3>1. lock' # lock /\ lock # NoConn
      BY <1>1, LinkAssumption
    <3>2. ~Restart
      BY <1>1 DEF Restart
    <3>3. ~(Quiet \/ UNCHANGED vars)
      BY <3>1 DEF Quiet, vars, serverVars
    <3>4. \A k \in Clients : ~Client(k)
      BY <3>1 DEF Client, InitOk, InitFail, DeInit, WriteRegisters, RecvPart, RecvReply,
                  RecvError, Timeout, serverVars
    <3>5. \A d \in Conns : ~Reset(d)
      BY <3>1 DEF Reset, serverVars
    <3>6. PICK d \in Conns : Server(d)
      BY <1>1, <3>2, <3>3, <3>4, <3>5 DEF Next
    <3>7. Unlock(d)
      BY <3>1, <3>6 DEF Server, Accept, Read, Eof, Lock, Store, Reply
    <3>8. d = c
      BY <1>1, <3>7 DEF Unlock, IInv, LockInv
    <3>. QED
      BY <3>7, <3>8
  <2>2. task[c] = "store" /\ conn[c] = "open" /\ view' = Visible
    BY <1>1, <2>1 DEF Unlock, netVars
  <2>3. PICK k \in Clients : sock[k] = c
    BY <1>1, <2>2 DEF IInv, OwnerInv
  <2>4. Usable(sock[k])
    BY <2>2, <2>3, LinkAssumption DEF Usable
  <2>5. pc[k] \in {"await", "failed"}
    <3>1. pc[k] # "idle"
      BY <1>1, <2>2, <2>3, <2>4 DEF IInv, NothingOutstanding
    <3>2. pc[k] \notin {"start", "reconnect", "exited"}
      BY <1>1, <2>3, LinkAssumption DEF IInv, OwnerInv
    <3>3. pc[k] \in {"start", "idle", "await", "failed", "reconnect", "exited"}
      BY <1>1 DEF IInv, TypeInv, TypeOK
    <3>. QED
      BY <3>1, <3>2, <3>3
  <2>6. buf[c] = Frame(transId[k], cur[k])
    BY <1>1, <2>2, <2>3, <2>4, <2>5 DEF IInv, PhaseInv, Sent, Handled, Answered
  <2>7. PICK id \in Word, s \in issued : buf[c] = Frame(id, s) /\ Visible = s
    BY <1>1, <2>1, UnlockEffect
  <2>8. /\ cur[k] \in Sample /\ s \in Sample /\ transId[k] \in Word
    BY <1>1, <2>5, SamplesAreReports, IdsAreWords DEF IInv, TypeInv, TypeOK, CurIssued
  <2>9. cur[k] = s
    BY <2>6, <2>7, <2>8, OneReport
  <2>. QED
    BY <2>2, <2>3, <2>5, <2>7, <2>9
<1>2. IInv /\ [Next]_vars
        => [\A c \in Conns :
              lock = c /\ lock' = NoConn /\ conn'[c] = "open"
                => \E k \in Clients : /\ sock[k] = c
                                      /\ pc[k] \in {"await", "failed"}
                                      /\ view' = cur[k]]_vars
  BY <1>1
<1>. QED
  BY <1>2, Invariant, PTL DEF Spec, OpenInstallsCurrent

(* Every step of the link is a step of the register store, or none of its  *)
(* variables changes.                                                      *)
LEMMA StoreStep ==
  ASSUME IInv, [Next]_vars
  PROVE  Abstract!Next \/ UNCHANGED <<view, issued, installed, acked>>
<1>. USE DEF Abstract!Next, Abstract!Make, Abstract!Install, Abstract!Acknowledge,
             Abstract!Forget
<1>0. issued \subseteq Samples /\ PendingOnce
  BY DEF IInv, TypeInv, TypeOK
<1>1. ASSUME NEW k \in Clients, WriteRegisters(k) PROVE Abstract!Next
  <2>1. PICK s \in Samples \ issued : issued' = issued \cup {s}
    BY <1>1 DEF WriteRegisters
  <2>2. UNCHANGED <<view, installed, acked>>
    BY <1>1 DEF WriteRegisters, serverVars
  <2>. QED
    BY <2>1, <2>2
<1>2. ASSUME NEW k \in Clients, RecvReply(k) PROVE Abstract!Next
  <2>1. acked' = acked \cup {cur[k]} /\ cur[k] \in issued /\ cur[k] \in installed
    BY <1>2, RecvEffect
  <2>2. UNCHANGED <<view, issued, installed>>
    BY <1>2 DEF RecvReply, serverVars
  <2>. QED
    BY <1>0, <2>1, <2>2
<1>3. ASSUME NEW c \in Conns, Unlock(c) PROVE Abstract!Next
  <2>1. Visible \in issued /\ Pending(c, Visible)
    BY <1>3, UnlockPublishes
  <2>2. Visible \notin installed /\ Visible \in Samples
    BY <1>0, <2>1 DEF PendingOnce
  <2>3. /\ view' = Visible /\ installed' = installed \cup {Visible}
        /\ UNCHANGED <<issued, acked>>
    BY <1>3 DEF Unlock, clientVars
  <2>. QED
    BY <2>1, <2>2, <2>3
<1>4. CASE Restart
  <2>1. view' = NoSample /\ UNCHANGED <<issued, installed, acked>>
    BY <1>4 DEF Restart, clientVars
  <2>. QED
    BY <2>1 DEF NoSample, Report, RegCount, Abstract!NoReport
<1>5. ASSUME NEW k \in Clients,
             \/ InitOk(k) \/ InitFail(k) \/ DeInit(k) \/ RecvPart(k)
             \/ RecvError(k) \/ Timeout(k)
      PROVE  UNCHANGED <<view, issued, installed, acked>>
  BY <1>5 DEF InitOk, InitFail, DeInit, RecvPart, RecvError, Timeout, serverVars
<1>6. ASSUME NEW c \in Conns,
             \/ Accept(c) \/ Read(c) \/ Eof(c) \/ Lock(c) \/ Store(c) \/ Reply(c)
             \/ Reset(c)
      PROVE  UNCHANGED <<view, issued, installed, acked>>
  BY <1>6 DEF Accept, Read, Eof, Lock, Store, Reply, Reset, clientVars, serverVars
<1>7. CASE Quiet \/ UNCHANGED vars
  BY <1>7 DEF Quiet, vars, clientVars, serverVars
<1>. QED
  BY <1>1, <1>2, <1>3, <1>4, <1>5, <1>6, <1>7 DEF Next, Client, Server

(* The boards, the network and the server together implement the register  *)
(* store: reports are shown whole, once, and before they are acknowledged. *)
THEOREM Refinement ==
  ASSUME ~Segmented
  PROVE  Spec => StoreSpec
<1>1. Init => Abstract!Init
  BY DEF Init, Abstract!Init, NoSample, Abstract!NoReport, Report, RegCount
<1>2. IInv /\ [Next]_vars => [Abstract!Next]_<<view, issued, installed, acked>>
  BY StoreStep
<1>. QED
  BY <1>1, <1>2, Invariant, PTL DEF Spec, StoreSpec, Abstract!Spec, Abstract!storeVars
-----------------------------------------------------------------------------
(* What faults cost, for finitely many clients: the reports that were not  *)
(* acknowledged, and the client-faults that pay for them.                  *)

Lost == issued \ acked
Cost == faults * Cardinality(Clients)

LEMMA OneMore ==
  ASSUME NEW S, IsFiniteSet(S), NEW x, x \notin S
  PROVE  /\ IsFiniteSet(S \cup {x}) /\ Cardinality(S \cup {x}) = Cardinality(S) + 1
         /\ Cardinality(S) \in Nat
  BY FS_AddElement, FS_CardinalityType

LEMMA OneLess ==
  ASSUME NEW S, IsFiniteSet(S), NEW x \in S
  PROVE  /\ IsFiniteSet(S \ {x}) /\ Cardinality(S \ {x}) = Cardinality(S) - 1
         /\ Cardinality(S) \in Nat
  BY FS_RemoveElement, FS_CardinalityType

LEMMA Sizes ==
  ASSUME IsFiniteSet(Clients), IsFiniteSet(issued)
  PROVE  /\ IsFiniteSet(Lost) /\ Cardinality(Lost) \in Nat
         /\ IsFiniteSet(Awaiting) /\ Cardinality(Awaiting) \in Nat
         /\ IsFiniteSet(CutOff) /\ Cardinality(CutOff) \in Nat
         /\ Cardinality(CutOff) <= Cardinality(Clients)
<1>1. Lost \in SUBSET issued
  BY DEF Lost
<1>2. Awaiting \in SUBSET Clients /\ CutOff \in SUBSET Clients
  BY DEF Awaiting, CutOff
<1>3. IsFiniteSet(Lost) /\ IsFiniteSet(Awaiting) /\ IsFiniteSet(CutOff)
  BY <1>1, <1>2, FS_Subset
<1>4. Cardinality(CutOff) <= Cardinality(Clients)
  BY <1>2, FS_Subset
<1>. QED
  BY <1>3, <1>4, FS_CardinalityType

LEMMA SizesNext ==
  ASSUME IsFiniteSet(Clients), IsFiniteSet(issued')
  PROVE  /\ Cardinality(Lost') \in Nat
         /\ Cardinality(Awaiting') \in Nat
         /\ Cardinality(CutOff') \in Nat
         /\ Cardinality(CutOff') <= Cardinality(Clients)
<1>1. Lost' \in SUBSET issued'
  BY DEF Lost
<1>2. Awaiting' \in SUBSET Clients /\ CutOff' \in SUBSET Clients
  BY DEF Awaiting, CutOff
<1>3. IsFiniteSet(Lost') /\ IsFiniteSet(Awaiting') /\ IsFiniteSet(CutOff')
  BY <1>1, <1>2, FS_Subset
<1>4. Cardinality(CutOff') <= Cardinality(Clients)
  BY <1>2, FS_Subset
<1>. QED
  BY <1>3, <1>4, FS_CardinalityType

(* A fault pays for one report of every client. *)
LEMMA FaultPays ==
  ASSUME IInv, IsFiniteSet(Clients)
  PROVE  /\ Cardinality(Clients) \in Nat
         /\ Cost \in Nat
         /\ Fault => Cost' = Cost + Cardinality(Clients)
         /\ faults' = faults => Cost' = Cost
<1>1. PICK n : n = Cardinality(Clients)
  OBVIOUS
<1>2. PICK f : f = faults
  OBVIOUS
<1>3. n \in Nat /\ f \in Nat
  BY <1>1, <1>2, FS_CardinalityType, LinkAssumption DEF IInv, TypeInv, TypeOK
<1>4. f * n \in Nat /\ (f + 1) * n = f * n + n
  BY <1>3
<1>5. Fault => Cost' = (f + 1) * n
  BY <1>1, <1>2 DEF Cost, Fault
<1>. QED
  BY <1>1, <1>2, <1>3, <1>4, <1>5 DEF Cost

(* The inequality of LossInv survives a step that adds no more to its left *)
(* side than to its right.                                                 *)
LEMMA Balance ==
  ASSUME IInv, LossInv, IsFiniteSet(Clients),
         IsFiniteSet(issued'), AwaitedOnce',
         Cost' \in Nat,
         Cardinality(Lost') + Cardinality(CutOff') + Cost + Cardinality(Awaiting)
           <= Cardinality(Lost) + Cardinality(CutOff) + Cost' + Cardinality(Awaiting')
  PROVE  LossInv'
<1>1. /\ Cardinality(Lost) \in Nat /\ Cardinality(Awaiting) \in Nat
      /\ Cardinality(CutOff) \in Nat /\ Cost \in Nat
  BY Sizes, FaultPays DEF LossInv
<1>2. Cardinality(Lost) + Cardinality(CutOff) <= Cost + Cardinality(Awaiting)
  BY DEF LossInv, Lost, Cost
<1>3. /\ Cardinality(Lost') \in Nat /\ Cardinality(Awaiting') \in Nat
      /\ Cardinality(CutOff') \in Nat
  BY SizesNext
<1>4. Cardinality(Lost') + Cardinality(CutOff') <= Cost' + Cardinality(Awaiting')
  BY <1>1, <1>2, <1>3
<1>. QED
  BY <1>4 DEF LossInv, Lost, Cost

(* Nothing that LossInv counts changes. *)
LEMMA Unaccounted ==
  ASSUME LossInv, UNCHANGED <<issued, acked, faults>>,
         CutOff' = CutOff, Awaiting' = Awaiting, AwaitedOnce'
  PROVE  LossInv'
  BY DEF LossInv

(* A fault that loses neither a request nor its place in the client may    *)
(* cut off every client.                                                   *)
LEMMA FaultCuts ==
  ASSUME IInv, LossInv, IsFiniteSet(Clients), Fault,
         UNCHANGED <<cur, issued, acked>>, Awaiting' = Awaiting
  PROVE  LossInv'
<1>1. Lost' = Lost /\ IsFiniteSet(issued')
  BY DEF LossInv, Lost
<1>2. AwaitedOnce'
  BY DEF LossInv, AwaitedOnce, Awaiting
<1>3. /\ Cardinality(Lost) \in Nat /\ Cardinality(Awaiting) \in Nat
      /\ Cardinality(CutOff) \in Nat
  BY Sizes DEF LossInv
<1>4. /\ Cardinality(CutOff') \in Nat /\ Cardinality(CutOff') <= Cardinality(Clients)
  BY <1>1, SizesNext
<1>5. /\ Cost' = Cost + Cardinality(Clients) /\ Cost \in Nat
      /\ Cardinality(Clients) \in Nat
  BY FaultPays
<1>6. Cardinality(Lost') = Cardinality(Lost) /\ Cardinality(Awaiting') = Cardinality(Awaiting)
  BY <1>1
<1>. QED
  BY <1>1, <1>2, <1>3, <1>4, <1>5, <1>6, Balance
LEMMA LossInit ==
  ASSUME IsFiniteSet(Clients), Init
  PROVE  LossInv
<1>1. issued = {} /\ CutOff = {} /\ Awaiting = {} /\ faults = 0
  BY DEF Init, CutOff, Awaiting
<1>2. Cardinality(Clients) \in Nat
  BY FS_CardinalityType
<1>3. AwaitedOnce
  BY DEF Init, AwaitedOnce
<1>4. faults * Cardinality(Clients) = 0
  BY <1>1, <1>2
<1>5. issued \ acked = {}
  BY <1>1
<1>6. Cardinality(issued \ acked) = 0 /\ Cardinality(CutOff) = 0 /\ Cardinality(Awaiting) = 0
  BY <1>1, <1>5, FS_EmptySet
<1>. QED
  BY <1>1, <1>3, <1>4, <1>6, FS_EmptySet DEF LossInv

(* A new report: it is awaited, or it is the one that a client which was   *)
(* cut off loses.                                                          *)
LEMMA WriteLoses ==
  ASSUME IInv, LossInv, IsFiniteSet(Clients), NEW k \in Clients, WriteRegisters(k)
  PROVE  LossInv'
<1>1. PICK s \in Samples \ issued :
        /\ issued' = issued \cup {s}
        /\ cur' = [cur EXCEPT ![k] = s]
        /\ \/ Usable(sock[k]) /\ pc' = [pc EXCEPT ![k] = "await"]
           \/ ~Usable(sock[k]) /\ pc' = [pc EXCEPT ![k] = "failed"]
  BY DEF WriteRegisters
<1>2. pc[k] = "idle" /\ UNCHANGED <<sock, acked, conn, faults>>
  BY DEF WriteRegisters
<1>3. /\ pc \in [Clients -> {"start", "idle", "await", "failed", "reconnect", "exited"}]
      /\ cur \in [Clients -> Samples \cup {NoSample}]
      /\ acked \subseteq issued
      /\ \A j \in Clients : pc[j] = "await" => cur[j] \in issued
  BY DEF IInv, TypeInv, TypeOK, CurIssued
<1>4. \A j \in Clients : Usable(sock[j])' <=> Usable(sock[j])
  BY <1>2 DEF Usable
<1>5. s \notin Lost /\ Lost' = Lost \cup {s}
  BY <1>1, <1>2, <1>3 DEF Lost
<1>6. IsFiniteSet(issued')
  BY <1>1, OneMore DEF LossInv
<1>7. AwaitedOnce'
  BY <1>1, <1>2, <1>3 DEF LossInv, AwaitedOnce
<1>8. Cardinality(Lost') = Cardinality(Lost) + 1 /\ Cardinality(Lost) \in Nat
  BY <1>5, OneMore, Sizes DEF LossInv
<1>9. Cost' = Cost /\ Cost \in Nat
  BY <1>2, FaultPays
<1>10. /\ IsFiniteSet(Awaiting) /\ Cardinality(Awaiting) \in Nat
       /\ IsFiniteSet(CutOff) /\ Cardinality(CutOff) \in Nat
  BY Sizes DEF LossInv
<1>11. CASE Usable(sock[k])
  <2>1. k \notin Awaiting /\ Awaiting' = Awaiting \cup {k}
    BY <1>1, <1>2, <1>3, <1>11 DEF Awaiting
  <2>2. CutOff' = CutOff
    BY <1>1, <1>2, <1>3, <1>4, <1>11 DEF CutOff
  <2>3. Cardinality(Awaiting') = Cardinality(Awaiting) + 1
    BY <1>10, <2>1, OneMore
  <2>4. Cardinality(CutOff') = Cardinality(CutOff)
    BY <2>2
  <2>. QED
    BY <1>6, <1>7, <1>8, <1>9, <1>10, <2>3, <2>4, Balance
<1>12. CASE ~Usable(sock[k])
  <2>1. Awaiting' = Awaiting
    BY <1>1, <1>2, <1>3, <1>12 DEF Awaiting
  <2>2. k \in CutOff /\ CutOff' = CutOff \ {k}
    BY <1>1, <1>2, <1>3, <1>4, <1>12 DEF CutOff
  <2>3. Cardinality(CutOff') = Cardinality(CutOff) - 1
    BY <1>10, <2>2, OneLess
  <2>4. Cardinality(Awaiting') = Cardinality(Awaiting)
    BY <2>1
  <2>. QED
    BY <1>6, <1>7, <1>8, <1>9, <1>10, <2>3, <2>4, Balance
<1>. QED
  BY <1>11, <1>12

(* An acknowledgement: the report was awaited by this client only, and was *)
(* not acknowledged before.                                                *)
LEMMA ReplyFinds ==
  ASSUME IInv, LossInv, IsFiniteSet(Clients), NEW k \in Clients, RecvReply(k)
  PROVE  LossInv'
<1>1. /\ pc' = [pc EXCEPT ![k] = "idle"] /\ acked' = acked \cup {cur[k]}
      /\ cur[k] \in issued
  BY RecvEffect
<1>2. pc[k] = "await" /\ UNCHANGED <<sock, cur, issued, conn, faults>>
  BY DEF RecvReply
<1>3. pc \in [Clients -> {"start", "idle", "await", "failed", "reconnect", "exited"}]
  BY DEF IInv, TypeInv, TypeOK
<1>4. Usable(sock[k])
  <2>1. s2c[sock[k]] # << >>
    BY DEF RecvReply
  <2>2. sock[k] \in Conns /\ conn[sock[k]] \in {"open", "reset"}
    BY <1>2 DEF IInv, TypeInv, TypeOK, OwnerInv
  <2>. QED
    BY <2>1, <2>2, LinkAssumption DEF IInv, ConnInv, Usable
<1>5. \A j \in Clients : Usable(sock[j])' <=> Usable(sock[j])
  BY <1>2 DEF Usable
<1>6. cur[k] \in Lost /\ Lost' = Lost \ {cur[k]}
  BY <1>1, <1>2 DEF Lost, LossInv, AwaitedOnce
<1>7. k \in Awaiting /\ Awaiting' = Awaiting \ {k}
  BY <1>1, <1>2, <1>3 DEF Awaiting
<1>8. CutOff' = CutOff
  BY <1>1, <1>2, <1>3, <1>4, <1>5 DEF CutOff
<1>9. IsFiniteSet(issued') /\ AwaitedOnce'
  BY <1>1, <1>2, <1>3 DEF LossInv, AwaitedOnce
<1>10. /\ IsFiniteSet(Lost) /\ IsFiniteSet(Awaiting) /\ Cardinality(CutOff) \in Nat
       /\ Cost' = Cost /\ Cost \in Nat
  BY <1>2, Sizes, FaultPays DEF LossInv
<1>11. /\ Cardinality(Lost') = Cardinality(Lost) - 1 /\ Cardinality(Lost) \in Nat
       /\ Cardinality(Awaiting') = Cardinality(Awaiting) - 1
       /\ Cardinality(Awaiting) \in Nat
  BY <1>6, <1>7, <1>10, OneLess
<1>12. Cardinality(CutOff') = Cardinality(CutOff)
  BY <1>8
<1>. QED
  BY <1>9, <1>10, <1>11, <1>12, Balance

(* A failed receive: the client that awaited was cut off, and is so no     *)
(* more.                                                                   *)
LEMMA ErrorLoses ==
  ASSUME IInv, LossInv, IsFiniteSet(Clients), NEW k \in Clients, RecvError(k)
  PROVE  LossInv'
<1>1. /\ pc[k] = "await" /\ conn[sock[k]] = "reset"
      /\ pc' = [pc EXCEPT ![k] = "failed"]
      /\ UNCHANGED <<sock, cur, issued, acked, conn, faults>>
  BY DEF RecvError, netVars
<1>2. pc \in [Clients -> {"start", "idle", "await", "failed", "reconnect", "exited"}]
  BY DEF IInv, TypeInv, TypeOK
<1>3. \A j \in Clients : Usable(sock[j])' <=> Usable(sock[j])
  BY <1>1 DEF Usable
<1>4. k \in Awaiting /\ Awaiting' = Awaiting \ {k}
  BY <1>1, <1>2 DEF Awaiting
<1>5. k \in CutOff /\ CutOff' = CutOff \ {k}
  BY <1>1, <1>2, <1>3 DEF CutOff, Usable
<1>6. Lost' = Lost
  BY <1>1 DEF Lost
<1>7. IsFiniteSet(issued') /\ AwaitedOnce'
  BY <1>1, <1>2 DEF LossInv, AwaitedOnce
<1>8. /\ IsFiniteSet(CutOff) /\ IsFiniteSet(Awaiting) /\ Cardinality(Lost) \in Nat
      /\ Cost' = Cost /\ Cost \in Nat
  BY <1>1, Sizes, FaultPays DEF LossInv
<1>9. /\ Cardinality(CutOff') = Cardinality(CutOff) - 1 /\ Cardinality(CutOff) \in Nat
      /\ Cardinality(Awaiting') = Cardinality(Awaiting) - 1
      /\ Cardinality(Awaiting) \in Nat
  BY <1>4, <1>5, <1>8, OneLess
<1>10. Cardinality(Lost') = Cardinality(Lost)
  BY <1>6
<1>. QED
  BY <1>7, <1>8, <1>9, <1>10, Balance

(* A time-out is a fault: a request on a live connection is always on its  *)
(* way, being handled, or answered, so nobody awaits what will not come.   *)
LEMMA TimeoutLoses ==
  ASSUME IInv, LossInv, IsFiniteSet(Clients), NEW k \in Clients, Timeout(k)
  PROVE  LossInv'
<1>1. /\ pc[k] = "await" /\ pc' = [pc EXCEPT ![k] = "failed"]
      /\ UNCHANGED <<sock, cur, issued, acked, conn>>
  BY DEF Timeout, netVars
<1>2. pc \in [Clients -> {"start", "idle", "await", "failed", "reconnect", "exited"}]
  BY DEF IInv, TypeInv, TypeOK
<1>3. Fault
  <2>1. SUFFICES ASSUME Starved(sock[k]) PROVE FALSE
    BY DEF Timeout
  <2>2. Usable(sock[k])
    BY <1>1, <2>1 DEF IInv, OwnerInv, Starved, Usable
  <2>3. Sent(k, sock[k]) \/ Handled(k, sock[k]) \/ Answered(k, sock[k])
    BY <1>1, <2>2 DEF IInv, PhaseInv
  <2>4. Frame(transId[k], cur[k]) # << >>
    <3>1. cur[k] \in Sample /\ transId[k] \in Word
      BY <1>1, SamplesAreReports, IdsAreWords DEF IInv, TypeInv, TypeOK, CurIssued
    <3>2. Len(Frame(transId[k], cur[k])) = FrameLen
      BY <3>1, FrameHandled
    <3>3. Len(<< >>) = 0 /\ FrameLen # 0
      BY DEF FrameLen
    <3>. QED
      BY <3>2, <3>3
  <2>. QED
    BY <2>1, <2>3, <2>4 DEF Starved, Sent, Handled, Answered
<1>4. k \in Awaiting /\ Awaiting' = Awaiting \ {k}
  BY <1>1, <1>2 DEF Awaiting
<1>5. CutOff' \in SUBSET CutOff
  BY <1>1, <1>2 DEF CutOff, Usable
<1>6. Lost' = Lost
  BY <1>1 DEF Lost
<1>7. IsFiniteSet(issued') /\ AwaitedOnce'
  BY <1>1, <1>2 DEF LossInv, AwaitedOnce
<1>8. /\ IsFiniteSet(CutOff) /\ IsFiniteSet(Awaiting) /\ Cardinality(Lost) \in Nat
      /\ Cardinality(CutOff) \in Nat
  BY Sizes DEF LossInv
<1>9. Cardinality(CutOff') <= Cardinality(CutOff) /\ Cardinality(CutOff') \in Nat
  BY <1>5, <1>7, <1>8, FS_Subset, SizesNext
<1>10. /\ Cardinality(Awaiting') = Cardinality(Awaiting) - 1
       /\ Cardinality(Awaiting) \in Nat
  BY <1>4, <1>8, OneLess
<1>11. /\ Cost' = Cost + Cardinality(Clients) /\ Cost \in Nat
       /\ Cardinality(Clients) \in Nat
  BY <1>3, FaultPays
<1>12. Cardinality(Clients) # 0
  BY FS_EmptySet
<1>13. Cardinality(Lost') = Cardinality(Lost)
  BY <1>6
<1>. QED
  BY <1>7, <1>8, <1>9, <1>10, <1>11, <1>12, <1>13, Balance

LEMMA LossStep ==
  ASSUME IInv, LossInv, IsFiniteSet(Clients), [Next]_vars
  PROVE  LossInv'
<1>0. /\ pc \in [Clients -> {"start", "idle", "await", "failed", "reconnect", "exited"}]
      /\ sock \in [Clients -> Conns \cup {NoConn}]
      /\ conn \in [Conns -> {"free", "open", "closed", "reset"}]
  BY DEF IInv, TypeInv, TypeOK
<1>1. ASSUME NEW k \in Clients, InitOk(k) PROVE LossInv'
  <2>1. PICK c \in Conns : /\ conn[c] = "free"
                           /\ conn' = [conn EXCEPT ![c] = "open"]
                           /\ sock' = [sock EXCEPT ![k] = c]
    BY <1>1 DEF InitOk
  <2>2. /\ pc[k] \in {"start", "reconnect"} /\ pc' = [pc EXCEPT ![k] = "idle"]
        /\ UNCHANGED <<cur, issued, acked, faults>>
    BY <1>1 DEF InitOk
  <2>3. Usable(sock[k])'
    BY <1>0, <2>1, LinkAssumption DEF Usable
  <2>4. \A j \in Clients : j # k => (Usable(sock[j])' <=> Usable(sock[j]))
    BY <1>0, <2>1 DEF Usable, IInv, OwnerInv
  <2>5. CutOff' = CutOff
    BY <1>0, <2>2, <2>3, <2>4 DEF CutOff
  <2>6. Awaiting' = Awaiting /\ AwaitedOnce'
    BY <1>0, <2>2 DEF Awaiting, AwaitedOnce, LossInv
  <2>. QED
    BY <2>2, <2>5, <2>6, Unaccounted
<1>2. ASSUME NEW k \in Clients, InitFail(k) PROVE LossInv'
  <2>1. /\ Fault /\ UNCHANGED <<cur, issued, acked>>
        /\ pc[k] \in {"start", "reconnect"}
        /\ \E p \in {"exited", "idle"} : pc' = [pc EXCEPT ![k] = p]
    BY <1>2 DEF InitFail
  <2>2. Awaiting' = Awaiting
    BY <1>0, <2>1 DEF Awaiting
  <2>. QED
    BY <2>1, <2>2, FaultCuts
<1>3. ASSUME NEW k \in Clients, DeInit(k) PROVE LossInv'
  <2>1. /\ pc[k] = "failed" /\ pc' = [pc EXCEPT ![k] = "reconnect"]
        /\ sock' = [sock EXCEPT ![k] = NoConn]
        /\ conn' = [c \in Conns |->
                      IF c = sock[k] /\ conn[c] = "open" THEN "closed" ELSE conn[c]]
        /\ UNCHANGED <<cur, issued, acked, faults>>
    BY <1>3 DEF DeInit
  <2>2. \A j \in Clients : j # k => (Usable(sock[j])' <=> Usable(sock[j]))
    BY <1>0, <2>1 DEF Usable, IInv, OwnerInv
  <2>3. CutOff' = CutOff
    BY <1>0, <2>1, <2>2 DEF CutOff
  <2>4. Awaiting' = Awaiting /\ AwaitedOnce'
    BY <1>0, <2>1 DEF Awaiting, AwaitedOnce, LossInv
  <2>. QED
    BY <2>1, <2>3, <2>4, Unaccounted
<1>4. ASSUME NEW k \in Clients, RecvPart(k) PROVE LossInv'
  <2>1. UNCHANGED <<pc, sock, conn, cur, issued, acked, faults>>
    BY <1>4 DEF RecvPart, netVars
  <2>2. CutOff' = CutOff /\ Awaiting' = Awaiting /\ AwaitedOnce'
    BY <2>1 DEF CutOff, Usable, Awaiting, AwaitedOnce, LossInv
  <2>. QED
    BY <2>1, <2>2, Unaccounted
<1>5. ASSUME NEW k \in Clients, WriteRegisters(k) \/ RecvReply(k) \/ RecvError(k) \/ Timeout(k)
      PROVE  LossInv'
  BY <1>5, WriteLoses, ReplyFinds, ErrorLoses, TimeoutLoses
<1>6. ASSUME NEW c \in Conns, Server(c) PROVE LossInv'
  <2>1. UNCHANGED <<pc, sock, conn, cur, issued, acked, faults>>
    BY <1>6 DEF Server, Accept, Read, Eof, Lock, Store, Unlock, Reply, clientVars, netVars
  <2>2. CutOff' = CutOff /\ Awaiting' = Awaiting /\ AwaitedOnce'
    BY <2>1 DEF CutOff, Usable, Awaiting, AwaitedOnce, LossInv
  <2>. QED
    BY <2>1, <2>2, Unaccounted
<1>7. ASSUME \/ \E c \in Conns : Reset(c)
             \/ Restart
      PROVE  LossInv'
  <2>1. Fault /\ UNCHANGED <<pc, cur, issued, acked>>
    BY <1>7 DEF Reset, Restart, clientVars
  <2>2. Awaiting' = Awaiting
    BY <2>1 DEF Awaiting
  <2>. QED
    BY <2>1, <2>2, FaultCuts
<1>8. CASE Quiet \/ UNCHANGED vars
  <2>1. UNCHANGED <<pc, sock, conn, cur, issued, acked, faults>>
    BY <1>8 DEF Quiet, vars, clientVars, netVars
  <2>2. CutOff' = CutOff /\ Awaiting' = Awaiting /\ AwaitedOnce'
    BY <2>1 DEF CutOff, Usable, Awaiting, AwaitedOnce, LossInv
  <2>. QED
    BY <2>1, <2>2, Unaccounted
<1>. QED
  BY <1>1, <1>2, <1>3, <1>4, <1>5, <1>6, <1>7, <1>8 DEF Next, Client

(* With finitely many boards, every report that was not acknowledged is    *)
(* awaited or paid for by a fault; a board that is cut off owes one more.  *)
THEOREM LossIsInvariant ==
  ASSUME ~Segmented, IsFiniteSet(Clients)
  PROVE  Spec => []LossInv
<1>1. Init => LossInv
  BY LossInit
<1>2. IInv /\ LossInv /\ [Next]_vars => LossInv'
  BY LossStep
<1>. QED
  BY <1>1, <1>2, Invariant, PTL DEF Spec

(* A fault costs each board one report at most.                            *)
THEOREM LossIsBounded ==
  ASSUME ~Segmented, IsFiniteSet(Clients)
  PROVE  Spec => []LossBounded
<1>1. IInv /\ LossInv => LossBounded
  <2>. SUFFICES ASSUME IInv, LossInv PROVE LossBounded
    OBVIOUS
  <2>1. /\ Cardinality(Lost) \in Nat /\ Cardinality(CutOff) \in Nat
        /\ Cardinality(Awaiting) \in Nat /\ Cost \in Nat
    BY Sizes, FaultPays DEF LossInv
  <2>2. Cardinality(Lost) + Cardinality(CutOff) <= Cost + Cardinality(Awaiting)
    BY DEF LossInv, Lost, Cost
  <2>3. Cardinality(Lost) <= Cost + Cardinality(Awaiting)
    BY <2>1, <2>2
  <2>. QED
    BY <2>3 DEF LossBounded, Lost, Cost, Awaiting
<1>. QED
  BY <1>1, Invariant, LossIsInvariant, PTL
=============================================================================
