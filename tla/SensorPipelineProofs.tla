------------------------ MODULE SensorPipelineProofs ------------------------
(***************************************************************************)
(* PipelineInv is an inductive invariant of SensorPipeline for every size  *)
(* of the window, every timing and any number of samples and faults; the   *)
(* pipeline implements WindowStream.                                       *)
(***************************************************************************)
EXTENDS SensorPipeline, TLAPS

LEMMA SizePositive == WindowSize \in Nat \ {0}
  BY PipelineAssumption

(* The remainder, for the arguments the ring takes it of. *)
LEMMA RingMod ==
  ASSUME NEW a \in 0 .. 2 * WindowSize - 1
  PROVE  a % WindowSize = IF a < WindowSize THEN a ELSE a - WindowSize
  BY SizePositive

(* The position t cells after position i of the ring. *)
LEMMA RingPosition ==
  ASSUME NEW i \in Cells, NEW t \in 0 .. WindowSize
  PROVE  (i + t) % WindowSize = IF i + t < WindowSize THEN i + t ELSE i + t - WindowSize
  <1>1. PICK a \in 0 .. 2 * WindowSize - 1 : a = i + t
    BY SizePositive DEF Cells
  <1>2. a % WindowSize = IF a < WindowSize THEN a ELSE a - WindowSize
    BY RingMod
  <1> QED BY <1>1, <1>2, SizePositive DEF Cells

(* The position after i; from there the ring ends with i, and is otherwise *)
(* read one cell later than from i.                                        *)
LEMMA NextPosition ==
  ASSUME NEW i \in Cells
  PROVE  /\ NextIdx(i) \in Cells
         /\ NextIdx(i) = IF i + 1 < WindowSize THEN i + 1 ELSE 0
  <1>1. (i + 1) % WindowSize = IF i + 1 < WindowSize THEN i + 1 ELSE i + 1 - WindowSize
    BY RingPosition, SizePositive
  <1> QED BY <1>1, SizePositive DEF Cells, NextIdx

LEMMA RingWalk ==
  ASSUME NEW i \in Cells, NEW t \in Cells
  PROVE  /\ (NextIdx(i) + t) % WindowSize \in Cells
         /\ IF t = WindowSize - 1
            THEN (NextIdx(i) + t) % WindowSize = i
            ELSE /\ t + 1 \in Cells
                 /\ (NextIdx(i) + t) % WindowSize = (i + (t + 1)) % WindowSize
                 /\ (NextIdx(i) + t) % WindowSize # i
  <1> DEFINE j == NextIdx(i)
  <1> USE SizePositive
  <1>1. j \in Cells /\ j = IF i + 1 < WindowSize THEN i + 1 ELSE 0
    BY NextPosition
  <1> HIDE DEF j
  <1>2. (j + t) % WindowSize = IF j + t < WindowSize THEN j + t ELSE j + t - WindowSize
    <2>1. t \in 0 .. WindowSize
      BY DEF Cells
    <2> QED BY ONLY <1>1, <2>1, RingPosition
  <1>3. (i + (t + 1)) % WindowSize
          = IF i + (t + 1) < WindowSize THEN i + (t + 1) ELSE i + (t + 1) - WindowSize
    <2>1. PICK u \in 0 .. WindowSize : u = t + 1
      BY DEF Cells
    <2>2. (i + u) % WindowSize = IF i + u < WindowSize THEN i + u ELSE i + u - WindowSize
      BY RingPosition
    <2> QED BY <2>1, <2>2
  <1>4. (j + t) % WindowSize \in Cells
    BY <1>1, <1>2 DEF Cells
  <1>5. t = WindowSize - 1 => (j + t) % WindowSize = i
    BY <1>1, <1>2 DEF Cells
  <1>6. t # WindowSize - 1 => t + 1 \in Cells /\ (j + t) % WindowSize # i
    BY <1>1, <1>2 DEF Cells
  <1>7. t # WindowSize - 1 => (j + t) % WindowSize = (i + (t + 1)) % WindowSize
    BY <1>1, <1>2, <1>3 DEF Cells
  <1> QED BY <1>4, <1>5, <1>6, <1>7 DEF j

(* Storing the next sample where the oldest was, or behind the latest of a *)
(* ring that is not full, keeps the order of the ring.                     *)
LEMMA RingStep ==
  ASSUME TypeOK, RingInv, Feed, calibrated
  PROVE  RingInv'
  <1> USE DEF TypeOK
  <1>1. fed' = fed + 1 /\ winIdx' = NextIdx(winIdx)
        /\ window' = [window EXCEPT ![winIdx] = fed + 1]
        /\ winCount' = IF winCount < WindowSize THEN winCount + 1 ELSE winCount
    BY DEF Feed
  <1>2. winIdx \in Cells /\ window \in [Cells -> Nat] /\ fed \in Nat
    BY PipelineAssumption DEF Windows
  <1>3. winCount' = IF fed' < WindowSize THEN fed' ELSE WindowSize
    BY <1>1, <1>2, SizePositive DEF RingInv
  <1>4. ASSUME fed' < WindowSize
        PROVE  winIdx' = fed' /\ \A i \in Cells : i < fed' => window'[i] = i + 1
    <2>1. fed < WindowSize /\ winIdx = fed /\ \A i \in Cells : i < fed => window[i] = i + 1
      BY <1>1, <1>2, <1>4, SizePositive DEF RingInv
    <2>2. winIdx' = fed'
      BY <1>1, <1>2, <1>4, <2>1, NextPosition
    <2>3. ASSUME NEW i \in Cells, i < fed'
          PROVE  window'[i] = i + 1
      BY <1>1, <1>2, <2>1, <2>3 DEF Cells
    <2> QED BY <2>2, <2>3
  <1>5. ASSUME fed' >= WindowSize, NEW t \in Cells
        PROVE  GetWindow(window', winIdx')[t] = fed' - (WindowSize - 1) + t
    <2>1. PICK p \in Cells : p = (NextIdx(winIdx) + t) % WindowSize
      BY <1>2, RingWalk
    <2>2. GetWindow(window', winIdx')[t] = window'[p]
      BY <1>1, <2>1 DEF GetWindow
    <2>3. CASE t = WindowSize - 1
      <3>1. p = winIdx
        BY <1>2, <2>1, <2>3, RingWalk
      <3>2. window'[p] = fed + 1
        BY <1>1, <1>2, <3>1
      <3> QED BY <1>1, <1>2, <2>2, <2>3, <3>2, SizePositive
    <2>4. CASE t # WindowSize - 1
      <3>1. t + 1 \in Cells /\ p = (winIdx + (t + 1)) % WindowSize /\ p # winIdx
        BY <1>2, <2>1, <2>4, RingWalk
      <3>2. window'[p] = window[p]
        BY <1>1, <1>2, <3>1
      <3>3. CASE fed >= WindowSize
        <4>1. window[p] = GetWindow(window, winIdx)[t + 1]
          BY <3>1 DEF GetWindow
        <4>2. GetWindow(window, winIdx)[t + 1] = fed - (WindowSize - 1) + (t + 1)
          BY <3>1, <3>3 DEF RingInv
        <4> QED BY <1>1, <1>2, <2>2, <3>2, <4>1, <4>2, SizePositive DEF Cells
      <3>4. CASE fed < WindowSize
        <4>1. fed = WindowSize - 1 /\ winIdx = fed
          BY <1>1, <1>2, <1>5, <3>4, SizePositive DEF RingInv
        <4>2. p = t
          <5>1. NextIdx(winIdx) = 0
            BY <1>2, <4>1, NextPosition, SizePositive
          <5>2. t \in 0 .. 2 * WindowSize - 1 /\ 0 + t = t /\ t < WindowSize
            BY SizePositive DEF Cells
          <5>3. t % WindowSize = t
            BY <5>2, RingMod
          <5> QED BY <2>1, <5>1, <5>2, <5>3
        <4>3. window[p] = t + 1
          BY <2>4, <3>4, <4>1, <4>2, SizePositive DEF RingInv, Cells
        <4> QED BY <1>1, <1>2, <2>2, <3>2, <4>1, <4>3, SizePositive DEF Cells
      <3> QED BY <1>2, <3>3, <3>4, SizePositive
    <2> QED BY <2>3, <2>4
  <1> QED BY <1>3, <1>4, <1>5 DEF RingInv

(* The window of the samples that end with sample n. *)
Ending(n) == [t \in Cells |-> n - (WindowSize - 1) + t]

LEMMA EndingWindow ==
  ASSUME NEW n \in Nat, n >= WindowSize
  PROVE  Ending(n) \in Windows /\ Newest(Ending(n)) = n
  BY SizePositive DEF Ending, Windows, Newest, Cells

(* The queue is empty or holds one window. *)
LEMMA QueueShape ==
  ASSUME TypeOK
  PROVE  queue = << >> \/ \E w \in Windows : queue = << w >>
  <1>1. queue \in Seq(Windows) /\ (Len(queue) = 0 \/ Len(queue) = 1)
    <2>1. queue \in Seq(Windows) /\ Len(queue) <= 1
      BY DEF TypeOK
    <2>2. PICK n \in Nat : n = Len(queue)
      BY <2>1
    <2>3. n <= 1 => n = 0 \/ n = 1
      OBVIOUS
    <2> QED BY <2>1, <2>2, <2>3
  <1>2. CASE Len(queue) = 0
    BY <1>1, <1>2
  <1>3. CASE Len(queue) = 1
    BY <1>1, <1>3
  <1> QED BY <1>1, <1>2, <1>3

(* What AlgoChain_Feed does to the queue: the first window of the samples  *)
(* up to the one just fed goes into an empty queue.                        *)
LEMMA FeedEffect ==
  ASSUME TypeOK, RingInv, Feed, calibrated
  PROVE  /\ fed' = fed + 1
         /\ queue' = IF fed + 1 >= WindowSize /\ queue = << >>
                     THEN << Ending(fed + 1) >> ELSE queue
  <1>1. fed' = fed + 1
        /\ queue' = IF winCount' >= WindowSize
                    THEN Sent(queue, GetWindow(window', winIdx')) ELSE queue
    BY DEF Feed
  <1>2. RingInv'
    BY RingStep
  <1>3. fed \in Nat
    BY PipelineAssumption DEF TypeOK
  <1>4. winCount' >= WindowSize <=> fed + 1 >= WindowSize
    BY <1>1, <1>2, <1>3, SizePositive DEF RingInv
  <1>5. ASSUME fed + 1 >= WindowSize
        PROVE  GetWindow(window', winIdx') = Ending(fed + 1)
    <2>1. \A t \in Cells : GetWindow(window', winIdx')[t] = Ending(fed + 1)[t]
      BY <1>1, <1>2, <1>5 DEF RingInv, Ending
    <2>2. /\ GetWindow(window', winIdx')
               = [t \in Cells |-> GetWindow(window', winIdx')[t]]
          /\ Ending(fed + 1) = [t \in Cells |-> Ending(fed + 1)[t]]
      BY DEF GetWindow, Ending
    <2> QED BY <2>1, <2>2
  <1> QED BY <1>1, <1>4, <1>5 DEF Sent

LEMMA BoundsAreNat ==
  ASSUME TypeOK
  PROVE  /\ fed \in Nat /\ taken \in Nat /\ busy \in Nat /\ ibusy \in Nat
         /\ air \in Nat /\ alcohol \in Nat /\ result \in Nat
         /\ winIdx \in Cells /\ window \in Windows /\ input \in Windows
  BY PipelineAssumption DEF TypeOK

LEMMA NewestNat ==
  ASSUME NEW w \in Windows
  PROVE  Newest(w) \in Nat
  BY SizePositive DEF Newest, Windows, Cells

LEMMA InvInit == Init => PipelineInv
  <1> SUFFICES ASSUME Init PROVE PipelineInv
    OBVIOUS
  <1> USE PipelineAssumption DEF Init
  <1>1. TypeOK
    BY DEF TypeOK, Windows, Cells, NoWindow
  <1>2. RingInv
    BY DEF RingInv, Cells
  <1>3. WindowsConsecutive /\ WaitingIsFirst /\ ResultsInOrder /\ OrderInv
    BY DEF WindowsConsecutive, WaitingIsFirst, ResultsInOrder, OrderInv, Working
  <1> QED BY <1>1, <1>2, <1>3 DEF PipelineInv

LEMMA TypeStep ==
  ASSUME TypeOK, RingInv, OrderInv, [Next]_vars
  PROVE  TypeOK'
  <1> USE PipelineAssumption, SizePositive
  <1> USE DEF TypeOK, sensor, infer, timing, ring, results, Fault, Ready
  <1>1. CASE SensorAbsent
    BY <1>1 DEF SensorAbsent
  <1>2. CASE StartWarmup
    BY <1>2 DEF StartWarmup
  <1>3. CASE EndWarmup
    BY <1>3 DEF EndWarmup
  <1>4. CASE CalibrationSample
    BY <1>4 DEF CalibrationSample, ReadADC
  <1>5. CASE Calibrate
    BY <1>5 DEF Calibrate
  <1>6. CASE DelayUntil
    BY <1>6 DEF DelayUntil
  <1>7. CASE UpdateTH
    <2>1. \/ thAge' = 0 /\ busy' \in ThTimes
          \/ thAge' = thAge /\ busy' = busy
      BY <1>7 DEF UpdateTH
    <2>2. thAge' \in 0 .. ThPeriod /\ busy' \in Nat
      <3>1. thAge \in 0 .. ThPeriod /\ busy \in Nat /\ ThPeriod \in Nat /\ ThTimes \subseteq Nat
        BY PipelineAssumption
      <3>2. 0 \in 0 .. ThPeriod
        BY <3>1
      <3> QED BY ONLY <2>1, <3>1, <3>2
    <2> QED BY <1>7, <2>2 DEF UpdateTH
  <1>8. CASE ReadChannels
    BY <1>8 DEF ReadChannels, ReadADC
  <1>9. CASE Feed /\ ~calibrated
    BY <1>9 DEF Feed
  <1>10. CASE Feed /\ calibrated
    <2>1. fed' = fed + 1 /\ queue' = IF fed + 1 >= WindowSize /\ queue = << >>
                                     THEN << Ending(fed + 1) >> ELSE queue
      BY <1>10, FeedEffect
    <2>2. fed < MaxFed /\ fed + 1 \in Nat
      BY <1>10 DEF Feed, OrderInv
    <2>3. queue' \in Seq(Windows) /\ Len(queue') <= 1
      <3>1. CASE fed + 1 >= WindowSize /\ queue = << >>
        <4>1. PICK w \in Windows : w = Ending(fed + 1)
          BY <2>2, <3>1, EndingWindow
        <4> QED BY <2>1, <3>1, <4>1
      <3>2. CASE ~(fed + 1 >= WindowSize /\ queue = << >>)
        BY <2>1, <3>2
      <3> QED BY <3>1, <3>2
    <2>4. window' \in Windows /\ winIdx' \in Cells
      BY <1>10, <2>2, NextPosition DEF Feed, Windows
    <2>5. winCount' \in 0 .. WindowSize
      BY <1>10 DEF Feed
    <2> QED BY <1>10, <2>1, <2>2, <2>3, <2>4, <2>5 DEF Feed
  <1>11. CASE InferenceBoot
    BY <1>11 DEF InferenceBoot
  <1>12. CASE Receive
    <2>1. queue' = << >> /\ input' \in Windows
      BY <1>12, QueueShape DEF Receive
    <2> QED BY <1>12, <2>1 DEF Receive
  <1>13. CASE EndRun
    BY <1>13 DEF EndRun
  <1>14. CASE PublishAir
    BY <1>14, NewestNat DEF PublishAir
  <1>15. CASE PublishAlcohol
    BY <1>15, NewestNat DEF PublishAlcohol
  <1>16. CASE PublishResult
    BY <1>16 DEF PublishResult
  <1>17. CASE Tick
    BY <1>17 DEF Tick, Countdown
  <1>18. CASE Quiet \/ UNCHANGED vars
    BY <1>18 DEF Quiet, vars
  <1> QED BY <1>1, <1>2, <1>3, <1>4, <1>5, <1>6, <1>7, <1>8, <1>9, <1>10, <1>11,
             <1>12, <1>13, <1>14, <1>15, <1>16, <1>17, <1>18
          DEF Next, Sensor, Inference

(* The steps that leave the ring, the queue and the results alone. *)
Private == \/ SensorAbsent \/ StartWarmup \/ EndWarmup \/ CalibrationSample \/ Calibrate
           \/ DelayUntil \/ UpdateTH \/ ReadChannels \/ (Feed /\ ~calibrated)
           \/ InferenceBoot \/ Tick \/ Quiet \/ UNCHANGED vars

LEMMA PrivateStep ==
  ASSUME TypeOK, Private
  PROVE  /\ UNCHANGED <<ring, queue, input, results, taken>>
         /\ ipc' = ipc \/ (ipc = "boot" /\ ipc' \in {"wait", "suspended"})
         /\ spc' \in {"awake", "read", "feed"} =>
              spc \in {"awake", "read", "feed"} \/ fed < MaxFed
  BY DEF Private, SensorAbsent, StartWarmup, EndWarmup, CalibrationSample, Calibrate,
         DelayUntil, UpdateTH, ReadChannels, Feed, InferenceBoot, Tick, Quiet, vars,
         sensor, infer, results, Ready

(* A window of consecutive samples stays one when samples are added. *)
LEMMA ConsecutiveStays ==
  ASSUME NEW m \in Nat, NEW n \in Nat, m <= n, NEW w \in Windows, Consecutive(w, m)
  PROVE  Consecutive(w, n)
  BY SizePositive, NewestNat DEF Consecutive

LEMMA EndingConsecutive ==
  ASSUME NEW n \in Nat, n >= WindowSize
  PROVE  Consecutive(Ending(n), n)
  <1>1. Newest(Ending(n)) = n
    BY EndingWindow
  <1>2. \A t \in Cells : Ending(n)[t] = n - (WindowSize - 1) + t
    BY DEF Ending
  <1> QED BY <1>1, <1>2, SizePositive DEF Consecutive

LEMMA RingKept ==
  ASSUME RingInv, UNCHANGED ring
  PROVE  RingInv'
  BY DEF RingInv, ring, GetWindow

LEMMA PrivateInv ==
  ASSUME PipelineInv, TypeOK', Private
  PROVE  PipelineInv'
  <1>1. TypeOK
    BY DEF PipelineInv
  <1>2. /\ UNCHANGED <<ring, queue, input, results, taken>>
        /\ ipc' = ipc \/ (ipc = "boot" /\ ipc' \in {"wait", "suspended"})
        /\ spc' \in {"awake", "read", "feed"} =>
             spc \in {"awake", "read", "feed"} \/ fed < MaxFed
    BY <1>1, PrivateStep
  <1>3. RingInv'
    BY <1>2, RingKept DEF PipelineInv
  <1>4. Working' = Working
    BY <1>2 DEF Working
  <1>5. WindowsConsecutive' /\ WaitingIsFirst'
    BY <1>2, <1>4 DEF PipelineInv, WindowsConsecutive, WaitingIsFirst, Consecutive, Newest, ring
  <1>6. ResultsInOrder'
    BY <1>2 DEF PipelineInv, ResultsInOrder, results
  <1>7. OrderInv'
    BY <1>2, <1>4 DEF PipelineInv, OrderInv, Newest, results, ring
  <1> QED BY <1>3, <1>5, <1>6, <1>7 DEF PipelineInv

LEMMA FeedInv ==
  ASSUME PipelineInv, TypeOK', Feed, calibrated
  PROVE  PipelineInv'
  <1>1. TypeOK /\ RingInv /\ WindowsConsecutive /\ WaitingIsFirst /\ ResultsInOrder /\ OrderInv
    BY DEF PipelineInv
  <1>2. /\ fed' = fed + 1
        /\ queue' = IF fed + 1 >= WindowSize /\ queue = << >>
                    THEN << Ending(fed + 1) >> ELSE queue
    BY <1>1, FeedEffect
  <1>3. spc' = "loop" /\ UNCHANGED <<ipc, input, taken, air, alcohol, result>> /\ Working' = Working
    BY DEF Feed, infer, results, Working
  <1>4. /\ fed \in Nat /\ taken \in Nat /\ air \in Nat /\ input \in Windows
        /\ fed + 1 \in Nat /\ fed <= fed'
    BY <1>1, <1>2, BoundsAreNat
  <1>5. RingInv'
    BY <1>1, RingStep
  <1>6. Working => Consecutive(input', fed') /\ input' = input
    BY <1>1, <1>2, <1>3, <1>4, ConsecutiveStays DEF WindowsConsecutive
  <1>7. CASE fed + 1 >= WindowSize /\ queue = << >>
    <2>1. queue' = << Ending(fed + 1) >> /\ Newest(Ending(fed + 1)) = fed + 1
      BY <1>2, <1>4, <1>7, EndingWindow
    <2>2. Consecutive(Ending(fed + 1), fed')
      BY <1>2, <1>4, <1>7, EndingConsecutive
    <2>3. Head(queue') = Ending(fed + 1) /\ queue' # << >>
      BY <2>1
    <2>4. WindowsConsecutive'
      BY <1>2, <1>3, <1>6, <2>2, <2>3 DEF WindowsConsecutive
    <2>5. Working => fed = taken
      BY <1>1, <1>7 DEF OrderInv
    <2>6. WaitingIsFirst'
      BY <1>3, <2>1, <2>3, <2>5 DEF WaitingIsFirst, Newest
    <2>7. OrderInv'
      BY <1>1, <1>2, <1>3, <1>4, <1>7, <2>1, <2>3, SizePositive DEF OrderInv, Newest
    <2> QED BY <1>1, <1>3, <1>5, <2>4, <2>6, <2>7 DEF PipelineInv, ResultsInOrder
  <1>8. CASE ~(fed + 1 >= WindowSize /\ queue = << >>)
    <2>1. queue' = queue
      BY <1>2, <1>8
    <2>2. queue # << >> => Consecutive(Head(queue), fed')
      <3>1. ASSUME queue # << >> PROVE Head(queue) \in Windows
        BY <1>1, <3>1, QueueShape
      <3> QED BY <1>1, <1>2, <1>4, <3>1, ConsecutiveStays DEF WindowsConsecutive
    <2>3. WindowsConsecutive'
      BY <1>3, <1>6, <2>1, <2>2 DEF WindowsConsecutive
    <2>4. WaitingIsFirst'
      BY <1>1, <1>3, <2>1 DEF WaitingIsFirst, Newest
    <2>5. OrderInv'
      <3>1. fed < WindowSize => queue = << >> /\ ~Working
        BY <1>1 DEF OrderInv
      <3>2. fed + 1 < WindowSize => queue = << >> /\ ~Working
        BY <1>4, <3>1, SizePositive
      <3>3. ~(Working /\ queue = << >>)
        BY <1>4, <1>8, <3>1, SizePositive
      <3> QED BY <1>1, <1>2, <1>3, <1>4, <2>1, <3>2, <3>3, SizePositive DEF OrderInv, Newest
    <2> QED BY <1>1, <1>3, <1>5, <2>3, <2>4, <2>5 DEF PipelineInv, ResultsInOrder
  <1> QED BY <1>7, <1>8

LEMMA ReceiveInv ==
  ASSUME PipelineInv, TypeOK', Receive
  PROVE  PipelineInv'
  <1>1. TypeOK /\ RingInv /\ WindowsConsecutive /\ ResultsInOrder /\ OrderInv
    BY DEF PipelineInv
  <1>2. PICK w \in Windows : queue = << w >>
    BY <1>1, QueueShape DEF Receive
  <1>3. /\ queue' = << >> /\ input' = w /\ taken' = fed /\ ipc' = "run" /\ ipc = "wait"
        /\ UNCHANGED <<spc, ring, fed, air, alcohol, result>>
    BY <1>2 DEF Receive, sensor, results, ring
  <1>4. RingInv'
    BY <1>1, <1>3, RingKept
  <1>5. Consecutive(w, fed) /\ Newest(w) \in WindowSize .. fed /\ air < Newest(w)
    BY <1>1, <1>2 DEF WindowsConsecutive, Consecutive, OrderInv
  <1>6. /\ fed \in Nat /\ air \in Nat /\ Newest(w) \in Nat
        /\ Newest(w) <= fed /\ fed >= WindowSize /\ air <= Newest(w) /\ air <= fed
    BY <1>1, <1>5, BoundsAreNat, NewestNat, SizePositive
  <1>7. WindowsConsecutive' /\ WaitingIsFirst'
    BY <1>3, <1>5 DEF WindowsConsecutive, WaitingIsFirst, Consecutive, Newest
  <1>8. ResultsInOrder'
    BY <1>1, <1>3 DEF ResultsInOrder
  <1>9. OrderInv'
    BY <1>1, <1>3, <1>6, SizePositive DEF OrderInv, Newest, Working
  <1> QED BY <1>4, <1>7, <1>8, <1>9 DEF PipelineInv

(* The steps of InferenceTask after AI_Run. *)
LEMMA PublishInv ==
  ASSUME PipelineInv, TypeOK', EndRun \/ PublishAir \/ PublishAlcohol \/ PublishResult
  PROVE  PipelineInv'
  <1>1. TypeOK /\ RingInv /\ WindowsConsecutive /\ WaitingIsFirst /\ ResultsInOrder /\ OrderInv
    BY DEF PipelineInv
  <1>2. UNCHANGED <<spc, ring, fed, queue, input, taken>> /\ Working
    BY DEF EndRun, PublishAir, PublishAlcohol, PublishResult, sensor, ring, Working
  <1>3. RingInv'
    BY <1>1, <1>2, RingKept
  <1>4. WindowsConsecutive' /\ WaitingIsFirst'
    BY <1>1, <1>2 DEF WindowsConsecutive, WaitingIsFirst, Consecutive, Newest, Working
  <1>5. /\ fed \in Nat /\ taken \in Nat /\ air \in Nat /\ alcohol \in Nat /\ result \in Nat
        /\ Newest(input) \in Nat /\ Newest(input) <= taken /\ taken <= fed
        /\ air <= Newest(input)
    BY <1>1, <1>2, BoundsAreNat, NewestNat DEF OrderInv
  <1>6. queue # << >> => Newest(Head(queue)) = taken + 1
    BY <1>1, <1>2 DEF WaitingIsFirst
  <1>7. queue # << >> => Newest(input) < Newest(Head(queue))
    BY <1>5, <1>6
  <1>8. CASE EndRun
    BY <1>1, <1>2, <1>3, <1>4, <1>8
       DEF EndRun, results, PipelineInv, ResultsInOrder, OrderInv, Newest, Working
  <1>9. CASE PublishAir
    <2>1. /\ air' = Newest(input) /\ UNCHANGED <<alcohol, result>>
          /\ ipc = "air" /\ ipc' = "alcohol"
      BY <1>9 DEF PublishAir
    <2>2. ResultsInOrder'
      BY <1>1, <1>5, <2>1 DEF ResultsInOrder
    <2>3. OrderInv'
      BY <1>1, <1>2, <1>5, <1>7, <2>1, SizePositive DEF OrderInv, Newest, Working
    <2> QED BY <1>3, <1>4, <2>2, <2>3 DEF PipelineInv
  <1>10. CASE PublishAlcohol
    <2>1. /\ alcohol' = Newest(input) /\ UNCHANGED <<air, result>>
          /\ ipc = "alcohol" /\ ipc' = "result" /\ air = Newest(input)
      BY <1>1, <1>10 DEF PublishAlcohol, OrderInv
    <2>2. ResultsInOrder'
      BY <1>1, <1>5, <2>1 DEF ResultsInOrder
    <2>3. OrderInv'
      BY <1>1, <1>2, <1>5, <1>7, <2>1, SizePositive DEF OrderInv, Newest, Working
    <2> QED BY <1>3, <1>4, <2>2, <2>3 DEF PipelineInv
  <1>11. CASE PublishResult
    <2>1. /\ result' = alcohol /\ UNCHANGED <<air, alcohol>>
          /\ ipc = "result" /\ ipc' = "wait" /\ air = alcohol /\ air = Newest(input)
      BY <1>1, <1>11 DEF PublishResult, OrderInv
    <2>2. ResultsInOrder'
      BY <1>1, <1>5, <2>1 DEF ResultsInOrder
    <2>3. OrderInv'
      BY <1>1, <1>2, <1>5, <1>7, <2>1, SizePositive DEF OrderInv, Newest, Working
    <2> QED BY <1>3, <1>4, <2>2, <2>3 DEF PipelineInv
  <1> QED BY <1>8, <1>9, <1>10, <1>11

LEMMA InvStep == PipelineInv /\ [Next]_vars => PipelineInv'
  <1> SUFFICES ASSUME PipelineInv, [Next]_vars PROVE PipelineInv'
    OBVIOUS
  <1>1. TypeOK'
    BY TypeStep DEF PipelineInv
  <1>2. \/ Private \/ (Feed /\ calibrated) \/ Receive
        \/ EndRun \/ PublishAir \/ PublishAlcohol \/ PublishResult
    BY DEF Private, Next, Sensor, Inference
  <1> QED BY <1>1, <1>2, PrivateInv, FeedInv, ReceiveInv, PublishInv

(* The invariant holds, for every window size, timing and bound. *)
THEOREM Invariant == Spec => []PipelineInv
  BY InvInit, InvStep, PTL DEF Spec

(* InferenceTask gets the WindowSize samples up to some sample, in order,  *)
(* wherever AlgoChain's ring had wrapped.                                  *)
THEOREM OrderedWindows == Spec => []WindowsConsecutive
  <1>1. PipelineInv => WindowsConsecutive
    BY DEF PipelineInv
  <1> QED BY <1>1, Invariant, PTL

(* The window that waits while InferenceTask works is the first one that   *)
(* was completed since.                                                    *)
THEOREM FirstWaits == Spec => []WaitingIsFirst
  <1>1. PipelineInv => WaitingIsFirst
    BY DEF PipelineInv
  <1> QED BY <1>1, Invariant, PTL

(* The three results stay in order, and agree while InferenceTask waits.   *)
THEOREM OrderedResults == Spec => []ResultsInOrder
  <1>1. PipelineInv => ResultsInOrder
    BY DEF PipelineInv
  <1> QED BY <1>1, Invariant, PTL

(* A published result is about a later window than the one before it. *)
LEMMA ForwardStep ==
  ASSUME PipelineInv, [Next]_vars
  PROVE  air' >= air /\ alcohol' >= alcohol /\ result' >= result
  <1>1. TypeOK /\ ResultsInOrder /\ OrderInv
    BY DEF PipelineInv
  <1>2. /\ air \in Nat /\ alcohol \in Nat /\ result \in Nat /\ Newest(input) \in Nat
        /\ result <= alcohol /\ alcohol <= air
    BY <1>1, BoundsAreNat, NewestNat DEF ResultsInOrder
  <1>3. Working => air <= Newest(input)
    BY <1>1 DEF OrderInv
  <1>4. CASE Private \/ Feed \/ Receive \/ EndRun
    <2>1. UNCHANGED <<air, alcohol, result>>
      BY <1>1, <1>4, PrivateStep DEF Feed, Receive, EndRun, infer, results
    <2> QED BY <1>2, <2>1
  <1>5. CASE PublishAir \/ PublishAlcohol \/ PublishResult
    <2>1. Working
      BY <1>5 DEF PublishAir, PublishAlcohol, PublishResult, Working
    <2>2. \/ air' = Newest(input) /\ UNCHANGED <<alcohol, result>>
          \/ alcohol' = Newest(input) /\ UNCHANGED <<air, result>>
          \/ result' = alcohol /\ UNCHANGED <<air, alcohol>>
      BY <1>5 DEF PublishAir, PublishAlcohol, PublishResult
    <2> QED BY <1>2, <1>3, <2>1, <2>2
  <1> QED BY <1>4, <1>5 DEF Private, Next, Sensor, Inference

(* The results never go back to an earlier window. *)
THEOREM ResultsGoForward == Spec => ResultsForward
  <1>1. PipelineInv /\ [Next]_vars
          => [air' >= air /\ alcohol' >= alcohol /\ result' >= result]_vars
    BY ForwardStep
  <1> QED BY <1>1, Invariant, PTL DEF Spec, ResultsForward

(* A window is not the empty sequence. *)
LEMMA WindowNotEmpty ==
  ASSUME NEW w \in Windows
  PROVE  w # << >>
  <1>1. 0 \in DOMAIN w /\ 0 \notin DOMAIN << >>
    BY SizePositive DEF Windows, Cells
  <1> QED BY <1>1

LEMMA StreamInit == Init => Stream!Init
  BY DEF Init, Stream!Init, Slot, Stream!Empty, NoWindow, Cells

LEMMA StreamStep ==
  ASSUME PipelineInv, [Next]_vars
  PROVE  Stream!Next \/ UNCHANGED <<fed, Slot, input>>
  <1>1. TypeOK /\ RingInv
    BY DEF PipelineInv
  <1>2. queue = << >> <=> Slot = << >>
    BY <1>1, QueueShape, WindowNotEmpty DEF Slot
  <1>3. CASE Private \/ EndRun \/ PublishAir \/ PublishAlcohol \/ PublishResult
    <2>1. UNCHANGED <<fed, queue, input>>
      BY <1>1, <1>3, PrivateStep
         DEF EndRun, PublishAir, PublishAlcohol, PublishResult, sensor, ring
    <2> QED BY <2>1 DEF Slot
  <1>4. CASE Feed /\ calibrated
    <2>1. /\ fed' = fed + 1
          /\ queue' = IF fed + 1 >= WindowSize /\ queue = << >>
                      THEN << Ending(fed + 1) >> ELSE queue
          /\ input' = input
      BY <1>1, <1>4, FeedEffect DEF Feed, infer
    <2>2. Ending(fed + 1) = Stream!WindowEndingAt(fed')
      BY <2>1 DEF Ending, Stream!WindowEndingAt, Cells
    <2>3. Slot' = IF fed' >= WindowSize /\ Slot = << >>
                  THEN Stream!WindowEndingAt(fed') ELSE Slot
      BY <1>2, <2>1, <2>2 DEF Slot
    <2> QED BY <2>1, <2>3 DEF Stream!Next, Stream!Sample, Stream!Empty
  <1>5. CASE Receive
    <2>1. PICK w \in Windows : queue = << w >>
      BY <1>1, <1>5, QueueShape DEF Receive
    <2>2. queue' = << >> /\ input' = w /\ fed' = fed
      BY <1>5, <2>1 DEF Receive, sensor, ring
    <2>3. Slot = w /\ Slot' = << >> /\ Slot # << >>
      BY <1>2, <2>1, <2>2 DEF Slot
    <2> QED BY <2>2, <2>3 DEF Stream!Next, Stream!Take, Stream!Empty
  <1> QED BY <1>3, <1>4, <1>5 DEF Private, Next, Sensor, Inference

(* The ring, the queue and the two tasks implement WindowStream. *)
THEOREM Refinement == Spec => StreamSpec
  <1>1. PipelineInv /\ [Next]_vars => [Stream!Next]_<<fed, Slot, input>>
    BY StreamStep
  <1> QED BY <1>1, StreamInit, Invariant, PTL DEF Spec, StreamSpec, Stream!Spec

-----------------------------------------------------------------------------
(* The pace of the loop.  Transfers take a bounded time, and those of one  *)
(* pass fit in a period.                                                   *)
HasMax(S) == \E m \in S : \A n \in S : n <= m
PassFits == HasMax(ThTimes) /\ HasMax(ReadTimes) /\ Slack >= 0

LEMMA MaxIs ==
  ASSUME NEW S \in SUBSET Nat, HasMax(S)
  PROVE  MaxOf(S) \in Nat /\ \A n \in S : n <= MaxOf(S)
  <1>1. MaxOf(S) \in S /\ \A n \in S : n <= MaxOf(S)
    BY DEF HasMax, MaxOf
  <1> QED BY <1>1

LEMMA Longest ==
  ASSUME PassFits
  PROVE  /\ MaxOf(ThTimes) \in Nat /\ \A t \in ThTimes : t \in Nat /\ t <= MaxOf(ThTimes)
         /\ MaxOf(ReadTimes) \in Nat /\ \A t \in ReadTimes : t \in Nat /\ t <= MaxOf(ReadTimes)
         /\ Slack \in Nat /\ Slack = Period - MaxOf(ThTimes) - MaxOf(ReadTimes)
  <1>1. ThTimes \in SUBSET Nat /\ ReadTimes \in SUBSET Nat /\ Period \in Nat
    BY PipelineAssumption
  <1>2. /\ MaxOf(ThTimes) \in Nat /\ \A t \in ThTimes : t <= MaxOf(ThTimes)
        /\ MaxOf(ReadTimes) \in Nat /\ \A t \in ReadTimes : t <= MaxOf(ReadTimes)
    BY <1>1, MaxIs DEF PassFits
  <1> QED BY <1>1, <1>2 DEF PassFits, Slack

LEMMA OneMore ==
  ASSUME NEW a \in Int, NEW b \in Int
  PROVE  (a + 1) * b = a * b + b /\ a * b \in Int
  OBVIOUS

LEMMA PaceInit == Init => PaceInv
  BY PipelineAssumption DEF Init, PaceInv, SinceLast

(* Steps that leave SensorTask alone. *)
LEMMA PaceElsewhere ==
  ASSUME PaceInv, UNCHANGED <<spc, busy, lag, cal, calibrated, fed>>,
         faults' = 0 => faults = 0
  PROVE  PaceInv'
  BY DEF PaceInv, SinceLast, Within, Slack, StartLag

LEMMA PaceStart ==
  ASSUME TypeOK, PaceInv, PassFits,
         StartWarmup \/ EndWarmup \/ CalibrationSample \/ Calibrate
  PROVE  PaceInv'
  <1> DEFINE A == MaxOf(ThTimes)
             K == MaxOf(ReadTimes) + CalDelay
  <1> USE DEF PaceInv, SinceLast, Ready
  <1>0. /\ A \in Nat /\ \A t \in ThTimes : t \in Nat /\ t <= A
        /\ MaxOf(ReadTimes) \in Nat
        /\ \A t \in ReadTimes : t \in Nat /\ t <= MaxOf(ReadTimes)
        /\ K \in Nat /\ Warmup \in Nat /\ CalDelay \in Nat /\ CalSamples \in Nat
        /\ Slack \in Nat
    BY Longest, PipelineAssumption
  <1>1. busy \in Nat /\ lag \in Int /\ cal \in Nat /\ cal <= CalSamples /\ fed \in Nat
        /\ faults \in Nat
    BY PipelineAssumption DEF TypeOK
  <1>2. 0 * K = 0 /\ (cal + 1) * K = cal * K + K /\ cal * K \in Int /\ 0 * Slack = 0
    BY <1>0, <1>1, OneMore
  <1>3. StartLag = A + Warmup + CalSamples * K
    BY DEF StartLag
  <1> HIDE DEF A, K
  <1>4. PaceInv = (faults = 0 =>
          /\ spc = "boot" => SinceLast = 0
          /\ spc \in {"boot", "warmup"} => cal = 0
          /\ spc \in {"boot", "warmup", "calibrate"} => fed = 0
          /\ spc \in {"warmup", "calibrate"} => SinceLast <= A + Warmup + cal * K
          /\ spc \in {"loop", "awake", "read", "feed"} => calibrated
          /\ spc = "loop" /\ fed < MaxFed =>
               /\ busy = 0
               /\ lag <= Period - Slack \/ lag + fed * Slack <= StartLag
          /\ spc = "awake" => SinceLast = 0 \/ Within(0)
          /\ spc = "read" => SinceLast <= A \/ Within(A)
          /\ spc = "feed" =>
               SinceLast <= Period - Slack \/ Within(Period - Slack)
          /\ spc # "suspended")
    BY DEF A, K
  <1>5. CASE StartWarmup
    <2>1. PICK t \in ThTimes : busy' = t + Warmup
      BY <1>5 DEF StartWarmup
    <2>2. /\ spc = "boot" /\ busy = 0 /\ spc' = "warmup" /\ UNCHANGED <<lag, cal, fed, faults>>
      BY <1>5 DEF StartWarmup, ring
    <2>3. faults = 0 => lag' = 0 /\ cal' = 0 /\ fed' = 0 /\ busy' <= A + Warmup
      BY <1>0, <1>1, <2>1, <2>2
    <2>4. faults = 0 => lag' + busy' <= A + Warmup + cal' * K
      BY <1>0, <1>1, <1>2, <2>1, <2>3
    <2> QED BY <2>2, <2>3, <2>4 DEF A, K
  <1>6. CASE EndWarmup
    <2>1. spc = "warmup" /\ spc' = "calibrate" /\ UNCHANGED <<lag, busy, cal, fed, faults>>
      BY <1>6 DEF EndWarmup, ring, timing
    <2> QED BY <2>1
  <1>7. CASE CalibrationSample
    <2>1. /\ spc = "calibrate" /\ busy = 0 /\ cal' = cal + 1
          /\ UNCHANGED <<spc, lag, fed>>
          /\ \/ faults' = faults + 1
             \/ faults' = faults /\ \E t \in ReadTimes : busy' = t + CalDelay
      BY <1>7 DEF CalibrationSample, ReadADC, Fault, ring
    <2>2. faults' = 0 =>
            faults = 0 /\ \E t \in ReadTimes : busy' = t + CalDelay
      BY <1>1, <2>1
    <2>3. faults' = 0 => lag <= A + Warmup + cal * K /\ busy' <= K /\ busy' \in Nat
      BY <1>0, <1>1, <1>4, <2>1, <2>2 DEF K
    <2>4. faults' = 0 => lag' + busy' <= A + Warmup + cal' * K
      BY <1>0, <1>1, <1>2, <2>1, <2>3
    <2> QED BY <2>1, <2>2, <2>4 DEF A, K
  <1>8. CASE Calibrate
    <2>1. /\ spc = "calibrate" /\ busy = 0 /\ cal = CalSamples /\ calibrated' = TRUE
          /\ spc' = "loop" /\ UNCHANGED <<lag, busy, cal, fed, faults>>
      BY <1>8 DEF Calibrate, ring, timing
    <2>2. faults = 0 => fed = 0 /\ lag <= StartLag
      BY <1>1, <1>3, <1>4, <2>1
    <2>3. faults = 0 => (lag + fed * Slack <= StartLag)'
      BY <1>1, <1>2, <2>1, <2>2 DEF Slack, StartLag
    <2> QED BY <2>1, <2>3
  <1> QED BY <1>5, <1>6, <1>7, <1>8

(* A pass begins and ends SinceLast later by what its transfers took. *)
LEMMA PacePass ==
  ASSUME TypeOK, PaceInv, PassFits, DelayUntil \/ UpdateTH \/ ReadChannels \/ Feed
  PROVE  PaceInv'
  <1> DEFINE A == MaxOf(ThTimes)
             B == MaxOf(ReadTimes)
  <1>0. /\ A \in Nat /\ \A t \in ThTimes : t \in Nat /\ t <= A
        /\ B \in Nat /\ \A t \in ReadTimes : t \in Nat /\ t <= B
        /\ Slack \in Nat /\ Slack = Period - A - B /\ Period \in Nat
    BY Longest, PipelineAssumption
  <1>1. busy \in Nat /\ lag \in Int /\ fed \in Nat /\ faults \in Nat
    BY PipelineAssumption DEF TypeOK
  <1>2. (fed + 1) * Slack = fed * Slack + Slack /\ fed * Slack \in Int
    BY <1>0, <1>1, OneMore
  <1>3. StartLag \in Int
    BY <1>0, PipelineAssumption DEF StartLag
  <1>4. Slack' = Slack /\ StartLag' = StartLag
    BY DEF Slack, StartLag
  <1> HIDE DEF A, B
  <1>5. CASE DelayUntil
    <2>1. /\ spc = "loop" /\ busy = 0 /\ fed < MaxFed /\ lag' = lag - Period /\ spc' = "awake"
          /\ busy' = IF lag < Period THEN Period - lag ELSE 0
          /\ UNCHANGED <<cal, calibrated, fed, faults>>
      BY <1>5 DEF DelayUntil, Ready, ring
    <2>2. faults = 0 => calibrated /\ (lag <= Period - Slack \/ lag + fed * Slack <= StartLag)
      BY <2>1 DEF PaceInv
    <2>3. faults = 0 => lag' + busy' = 0 \/ lag' + busy' + fed * Slack + Period <= StartLag
      BY <1>0, <1>1, <1>2, <1>3, <2>1, <2>2
    <2>4. faults' = 0 => (SinceLast = 0 \/ Within(0))'
      BY <1>1, <1>2, <1>3, <1>4, <2>1, <2>3 DEF SinceLast, Within
    <2> QED BY <2>1, <2>2, <2>4 DEF PaceInv
  <1>6. CASE UpdateTH
    <2>1. /\ spc = "awake" /\ busy = 0 /\ spc' = "read" /\ (busy' \in ThTimes \/ busy' = 0)
          /\ UNCHANGED <<lag, cal, calibrated, fed, faults>>
      BY <1>1, <1>6 DEF UpdateTH, Ready, ring
    <2>2. faults = 0 => lag = 0 \/ lag + fed * Slack + Period <= StartLag
      BY <1>1, <1>3, <2>1 DEF PaceInv, SinceLast, Within
    <2>6. faults = 0 => calibrated
      BY <2>1 DEF PaceInv
    <2>3. busy' \in Nat /\ busy' <= A
      BY <1>0, <2>1
    <2>4. faults = 0 => \/ lag' + busy' <= A
                        \/ lag' + busy' + fed * Slack + Period <= StartLag + A
      <3>1. PICK t \in Nat : t = busy'
        BY <2>3
      <3>2. A \in Nat /\ Period \in Nat /\ t <= A
        BY <1>0, <2>3, <3>1
      <3>3. PICK late \in Int : late = fed * Slack
        BY <1>2
      <3>4. faults = 0 => lag = 0 \/ lag + late + Period <= StartLag
        BY <2>2, <3>3
      <3>5. faults = 0 => lag + t <= A \/ lag + t + late + Period <= StartLag + A
        BY <1>1, <1>3, <3>2, <3>4
      <3> QED BY <2>1, <3>1, <3>3, <3>5
    <2>5. faults' = 0 => (SinceLast <= A \/ Within(A))'
      BY <1>4, <2>1, <2>4 DEF SinceLast, Within, A
    <2> QED BY <2>1, <2>6, <2>5 DEF PaceInv, A
  <1>7. CASE ReadChannels
    <2>1. /\ spc = "read" /\ busy = 0 /\ UNCHANGED <<lag, cal, calibrated, fed>>
          /\ \/ faults' = faults + 1
             \/ faults' = faults /\ spc' = "feed" /\ busy' \in ReadTimes
      <3>1. PICK ok \in BOOLEAN : ReadADC(ok, 0) /\ spc' = IF ok THEN "feed" ELSE "loop"
        BY <1>7 DEF ReadChannels
      <3>2. CASE ok = TRUE
        <4>1. busy' \in {t + 0 : t \in ReadTimes} /\ faults' = faults
          BY <3>1, <3>2 DEF ReadADC
        <4> QED BY <1>0, <1>7, <3>1, <3>2, <4>1 DEF ReadChannels, Ready, ring
      <3>3. CASE ok = FALSE
        BY <1>7, <3>1, <3>3 DEF ReadChannels, Ready, ring, ReadADC, Fault
      <3> QED BY <3>2, <3>3
    <2>2. CASE faults' = faults + 1
      BY <1>1, <2>2 DEF PaceInv
    <2>3. CASE faults' = faults /\ spc' = "feed" /\ busy' \in ReadTimes
      <3>1. faults = 0 => calibrated /\ (lag <= A \/ lag + fed * Slack + Period <= StartLag + A)
        BY <1>1, <2>1 DEF PaceInv, SinceLast, Within, A
      <3>2. faults = 0 =>
              \/ lag' + busy' <= Period - Slack
              \/ lag' + busy' + fed * Slack + Period <= StartLag + (Period - Slack)
        BY <1>0, <1>1, <1>2, <1>3, <2>1, <2>3, <3>1
      <3>3. faults' = 0 =>
              (SinceLast <= Period - Slack \/ Within(Period - Slack))'
        BY <1>4, <2>1, <2>3, <3>2 DEF SinceLast, Within
      <3> QED BY <2>1, <2>3, <3>1, <3>3 DEF PaceInv
    <2> QED BY <2>1, <2>2, <2>3
  <1>8. CASE Feed
    <2>1. /\ spc = "feed" /\ busy = 0 /\ spc' = "loop"
          /\ UNCHANGED <<lag, busy, cal, calibrated, faults>>
          /\ calibrated => fed' = fed + 1
      BY <1>8 DEF Feed, Ready, timing
    <2>2. faults = 0 =>
            /\ calibrated
            /\ \/ lag <= Period - Slack
               \/ lag + fed * Slack + Period <= StartLag + (Period - Slack)
      BY <1>1, <2>1 DEF PaceInv, SinceLast, Within
    <2>3. faults = 0 => lag <= Period - Slack \/ lag + fed' * Slack <= StartLag
      BY <1>0, <1>1, <1>2, <1>3, <2>1, <2>2
    <2> QED BY <1>4, <2>1, <2>2, <2>3 DEF PaceInv
  <1> QED BY <1>5, <1>6, <1>7, <1>8

LEMMA PaceTick ==
  ASSUME TypeOK, PaceInv, Tick
  PROVE  PaceInv'
  <1>1. busy \in Nat /\ ibusy \in Nat /\ lag \in Int
    BY DEF TypeOK
  <1>2. /\ busy > 0 \/ spc = "suspended" \/ (spc = "loop" /\ fed = MaxFed)
        /\ busy' = (IF busy > 0 THEN busy - 1 ELSE 0) /\ lag' = lag + 1
        /\ UNCHANGED <<spc, cal, calibrated, fed, faults>>
    BY DEF Tick, SensorBlocked, Countdown, ring
  <1>3. Slack' = Slack /\ StartLag' = StartLag
    BY DEF Slack, StartLag
  <1>4. CASE busy > 0
    <2>1. SinceLast' = SinceLast
      BY <1>1, <1>2, <1>4 DEF SinceLast
    <2>2. ~(faults = 0 /\ spc = "loop" /\ fed < MaxFed)
      BY <1>1, <1>4 DEF PaceInv
    <2> QED BY <1>2, <1>3, <2>1, <2>2 DEF PaceInv, Within
  <1>5. CASE busy = 0
    <2>1. spc = "suspended" \/ (spc = "loop" /\ fed = MaxFed)
      BY <1>2, <1>5
    <2>2. MaxFed \in Nat
      BY PipelineAssumption
    <2> QED BY <1>2, <2>1, <2>2 DEF PaceInv
  <1> QED BY <1>1, <1>4, <1>5

LEMMA PaceStep ==
  ASSUME TypeOK, PaceInv, PassFits, [Next]_vars
  PROVE  PaceInv'
  <1>1. CASE Inference
    <2>1. UNCHANGED <<spc, busy, lag, cal, calibrated, fed>>
      BY <1>1 DEF Inference, InferenceBoot, Receive, EndRun, PublishAir, PublishAlcohol,
                  PublishResult, sensor, timing, ring
    <2>2. faults' = faults \/ faults' = faults + 1
      BY <1>1 DEF Inference, InferenceBoot, Receive, EndRun, PublishAir, PublishAlcohol,
                  PublishResult, Fault
    <2>3. faults \in Nat
      BY PipelineAssumption DEF TypeOK
    <2> QED BY <2>1, <2>2, <2>3, PaceElsewhere
  <1>2. CASE SensorAbsent
    <2>1. faults' # 0
      BY <1>2, PipelineAssumption DEF SensorAbsent, Fault, TypeOK
    <2> QED BY <2>1 DEF PaceInv
  <1>3. CASE Quiet \/ UNCHANGED vars
    BY <1>3, PaceElsewhere DEF Quiet, vars, sensor, timing, ring
  <1> QED BY <1>1, <1>2, <1>3, PaceStart, PacePass, PaceTick DEF Next, Sensor

(* PaceInv holds in every state, whatever the warm-up and the transfers    *)
(* take, when the transfers of one pass fit in a period.                   *)
THEOREM PaceIsInvariant ==
  ASSUME PassFits
  PROVE  Spec => []PaceInv
  <1>1. PipelineInv /\ PaceInv /\ [Next]_vars => PaceInv'
    BY PaceStep DEF PipelineInv
  <1> QED BY <1>1, PaceInit, Invariant, PTL DEF Spec

(* The delay of the start is caught up, each pass making it Slack shorter  *)
(* (sensor_task.c:92-95).                                                  *)
THEOREM LagIsCaughtUp ==
  ASSUME PassFits
  PROVE  Spec => []CatchesUp
  <1>1. PipelineInv /\ PaceInv => CatchesUp
    <2> SUFFICES ASSUME PipelineInv, PaceInv, faults = 0, Ready("awake")
                 PROVE  lag = 0 \/ lag + fed * Slack + Period <= StartLag
      BY DEF CatchesUp
    <2>1. SinceLast = 0 \/ Within(0)
      BY DEF PaceInv, Ready
    <2>2. SinceLast = lag
      BY DEF SinceLast, Ready, PipelineInv, TypeOK
    <2>3. StartLag \in Int
      BY Longest, PipelineAssumption DEF StartLag
    <2>4. PICK late : late = fed * Slack
      OBVIOUS
    <2> QED BY <2>1, <2>2, <2>3, <2>4 DEF Within
  <1> QED BY <1>1, Invariant, PaceIsInvariant, PTL
=============================================================================
