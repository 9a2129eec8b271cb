--------------------------- MODULE SensorPipeline ---------------------------
(***************************************************************************)
(* The sensor board (STM32F411): SensorTask reads the gas sensors at 10 Hz *)
(* into the ring of the algorithm chain and offers every full window to a  *)
(* queue of one element; InferenceTask, of lower priority, runs the neural *)
(* network on the windows it takes from the queue.                         *)
(*                                                                         *)
(* A sample is its number: the n-th sample AlgoChain_Feed accepted.  The   *)
(* four channels and their filters go through the same steps and are one   *)
(* cell here.  Time is discrete; a delay or a transfer is a countdown, and *)
(* time passes only when no task is ready to run.                          *)
(***************************************************************************)
EXTENDS Integers, Sequences

CONSTANTS
  WindowSize,   (* WINDOW_SIZE                                             *)
  Period,       (* SENSOR_PERIOD_MS                                        *)
  Warmup,       (* MQ_WARMUP_MS                                            *)
  CalSamples,   (* CALIBRATION_SAMPLES                                     *)
  CalDelay,     (* the delay after each calibration sample                 *)
  ThPeriod,     (* TH_UPDATE_PERIOD_MS                                     *)
  ReadTimes,    (* how long BSP_ADS1115_ReadAllChannels may take           *)
  FailTimes,    (* how long it may take when a transfer fails              *)
  ThTimes,      (* how long BSP_SHT30_Read may take                        *)
  RunTimes,     (* how long AI_Run may take, preemption included           *)
  MaxFed,       (* bound on the samples                                    *)
  MaxFaults     (* bound on the faults of the I2C devices and the network  *)

ASSUME PipelineAssumption ==
  /\ WindowSize \in Nat \ {0} /\ Period \in Nat \ {0}
  /\ Warmup \in Nat /\ CalSamples \in Nat /\ CalDelay \in Nat /\ ThPeriod \in Nat
  /\ ReadTimes \subseteq Nat /\ FailTimes \subseteq Nat
  /\ ThTimes \subseteq Nat /\ RunTimes \subseteq Nat
  /\ MaxFed \in Nat /\ MaxFaults \in Nat

VARIABLES
  spc,         (* SensorTask: where it is                                  *)
  busy,        (* SensorTask: time left of its delay or transfer           *)
  lag,         (* SensorTask: now - last_sample                            *)
  thAge,       (* SensorTask: now - last_th_tick, ThPeriod at most         *)
  cal,         (* do_calibration: samples taken                            *)
  calibrated,  (* AlgoChain: calibrated                                    *)
  window,      (* AlgoChain: the ring; 0 where nothing was stored          *)
  winIdx,      (* AlgoChain: win_idx                                       *)
  winCount,    (* AlgoChain: win_count                                     *)
  queue,       (* xInferenceQueue, of depth 1                              *)
  ipc,         (* InferenceTask: where it is                               *)
  ibusy,       (* InferenceTask: time left of AI_Run                       *)
  input,       (* InferenceTask: the window it took last                   *)
  air,         (* g_prob_air: last sample of the window it is about        *)
  alcohol,     (* g_prob_alcohol: likewise                                 *)
  result,      (* g_inference_result: likewise                             *)
  fed,         (* history: the samples fed so far                          *)
  taken,       (* history: fed when InferenceTask took its window          *)
  faults       (* faults that have happened                                *)

timing  == <<busy, lag, thAge>>
ring    == <<window, winIdx, winCount, fed>>
results == <<air, alcohol, result>>
sensor  == <<spc, timing, cal, calibrated, ring>>
infer   == <<ipc, ibusy, input, results, taken>>
vars    == <<sensor, infer, queue, faults>>

Cells   == 0 .. WindowSize - 1
Windows == [Cells -> Nat]

TypeOK ==
  /\ spc \in {"boot", "warmup", "calibrate", "loop", "awake", "read", "feed", "suspended"}
  /\ busy \in Nat /\ lag \in Int /\ thAge \in 0 .. ThPeriod
  /\ cal \in 0 .. CalSamples /\ calibrated \in BOOLEAN
  /\ window \in Windows /\ winIdx \in Cells /\ winCount \in 0 .. WindowSize
  /\ queue \in Seq(Windows) /\ Len(queue) <= 1
  /\ ipc \in {"boot", "wait", "run", "air", "alcohol", "result", "suspended"}
  /\ ibusy \in Nat /\ input \in Windows
  /\ air \in Nat /\ alcohol \in Nat /\ result \in Nat
  /\ fed \in 0 .. MaxFed /\ taken \in 0 .. MaxFed
  /\ faults \in 0 .. MaxFaults

NoWindow == [i \in Cells |-> 0]

Init ==
  /\ spc = "boot" /\ busy = 0 /\ lag = 0 /\ thAge = 0
  /\ cal = 0 /\ calibrated = FALSE
  /\ window = NoWindow /\ winIdx = 0 /\ winCount = 0
  /\ queue = << >>
  /\ ipc = "boot" /\ ibusy = 0 /\ input = NoWindow
  /\ air = 0 /\ alcohol = 0 /\ result = 0
  /\ fed = 0 /\ taken = 0 /\ faults = 0

Fault == faults < MaxFaults /\ faults' = faults + 1

Ready(pc) == spc = pc /\ busy = 0

(* BSP_ADS1115_ReadAllChannels, and a delay after it: ok is its result. *)
ReadADC(ok, delay) ==
  \/ ok /\ busy' \in {t + delay : t \in ReadTimes} /\ UNCHANGED faults
  \/ ~ok /\ busy' \in {t + delay : t \in FailTimes} /\ Fault

-----------------------------------------------------------------------------
(* BSP_ADS1115_Init fails: the task suspends itself. *)
SensorAbsent ==
  /\ Ready("boot")
  /\ Fault
  /\ spc' = "suspended"
  /\ UNCHANGED <<timing, cal, calibrated, ring, infer, queue>>

(* The first temperature and humidity, which may be missing, then the      *)
(* warm-up.  last_sample was taken before either.                          *)
StartWarmup ==
  /\ Ready("boot")
  /\ \E t \in ThTimes : busy' = t + Warmup
  /\ spc' = "warmup"
  /\ UNCHANGED <<lag, thAge, cal, calibrated, ring, infer, queue, faults>>

EndWarmup ==
  /\ Ready("warmup")
  /\ spc' = "calibrate"
  /\ UNCHANGED <<timing, cal, calibrated, ring, infer, queue, faults>>

(* One pass of the loop of do_calibration; a failed read counts too. *)
CalibrationSample ==
  /\ Ready("calibrate")
  /\ cal < CalSamples
  /\ cal' = cal + 1
  /\ \E ok \in BOOLEAN : ReadADC(ok, CalDelay)
  /\ UNCHANGED <<spc, lag, thAge, calibrated, ring, infer, queue>>

(* AlgoChain_Calibrate. *)
Calibrate ==
  /\ Ready("calibrate")
  /\ cal = CalSamples
  /\ calibrated' = TRUE
  /\ spc' = "loop"
  /\ UNCHANGED <<timing, cal, ring, infer, queue, faults>>

(* Mutant of DelayUntil: a plain delay of a period. *)
DelayAPeriod ==
  /\ Ready("loop")
  /\ fed < MaxFed
  /\ lag' = lag - Period
  /\ busy' = Period
  /\ spc' = "awake"
  /\ UNCHANGED <<thAge, cal, calibrated, ring, infer, queue, faults>>

(* vTaskDelayUntil: the next wake-up is a period after the previous one;   *)
(* when that is past there is no delay.                                    *)
DelayUntil ==
  /\ Ready("loop")
  /\ fed < MaxFed
  /\ lag' = lag - Period
  /\ busy' = IF lag < Period THEN Period - lag ELSE 0
  /\ spc' = "awake"
  /\ UNCHANGED <<thAge, cal, calibrated, ring, infer, queue, faults>>

(* BSP_SHT30_Read, when the last one is two seconds old. *)
UpdateTH ==
  /\ Ready("awake")
  /\ IF thAge >= ThPeriod
     THEN /\ thAge' = 0
          /\ busy' \in ThTimes
     ELSE UNCHANGED <<thAge, busy>>
  /\ spc' = "read"
  /\ UNCHANGED <<lag, cal, calibrated, ring, infer, queue, faults>>

(* A failed read skips the sample. *)
ReadChannels ==
  /\ Ready("read")
  /\ \E ok \in BOOLEAN :
       /\ ReadADC(ok, 0)
       /\ spc' = IF ok THEN "feed" ELSE "loop"
  /\ UNCHANGED <<lag, thAge, cal, calibrated, ring, infer, queue>>

(* Mutant of NextIdx: no wrap-around. *)
NextIdxUnwrapped(i) == i + 1

NextIdx(i) == (i + 1) % WindowSize

(* Mutant of GetWindow: in order of the cells. *)
GetWindowAsStored(w, i) == w

(* AlgoChain_GetWindow on the ring w, written next at i: in order of time. *)
GetWindow(w, i) == [t \in Cells |-> w[(i + t) % WindowSize]]

(* Mutant of Sent: xQueueOverwrite. *)
SentOver(q, w) == << w >>

(* Mutant of Sent: a queue of two, the new window in front. *)
SentToFront(q, w) == IF Len(q) < 2 THEN << w >> \o q ELSE q

(* xQueueSend without waiting: a full queue keeps what it has. *)
Sent(q, w) == IF q = << >> THEN << w >> ELSE q

(* Mutant of Feed: xQueueSend waits for room. *)
FeedWaiting ==
  /\ Ready("feed")
  /\ IF queue # << >> /\ winCount >= WindowSize - 1
     THEN UNCHANGED vars
     ELSE /\ spc' = "loop"
          /\ fed' = fed + 1
          /\ window' = [window EXCEPT ![winIdx] = fed + 1]
          /\ winIdx' = NextIdx(winIdx)
          /\ winCount' = IF winCount < WindowSize THEN winCount + 1 ELSE winCount
          /\ queue' = IF winCount' >= WindowSize
                      THEN Sent(queue, GetWindow(window', winIdx'))
                      ELSE queue
          /\ UNCHANGED <<timing, cal, calibrated, infer, faults>>

(* AlgoChain_Feed and, when the window is full, AlgoChain_GetWindow and    *)
(* xQueueSend.                                                             *)
Feed ==
  /\ Ready("feed")
  /\ spc' = "loop"
  /\ IF calibrated
     THEN /\ fed' = fed + 1
          /\ window' = [window EXCEPT ![winIdx] = fed + 1]
          /\ winIdx' = NextIdx(winIdx)
          /\ winCount' = IF winCount < WindowSize THEN winCount + 1 ELSE winCount
          /\ queue' = IF winCount' >= WindowSize
                      THEN Sent(queue, GetWindow(window', winIdx'))
                      ELSE queue
     ELSE UNCHANGED <<ring, queue>>
  /\ UNCHANGED <<timing, cal, calibrated, infer, faults>>

-----------------------------------------------------------------------------
(* AI_Init; on failure the task suspends itself. *)
InferenceBoot ==
  /\ ipc = "boot"
  /\ \/ ipc' = "wait" /\ UNCHANGED faults
     \/ ipc' = "suspended" /\ Fault
  /\ UNCHANGED <<sensor, queue, ibusy, input, results, taken>>

(* xQueueReceive and the start of AI_Run on the transposed window. *)
Receive ==
  /\ ipc = "wait"
  /\ queue # << >>
  /\ input' = Head(queue)
  /\ queue' = Tail(queue)
  /\ taken' = fed
  /\ ibusy' \in RunTimes
  /\ ipc' = "run"
  /\ UNCHANGED <<sensor, results, faults>>

EndRun ==
  /\ ipc = "run" /\ ibusy = 0
  /\ \/ ipc' = "air" /\ UNCHANGED faults
     \/ ipc' = "wait" /\ Fault
  /\ UNCHANGED <<sensor, queue, ibusy, input, results, taken>>

Newest(w) == w[WindowSize - 1]

(* Mutant of PublishAir: g_prob_alcohol is forgotten. *)
PublishAirOnly ==
  /\ ipc = "air"
  /\ air' = Newest(input)
  /\ ipc' = "result"
  /\ UNCHANGED <<sensor, queue, ibusy, input, alcohol, result, taken, faults>>

(* The three results are stored one after the other. *)
PublishAir ==
  /\ ipc = "air"
  /\ air' = Newest(input)
  /\ ipc' = "alcohol"
  /\ UNCHANGED <<sensor, queue, ibusy, input, alcohol, result, taken, faults>>

PublishAlcohol ==
  /\ ipc = "alcohol"
  /\ alcohol' = Newest(input)
  /\ ipc' = "result"
  /\ UNCHANGED <<sensor, queue, ibusy, input, air, result, taken, faults>>

(* The class is computed from g_prob_alcohol. *)
PublishResult ==
  /\ ipc = "result"
  /\ result' = alcohol
  /\ ipc' = "wait"
  /\ UNCHANGED <<sensor, queue, ibusy, input, air, alcohol, taken, faults>>

-----------------------------------------------------------------------------
(* The tasks are blocked: on a delay, a transfer, the queue, or for ever.  *)
SensorBlocked == busy > 0 \/ spc = "suspended" \/ (spc = "loop" /\ fed = MaxFed)

InferenceBlocked ==
  \/ ipc = "suspended"
  \/ ipc = "wait" /\ queue = << >>
  \/ ipc = "run" /\ ibusy > 0

Countdown(n) == IF n > 0 THEN n - 1 ELSE 0

Tick ==
  /\ SensorBlocked /\ InferenceBlocked
  /\ busy + ibusy > 0
  /\ busy' = Countdown(busy)
  /\ ibusy' = Countdown(ibusy)
  /\ lag' = lag + 1
  /\ thAge' = IF thAge < ThPeriod THEN thAge + 1 ELSE thAge
  /\ UNCHANGED <<spc, cal, calibrated, ring, queue, ipc, input, results, taken, faults>>

(* SensorTask is suspended or at the bound, and InferenceTask has no work. *)
Quiet ==
  /\ SensorBlocked /\ InferenceBlocked
  /\ busy + ibusy = 0
  /\ UNCHANGED vars

Sensor == \/ SensorAbsent \/ StartWarmup \/ EndWarmup \/ CalibrationSample
          \/ Calibrate \/ DelayUntil \/ UpdateTH \/ ReadChannels \/ Feed

Inference == \/ InferenceBoot \/ Receive \/ EndRun
             \/ PublishAir \/ PublishAlcohol \/ PublishResult

Next == Sensor \/ Inference \/ Tick \/ Quiet

Spec == Init /\ [][Next]_vars

(* FreeRTOS runs the tasks that are ready, and its tick goes on. *)
FairSpec == Spec /\ WF_vars(Sensor) /\ WF_vars(Inference) /\ WF_vars(Tick)

-----------------------------------------------------------------------------
(* Properties. *)

(* What InferenceTask gets is a window of time: the WindowSize samples     *)
(* that end with some sample, oldest first, none twice, none missing, and  *)
(* no cell that was never stored, wherever the ring had wrapped.           *)
Consecutive(w, n) == /\ Newest(w) \in WindowSize .. n
                     /\ \A t \in Cells : w[t] = Newest(w) - (WindowSize - 1) + t

Working == ipc \in {"run", "air", "alcohol", "result"}

WindowsConsecutive ==
  /\ queue # << >> => Consecutive(Head(queue), fed)
  /\ Working => Consecutive(input, fed)

(* While InferenceTask works, the window that waits is the first one that  *)
(* was completed since it took its own, not the latest: a newer window is  *)
(* dropped, never one that was accepted.                                   *)
WaitingIsFirst ==
  Working /\ queue # << >> => Newest(Head(queue)) = taken + 1

(* A reader of the results sees at worst a mixture of two windows, the     *)
(* class being the oldest, and no mixture while InferenceTask waits.       *)
ResultsInOrder ==
  /\ result <= alcohol /\ alcohol <= air
  /\ ipc \notin {"alcohol", "result"} => air = result

(* The results never go back to an earlier window. *)
ResultsForward == [][air' >= air /\ alcohol' >= alcohol /\ result' >= result]_vars

(* Once the delay of the start is caught up the loop keeps its period, and *)
(* catching up takes no more passes than that delay allows: before each    *)
(* pass it is Slack shorter.                                               *)
MaxOf(S) == CHOOSE m \in S : \A n \in S : n <= m
Slack == Period - MaxOf(ThTimes) - MaxOf(ReadTimes)
StartLag == MaxOf(ThTimes) + Warmup + CalSamples * (MaxOf(ReadTimes) + CalDelay)
CatchesUp ==
  faults = 0 /\ Ready("awake") => lag = 0 \/ lag + fed * Slack + Period <= StartLag

(* SensorTask goes on sampling whatever InferenceTask does, fails to start *)
(* included, unless its own device is absent.                              *)
KeepsSampling == <>(spc = "suspended" \/ fed = MaxFed)

(* The inductive invariant of module SensorPipelineProofs.  The ring, read  *)
(* from win_idx on, is the latest samples in order; no window is older     *)
(* than one that was taken or published before it.                         *)
RingInv ==
  /\ winCount = IF fed < WindowSize THEN fed ELSE WindowSize
  /\ fed < WindowSize => winIdx = fed /\ \A i \in Cells : i < fed => window[i] = i + 1
  /\ fed >= WindowSize =>
       \A t \in Cells : GetWindow(window, winIdx)[t] = fed - (WindowSize - 1) + t

OrderInv ==
  /\ spc \in {"awake", "read", "feed"} => fed < MaxFed
  /\ fed < WindowSize => queue = << >> /\ ~Working
  /\ Working => /\ Newest(input) <= taken /\ air <= Newest(input)
                /\ queue = << >> => fed = taken
  /\ queue # << >> => air < Newest(Head(queue))
  /\ air <= fed /\ taken <= fed
  /\ ipc = "alcohol" => air = Newest(input)
  /\ ipc = "result" => air = Newest(input) /\ alcohol = air

PipelineInv ==
  TypeOK /\ RingInv /\ WindowsConsecutive /\ WaitingIsFirst /\ ResultsInOrder /\ OrderInv

(* The inductive invariant behind CatchesUp: how far, at each place, the   *)
(* end of what SensorTask is doing lies behind last_sample.                *)
SinceLast == lag + busy
Within(d) == SinceLast + fed * Slack + Period <= StartLag + d

PaceInv ==
  faults = 0 =>
    /\ spc = "boot" => SinceLast = 0
    /\ spc \in {"boot", "warmup"} => cal = 0
    /\ spc \in {"boot", "warmup", "calibrate"} => fed = 0
    /\ spc \in {"warmup", "calibrate"} =>
         SinceLast <= MaxOf(ThTimes) + Warmup + cal * (MaxOf(ReadTimes) + CalDelay)
    /\ spc \in {"loop", "awake", "read", "feed"} => calibrated
    /\ spc = "loop" /\ fed < MaxFed =>
         /\ busy = 0
         /\ lag <= Period - Slack \/ lag + fed * Slack <= StartLag
    /\ spc = "awake" => SinceLast = 0 \/ Within(0)
    /\ spc = "read" =>
         SinceLast <= MaxOf(ThTimes) \/ Within(MaxOf(ThTimes))
    /\ spc = "feed" => SinceLast <= Period - Slack \/ Within(Period - Slack)
    /\ spc # "suspended"

(* Full windows reach InferenceTask as module WindowStream describes. *)
Slot == IF queue = << >> THEN << >> ELSE Head(queue)
Stream == INSTANCE WindowStream WITH slot <- Slot, last <- input
StreamSpec == Stream!Spec
=============================================================================
