------------------------------- MODULE SerialApp -------------------------------
(***************************************************************************)
(* The ZigBee network of SerialApp: nodes with a sensor, and a coordinator *)
(* that forwards what they send over its UART and adds heartbeats.         *)
(*                                                                         *)
(* A node goes round by itself: a timer of OSAL sets SENSOR_READ_EVT, its  *)
(* handler starts a measurement and the timer of SHT30_DATA_READY_EVT, and *)
(* the handler of that one reads, sends, and starts the first timer again. *)
(* Starting a timer that does not run takes memory and may fail, and       *)
(* nobody looks at the result.                                             *)
(*                                                                         *)
(* OSAL runs one handler at a time, so that a handler is one step; only    *)
(* the interrupt of the DMA comes in between two messages.                 *)
(***************************************************************************)
EXTENDS Integers, Sequences, FiniteSets, FiniteSetsExt

CONSTANTS
  Routers,     (* nodes that are built as routers, with an SHT30           *)
  EndDevices,  (* nodes that are built as end devices, with an MQ5         *)
  Heart,       (* a heartbeat frame                                        *)
  UplinkLen, HeartLen, TxMax,  (* lengths of frames, HAL_UART_DMA_TX_MAX   *)
  MaxMsgs, MaxInbox            (* bounds on messages that wait             *)

Nodes == Routers \cup EndDevices

ASSUME SerialAppAssumption ==
  /\ Routers \cap EndDevices = {} /\ Heart \notin Nodes
  /\ UplinkLen \in Nat \ {0} /\ HeartLen \in Nat \ {0} /\ TxMax \in Nat
  /\ UplinkLen <= TxMax /\ HeartLen <= TxMax
  /\ MaxMsgs \in Nat \ {0} /\ MaxInbox \in Nat \ {0}

VARIABLES
  zdo,       (* node: devState                                             *)
  msgs,      (* node: ZDO_STATE_CHANGE messages                            *)
  nwk,       (* node: SampleApp_NwkState                                   *)
  timers,    (* node: its timers that run                                  *)
  events,    (* node: its events that are set                              *)
  sensor,    (* node: the SHT30 has a measurement to give                  *)
  failed,    (* history: the last start of a timer failed                  *)
  inbox,     (* coordinator: AF_INCOMING_MSG_CMD messages, by source       *)
  inLoop,    (* coordinator: it is between two messages of the loop        *)
  beating,   (* coordinator: the timer or the event of the heartbeat is on *)
  filling,   (* UART: the buffer txSel, that is written to                 *)
  sending,   (* UART: the other one, that the DMA sends                    *)
  pending    (* UART: txDMAPending                                         *)

network == <<zdo, msgs>>
round   == <<nwk, timers, events, sensor, failed>>
uart    == <<filling, sending, pending>>
coord   == <<inbox, inLoop, beating>>
vars    == <<network, round, coord, uart>>

States == {"away", "end_device", "router"}
Joined == {"end_device", "router"}
Frames == Nodes \cup {Heart}

TypeOK ==
  /\ zdo \in [Nodes -> States] /\ msgs \in [Nodes -> Seq(States)]
  /\ nwk \in [Nodes -> States]
  /\ timers \in [Nodes -> SUBSET {"read", "ready"}]
  /\ events \in [Nodes -> SUBSET {"read", "ready"}]
  /\ sensor \in [Nodes -> {"idle", "data"}] /\ failed \in [Nodes -> BOOLEAN]
  /\ inbox \in Seq(Nodes) /\ inLoop \in BOOLEAN /\ beating \in BOOLEAN
  /\ filling \in Seq(Frames) /\ sending \in Seq(Frames) /\ pending \in BOOLEAN

(* SerialApp_Init: only the coordinator has started a timer.               *)
Init ==
  /\ zdo = [n \in Nodes |-> "away"] /\ msgs = [n \in Nodes |-> <<>>]
  /\ nwk = [n \in Nodes |-> "away"]
  /\ timers = [n \in Nodes |-> {}] /\ events = [n \in Nodes |-> {}]
  /\ sensor = [n \in Nodes |-> "idle"] /\ failed = [n \in Nodes |-> FALSE]
  /\ inbox = <<>> /\ inLoop = FALSE /\ beating \in BOOLEAN
  /\ filling = <<>> /\ sending = <<>> /\ pending = FALSE

-------------------------------------------------------------------------------
(* The stack and OSAL of a node.                                           *)

(* A router joins as an end device and is a router when it has started.    *)
NextStates(n) ==
  CASE zdo[n] = "away"       -> {"end_device"}
    [] zdo[n] = "end_device" -> {"away"} \cup (IF n \in Routers THEN {"router"} ELSE {})
    [] zdo[n] = "router"     -> {"away"}

(* The network changes.  ZDO_UpdateNwkStatus tells the application if it   *)
(* gets memory for the message.                                            *)
NetworkChange(n) ==
  /\ \E s \in NextStates(n) :
       /\ zdo' = [zdo EXCEPT ![n] = s]
       /\ \/ Len(msgs[n]) < MaxMsgs /\ msgs' = [msgs EXCEPT ![n] = Append(@, s)]
          \/ UNCHANGED msgs
  /\ UNCHANGED <<round, coord, uart>>

(* osalTimerUpdate.                                                        *)
Expire(n, e) ==
  /\ e \in timers[n]
  /\ timers' = [timers EXCEPT ![n] = @ \ {e}]
  /\ events' = [events EXCEPT ![n] = @ \cup {e}]
  /\ UNCHANGED <<network, nwk, sensor, failed, coord, uart>>

(* osal_start_timerEx: a timer that runs is set anew, another needs        *)
(* memory.                                                                 *)
Start(n, e) ==
  \/ /\ timers' = [timers EXCEPT ![n] = @ \cup {e}]
     /\ failed' = [failed EXCEPT ![n] = FALSE]
  \/ /\ e \notin timers[n] /\ UNCHANGED timers
     /\ failed' = [failed EXCEPT ![n] = TRUE]

-------------------------------------------------------------------------------
(* SerialApp_ProcessEvent of a node: messages first, then SENSOR_READ_EVT, *)
(* then SHT30_DATA_READY_EVT.                                              *)

Last(s) == s[Len(s)]
StateChanges(n) ==
  /\ msgs[n] # <<>> /\ msgs' = [msgs EXCEPT ![n] = <<>>]
  /\ nwk' = [nwk EXCEPT ![n] = Last(msgs[n])]
  /\ IF \E i \in DOMAIN msgs[n] : msgs[n][i] \in Joined
     THEN Start(n, "read") ELSE UNCHANGED <<timers, failed>>
  /\ UNCHANGED <<zdo, events, sensor, coord, uart>>

(* Mutant of StartMeasurement: the timer is started only when the sensor   *)
(* took the command.                                                       *)
StartIfTaken(n) ==
  \/ Start(n, "ready") /\ sensor' = [sensor EXCEPT ![n] = "data"]
  \/ UNCHANGED <<timers, failed, sensor>>

(* i2c_sht30_StartMeasurement: the sensor takes the command or does not.   *)
(* It is done long before the 50 ms of the timer.                          *)
StartMeasurement(n) ==
  /\ Start(n, "ready")
  /\ sensor' \in {sensor, [sensor EXCEPT ![n] = "data"]}

SensorRead(n) ==
  /\ msgs[n] = <<>> /\ "read" \in events[n]
  /\ events' = [events EXCEPT ![n] = @ \ {"read"}]
  /\ IF nwk[n] # "router" THEN Start(n, "read") /\ UNCHANGED sensor
                          ELSE StartMeasurement(n)
  /\ UNCHANGED <<network, nwk, coord, uart>>

(* SerialApp_SendTLVData: no memory, lost on the air, or delivered.        *)
SendTLVData(n) ==
  \/ UNCHANGED inbox
  \/ ~inLoop /\ Len(inbox) < MaxInbox /\ inbox' = Append(inbox, n)

(* Sensor_ReadData fails when there is nothing to read, or on the bus.     *)
ReadData(n) ==
  \/ sensor[n] = "data" /\ sensor' = [sensor EXCEPT ![n] = "idle"] /\ SendTLVData(n)
  \/ UNCHANGED <<sensor, inbox>>

DataReady(n) ==
  /\ msgs[n] = <<>> /\ events[n] = {"ready"}
  /\ events' = [events EXCEPT ![n] = {}]
  /\ ReadData(n) /\ Start(n, "read")
  /\ UNCHANGED <<network, nwk, inLoop, beating, uart>>

ProcessEvent(n) == StateChanges(n) \/ SensorRead(n) \/ DataReady(n)

-------------------------------------------------------------------------------
(* The UART of the coordinator.                                            *)

LenOf(f) == IF f = Heart THEN HeartLen ELSE UplinkLen
Fill(b)  == MapThenSumSet(LAMBDA i : LenOf(b[i]), DOMAIN b)

(* HalUARTWriteDMA: all of a frame or nothing.                             *)
Write(f) ==
  /\ IF LenOf(f) + Fill(filling) > TxMax
     THEN UNCHANGED <<filling, pending>>
     ELSE /\ filling' = Append(filling, f)
          /\ pending' = (pending \/ sending = <<>>)
  /\ UNCHANGED sending

(* Mutant of Fire: the buffers change places only when the DMA has done.   *)
FireLate ==
  /\ ~inLoop /\ pending
  /\ pending' = FALSE /\ sending' = filling
  /\ UNCHANGED <<network, round, coord, filling>>

(* HalUARTPollDMA, from the main loop: the DMA is fired when txTick has    *)
(* passed since the interrupt.                                             *)
Fire ==
  /\ ~inLoop /\ pending
  /\ pending' = FALSE /\ sending' = filling /\ filling' = sending
  /\ UNCHANGED <<network, round, coord>>

(* Mutant of DmaDone: it leaves the next buffer to the next write.         *)
DmaDoneOnly ==
  /\ sending # <<>> /\ sending' = <<>>
  /\ UNCHANGED <<network, round, coord, filling, pending>>

(* HalUARTIsrDMA.                                                          *)
DmaDone ==
  /\ sending # <<>> /\ sending' = <<>>
  /\ pending' = (pending \/ filling # <<>>)
  /\ UNCHANGED <<network, round, coord, filling>>

-------------------------------------------------------------------------------
(* SerialApp_ProcessEvent of the coordinator.                              *)

(* SerialApp_ProcessMSGCmd, SendUplinkFrame.                               *)
Uplink ==
  /\ inbox # <<>> /\ inbox' = Tail(inbox) /\ inLoop' = (Len(inbox) > 1)
  /\ Write(Head(inbox))
  /\ UNCHANGED <<network, round, beating>>

(* HEARTBEAT_EVT after its timer: SendHeartbeat, and the timer again if    *)
(* there is memory for it.                                                 *)
Heartbeat ==
  /\ inbox = <<>> /\ beating /\ beating' \in BOOLEAN
  /\ Write(Heart)
  /\ UNCHANGED <<network, round, inbox, inLoop>>

Coordinator == Uplink \/ Heartbeat

-------------------------------------------------------------------------------
Next ==
  \/ \E n \in Nodes : NetworkChange(n) \/ ProcessEvent(n)
  \/ \E n \in Nodes, e \in {"read", "ready"} : Expire(n, e)
  \/ Coordinator \/ Fire \/ DmaDone

Spec == Init /\ [][Next]_vars

(* The timers of the nodes expire, and their main loops go round.          *)
FairSpec ==
  /\ Spec
  /\ \A n \in Nodes : WF_vars(ProcessEvent(n))
  /\ \A n \in Nodes, e \in {"read", "ready"} : WF_vars(Expire(n, e))

-------------------------------------------------------------------------------
(* "Whether I2C worked or not, start the timer, or [...] the 5 second loop *)
(* of SerialApp stops" (i2c_sht30.c:113-115): once a node knows that it    *)
(* has joined, one of its timers runs or one of its events waits, unless   *)
(* there was no memory for a timer.  And the UART has fired its DMA or is  *)
(* about to whenever a frame waits in it, and fires it on a full bank only *)
(* when the other is free.                                                 *)
LoopGoesOn ==
  \A n \in Nodes :
    nwk[n] \in Joined => timers[n] \cup events[n] # {} \/ failed[n]
UartFires == pending <=> filling # <<>> /\ sending = <<>>
SerialInv == TypeOK /\ LoopGoesOn /\ UartFires

(* The UART is one queue: a step adds one whole frame at its end, takes    *)
(* frames from its front, or leaves it alone.  (_hal_uart_dma.c:513-764)   *)
Queue == sending \o filling
UartInOrder ==
  [][\/ Queue' = Queue
     \/ \E f \in Frames : Queue' = Append(Queue, f)
     \/ \E k \in 1 .. Len(Queue) : Queue' = SubSeq(Queue, k + 1, Len(Queue))]_vars

(* A router that stays in the network, and gets memory for its timers,     *)
(* goes on reading its sensor.                                             *)
RoundsGoOn ==
  \A n \in Routers :
    <>[](zdo[n] = "router" /\ nwk[n] = "router" /\ ~failed[n])
      => []<><<DataReady(n)>>_vars

(* Violated.  "every 2 seconds check the state, until joined"              *)
(* (SerialApp.c:374), and "end devices carry MQ2 or MQ5"                   *)
(* (sensor_config.h:27): an end device that stays in the network reads its *)
(* sensor.                                                                 *)
EndDevicesRead ==
  \A n \in EndDevices :
    <>[](zdo[n] = "end_device" /\ nwk[n] = "end_device" /\ ~failed[n])
      => []<><<DataReady(n)>>_vars
===============================================================================
