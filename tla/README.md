# A verification development for lwip_socket_modbus

The repository is an air quality system of four programs: a sensor board
(STM32F411, FreeRTOS), ZigBee sensor nodes (CC2530, Z-Stack), a gateway
(STM32F429, FreeRTOS and lwIP) and a cloud server (Rust, tokio). This directory
holds TLA+ models of the parts whose control is worth checking, the TLC
configurations that check them on small instances, and proofs for TLAPS.

## 1. The system

| Component | Code | State it keeps | Operations | Model |
|---|---|---|---|---|
| Modbus TCP client | `STM32F429/Middlewares/Modbus`, `modbus_tcp_task` in `User/freertos_demo.c` | socket, transaction id | `Init`, `DeInit`, `Reconnect`, `WriteRegisters`, `IsConnected`, the reporting loop | `ModbusFrame`, `ModbusLink` |
| Cloud server | `Cloud/modbus_server/src/main.rs` | ten registers behind a mutex, a task per connection | accept, read, store, reply | `ModbusFrame`, `ModbusLink`, `RegisterStore` |
| Sampling and algorithm chain | `STM32F411/algorithm/Src/{sensor_task,algo_chain}.c`, `BSP/Src/bsp_ads1115.c` | ring of samples, base lines, reference time | warm-up, calibration, feed, window | `SensorPipeline`, `WindowStream` |
| Inference task | `inference_task.c`, `ai_inference.c` | three results | take a window, run, publish | `SensorPipeline`, `WindowStream` |
| USART1 driver | `STM32F411/BSP/Src/bsp_usart.c` | circular DMA buffer, last position, queue | IDLE interrupt, receive, transmit | `Usart1Rx` (reception) |
| Link and DHCP threads | `STM32F429/Middlewares/lwip/arch/lwip_comm.c` with the DHCP client of lwIP | `g_lwip_dhcp_state`, `g_lwipdev`, flags and address of the netif | poll the cable, follow the state, fall back to a static address | `DhcpLink` |
| TCP echo server, sockets | `lwip_app/lwip_demo.c`, the socket table of lwIP | descriptors, a record and a task per client | accept, echo, close | `EchoServer` |
| Ethernet driver | `arch/ethernetif.c`, the parts of `stm32f4xx_hal_eth.c` it uses | descriptor rings, TxConfig, semaphores, receive pool | send, release, receive, free, start, stop | `EthTx`, `EthRx` |
| ZigBee node and coordinator | `SerialApp.c`, `i2c_sht30.c`, timers and UART of Z-Stack | network state, events, timers, two buffers of the UART | join, measure, send, forward, heartbeat | `SerialApp` |
| Memory pool | `Middlewares/MALLOC/malloc.c` | table of blocks | malloc, free, realloc | nothing calls it |
| USART line receiver | `Drivers/SYSTEM/usart/usart.c` | a count with two flags | a byte, restart | nothing reads it |
| The rest | board support, displays, sensor drivers, USMART, LVGL, lwIP, FreeRTOS, HAL, Z-Stack, X-CUBE-AI, `Simulation` | | | not modelled |

How the parts interact. On the sensor board `SensorTask` passes windows to
`InferenceTask` through a queue of one element, and `InferenceTask` leaves its
results in three variables. On the gateway the link thread sets
`g_lwip_dhcp_state`, the DHCP thread follows it and starts the client of lwIP,
which works in the TCP/IP thread; when `dhcpstatus` says so, `start_task` starts
the echo server and the reporting task, which share the socket table. The
reporting task calls the Modbus client, which talks over TCP to a task of the
server; all tasks of the server share the registers. Every packet goes through
the Ethernet driver: senders with the core lock of lwIP and the link and DHCP
threads without it share one transmit configuration and one semaphore; the
interrupt wakes `eth_thread`, which passes received buffers to the stack, and the
stack gives them back to the pool. The link thread stops and starts the driver.
On a ZigBee node everything runs in the main loop of OSAL, driven by timers; the
coordinator's main loop shares two buffers of the UART with the interrupt of the
DMA. Nothing in the repository
connects the sensor board or the ZigBee coordinator to the gateway yet: the
gateway reports fixed numbers (`adc_get_mq1` and the others in
`freertos_demo.c`), so these models are not composed with each other.

What is hard here: TCP may cut and join what was written, connections break at
any point and the tasks of abandoned ones live on; tasks, threads and interrupts
share variables without locks; buffers wrap; queues are full; counters have a
width; and the loops must go on after failures. `PROJECT.json` lists each hazard
at its line with the properties that cover it, or why none does.

What makes each component correct:

- *Modbus client and server*: an acknowledged report was stored; a reader of the
  registers never sees a mixture; an old report does not replace a newer one on a
  connection in use; one fault costs one report; reporting always resumes.
- *Sensor pipeline*: a window is consecutive samples; the consumer is offered the
  oldest complete window since it last took one; results never go back; sampling
  never waits for inference.
- *USART1*: as long as messages fit and the interrupt is in time, a queued frame is
  one message and none is lost in silence; in any case the copies stay within their
  buffers.
- *Link and DHCP*: the thread follows the link; a search ends; the client is not
  used before it exists. All but the first hold only while `dhcp_start` finds memory.
- *Echo server*: a task closes its own socket; the descriptor of a client that
  left comes back.
- *Ethernet driver*: every send returns, after the packet was given to the DMA once
  and with no reference left; no receive buffer is lost or in two places; frames
  come in order, with all their parts, and none stays in the ring.
- *ZigBee*: a joined node goes on measuring, and the UART neither mixes, repeats
  nor strands frames.

## 2. The modules

### ModbusFrame, ModbusLink, ModbusLinkInv, RegisterStore
`ModbusFrame` is the byte level: `Frame` is `modbus_build_write_frame`,
`Accepted`, `Targets`, `DataOff` and `Response` are what `handle_client` reads
from its buffer, `ResponseOK` is the client's check. `ModbusLink` has one action
per step of the task and of the client (`InitOk`, `InitFail`, `DeInit`,
`WriteRegisters`, `RecvPart`, `RecvReply`, `RecvError`, `Timeout`) and per await
point of a server task (`Accept`, `Read`, `Eof`, `Lock`, `Store`, `Unlock`,
`Reply`), with the faults `Reset` of a connection and `Restart` of the server.
`Store` stores one register, so that other tasks can run between two stores as
far as the mutex lets them. `RegisterStore` is the abstract promise, an
`INSTANCE` of it in `ModbusLink` (`StoreSpec`). `ModbusLinkInv` states the
inductive invariants: `IInv` and `LossInv` for whole frames, `StreamInv` for a stream
that TCP cuts anywhere; `MCModbusLink` gives TLC the samples.

### SensorPipeline, WindowStream
The two tasks, the ring and the queue. A sample is its number, so that order,
loss and duplication are visible; the four channels are one cell, and the floats
are left out. Delays and transfers are countdowns, and time passes only when no
task is ready, because `SensorTask` has a priority above `InferenceTask`.
`WindowStream` says what the consumer is promised.

### Usart1Rx, MessageStream
The DMA writes numbered bytes into the circular buffer, `ProcessIdle` is
`usart1_process_idle` with its three ways to find the length and its copy, and
`Receive` is `BSP_USART1_Receive`. Messages may be longer than a frame or than the
whole buffer, and the interrupt may run as late as it likes: `fits` remembers whether
a byte came while it was pending, or made a message longer than a frame. What no
longer holds then is stated as long as `fits`; what always holds (`TypeOK`,
`LapsInv`, `ReturnsOnlyOnLaps`) is stated without it. `MessageStream` is the promise
to the task: of a stream of bytes cut where the line was idle, whole messages in
order, each once, but for those that met a full queue; nothing more once a message
did not fit (`StreamSpec`).

### DhcpLink
The link thread in `PollOut`, `PollIn`, `MessagesLeft`, `LinkWakes`; the DHCP thread
with a step for each access to shared state (`Switch` to `SetOff`); the client of lwIP
with the messages of the server and its timers. The link thread has the higher priority
and may run between any two steps of the DHCP thread. `netif_set_link_up` sends before
the callback stores `START`, and a send may wait for `g_tx_semaphore`: in that wait
(`lpc = "sending"`) the netif is up, the state still says otherwise, and the DHCP
thread runs, for whole passes if need be. `Start` is `dhcp_start` with both ways to run
out of memory: before it has made a client (`dhcp.c:762`), and after, with the client
off (`:787`); `lwip_comm.c:226` ignores the result, and `nomem` remembers it. The
history variable `overtaken` remembers that a change of the link fell into a pass of
the DHCP thread. What holds only while neither happened says so, and `DhcpLink_boot`
shows what the second can lead to.

### EchoServer
`lwip_demo` (`Accept` to `NotCreated`), its client tasks (`RecvEnds`,
`CloseSocket`) and what the Modbus task does to the table of descriptors
(`ModbusFirst` to `ModbusReconnect`). `Lowest` is `alloc_socket`, `Close` is
`lwip_close`, with the effect on whoever waits on the connection. A task reads the
number of its socket from a record that it has freed, so freed records keep their
contents until they are given away again (`Accept`) or lwIP overwrites them
(`Scribble`); `astray` remembers that this happened to a task before it closed.
`AcceptNoMemory` is the client for which `mem_malloc` has no record: the code stores
through NULL, and either the processor faults, whose handler is an endless loop, or
the store is lost (address 0 is flash) and a task that reads no valid number ends at
once; in both cases the connection is an orphan.
Priorities are left out, with one exception: when `accept` fails at once,
`lwip_demo` goes round without a pause and nobody below it runs (`Spins`).

### EthTx, EthRx
The two directions of the Ethernet driver, at the grain of its accesses to shared
state. In `EthTx` a sender fills `TxConfig` (`Fill`), gives it to the driver
(`Transmit`), waits (`TakeSemaphore`) and releases what was sent (`ReleaseBegin`,
`ReleaseEnd`); the DMA walks the ring and stops at a descriptor that is not its
own; `MayRun` is the scheduler. A packet of more pbufs than there are descriptors is
given up with `ERR_IF` before anything else (`TooLong`), one of exactly as many fills
the ring. All descriptors of a packet are prepared in one step. `overlapped` and `refused` remember that two threads were in the driver
together, or that a packet was refused: the properties speak of the time before.
In `EthRx` the DMA fills descriptors, in one part or two, or cuts a frame off when
the next descriptor is not its own; `ReadOne` takes buffers out, with the length that
`HAL_ETH_ReadData` computes (`Linked`), and `RxLink` links them to the chain;
`UpdateDescriptor` gives new ones to the ring, by `eth_thread` or, in
`HAL_ETH_Start_IT`, by the link thread; DESC0 and DESC2 keep what they held, as in
the code. `raced` and `shifted` remember the two ways in which the code loses its
footing: a buffer that comes back between a failed allocation and the store of
`RX_ALLOC_ERROR`, and a start that finds the ring in use.

### SerialApp
A handler of OSAL is one step, because OSAL runs one at a time. Of a node: its
state in the network and what it was told of it (`NetworkChange`, whose message may
find no memory), its timers and events, and `ProcessEvent` with the measurement of
the SHT30. Of the coordinator: the frames it forwards and its heartbeats, and the
two buffers of the UART driver (`Write`, `Fire`, `DmaDone`). The wait of the driver
after an interrupt is part of the freedom of `Fire` to be late.

## 3. The runs

Every cfg gives the constants directly; the tables name what matters.

| Run | Question | Result |
|---|---|---|
| `ModbusLink_whole` | one board, three reports, three connections, two faults, among them a failed reconnection, ids that repeat, whole frames: delivery, whole writes, snapshots, matching of responses, loss, the store, and whether reporting resumes | holds |
| `ModbusLink_stream` | TCP cuts the stream anywhere: offsets and counts stay in bounds, the mutex keeps its rules, no response is refused, reporting resumes | holds |
| `SensorPipeline_main` | three laps of a ring of three, inference faster and slower than the period, a fault; sampling goes on whatever inference does | holds |
| `Usart1Rx_main` | messages of one byte, of a whole frame and of the whole buffer, an interrupt as late as it likes, two laps of the buffer, a full queue: the message stream, and when new data is taken for none | holds |
| `DhcpLink_main` | three changes of the cable, a refusal, conflict or expiry, a `dhcp_start` without memory, the link thread between any two steps and kept waiting by a send: the pointer, the state, the end of every search | holds |
| `EthTx_main` | senders with and without the core lock, packets that fill the ring or are too long for it, the cable out and in: what a send that returns has done, and whether every send returns | holds |
| `EthRx_main` | frames of one or two parts or cut off, a pool that runs empty, a stop and a start: where buffers are, what the stack gets and with which length, whether a frame stays in the ring | holds |
| `EchoServer_main` | clients, records and tasks for which there is no memory, the Modbus task: who closes what, and whether descriptors come back | holds |
| `SerialApp_main` | nodes that join and leave, timers without memory, the UART and its interrupt: the loop of a node, the order of frames | holds |
| `DhcpLink_boot` | "wait until there is an address" | violated |
| `EchoServer_closed` | "ask for the connection of a client" | violated |
| `SerialApp_device` | "check the state every 2 seconds until joined" | violated |

What the violations show:

- *boot*: `OFF` is stored over a `START`, and nothing starts a search until the
  cable is pulled: `start_task` waits for ever.
- *closed*: the handle of the Modbus client is cleared memory, and its first
  `closesocket` closes descriptor 0, on which `lwip_demo` listens. Whoever waits
  there waits on a mailbox that is gone.
- *device*: only `DEV_ROUTER` measures. An end device polls its state for ever, so
  that the branches for MQ2 and MQ5 sensors are never reached.

Other disagreements are visible in the models but have no run. The server takes one
read for one request and answers with the count of the request, however little of
it was there (`main.rs:71`). `SensorTask` takes its reference time before the
warm-up, so that hundreds of passes follow each other without a wait
(`sensor_task.c:64`). Exactly one DMA buffer of bytes, or several, looks like none
(`bsp_usart.c:142`, which `ReturnsOnlyOnLaps` admits and `Usart1Rx_main` reaches). A message longer than a frame across the end of the buffer keeps its
latest bytes in the wrong order, followed by older ones, or keeps only its old part (`:176`,
`:185`; the comment at `:171` says the latest part is kept): with `BurstLens` {1, 5} message
6..10 becomes the frame 9, 10, 7. The static address of a time-out is that of an earlier lease, once
there was one (`lwip_comm.c:278`). `low_level_output` returns `ERR_OK` for a packet
that the driver refused, and waits for a completion that belongs to another one
(`ethernetif.c:293`). The result of `dhcp_start` is ignored (`lwip_comm.c:226`): without
memory the state is `WAIT_ADDRESS` with no client, whose tries the next pass reads
through NULL (`:273`), or with one that is off, and nothing tries again. The driver is
told of receive buffers of 1000 bytes (`ethernet.c:60`), while `ethernetif.c:71` demands
the 1524 of `ETH_RX_BUFFER_SIZE`: a frame of more than 1000 bytes comes in two parts,
`HAL_ETH_ReadData` gives the last one the length of the whole frame, and the stack gets
it a buffer longer than it was (`WholeInOrder` states the length). The error bit of a
descriptor is not looked at, so that a frame that was cut off is handed on as if it
were whole. After a start that found the ring in use, a descriptor that
was read but not rebuilt can be read again, and its buffer is in two places
(`stm32f4xx_hal_eth.c:760`). The first transaction id after 65535 is 0, where the
header says 1 to 0xFFFF; the length field of a frame is 16, where comments say 17;
and `dhcpstatus` outlives the lease it reports.

### Bounds, and why they are enough
- `ModbusLink`: `Samples` bounds the reports and `Conns` the connections. The system
  has one board that reports, and so have the runs. Two faults break a connection or
  give up a request and then let the reconnection fail, or happen one after the other;
  the third report is then the one that must go through, and if each fault could cost
  two reports three would be lost. A new connection is in use while the task of an
  abandoned one still stores, so that server tasks run concurrently with one board
  too; three connections are enough for two faults, so that the board never waits
  for one. What a fault does to several boards at once is covered by the proofs,
  which are for any number of them. `IdSpace` is 2 in `ModbusLink_whole` so that the
  responses of two reports can carry the same id; elsewhere it is the 65536 of the
  code. Bytes are real bytes: offsets matter on a cut stream. A cut stream has far
  more states, so that `ModbusLink_stream` has no fault; what a fault adds there to
  the safety properties is covered by the proofs.
- `SensorPipeline`: `MaxFed` of nine is three laps of a ring of three;
  `RunTimes` lie below the period, just below it and above two periods, so that
  windows wait, are taken at once and are dropped. The times keep the order of the
  real ones (transfer below period below warm-up).
- `Usart1Rx`: `BufSize` of six and `MaxFrame` of three keep `MaxFrame < BufSize`;
  messages have one byte, a whole frame and a whole buffer, so that whole laps and
  frames that are cut off happen; thirteen bytes are two laps, so that every split of
  a message happens.
- `DhcpLink`: `MaxTries < SelectTries < TriesCap` as in the code (4, 5, 255),
  `AgainMax` is a small largest `int` so that the overflow is reached, `Polls` of
  two for the ten polls of a second, three cable changes for out, in and out again.
- `EthTx`: four descriptors as in the code and packets of three, four and five
  buffers, so that the ring wraps inside a packet, is filled by one, and is too short
  for another; three packets go more than twice around. `MaxAfter` stops new
  sends soon after an overlap or a refusal, of which the properties no longer speak.
  One sender with the core lock stands for all: the lock admits one at a time.
- `EthRx`: two descriptors and three buffers (the code has more buffers than
  descriptors, and so does the model, by one), three frames of one or two parts: the
  pool runs empty while the stack holds frames. Lengths are those of the code: buffers
  of 1000 bytes, the shortest frame and the longest. One stop is one start, in use or
  not.
- `EchoServer`: three descriptors for the listener, the Modbus task and three clients
  one after the other, so that the table is full and numbers are used again; two
  records, so that two tasks live at once and a freed record is given away;
  `MaxOpens` of two gives the Modbus task a second socket.
- `SerialApp`: one node, since nodes meet only in the inbox of the coordinator: a
  router in `SerialApp_main`, an end device in `SerialApp_device`. A buffer of the UART
  takes one uplink or two heartbeats, so that writes are refused; two waiting messages
  of the stack let a node miss a state.

### Fairness
- *Modbus*: weak fairness for the steps of each board and each server task.
  FreeRTOS and tokio run ready tasks, and an unbroken TCP connection delivers. The
  failures (`Reset`, `Restart`, a failing connect) have none, and there are at
  most `MaxFaults`.
- *Pipeline*: weak fairness of both tasks and of the tick. `Tick` is enabled only
  when no task is ready, as priorities make it.
- *DHCP*: weak fairness of the link thread, which has the higher priority, and of
  the client's timer; strong fairness of the DHCP thread, which can run only in the
  delays of the link thread, and while one of its sends waits, and gets one of 100
  ticks after each poll with a cable. A send that the link thread waits for ends
  (`MessagesLeft`), as `SendsEnd` shows for the driver unless a packet was refused.
  It is none while the cable is out: there the link thread polls without a delay.
  A timer of the client that ends a search takes tens of seconds (`LongEnough`), in
  which the thread, once a second, makes a whole pass.

- *EthTx*: strong fairness of each sender (it runs whenever nothing more important
  does, again and again) and of the link thread, weak fairness of the DMA and the
  interrupt: the hardware works. `SendsEnd` asks only once the cable stays in.
- *EthRx*: weak fairness of `eth_thread`, the interrupt and the rest of a frame that
  has begun; the stack gives every buffer back in the end; the link thread starts
  again what it stopped. Frames need not come.
- *EchoServer*: weak fairness of `lwip_demo` and of the client tasks, not of clients
  nor of the Modbus task.
- *SerialApp*: the timers of a node expire and its main loop goes round.

Deadlock is checked but for three models. Where a bound ends the behaviour,
`ModbusLink`, `SensorPipeline` and `Usart1Rx` have a step `Quiet` that is enabled
exactly when every task waits for ever by the bound (in `ModbusLink` also a board
for which no connection is left), so that a real deadlock is still
found; `DhcpLink` and `SerialApp` never stop. `EthRx` and `EchoServer` may really
stop, when no frame or no client comes, and `EthTx` when the driver has refused a
packet and its sender waits for ever; their runs check by liveness that otherwise
nobody waits in vain.

## 4. The proofs

| Module | Theorems | Assumptions beyond those on the constants |
|---|---|---|
| `ModbusLinkProofs` | `TypeCorrect`, `StreamInvariant`, `StoredWhole`, `AnswersAccepted`, `FrameHandled`, `ResponseBytes` | none: TCP may cut the stream anywhere |
| | `Invariant`, `Delivery`, `Snapshots`, `OneOutstanding`, `ReplyMatches`, `LateReports`, `Refinement` | a read returns whole frames (`~Segmented`) |
| | `LossIsInvariant`, `LossIsBounded` | the same, and finitely many boards |
| `SensorPipelineProofs` | `Invariant`, `OrderedWindows`, `FirstWaits`, `OrderedResults`, `ResultsGoForward`, `Refinement` | none |
| | `PaceIsInvariant`, `LagIsCaughtUp` | the durations of the transfers have a maximum, and the longest pass fits a period (`PassFits`) |
| `Usart1RxProofs` | `FramesFit`, `RxInvariant`, `ReturnsOnLaps` | none: any delay of the interrupt, any length of a message |
| | `WholeFrames`, `NoneLost`, `Refinement` | none (the statements are about behaviours in which messages fitted so far, `fits`) |
| `EchoServerProofs` | `EchoIsInvariant`, `EchoClosedByOwner` | none (the statements are about behaviours in which no freed record was used again) |
| `EthTxProofs` | `TxIsInvariant`, `ReturnMeansSent` | none, packets of any number of buffers (the statements are about behaviours in which no two threads were in the driver together and none was refused) |
| `EthRxProofs` | `RxIsInvariant`, `FramesInOrder` | none, frames of one or two parts of any length and frames that were cut off (the statements are about behaviours in which no start found the ring in use) |
| `SerialAppProofs` | `SerialIsInvariant`, `UartKeepsOrder` | none |
| `DhcpLinkProofs` | `Invariant`, `PointerIsSet`, `FollowsLink`, `SearchIsReal` | none, `dhcp_start` may run out of memory at any time (two of the statements are about behaviours in which no change of the link fell into a pass) |

The assumptions are needed: without `~Segmented` happen the disagreements of section 3, without finitely many boards there is no number of
reports that a fault of the server costs, and a pass longer than a period never
catches up.

Three refinements are proved, each step by step: `ModbusLink` implements
`RegisterStore`, `SensorPipeline` implements `WindowStream`, `Usart1Rx` implements
`MessageStream`.

The inductive invariants. Most are invariants of a run, whose other invariants are in
part their conjuncts, listed by name where they say something by themselves. `LossInv`
and `PaceInv` were checked on the same instances; the runs keep what they imply,
`LossBounded` and `CatchesUp`. Those that a proof module defines strengthen the
invariant of the run (`EchoInv`, `TxInv`, `RxInv`).

- `IInv` (ModbusLink). That an acknowledged report was installed needs to know
  where a report is at every moment: the request of a waiting board is on its way,
  handled, or answered, and in one of these places only; a connection belongs to
  one board and carries one request or one response; the task with the mutex has
  stored a part of its request and the rest of the registers are still the former
  view. Only then the response that meets `ResponseOK` can be tied to an unlock.
  That the link implements `RegisterStore` needs `PendingOnce` besides: a request
  may outlive its connection's client, and still no report is on two connections or
  pending after it was shown, because a failed report is never sent again. An unlock
  maps to `Install`, the end of a response to `Acknowledge`, a call of
  `WriteRegisters` to `Make`, a restart of the server to `Forget`, all else to stutters.
- `LossInv` (ModbusLink). That a fault costs a board one report at most is a count, and
  a report may be lost long after the fault, when the next call finds the connection
  gone. So the invariant counts both the reports that are made and not acknowledged and
  the boards that a fault has cut off (`CutOff`), against the faults and the boards
  that still wait: a fault pays for every board it cuts off, and a call that fails
  turns a board that was cut off into a lost report. Boards that wait have distinct
  reports, none of them acknowledged (`AwaitedOnce`), so that an acknowledgement
  lowers the count. It builds on `IInv`: a connection that breaks is the socket of one
  board at most, and a response ends the wait for its own report.
- `StreamInv` (ModbusLink). On a cut stream a request is whatever accepted bytes a
  read returned, so that nothing can be said of reports; what remains is that the
  mutex has one owner, the loop's registers of `buf` that are done still hold their
  values (`MutexInv`), and that the response to whatever was accepted passes the
  client's check (`ResponseBytes`).
- `PipelineInv` (SensorPipeline). The ring, read from `win_idx`, is the latest
  samples in order (`RingInv`), and published, taken and waiting windows are
  ordered (`OrderInv`). The proof that the pipeline implements `WindowStream` uses
  both: a feed maps to a sample, a receive to a take, all others to stutters.
- `PaceInv` (SensorPipeline). `CatchesUp` speaks of one place of the loop; its lag is
  carried round by every step of a pass, and grows during the warm-up. The invariant
  bounds, at each place, how far the end of what the task is doing lies behind its
  reference time: either as in a pass that began in time, or by the lag of the start
  less the slack of every pass since.
- `RxInv` (Usart1Rx). `LapsInv` holds in every case: the DMA position and the position
  handled last are the counts of bytes up to whole laps, so that equal positions mean
  whole laps between them (`SamePosition`). As long as messages fitted, what arrived
  since the interrupt last ran is one message at most and lies in the buffer backwards
  from the DMA position (`NewsInv`, `Back`), so that the two parts of the copy are its
  two parts. Then the interrupt maps to `Handle` of `MessageStream`, the last byte of a
  message to `Arrive`, a receive to `Take`; a step after which messages no longer fit
  maps to the step of `MessageStream` that gives its promise up. `FramesFit` needs only
  that positions lie in the buffer.
- `DhcpInv` (DhcpLink). That the unchecked pointer is followed before there is a client
  only when memory ran out (`nomem`) depends on time: a `START` overwritten by the DHCP
  thread, or a `dhcp_start` on a netif that is down, leaves a search without a client
  too, and `PointerInv` says that it lasts only until the next poll, which comes before
  the thread's own delay ends, and that without a client and an address there is
  nothing to send, so that this poll stores its state without a wait. If the link
  thread waited while the cable is out instead of polling (`PollOutDelayed`), it
  would not hold. `FollowInv` speaks of what the DHCP thread has been told (`Told`),
  which lags the netif while the link thread's messages leave.

- `IInv` (EchoServerProofs). That a number names its own connection needs the stage of
  every task (`Stages`: which record is allocated or freed at which step), room in the
  table (`Room`: a connection takes a netconn before a descriptor, so that `accept`
  finds a free one), and `Own`, that descriptors, records and numbers of live tasks
  are pairwise distinct, as long as no freed record was used again.
- `IInv` (EthTxProofs). `TxInv` is not inductive: that the release finds the packet
  needs the locals of `HAL_ETH_ReleaseTxPacket` to be up to date, and that TS comes
  with the last descriptor and no earlier needs `last` to have no other descriptor
  of the packet (`Busy`). `Busy(t, d)` says all this of the number `d` of descriptors
  that the DMA has sent. `GivenOnce` and `HeldOnce` count, for each packet, what the
  DMA was given and what the driver holds; a packet that was too long was given
  nowhere. Facts on spans of the ring (`Wrap`,
  `InSpan`, `SpanGrows`, `Distinct`) are proved once for any size.
- `IInv` and `Order` (EthRxProofs). That a start in step needs no new buffer is part
  of `Links`: it finds every descriptor with a buffer, so it cannot fail half-way.
  `Order` follows a frame through the ring: the `m` descriptors that are filled and
  not read go on where the chain ended, or after the last frame given when it is
  empty (`Before`, `Follows`), and the DMA goes on after them. The length of the chain
  so far is a buffer for each part that is not the last.
- `SerialInv` (SerialApp) is inductive as it stands: a node in the network has a timer
  or an event left because every handler that takes one event starts the timer of
  the next; `pending` is true exactly when a frame waits and the other buffer is free.
  `UartInOrder` follows from it and from lemmas on what follows a prefix of a sequence.

Model-checked only: liveness (`KeepsReporting`, `KeepsSampling`, `SearchEnds`,
`SendsEnd`, `FramesTaken`, `DescriptorsComeBack`, `RoundsGoOn`), which is beyond the
prover. Every invariant and every safety property of the passing runs is stated by a
theorem.

## 5. What is not modelled, and why

- Arithmetic of floats (filters, base lines, the network): values are not what the
  properties tell apart.
- Register sequences of I2C, ADC, PHY, LCD and the board support: pure I/O.
- The vendored stacks, except the DHCP client as `DhcpLink` uses it and
  `vTaskDelayUntil` in `SensorPipeline`.
- Races inside a call of lwIP made without its core lock, and the corruption that
  the name buffer of `lwip_demo` meets: neither has outcomes a model could list.
- The memory pool and the line receiver of the USART (gateway) and the transmission of
  USART1 (sensor board): no code of the repository calls them.
- Error interrupts of the Ethernet driver other than RBUS, its initialisation and the
  RMII watchdog; the error bits of a received frame other than that it was cut off; the
  contents of ZigBee frames.
- Time in the Modbus link: a receive time-out may happen whenever a response is not
  there.
- What a read of a DHCP client through NULL gives is flash, any number of tries; a
  fault there would only stop the board.
- Renewal of a lease is part of `BOUND`; address, mask and gateway are one value; a
  read of the PHY succeeds; messages of the DHCP server arrive only with the cable in.

## 6. Plan

Done, in this order: `ModbusFrame`, `ModbusLink` and `RegisterStore`;
`SensorPipeline` and `WindowStream`; `Usart1Rx`; `DhcpLink`; `EchoServer`, with the
table of descriptors that it shares with the Modbus client; `EthTx` and `EthRx`;
`SerialApp`; then the proofs of each, `MessageStream` last. Questions about the same
component share a run; only a stream that TCP cuts needs bounds of its own.

The invariants and safety properties of all runs are proved. What could be proved
further is that the UART of `SerialApp` and the two directions of the Ethernet driver
implement abstract queues of their own. A composition of the boot of the gateway
(`DhcpLink` with `EchoServer`) would show nothing that the two do not show by
themselves: they meet only in `dhcpstatus`, which is a condition on the `Init` of the
second.
