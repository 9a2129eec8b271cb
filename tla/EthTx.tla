-------------------------------- MODULE EthTx --------------------------------
(***************************************************************************)
(* Sending through the Ethernet driver of the gateway.                     *)
(*                                                                         *)
(* low_level_output fills the one TxConfig, hands the packet to the DMA    *)
(* and waits for the one binary semaphore that the interrupt gives.  The   *)
(* threads of lwIP come here under its core lock, one at a time.  The link *)
(* thread, when it brings the netif up, and the DHCP thread, when it       *)
(* starts the client, come without it.                                     *)
(*                                                                         *)
(* A send is cut where a thread of a higher priority or the interrupt can  *)
(* change its course.  A finer cut only adds results to sends that         *)
(* overlap, and those the properties below excuse already.                 *)
(***************************************************************************)
EXTENDS Integers, FiniteSets

CONSTANTS
  Locked,    (* threads that send under the core lock                      *)
  Link, Dhcp,(* the threads that send without it                           *)
  NoPkt,     (* NULL in PacketAddress                                      *)
  Descs,     (* ETH_TX_DESC_CNT                                            *)
  Sizes,     (* the pbufs that a packet may have                           *)
  MaxSends,  (* bound on the packets sent                                  *)
  MaxAfter,  (* the same once sends overlapped or one was refused          *)
  MaxFlips   (* bound on changes of the cable                              *)

ASSUME EthTxAssumption ==
  /\ Link \notin Locked /\ Dhcp \notin Locked /\ Link # Dhcp
  /\ Descs \in Nat \ {0} /\ Sizes \subseteq Nat \ {0} /\ Sizes # {}
  /\ MaxSends \in Nat /\ MaxAfter \in 0 .. MaxSends /\ MaxFlips \in Nat

Threads == Locked \cup {Link, Dhcp}
Packets == 1 .. MaxSends

ASSUME NoPktAssumption == NoPkt \notin Packets

VARIABLES
  cable, flips,  (* the cable is in; how often that has changed            *)
  lpc,           (* the link thread: "poll", "delay", "stopped", "up"      *)
  up,            (* both flags of the netif; at a poll link_status too     *)
  started,       (* gState = HAL_ETH_STATE_STARTED, interrupts enabled     *)
  pc,            (* where each thread is in low_level_output               *)
  sends,         (* packets begun                                          *)
  pkt,           (* the packet that each thread sends                      *)
  size,          (* the pbufs of its packet, each one buffer, while it is  *)
                 (* on its way                                             *)
  config,        (* TxConfig: the packet in pData and the buffers          *)
  seen,          (* the locals of HAL_ETH_ReleaseTxPacket                  *)
  owned,         (* descriptors with OWN                                   *)
  last,          (* descriptors with LS                                    *)
  address,       (* PacketAddress                                          *)
  cur, rel, used,(* CurTxDesc, releaseIndex, BuffersInUse                  *)
  dma,           (* the descriptor the DMA looks at                        *)
  suspended,     (* TBUS: it found that descriptor not its own             *)
  ts,            (* TS: a frame has been sent                              *)
  sem,           (* g_tx_semaphore is available                            *)
  refs,          (* references of the driver to each packet                *)
  given,         (* history: how often the DMA was given the packet        *)
  toolong,       (* history: the packets that got ERR_IF                   *)
  overlapped,    (* history: two threads were in the driver together       *)
  refused        (* history: HAL_ETH_Transmit_IT gave HAL_ERROR            *)

linkVars == <<cable, flips, lpc, up, started>>
callVars == <<pc, sends, pkt, size, config, seen>>
descVars == <<owned, last, address, cur, rel, used>>
dmaVars  == <<dma, suspended, ts, sem>>
history  == <<refs, given, toolong, overlapped, refused>>
vars == <<linkVars, callVars, descVars, dmaVars, history>>

(* The driver wraps releaseIndex with a mask.  ETH_TX_DESC_CNT is a power  *)
(* of two, and the mask is the remainder.                                  *)
Ring == 0 .. Descs - 1
Ahead(i, n) == (i + n) % Descs
Span(i, n) == {Ahead(i, k) : k \in 0 .. n - 1}

NothingSeen == [used |-> 0, rel |-> 0]
Places == {"idle", "routed", "filled", "waiting", "woken", "releasing"}

TypeOK ==
  /\ cable \in BOOLEAN /\ flips \in 0 .. MaxFlips
  /\ lpc \in {"poll", "delay", "stopped", "up"}
  /\ up \in BOOLEAN /\ started \in BOOLEAN
  /\ pc \in [Threads -> Places]
  /\ sends \in 0 .. MaxSends
  /\ pkt \in [Threads -> Packets \cup {NoPkt}]
  /\ size \in [Threads -> Sizes \cup {0}]
  /\ config \in [pkt : Packets \cup {NoPkt}, n : Sizes \cup {0}]
  /\ seen \in [Threads -> [used : Nat, rel : Ring]]
  /\ owned \subseteq Ring /\ last \subseteq Ring
  /\ address \in [Ring -> Packets \cup {NoPkt}]
  /\ cur \in Ring /\ rel \in Ring /\ used \in Nat
  /\ dma \in Ring /\ suspended \in BOOLEAN /\ ts \in BOOLEAN /\ sem \in BOOLEAN
  /\ refs \in [Packets -> Int] /\ given \in [Packets -> Nat] /\ toolong \subseteq Packets \cup {NoPkt}
  /\ overlapped \in BOOLEAN /\ refused \in BOOLEAN

(* After low_level_init, when the link thread makes its first poll.        *)
Init ==
  /\ cable \in BOOLEAN /\ flips = 0
  /\ lpc = "poll" /\ up = FALSE /\ started = TRUE
  /\ pc = [t \in Threads |-> "idle"]
  /\ sends = 0 /\ pkt = [t \in Threads |-> NoPkt]
  /\ size = [t \in Threads |-> 0] /\ config = [pkt |-> NoPkt, n |-> 0]
  /\ seen = [t \in Threads |-> NothingSeen]
  /\ owned = {} /\ last = {} /\ address = [i \in Ring |-> NoPkt]
  /\ cur = 0 /\ rel = 0 /\ used = 0
  /\ dma = 0 /\ suspended = TRUE /\ ts = FALSE /\ sem = FALSE
  /\ refs = [p \in Packets |-> 0] /\ given = [p \in Packets |-> 0]
  /\ toolong = {} /\ overlapped = FALSE /\ refused = FALSE

(* No two threads were in the driver together, and none was refused.       *)
Quiet == ~overlapped /\ ~refused

Inside(t) == pc[t] \in {"filled", "waiting", "woken", "releasing"}

(* A thread without the lock runs only while the more important ones wait: *)
(* those with the lock come first, the link thread before the DHCP thread. *)
Ready(t) == pc[t] \notin {"idle", "waiting"}
LinkBusy == lpc # "delay" /\ ~(lpc = "up" /\ pc[Link] = "waiting")
MayRun(t) ==
  CASE t \in Locked -> TRUE
    [] t = Link     -> \A k \in Locked : ~Ready(k)
    [] OTHER        -> (\A k \in Locked : ~Ready(k)) /\ ~LinkBusy
-----------------------------------------------------------------------------
(* low_level_output. *)

(* Someone wants to send, sees that the netif is up, and is on his way.    *)
Route(t) ==
  /\ pc[t] = "idle" /\ up
  /\ sends < IF Quiet THEN MaxSends ELSE MaxAfter
  /\ t \in Locked => \A k \in Locked : pc[k] = "idle"
  /\ t = Link => lpc = "up"
  /\ MayRun(t)
  /\ pc' = [pc EXCEPT ![t] = "routed"]
  /\ sends' = sends + 1 /\ pkt' = [pkt EXCEPT ![t] = sends + 1]
  /\ \E n \in Sizes : size' = [size EXCEPT ![t] = n]
  /\ UNCHANGED <<linkVars, config, seen, descVars, dmaVars, history>>

(* Mutant of PbufRef: no reference is taken. *)
NoRef(p) == UNCHANGED refs

PbufRef(p) == refs' = [refs EXCEPT ![p] = @ + 1]

(* ERR_IF: the packet has more pbufs than there are descriptors.           *)
TooLong(t) ==
  /\ pc[t] = "routed" /\ MayRun(t) /\ size[t] > Descs
  /\ toolong' = toolong \cup {pkt[t]}
  /\ pc' = [pc EXCEPT ![t] = "idle"]
  /\ pkt' = [pkt EXCEPT ![t] = NoPkt] /\ size' = [size EXCEPT ![t] = 0]
  /\ UNCHANGED <<linkVars, sends, config, seen, descVars, dmaVars,
                 refs, given, overlapped, refused>>

(* TxConfig and pbuf_ref. *)
Fill(t) ==
  /\ pc[t] = "routed" /\ MayRun(t) /\ size[t] <= Descs
  /\ config' = [pkt |-> pkt[t], n |-> size[t]]
  /\ PbufRef(pkt[t])
  /\ pc' = [pc EXCEPT ![t] = "filled"]
  /\ overlapped' = (overlapped \/ \E k \in Threads \ {t} : Inside(k))
  /\ UNCHANGED <<linkVars, sends, pkt, size, seen, descVars, dmaVars, given, toolong, refused>>

(* ETH_Prepare_Tx_Descriptors finds them all free. *)
Free(n) == \A i \in Span(cur, n) : i \notin owned /\ address[i] = NoPkt

(* Mutant of Resume: the DMA is not told to look again. *)
NoResume == UNCHANGED suspended

(* The poll demand to a DMA that has stopped looking. *)
Resume == suspended' = FALSE

(* HAL_ETH_Transmit_IT does it: the last descriptor remembers the packet,  *)
(* and a DMA that has stopped looking is told to look again.               *)
TransmitOk(n) ==
  LET end == Ahead(cur, n - 1)
  IN  /\ owned' = owned \cup Span(cur, n)
      /\ last' = (last \ Span(cur, n)) \cup {end}
      /\ address' = [address EXCEPT ![end] = config.pkt]
      /\ cur' = Ahead(cur, n) /\ used' = used + n
      /\ Resume
      /\ given' = [given EXCEPT ![config.pkt] = @ + 1]
      /\ UNCHANGED <<rel, dma, ts, sem, refused>>

(* Its result is not looked at. *)
Transmit(t) ==
  /\ pc[t] = "filled" /\ MayRun(t)
  /\ IF started /\ Free(config.n)
     THEN TransmitOk(config.n)
     ELSE refused' = TRUE /\ UNCHANGED <<descVars, dmaVars, given>>
  /\ pc' = [pc EXCEPT ![t] = "waiting"]
  /\ UNCHANGED <<linkVars, sends, pkt, size, config, seen, refs, toolong, overlapped>>

(* The semaphore goes to the most important thread that waits. *)
Before(k, t) == k \in Locked \/ (k = Link /\ t = Dhcp)

TakeSemaphore(t) ==
  /\ pc[t] = "waiting" /\ sem
  /\ \A k \in Threads \ {t} : pc[k] = "waiting" => ~Before(k, t)
  /\ sem' = FALSE
  /\ pc' = [pc EXCEPT ![t] = "woken"]
  /\ UNCHANGED <<linkVars, sends, pkt, size, config, seen, descVars, dma, suspended, ts, history>>

(* HAL_ETH_ReleaseTxPacket copies BuffersInUse and releaseIndex. *)
ReleaseBegin(t) ==
  /\ pc[t] = "woken" /\ MayRun(t)
  /\ seen' = [seen EXCEPT ![t] = [used |-> used, rel |-> rel]]
  /\ pc' = [pc EXCEPT ![t] = "releasing"]
  /\ UNCHANGED <<linkVars, sends, pkt, size, config, descVars, dmaVars, history>>

(* Then its loop frees the packets whose descriptor is no longer OWN, up   *)
(* to the first that is.                                                   *)
Releasable(s) ==
  LET busy == {k \in 0 .. s.used - 1 :
                 LET i == Ahead(s.rel, k) IN address[i] # NoPkt /\ i \in owned}
      stop == IF busy = {} THEN s.used ELSE CHOOSE k \in busy : \A j \in busy : k <= j
  IN  {k \in 0 .. stop - 1 : address[Ahead(s.rel, k)] # NoPkt}

(* Mutant of Cleared: the entries stay. *)
Uncleared(at) == UNCHANGED address

Cleared(at) == address' = [i \in Ring |-> IF i \in at THEN NoPkt ELSE address[i]]

(* Empty entries are stepped over, and are counted only when a packet      *)
(* follows.                                                                *)
Released(t, done) ==
  LET far == CHOOSE k \in done : \A j \in done : j <= k
      at  == {Ahead(seen[t].rel, k) : k \in done}
  IN  /\ used' = seen[t].used - far - 1
      /\ rel' = Ahead(seen[t].rel, far + 1)
      /\ refs' = [p \in Packets |-> refs[p] - Cardinality({i \in at : address[i] = p})]
      /\ Cleared(at)

ReleaseEnd(t) ==
  /\ pc[t] = "releasing" /\ MayRun(t)
  /\ LET done == Releasable(seen[t])
     IN  IF done = {} THEN UNCHANGED <<used, rel, refs, address>> ELSE Released(t, done)
  /\ pc' = [pc EXCEPT ![t] = "idle"]
  /\ pkt' = [pkt EXCEPT ![t] = NoPkt] /\ size' = [size EXCEPT ![t] = 0]
  /\ seen' = [seen EXCEPT ![t] = NothingSeen]
  /\ UNCHANGED <<linkVars, sends, config, owned, last, cur, dmaVars,
                 given, toolong, overlapped, refused>>

LowLevelOutput(t) ==
  \/ TooLong(t) \/ Fill(t) \/ Transmit(t) \/ TakeSemaphore(t) \/ ReleaseBegin(t) \/ ReleaseEnd(t)
-----------------------------------------------------------------------------
(* The DMA and the interrupt. *)

(* The DMA has sent what a descriptor points to.  After the last           *)
(* descriptor of a frame it says so.                                       *)
DmaSend ==
  /\ started /\ ~suspended /\ dma \in owned
  /\ owned' = owned \ {dma}
  /\ ts' = (ts \/ dma \in last)
  /\ dma' = Ahead(dma, 1)
  /\ UNCHANGED <<linkVars, callVars, last, address, cur, rel, used, suspended, sem, history>>

DmaSuspend ==
  /\ ~suspended /\ dma \notin owned
  /\ suspended' = TRUE
  /\ UNCHANGED <<linkVars, callVars, descVars, dma, ts, sem, history>>

(* HAL_ETH_IRQHandler and HAL_ETH_TxCpltCallback.  A binary semaphore that *)
(* is given twice is available once.                                       *)
Interrupt ==
  /\ started /\ ts
  /\ ts' = FALSE /\ sem' = TRUE
  /\ UNCHANGED <<linkVars, callVars, descVars, dma, suspended, history>>
-----------------------------------------------------------------------------
(* The link thread. *)

Flip ==
  /\ flips < MaxFlips
  /\ flips' = flips + 1 /\ cable' = ~cable
  /\ UNCHANGED <<lpc, up, started, callVars, descVars, dmaVars, history>>

LinkRuns == \A k \in Locked : ~Ready(k)

(* A poll without a link stops a driver that runs.  The polls that follow  *)
(* come without a delay and change nothing.                                *)
PollOut ==
  /\ lpc = "poll" /\ ~cable /\ LinkRuns
  /\ started' = FALSE
  /\ lpc' = IF started THEN "stopped" ELSE lpc
  /\ UNCHANGED <<cable, flips, up, callVars, descVars, dmaVars, history>>

(* netif_set_down and netif_set_link_down, after HAL_ETH_Stop_IT. *)
NetifDown ==
  /\ lpc = "stopped" /\ LinkRuns
  /\ up' = FALSE
  /\ lpc' = "delay"
  /\ UNCHANGED <<cable, flips, started, callVars, descVars, dmaVars, history>>

(* A poll with a link, after one without: HAL_ETH_Start_IT, which does     *)
(* nothing to a driver that is started, then the flags.                    *)
PollIn ==
  /\ lpc = "poll" /\ cable /\ LinkRuns
  /\ lpc' = IF up THEN "delay" ELSE "up"
  /\ started' = TRUE /\ up' = TRUE
  /\ UNCHANGED <<cable, flips, callVars, descVars, dmaVars, history>>

(* The reports of netif_set_link_up have been sent. *)
Reported ==
  /\ lpc = "up" /\ pc[Link] = "idle" /\ LinkRuns
  /\ lpc' = "delay"
  /\ UNCHANGED <<cable, flips, up, started, callVars, descVars, dmaVars, history>>

LinkWakes ==
  /\ lpc = "delay"
  /\ lpc' = "poll"
  /\ UNCHANGED <<cable, flips, up, started, callVars, descVars, dmaVars, history>>

LinkThread == PollOut \/ NetifDown \/ PollIn \/ Reported \/ LinkWakes

Next ==
  \/ \E t \in Threads : Route(t) \/ LowLevelOutput(t)
  \/ DmaSend \/ DmaSuspend \/ Interrupt
  \/ Flip \/ LinkThread

Spec == Init /\ [][Next]_vars

(* Every thread runs when nothing more important does, and the hardware    *)
(* works.                                                                  *)
Fair ==
  /\ \A t \in Threads : SF_vars(LowLevelOutput(t))
  /\ WF_vars(DmaSend) /\ WF_vars(Interrupt) /\ SF_vars(LinkThread)
FairSpec == Spec /\ Fair
-----------------------------------------------------------------------------
(* Properties. *)

(* What was given to the DMA and is not yet released lies between          *)
(* releaseIndex and CurTxDesc: that is the packet of the one thread in the *)
(* driver, and its completion is on the way, in the flag or in the         *)
(* semaphore, exactly once.                                                *)
TxInv ==
  /\ TypeOK
  /\ Quiet =>
       /\ \A t, k \in Threads : Inside(t) /\ Inside(k) => t = k
       /\ \A t \in Threads : pc[t] = "filled" => config = [pkt |-> pkt[t], n |-> size[t]]
       /\ IF \E t \in Threads : pc[t] \in {"waiting", "woken", "releasing"}
          THEN \E t \in Threads :
                 /\ pc[t] \in {"waiting", "woken", "releasing"}
                 /\ used = size[t] /\ cur = Ahead(rel, used)
                 /\ address = [i \in Ring |-> IF i = Ahead(rel, used - 1) THEN pkt[t] ELSE NoPkt]
                 /\ \E d \in 0 .. used :
                      dma = Ahead(rel, d) /\ owned = Span(rel, used) \ Span(rel, d)
                 /\ Ahead(rel, used - 1) \in last
                 /\ pc[t] = "waiting" <=> owned # {} \/ ts \/ sem
                 /\ ~(ts /\ sem) /\ (owned # {} => ~ts /\ ~sem /\ ~suspended)
          ELSE /\ used = 0 /\ cur = rel /\ dma = rel /\ owned = {} /\ ~ts /\ ~sem
               /\ address = [i \in Ring |-> NoPkt]

(* A send that returns has given its packet to the DMA once, or not at all *)
(* if it is longer than the ring, and the driver holds no reference to it  *)
(* any more, unless two threads were in the driver together or a packet    *)
(* was refused.                                                            *)
Returned == (1 .. sends) \ {pkt[t] : t \in {k \in Threads : pc[k] # "idle"}}
ReturnedWasSent ==
  Quiet => \A p \in Returned : given[p] = (IF p \in toolong THEN 0 ELSE 1) /\ refs[p] = 0

(* Once the cable stays in, every send returns, unless two threads were in *)
(* the driver together or a packet was refused.                            *)
SendsEnd ==
  <>[]cable => \A t \in Threads : Inside(t) ~> (pc[t] = "idle" \/ ~Quiet)
=============================================================================
