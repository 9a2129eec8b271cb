------------------------------ MODULE DhcpLink ------------------------------
(***************************************************************************)
(* How the gateway gets its address: the link thread polls the cable, the  *)
(* DHCP thread follows g_lwip_dhcp_state, and the DHCP client of lwIP runs *)
(* in the TCP/IP thread.                                                   *)
(*                                                                         *)
(* The DHCP thread has the lowest priority.  It runs only while the link   *)
(* thread is in its delay or waits for a message to leave, and the link    *)
(* thread may go on between any two of its steps.  A pass of the DHCP      *)
(* thread comes after a delay of at least Polls polls of the link thread,  *)
(* unless the link thread was kept waiting by a message.                   *)
(***************************************************************************)
EXTENDS Integers

CONSTANTS
  Leases,      (* addresses that the DHCP server gives                     *)
  Static,      (* the default address of g_lwipdev                         *)
  NoAddr,      (* 0.0.0.0                                                  *)
  MaxTries,    (* LWIP_MAX_DHCP_TRIES                                      *)
  SelectTries, (* requests of an offered address before a restart          *)
  RebootTries, (* REBOOT_TRIES                                             *)
  TriesCap,    (* where the client stops counting, 255                     *)
  AgainMax,    (* the largest int, for link_again_num                      *)
  Polls,       (* polls of the link during a delay of the DHCP thread      *)
  MaxFlips,    (* bound on changes of the cable                            *)
  MaxBad       (* bound on refusals, conflicts and expiries of leases      *)

ASSUME DhcpAssumption ==
  /\ NoAddr \notin Leases \cup {Static} /\ Static \notin Leases
  /\ MaxTries \in Nat /\ SelectTries \in Nat /\ RebootTries \in Nat /\ TriesCap \in Nat
  /\ RebootTries <= MaxTries /\ MaxTries <= SelectTries /\ SelectTries < TriesCap
  /\ AgainMax \in Nat /\ AgainMax >= 2
  /\ Polls \in Nat \ {0} /\ MaxFlips \in Nat /\ MaxBad \in Nat

VARIABLES
  cable,       (* the cable is plugged in                                  *)
  flips, bad,  (* history: changes of the cable, refusals of the server    *)
  lpc,         (* the link thread: "poll", "delay", or "sending" while the *)
               (* messages of netif_set_link_up wait for g_tx_semaphore    *)
  again,       (* link_again_num                                           *)
  status,      (* link_status                                              *)
  up, linkUp,  (* NETIF_FLAG_UP, NETIF_FLAG_LINK_UP                        *)
  overtaken,   (* history: the link thread told of a change while the DHCP *)
               (* thread was in the middle of a pass                       *)
  dpc,         (* the DHCP thread                                          *)
  polls,       (* polls since the DHCP thread went to its delay            *)
  state,       (* g_lwip_dhcp_state                                        *)
  dhcpstatus,  (* g_lwipdev.dhcpstatus                                     *)
  own,         (* g_lwipdev.ip                                             *)
  addr,        (* the address of the netif                                 *)
  client,      (* struct dhcp of the netif                                 *)
  nomem,       (* history: the latest dhcp_start ran out of memory         *)
  looks        (* passes of the DHCP thread since the client's timer began *)

env  == <<cable, flips, bad>>
link == <<lpc, again, status, up, linkUp, overtaken>>
net  == <<own, addr, dhcpstatus>>
dhcp == <<client, nomem, looks>>
vars == <<env, link, dpc, polls, state, net, dhcp>>

States == {"OFF", "START", "WAIT_ADDRESS", "ADDRESS_ASSIGNED", "TIMEOUT", "LINK_DOWN"}
(* BOUND stands for RENEWING and REBINDING too. *)
ClientStates == {"none", "OFF", "INIT", "SELECTING", "REQUESTING", "CHECKING",
                 "BOUND", "REBOOTING", "BACKING_OFF"}
Addrs == Leases \cup {Static, NoAddr}

TypeOK ==
  /\ cable \in BOOLEAN /\ flips \in 0 .. MaxFlips /\ bad \in 0 .. MaxBad
  /\ lpc \in {"poll", "delay", "sending"} /\ again \in -AgainMax - 1 .. AgainMax
  /\ status \in BOOLEAN /\ up \in BOOLEAN /\ linkUp \in BOOLEAN
  /\ overtaken \in BOOLEAN
  /\ dpc \in {"delay", "switch", "zero", "waiting", "start", "supplied", "assigned",
              "address", "tries", "timeout", "static", "off"}
  /\ polls \in 0 .. Polls /\ looks \in 0 .. 2
  /\ state \in States /\ dhcpstatus \in {0, 2, 255}
  /\ own \in Addrs /\ addr \in Addrs
  /\ client \in [st : ClientStates, tries : 0 .. TriesCap, addr : Addrs]
  /\ nomem \in BOOLEAN
-----------------------------------------------------------------------------
(* The DHCP client of lwIP. *)

Fresh(s) == [st |-> s, tries |-> 0, addr |-> NoAddr]

(* Mutants of Sent: the tries are not capped; are not counted. *)
SentUncapped(c, s) ==
  LET t == IF c.st = s THEN c.tries ELSE 0
  IN  [c EXCEPT !.st = s, !.tries = t + 1]
SentOnce(c, s) == [c EXCEPT !.st = s, !.tries = 1]

(* A message is sent in state s: dhcp_set_state, and one more try. *)
Sent(c, s) ==
  LET t == IF c.st = s THEN c.tries ELSE 0
  IN  [c EXCEPT !.st = s, !.tries = IF t < TriesCap THEN t + 1 ELSE t]

Discover(c) == Sent([c EXCEPT !.addr = NoAddr], "SELECTING")

(* What dhcp_start makes of the client c when memory runs out: none if     *)
(* there was none, or one that is off because it has no UDP connection.    *)
Failed(c) == {Fresh("OFF")} \cup (IF c.st = "none" THEN {c} ELSE {})

(* dhcp_start, whose caller has the client c. *)
Start(c) ==
  /\ looks' = 0
  /\ \/ ~up /\ client' = c /\ UNCHANGED nomem
     \/ /\ up /\ nomem' = FALSE
        /\ client' = IF linkUp THEN Discover(Fresh("OFF")) ELSE Fresh("INIT")
     \/ up /\ nomem' = TRUE /\ client' \in Failed(c)

(* dhcp_network_changed. *)
Changed(c) ==
  CASE c.st \in {"none", "OFF"}          -> c
    [] c.st \in {"BOUND", "REBOOTING"}   -> Sent([c EXCEPT !.tries = 0], "REBOOTING")
    [] OTHER                             -> Discover([c EXCEPT !.tries = 0])

Supplied == client.st = "BOUND"
Arm(c)   == client' = c /\ looks' = 0 /\ UNCHANGED nomem
Bind(a)  == Arm([st |-> "BOUND", tries |-> 0, addr |-> a]) /\ addr' = a
Drop     == addr' = NoAddr

(* The link thread spins while the cable is out, and nobody else of the    *)
(* lower priority runs.                                                    *)
Spinning == lpc = "poll" /\ again >= 2

(* Timers of tens of seconds and leases: the DHCP thread, once a second,   *)
(* makes a whole pass before they end.                                     *)
LongEnough == looks = 2 \/ Spinning
-----------------------------------------------------------------------------
(* lwip_comm_init, up to the creation of the two threads. *)
Init ==
  /\ cable \in BOOLEAN /\ flips = 0 /\ bad = 0
  /\ lpc = "poll" /\ again = 0 /\ status = FALSE /\ up = FALSE /\ linkUp = FALSE
  /\ overtaken = FALSE
  /\ dpc = "switch" /\ polls = 0
  /\ state = "LINK_DOWN" /\ dhcpstatus = 0
  /\ own = Static /\ addr = NoAddr
  /\ client = Fresh("none") /\ nomem = FALSE /\ looks = 0

(* Someone pulls or plugs the cable. *)
Flip ==
  /\ flips < MaxFlips
  /\ flips' = flips + 1 /\ cable' = ~cable
  /\ UNCHANGED <<bad, link, dpc, polls, state, net, dhcp>>

NextPoll == polls' = IF polls < Polls THEN polls + 1 ELSE polls

InPass == dpc \notin {"delay", "switch"}

(* lwip_link_status_updated. *)
LinkCallback(isUp) == /\ state' = IF isUp THEN "START" ELSE "LINK_DOWN"
                      /\ overtaken' = (overtaken \/ InPass)

(* link_again_num ++ of an int. *)
AgainNext == IF again = AgainMax THEN -AgainMax - 1 ELSE again + 1

(* The first poll without a link takes the netif down. *)
TakeDown == up' = FALSE /\ linkUp' = FALSE /\ LinkCallback(FALSE)

(* Mutant of PollOut: the thread waits for the cable in its delay. *)
PollOutDelayed ==
  /\ lpc = "poll" /\ ~cable
  /\ status' = FALSE /\ again' = AgainNext /\ lpc' = "delay"
  /\ IF again' >= 2 THEN UNCHANGED <<up, linkUp, overtaken, state>> ELSE TakeDown
  /\ NextPoll
  /\ UNCHANGED <<env, dpc, net, dhcp>>

(* Mutant of PollOut: the DHCP thread is not told. *)
PollOutUntold ==
  /\ lpc = "poll" /\ ~cable
  /\ status' = FALSE /\ again' = AgainNext /\ lpc' = IF again' >= 2 THEN lpc ELSE "delay"
  /\ IF again' >= 2 THEN UNCHANGED <<up, linkUp>> ELSE up' = FALSE /\ linkUp' = FALSE
  /\ NextPoll
  /\ UNCHANGED <<env, overtaken, dpc, state, net, dhcp>>

(* A poll of lwip_link_thread without a link: the first one takes the      *)
(* netif down, the others go on polling without the delay.                 *)
PollOut ==
  /\ lpc = "poll" /\ ~cable
  /\ status' = FALSE
  /\ again' = AgainNext
  /\ IF again' >= 2
     THEN UNCHANGED <<lpc, up, linkUp, overtaken, state>>
     ELSE TakeDown /\ lpc' = "delay"
  /\ NextPoll
  /\ UNCHANGED <<env, dpc, net, dhcp>>

(* netif_set_link_up sends: the client if there is one that is not off,    *)
(* and ARP if the netif has an address.                                    *)
Sends == client.st \notin {"none", "OFF"} \/ addr # NoAddr

(* The netif goes up, and the client learns of it.  The callback that      *)
(* tells the DHCP thread comes after what there is to send.                *)
BringUp ==
  /\ up' = TRUE /\ linkUp' = TRUE
  /\ Arm(Changed(client))
  /\ IF Sends THEN lpc' = "sending" /\ UNCHANGED <<overtaken, state>>
              ELSE lpc' = "delay" /\ LinkCallback(TRUE)

(* A poll with a link. *)
PollIn ==
  /\ lpc = "poll" /\ cable
  /\ again' = 0
  /\ status' = TRUE
  /\ IF ~status /\ ~linkUp THEN BringUp
     ELSE /\ up' = (up \/ ~status) /\ lpc' = "delay"
          /\ UNCHANGED <<linkUp, overtaken, state, dhcp>>
  /\ NextPoll
  /\ UNCHANGED <<env, dpc, net>>

(* The messages have left, which may have taken the whole delay of the     *)
(* DHCP thread: the callback, and the delay of the link thread.            *)
MessagesLeft ==
  /\ lpc = "sending"
  /\ LinkCallback(TRUE)
  /\ lpc' = "delay" /\ polls' = Polls
  /\ UNCHANGED <<env, again, status, up, linkUp, dpc, net, dhcp>>

(* The delay of 100 ticks is over. *)
LinkWakes ==
  /\ lpc = "delay"
  /\ lpc' = "poll"
  /\ UNCHANGED <<env, again, status, up, linkUp, overtaken, dpc, polls, state, net, dhcp>>

LinkThread == PollOut \/ PollIn \/ MessagesLeft \/ LinkWakes
-----------------------------------------------------------------------------
(* lwip_periodic_handle: the DHCP thread. *)

(* The delay of 1000 ticks at the end of a pass. *)
Delay ==
  /\ dpc' = "delay" /\ polls' = 0
  /\ looks' = IF looks < 2 THEN looks + 1 ELSE looks

DhcpWakes ==
  /\ dpc = "delay" /\ (polls = Polls \/ lpc = "sending")
  /\ dpc' = "switch"
  /\ UNCHANGED <<polls, state, net, dhcp>>

Switch ==
  /\ dpc = "switch"
  /\ IF state \in {"START", "WAIT_ADDRESS", "LINK_DOWN"}
     THEN /\ dpc' = CASE state = "START" -> "zero"
                      [] state = "WAIT_ADDRESS" -> "supplied"
                      [] OTHER -> "off"
          /\ UNCHANGED <<polls, looks>>
     ELSE Delay
  /\ UNCHANGED <<state, net, client, nomem>>

ZeroAddress ==
  /\ dpc = "zero"
  /\ addr' = NoAddr
  /\ dpc' = "waiting"
  /\ UNCHANGED <<polls, looks, state, own, dhcpstatus, client, nomem>>

SetWaiting ==
  /\ dpc = "waiting"
  /\ state' = "WAIT_ADDRESS"
  /\ dpc' = "start"
  /\ UNCHANGED <<polls, looks, net, client, nomem>>

(* dhcp_start, whose result is ignored. *)
DhcpStart ==
  /\ dpc = "start"
  /\ Start(client)
  /\ dpc' = "delay" /\ polls' = 0
  /\ UNCHANGED <<state, net>>

CheckSupplied ==
  /\ dpc = "supplied"
  /\ dpc' = IF Supplied THEN "assigned" ELSE "tries"
  /\ UNCHANGED <<polls, looks, state, net, client, nomem>>

SetAssigned ==
  /\ dpc = "assigned"
  /\ state' = "ADDRESS_ASSIGNED"
  /\ dpc' = "address"
  /\ UNCHANGED <<polls, looks, net, client, nomem>>

TakeAddress ==
  /\ dpc = "address"
  /\ IF addr # NoAddr THEN own' = addr /\ dhcpstatus' = 2
                      ELSE UNCHANGED <<own, dhcpstatus>>
  /\ Delay
  /\ UNCHANGED <<state, addr, client, nomem>>

(* dhcp->tries, through a pointer that nothing has checked.  Without a     *)
(* client it reads the flash near address 0, any number of tries.          *)
CheckTries ==
  /\ dpc = "tries"
  /\ \E t \in IF client.st = "none" THEN 0 .. TriesCap ELSE {client.tries} :
       IF t > MaxTries THEN dpc' = "timeout" /\ UNCHANGED <<polls, looks>>
                       ELSE Delay
  /\ UNCHANGED <<state, net, client, nomem>>

SetTimeout ==
  /\ dpc = "timeout"
  /\ state' = "TIMEOUT"
  /\ dpc' = "static"
  /\ UNCHANGED <<polls, looks, net, client, nomem>>

UseStatic ==
  /\ dpc = "static"
  /\ dhcpstatus' = 255
  /\ addr' = own
  /\ Delay
  /\ UNCHANGED <<state, own, client, nomem>>

SetOff ==
  /\ dpc = "off"
  /\ state' = "OFF"
  /\ Delay
  /\ UNCHANGED <<net, client, nomem>>

DhcpThread ==
  /\ lpc \in {"delay", "sending"}
  /\ \/ DhcpWakes \/ Switch \/ ZeroAddress \/ SetWaiting \/ DhcpStart \/ CheckSupplied
     \/ SetAssigned \/ TakeAddress \/ CheckTries \/ SetTimeout \/ UseStatic \/ SetOff
  /\ UNCHANGED <<env, link>>
-----------------------------------------------------------------------------
(* The TCP/IP thread: messages of the server and timers.                   *)

(* dhcp_handle_offer. *)
Offer ==
  /\ cable /\ client.st = "SELECTING"
  /\ \E a \in Leases : Arm(Sent([client EXCEPT !.addr = a], "REQUESTING"))
  /\ UNCHANGED <<addr, bad>>

(* An ACK: the address is first looked for by ARP, after a reboot it is    *)
(* used at once.                                                           *)
Ack ==
  /\ cable
  /\ \/ /\ client.st = "REQUESTING"
        /\ Arm(Sent(client, "CHECKING")) /\ UNCHANGED addr
     \/ /\ client.st = "REBOOTING"
        /\ \E a \in Leases : Bind(a)
  /\ UNCHANGED bad

(* dhcp_handle_nak. *)
Nak ==
  /\ cable /\ bad < MaxBad
  /\ client.st \in {"REQUESTING", "REBOOTING"} \/ (Supplied /\ LongEnough)
  /\ Drop /\ Arm(Discover(client))
  /\ bad' = bad + 1

(* dhcp_arp_reply: another host has the address. *)
Conflict ==
  /\ cable /\ bad < MaxBad /\ client.st = "CHECKING"
  /\ Arm(Sent(client, "BACKING_OFF"))
  /\ bad' = bad + 1 /\ UNCHANGED addr

(* The lease ends: dhcp_release_and_stop, and dhcp_start. *)
Expire ==
  /\ bad < MaxBad /\ Supplied /\ LongEnough
  /\ Drop /\ Start(Fresh("OFF"))
  /\ bad' = bad + 1

(* dhcp_timeout. *)
Timeout ==
  /\ client.tries > MaxTries => LongEnough
  /\ CASE client.st \in {"SELECTING", "BACKING_OFF"} -> Arm(Discover(client)) /\ UNCHANGED addr
       [] client.st = "REQUESTING" ->
            /\ IF client.tries <= SelectTries THEN Arm(Sent(client, "REQUESTING"))
                                              ELSE Start(Fresh("OFF"))
            /\ UNCHANGED addr
       [] client.st = "CHECKING" ->
            IF client.tries <= 1 THEN Arm(Sent(client, "CHECKING")) /\ UNCHANGED addr
                                 ELSE Bind(client.addr)
       [] client.st = "REBOOTING" ->
            /\ Arm(IF client.tries < RebootTries THEN Sent(client, "REBOOTING")
                                                 ELSE Discover(client))
            /\ UNCHANGED addr
       [] OTHER -> FALSE
  /\ UNCHANGED bad

TcpipThread ==
  /\ Offer \/ Ack \/ Nak \/ Conflict \/ Expire \/ Timeout
  /\ UNCHANGED <<cable, flips, link, dpc, polls, state, own, dhcpstatus>>

Next == Flip \/ LinkThread \/ DhcpThread \/ TcpipThread

Spec == Init /\ [][Next]_vars

(* Each thread runs; the DHCP thread in the delays of the link thread.     *)
Fair == WF_vars(LinkThread) /\ SF_vars(DhcpThread) /\ WF_vars(TcpipThread /\ Timeout)
FairSpec == Spec /\ Fair
-----------------------------------------------------------------------------
(* Properties. *)

(* The DHCP thread follows the pointer to the client before there is one   *)
(* only after a dhcp_start that ran out of memory: else nothing but the    *)
(* timing of the threads protects it.                                      *)
NoNullPointer == dpc = "tries" /\ client.st = "none" => nomem

(* As long as no change of the link fell into a pass of the DHCP thread,   *)
(* an idle DHCP thread has been told what the netif is: there is a search, *)
(* or its result, exactly while the netif is up.  It is not told while the *)
(* link thread waits for its messages to leave.                            *)
StateFollowsLink ==
  ~overtaken /\ dpc = "delay" /\ lpc # "sending" =>
    (up <=> state \notin {"OFF", "LINK_DOWN"})

(* Likewise a search is on with nobody to do it, no client or one that is  *)
(* off, exactly when the latest dhcp_start ran out of memory.              *)
SearchHasClient ==
  ~overtaken /\ dpc = "delay" /\ state = "WAIT_ADDRESS" =>
    (client.st \in {"none", "OFF"} <=> nomem)

(* Once the cable stays in, every search ends, with a lease or with the    *)
(* static address, unless a change of the link fell into a pass or memory  *)
(* ran out, which nothing retries.                                         *)
SearchEnds ==
  <>[]cable => <>[](state \in {"ADDRESS_ASSIGNED", "TIMEOUT"} \/ overtaken \/ nomem)

(* start_task: "wait until DHCP has an address or fell back to the static  *)
(* one".  Also while there is memory enough.                               *)
BootEnds == <>[]cable /\ []~nomem => <>(dhcpstatus \in {2, 255})

(* The inductive invariant of module DhcpLinkProofs.  The flags of the     *)
(* netif and link_status agree.  While there is no client and memory did   *)
(* not run out, the DHCP thread is not in a search that would look at it:  *)
(* a search that could not start is over at the next poll, before the DHCP *)
(* thread's delay, and that poll has nothing to send.  And as long as no   *)
(* change of the link fell into a pass, the state at each step of the DHCP *)
(* thread is the one it read.                                              *)
FlagsInv == /\ status = up /\ linkUp = up /\ (up => again = 0)
            /\ lpc = "sending" => up

PointerInv ==
  /\ nomem => client.st \in {"none", "OFF"}
  /\ client.st = "none" /\ ~nomem =>
       /\ dpc \notin {"supplied", "assigned", "tries", "timeout", "static"}
       /\ addr = NoAddr /\ lpc # "sending"
       /\ state = "WAIT_ADDRESS" =>
            dpc = "start" \/ (dpc = "delay" /\ ~up /\ (polls = 0 \/ lpc = "poll"))

(* The DHCP thread has been told that the netif is up. *)
Told == up /\ lpc # "sending"

FollowInv ==
  ~overtaken =>
    /\ dpc \in {"zero", "waiting"} => Told /\ state = "START"
    /\ dpc \in {"start", "supplied", "assigned", "tries", "timeout"} =>
         Told /\ state = "WAIT_ADDRESS"
    /\ dpc = "address" => Told /\ state = "ADDRESS_ASSIGNED"
    /\ dpc = "static" => Told /\ state = "TIMEOUT"
    /\ dpc = "off" => ~Told /\ state = "LINK_DOWN"
    /\ dpc \in {"delay", "switch"} => (Told <=> state \notin {"OFF", "LINK_DOWN"})
    /\ state = "WAIT_ADDRESS" /\ client.st = "OFF" /\ dpc # "start" => nomem

DhcpInv == TypeOK /\ FlagsInv /\ PointerInv /\ FollowInv /\ NoNullPointer
=============================================================================
