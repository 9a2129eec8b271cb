--------------------------- MODULE DhcpLinkProofs ---------------------------
(***************************************************************************)
(* Proofs about DhcpLink: whatever the preemption, the DHCP thread follows *)
(* a null pointer only after memory ran out, and as long as no change of   *)
(* the link falls into a pass the state of the search follows the link,    *)
(* for every number of polls, tries and addresses.                         *)
(***************************************************************************)
EXTENDS DhcpLink, TLAPS

LEMMA Numbers ==
  /\ MaxTries \in Nat /\ SelectTries \in Nat /\ RebootTries \in Nat /\ TriesCap \in Nat
  /\ SelectTries < TriesCap /\ 0 < TriesCap
  /\ AgainMax \in Nat /\ AgainMax >= 2 /\ Polls \in Nat /\ 0 < Polls
  /\ MaxFlips \in Nat /\ MaxBad \in Nat
  BY DhcpAssumption

Client == [st : ClientStates, tries : 0 .. TriesCap, addr : Addrs]

(* What the client's functions return is a client, and one that exists. *)
LEMMA SentClient ==
  ASSUME NEW c \in Client, NEW s \in ClientStates \ {"none"}
  PROVE  Sent(c, s) \in Client /\ Sent(c, s).st = s
<1> DEFINE t == IF c.st = s THEN c.tries ELSE 0
<1>1. t \in 0 .. TriesCap
  BY Numbers DEF Client
<1>2. (IF t < TriesCap THEN t + 1 ELSE t) \in 0 .. TriesCap
  BY <1>1, Numbers
<1> HIDE DEF t
<1>3. [c EXCEPT !.st = s, !.tries = IF t < TriesCap THEN t + 1 ELSE t] \in Client
  BY <1>2 DEF Client
<1>4. Sent(c, s) = [c EXCEPT !.st = s, !.tries = IF t < TriesCap THEN t + 1 ELSE t]
  BY DEF Sent, t
<1> QED BY <1>3, <1>4 DEF Client

LEMMA DiscoverClient ==
  ASSUME NEW c \in Client
  PROVE  Discover(c) \in Client /\ Discover(c).st = "SELECTING"
<1>1. [c EXCEPT !.addr = NoAddr] \in Client
  BY DEF Client, Addrs
<1>2. "SELECTING" \in ClientStates \ {"none"}
  BY DEF ClientStates
<1> QED BY <1>1, <1>2, SentClient DEF Discover

LEMMA FreshClient ==
  ASSUME NEW s \in ClientStates
  PROVE  Fresh(s) \in Client /\ Fresh(s).st = s
  BY Numbers DEF Fresh, Client, Addrs

LEMMA StartedClient ==
  ASSUME NEW c \in Client, Start(c), nomem \in BOOLEAN
  PROVE  /\ client' \in Client /\ nomem' \in BOOLEAN /\ looks' = 0
         /\ up /\ nomem' => client'.st \in {"none", "OFF"}
         /\ up /\ ~nomem' => client'.st \in {"SELECTING", "INIT"}
         /\ c.st # "none" => client'.st # "none"
         /\ ~up => client' = c /\ nomem' = nomem
<1>1. /\ Fresh("OFF") \in Client /\ Fresh("OFF").st = "OFF"
      /\ Fresh("INIT") \in Client /\ Fresh("INIT").st = "INIT"
  BY FreshClient DEF ClientStates
<1>2. Discover(Fresh("OFF")) \in Client /\ Discover(Fresh("OFF")).st = "SELECTING"
  BY <1>1, DiscoverClient
<1>3. CASE ~up /\ client' = c /\ UNCHANGED nomem
  BY <1>3 DEF Start
<1>4. CASE up /\ nomem' = FALSE /\ client' = IF linkUp THEN Discover(Fresh("OFF")) ELSE Fresh("INIT")
  BY <1>1, <1>2, <1>4 DEF Start
<1>5. CASE up /\ nomem' = TRUE /\ client' \in Failed(c)
  BY <1>1, <1>5 DEF Start, Failed
<1> QED BY <1>3, <1>4, <1>5 DEF Start

LEMMA ChangedClient ==
  ASSUME NEW c \in Client
  PROVE  /\ Changed(c) \in Client
         /\ IF c.st \in {"none", "OFF"} THEN Changed(c) = c
                                       ELSE Changed(c).st \notin {"none", "OFF"}
<1>1. [c EXCEPT !.tries = 0] \in Client
  BY Numbers DEF Client
<1>2. "REBOOTING" \in ClientStates \ {"none"}
  BY DEF ClientStates
<1>3. /\ Sent([c EXCEPT !.tries = 0], "REBOOTING") \in Client
      /\ Sent([c EXCEPT !.tries = 0], "REBOOTING").st = "REBOOTING"
  BY <1>1, <1>2, SentClient
<1>4. /\ Discover([c EXCEPT !.tries = 0]) \in Client
      /\ Discover([c EXCEPT !.tries = 0]).st = "SELECTING"
  BY <1>1, DiscoverClient
<1> QED BY <1>3, <1>4 DEF Changed
-----------------------------------------------------------------------------
LEMMA InitDhcp == Init => DhcpInv
<1> SUFFICES ASSUME Init PROVE DhcpInv
  OBVIOUS
<1>1. client \in Client /\ client.st = "none"
  BY FreshClient DEF Init, ClientStates
<1>2. TypeOK
  <2>1. /\ flips \in 0 .. MaxFlips /\ bad \in 0 .. MaxBad /\ polls \in 0 .. Polls
        /\ looks \in 0 .. 2 /\ again \in -AgainMax - 1 .. AgainMax
    BY Numbers DEF Init
  <2>2. own \in Addrs /\ addr \in Addrs /\ state \in States
    BY DEF Init, Addrs, States
  <2> QED BY <1>1, <2>1, <2>2 DEF Init, TypeOK, Client
<1> QED BY <1>1, <1>2 DEF Init, DhcpInv, FlagsInv, PointerInv, FollowInv, Told, NoNullPointer

(* The cable changes nothing in the program. *)
LEMMA FlipDhcp ==
  ASSUME DhcpInv, Flip
  PROVE  DhcpInv'
<1>1. TypeOK'
  BY Numbers DEF DhcpInv, TypeOK, Flip, link, net, dhcp
<1> QED BY <1>1 DEF DhcpInv, Flip, link, net, dhcp, FlagsInv, PointerInv, FollowInv, Told, NoNullPointer

LEMMA AgainType ==
  ASSUME again \in -AgainMax - 1 .. AgainMax
  PROVE  AgainNext \in -AgainMax - 1 .. AgainMax
  BY Numbers DEF AgainNext

LEMMA PollsType ==
  ASSUME polls \in 0 .. Polls, NextPoll
  PROVE  polls' \in 0 .. Polls
  BY Numbers DEF NextPoll

LEMMA PollOutDhcp ==
  ASSUME DhcpInv, PollOut
  PROVE  DhcpInv'
<1> USE DEF DhcpInv
<1>1. TypeOK'
  <2>1. again' \in -AgainMax - 1 .. AgainMax /\ polls' \in 0 .. Polls
    BY AgainType, PollsType DEF TypeOK, PollOut
  <2>2. /\ lpc' \in {"poll", "delay"} /\ state' \in States
    BY DEF TypeOK, PollOut, TakeDown, LinkCallback, States
  <2>3. up' \in BOOLEAN /\ linkUp' \in BOOLEAN /\ status' \in BOOLEAN
    BY Zenon DEF TypeOK, PollOut, TakeDown
  <2>4. overtaken' \in BOOLEAN
    BY DEF TypeOK, PollOut, TakeDown, LinkCallback, InPass
  <2> QED BY <2>1, <2>2, <2>3, <2>4 DEF TypeOK, PollOut, env, net, dhcp
<1>2. FlagsInv'
  <2>1. CASE again' >= 2
    <3>1. ~up
      BY <2>1, Numbers DEF FlagsInv, TypeOK, PollOut, AgainNext
    <3> QED BY <2>1, <3>1 DEF FlagsInv, TypeOK, PollOut
  <2>2. CASE ~(again' >= 2)
    BY <2>2 DEF FlagsInv, PollOut, TakeDown
  <2> QED BY <2>1, <2>2
<1>3. PointerInv'
  <2>1. client' = client /\ nomem' = nomem /\ dpc' = dpc /\ addr' = addr /\ lpc' # "sending"
    BY DEF PollOut, dhcp, net
  <2>2. CASE again' >= 2
    BY <2>1, <2>2 DEF PollOut, PointerInv
  <2>3. CASE ~(again' >= 2)
    BY <2>1, <2>3 DEF PollOut, TakeDown, LinkCallback, PointerInv
  <2> QED BY <2>2, <2>3
<1>4. FollowInv'
  <2>1. CASE again' >= 2
    BY <2>1 DEF FollowInv, PollOut, Told, dhcp
  <2>2. CASE ~(again' >= 2)
    <3>1. ~overtaken' => dpc' \in {"delay", "switch"}
      BY <2>2, Zenon DEF PollOut, TakeDown, LinkCallback, InPass
    <3>2. ~up' /\ state' = "LINK_DOWN"
      BY <2>2 DEF PollOut, TakeDown, LinkCallback
    <3> QED BY <3>1, <3>2 DEF FollowInv, Told
  <2> QED BY <2>1, <2>2
<1> QED BY <1>1, <1>2, <1>3, <1>4 DEF NoNullPointer, PollOut, dhcp

LEMMA PollInDhcp ==
  ASSUME DhcpInv, PollIn
  PROVE  DhcpInv'
<1> USE DEF DhcpInv
<1>1. client \in Client
  BY DEF TypeOK, Client
<1>2. /\ Changed(client) \in Client
      /\ IF client.st \in {"none", "OFF"} THEN Changed(client) = client
                                         ELSE Changed(client).st \notin {"none", "OFF"}
  BY <1>1, ChangedClient
<1>3. (~status /\ ~up /\ ~linkUp) \/ (status /\ up /\ linkUp)
  BY DEF FlagsInv, TypeOK
<1>4. /\ cable' = cable /\ flips' = flips /\ bad' = bad /\ dpc' = dpc
      /\ own' = own /\ addr' = addr /\ dhcpstatus' = dhcpstatus
      /\ again' = 0 /\ status' = TRUE /\ polls' \in 0 .. Polls
  BY PollsType DEF PollIn, env, net, TypeOK
<1>5. CASE status
  <2>1. /\ up' = up /\ linkUp' = linkUp /\ overtaken' = overtaken /\ state' = state
        /\ client' = client /\ nomem' = nomem /\ looks' = looks /\ lpc' = "delay"
    BY <1>3, <1>5, Zenon DEF PollIn, dhcp
  <2>2. TypeOK'
    BY <1>3, <1>4, <2>1, <1>5, Numbers DEF TypeOK
  <2>3. FlagsInv' /\ PointerInv' /\ FollowInv' /\ NoNullPointer'
    BY <1>3, <1>4, <2>1, <1>5 DEF PollIn, FlagsInv, PointerInv, FollowInv, Told, NoNullPointer
  <2> QED BY <2>2, <2>3
<1>6. CASE ~status
  <2>1. /\ up' = TRUE /\ linkUp' = TRUE /\ client' = Changed(client) /\ nomem' = nomem /\ looks' = 0
        /\ \/ Sends /\ lpc' = "sending" /\ overtaken' = overtaken /\ state' = state
           \/ /\ ~Sends /\ lpc' = "delay" /\ state' = "START"
              /\ overtaken' = (overtaken \/ InPass)
    BY <1>3, <1>6, Zenon DEF PollIn, BringUp, Arm, LinkCallback
  <2>2. overtaken' \in BOOLEAN /\ state' \in States
    BY <2>1 DEF TypeOK, States, InPass
  <2>3. TypeOK'
    BY <1>2, <1>4, <2>1, <2>2, Numbers DEF TypeOK, Client
  <2>4. /\ client'.st = "none" => client.st = "none"
        /\ client'.st = "OFF" => client.st = "OFF"
        /\ client.st = "none" \/ client.st = "OFF" => client' = client
    BY <1>2, <2>1
  <2>5. FlagsInv' /\ NoNullPointer'
    BY <1>4, <2>1, <2>4 DEF FlagsInv, NoNullPointer
  <2>6. PointerInv'
    BY <1>4, <2>1, <2>4 DEF PollIn, PointerInv, Sends
  <2>7. FollowInv'
    BY <1>3, <1>4, <1>6, <2>1, <2>4 DEF PollIn, FollowInv, Told, InPass
  <2> QED BY <2>3, <2>5, <2>6, <2>7
<1> QED BY <1>5, <1>6 DEF TypeOK

(* The messages have left: the thread is told of a netif that is up. *)
LEMMA MessagesLeftDhcp ==
  ASSUME DhcpInv, MessagesLeft
  PROVE  DhcpInv'
<1> USE DEF DhcpInv
<1>1. /\ lpc = "sending" /\ lpc' = "delay" /\ state' = "START"
      /\ overtaken' = (overtaken \/ InPass)
      /\ cable' = cable /\ flips' = flips /\ bad' = bad /\ again' = again /\ status' = status
      /\ up' = up /\ linkUp' = linkUp /\ dpc' = dpc /\ polls' = Polls
      /\ own' = own /\ addr' = addr /\ dhcpstatus' = dhcpstatus
      /\ client' = client /\ nomem' = nomem /\ looks' = looks
  BY Zenon DEF MessagesLeft, LinkCallback, env, net, dhcp
<1>2. TypeOK'
  <2>1. overtaken' \in BOOLEAN /\ state' \in States
    BY <1>1 DEF TypeOK, States, InPass
  <2> QED BY <1>1, <2>1, Numbers DEF TypeOK
<1>3. FlagsInv' /\ NoNullPointer'
  BY <1>1 DEF FlagsInv, NoNullPointer
<1>4. PointerInv'
  BY <1>1 DEF PointerInv
<1>5. FollowInv'
  BY <1>1 DEF FollowInv, FlagsInv, Told, InPass
<1> QED BY <1>2, <1>3, <1>4, <1>5

LEMMA LinkWakesDhcp ==
  ASSUME DhcpInv, LinkWakes
  PROVE  DhcpInv'
<1>1. TypeOK'
  BY DEF DhcpInv, TypeOK, LinkWakes, env, net, dhcp
<1> QED BY <1>1 DEF DhcpInv, LinkWakes, env, net, dhcp, FlagsInv, PointerInv, FollowInv, Told, NoNullPointer

(* A step of the DHCP thread keeps the types. *)
LEMMA DhcpThreadType ==
  ASSUME TypeOK, DhcpThread
  PROVE  TypeOK'
<1>1. /\ cable' = cable /\ flips' = flips /\ bad' = bad /\ lpc' = lpc /\ again' = again
      /\ status' = status /\ up' = up /\ linkUp' = linkUp
      /\ overtaken' = overtaken
  BY DEF DhcpThread, env, link
<1>2. client \in Client
  BY DEF TypeOK, Client
<1>3. DhcpStart => client' \in Client /\ nomem' \in BOOLEAN /\ looks' = 0
  BY <1>2, StartedClient DEF DhcpStart, TypeOK
<1>4. client' \in Client /\ nomem' \in BOOLEAN
  BY <1>2, <1>3 DEF DhcpThread, DhcpWakes, Switch, ZeroAddress, SetWaiting, CheckSupplied,
       SetAssigned, TakeAddress, CheckTries, SetTimeout, UseStatic, SetOff, net, dhcp, TypeOK
<1>5. polls' \in 0 .. Polls /\ looks' \in 0 .. 2
  BY <1>3, Numbers DEF TypeOK, DhcpThread, DhcpWakes, Switch, ZeroAddress, SetWaiting, DhcpStart, CheckSupplied,
       SetAssigned, TakeAddress, CheckTries, SetTimeout, UseStatic, SetOff, Delay, dhcp
<1>6. state' \in States
  BY DEF TypeOK, DhcpThread, DhcpWakes, Switch, ZeroAddress, SetWaiting, DhcpStart, CheckSupplied,
       SetAssigned, TakeAddress, CheckTries, SetTimeout, UseStatic, SetOff, States
<1>7. own' \in Addrs /\ addr' \in Addrs /\ dhcpstatus' \in {0, 2, 255}
  BY DEF TypeOK, DhcpThread, DhcpWakes, Switch, ZeroAddress, SetWaiting, DhcpStart, CheckSupplied,
       SetAssigned, TakeAddress, CheckTries, SetTimeout, UseStatic, SetOff, net, Addrs
<1>8. dpc' \in {"delay", "switch", "zero", "waiting", "start", "supplied", "assigned",
                "address", "tries", "timeout", "static", "off"}
  BY DEF TypeOK, DhcpThread, DhcpWakes, Switch, ZeroAddress, SetWaiting, DhcpStart, CheckSupplied,
       SetAssigned, TakeAddress, CheckTries, SetTimeout, UseStatic, SetOff, Delay
<1> QED BY <1>1, <1>4, <1>5, <1>6, <1>7, <1>8 DEF TypeOK, Client

(* A step of the DHCP thread.  It looks at the client only in a search     *)
(* that did start.                                                         *)
LEMMA DhcpThreadDhcp ==
  ASSUME DhcpInv, DhcpThread
  PROVE  DhcpInv'
<1> USE DEF DhcpInv
<1>1. TypeOK'
  BY DhcpThreadType
<1>2. /\ lpc # "poll" /\ lpc' = lpc /\ again' = again
      /\ status' = status /\ up' = up /\ linkUp' = linkUp
      /\ overtaken' = overtaken
  BY DEF DhcpThread, link
<1>3. FlagsInv'
  BY <1>2 DEF FlagsInv
<1>4. PointerInv' /\ NoNullPointer' /\ FollowInv'
  <2> USE DEF PointerInv, FollowInv, Told, NoNullPointer
  <2>1. CASE DhcpWakes
    BY <1>2, <2>1, Numbers DEF DhcpWakes, net, dhcp
  <2>2. CASE Switch
    BY <1>2, <2>2 DEF Switch, Delay, net, TypeOK, States
  <2>3. CASE ZeroAddress
    BY <1>2, <2>3 DEF ZeroAddress
  <2>4. CASE SetWaiting
    BY <1>2, <2>4 DEF SetWaiting, net
  <2>5. CASE DhcpStart
    <3>1. client \in Client /\ nomem \in BOOLEAN
      BY DEF TypeOK, Client
    <3>2. /\ up /\ nomem' => client'.st \in {"none", "OFF"}
          /\ up /\ ~nomem' => client'.st \in {"SELECTING", "INIT"}
          /\ ~up => client' = client /\ nomem' = nomem
      BY <2>5, <3>1, StartedClient DEF DhcpStart
    <3>3. dpc = "start" /\ dpc' = "delay" /\ polls' = 0 /\ state' = state /\ addr' = addr
      BY <2>5 DEF DhcpStart, net
    <3>4. PointerInv' /\ NoNullPointer'
      BY <1>2, <3>2, <3>3
    <3>5. FollowInv'
      BY <1>2, <3>2, <3>3
    <3> QED BY <3>4, <3>5
  <2>6. CASE CheckSupplied
    BY <1>2, <2>6 DEF CheckSupplied, Supplied, net
  <2>7. CASE SetAssigned
    BY <1>2, <2>7 DEF SetAssigned, net
  <2>8. CASE TakeAddress
    BY <1>2, <2>8 DEF TakeAddress, Delay
  <2>9. CASE CheckTries
    <3>1. /\ dpc = "tries" /\ state' = state /\ client' = client /\ nomem' = nomem /\ addr' = addr
          /\ dpc' = "timeout" \/ (dpc' = "delay" /\ polls' = 0)
      BY <2>9 DEF CheckTries, Delay, net
    <3> QED BY <1>2, <3>1
  <2>10. CASE SetTimeout
    BY <1>2, <2>10 DEF SetTimeout, net
  <2>11. CASE UseStatic
    BY <1>2, <2>11 DEF UseStatic, Delay
  <2>12. CASE SetOff
    BY <1>2, <2>12 DEF SetOff, Delay, net
  <2> QED BY <2>1, <2>2, <2>3, <2>4, <2>5, <2>6, <2>7, <2>8, <2>9, <2>10, <2>11, <2>12 DEF DhcpThread
<1> QED BY <1>1, <1>3, <1>4

(* The client: it never goes away, and it touches nothing but the address. *)
LEMMA TcpipThreadDhcp ==
  ASSUME DhcpInv, TcpipThread
  PROVE  DhcpInv'
<1> USE DEF DhcpInv
<1>1. /\ cable' = cable /\ flips' = flips /\ lpc' = lpc /\ again' = again /\ status' = status
      /\ up' = up /\ linkUp' = linkUp /\ overtaken' = overtaken
      /\ dpc' = dpc /\ polls' = polls /\ state' = state
      /\ own' = own /\ dhcpstatus' = dhcpstatus
  BY DEF TcpipThread, link
<1>2. client \in Client /\ nomem \in BOOLEAN
  BY DEF TypeOK, Client
<1>3. \A a \in Addrs : [client EXCEPT !.addr = a] \in Client
  BY <1>2 DEF Client
<1>4. \A s \in {"REQUESTING", "CHECKING", "BACKING_OFF", "REBOOTING"} :
        /\ Sent(client, s) \in Client /\ Sent(client, s).st \notin {"none", "OFF"}
        /\ \A a \in Leases : LET c == Sent([client EXCEPT !.addr = a], s)
                            IN  c \in Client /\ c.st \notin {"none", "OFF"}
  <2> TAKE s \in {"REQUESTING", "CHECKING", "BACKING_OFF", "REBOOTING"}
  <2>1. s \in ClientStates \ {"none"}
    BY DEF ClientStates
  <2>2. Leases \subseteq Addrs
    BY DEF Addrs
  <2> QED BY <1>2, <1>3, <2>1, <2>2, SentClient
<1>5. Discover(client) \in Client /\ Discover(client).st \notin {"none", "OFF"}
  BY <1>2, DiscoverClient
<1> DEFINE Kept == client' \in Client /\ looks' = 0 /\ nomem' = nomem
                   /\ client'.st \notin {"none", "OFF"}
           Restarted == /\ client' \in Client /\ looks' = 0 /\ nomem' \in BOOLEAN
                        /\ client'.st # "none"
                        /\ up => (nomem' <=> client'.st = "OFF")
                        /\ ~up => client'.st = "OFF" /\ nomem' = nomem
<1>6. Start(Fresh("OFF")) => Restarted
  <2>1. Fresh("OFF") \in Client /\ Fresh("OFF").st = "OFF"
    BY FreshClient DEF ClientStates
  <2> QED BY <1>2, <2>1, StartedClient
<1>7. \A a \in Addrs : [st |-> "BOUND", tries |-> 0, addr |-> a] \in Client
  BY Numbers DEF Client, ClientStates
<1>8. /\ addr' \in Addrs /\ bad' \in 0 .. MaxBad
      /\ client.st \notin {"none", "OFF"} /\ (Kept \/ Restarted)
  <2>1. CASE Offer
    <3>1. PICK a \in Leases : Arm(Sent([client EXCEPT !.addr = a], "REQUESTING"))
      BY <2>1 DEF Offer
    <3>2. Kept
      BY <3>1, <1>4 DEF Arm
    <3> QED BY <3>2, <2>1 DEF Offer, TypeOK
  <2>2. CASE Ack
    <3>1. CASE client.st = "REQUESTING"
      <4>1. Kept
        BY <2>2, <3>1, <1>4 DEF Ack, Arm
      <4> QED BY <2>2, <3>1, <4>1 DEF Ack, TypeOK
    <3>2. CASE client.st = "REBOOTING"
      <4>1. PICK a \in Leases : Bind(a)
        BY <2>2, <3>2 DEF Ack
      <4>2. a \in Addrs
        BY DEF Addrs
      <4>3. Kept /\ addr' = a
        BY <4>1, <4>2, <1>7 DEF Bind, Arm
      <4> QED BY <4>2, <4>3, <2>2, <3>2 DEF Ack, TypeOK
    <3> QED BY <2>2, <3>1, <3>2 DEF Ack
  <2>3. CASE Nak
    <3>1. Kept
      BY <2>3, <1>5 DEF Nak, Arm
    <3> QED BY <2>3, <3>1, Numbers DEF Nak, Drop, Supplied, TypeOK, Addrs
  <2>4. CASE Conflict
    <3>1. Kept
      BY <2>4, <1>4 DEF Conflict, Arm
    <3> QED BY <2>4, <3>1, Numbers DEF Conflict, TypeOK
  <2>5. CASE Expire
    <3>1. Restarted
      BY <2>5, <1>6 DEF Expire
    <3> QED BY <2>5, <3>1, Numbers DEF Expire, Drop, Supplied, TypeOK, Addrs
  <2>6. CASE Timeout
    <3>1. client.addr \in Addrs
      BY <1>2 DEF Client
    <3>2. bad' = bad
      BY <2>6 DEF Timeout
    <3>3. CASE client.st \in {"SELECTING", "BACKING_OFF"}
      <4>1. Arm(Discover(client)) /\ addr' = addr
        BY <2>6, <3>3 DEF Timeout
      <4>2. Kept
        BY <4>1, <1>5 DEF Arm
      <4> QED BY <3>2, <3>3, <4>1, <4>2 DEF TypeOK
    <3>4. CASE client.st = "REQUESTING"
      <4>1. /\ addr' = addr
            /\ Arm(Sent(client, "REQUESTING")) \/ Start(Fresh("OFF"))
        BY <2>6, <3>4 DEF Timeout
      <4>2. Kept \/ Restarted
        BY <4>1, <1>4, <1>6 DEF Arm
      <4> QED BY <3>2, <3>4, <4>1, <4>2 DEF TypeOK
    <3>5. CASE client.st = "CHECKING"
      <4>1. (Arm(Sent(client, "CHECKING")) /\ addr' = addr) \/ Bind(client.addr)
        BY <2>6, <3>5 DEF Timeout
      <4>2. Kept /\ addr' \in Addrs
        BY <4>1, <3>1, <1>4, <1>7 DEF Arm, Bind, TypeOK
      <4> QED BY <3>2, <3>5, <4>2 DEF TypeOK
    <3>6. CASE client.st = "REBOOTING"
      <4>1. /\ addr' = addr
            /\ Arm(Sent(client, "REBOOTING")) \/ Arm(Discover(client))
        BY <2>6, <3>6 DEF Timeout
      <4>2. Kept
        BY <4>1, <1>4, <1>5 DEF Arm
      <4> QED BY <3>2, <3>6, <4>1, <4>2 DEF TypeOK
    <3> QED BY <2>6, <3>3, <3>4, <3>5, <3>6 DEF Timeout
  <2> QED BY <2>1, <2>2, <2>3, <2>4, <2>5, <2>6 DEF TcpipThread
<1>9. ~nomem
  BY <1>8 DEF PointerInv
<1>10. TypeOK'
  BY <1>1, <1>8, <1>2 DEF TypeOK, Client
<1>11. FlagsInv'
  BY <1>1 DEF FlagsInv
<1>12. client'.st # "none" /\ (nomem' => client'.st = "OFF") /\ (up /\ client'.st = "OFF" => nomem')
  BY <1>8, <1>9, <1>2
<1>13. PointerInv' /\ NoNullPointer'
  BY <1>1, <1>12 DEF PointerInv, NoNullPointer
<1>14. FollowInv'
  <2>1. ~overtaken /\ state = "WAIT_ADDRESS" /\ dpc # "start" => up
    BY DEF FollowInv, Told, TypeOK
  <2> QED BY <1>1, <1>12, <2>1 DEF FollowInv, Told
<1> QED BY <1>10, <1>11, <1>13, <1>14

(* The invariant holds in every state, whatever the preemption and for     *)
(* every bound.                                                            *)
THEOREM Invariant == Spec => []DhcpInv
<1>1. DhcpInv /\ [Next]_vars => DhcpInv'
  <2> SUFFICES ASSUME DhcpInv, [Next]_vars PROVE DhcpInv'
    OBVIOUS
  <2>1. CASE Flip
    BY <2>1, FlipDhcp
  <2>2. CASE LinkThread
    BY <2>2, PollOutDhcp, PollInDhcp, MessagesLeftDhcp, LinkWakesDhcp DEF LinkThread
  <2>3. CASE DhcpThread
    BY <2>3, DhcpThreadDhcp
  <2>4. CASE TcpipThread
    BY <2>4, TcpipThreadDhcp
  <2>5. CASE UNCHANGED vars
    <3>1. TypeOK'
      BY <2>5 DEF vars, env, link, net, dhcp, DhcpInv, TypeOK
    <3> QED BY <2>5, <3>1 DEF vars, env, link, net, dhcp, DhcpInv, FlagsInv, PointerInv, FollowInv,
              Told, NoNullPointer
  <2> QED BY <2>1, <2>2, <2>3, <2>4, <2>5 DEF Next
<1> QED BY <1>1, InitDhcp, PTL DEF Spec

(* The DHCP thread looks at the tries of a client that is not there only   *)
(* after a dhcp_start that ran out of memory, also when the link thread    *)
(* goes on between any two of its steps: a delay of the DHCP thread lasts  *)
(* at least one poll, without a cable the link thread leaves it no time to *)
(* run, and a netif without a client has nothing to send.                  *)
THEOREM PointerIsSet == Spec => []NoNullPointer
<1>1. DhcpInv => NoNullPointer
  BY DEF DhcpInv
<1> QED BY <1>1, Invariant, PTL

(* As long as no change of the link falls into a pass, the DHCP thread     *)
(* ends each pass in a state that agrees with the link, but for the time   *)
(* between the netif's going up and the callback.                          *)
THEOREM FollowsLink == Spec => []StateFollowsLink
<1>1. DhcpInv => StateFollowsLink
  BY DEF DhcpInv, FollowInv, Told, StateFollowsLink
<1> QED BY <1>1, Invariant, PTL

(* And then a search goes on with nobody to do it exactly after dhcp_start *)
(* ran out of memory.                                                      *)
THEOREM SearchIsReal == Spec => []SearchHasClient
<1>1. DhcpInv => SearchHasClient
  BY DEF DhcpInv, FollowInv, Told, PointerInv, SearchHasClient
<1> QED BY <1>1, Invariant, PTL
=============================================================================
