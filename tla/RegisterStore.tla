--------------------------- MODULE RegisterStore ---------------------------
(***************************************************************************)
(* What the reporting link promises: the server shows one report at a time *)
(* (or none, after it restarted); a report is shown only after it was made *)
(* and at most once; it is acknowledged only after it has been shown.      *)
(***************************************************************************)
EXTENDS Naturals

CONSTANT Samples

VARIABLES view, issued, installed, acked

storeVars == <<view, issued, installed, acked>>

NoReport == [i \in 0 .. 4 |-> 0]

Init == view = NoReport /\ issued = {} /\ installed = {} /\ acked = {}

Make(s) ==
  /\ s \in Samples \ issued
  /\ issued' = issued \cup {s}
  /\ UNCHANGED <<view, installed, acked>>

Install(s) ==
  /\ s \in issued \ installed
  /\ installed' = installed \cup {s}
  /\ view' = s
  /\ UNCHANGED <<issued, acked>>

Acknowledge(s) ==
  /\ s \in installed
  /\ acked' = acked \cup {s}
  /\ UNCHANGED <<view, issued, installed>>

Forget ==
  /\ view' = NoReport
  /\ UNCHANGED <<issued, installed, acked>>

Next == (\E s \in Samples : Make(s) \/ Install(s) \/ Acknowledge(s)) \/ Forget

Spec == Init /\ [][Next]_storeVars
=============================================================================
