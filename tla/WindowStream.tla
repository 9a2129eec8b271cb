---------------------------- MODULE WindowStream ----------------------------
(***************************************************************************)
(* What the sensor pipeline promises its consumer: of the sequence of      *)
(* samples 1, 2, 3, ... it gets whole windows, each the WindowSize samples *)
(* that end with the sample just fed, through a slot that keeps the first  *)
(* one offered until it is taken.                                          *)
(***************************************************************************)
EXTENDS Integers

CONSTANT WindowSize

VARIABLES
  fed,     (* samples so far                *)
  slot,    (* the window on offer, if any   *)
  last     (* the window taken last         *)

Empty == << >>

WindowEndingAt(n) == [t \in 0 .. WindowSize - 1 |-> n - (WindowSize - 1) + t]

Init == fed = 0 /\ slot = Empty /\ last = [t \in 0 .. WindowSize - 1 |-> 0]

Sample ==
  /\ fed' = fed + 1
  /\ slot' = IF fed' >= WindowSize /\ slot = Empty THEN WindowEndingAt(fed') ELSE slot
  /\ UNCHANGED last

Take ==
  /\ slot # Empty
  /\ last' = slot
  /\ slot' = Empty
  /\ UNCHANGED fed

Next == Sample \/ Take

Spec == Init /\ [][Next]_<<fed, slot, last>>
=============================================================================
