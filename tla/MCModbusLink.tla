---------------------------- MODULE MCModbusLink ----------------------------
(* Instances of ModbusLink for TLC: the samples. *)
EXTENDS ModbusLinkInv, TLC

CONSTANTS c1, c2, c3

(* The stub readings of freertos_demo.c, moved so that samples differ in   *)
(* all sensor registers; S2 has the byte 0x10 where a shifted frame has    *)
(* its function code.                                                      *)
S1 == (0 :> 500) @@ (1 :> 300) @@ (2 :> 2536) @@ (3 :> 6012) @@ (4 :> 1)
S2 == (0 :> 501) @@ (1 :> 301) @@ (2 :> 2537) @@ (3 :> 5904) @@ (4 :> 1)

S3 == (0 :> 502) @@ (1 :> 302) @@ (2 :> 2538) @@ (3 :> 5905) @@ (4 :> 1)

TwoSamples   == {S1, S2}
ThreeSamples == {S1, S2, S3}
=============================================================================
