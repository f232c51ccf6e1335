------------------------------ MODULE MCEchoCan ------------------------------
(***************************************************************************)
(* Three taps wrap in every way: the newest sample in the first slot, in   *)
(* the last and in between.  With two values a sample that is paired with  *)
(* the wrong tap is told from the right one.                               *)
(***************************************************************************)
EXTENDS EchoCan

MCSample == {0, 1}
=============================================================================
