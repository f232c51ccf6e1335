------------------------------ MODULE MCTapPower -----------------------------
(***************************************************************************)
(* Two taps and samples of three bits: rounding is half a unit per sample. *)
(***************************************************************************)
EXTENDS TapPower
=============================================================================
