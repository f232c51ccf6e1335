------------------------------- MODULE MCZaptap ------------------------------
(***************************************************************************)
(* Buffers of two frames: one that fills the buffer and one that does not. *)
(* Two channels, so that the sampled one can change under an interrupt,    *)
(* and a number that is no channel.                                        *)
(***************************************************************************)
EXTENDS Zaptap

CONSTANTS c1, c2, none, p1, p2

MCNumber == {c1, c2, none}
MCChan == {c1, c2}
TwoProcs == {p1, p2}
=============================================================================
