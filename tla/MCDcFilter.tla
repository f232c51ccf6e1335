------------------------------ MODULE MCDcFilter -----------------------------
(***************************************************************************)
(* Samples of four bits and four fractional bits; the int is as tight as  *)
(* FormatAssumption allows, so that the increment overflows it as in the   *)
(* code it does for tx: 253 against 250, there 2.08 * 2^30 against 2^31.   *)
(***************************************************************************)
EXTENDS DcFilter
=============================================================================
