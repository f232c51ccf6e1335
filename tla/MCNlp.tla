-------------------------------- MODULE MCNlp --------------------------------
(***************************************************************************)
(* Samples of four bits and a bit more, averages over 2 and 4 samples: the *)
(* smallest numbers that leave the comfort noise its room (RoomAssumption);*)
(* one of the echoes takes the residual out of an int16_t.                 *)
(***************************************************************************)
EXTENDS Nlp

TxLevels == {0, In - 1}
RxLevels == {-In, 0, 1}
EchoLevels == {-2, 2 * In - 1}
=============================================================================
