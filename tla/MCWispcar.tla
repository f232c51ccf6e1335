------------------------------ MODULE MCWispcar ------------------------------
(***************************************************************************)
(* Short timers, and an alphabet of the letters of the commands, two       *)
(* digits, ':', the first character after '9', and '.', two before '0'.    *)
(* The letters come after the digits as well; their distance is not kept.  *)
(***************************************************************************)
EXTENDS Wispcar

MCChar == {"s", "l", "e", "p", "w", "0", "1", ":", "."}
MCVal == [ch \in MCChar |->
            CASE ch = "0" -> 0 [] ch = "1" -> 1 [] ch = "." -> -2 [] OTHER -> 10]
=============================================================================
