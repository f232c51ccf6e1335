------------------------------ MODULE DelayLine ------------------------------
(***************************************************************************)
(* What a FIR filter needs of its history: tap i sees the sample that came *)
(* i samples ago, and 0 where there was none since the last clearing.      *)
(***************************************************************************)
EXTENDS Naturals

CONSTANTS
  taps,   \* length of the line
  Sample  \* values of a sample; 0 is one

VARIABLE line

Zeros == [i \in 0 .. taps - 1 |-> 0]

Init == line = Zeros

Push(s) == line' = [i \in 0 .. taps - 1 |-> IF i = 0 THEN s ELSE line[i - 1]]

Clear == line' = Zeros

Next == Clear \/ \E s \in Sample : Push(s)

Spec == Init /\ [][Next]_line
=============================================================================
