------------------------------- MODULE TapPower ------------------------------
(***************************************************************************)
(* The power in the filter's history, from which echo_can_update in        *)
(* src/oslec/spandsp-0.0.3/src/echo.c computes the shift of the adaption:  *)
(* a running sum of differences, each divided by the number of taps and    *)
(* rounded.  The history is the delay line of DelayLine.                   *)
(***************************************************************************)
EXTENDS Integers, Sequences, SequencesExt

CONSTANTS
  In,      \* samples are -In .. In - 1: 2^14
  taps,    \* length of the filter, a power of two: 2^log2taps
  MaxPower \* bound on what the model follows

VARIABLES
  history,  \* fir_state.history, oldest sample first
  Pstates   \* the power estimate

vars == <<history, Pstates>>

Sample == (-In) .. (In - 1)

Init == history = [i \in 1 .. taps |-> 0] /\ Pstates = 0

\* (x + (1 << (log2taps - 1))) >> log2taps
Rounded(x) == (x + taps \div 2) \div taps

echo_can_update ==
  \E tx \in Sample :
    LET old == Head(history)
        sum == Pstates + Rounded(tx * tx - old * old)
    IN  /\ sum <= MaxPower
        /\ Pstates' = IF sum < 0 THEN 0 ELSE sum
        /\ history' = Append(Tail(history), tx)

echo_can_flush == history' = [i \in 1 .. taps |-> 0] /\ Pstates' = 0

Next == echo_can_update \/ echo_can_flush

Spec == Init /\ [][Next]_vars

-----------------------------------------------------------------------------
\* The sum of the squares of the samples in the history.
Power == FoldLeft(LAMBDA sum, s : sum + s * s, 0, history)

Distance(a, b) == IF a < b THEN b - a ELSE a - b

\* "Block average of power in the filter states" (echo.c:418): the estimate is
\* the power of the block divided by its length, to within what the rounding of
\* every sample of the block can make it miss.
BlockAverage == Distance(taps * Pstates, Power) <= taps * (taps \div 2)
=============================================================================
