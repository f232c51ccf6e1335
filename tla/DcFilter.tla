------------------------------- MODULE DcFilter ------------------------------
(***************************************************************************)
(* The DC blocking filters of the echo canceller: echo_can_hpf_tx and the  *)
(* start of echo_can_update in src/oslec/spandsp-0.0.3/src/echo.c.  Both   *)
(* keep a state in an int with 15 fractional bits and add to it in int;    *)
(* the one of tx gets samples of 16 bits and is the tighter fit, the one   *)
(* of rx gets 15.  What is added can overflow for tx; the state does not.  *)
(***************************************************************************)
EXTENDS Integers

CONSTANTS
  In,     \* samples are -In .. In - 1: 2^15 for tx, 2^14 for rx
  One,    \* 1.0 in the fixed point format of the state: 2^15
  IntMax  \* largest int: 2^31 - 1

\* Eight units of the format, what the shift by DC_LOG2BETA cannot see, are less
\* than half of an output step; and 15/8 of full scale fit into an int.
ASSUME FormatAssumption ==
  /\ In \in Nat \ {0} /\ One \in Nat /\ IntMax \in Nat
  /\ One >= 16
  /\ 15 * (In * One) + 79 <= 8 * IntMax

VARIABLES
  on,   \* the bit ECHO_CAN_USE_TX_HPF or _RX_HPF of adaption_mode
  x_1,  \* tx_1, rx_1: the state of the filter
  x_2,  \* tx_2, rx_2: the last input, scaled
  out,  \* the last output
  even  \* the number of samples so far is even

vars == <<on, x_1, x_2, out, even>>

Sample == (-In) .. (In - 1)

Init == on \in BOOLEAN /\ x_1 = 0 /\ x_2 = 0 /\ out = 0 /\ even = TRUE

-----------------------------------------------------------------------------
\* tmp = tx << 15, less a sixteenth; the shift of a negative number rounds down.
Scale(s) == s * One - (s * One) \div 16

\* A sum of two ints as the machine makes it, modulo two to its width.  C leaves
\* the overflow undefined; the code is compiled to plain additions.
Wrap(n) ==
  IF n > IntMax THEN n - 2 * (IntMax + 1)
  ELSE IF n < -IntMax - 1 THEN n + 2 * (IntMax + 1) ELSE n

\* Mutant of Pole: a division where the code shifts; it rounds to 0.
PoleDivided(x) == IF x < 0 THEN -((-x) \div 8) ELSE x \div 8

\* The shift by DC_LOG2BETA.
Pole(x) == x \div 8

HardLimit(y) == IF y > In - 1 THEN In - 1 ELSE IF y < 1 - In THEN 1 - In ELSE y

\* What is added to the state, one int addition after the other.
Increment(s) == Wrap(Wrap(Scale(s) - Pole(x_1)) - x_2)

Filter(s) ==
  /\ on
  /\ x_1' = Wrap(x_1 + Increment(s))
  /\ x_2' = Scale(s)
  /\ out' = HardLimit(x_1' \div One)
  /\ UNCHANGED on

\* The filter is off: its state stays and will be used again.
Bypass(s) == ~on /\ out' = s /\ UNCHANGED <<on, x_1, x_2>>

echo_can_adaption_mode == on' = ~on /\ UNCHANGED <<x_1, x_2, out, even>>

\* Mutant of echo_can_flush: the state survives, without the input it is from.
FlushLastInput == x_2' = 0 /\ UNCHANGED <<on, x_1, out, even>>

echo_can_flush == x_1' = 0 /\ x_2' = 0 /\ UNCHANGED <<on, out, even>>

echo_can_update ==
  /\ even' = ~even
  /\ \E s \in Sample : Filter(s) \/ Bypass(s)

Next == echo_can_update \/ echo_can_adaption_mode \/ echo_can_flush

Spec == Init /\ [][Next]_vars

\* There are 8000 samples a second, each a step even if it is like the last one
\* and the state has settled.
FairSpec == Spec /\ WF_vars(echo_can_update)

-----------------------------------------------------------------------------
(* Correctness. *)

TypeOK ==
  /\ on \in BOOLEAN
  /\ x_1 \in Int /\ x_2 \in Int
  /\ out \in Sample
  /\ even \in BOOLEAN

\* The state is what exact arithmetic makes of it, however the signal is chosen
\* and whenever the filter is switched or reset: where the increment has gone out
\* of the int, which for tx it can, adding the state brings it back.
StateExact ==
  [][on /\ even' # even => x_1' = x_1 - Pole(x_1) + x_2' - x_2]_vars

\* No sum the code evaluates on the way overflows.
SumsFit ==
  \A s \in Sample : Scale(s) - Pole(x_1) - x_2 \in (-IntMax - 1) .. IntMax

Magnitude(x) == IF x < 0 THEN -x ELSE x

\* A sample that is like the last one takes the state nearer to 0, or leaves it
\* where no more of it comes out: the rounding of the pole holds up nothing.
Decays ==
  [][on /\ even' # even /\ x_2' = x_2 =>
       Magnitude(x_1') < Magnitude(x_1) \/ (x_1' = x_1 /\ out' = 0)]_vars

\* "very clean DC removal" (echo.c:629-631): when the input stays where it is,
\* whatever there was before, the output becomes 0, not just small.
DcRemoved ==
  \A s \in Sample : <>[](on /\ x_2 = Scale(s)) => <>[](out = 0)
=============================================================================
