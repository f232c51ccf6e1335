--------------------------------- MODULE Nlp ---------------------------------
(***************************************************************************)
(* The levels and the non-linear processor of echo_can_update in           *)
(* src/oslec/spandsp-0.0.3/src/echo.c, in the integers of the code: short  *)
(* term levels, the background noise level, and what replaces the residual *)
(* echo.  The taps are left out: the filter's echo is any value an int16_t *)
(* holds.  Lrx and Lclean_bg are levels of the same form and are used by   *)
(* the transfer logic only (EchoCan).                                      *)
(***************************************************************************)
EXTENDS Integers

CONSTANTS
  In,             \* samples are -In .. In - 1 once halved: 2^14
  Tx, Rx, Echoes, \* the samples and echo values that occur
  Short,          \* the short term levels average over 2^5 samples
  Long,           \* the background level over 2^12
  Quiet,          \* Lclean below which it is noise: 40
  Ratio,          \* Ltx/Lclean above which the residual is echo: 16
  Rnd,            \* half the range of the random numbers: 2^15
  IntMax          \* largest int: 2^31 - 1

Sample == (-In) .. (In - 1)

\* What the background level and the noise filter can reach (see BgnBound).
Loudest == Short * Quiet - (Short \div 2) - 1
Crest == (Rnd + 2) \div 3

ASSUME NlpAssumption ==
  /\ In \in Nat \ {0} /\ Short \in Nat /\ Long \in Nat /\ Quiet \in Nat
  /\ Ratio \in Nat /\ IntMax \in Nat
  /\ Short >= 2 /\ Short % 2 = 0 /\ Long >= 2 /\ Long % 2 = 0 /\ Quiet >= 1
  /\ Rnd \in Nat /\ Rnd >= 2 /\ Rnd % 2 = 0
  /\ Tx \subseteq Sample /\ Rx \subseteq Sample
  /\ Echoes \subseteq (-2 * In) .. (2 * In - 1)

\* The room the comfort noise needs; for the numbers of the code it has it.
ASSUME RoomAssumption ==
  /\ Loudest <= In - 1
  /\ Crest * Loudest * 8 <= IntMax
  /\ Crest * Loudest * 8 <= (Rnd \div 2) * (In - 1)

VARIABLES
  tx,                 \* the last sample sent, halved
  Ltxacc, Ltx,        \* short term level of tx
  clean,              \* the last sample received less the echo
  Lcleanacc, Lclean,  \* its level
  Lbgn_acc, Lbgn,     \* the level of the background noise
  cng_filter,         \* the filtered random number
  clean_nlp,          \* what is returned, before the scaling
  by,                 \* and which branch decided it
  even                \* the number of samples so far is even

vars == <<tx, Ltxacc, Ltx, clean, Lcleanacc, Lclean, Lbgn_acc, Lbgn, cng_filter,
          clean_nlp, by, even>>

Abs(n) == IF n < 0 THEN -n ELSE n

Init ==
  /\ tx = 0 /\ clean = 0 /\ clean_nlp = 0 /\ by = "filter" /\ even = TRUE
  /\ Ltxacc = 0 /\ Ltx = 0 /\ Lcleanacc = 0 /\ Lclean = 0
  /\ Lbgn_acc = 0 /\ Lbgn = 0 /\ cng_filter = 0

-----------------------------------------------------------------------------
\* Mutant of Average: adds a whole unit and loses the fraction below it.
AverageLate(acc, n) == (acc + 2 * n) \div n

\* (acc + half) >> shift: the level an accumulator stands for.
Average(acc, n) == (acc + n \div 2) \div n

\* Mutant of Accumulate: forgets the sign of the sample.
AccumulateSigned(acc, level, x) == acc + x - level

\* Mutant of Accumulate: the difference is halved and its last bit lost.
AccumulateHalf(acc, level, x) == acc + (Abs(x) - level) \div 2

Accumulate(acc, level, x) == acc + Abs(x) - level

Levels ==
  /\ Ltxacc' = Accumulate(Ltxacc, Ltx, tx')
  /\ Ltx' = Average(Ltxacc', Short)
  /\ Lcleanacc' = Accumulate(Lcleanacc, Lclean, clean')
  /\ Lclean' = Average(Lcleanacc', Short)

\* The canceller has taken enough off the echo.
Engaged == Ratio * Lclean' < Ltx'

\* Mutant of BackgroundLevel: the level is learnt from everything.
BackgroundAlways ==
  /\ Lbgn_acc' = Accumulate(Lbgn_acc, Lbgn, clean')
  /\ Lbgn' = Average(Lbgn_acc', Long)

\* Background noise estimator: not from high levels like near end speech.
BackgroundLevel ==
  IF Lclean' < Quiet
    THEN /\ Lbgn_acc' = Accumulate(Lbgn_acc, Lbgn, clean')
         /\ Lbgn' = Average(Lbgn_acc', Long)
    ELSE UNCHANGED <<Lbgn_acc, Lbgn>>

\* Mutant of Hoth: the sum is shifted one bit less.
HothLoud(r, filter) == (r - Rnd + 5 * filter) \div 4

\* The next filtered random number, for r the low half of cng_rndnum.
Hoth(r, filter) == (r - Rnd + 5 * filter) \div 8

\* What an int16_t keeps of the difference of a sample and an echo.
Int16(n) ==
  IF n > 2 * In - 1 THEN n - 4 * In ELSE IF n < -2 * In THEN n + 4 * In ELSE n

Clip(n, level) == IF n > level THEN level ELSE IF n < -level THEN -level ELSE n

\* What is returned: residual is what the branches before leave in clean_nlp.
Return(how, residual, rx) ==
  \/ clean_nlp' = residual /\ by' = how
  \/ clean_nlp' = rx /\ by' = "disabled"

Comfort(rx) ==
  /\ Engaged
  /\ \E r \in 0 .. 2 * Rnd - 1 : cng_filter' = Hoth(r, cng_filter)
  /\ Return("noise", (cng_filter' * Lbgn * 8) \div (Rnd \div 2), rx)
  /\ UNCHANGED <<Lbgn_acc, Lbgn>>

Clipped(rx) ==
  /\ Engaged
  /\ Return("clip", Clip(clean', Lbgn), rx)
  /\ UNCHANGED <<Lbgn_acc, Lbgn, cng_filter>>

Muted(rx) ==
  /\ Engaged
  /\ Return("mute", 0, rx)
  /\ UNCHANGED <<Lbgn_acc, Lbgn, cng_filter>>

Learns(rx) ==
  /\ ~Engaged
  /\ BackgroundLevel
  /\ Return("filter", clean', rx)
  /\ UNCHANGED cng_filter

NlpOff(rx) ==
  /\ Return("filter", clean', rx)
  /\ UNCHANGED <<Lbgn_acc, Lbgn, cng_filter>>

\* The bits of adaption_mode choose the branch, and a /proc handler may change
\* them between any two tests.
echo_can_update ==
  \E t \in Tx, rx \in Rx, echo_value \in Echoes :
    /\ tx' = t
    /\ clean' = Int16(rx - echo_value)
    /\ even' = ~even
    /\ Levels
    /\ Comfort(rx) \/ Clipped(rx) \/ Muted(rx) \/ Learns(rx) \/ NlpOff(rx)

echo_can_flush ==
  /\ Ltxacc' = 0 /\ Ltx' = 0 /\ Lcleanacc' = 0 /\ Lclean' = 0
  /\ Lbgn_acc' = 0 /\ Lbgn' = 0
  /\ UNCHANGED <<tx, clean, cng_filter, clean_nlp, by, even>>

Next == echo_can_update \/ echo_can_flush

Spec == Init /\ [][Next]_vars

\* 8000 samples a second, each a step even when nothing moves any more.
FairSpec == Spec /\ WF_vars(echo_can_update)

-----------------------------------------------------------------------------
(* Correctness. *)

TypeOK ==
  /\ tx \in Sample
  /\ clean \in (-2 * In) .. (2 * In - 1)
  /\ Ltx \in 0 .. In /\ Ltxacc \in Nat /\ Ltx = Average(Ltxacc, Short)
  /\ Lclean \in 0 .. 2 * In /\ Lcleanacc \in Nat /\ Lclean = Average(Lcleanacc, Short)
  /\ Lbgn \in Nat /\ Lbgn_acc \in Nat /\ Lbgn = Average(Lbgn_acc, Long)
  /\ cng_filter \in Int /\ clean_nlp \in Int
  /\ by \in {"filter", "noise", "clip", "mute", "disabled"}
  /\ even \in BOOLEAN

\* "we dont include high level signals like near end speech" (echo.c:587-588):
\* the test looks at the level, not at the sample, and the two differ by up to
\* the length of the average; what is learnt stays below Loudest all the same.
BgnBound == Lbgn \in 0 .. Loudest

\* "I suspect there are some overlfow issues in the filtering" (echo.c:556-557):
\* there are none, neither in the product nor in the doubling, for noise, clipped
\* and muted samples and with the canceller disabled.
OutputFits ==
  /\ (IF cng_filter < 0 THEN -cng_filter ELSE cng_filter) * Lbgn * 8 <= IntMax
  /\ by # "filter" => clean_nlp \in Sample

\* acc2 and level2 follow acc and level when x is heard: the level goes towards
\* the sample and not past it, and while the two differ the accumulator, in whole
\* numbers, comes nearer to the one whose level is the sample and nothing else.
Nearer(acc, level, x, acc2, level2) ==
  /\ Abs(x) >= level => level2 \in level .. Abs(x)
  /\ Abs(x) <= level => level2 \in Abs(x) .. level
  /\ Abs(x) = level => acc2 = acc
  /\ Abs(x) # level => Abs(Short * Abs(x) - acc2) < Abs(Short * Abs(x) - acc)

\* A sample moves a level towards itself and never past it, and no update is lost
\* in the rounding: a distance that cannot fall for ever falls until the level is
\* the sample.  Both short term levels do (echo.c:436-447).
NoOvershoot ==
  [][echo_can_update =>
       /\ Nearer(Ltxacc, Ltx, tx', Ltxacc', Ltx')
       /\ Nearer(Lcleanacc, Lclean, clean', Lcleanacc', Lclean')]_vars

\* The level of a signal that stays where it is becomes exactly that signal,
\* for all the rounding: 16*Lclean < Ltx compares amplitudes in the end.
Settles ==
  \A s \in Tx :
    <>[](tx = s) /\ <>[][~echo_can_flush]_vars => <>[](Ltx = Abs(s))
=============================================================================
