---------------------------- MODULE DcFilterProofs ---------------------------
(***************************************************************************)
(* Proofs about DcFilter, for samples and formats of any width: the state  *)
(* is exact, though for tx (In = One = 2^15, IntMax = 2^31 - 1) what is    *)
(* added to it can overflow; for rx (In = 2^14) nothing overflows; and on  *)
(* a steady input the state decays, down to where none of it is put out.   *)
(***************************************************************************)
EXTENDS DcFilter, TLAPS

Full == In * One

\* The last input is at most 15/16 of full scale, and the state is not further
\* from it than that and what Pole rounds away: a sum of differences of inputs,
\* each forgotten by an eighth per sample.
Near ==
  /\ x_1 \in Int /\ x_2 \in Int
  /\ -(15 * Full + 15) <= 16 * x_2 /\ 16 * x_2 <= 15 * Full + 15
  /\ -(15 * Full + 143) <= 16 * (x_1 - x_2) /\ 16 * (x_1 - x_2) <= 15 * Full + 143

LEMMA FullType == Full \in Nat /\ 15 * Full + 79 <= 8 * IntMax
  BY FormatAssumption DEF Full

LEMMA SampleScaled ==
  ASSUME NEW s \in Sample
  PROVE  s * One \in Int /\ -Full <= s * One /\ s * One <= Full
  BY FormatAssumption DEF Sample, Full

LEMMA SixteenthType ==
  ASSUME NEW n \in Int
  PROVE  n \div 16 \in Int /\ 16 * (n \div 16) <= n /\ n <= 16 * (n \div 16) + 15
  OBVIOUS

LEMMA PoleType ==
  ASSUME NEW n \in Int
  PROVE  Pole(n) \in Int /\ 8 * Pole(n) <= n /\ n <= 8 * Pole(n) + 7
  BY DEF Pole

\* Scale takes a sixteenth off.
LEMMA ScaleBound ==
  ASSUME NEW s \in Sample
  PROVE  /\ Scale(s) \in Int
         /\ -(15 * Full + 15) <= 16 * Scale(s) /\ 16 * Scale(s) <= 15 * Full + 15
<1> DEFINE n == s * One
           d == n \div 16
<1>1. n \in Int /\ -Full <= n /\ n <= Full
  BY SampleScaled
<1>2. d \in Int /\ 16 * d <= n /\ n <= 16 * d + 15
  BY <1>1, SixteenthType
<1>3. Scale(s) = n - d
  BY DEF Scale
<1> HIDE DEF n, d
<1> QED BY <1>1, <1>2, <1>3, FullType

\* A sum that ends inside the int is exact, whatever its parts have wrapped to:
\* each int addition is off by a multiple of two to the width, and the last one
\* takes back what it can.
LEMMA WrapBack ==
  ASSUME NEW a \in Int, NEW b \in Int,
         -(2 * IntMax + 2) <= b, b <= 2 * IntMax + 1,
         -IntMax - 1 <= a + b, a + b <= IntMax
  PROVE  Wrap(a + Wrap(b)) = a + b
<1> DEFINE m == IntMax + 1
<1>1. m \in Int /\ IntMax \in Nat /\ IntMax = m - 1
  BY FormatAssumption
<1> HIDE DEF m
<1>2. CASE b > IntMax
  BY <1>1, <1>2 DEF Wrap
<1>3. CASE b < -IntMax - 1
  BY <1>1, <1>3 DEF Wrap
<1>4. CASE -IntMax - 1 <= b /\ b <= IntMax
  BY <1>1, <1>4 DEF Wrap
<1> QED BY <1>1, <1>2, <1>3, <1>4

\* One sample: the arithmetic is exact and keeps Near.
LEMMA FilterNear ==
  ASSUME Near, NEW s \in Sample, Filter(s)
  PROVE  Near' /\ x_1' = x_1 - Pole(x_1) + x_2' - x_2
<1> DEFINE q == Pole(x_1)
           t == Scale(s)
<1>1. q \in Int /\ 8 * q <= x_1 /\ x_1 <= 8 * q + 7
  BY PoleType DEF Near
<1>2. t \in Int /\ -(15 * Full + 15) <= 16 * t /\ 16 * t <= 15 * Full + 15
  BY ScaleBound
<1>3. x_1' = Wrap(x_1 + Wrap(Wrap(t - q) - x_2)) /\ x_2' = t
  BY DEF Filter, Increment
<1> HIDE DEF q, t
<1>4. 128 * (x_1 - x_2 - q) <= 8 * (15 * Full + 143)
      /\ -(8 * (15 * Full + 143)) <= 128 * (x_1 - x_2 - q)
  BY <1>1, FullType DEF Near
<1>5. Wrap(t - q) = t - q
  <2>1. -IntMax - 1 <= t - q /\ t - q <= IntMax
    BY <1>1, <1>2, FullType, FormatAssumption DEF Near
  <2> QED BY <1>1, <1>2, <2>1, FormatAssumption DEF Wrap
<1>6. x_1' = x_1 - q + t - x_2
  <2>1. t - q - x_2 \in Int /\ x_1 + (t - q - x_2) = x_1 - q + t - x_2
    BY <1>1, <1>2 DEF Near
  <2>2. -(2 * IntMax + 2) <= t - q - x_2 /\ t - q - x_2 <= 2 * IntMax + 1
    BY <1>1, <1>2, FullType, FormatAssumption DEF Near
  <2>3. -IntMax - 1 <= x_1 + (t - q - x_2) /\ x_1 + (t - q - x_2) <= IntMax
    BY <1>1, <1>2, <1>4, FullType, FormatAssumption DEF Near
  <2> QED BY <1>3, <1>5, <2>1, <2>2, <2>3, WrapBack DEF Near
<1>7. x_1' \in Int /\ x_1' - x_2' = x_1 - x_2 - q
  BY <1>1, <1>2, <1>3, <1>6 DEF Near
<1>8. Near'
  BY <1>2, <1>3, <1>4, <1>7, FullType DEF Near
<1>9. x_1' = x_1 - q + x_2' - x_2
  BY <1>3, <1>6
<1> QED BY <1>8, <1>9 DEF q

LEMMA NearInvariant == Spec => []Near
<1>1. Init => Near
  BY FullType DEF Init, Near
<1>2. Near /\ [Next]_vars => Near'
  <2> SUFFICES ASSUME Near, [Next]_vars PROVE Near'
    OBVIOUS
  <2>1. ASSUME NEW s \in Sample, Bypass(s) PROVE Near'
    BY <2>1 DEF Bypass, Near
  <2>2. CASE echo_can_adaption_mode
    BY <2>2 DEF echo_can_adaption_mode, Near
  <2>3. CASE echo_can_flush
    BY <2>3, FullType DEF echo_can_flush, Near
  <2>4. CASE UNCHANGED vars
    BY <2>4 DEF vars, Near
  <2> QED BY FilterNear, <2>1, <2>2, <2>3, <2>4 DEF Next, echo_can_update
<1> QED BY <1>1, <1>2, PTL DEF Spec

\* The state of the filter is the exact one, whatever the signal, and however
\* often the filter is switched off and on and reset: overflows on the way to it
\* cancel.
THEOREM StateFits == Spec => [](x_1 \in (-IntMax - 1) .. IntMax) /\ StateExact
<1>1. Near => x_1 \in (-IntMax - 1) .. IntMax
  <2> SUFFICES ASSUME Near PROVE x_1 \in (-IntMax - 1) .. IntMax
    OBVIOUS
  <2>1. 16 * x_1 <= 30 * Full + 158 /\ -(30 * Full + 158) <= 16 * x_1
    BY FullType DEF Near
  <2> QED BY <2>1, FullType, FormatAssumption DEF Near
<1>2. Near /\ [Next]_vars =>
        [on /\ even' # even => x_1' = x_1 - Pole(x_1) + x_2' - x_2]_vars
  <2> SUFFICES ASSUME Near, Next, on, even' # even
               PROVE  x_1' = x_1 - Pole(x_1) + x_2' - x_2
    OBVIOUS
  <2>1. echo_can_update
    BY DEF Next, echo_can_adaption_mode, echo_can_flush
  <2>2. PICK s \in Sample : Filter(s)
    BY <2>1 DEF echo_can_update, Bypass
  <2> QED BY <2>2, FilterNear
<1> QED BY <1>1, <1>2, NearInvariant, PTL DEF Spec, StateExact

\* Where there is a little more room, as there is for rx with its 15 bits, no sum
\* of the expression overflows either.
THEOREM NoSumOverflows ==
  ASSUME 135 * Full + 263 <= 64 * IntMax
  PROVE  Spec => []SumsFit
<1>1. Near => SumsFit
  <2> SUFFICES ASSUME Near, NEW s \in Sample
               PROVE  Scale(s) - Pole(x_1) - x_2 \in (-IntMax - 1) .. IntMax
    BY DEF SumsFit
  <2> DEFINE q == Pole(x_1)
             t == Scale(s)
  <2>1. q \in Int /\ 8 * q <= x_1 /\ x_1 <= 8 * q + 7
    BY PoleType DEF Near
  <2>2. t \in Int /\ -(15 * Full + 15) <= 16 * t /\ 16 * t <= 15 * Full + 15
    BY ScaleBound
  <2> HIDE DEF q, t
  <2>3. 16 * x_1 <= 30 * Full + 158 /\ -(30 * Full + 158) <= 16 * x_1
    BY FullType DEF Near
  <2>4. 128 * (t - q - x_2) <= 128 * IntMax /\ -(128 * IntMax) <= 128 * (t - q - x_2)
    BY <2>1, <2>2, <2>3, FullType, FormatAssumption DEF Near
  <2>5. t - q - x_2 \in (-IntMax - 1) .. IntMax
    BY <2>1, <2>2, <2>4, FormatAssumption DEF Near
  <2> QED BY <2>5 DEF q, t
<1> QED BY <1>1, NearInvariant, PTL

LEMMA LimitType == \A y \in Int : HardLimit(y) \in Sample
  BY FormatAssumption DEF HardLimit, Sample

\* What leaves the filter is a sample.
THEOREM TypeCorrect == Spec => []TypeOK
<1>1. Init => TypeOK
  BY FormatAssumption DEF Init, TypeOK, Sample
<1>2. TypeOK /\ Near' /\ [Next]_vars => TypeOK'
  <2> SUFFICES ASSUME TypeOK, Near', [Next]_vars PROVE TypeOK'
    OBVIOUS
  <2>1. ASSUME even' = ~even, NEW s \in Sample, Filter(s) PROVE TypeOK'
    <3>1. x_1' \div One \in Int
      BY FormatAssumption DEF Near
    <3> QED BY <2>1, <3>1, LimitType DEF Filter, Near, TypeOK
  <2>2. ASSUME even' = ~even, NEW s \in Sample, Bypass(s) PROVE TypeOK'
    BY <2>2 DEF Bypass, TypeOK
  <2>3. CASE echo_can_adaption_mode
    BY <2>3 DEF echo_can_adaption_mode, TypeOK
  <2>4. CASE echo_can_flush
    BY <2>4 DEF echo_can_flush, TypeOK
  <2>5. CASE UNCHANGED vars
    BY <2>5 DEF vars, TypeOK
  <2> QED BY <2>1, <2>2, <2>3, <2>4, <2>5 DEF Next, echo_can_update
<1> QED BY <1>1, <1>2, NearInvariant, PTL DEF Spec

\* One sample of an input that stays where it is.
LEMMA SteadyDecays ==
  ASSUME Near, NEW s \in Sample, Filter(s), x_2' = x_2
  PROVE  Magnitude(x_1') < Magnitude(x_1) \/ (x_1' = x_1 /\ out' = 0)
<1> DEFINE q == Pole(x_1)
<1>1. q \in Int /\ 8 * q <= x_1 /\ x_1 <= 8 * q + 7
  BY PoleType DEF Near
<1>2. x_1' = x_1 - q
  <2>1. x_1' = x_1 - q + x_2' - x_2
    BY FilterNear
  <2> HIDE DEF q
  <2> QED BY <1>1, <2>1 DEF Near
<1>3. CASE x_1 < 0
  <2> HIDE DEF q
  <2>1. q < 0 /\ x_1 < x_1' /\ x_1' <= 0
    BY <1>1, <1>2, <1>3 DEF Near
  <2> QED BY <1>1, <1>2, <1>3, <2>1 DEF Magnitude, Near
<1>4. CASE x_1 >= 8
  <2> HIDE DEF q
  <2>1. q > 0 /\ x_1' < x_1 /\ 0 <= x_1'
    BY <1>1, <1>2, <1>4 DEF Near
  <2> QED BY <1>1, <1>2, <1>4, <2>1 DEF Magnitude, Near
<1>5. CASE x_1 \in 0 .. 7
  <2> HIDE DEF q
  <2>1. q = 0 /\ x_1' = x_1
    BY <1>1, <1>2, <1>5
  <2>2. x_1 \div One = 0
    BY <1>5, FormatAssumption
  <2>3. out' = 0
    BY <2>1, <2>2, FormatAssumption DEF Filter, HardLimit
  <2> QED BY <2>1, <2>3
<1> QED BY <1>3, <1>4, <1>5 DEF Near

\* A constant input is forgotten, for samples and formats of any width: every
\* sample of it takes the state nearer to 0 until its output is 0.
THEOREM SteadyInputForgotten == Spec => Decays
<1>1. Near /\ [Next]_vars =>
        [on /\ even' # even /\ x_2' = x_2 =>
           Magnitude(x_1') < Magnitude(x_1) \/ (x_1' = x_1 /\ out' = 0)]_vars
  <2> SUFFICES ASSUME Near, Next, on, even' # even, x_2' = x_2
               PROVE  Magnitude(x_1') < Magnitude(x_1) \/ (x_1' = x_1 /\ out' = 0)
    OBVIOUS
  <2>1. echo_can_update
    BY DEF Next, echo_can_adaption_mode, echo_can_flush
  <2>2. PICK s \in Sample : Filter(s)
    BY <2>1 DEF echo_can_update, Bypass
  <2> QED BY <2>2, SteadyDecays
<1> QED BY <1>1, NearInvariant, PTL DEF Spec, Decays
=============================================================================
