------------------------------ MODULE NlpProofs ------------------------------
(***************************************************************************)
(* Proofs about Nlp, for samples, averages and thresholds of any size that *)
(* leave the comfort noise its room: levels follow their signals without   *)
(* passing them, the background level stays low, and no output that the    *)
(* processor makes itself wraps.                                           *)
(***************************************************************************)
EXTENDS Nlp, TLAPS

(* Rounding *)

LEMMA DivDef ==
  \A a \in Int, n \in Nat \ {0} :
    /\ a \div n \in Int /\ n * (a \div n) <= a /\ a < n * (a \div n) + n
  BY SMTT(30)

LEMMA DivLow ==
  ASSUME NEW a \in Int, NEW n \in Nat \ {0}, NEW q \in Int, n * q <= a
  PROVE  q <= a \div n
<1> DEFINE d == a \div n
<1>1. d \in Int /\ a < n * d + n
  BY DivDef
<1> HIDE DEF d
<1>2. SUFFICES ASSUME d + 1 <= q PROVE FALSE
  BY <1>1
<1>3. n * (d + 1) <= n * q
  BY <1>1, <1>2
<1>4. n * (d + 1) = n * d + n
  BY <1>1
<1> QED BY <1>1, <1>3, <1>4

LEMMA DivHigh ==
  ASSUME NEW a \in Int, NEW n \in Nat \ {0}, NEW q \in Int, a < n * q + n
  PROVE  a \div n <= q
<1> DEFINE d == a \div n
<1>1. d \in Int /\ n * d <= a
  BY DivDef
<1> HIDE DEF d
<1>2. SUFFICES ASSUME q + 1 <= d PROVE FALSE
  BY <1>1
<1>3. n * (q + 1) <= n * d
  BY <1>1, <1>2
<1>4. n * (q + 1) = n * q + n
  OBVIOUS
<1> QED BY <1>1, <1>3, <1>4

LEMMA AbsType == \A x \in Int : Abs(x) \in Nat
  BY DEF Abs

Even(n) == n \in Nat /\ n >= 2 /\ n % 2 = 0

LEMMA Halved == \A n : Even(n) => n \div 2 \in Nat \ {0} /\ n = 2 * (n \div 2)
  BY DEF Even

\* The accumulator is n times the level, to within half of n, and not below it.
LEMMA AverageNear ==
  ASSUME NEW n, Even(n), NEW acc \in Nat
  PROVE  /\ Average(acc, n) \in Nat
         /\ n * Average(acc, n) <= acc + n \div 2
         /\ acc + n \div 2 < n * Average(acc, n) + n
         /\ Average(acc, n) <= acc
<1> DEFINE l == Average(acc, n)
           h == n \div 2
<1>1. h \in Nat \ {0} /\ n = 2 * h
  BY Halved
<1>2. n \in Nat \ {0} /\ acc + h \in Int
  BY <1>1 DEF Even
<1>3. l \in Int /\ n * l <= acc + h /\ acc + h < n * l + n
  BY <1>2, DivDef DEF Average
<1>4. n * 0 <= acc + h
  BY <1>1, <1>2
<1>5. 0 <= l
  <2> HIDE DEF h
  <2>1. 0 <= (acc + h) \div n
    BY <1>2, <1>4, DivLow
  <2> QED BY <2>1 DEF Average, h
<1> HIDE DEF l, h
<1>6. l <= acc
  <2>1. CASE l = 0
    BY <2>1
  <2>2. CASE l >= 1
    <3>1. (n - 1) * l >= n - 1
      BY <1>2, <1>3, <2>2
    <3>2. (n - 1) * l = n * l - l
      BY <1>2, <1>3
    <3>3. n - 1 >= h
      BY <1>1
    <3>4. n * l \in Int
      BY <1>2, <1>3
    <3> QED BY <1>1, <1>2, <1>3, <3>1, <3>2, <3>3, <3>4
  <2> QED BY <1>3, <1>5, <2>1, <2>2
<1>7. l \in Nat
  BY <1>3, <1>5
<1> QED BY <1>3, <1>6, <1>7 DEF l, h

LEMMA SilentAverage == \A n : Even(n) => Average(0, n) = 0
<1> TAKE n
<1> HAVE Even(n)
<1> DEFINE h == n \div 2
<1>1. h \in Nat \ {0} /\ n = 2 * h
  BY Halved
<1>2. Average(0, n) = (0 + h) \div n
  BY DEF Average
<1> HIDE DEF h
<1>3. 0 + h \in Int /\ n \in Nat \ {0} /\ n * 0 <= 0 + h /\ 0 + h < n * 0 + n
  BY <1>1
<1>4. 0 <= (0 + h) \div n
  BY <1>3, DivLow
<1>5. (0 + h) \div n <= 0
  BY <1>3, DivHigh
<1>6. (0 + h) \div n \in Int
  BY <1>3, DivDef
<1> QED BY <1>2, <1>4, <1>5, <1>6

\* While the level is not the sample the accumulator comes nearer to n times the
\* sample: it moves by the difference, less than twice the distance over n.
LEMMA StepNearer ==
  ASSUME NEW n, Even(n), NEW acc \in Nat, NEW x \in Int, NEW l, l = Average(acc, n),
         NEW acc2, acc2 = Accumulate(acc, l, x), Abs(x) # l
  PROVE  Abs(n * Abs(x) - acc2) < Abs(n * Abs(x) - acc)
<1> DEFINE a == Abs(x)
           h == n \div 2
           g == n * a - acc
<1>1. h \in Nat \ {0} /\ n \in Nat \ {0} /\ n >= 2 /\ n = 2 * h
  BY Halved DEF Even
<1>2. a \in Nat
  BY AbsType
<1>3. l \in Nat /\ n * l <= acc + h /\ acc + h < n * l + n
  BY AverageNear
<1>4. acc2 = acc + a - l
  BY DEF Accumulate
<1>5. a # l
  OBVIOUS
<1> HIDE DEF a, h
<1>6. n * l \in Int /\ n * a \in Int /\ n * (a - l) = n * a - n * l /\ g \in Int
      /\ g = n * a - acc
  BY <1>1, <1>2, <1>3
<1>7. n * a - acc2 = g - (a - l) /\ a - l \in Int
  BY <1>2, <1>3, <1>4, <1>6
<1> HIDE DEF g
<1>8. CASE a > l
  <2>1. n * (a - l) >= n
    BY <1>1, <1>2, <1>3, <1>8
  <2>2. g > h /\ n * (a - l) < g + h
    BY <1>1, <1>3, <1>6, <2>1
  <2>3. 2 * (a - l) <= n * (a - l)
    BY <1>1, <1>2, <1>3, <1>8
  <2>4. a - l < g
    BY <1>1, <1>2, <1>3, <1>6, <2>2, <2>3
  <2>5. g > 0 /\ g - (a - l) > 0 /\ g - (a - l) < g
    BY <1>1, <1>2, <1>3, <1>6, <1>8, <2>4, <2>2
  <2> QED BY <1>6, <1>7, <2>5 DEF Abs, a
<1>9. CASE a < l
  <2>1. n * (l - a) >= n /\ n * (l - a) = n * l - n * a
    BY <1>1, <1>2, <1>3, <1>9
  <2>2. -g >= h /\ n * (l - a) <= h - g
    BY <1>1, <1>3, <1>6, <2>1
  <2>3. 2 * (l - a) <= n * (l - a)
    BY <1>1, <1>2, <1>3, <1>9
  <2>4. l - a <= -g
    BY <1>1, <1>2, <1>3, <1>6, <2>2, <2>3
  <2>5. g < 0 /\ g - (a - l) <= 0 /\ g - (a - l) > g
    BY <1>1, <1>2, <1>3, <1>6, <1>9, <2>4, <2>2
  <2> QED BY <1>6, <1>7, <2>5 DEF Abs, a
<1> QED BY <1>2, <1>3, <1>5, <1>8, <1>9

\* One sample: the accumulator stays a natural number, not below the sample, and
\* the level goes towards the sample but not past it.
LEMMA LevelStep ==
  ASSUME NEW n, Even(n), NEW acc \in Nat, NEW x \in Int, NEW l, l = Average(acc, n),
         NEW acc2, acc2 = Accumulate(acc, l, x), NEW l2, l2 = Average(acc2, n)
  PROVE  /\ l \in Nat /\ acc2 \in Nat /\ l2 \in Nat
         /\ Abs(x) <= acc2
         /\ Abs(x) >= l => l2 \in l .. Abs(x)
         /\ Abs(x) <= l => l2 \in Abs(x) .. l
<1> DEFINE a == Abs(x)
           h == n \div 2
<1>1. h \in Nat \ {0} /\ n \in Nat \ {0} /\ n >= 2
  BY Halved DEF Even
<1>2. a \in Nat
  BY AbsType
<1>3. l \in Nat /\ n * l <= acc + h /\ acc + h < n * l + n /\ l <= acc
  BY AverageNear
<1>4. acc2 \in Nat /\ acc2 = acc + a - l
  BY <1>2, <1>3 DEF Accumulate
<1>5. l2 \in Nat
  BY <1>4, AverageNear
<1>6. l2 = (acc2 + h) \div n
  BY DEF Average
<1> HIDE DEF a, h
<1>7. n * l \in Int /\ n * a \in Int
  BY <1>1, <1>2, <1>3
<1>8. ASSUME a >= l PROVE l2 \in l .. a
  <2>1. n * (a - l) >= a - l
    BY <1>1, <1>2, <1>3, <1>8
  <2>2. n * (a - l) = n * a - n * l
    BY <1>1, <1>2, <1>3
  <2>3. n * l <= acc2 + h
    BY <1>1, <1>2, <1>3, <1>4, <1>7, <1>8
  <2>4. acc2 + h < n * a + n
    BY <1>1, <1>2, <1>3, <1>4, <1>7, <2>1, <2>2
  <2>5. acc2 + h \in Int
    BY <1>1, <1>4
  <2>6. l <= l2
    <3>1. l <= (acc2 + h) \div n
      BY <1>1, <1>2, <1>3, <2>3, <2>5, DivLow
    <3> QED BY <1>6, <3>1
  <2>7. l2 <= a
    <3>1. (acc2 + h) \div n <= a
      BY <1>1, <1>2, <1>3, <2>4, <2>5, DivHigh
    <3> QED BY <1>6, <3>1
  <2> QED BY <1>2, <1>3, <1>5, <2>6, <2>7
<1>9. ASSUME a <= l PROVE l2 \in a .. l
  <2>1. n * (l - a) >= l - a
    BY <1>1, <1>2, <1>3, <1>9
  <2>2. n * (l - a) = n * l - n * a
    BY <1>1, <1>2, <1>3
  <2>3. n * a <= acc2 + h
    BY <1>1, <1>2, <1>3, <1>4, <1>7, <2>1, <2>2
  <2>4. acc2 + h < n * l + n
    BY <1>1, <1>2, <1>3, <1>4, <1>7, <1>9
  <2>5. acc2 + h \in Int
    BY <1>1, <1>4
  <2>6. a <= l2
    <3>1. a <= (acc2 + h) \div n
      BY <1>1, <1>2, <1>3, <2>3, <2>5, DivLow
    <3> QED BY <1>6, <3>1
  <2>7. l2 <= l
    <3>1. (acc2 + h) \div n <= l
      BY <1>1, <1>2, <1>3, <2>4, <2>5, DivHigh
    <3> QED BY <1>6, <3>1
  <2> QED BY <1>2, <1>3, <1>5, <2>6, <2>7
<1>10. a <= acc2
  BY <1>2, <1>3, <1>4
<1> QED BY <1>3, <1>4, <1>5, <1>8, <1>9, <1>10 DEF a

-----------------------------------------------------------------------------
(* The background level *)

LEMMA LoudestType ==
  /\ Loudest \in Nat /\ Even(Short) /\ Even(Long)
  /\ Loudest = Short * Quiet - (Short \div 2) - 1
<1> DEFINE h == Short \div 2
<1>1. Even(Short) /\ Even(Long)
  BY NlpAssumption DEF Even
<1>2. h \in Nat \ {0} /\ Short = 2 * h
  BY <1>1, Halved
<1> HIDE DEF h
<1>3. Short * Quiet >= Short /\ Short * Quiet \in Int
  BY NlpAssumption
<1>4. Short * Quiet - h - 1 \in Nat
  BY <1>2, <1>3
<1> QED BY <1>1, <1>4 DEF Loudest, h

\* While the level is below the threshold the sample is not above Loudest.
LEMMA QuietSample ==
  ASSUME NEW acc \in Nat, Average(acc, Short) < Quiet
  PROVE  acc <= Loudest
<1> DEFINE l == Average(acc, Short)
           h == Short \div 2
<1>1. l \in Nat /\ acc + h < Short * l + Short
  BY LoudestType, AverageNear
<1>2. Short \in Nat /\ Quiet \in Nat /\ h \in Nat /\ l + 1 <= Quiet
  BY <1>1, LoudestType, Halved, NlpAssumption
<1>3. Loudest = Short * Quiet - h - 1
  BY LoudestType
<1> HIDE DEF l, h
<1>4. Short * (l + 1) <= Short * Quiet
  BY <1>1, <1>2
<1>5. Short * (l + 1) = Short * l + Short
  BY <1>1, <1>2
<1>6. Short * l \in Int /\ Short * Quiet \in Int
  BY <1>1, <1>2
<1> QED BY <1>1, <1>2, <1>3, <1>4, <1>5, <1>6

\* The noise filter is bounded by its own feedback.
Filtered == cng_filter \in (-Crest) .. Crest

LEMMA CrestType == Crest \in Nat /\ 3 * Crest >= Rnd /\ Rnd \in Nat
  BY NlpAssumption DEF Crest

LEMMA HothBound ==
  \A r \in 0 .. 2 * Rnd - 1, f \in (-Crest) .. Crest : Hoth(r, f) \in (-Crest) .. Crest
<1> TAKE r \in 0 .. 2 * Rnd - 1, f \in (-Crest) .. Crest
<1> DEFINE s == r - Rnd + 5 * f
<1>1. s \in Int /\ 8 * (-Crest) <= s /\ s < 8 * Crest + 8
  BY CrestType
<1> HIDE DEF s
<1>2. s \div 8 \in (-Crest) .. Crest
  BY <1>1, CrestType
<1> QED BY <1>2 DEF Hoth, s

LEMMA NoiseFits ==
  ASSUME NEW f \in (-Crest) .. Crest, NEW b \in 0 .. Loudest
  PROVE  /\ (f * b * 8) \div (Rnd \div 2) \in Sample
         /\ (IF f < 0 THEN -f ELSE f) * b * 8 <= IntMax
<1> DEFINE m == IF f < 0 THEN -f ELSE f
           c == Crest
           o == Loudest
           d == Rnd \div 2
<1>1. m \in 0 .. c /\ (f = m \/ f = -m) /\ c \in Nat /\ o \in Nat
  BY CrestType, LoudestType
<1>2. d \in Nat \ {0} /\ In \in Nat \ {0} /\ IntMax \in Nat
  BY NlpAssumption
<1>3. c * o * 8 <= IntMax /\ c * o * 8 <= d * (In - 1)
  BY RoomAssumption
<1> HIDE DEF m, c, d
<1>4. m * b <= c * b
  BY <1>1
<1>5. c * b <= c * o
  BY <1>1
<1>6. m * b \in Nat /\ c * b \in Nat /\ c * o \in Nat
  BY <1>1
<1>7. m * b * 8 <= c * o * 8
  BY <1>4, <1>5, <1>6
<1>8. m * b * 8 <= IntMax /\ m * b * 8 <= d * (In - 1)
  BY <1>2, <1>3, <1>6, <1>7
<1>9. f * b = m * b \/ f * b = -(m * b)
  BY <1>1
<1> DEFINE p == f * b * 8
<1>10. p \in Int /\ p <= d * (In - 1) /\ -p <= d * (In - 1)
  BY <1>2, <1>6, <1>8, <1>9
<1> HIDE DEF p
<1>11. d * (In - 1) \in Int /\ d * (-(In - 1)) = -(d * (In - 1))
  BY <1>2
<1>12. d * (-(In - 1)) <= p
  BY <1>10, <1>11
<1>13. p < d * (In - 1) + d
  BY <1>2, <1>10, <1>11
<1>14. -(In - 1) <= p \div d
  BY <1>2, <1>10, <1>12, DivLow
<1>15. p \div d <= In - 1
  BY <1>2, <1>10, <1>13, DivHigh
<1>16. p \div d \in Int
  BY <1>2, <1>10, DivDef
<1>17. p \div d \in Sample
  BY <1>2, <1>14, <1>15, <1>16 DEF Sample
<1> QED BY <1>8, <1>17 DEF m, d, p

-----------------------------------------------------------------------------
(* The invariant *)

IInv ==
  /\ TypeOK
  /\ BgnBound
  /\ Filtered
  /\ by # "filter" => clean_nlp \in Sample

LEMMA InitIInv == Init => IInv
<1> SUFFICES ASSUME Init PROVE IInv
  OBVIOUS
<1>1. Average(0, Short) = 0 /\ Average(0, Long) = 0
  BY SilentAverage, LoudestType
<1> QED
  BY <1>1, NlpAssumption, LoudestType, CrestType
  DEF Init, IInv, TypeOK, BgnBound, Filtered, Sample

\* What every sample does, whichever branch the processor takes.
LEMMA LevelsStep ==
  ASSUME TypeOK, NEW t \in Tx, NEW rx \in Rx, NEW e \in Echoes,
         tx' = t, clean' = Int16(rx - e), Levels
  PROVE  /\ tx' \in Sample /\ rx \in Sample /\ clean' \in (-2 * In) .. (2 * In - 1)
         /\ Ltxacc' \in Nat /\ Lcleanacc' \in Nat
         /\ Ltx' \in 0 .. In /\ Lclean' \in 0 .. 2 * In
         /\ Ltx' = Average(Ltxacc', Short) /\ Lclean' = Average(Lcleanacc', Short)
         /\ Abs(clean') <= Lcleanacc'
         /\ Nearer(Ltxacc, Ltx, tx', Ltxacc', Ltx')
         /\ Nearer(Lcleanacc, Lclean, clean', Lcleanacc', Lclean')
<1>1. tx' \in Sample /\ rx \in Sample /\ clean' \in (-2 * In) .. (2 * In - 1) /\ In \in Nat
  <2>1. In \in Nat /\ rx \in (-In) .. (In - 1) /\ e \in (-2 * In) .. (2 * In - 1)
    BY NlpAssumption DEF Sample
  <2>2. Int16(rx - e) \in (-2 * In) .. (2 * In - 1)
    BY <2>1 DEF Int16
  <2> QED BY <2>1, <2>2, NlpAssumption DEF Sample
<1>2. t \in Int /\ clean' \in Int /\ Abs(t) \in 0 .. In /\ Abs(clean') \in 0 .. 2 * In
  BY <1>1 DEF Abs, Sample
<1>3. /\ Ltx \in Nat /\ Ltxacc' \in Nat /\ Ltx' \in Nat
      /\ Abs(t) >= Ltx => Ltx' \in Ltx .. Abs(t)
      /\ Abs(t) <= Ltx => Ltx' \in Abs(t) .. Ltx
  BY <1>2, LevelStep, LoudestType DEF Levels, TypeOK
<1>4. /\ Lclean \in Nat /\ Lcleanacc' \in Nat /\ Lclean' \in Nat
      /\ Abs(clean') <= Lcleanacc'
      /\ Abs(clean') >= Lclean => Lclean' \in Lclean .. Abs(clean')
      /\ Abs(clean') <= Lclean => Lclean' \in Abs(clean') .. Lclean
  BY <1>2, LevelStep, LoudestType DEF Levels, TypeOK
<1>5. Ltx' \in 0 .. In
  BY <1>1, <1>2, <1>3 DEF TypeOK
<1>6. Lclean' \in 0 .. 2 * In
  BY <1>1, <1>2, <1>4 DEF TypeOK
<1>7. Nearer(Ltxacc, Ltx, tx', Ltxacc', Ltx')
  <2>1. Abs(t) = Ltx => Ltxacc' = Ltxacc
    BY <1>2, <1>3 DEF Levels, Accumulate, TypeOK
  <2>2. Abs(t) # Ltx => Abs(Short * Abs(t) - Ltxacc') < Abs(Short * Abs(t) - Ltxacc)
    BY <1>2, StepNearer, LoudestType DEF Levels, TypeOK
  <2> QED BY <1>3, <2>1, <2>2 DEF Nearer
<1>8. Nearer(Lcleanacc, Lclean, clean', Lcleanacc', Lclean')
  <2>1. Abs(clean') = Lclean => Lcleanacc' = Lcleanacc
    BY <1>2, <1>4 DEF Levels, Accumulate, TypeOK
  <2>2. Abs(clean') # Lclean =>
          Abs(Short * Abs(clean') - Lcleanacc') < Abs(Short * Abs(clean') - Lcleanacc)
    BY <1>2, StepNearer, LoudestType DEF Levels, TypeOK
  <2> QED BY <1>4, <2>1, <2>2 DEF Nearer
<1> QED BY <1>1, <1>3, <1>4, <1>5, <1>6, <1>7, <1>8 DEF Levels

LEMMA BgnStep ==
  ASSUME TypeOK, BgnBound, clean' \in Int, Lcleanacc' \in Nat,
         Lclean' = Average(Lcleanacc', Short), Abs(clean') <= Lcleanacc', BackgroundLevel
  PROVE  /\ Lbgn' \in 0 .. Loudest
         /\ Lbgn_acc' \in Nat
         /\ Lbgn' = Average(Lbgn_acc', Long)
<1>1. CASE Lclean' < Quiet
  <2>1. Abs(clean') <= Loudest /\ Abs(clean') \in Nat /\ Loudest \in Nat
    BY <1>1, QuietSample, AbsType, LoudestType
  <2>2. /\ Lbgn' \in Nat /\ Lbgn_acc' \in Nat
        /\ Abs(clean') >= Lbgn => Lbgn' \in Lbgn .. Abs(clean')
        /\ Abs(clean') <= Lbgn => Lbgn' \in Abs(clean') .. Lbgn
    BY <1>1, LevelStep, LoudestType DEF TypeOK, BackgroundLevel
  <2>3. Lbgn' \in 0 .. Loudest
    BY <2>1, <2>2 DEF BgnBound, TypeOK
  <2> QED BY <1>1, <2>2, <2>3 DEF BackgroundLevel
<1>2. CASE ~(Lclean' < Quiet)
  BY <1>2 DEF BackgroundLevel, TypeOK, BgnBound
<1> QED BY <1>1, <1>2

LEMMA UpdateIInv == IInv /\ echo_can_update => IInv'
<1> SUFFICES ASSUME IInv, echo_can_update PROVE IInv'
  OBVIOUS
<1>1. PICK t \in Tx, rx \in Rx, e \in Echoes :
        /\ tx' = t /\ clean' = Int16(rx - e) /\ even' = ~even /\ Levels
        /\ Comfort(rx) \/ Clipped(rx) \/ Muted(rx) \/ Learns(rx) \/ NlpOff(rx)
  BY DEF echo_can_update
<1>2. TypeOK /\ BgnBound /\ Filtered
  BY DEF IInv
<1>3. /\ tx' \in Sample /\ rx \in Sample /\ clean' \in (-2 * In) .. (2 * In - 1)
      /\ Ltxacc' \in Nat /\ Lcleanacc' \in Nat
      /\ Ltx' \in 0 .. In /\ Lclean' \in 0 .. 2 * In
      /\ Ltx' = Average(Ltxacc', Short) /\ Lclean' = Average(Lcleanacc', Short)
      /\ Abs(clean') <= Lcleanacc'
  BY <1>1, <1>2, LevelsStep
<1>4. In \in Nat /\ clean' \in Int /\ rx \in Int /\ even' \in BOOLEAN
  BY <1>1, <1>2, <1>3, NlpAssumption DEF TypeOK, Sample
<1> DEFINE Rest ==
      /\ Lbgn' \in 0 .. Loudest /\ Lbgn_acc' \in Nat /\ Lbgn' = Average(Lbgn_acc', Long)
      /\ cng_filter' \in (-Crest) .. Crest
      /\ clean_nlp' \in Int /\ by' \in {"filter", "noise", "clip", "mute", "disabled"}
      /\ by' # "filter" => clean_nlp' \in Sample
<1>5. Rest
  <2>0. /\ Lbgn \in 0 .. Loudest /\ Lbgn_acc \in Nat /\ Lbgn = Average(Lbgn_acc, Long)
        /\ cng_filter \in (-Crest) .. Crest /\ Loudest \in Nat /\ Loudest <= In - 1
    BY <1>2, LoudestType, RoomAssumption DEF TypeOK, BgnBound, Filtered
  <2>1. CASE Comfort(rx)
    <3>1. cng_filter' \in (-Crest) .. Crest
      BY <2>0, <2>1, HothBound DEF Comfort
    <3>2. (cng_filter' * Lbgn * 8) \div (Rnd \div 2) \in Sample
      BY <2>0, <3>1, NoiseFits
    <3> QED BY <1>3, <1>4, <2>0, <2>1, <3>1, <3>2 DEF Comfort, Return, Sample
  <2>2. CASE Clipped(rx)
    <3>1. Clip(clean', Lbgn) \in Sample
      BY <1>4, <2>0 DEF Clip, Sample
    <3> QED BY <1>3, <1>4, <2>0, <2>2, <3>1 DEF Clipped, Return, Sample
  <2>3. CASE Muted(rx)
    <3>1. 0 \in Sample
      BY NlpAssumption DEF Sample
    <3> QED BY <1>3, <1>4, <2>0, <2>3, <3>1 DEF Muted, Return, Sample
  <2>4. CASE Learns(rx)
    <3>1. /\ Lbgn' \in 0 .. Loudest /\ Lbgn_acc' \in Nat
          /\ Lbgn' = Average(Lbgn_acc', Long)
      BY <1>2, <1>3, <1>4, <2>4, BgnStep DEF Learns
    <3> QED BY <1>3, <1>4, <2>0, <2>4, <3>1 DEF Learns, Return
  <2>5. CASE NlpOff(rx)
    BY <1>3, <1>4, <2>0, <2>5 DEF NlpOff, Return
  <2> QED BY <1>1, <2>1, <2>2, <2>3, <2>4, <2>5
<1>6. Lbgn' \in Nat /\ cng_filter' \in Int
  BY <1>5, LoudestType, CrestType
<1> QED BY <1>3, <1>4, <1>5, <1>6 DEF IInv, TypeOK, BgnBound, Filtered

LEMMA FlushIInv == IInv /\ echo_can_flush => IInv'
<1> SUFFICES ASSUME IInv, echo_can_flush PROVE IInv'
  OBVIOUS
<1>1. Average(0, Short) = 0 /\ Average(0, Long) = 0
  BY SilentAverage, LoudestType
<1> QED
  BY <1>1, NlpAssumption, LoudestType
  DEF echo_can_flush, IInv, TypeOK, BgnBound, Filtered, Sample

LEMMA Invariance == Spec => []IInv
<1>1. IInv /\ [Next]_vars => IInv'
  <2>1. IInv /\ UNCHANGED vars => IInv'
    BY DEF vars, IInv, TypeOK, BgnBound, Filtered
  <2> QED BY <2>1, UpdateIInv, FlushIInv DEF Next
<1> QED BY <1>1, InitIInv, PTL DEF Spec

\* Levels are the average of their accumulators and no higher than the loudest
\* sample.
THEOREM TypeCorrect == Spec => []TypeOK
<1>1. IInv => TypeOK
  BY DEF IInv
<1> QED BY <1>1, Invariance, PTL

\* High levels like near end speech are not learnt as background noise.
THEOREM BackgroundStaysLow == Spec => []BgnBound
<1>1. IInv => BgnBound
  BY DEF IInv
<1> QED BY <1>1, Invariance, PTL

\* The overflow suspected in the comfort noise does not exist.
THEOREM NoOverflow == Spec => []OutputFits
<1>1. IInv => OutputFits
  BY NoiseFits DEF IInv, OutputFits, Filtered, BgnBound
<1> QED BY <1>1, Invariance, PTL

\* A level follows its signal, does not pass it, and comes nearer to it with every
\* sample it differs from.
THEOREM LevelsFollow == Spec => NoOvershoot
<1>1. IInv /\ echo_can_update =>
        /\ Nearer(Ltxacc, Ltx, tx', Ltxacc', Ltx')
        /\ Nearer(Lcleanacc, Lclean, clean', Lcleanacc', Lclean')
  <2> SUFFICES ASSUME IInv, echo_can_update
               PROVE  /\ Nearer(Ltxacc, Ltx, tx', Ltxacc', Ltx')
                      /\ Nearer(Lcleanacc, Lclean, clean', Lcleanacc', Lclean')
    OBVIOUS
  <2>1. PICK t \in Tx, rx \in Rx, e \in Echoes : tx' = t /\ clean' = Int16(rx - e) /\ Levels
    BY DEF echo_can_update
  <2> QED BY <2>1, LevelsStep DEF IInv
<1> QED BY <1>1, Invariance, PTL DEF Spec, NoOvershoot
=============================================================================
