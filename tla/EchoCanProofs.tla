---------------------------- MODULE EchoCanProofs ----------------------------
(***************************************************************************)
(* Proofs about EchoCan, for filters of any length.  The types, that is    *)
(* the bounds of the array indices, hold even when a reset and an update   *)
(* run at the same time; the rest is about one CPU, Smp = FALSE.           *)
(***************************************************************************)
EXTENDS EchoCan, TLAPS

LEMMA RollSlot == \A p \in Slot : Roll(p) \in Slot
  BY CanAssumption DEF Roll, Slot

LEMMA PairedSlot == \A p, i \in Slot : Paired(p, i) \in Slot
  BY CanAssumption DEF Paired, Slot

LEMMA ZerosType == Zeros \in [Slot -> Sample] /\ taps - 1 \in Slot
  BY CanAssumption DEF Zeros, Slot

LEMMA InitType == Init => TypeOK
<1> SUFFICES ASSUME Init PROVE TypeOK
  OBVIOUS
<1>1. fir_state \in Fir /\ fir_state_bg \in Fir
  BY ZerosType DEF Init, Fir
<1>2. adaption \in BOOLEAN /\ tx \in Sample /\ 0 \in Slot
  BY CanAssumption DEF Init, Slot
<1> QED BY <1>1, <1>2, ZerosType, CanAssumption DEF Init, TypeOK

LEMMA StoreType ==
  ASSUME TypeOK, NEW fir \in Fir
  PROVE  [fir EXCEPT !.history[fir.curr_pos] = tx] \in Fir
  BY DEF TypeOK, Fir

LEMMA AdvanceType ==
  ASSUME TypeOK, NEW fir \in Fir, NEW p \in {at, fir.curr_pos}
  PROVE  [fir EXCEPT !.curr_pos = Roll(p)] \in Fir
  BY RollSlot DEF TypeOK, Fir

LEMMA UpdateType ==
  ASSUME TypeOK, echo_can_update
  PROVE  TypeOK'
<1> USE CanAssumption DEF TypeOK, filters, coeffs, control
<1>1. CASE \E s \in Sample : UpdateStart(s)
  BY <1>1 DEF UpdateStart
<1>2. CASE FgStore
  <2>1. fir_state' \in Fir /\ at' \in Slot
    BY <1>2, StoreType DEF FgStore, Store, Fir
  <2> QED BY <1>2, <2>1 DEF FgStore
<1>3. CASE FgAdvance
  <2>1. fir_state' \in Fir
    BY <1>3, AdvanceType DEF FgAdvance, Advance
  <2> QED BY <1>3, <2>1 DEF FgAdvance
<1>4. CASE BgStore
  <2>1. fir_state_bg' \in Fir /\ at' \in Slot
    BY <1>4, StoreType DEF BgStore, Store, Fir
  <2> QED BY <1>4, <2>1 DEF BgStore
<1>5. CASE BgAdvance
  <2>1. fir_state_bg' \in Fir
    BY <1>5, AdvanceType DEF BgAdvance, Advance
  <2> QED BY <1>5, <2>1 DEF BgAdvance
<1>6. CASE Lms
  BY <1>6 DEF Lms
<1>7. ASSUME NEW near \in BOOLEAN, NEW better \in BOOLEAN, Decide(near, better)
      PROVE  TypeOK'
  <2>1. nonupdate_dwell' \in 0 .. DTD_HANGOVER - 1
    BY <1>7 DEF Decide, Dwell
  <2>2. cond_met' \in 0 .. Better /\ fg' \in {"zero", "trained"}
    BY <1>7 DEF Decide
  <2> QED BY <1>7, <2>1, <2>2 DEF Decide
<1>8. CASE UpdateEnd
  BY <1>8, RollSlot DEF UpdateEnd
<1> QED BY <1>1, <1>2, <1>3, <1>4, <1>5, <1>6, <1>7, <1>8 DEF echo_can_update

LEMMA FlushType ==
  ASSUME TypeOK, echo_can_flush
  PROVE  TypeOK'
<1> USE CanAssumption, ZerosType DEF TypeOK, filters, coeffs, control, update
<1>1. CASE FlushLevels
  BY <1>1 DEF FlushLevels
<1>2. CASE FlushFgHistory
  <2>1. fir_state' \in Fir
    BY <1>2 DEF FlushFgHistory, Fir
  <2> QED BY <1>2, <2>1 DEF FlushFgHistory
<1>3. CASE FlushBgHistory
  <2>1. fir_state_bg' \in Fir
    BY <1>3 DEF FlushBgHistory, Fir
  <2> QED BY <1>3, <2>1 DEF FlushBgHistory
<1>4. CASE FlushFgPos
  <2>1. fir_state' \in Fir
    BY <1>4 DEF FlushFgPos, Fir
  <2> QED BY <1>4, <2>1 DEF FlushFgPos
<1>5. CASE FlushBgPos
  <2>1. fir_state_bg' \in Fir
    BY <1>5 DEF FlushBgPos, Fir
  <2> QED BY <1>5, <2>1 DEF FlushBgPos
<1>6. CASE FlushTaps
  BY <1>6 DEF FlushTaps
<1>7. CASE FlushPos
  BY <1>7 DEF FlushPos
<1> QED BY <1>1, <1>2, <1>3, <1>4, <1>5, <1>6, <1>7 DEF echo_can_flush

LEMMA NextType == TypeOK /\ [Next]_vars => TypeOK'
<1> SUFFICES ASSUME TypeOK, [Next]_vars PROVE TypeOK'
  OBVIOUS
<1>1. CASE echo_can_adaption_mode
  BY <1>1
  DEF echo_can_adaption_mode, TypeOK, filters, coeffs, control, update
<1>2. CASE UNCHANGED vars
  BY <1>2 DEF vars, TypeOK, filters, coeffs, control, update
<1> QED BY <1>1, <1>2, UpdateType, FlushType DEF Next

\* The indices stay in the arrays, whatever the interleaving.
THEOREM TypeCorrect == Spec => []TypeOK
BY InitType, NextType, PTL DEF Spec

-----------------------------------------------------------------------------
(* One CPU *)

Before == {"idle", "fg", "fgroll"}
After == {"lms", "decide", "roll"}

\* The positions of the filters run ahead of curr_pos during an update, one
\* after the other, and are set one after the other during a flush.
Positions ==
  /\ upc = "idle" \/ fpc = "idle"
  /\ upc = "fgroll" => at = fir_state.curr_pos
  /\ upc = "bgroll" => at = fir_state_bg.curr_pos
  /\ upc \in Before /\ fpc \in {"idle", "fghistory", "bghistory", "fgpos"}
     => fir_state.curr_pos = curr_pos
  /\ upc \notin Before => fir_state.curr_pos = Roll(curr_pos)
  /\ upc \notin After /\ fpc \notin {"taps", "pos"}
     => fir_state_bg.curr_pos = curr_pos
  /\ upc \in After => fir_state_bg.curr_pos = Roll(curr_pos)
  /\ fpc \in {"bgpos", "taps", "pos"} => fir_state.curr_pos = taps - 1
  /\ fpc \in {"taps", "pos"} => fir_state_bg.curr_pos = taps - 1

\* The histories differ at most by the sample that is being stored, or by what
\* a flush has not cleared yet.
Histories ==
  /\ upc \notin {"fgroll", "bg"} /\ fpc \in {"idle", "fghistory"}
     => fir_state.history = fir_state_bg.history
  /\ upc \in {"fgroll", "bg"}
     => fir_state.history = [fir_state_bg.history EXCEPT ![curr_pos] = tx]
  /\ fpc \notin {"idle", "fghistory"} => fir_state.history = Zeros
  /\ fpc \notin {"idle", "fghistory", "bghistory"}
     => fir_state_bg.history = Zeros

UInv == TypeOK /\ Positions /\ Histories

LEMMA InitUInv == Init => UInv
BY InitType DEF Init, UInv, Positions, Histories, Before, After

LEMMA UpdateUInv ==
  ASSUME Smp = FALSE, UInv, echo_can_update
  PROVE  Positions' /\ Histories'
<1> USE DEF Positions, Histories, Before, After, filters, control, coeffs
<1>1. TypeOK /\ Positions /\ Histories
  BY DEF UInv
<1>2. fir_state \in Fir /\ fir_state_bg \in Fir
  BY <1>1 DEF TypeOK
<1>3. CASE \E s \in Sample : UpdateStart(s)
  BY <1>1, <1>3 DEF UpdateStart
<1>4. CASE FgStore
  <2>1. /\ fir_state'.curr_pos = fir_state.curr_pos
        /\ fir_state'.history
             = [fir_state.history EXCEPT ![fir_state.curr_pos] = tx]
        /\ at' = fir_state.curr_pos
    BY <1>2, <1>4 DEF FgStore, Store, Fir
  <2> QED BY <1>1, <1>4, <2>1 DEF FgStore
<1>5. CASE FgAdvance
  <2>1. /\ fir_state'.curr_pos = Roll(fir_state.curr_pos)
        /\ fir_state'.history = fir_state.history
    BY <1>1, <1>2, <1>5 DEF FgAdvance, Advance, Fir
  <2> QED BY <1>1, <1>5, <2>1 DEF FgAdvance
<1>6. CASE BgStore
  <2>1. /\ fir_state_bg'.curr_pos = fir_state_bg.curr_pos
        /\ fir_state_bg'.history
             = [fir_state_bg.history EXCEPT ![fir_state_bg.curr_pos] = tx]
        /\ at' = fir_state_bg.curr_pos
    BY <1>2, <1>6 DEF BgStore, Store, Fir
  <2> QED BY <1>1, <1>6, <2>1 DEF BgStore
<1>7. CASE BgAdvance
  <2>1. /\ fir_state_bg'.curr_pos = Roll(fir_state_bg.curr_pos)
        /\ fir_state_bg'.history = fir_state_bg.history
    BY <1>1, <1>2, <1>7 DEF BgAdvance, Advance, Fir
  <2> QED BY <1>1, <1>7, <2>1 DEF BgAdvance
<1>8. CASE Lms
  BY <1>1, <1>8 DEF Lms
<1>9. CASE \E near, better \in BOOLEAN : Decide(near, better)
  BY <1>1, <1>9 DEF Decide
<1>10. CASE UpdateEnd
  BY <1>1, <1>10 DEF UpdateEnd
<1> QED BY <1>3, <1>4, <1>5, <1>6, <1>7, <1>8, <1>9, <1>10 DEF echo_can_update

LEMMA FlushUInv ==
  ASSUME Smp = FALSE, UInv, echo_can_flush
  PROVE  Positions' /\ Histories'
<1> USE DEF Positions, Histories, Before, After, filters, coeffs, control, update
<1>1. TypeOK /\ Positions /\ Histories
  BY DEF UInv
<1>2. fir_state \in Fir /\ fir_state_bg \in Fir
  BY <1>1 DEF TypeOK
<1>3. CASE FlushLevels
  BY <1>1, <1>3 DEF FlushLevels
<1>4. CASE FlushFgHistory
  <2>1. fir_state'.curr_pos = fir_state.curr_pos /\ fir_state'.history = Zeros
    BY <1>2, <1>4 DEF FlushFgHistory, Fir
  <2> QED BY <1>1, <1>4, <2>1 DEF FlushFgHistory
<1>5. CASE FlushBgHistory
  <2>1. /\ fir_state_bg'.curr_pos = fir_state_bg.curr_pos
        /\ fir_state_bg'.history = Zeros
    BY <1>2, <1>5 DEF FlushBgHistory, Fir
  <2> QED BY <1>1, <1>5, <2>1 DEF FlushBgHistory
<1>6. CASE FlushFgPos
  <2>1. /\ fir_state'.curr_pos = taps - 1
        /\ fir_state'.history = fir_state.history
    BY <1>2, <1>6 DEF FlushFgPos, Fir
  <2> QED BY <1>1, <1>6, <2>1 DEF FlushFgPos
<1>7. CASE FlushBgPos
  <2>1. /\ fir_state_bg'.curr_pos = taps - 1
        /\ fir_state_bg'.history = fir_state_bg.history
    BY <1>2, <1>7 DEF FlushBgPos, Fir
  <2> QED BY <1>1, <1>7, <2>1 DEF FlushBgPos
<1>8. CASE FlushTaps
  BY <1>1, <1>8 DEF FlushTaps
<1>9. CASE FlushPos
  BY <1>1, <1>9 DEF FlushPos
<1> QED BY <1>3, <1>4, <1>5, <1>6, <1>7, <1>8, <1>9 DEF echo_can_flush

LEMMA NextUInv == Smp = FALSE /\ UInv /\ [Next]_vars => UInv'
<1> SUFFICES ASSUME Smp = FALSE, UInv, [Next]_vars PROVE UInv'
  OBVIOUS
<1>1. TypeOK'
  BY NextType DEF UInv
<1>2. CASE echo_can_adaption_mode \/ UNCHANGED vars
  BY <1>1, <1>2
  DEF echo_can_adaption_mode, vars, UInv, Positions, Histories, filters, coeffs,
      control, update
<1> QED BY <1>1, <1>2, UpdateUInv, FlushUInv DEF Next, UInv

LEMMA UInvariance == ASSUME Smp = FALSE PROVE Spec => []UInv
<1>1. UInv /\ [Next]_vars => UInv'
  BY NextUInv
<1> QED BY InitUInv, <1>1, PTL DEF Spec

LEMMA RollBack ==
  ASSUME TypeOK, NEW fir \in Fir, NEW p \in Slot, fir.curr_pos = Roll(p)
  PROVE  Newest(fir) = p
  BY CanAssumption DEF Newest, Roll, Slot, Fir

\* Between a filter and its adaption nothing moves the samples under them.
LEMMA Aligned ==
  ASSUME Smp = FALSE PROVE Spec => [](LmsAligned /\ PositionsAgree /\ SameView)
<1>1. UInv => LmsAligned /\ PositionsAgree /\ SameView
  <2> SUFFICES ASSUME UInv PROVE LmsAligned /\ PositionsAgree /\ SameView
    OBVIOUS
  <2>1. fir_state \in Fir /\ fir_state_bg \in Fir /\ curr_pos \in Slot
    BY DEF UInv, TypeOK
  <2>2. upc \in After => /\ Newest(fir_state) = curr_pos
                         /\ Newest(fir_state_bg) = curr_pos
    BY <2>1, RollBack DEF UInv, Positions, Before, After
  <2>3. upc \in After => fir_state.history = fir_state_bg.history
    BY DEF UInv, Positions, Histories, After
  <2>4. PositionsAgree
    BY DEF UInv, Positions, PositionsAgree, Before, After
  <2> QED BY <2>2, <2>3, <2>4 DEF LmsAligned, SameView, View, After
<1> QED BY UInvariance, <1>1, PTL

\* The adaption pairs each tap with the sample the filter multiplied it by.
THEOREM Alignment == ASSUME Smp = FALSE PROVE Spec => []LmsAligned
  BY Aligned, PTL

\* Between samples curr_pos and the positions of both filters are the same.
THEOREM PositionsTogether == ASSUME Smp = FALSE PROVE Spec => []PositionsAgree
  BY Aligned, PTL

\* Both filters see the same samples, so that taps can be copied across.
THEOREM ViewsTogether == ASSUME Smp = FALSE PROVE Spec => []SameView
  BY Aligned, PTL

-----------------------------------------------------------------------------
(* The foreground filter is a delay line. *)

LEMMA NewestSlot == \A fir \in Fir : Newest(fir) \in Slot
  BY CanAssumption DEF Newest, Fir, Slot

\* From the slot where a sample is stored, the loops see that sample first and
\* then what they saw before, moved by one.
LEMMA PairedMoves ==
  ASSUME NEW fir \in Fir, NEW i \in Slot
  PROVE  /\ i = 0 => Paired(fir.curr_pos, i) = fir.curr_pos
         /\ i # 0 => /\ i - 1 \in Slot
                     /\ Paired(fir.curr_pos, i) = Paired(Newest(fir), i - 1)
                     /\ Paired(fir.curr_pos, i) # fir.curr_pos
  BY CanAssumption DEF Paired, Newest, Fir, Slot

LEMMA StoreMoves ==
  ASSUME NEW fir \in Fir, NEW s \in Sample, NEW new \in Fir,
         new.history = [fir.history EXCEPT ![fir.curr_pos] = s]
  PROVE  View(new, fir.curr_pos)
           = [i \in 0 .. taps - 1 |->
                IF i = 0 THEN s ELSE View(fir, Newest(fir))[i - 1]]
<1> SUFFICES ASSUME NEW i \in Slot
             PROVE  new.history[Paired(fir.curr_pos, i)]
                      = IF i = 0 THEN s ELSE View(fir, Newest(fir))[i - 1]
  BY DEF View, Slot
<1>1. fir.history \in [Slot -> Sample] /\ fir.curr_pos \in Slot
  BY DEF Fir
<1>2. CASE i = 0
  BY <1>1, <1>2, PairedMoves
<1>3. CASE i # 0
  <2>1. View(fir, Newest(fir))[i - 1] = fir.history[Paired(Newest(fir), i - 1)]
    BY <1>3, PairedMoves DEF View
  <2>2. Paired(fir.curr_pos, i) \in Slot
    BY <1>1, PairedSlot
  <2> QED BY <1>1, <1>3, <2>1, <2>2, PairedMoves
<1> QED BY <1>2, <1>3

LEMMA ZerosView ==
  ASSUME NEW fir, fir.history = Zeros, NEW p \in Slot
  PROVE  View(fir, p) = Zeros
  BY PairedSlot DEF View, Zeros

LEMMA FgNext == Smp = FALSE /\ UInv /\ [Next]_vars => [FgLine!Next]_FgView
<1> SUFFICES ASSUME Smp = FALSE, UInv, [Next]_vars
             PROVE  FgLine!Next \/ FgView' = FgView
  OBVIOUS
<1>1. /\ fir_state \in Fir /\ curr_pos \in Slot /\ tx \in Sample
      /\ TypeOK /\ Positions /\ Histories
  BY DEF UInv, TypeOK
<1>2. fir_state' \in Fir
  BY NextUInv DEF UInv, TypeOK
<1>3. CASE FgStore
  <2>1. /\ upc = "fg" /\ upc' = "fgroll" /\ at' = fir_state.curr_pos
        /\ fir_state'.history
             = [fir_state.history EXCEPT ![fir_state.curr_pos] = tx]
    BY <1>1, <1>3 DEF FgStore, Store, Fir
  <2>2. FgView' = View(fir_state', fir_state.curr_pos)
    BY <2>1 DEF FgView
  <2>3. FgView = View(fir_state, Newest(fir_state))
    BY <2>1 DEF FgView
  <2>4. FgLine!Push(tx)
    BY <1>1, <1>2, <2>1, <2>2, <2>3, StoreMoves DEF FgLine!Push
  <2> QED BY <1>1, <2>4 DEF FgLine!Next
<1>4. CASE FgAdvance
  <2>1. /\ upc = "fgroll" /\ upc' = "bg" /\ at = fir_state.curr_pos
        /\ fir_state'.curr_pos = Roll(at)
        /\ fir_state'.history = fir_state.history
    BY <1>1, <1>4 DEF FgAdvance, Advance, Fir, Positions
  <2>2. Newest(fir_state') = at
    BY <1>1, <1>2, <2>1, RollBack DEF Fir
  <2> QED BY <2>1, <2>2 DEF FgView, View, Newest
<1>5. CASE FlushFgHistory
  <2>1. /\ upc = "idle" /\ upc' = "idle" /\ fir_state'.history = Zeros
    BY <1>1, <1>5 DEF FlushFgHistory, Positions, update, Fir
  <2>2. FgView' = View(fir_state', Newest(fir_state'))
    BY <2>1 DEF FgView, Newest
  <2>3. FgView' = Zeros
    BY <1>2, <2>1, <2>2, NewestSlot, ZerosView
  <2> QED BY <2>3 DEF FgLine!Next, FgLine!Clear, FgLine!Zeros, Zeros, Slot
<1>6. CASE FlushFgPos
  <2>1. /\ upc = "idle" /\ upc' = "idle"
        /\ fir_state.history = Zeros /\ fir_state'.history = Zeros
    BY <1>1, <1>6 DEF FlushFgPos, Positions, Histories, update, Fir
  <2>2. /\ FgView = View(fir_state, Newest(fir_state))
        /\ FgView' = View(fir_state', Newest(fir_state'))
    BY <2>1 DEF FgView, Newest
  <2> QED BY <1>1, <1>2, <2>1, <2>2, NewestSlot, ZerosView
<1>7. CASE fir_state' = fir_state /\ upc # "fgroll" /\ upc' # "fgroll"
  BY <1>7 DEF FgView, Newest
<1>8. CASE UNCHANGED <<fir_state, upc, at>>
  BY <1>8 DEF FgView, Newest
<1>9. \/ FgStore \/ FgAdvance \/ FlushFgHistory \/ FlushFgPos
      \/ fir_state' = fir_state /\ upc # "fgroll" /\ upc' # "fgroll"
      \/ UNCHANGED <<fir_state, upc, at>>
  BY DEF Next, vars, echo_can_update, echo_can_flush, echo_can_adaption_mode,
         UpdateStart, BgStore, BgAdvance, Lms, Decide, UpdateEnd, FlushLevels,
         FlushBgHistory, FlushBgPos, FlushTaps, FlushPos, filters, update
<1> QED BY <1>3, <1>4, <1>5, <1>6, <1>7, <1>8, <1>9

\* The circular buffer of fir16 implements a delay line of any length.
THEOREM DelayLineImplemented == ASSUME Smp = FALSE PROVE Spec => FgIsDelayLine
<1>1. Init => FgLine!Init
  <2> SUFFICES ASSUME Init PROVE FgView = Zeros
    BY DEF FgLine!Init, FgLine!Zeros, Zeros, Slot
  <2>1. fir_state \in Fir /\ fir_state.history = Zeros /\ upc = "idle"
    BY InitType DEF Init, TypeOK
  <2> QED BY <2>1, NewestSlot, ZerosView DEF FgView
<1>2. UInv /\ [Next]_vars => [FgLine!Next]_FgView
  BY FgNext
<1> QED BY UInvariance, <1>1, <1>2, PTL DEF Spec, FgIsDelayLine, FgLine!Spec

-----------------------------------------------------------------------------
(* The dual path rule *)

\* Why the count may survive a reset: as long as the levels are known to be
\* equal the filters have no taps, or the count has been cleared, or it is about
\* to be.
CountCleared ==
  /\ fpc = "pos" => fg = "zero" /\ bg = "zero"
  /\ levels = "equal" /\ fpc = "idle" /\ upc # "decide"
     => (fg = "zero" /\ bg = "zero") \/ cond_met = 0

LEMMA NextCountCleared ==
  ASSUME Smp = FALSE, UInv, CountCleared, [Next]_vars
  PROVE  CountCleared'
<1> USE DEF CountCleared, filters, coeffs, control, update
<1>1. upc = "idle" \/ fpc = "idle"
  BY DEF UInv, Positions
<1>2. CASE echo_can_update
  <2>1. CASE \/ \E s \in Sample : UpdateStart(s)
             \/ FgStore \/ FgAdvance \/ BgStore \/ UpdateEnd
    BY <2>1 DEF UpdateStart, FgStore, FgAdvance, BgStore, UpdateEnd
  <2>2. CASE BgAdvance
    BY <2>2 DEF BgAdvance
  <2>3. CASE Lms
    BY <1>1, <2>3 DEF Lms
  <2>4. CASE \E near, better \in BOOLEAN : Decide(near, better)
    BY <1>1, <2>4 DEF Decide
  <2> QED BY <1>2, <2>1, <2>2, <2>3, <2>4 DEF echo_can_update
<1>3. CASE echo_can_flush
  BY <1>3
  DEF echo_can_flush, FlushLevels, FlushFgHistory, FlushBgHistory, FlushFgPos,
      FlushBgPos, FlushTaps, FlushPos
<1>4. CASE echo_can_adaption_mode \/ UNCHANGED vars
  BY <1>4 DEF echo_can_adaption_mode, vars
<1> QED BY <1>2, <1>3, <1>4 DEF Next

LEMMA DecideRule ==
  ASSUME UInv, fpc = "idle", NEW near \in BOOLEAN, NEW better \in BOOLEAN,
         Decide(near, better)
  PROVE  Rule!Next
<1> USE DEF RuleFg, RuleBg, Run
<1>1. nonupdate_dwell' = Rule!HoldAfter(near) /\ fpc' = "idle" /\ bg' = bg
  BY DEF Decide, Dwell, Rule!HoldAfter
<1>2. CASE adaption /\ nonupdate_dwell' = 0 /\ better
  <2>1. /\ levels = "any" /\ levels' = "any" /\ cond_met \in 0 .. Better
        /\ \/ cond_met = Better /\ cond_met' = cond_met /\ fg' = bg
           \/ cond_met # Better /\ cond_met' = cond_met + 1 /\ fg' = fg
    BY <1>2 DEF Decide, UInv, TypeOK
  <2>2. cond_met # Better => cond_met < Better
    BY <2>1, CanAssumption
  <2> QED BY <1>1, <1>2, <2>1, <2>2 DEF Rule!Next, Rule!GoodSample
<1>3. CASE ~(adaption /\ nonupdate_dwell' = 0 /\ better)
  <2>1. cond_met' = 0 /\ fg' = fg
    BY <1>3 DEF Decide
  <2> QED BY <1>1, <2>1 DEF Rule!Next, Rule!Worse
<1> QED BY <1>2, <1>3

LEMMA RuleNext ==
  ASSUME Smp = FALSE, UInv, CountCleared, [Next]_vars
  PROVE  Rule!Next \/ UNCHANGED Rule!vars
<1> USE DEF RuleFg, RuleBg, Run, Rule!vars, filters, coeffs, control, update
<1>1. upc = "idle" \/ fpc = "idle"
  BY DEF UInv, Positions
<1>2. CASE \/ \E s \in Sample : UpdateStart(s)
           \/ FgStore \/ FgAdvance \/ BgStore \/ UpdateEnd
           \/ echo_can_adaption_mode \/ UNCHANGED vars
  BY <1>2 DEF UpdateStart, FgStore, FgAdvance, BgStore, UpdateEnd,
              echo_can_adaption_mode, vars
<1>3. CASE BgAdvance
  BY <1>1, <1>3 DEF BgAdvance, CountCleared
<1>4. CASE Lms
  <2>1. fpc = "idle" /\ fpc' = "idle" /\ UNCHANGED <<fg, control>>
    BY <1>1, <1>4 DEF Lms
  <2>2. CASE bg' = bg
    BY <2>1, <2>2
  <2>3. CASE nonupdate_dwell = 0 /\ bg' = "trained"
    BY <2>1, <2>3 DEF Rule!Next, Rule!Adapt
  <2> QED BY <1>4, <2>2, <2>3 DEF Lms
<1>5. ASSUME NEW near \in BOOLEAN, NEW better \in BOOLEAN, Decide(near, better)
      PROVE  Rule!Next
  BY <1>1, <1>5, DecideRule DEF Decide
<1>6. CASE FlushLevels
  BY <1>6 DEF FlushLevels, Rule!Next, Rule!Reset
<1>7. CASE \/ FlushFgHistory \/ FlushBgHistory \/ FlushFgPos \/ FlushBgPos
           \/ FlushTaps
  BY <1>7 DEF FlushFgHistory, FlushBgHistory, FlushFgPos, FlushBgPos, FlushTaps
<1>8. CASE FlushPos
  BY <1>8 DEF FlushPos, CountCleared
<1> QED BY <1>2, <1>3, <1>4, <1>5, <1>6, <1>7, <1>8
        DEF Next, echo_can_update, echo_can_flush

\* The canceller implements the dual path rule, resets included.
THEOREM DualPathImplemented == ASSUME Smp = FALSE PROVE Spec => ImplementsDualPath
<1>1. Init => Rule!Init /\ CountCleared
  BY DEF Init, Rule!Init, RuleFg, RuleBg, Run, CountCleared
<1>2. UInv /\ CountCleared /\ [Next]_vars => CountCleared'
  BY NextCountCleared
<1>3. UInv /\ CountCleared /\ [Next]_vars => [Rule!Next]_(Rule!vars)
  BY RuleNext
<1> QED BY UInvariance, <1>1, <1>2, <1>3, PTL
        DEF Spec, ImplementsDualPath, Rule!Spec

=============================================================================
