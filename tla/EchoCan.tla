------------------------------- MODULE EchoCan -------------------------------
(***************************************************************************)
(* One echo canceller, src/oslec/spandsp-0.0.3/src/echo.c with its FIR     *)
(* filters of spandsp/fir.h: a call of echo_can_update for every sample of *)
(* the line, from the interrupt of the card, and echo_can_flush, from a    *)
(* write to /proc/oslec/reset.                                             *)
(*                                                                         *)
(* Kept: where the samples are written and which taps and samples a filter *)
(* and its adaption pair, and the dual path logic.  Abstracted: the taps   *)
(* are "zero" or "trained", the levels of the two residual signals are     *)
(* equal or not, and a comparison of levels may come out either way.       *)
(***************************************************************************)
EXTENDS Integers

CONSTANTS
  taps,          \* length of the filters
  Sample,        \* values of tx; 0 is one
  Better,        \* samples bg has to do better before it is copied: 6
  DTD_HANGOVER,  \* samples without adaption after near end speech: 600
  Smp            \* TRUE: the reset runs on another CPU than the interrupt

ASSUME CanAssumption ==
  /\ taps \in Nat \ {0}
  /\ 0 \in Sample
  /\ Better \in Nat
  /\ DTD_HANGOVER \in Nat \ {0}
  /\ Smp \in BOOLEAN

VARIABLES
  fir_state,        \* foreground filter: its history and curr_pos
  fir_state_bg,     \* background filter
  curr_pos,         \* position in the history for the adaption
  fg, bg,           \* fir_taps16[0] and [1]: "zero" or "trained"
  levels,           \* "equal": Lclean = Lclean_bg is known; "any"
  nonupdate_dwell,  \* samples until adaption is allowed again
  cond_met,         \* samples in a row in which bg did better
  adaption,         \* bit ECHO_CAN_USE_ADAPTION of adaption_mode
  upc, tx, at,      \* the update: its next step, the sample, fir->curr_pos
  fpc               \* the flush: its next step

filters == <<fir_state, fir_state_bg>>
coeffs == <<fg, bg>>
control == <<levels, nonupdate_dwell, cond_met>>
update == <<upc, tx, at>>
vars == <<filters, curr_pos, coeffs, control, adaption, update, fpc>>

Slot == 0 .. taps - 1
Zeros == [k \in Slot |-> 0]

\* echo_can_create: kmalloc and memset of everything, one mode or the other.
Init ==
  /\ fir_state = [history |-> Zeros, curr_pos |-> taps - 1]
  /\ fir_state_bg = [history |-> Zeros, curr_pos |-> taps - 1]
  /\ curr_pos = taps - 1
  /\ fg = "zero" /\ bg = "zero"
  /\ levels = "equal" /\ nonupdate_dwell = 0 /\ cond_met = 0
  /\ adaption \in BOOLEAN
  /\ upc = "idle" /\ tx = 0 /\ at = 0
  /\ fpc = "idle"

-----------------------------------------------------------------------------
(* Circular buffers: fir16 and lms_adapt_bg. *)

\* Mutant of Roll: the end of the buffer is noticed one step late.
RollLate(p) == IF p < 0 THEN taps - 1 ELSE p - 1

\* The position moves down and around.
Roll(p) == IF p <= 0 THEN taps - 1 ELSE p - 1

\* Mutant of Paired: offset1 is one off.
PairedOff(p, i) == IF i >= taps - p - 1 THEN i - (taps - p - 1) ELSE i + p

\* The slot whose sample the two loops pair with tap i from position p: from
\* the last tap down to offset1 = taps - p, and from there down to 0.
Paired(p, i) == IF i >= taps - p THEN i - (taps - p) ELSE i + p

\* What the filter loops see from position p.
View(fir, p) == [i \in Slot |-> fir.history[Paired(p, i)]]

\* The store of the newest sample, and the position it is remembered by.
Store(fir) ==
  /\ fir' = [fir EXCEPT !.history[fir.curr_pos] = tx]
  /\ at' = fir.curr_pos

\* The end of fir16: the position is rolled from what was read before, or is
\* read again, as the compiler likes.
Advance(fir) ==
  \E p \in {at, fir.curr_pos} : fir' = [fir EXCEPT !.curr_pos = Roll(p)]

-----------------------------------------------------------------------------
(* echo_can_update, for one sample *)

\* With one CPU neither runs inside the other: oslec_lock turns the interrupt
\* off for the flush, and the update is the interrupt.
UpdateStart(s) ==
  /\ upc = "idle" /\ (~Smp => fpc = "idle")
  /\ upc' = "fg" /\ tx' = s
  /\ UNCHANGED <<filters, curr_pos, coeffs, control, adaption, at, fpc>>

FgStore ==
  /\ upc = "fg" /\ upc' = "fgroll"
  /\ Store(fir_state)
  /\ UNCHANGED <<fir_state_bg, curr_pos, coeffs, control, adaption, tx, fpc>>

FgAdvance ==
  /\ upc = "fgroll" /\ upc' = "bg"
  /\ Advance(fir_state)
  /\ UNCHANGED <<fir_state_bg, curr_pos, coeffs, control, adaption, tx, at, fpc>>

BgStore ==
  /\ upc = "bg" /\ upc' = "bgroll"
  /\ Store(fir_state_bg)
  /\ UNCHANGED <<fir_state, curr_pos, coeffs, control, adaption, tx, fpc>>

\* Two filters without taps leave the same residual, and equal levels equal.
BgAdvance ==
  /\ upc = "bgroll" /\ upc' = "lms"
  /\ Advance(fir_state_bg)
  /\ levels' = IF fg = "zero" /\ bg = "zero" THEN levels ELSE "any"
  /\ UNCHANGED <<fir_state, curr_pos, coeffs, nonupdate_dwell, cond_met, adaption,
                 tx, at, fpc>>

\* The adaption may leave the taps as they are, when the product is small.
Lms ==
  /\ upc = "lms" /\ upc' = "decide"
  /\ bg' \in IF nonupdate_dwell = 0 THEN {bg, "trained"} ELSE {bg}
  /\ UNCHANGED <<filters, curr_pos, fg, control, adaption, tx, at, fpc>>

Dwell(near) ==
  IF near THEN DTD_HANGOVER - 1
  ELSE IF nonupdate_dwell = 0 THEN 0 ELSE nonupdate_dwell - 1

\* Mutant of Decide: the count of good samples survives a bad one.
DecideSticky(near, better) ==
  /\ upc = "decide" /\ upc' = "roll"
  /\ better => levels # "equal"
  /\ nonupdate_dwell' = Dwell(near)
  /\ IF adaption /\ nonupdate_dwell' = 0 /\ better
     THEN IF cond_met = Better
          THEN fg' = bg /\ cond_met' = cond_met
          ELSE cond_met' = cond_met + 1 /\ fg' = fg
     ELSE UNCHANGED <<cond_met, fg>>
  /\ UNCHANGED <<filters, curr_pos, bg, levels, adaption, tx, at, fpc>>

\* Double talk detection and transfer.  near: Lrx is above the minimum and
\* above Ltx.  better: Lclean_bg < 7/8 Lclean, which equal levels rule out, and
\* Lclean_bg < Ltx/8.
Decide(near, better) ==
  /\ upc = "decide" /\ upc' = "roll"
  /\ better => levels # "equal"
  /\ nonupdate_dwell' = Dwell(near)
  /\ IF adaption /\ nonupdate_dwell' = 0 /\ better
     THEN IF cond_met = Better
          THEN fg' = bg /\ cond_met' = cond_met
          ELSE cond_met' = cond_met + 1 /\ fg' = fg
     ELSE cond_met' = 0 /\ fg' = fg
  /\ UNCHANGED <<filters, curr_pos, bg, levels, adaption, tx, at, fpc>>

UpdateEnd ==
  /\ upc = "roll" /\ upc' = "idle"
  /\ curr_pos' = Roll(curr_pos)
  /\ UNCHANGED <<filters, coeffs, control, adaption, tx, at, fpc>>

echo_can_update ==
  \/ \E s \in Sample : UpdateStart(s)
  \/ FgStore \/ FgAdvance \/ BgStore \/ BgAdvance \/ Lms
  \/ \E near, better \in BOOLEAN : Decide(near, better)
  \/ UpdateEnd

-----------------------------------------------------------------------------
(* echo_can_flush, which leaves cond_met as it is *)

FlushLevels ==
  /\ fpc = "idle" /\ (~Smp => upc = "idle")
  /\ fpc' = "fghistory"
  /\ levels' = "equal" /\ nonupdate_dwell' = 0
  /\ UNCHANGED <<filters, curr_pos, coeffs, cond_met, adaption, update>>

FlushFgHistory ==
  /\ fpc = "fghistory" /\ fpc' = "bghistory"
  /\ fir_state' = [fir_state EXCEPT !.history = Zeros]
  /\ UNCHANGED <<fir_state_bg, curr_pos, coeffs, control, adaption, update>>

\* Mutant of FlushBgHistory: the foreground filter is flushed twice.
FlushFgAgain ==
  /\ fpc = "bghistory" /\ fpc' = "fgpos"
  /\ fir_state' = [fir_state EXCEPT !.history = Zeros]
  /\ UNCHANGED <<fir_state_bg, curr_pos, coeffs, control, adaption, update>>

FlushBgHistory ==
  /\ fpc = "bghistory" /\ fpc' = "fgpos"
  /\ fir_state_bg' = [fir_state_bg EXCEPT !.history = Zeros]
  /\ UNCHANGED <<fir_state, curr_pos, coeffs, control, adaption, update>>

FlushFgPos ==
  /\ fpc = "fgpos" /\ fpc' = "bgpos"
  /\ fir_state' = [fir_state EXCEPT !.curr_pos = taps - 1]
  /\ UNCHANGED <<fir_state_bg, curr_pos, coeffs, control, adaption, update>>

FlushBgPos ==
  /\ fpc = "bgpos" /\ fpc' = "taps"
  /\ fir_state_bg' = [fir_state_bg EXCEPT !.curr_pos = taps - 1]
  /\ UNCHANGED <<fir_state, curr_pos, coeffs, control, adaption, update>>

FlushTaps ==
  /\ fpc = "taps" /\ fpc' = "pos"
  /\ fg' = "zero" /\ bg' = "zero"
  /\ UNCHANGED <<filters, curr_pos, control, adaption, update>>

\* Mutant of FlushPos: the third position is forgotten.
FlushPosNot ==
  /\ fpc = "pos" /\ fpc' = "idle"
  /\ UNCHANGED <<filters, curr_pos, coeffs, control, adaption, update>>

FlushPos ==
  /\ fpc = "pos" /\ fpc' = "idle"
  /\ curr_pos' = taps - 1
  /\ UNCHANGED <<filters, coeffs, control, adaption, update>>

echo_can_flush ==
  \/ FlushLevels \/ FlushFgHistory \/ FlushBgHistory \/ FlushFgPos
  \/ FlushBgPos \/ FlushTaps \/ FlushPos

-----------------------------------------------------------------------------

echo_can_adaption_mode ==
  /\ adaption' \in BOOLEAN
  /\ UNCHANGED <<filters, curr_pos, coeffs, control, update, fpc>>

Next == echo_can_update \/ echo_can_flush \/ echo_can_adaption_mode

Spec == Init /\ [][Next]_vars

-----------------------------------------------------------------------------
(* Correctness. *)

Fir == [history : [Slot -> Sample], curr_pos : Slot]

\* However the reset and the update interleave, each of the three positions
\* indexes the arrays.
TypeOK ==
  /\ fir_state \in Fir /\ fir_state_bg \in Fir
  /\ curr_pos \in Slot /\ at \in Slot
  /\ fg \in {"zero", "trained"} /\ bg \in {"zero", "trained"}
  /\ levels \in {"equal", "any"}
  /\ nonupdate_dwell \in 0 .. DTD_HANGOVER - 1
  /\ cond_met \in 0 .. Better
  /\ adaption \in BOOLEAN
  /\ tx \in Sample
  /\ upc \in {"idle", "fg", "fgroll", "bg", "bgroll", "lms", "decide", "roll"}
  /\ fpc \in {"idle", "fghistory", "bghistory", "fgpos", "bgpos", "taps", "pos"}

\* Position of the newest sample, after fir16.
Newest(fir) == IF fir.curr_pos = taps - 1 THEN 0 ELSE fir.curr_pos + 1

\* The adaption corrects each tap by the sample that this tap was multiplied
\* with: fir16 has moved the position of the filter, and the adaption finds
\* the newest sample by a third counter.
LmsAligned == upc = "lms" => curr_pos = Newest(fir_state_bg)

\* When nothing is being done the three positions are the same; a difference
\* would stay, as each of them moves by one slot in every sample.
PositionsAgree ==
  upc = "idle" /\ fpc = "idle" =>
    fir_state.curr_pos = curr_pos /\ fir_state_bg.curr_pos = curr_pos

\* Taps that are copied mean the same to the foreground filter as to the
\* background filter they were adapted in: the two see the same samples.
SameView ==
  upc \in {"lms", "decide"} =>
    View(fir_state, Newest(fir_state)) = View(fir_state_bg, Newest(fir_state_bg))

\* The buffer of the foreground filter is a delay line: tap i is always paired
\* with the sample i before the newest, across the end of the buffer and
\* across a reset.
FgView == View(fir_state, IF upc = "fgroll" THEN at ELSE Newest(fir_state))

FgLine == INSTANCE DelayLine WITH line <- FgView

FgIsDelayLine == FgLine!Spec

\* The canceller implements the dual path rule, although a reset leaves
\* cond_met alone: the sample after a reset finds equal levels and clears it.
RuleFg == IF fpc = "idle" THEN fg ELSE "zero"
RuleBg == IF fpc = "idle" THEN bg ELSE "zero"
Run == IF levels = "equal" THEN 0 ELSE cond_met

Rule == INSTANCE DualPath WITH
  fg <- RuleFg, bg <- RuleBg, run <- Run, hold <- nonupdate_dwell

ImplementsDualPath == Rule!Spec
=============================================================================
