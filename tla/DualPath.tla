------------------------------- MODULE DualPath ------------------------------
(***************************************************************************)
(* The dual path rule of the canceller, reference [1] of echo.c: a         *)
(* background filter adapts whenever the near end is silent, and becomes   *)
(* the foreground filter only after it did better in Better samples in a   *)
(* row.  A reset and near end speech start the count again.                *)
(***************************************************************************)
EXTENDS Naturals

CONSTANTS Better, DTD_HANGOVER

VARIABLES
  fg, bg,  \* the filters: "zero" or "trained"
  run,     \* samples in a row, at most Better, in which bg did better
  hold     \* samples for which adaption is still held off

vars == <<fg, bg, run, hold>>

Init == fg = "zero" /\ bg = "zero" /\ run = 0 /\ hold = 0

Adapt == hold = 0 /\ bg' = "trained" /\ UNCHANGED <<fg, run, hold>>

HoldAfter(near) ==
  IF near THEN DTD_HANGOVER - 1 ELSE IF hold = 0 THEN 0 ELSE hold - 1

\* The samples during which the count is not running or starts again.
Worse ==
  /\ \E near \in BOOLEAN : hold' = HoldAfter(near)
  /\ run' = 0 /\ UNCHANGED <<fg, bg>>

\* A sample in which bg did better, while nobody speaks at the near end.
GoodSample ==
  /\ \E near \in BOOLEAN : HoldAfter(near) = 0
  /\ hold' = 0
  /\ \/ run < Better /\ run' = run + 1 /\ fg' = fg
     \/ run = Better /\ run' = run /\ fg' = bg
  /\ bg' = bg

Reset == fg' = "zero" /\ bg' = "zero" /\ run' = 0 /\ hold' = 0

Next == Adapt \/ Worse \/ GoodSample \/ Reset

Spec == Init /\ [][Next]_vars
=============================================================================
