------------------------------ MODULE Delivery ------------------------------
(***************************************************************************)
(* What a fax call promises about its document, whatever the line does:    *)
(* pages are stored one after the other, a page may be stored again before *)
(* the next one, none is left out, and success is reported only once the   *)
(* last one is stored.                                                     *)
(***************************************************************************)
EXTENDS Integers, Sequences

CONSTANT Pages

VARIABLES
  stored,   \* the pages that the receiver has stored, in order
  reported  \* the sender has reported success

vars == <<stored, reported>>

LastPage(pages) == IF pages = <<>> THEN 0 ELSE pages[Len(pages)]

Init == stored = <<>> /\ reported = FALSE

Store(page) ==
  /\ page \in {LastPage(stored), LastPage(stored) + 1}
  /\ ~reported
  /\ stored' = Append(stored, page)
  /\ UNCHANGED reported

Report ==
  /\ LastPage(stored) = Pages
  /\ reported' = TRUE
  /\ UNCHANGED stored

Next == (\E page \in 1 .. Pages : Store(page)) \/ Report

Spec == Init /\ [][Next]_vars
=============================================================================
