----------------------------- MODULE MCOslecWrap -----------------------------
(***************************************************************************)
(* Two channels with one heap address each to share, so that addresses are *)
(* used again; one or two /proc threads; two tap counts and two modes.     *)
(***************************************************************************)
EXTENDS OslecWrap

CONSTANTS c1, c2, p1, p2, e1, e2, normal, disabled

MCChan == {c1, c2}
MCProc == {p1, p2}
MCOneProc == {p1}
MCEc == {e1, e2}
MCLen == {128, 256}
MCMode == {normal, disabled}
MCNoThread == {}
=============================================================================
