----------------------------- MODULE CallMonitor -----------------------------
(***************************************************************************)
(* What the Oslec wrapper promises its two users, with the threads, the    *)
(* lock and the heap left out: a set of calls that come and go, at most    *)
(* one of which is watched.  zaptel sees calls start and end at any time;  *)
(* /proc/oslec shows and sets the mode of the watched call and no other    *)
(* (src/oslec/kernel/oslec_wrap.c:142-190).                                *)
(***************************************************************************)
EXTENDS Naturals

CONSTANTS Ec, Len, Mode, DefaultMode, Null

VARIABLES
  calls,    \* the cancellers of the calls that are up
  mode,     \* the mode of each of them
  watched,  \* the one /proc/oslec shows, or Null
  length    \* its number of taps, or 0

vars == <<calls, mode, watched, length>>

Init == calls = {} /\ mode = [e \in {} |-> DefaultMode] /\ watched = Null /\ length = 0

\* A call starts, in the default mode.  It is watched if no call is.
Start(e, len) ==
  /\ e \notin calls
  /\ calls' = calls \cup {e}
  /\ mode' = [f \in calls \cup {e} |-> IF f = e THEN DefaultMode ELSE mode[f]]
  /\ IF watched = Null
     THEN watched' = e /\ length' = len
     ELSE UNCHANGED <<watched, length>>

\* A call ends.  If it was the watched one, no call is until the next Start.
End(e) ==
  /\ e \in calls
  /\ calls' = calls \ {e}
  /\ mode' = [f \in calls \ {e} |-> mode[f]]
  /\ IF watched = e
     THEN watched' = Null /\ length' = 0
     ELSE UNCHANGED <<watched, length>>

\* The watched call is put in mode m.
SetMode(m) ==
  /\ watched # Null
  /\ mode' = [mode EXCEPT ![watched] = m]
  /\ UNCHANGED <<calls, watched, length>>

Next ==
  \/ \E e \in Ec : End(e) \/ \E len \in Len : Start(e, len)
  \/ \E m \in Mode : SetMode(m)

Spec == Init /\ [][Next]_vars
=============================================================================
