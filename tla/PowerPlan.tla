------------------------------ MODULE PowerPlan ------------------------------
(***************************************************************************)
(* What WiSPCaR promises the host, with the serial line, the command       *)
(* parser and the decimal counters of the firmware left out: the power is  *)
(* on until the watchdog runs out or a sleep command comes, and off for a  *)
(* known number of turns then.                                             *)
(***************************************************************************)
EXTENDS Naturals

CONSTANTS WD_TIMEOUT, WD_FIRE

VARIABLES
  power,  \* the switch
  mode,   \* why it is so: "on", "cut" by the watchdog, or "asleep"
  left    \* turns until the mode changes by itself

vars == <<power, mode, left>>

To(m, n) == mode' = m /\ left' = n /\ power' = (m = "on")

Init == power = TRUE /\ mode = "on" /\ left = WD_TIMEOUT

KeepAlive == mode = "on" /\ To("on", WD_TIMEOUT)

Sleep(seconds) == mode = "on" /\ To("asleep", seconds + 1)

Turn ==
  \/ left > 1 /\ To(mode, left - 1)
  \/ left = 1 /\ mode = "on" /\ To("cut", WD_FIRE)
  \/ left = 1 /\ mode # "on" /\ To("on", WD_TIMEOUT)

Next == KeepAlive \/ Turn \/ \E seconds \in 0 .. 999 : Sleep(seconds)

Spec == Init /\ [][Next]_vars
=============================================================================
