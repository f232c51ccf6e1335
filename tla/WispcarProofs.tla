---------------------------- MODULE WispcarProofs ----------------------------
(***************************************************************************)
(* Proofs about Wispcar, for every setting of the timers.  The types and   *)
(* FiringCounts hold whatever the host does; the rest needs that the host  *)
(* is switched off with the power, as in the product.                      *)
(***************************************************************************)
EXTENDS Wispcar, TLAPS

Flag == {"b", "w", "s", "-"}

LEMMA DecfType == \A n \in 0 .. (Byte - 1) : Decf(n) \in 0 .. (Byte - 1)
  BY TimerAssumption DEF Decf

LEMMA ReportType ==
  ASSUME TypeOK, Report
  PROVE  /\ SERBUFI' \in Char \cup {NoChar}
         /\ line' \in [rx : {NoChar, "w", "."}, flag : Flag]
  BY DEF TypeOK, Report, Flag

-----------------------------------------------------------------------------
(* Any host *)

\* What FiringCounts needs to be inductive is the range of the registers.
BInv == TypeOK /\ FiringCounts

LEMMA InitBInv == Init => BInv
<1> SUFFICES ASSUME Init PROVE BInv
  OBVIOUS
<1>1. line \in [rx : {NoChar, "w", "."}, flag : {"b", "w", "s", "-"}]
  BY DEF Init
<1>2. power \in BOOLEAN /\ sleeping \in BOOLEAN
  BY DEF Init
<1>3. restart_flag \in {"b", "w", "s", "-"} /\ SERBUFI \in Char \cup {NoChar}
  BY DEF Init
<1> QED BY <1>1, <1>2, <1>3, TimerAssumption DEF Init, BInv, TypeOK, FiringCounts

\* The command parser touches neither of the two counters of the watchdog.
LEMMA InputTypes ==
  ASSUME TypeOK, NEW ch \in Char, sleep_input(ch)
  PROVE  /\ power' \in BOOLEAN /\ sleeping' \in BOOLEAN
         /\ sleep_state' \in 0 .. 7
         /\ sleep_timeout' \in 0 .. (Byte - 1)
         /\ x' \in 0 .. (Byte - 1)
         /\ y' \in 0 .. (Byte - 1)
         /\ z' \in 0 .. (Byte - 1)
<1>1. Val[ch] >= 0 => Val[ch] \in 0 .. (Byte - 1)
  BY TimerAssumption, CharAssumption
<1>2. CASE SleepLetter(ch)
  BY <1>2, TimerAssumption
  DEF TypeOK, SleepLetter, SleepCont, SleepReset, digits
<1>3. ASSUME StoreDigit(ch)
      PROVE  /\ x' \in 0 .. (Byte - 1)
             /\ y' \in 0 .. (Byte - 1)
             /\ z' \in 0 .. (Byte - 1)
  BY <1>1, <1>3 DEF TypeOK, StoreDigit
<1>4. CASE SleepDigit(ch)
  BY <1>3, <1>4, TimerAssumption DEF TypeOK, SleepDigit, SleepCont, SleepReset
<1>5. CASE SleepLastDigit(ch)
  <2>1. power' \in BOOLEAN /\ sleeping' \in BOOLEAN
    BY <1>5 DEF TypeOK, SleepLastDigit
  <2> QED BY <1>3, <1>5, <2>1, TimerAssumption DEF SleepLastDigit, SleepReset
<1> QED BY <1>2, <1>4, <1>5 DEF sleep_input

LEMMA ReceiveBInv ==
  ASSUME BInv, NEW ch \in Char, Receive(ch)
  PROVE  BInv'
<1>1. CASE ch = "w"
  BY <1>1, TimerAssumption
  DEF BInv, TypeOK, FiringCounts, Receive, HandleW, PowerAfterW, SleepReset, digits
<1>2. CASE ch # "w"
  <2>1. sleep_input(ch) /\ SERBUFI' = ch /\ line' = line
    BY <1>2 DEF Receive
  <2>2. UNCHANGED <<wd_timeout, wd_fire, restart_flag>>
    BY <2>1 DEF sleep_input
  <2> QED BY <2>1, <2>2, InputTypes DEF BInv, TypeOK, FiringCounts
<1> QED BY <1>1, <1>2

LEMMA TickBInv ==
  ASSUME BInv, Tick
  PROVE  BInv'
<1>1. Report
  BY DEF Tick, WatchdogFiring, Snooze, SleepFinished, WatchdogFires, CountDown
<1>2. TypeOK /\ FiringCounts
  BY DEF BInv
<1>3. /\ SERBUFI' \in Char \cup {NoChar}
      /\ line' \in [rx : {NoChar, "w", "."}, flag : {"b", "w", "s", "-"}]
  BY <1>1, <1>2, ReportType DEF Flag
<1>4. CASE WatchdogFiring
  <2>1. Decf(wd_fire) = wd_fire - 1 /\ wd_fire \in 1 .. WD_FIRE
    BY <1>2, <1>4, TimerAssumption DEF WatchdogFiring, FireLeft, FiringCounts, Decf
  <2>2. wd_fire' \in 1 .. WD_FIRE \/ (wd_fire' = 0 /\ wd_timeout' = WD_TIMEOUT)
    BY <1>4, <2>1, TimerAssumption DEF WatchdogFiring, FireLeft
  <2>3. wd_timeout' \in 0 .. WD_TIMEOUT
    BY <1>2, <1>4, TimerAssumption DEF TypeOK, WatchdogFiring, FireLeft
  <2>4. power' \in BOOLEAN
    BY <1>2, <1>4 DEF TypeOK, WatchdogFiring, FireLeft
  <2>5. restart_flag' \in {"b", "w", "s", "-"}
    BY <1>2, <1>4 DEF TypeOK, WatchdogFiring, FireLeft
  <2> QED BY <1>2, <1>3, <1>4, <2>2, <2>3, <2>4, <2>5, TimerAssumption
          DEF BInv, TypeOK, FiringCounts, WatchdogFiring, FireLeft, parser, digits
<1>5. CASE Snooze
  <2>1. /\ x' \in 0 .. (Byte - 1)
        /\ y' \in 0 .. (Byte - 1)
        /\ z' \in 0 .. (Byte - 1)
    BY <1>2, <1>5, TimerAssumption, CharAssumption DEF TypeOK, Snooze
  <2> QED BY <1>2, <1>3, <1>5, <2>1
          DEF BInv, TypeOK, FiringCounts, Snooze, parser
<1>6. CASE SleepFinished
  <2>1. power' \in BOOLEAN /\ sleeping' \in BOOLEAN
    BY <1>2, <1>6 DEF TypeOK, SleepFinished
  <2>2. restart_flag' \in {"b", "w", "s", "-"}
    BY <1>2, <1>6 DEF TypeOK, SleepFinished
  <2> QED BY <1>2, <1>3, <1>6, <2>1, <2>2, TimerAssumption
          DEF BInv, TypeOK, FiringCounts, SleepFinished, digits
<1>7. CASE WatchdogFires
  <2>1. power' \in BOOLEAN /\ sleeping' \in BOOLEAN
    BY <1>2, <1>7 DEF TypeOK, WatchdogFires
  <2>2. restart_flag' \in {"b", "w", "s", "-"}
    BY <1>2, <1>7 DEF TypeOK, WatchdogFires
  <2> QED BY <1>2, <1>3, <1>7, <2>1, <2>2, TimerAssumption
          DEF BInv, TypeOK, FiringCounts, WatchdogFires, parser, digits
<1>8. CASE CountDown
  <2>1. sleep_timeout' \in 0 .. (Byte - 1) /\ sleep_state' \in 0 .. 7
    BY <1>2, <1>8, DecfType DEF TypeOK, CountDown, parser
  <2> QED BY <1>2, <1>3, <1>8, <2>1, TimerAssumption
          DEF BInv, TypeOK, FiringCounts, CountDown, digits
<1> QED BY <1>4, <1>5, <1>6, <1>7, <1>8 DEF Tick

LEMMA NextBInv == BInv /\ [Next]_vars => BInv'
<1> SUFFICES ASSUME BInv, [Next]_vars PROVE BInv'
  OBVIOUS
<1>1. CASE NoiseSpike
  BY <1>1 DEF BInv, TypeOK, FiringCounts, NoiseSpike, parser, digits, NoChar
<1>2. CASE UNCHANGED vars
  BY <1>2 DEF BInv, TypeOK, FiringCounts, vars, parser, digits
<1> QED BY <1>1, <1>2, ReceiveBInv, TickBInv DEF Next

\* The registers and flags hold what the rest of the firmware expects of them.
THEOREM TypeCorrect == Spec => []TypeOK
BY InitBInv, NextBInv, PTL DEF Spec, BInv

\* No firing starts, or goes on, with a counter that would wrap.
THEOREM FiringsCount == Spec => []FiringCounts
BY InitBInv, NextBInv, PTL DEF Spec, BInv

\* The last 'w' of a turn has left the flag cleared, and so has the one that was
\* last answered.
Cleared ==
  /\ SERBUFI = "w" => restart_flag = "-"
  /\ line.rx = "w" => line.flag = "-"

LEMMA NextCleared == Cleared /\ [Next]_vars => Cleared'
<1> SUFFICES ASSUME Cleared, [Next]_vars PROVE Cleared'
  OBVIOUS
<1>1. ASSUME NEW ch \in Char, Receive(ch) PROVE Cleared'
  BY <1>1 DEF Cleared, Receive, HandleW
<1>2. CASE Tick
  BY <1>2 DEF Cleared, Tick, WatchdogFiring, Snooze, SleepFinished, WatchdogFires,
              CountDown, Report, NoChar
<1>3. CASE NoiseSpike \/ UNCHANGED vars
  BY <1>3 DEF Cleared, NoiseSpike, vars, NoChar
<1> QED BY <1>1, <1>2, <1>3 DEF Next

\* The flag tells why power came back, and is lost with the next 'w'.
LEMMA FlagStep ==
  ASSUME [Next]_vars
  PROVE  LET reason == IF wd_timeout = 0 THEN "w" ELSE "s" IN
         /\ ~power /\ power' => SERBUFI' = "w" \/ restart_flag' = reason
         /\ restart_flag' # restart_flag =>
              \/ SERBUFI' = "w" /\ restart_flag' = "-"
              \/ power' /\ restart_flag' = reason
<1>1. ASSUME NEW ch \in Char, Receive(ch)
      PROVE  /\ ~power /\ power' => SERBUFI' = "w"
             /\ restart_flag' # restart_flag => SERBUFI' = "w" /\ restart_flag' = "-"
  BY <1>1 DEF Receive, HandleW, sleep_input, SleepLetter, SleepDigit, SleepLastDigit
<1>2. CASE WatchdogFiring
  BY <1>2 DEF WatchdogFiring, FireLeft
<1>3. CASE Snooze \/ SleepFinished
  BY <1>3 DEF Snooze, SleepFinished
<1>4. CASE WatchdogFires \/ CountDown
  BY <1>4 DEF WatchdogFires, CountDown
<1>5. CASE NoiseSpike \/ UNCHANGED vars
  BY <1>5 DEF NoiseSpike, vars
<1> QED BY <1>1, <1>2, <1>3, <1>4, <1>5 DEF Next, Tick

\* Every restart leaves its reason in the flag, and no 'w' is ever answered by it.
THEOREM ReasonIsTold == Spec => ReasonTold
<1>1. Init => Cleared
  BY DEF Init, Cleared, NoChar
<1>2. Cleared => (line.rx = "w" => line.flag = "-")
  BY DEF Cleared
<1> QED BY <1>1, <1>2, NextCleared, FlagStep, PTL DEF Spec, ReasonTold

-----------------------------------------------------------------------------
(* The host is powered through the switch. *)

\* A sleep starts while the power is on, with three digits and with the parser
\* reset, and no character comes before it ends.
DigitsKept ==
  /\ sleeping => wd_timeout # 0 /\ sleep_state = 0
  /\ sleeping => x \in 0 .. 9 /\ y \in 0 .. 9 /\ z \in 0 .. 9
  /\ sleep_state = 6 => x \in 0 .. 9
  /\ sleep_state = 7 => x \in 0 .. 9 /\ y \in 0 .. 9

HInv == BInv /\ PowerMatches /\ ParserTimed /\ DigitsKept

LEMMA InitHInv == Init => HInv
BY InitBInv, TimerAssumption
DEF Init, HInv, PowerMatches, ParserTimed, DigitsKept

\* Every branch of the parser leaves it reset or with a full timeout.
LEMMA InputHInv ==
  ASSUME HInv, power = TRUE, NEW ch \in Char, sleep_input(ch)
  PROVE  PowerMatches' /\ ParserTimed' /\ DigitsKept'
<1> USE TimerAssumption
<1>1. /\ sleep_state \in 0 .. 7 /\ power = TRUE /\ sleeping = FALSE
      /\ wd_timeout # 0 /\ wd_timeout' = wd_timeout
      /\ sleep_state = 6 => x \in 0 .. 9
      /\ sleep_state = 7 => x \in 0 .. 9 /\ y \in 0 .. 9
  BY DEF HInv, BInv, TypeOK, PowerMatches, DigitsKept, sleep_input
<1>2. CASE SleepLetter(ch)
  BY <1>1, <1>2
  DEF PowerMatches, ParserTimed, DigitsKept, SleepLetter, SleepCont, SleepReset,
      digits
<1>3. CASE SleepDigit(ch)
  <2>1. power' = TRUE /\ sleeping' = FALSE
    BY <1>1, <1>3 DEF SleepDigit
  <2>2. ParserTimed'
    BY <1>3 DEF ParserTimed, SleepDigit, SleepCont, SleepReset
  <2>3. sleep_state' = 6 => x' \in 0 .. 9
    BY <1>1, <1>3 DEF SleepDigit, SleepCont, SleepReset, StoreDigit
  <2>4. sleep_state' = 7 => x' \in 0 .. 9 /\ y' \in 0 .. 9
    BY <1>1, <1>3 DEF SleepDigit, SleepCont, SleepReset, StoreDigit
  <2> QED BY <1>1, <2>1, <2>2, <2>3, <2>4 DEF PowerMatches, DigitsKept
<1>4. CASE SleepLastDigit(ch)
  <2>1. CASE Val[ch] \in 0 .. 9
    <3>1. x' \in 0 .. 9 /\ y' \in 0 .. 9 /\ z' \in 0 .. 9
      BY <1>1, <1>4, <2>1 DEF SleepLastDigit, StoreDigit
    <3>2. /\ power' = FALSE /\ sleeping' = TRUE
          /\ sleep_state' = 0 /\ sleep_timeout' = 0
      BY <1>4, <2>1 DEF SleepLastDigit, SleepReset
    <3> QED BY <1>1, <3>1, <3>2 DEF PowerMatches, ParserTimed, DigitsKept
  <2>2. CASE Val[ch] \notin 0 .. 9
    BY <1>1, <1>4, <2>2
    DEF PowerMatches, ParserTimed, DigitsKept, SleepLastDigit, SleepReset
  <2> QED BY <2>1, <2>2
<1> QED BY <1>2, <1>3, <1>4 DEF sleep_input

LEMMA ReceiveHInv ==
  ASSUME HostOnSwitch = TRUE, HInv, NEW ch \in Char, Receive(ch)
  PROVE  HInv'
<1>1. power = TRUE
  BY DEF Receive, HInv, BInv, TypeOK
<1>2. BInv'
  BY ReceiveBInv DEF HInv
<1>3. CASE ch = "w"
  <2>1. wd_timeout # 0 /\ sleeping = FALSE
    BY <1>1 DEF HInv, BInv, TypeOK, PowerMatches
  <2>2. /\ wd_timeout' = WD_TIMEOUT /\ sleeping' = FALSE /\ power' = TRUE
        /\ sleep_state' = 0 /\ sleep_timeout' = 0
    BY <1>1, <1>3, <2>1 DEF Receive, HandleW, PowerAfterW, SleepReset
  <2> QED BY <1>2, <2>2, TimerAssumption
          DEF HInv, PowerMatches, ParserTimed, DigitsKept
<1>4. CASE ch # "w"
  BY <1>1, <1>2, <1>4, InputHInv DEF Receive, HInv
<1> QED BY <1>3, <1>4

LEMMA TickHInv ==
  ASSUME HInv, Tick
  PROVE  PowerMatches' /\ ParserTimed' /\ DigitsKept'
<1> USE TimerAssumption DEF PowerMatches, ParserTimed, DigitsKept
<1>1. TypeOK /\ PowerMatches /\ ParserTimed /\ DigitsKept
  BY DEF HInv, BInv
<1>2. CASE WatchdogFiring
  BY <1>1, <1>2 DEF TypeOK, WatchdogFiring, FireLeft, parser, digits
<1>3. CASE Snooze
  BY <1>1, <1>3 DEF TypeOK, Snooze, parser
<1>4. CASE SleepFinished
  BY <1>1, <1>4 DEF TypeOK, SleepFinished, digits
<1>5. CASE WatchdogFires
  BY <1>1, <1>5 DEF TypeOK, WatchdogFires, parser, digits
<1>6. CASE CountDown
  BY <1>1, <1>6 DEF TypeOK, CountDown, Decf, parser, digits
<1> QED BY <1>2, <1>3, <1>4, <1>5, <1>6 DEF Tick

LEMMA NextHInv == HostOnSwitch = TRUE /\ HInv /\ [Next]_vars => HInv'
<1> SUFFICES ASSUME HostOnSwitch = TRUE, HInv, [Next]_vars PROVE HInv'
  OBVIOUS
<1>1. BInv'
  BY NextBInv DEF HInv
<1>2. CASE NoiseSpike
  BY <1>1, <1>2
  DEF HInv, PowerMatches, ParserTimed, DigitsKept, NoiseSpike, parser, digits
<1>3. CASE UNCHANGED vars
  BY <1>1, <1>3
  DEF HInv, PowerMatches, ParserTimed, DigitsKept, vars, parser, digits
<1> QED BY <1>1, <1>2, <1>3, ReceiveHInv, TickHInv DEF Next, HInv

LEMMA HInvariance == ASSUME HostOnSwitch = TRUE PROVE Spec => []HInv
<1>1. HInv /\ [Next]_vars => HInv'
  BY NextHInv
<1> QED BY InitHInv, <1>1, PTL DEF Spec

\* With such a host the switch is off exactly while the firmware is firing or
\* sleeping: no order of characters and timeouts leaves it off, or on, for good.
THEOREM SwitchMatches == ASSUME HostOnSwitch = TRUE PROVE Spec => []PowerMatches
BY HInvariance, PTL DEF HInv

\* With such a host a partial command never waits on a count that wraps.
THEOREM ParserGivesUp == ASSUME HostOnSwitch = TRUE PROVE Spec => []ParserTimed
BY HInvariance, PTL DEF HInv

LEMMA ThreeDigits ==
  \A a, b, c \in 0 .. 9 : 100 * a + 10 * b + c \in 0 .. 999
  OBVIOUS

\* What a character does to the plan: nothing, or it renews the time that is
\* left, or it starts a sleep.
LEMMA ReceivePlan ==
  ASSUME HostOnSwitch = TRUE, HInv, NEW ch \in Char, Receive(ch)
  PROVE  Plan!Next \/ UNCHANGED Plan!vars
<1> USE TimerAssumption
<1>1. /\ power = TRUE /\ sleeping = FALSE /\ wd_timeout # 0
      /\ wd_timeout \in Nat /\ sleep_state \in 0 .. 7
      /\ sleep_state = 7 => x \in 0 .. 9 /\ y \in 0 .. 9
  BY DEF Receive, HInv, BInv, TypeOK, PowerMatches, DigitsKept
<1>2. Mode = "on" /\ Left = wd_timeout
  BY <1>1 DEF Mode, Left
<1>3. CASE ch = "w"
  <2>1. power' = TRUE /\ sleeping' = FALSE /\ wd_timeout' = WD_TIMEOUT
    BY <1>1, <1>3 DEF Receive, HandleW, PowerAfterW
  <2>2. Mode' = "on" /\ Left' = WD_TIMEOUT
    BY <2>1 DEF Mode, Left
  <2> QED BY <1>2, <2>1, <2>2 DEF Plan!Next, Plan!KeepAlive, Plan!To
<1>4. CASE sleep_input(ch) /\ power' = power /\ sleeping' = sleeping
  <2>1. wd_timeout' = wd_timeout
    BY <1>4 DEF sleep_input
  <2>2. Mode' = "on" /\ Left' = wd_timeout
    BY <1>1, <1>4, <2>1 DEF Mode, Left
  <2> QED BY <1>2, <1>4, <2>2 DEF Plan!vars
<1>5. CASE sleep_input(ch) /\ SleepLastDigit(ch) /\ Val[ch] \in 0 .. 9
  <2>1. power' = FALSE /\ sleeping' = TRUE /\ wd_timeout' = wd_timeout
    BY <1>5 DEF sleep_input, SleepLastDigit
  <2>2. x' \in 0 .. 9 /\ y' \in 0 .. 9 /\ z' \in 0 .. 9
    BY <1>1, <1>5 DEF SleepLastDigit, StoreDigit
  <2>3. Mode' = "asleep" /\ Left' = (100 * x' + 10 * y' + z') + 1
    BY <1>1, <2>1, <2>2 DEF Mode, Left
  <2>4. 100 * x' + 10 * y' + z' \in 0 .. 999
    <3>1. PICK a \in 0 .. 9, b \in 0 .. 9, c \in 0 .. 9 :
                 x' = a /\ y' = b /\ z' = c
      BY <2>2
    <3> QED BY <3>1, ThreeDigits
  <2>5. Plan!Sleep(100 * x' + 10 * y' + z')
    BY <1>2, <2>1, <2>3 DEF Plan!Sleep, Plan!To
  <2> QED BY <2>4, <2>5 DEF Plan!Next
<1>6. ch # "w" => sleep_input(ch)
  BY DEF Receive
<1>7. sleep_input(ch) =>
        \/ power' = power /\ sleeping' = sleeping
        \/ SleepLastDigit(ch) /\ Val[ch] \in 0 .. 9
  BY DEF sleep_input, SleepLetter, SleepDigit, SleepLastDigit
<1> QED BY <1>3, <1>4, <1>5, <1>6, <1>7

\* A turn takes one off what is left, and changes the mode when nothing is.
LEMMA TickPlan ==
  ASSUME Bench = FALSE, HInv, Tick
  PROVE  Plan!Turn
<1> USE TimerAssumption DEF Mode, Left
<1>1. /\ TypeOK /\ FiringCounts /\ PowerMatches /\ DigitsKept
      /\ power = (Mode = "on")
  BY DEF HInv, BInv, TypeOK, PowerMatches
<1>2. CASE WatchdogFiring
  <2>1. /\ wd_timeout = 0 /\ wd_fire \in 1 .. WD_FIRE
        /\ wd_fire' = wd_fire - 1 /\ Decf(wd_fire) = wd_fire - 1
    BY <1>1, <1>2 DEF FiringCounts, WatchdogFiring, FireLeft, Decf
  <2>2. CASE wd_fire = 1
    <3>1. /\ power' = TRUE /\ wd_timeout' = WD_TIMEOUT /\ sleeping' = FALSE
      BY <1>1, <1>2, <2>1, <2>2 DEF WatchdogFiring, FireLeft, TypeOK, DigitsKept
    <3>2. Mode = "cut" /\ Left = 1 /\ Mode' = "on" /\ Left' = WD_TIMEOUT
      BY <2>1, <2>2, <3>1
    <3> HIDE DEF Mode, Left
    <3> QED BY <3>1, <3>2 DEF Plan!Turn, Plan!To
  <2>3. CASE wd_fire # 1
    <3>1. /\ power' = FALSE /\ wd_timeout' = 0
      BY <1>1, <1>2, <2>1, <2>3 DEF WatchdogFiring, FireLeft, TypeOK, PowerMatches
    <3>2. Mode = "cut" /\ Left > 1 /\ Mode' = "cut" /\ Left' = Left - 1
      BY <2>1, <2>3, <3>1
    <3> HIDE DEF Mode, Left
    <3> QED BY <3>1, <3>2 DEF Plan!Turn, Plan!To
  <2> QED BY <2>2, <2>3
<1>3. CASE Snooze
  <2>1. /\ wd_timeout # 0 /\ sleeping /\ power = FALSE
        /\ wd_timeout' = wd_timeout /\ sleeping' = TRUE /\ power' = FALSE
        /\ x \in 0 .. 9 /\ y \in 0 .. 9 /\ z \in 0 .. 9
    BY <1>1, <1>3 DEF TypeOK, Snooze, PowerMatches, DigitsKept
  <2>2. /\ 100 * x + 10 * y + z > 0
        /\ 100 * x' + 10 * y' + z' = 100 * x + 10 * y + z - 1
    BY <1>3, <2>1 DEF Snooze
  <2>3. Left > 1 /\ Left' = Left - 1 /\ Mode = "asleep" /\ Mode' = "asleep"
    BY <2>1, <2>2
  <2> QED BY <2>1, <2>3 DEF Plan!Turn, Plan!To
<1>4. CASE SleepFinished
  <2>1. /\ Mode = "asleep" /\ Left = 1
        /\ power' = TRUE /\ Mode' = "on" /\ Left' = WD_TIMEOUT
    BY <1>4 DEF SleepFinished
  <2> QED BY <2>1 DEF Plan!Turn, Plan!To
<1>5. CASE WatchdogFires
  <2>1. /\ Mode = "on" /\ Left = 1
        /\ power' = FALSE /\ Mode' = "cut" /\ Left' = WD_FIRE
    BY <1>5 DEF WatchdogFires
  <2> QED BY <2>1 DEF Plan!Turn, Plan!To
<1>6. CASE CountDown
  <2>1. /\ wd_timeout > 1 /\ wd_timeout \in Nat /\ sleeping = FALSE
        /\ wd_timeout' = wd_timeout - 1 /\ sleeping' = FALSE /\ power' = power
    BY <1>1, <1>6 DEF TypeOK, CountDown
  <2>2. /\ Mode = "on" /\ Left = wd_timeout
        /\ Mode' = "on" /\ Left' = wd_timeout - 1
    BY <2>1
  <2>3. power = TRUE
    BY <1>1, <2>2
  <2> HIDE DEF Mode, Left
  <2> QED BY <2>1, <2>2, <2>3 DEF Plan!Turn, Plan!To
<1> QED BY <1>2, <1>3, <1>4, <1>5, <1>6 DEF Tick

\* wispcar.asm implements PowerPlan.
THEOREM Implementation ==
  ASSUME HostOnSwitch = TRUE, Bench = FALSE
  PROVE  Spec => ImplementsPowerPlan
<1>1. Init => Plan!Init
  BY TimerAssumption DEF Init, Plan!Init, Mode, Left
<1>2. HInv /\ [Next]_vars => [Plan!Next]_(Plan!vars)
  <2> SUFFICES ASSUME HInv, [Next]_vars PROVE Plan!Next \/ UNCHANGED Plan!vars
    BY DEF Plan!vars
  <2>1. CASE NoiseSpike \/ UNCHANGED vars
    BY <2>1 DEF NoiseSpike, vars, parser, digits, Plan!vars, Mode, Left
  <2> QED BY <2>1, ReceivePlan, TickPlan DEF Next, Plan!Next
<1> QED BY HInvariance, <1>1, <1>2, PTL DEF Spec, ImplementsPowerPlan, Plan!Spec

-----------------------------------------------------------------------------
(* wispcarb.asm *)

\* The register of a firing keeps the value it was loaded with, and that is not
\* the 1 at which the firing would end.
FullFire == wd_timeout = 0 => wd_fire = WD_FIRE /\ power = FALSE

LEMMA NextFullFire ==
  ASSUME Bench = TRUE, BInv, FullFire, [Next]_vars
  PROVE  FullFire'
<1> USE TimerAssumption DEF FullFire
<1>1. CASE \E ch \in Char : Receive(ch)
  BY <1>1
  DEF Receive, HandleW, PowerAfterW, sleep_input, SleepLetter, SleepDigit, SleepLastDigit
<1>2. CASE NoiseSpike \/ UNCHANGED vars
  BY <1>2 DEF NoiseSpike, vars
<1>3. CASE WatchdogFiring
  BY <1>3 DEF WatchdogFiring, FireLeft
<1>4. CASE Snooze \/ SleepFinished
  BY <1>4 DEF Snooze, SleepFinished
<1>5. CASE WatchdogFires
  BY <1>5 DEF WatchdogFires
<1>6. CASE CountDown
  BY <1>6 DEF CountDown, BInv, TypeOK
<1> QED BY <1>1, <1>2, <1>3, <1>4, <1>5, <1>6 DEF Next, Tick

LEMMA CutStep ==
  ASSUME Bench = TRUE, BInv, FullFire, [Next]_vars
  PROVE  wd_timeout = 0 /\ power' # power => SERBUFI' = "w"
<1> SUFFICES ASSUME wd_timeout = 0 PROVE power' = power \/ SERBUFI' = "w"
  OBVIOUS
<1> USE TimerAssumption DEF FullFire
<1>1. ASSUME NEW ch \in Char, Receive(ch)
      PROVE  power' = power \/ SERBUFI' = "w"
  BY <1>1
  DEF Receive, sleep_input, SleepLetter, SleepDigit, SleepLastDigit
<1>2. CASE WatchdogFiring
  BY <1>2 DEF WatchdogFiring, FireLeft, Decf
<1>3. CASE NoiseSpike \/ UNCHANGED vars
  BY <1>3 DEF NoiseSpike, vars
<1>4. ~Snooze /\ ~SleepFinished /\ ~WatchdogFires /\ ~CountDown
  BY DEF Snooze, SleepFinished, WatchdogFires, CountDown
<1> QED BY <1>1, <1>2, <1>3, <1>4 DEF Next, Tick

\* In wispcarb.asm only the host's 'w' ends a cut of the power.
THEOREM CutHolds == ASSUME Bench = TRUE PROVE Spec => CutUntilHost
<1>1. Init => FullFire
  BY TimerAssumption DEF Init, FullFire
<1>2. BInv /\ FullFire /\ [Next]_vars => FullFire'
  BY NextFullFire
<1>3. BInv /\ FullFire /\ [Next]_vars
      => [wd_timeout = 0 /\ power' # power => SERBUFI' = "w"]_vars
  BY CutStep
<1> QED BY InitBInv, NextBInv, <1>1, <1>2, <1>3, PTL DEF Spec, CutUntilHost

=============================================================================
