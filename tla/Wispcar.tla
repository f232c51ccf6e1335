------------------------------- MODULE Wispcar -------------------------------
(***************************************************************************)
(* The WiSPCaR power controller, src/attic/wispcar/wispcar.asm and its     *)
(* battery-test variant wispcarb.asm.  A PIC switches the power of a host, *)
(* which talks to it over a serial line: 'w' keeps a watchdog from cutting *)
(* the power, 'sleepxyz' cuts it for xyz seconds, '.' asks for a report.   *)
(*                                                                         *)
(* The firmware is one loop.  Each turn waits about a second, during which *)
(* any number of characters are received and handled (Receive), and ends   *)
(* in one pass over the counters, a Tick: the watchdog firing, the sleep   *)
(* count, or the watchdog count and the timeout of the command parser.     *)
(***************************************************************************)
EXTENDS Integers, Sequences

CONSTANTS
  WD_TIMEOUT,     \* seconds without 'w' until the watchdog fires
  WD_FIRE,        \* seconds the power is cut then
  SLEEP_TIMEOUT,  \* seconds allowed between two characters of a command
  Byte,           \* size of a register: 256
  Char,           \* characters the line can carry
  Val,            \* Val[ch] is the code of ch less that of '0'
  Bench,          \* TRUE: wispcarb.asm, which waits for the host to come back
  HostOnSwitch    \* the host is powered through the switch: silent when off

ASSUME TimerAssumption ==
  /\ Byte \in Nat
  /\ WD_TIMEOUT \in 1 .. (Byte - 1)
  /\ WD_FIRE \in 2 .. (Byte - 1)
  /\ SLEEP_TIMEOUT \in 1 .. (Byte - 1)
  /\ Bench \in BOOLEAN /\ HostOnSwitch \in BOOLEAN

ASSUME CharAssumption ==
  /\ "w" \in Char
  /\ Val \in [Char -> -48 .. Byte - 1]
  /\ 9 < Byte

VARIABLES
  power,          \* the PowerSwitch pin, GPIO 1
  wd_timeout,     \* seconds until the watchdog fires; 0 while it is firing
  wd_fire,        \* seconds of the firing that are left
  sleeping,       \* a sleep command is being executed
  sleep_state,    \* how many characters of 'sleepxyz' have been accepted
  sleep_timeout,  \* seconds until the parser gives up on a partial command
  x, y, z,        \* decimal digits of the seconds left to sleep
  restart_flag,   \* why the host was last restarted
  SERBUFI,        \* last character received in this turn, or none
  line            \* the last report sent: the character and restart_flag

parser == <<sleep_state, sleep_timeout>>
digits == <<x, y, z>>
vars == <<power, wd_timeout, wd_fire, sleeping, parser, digits, restart_flag,
          SERBUFI, line>>

NoChar == "none"

\* decf: an 8-bit register wraps.
Decf(n) == IF n = 0 THEN Byte - 1 ELSE n - 1

Init ==
  /\ power = TRUE
  /\ wd_timeout = WD_TIMEOUT /\ wd_fire = 0
  /\ sleep_state = 0 /\ sleeping = FALSE /\ sleep_timeout = 0
  /\ x = 0 /\ y = 0 /\ z = 0
  /\ restart_flag = "b"
  /\ SERBUFI = NoChar
  /\ line = [rx |-> NoChar, flag |-> "b"]

-----------------------------------------------------------------------------
(* Characters: inch_n_delay and sleep_input.                               *)

SleepReset == sleep_state' = 0 /\ sleep_timeout' = 0
SleepCont == sleep_state' = sleep_state + 1 /\ sleep_timeout' = SLEEP_TIMEOUT

\* Only wispcarb.asm touches the switch when a 'w' comes.
PowerAfterW == Bench \/ power

\* Mutant of HandleW: the letters of a partial command stay accepted.
HandleWTimeoutOnly ==
  /\ wd_timeout' = WD_TIMEOUT
  /\ restart_flag' = "-"
  /\ sleep_timeout' = 0
  /\ power' = PowerAfterW
  /\ UNCHANGED <<wd_fire, sleeping, sleep_state, digits>>

\* Mutant of HandleW: the flag stays until it has been reported.
HandleWKeepsFlag ==
  /\ wd_timeout' = WD_TIMEOUT
  /\ SleepReset
  /\ power' = PowerAfterW
  /\ UNCHANGED <<wd_fire, sleeping, digits, restart_flag>>

\* A 'w' resets the watchdog, the restart flag and the command parser.
HandleW ==
  /\ wd_timeout' = WD_TIMEOUT
  /\ restart_flag' = "-"
  /\ SleepReset
  /\ power' = PowerAfterW
  /\ UNCHANGED <<wd_fire, sleeping, digits>>

\* States 0 to 4 wait for the letters of "sleep".
SleepLetter(ch) ==
  /\ sleep_state < 5
  /\ IF ch = <<"s", "l", "e", "e", "p">>[sleep_state + 1]
     THEN SleepCont ELSE SleepReset
  /\ UNCHANGED <<power, sleeping, digits>>

\* States 5 to 7 store a digit before they know that it is one: anything that
\* is not below '0' lands in x, y or z.
StoreDigit(ch) ==
  LET store(k, d) == IF sleep_state = k /\ Val[ch] >= 0 THEN Val[ch] ELSE d
  IN x' = store(5, x) /\ y' = store(6, y) /\ z' = store(7, z)

SleepDigit(ch) ==
  /\ sleep_state \in {5, 6}
  /\ StoreDigit(ch)
  /\ IF Val[ch] \in 0 .. 9 THEN SleepCont ELSE SleepReset
  /\ UNCHANGED <<power, sleeping>>

\* With the last digit the power goes off.
SleepLastDigit(ch) ==
  /\ sleep_state = 7
  /\ StoreDigit(ch)
  /\ SleepReset
  /\ IF Val[ch] \in 0 .. 9
     THEN sleeping' = TRUE /\ power' = FALSE
     ELSE UNCHANGED <<sleeping, power>>

\* Mutant of sleep_input: any character keeps the watchdog quiet.
SleepInputFeeds(ch) ==
  /\ SleepLetter(ch) \/ SleepDigit(ch) \/ SleepLastDigit(ch)
  /\ wd_timeout' = WD_TIMEOUT
  /\ UNCHANGED <<wd_fire, restart_flag>>

sleep_input(ch) ==
  /\ SleepLetter(ch) \/ SleepDigit(ch) \/ SleepLastDigit(ch)
  /\ UNCHANGED <<wd_timeout, wd_fire, restart_flag>>

Receive(ch) ==
  /\ HostOnSwitch => power
  /\ SERBUFI' = ch
  /\ IF ch = "w" THEN HandleW ELSE sleep_input(ch)
  /\ UNCHANGED line

\* A spike on the line looks like a start bit: the buffer is cleared, and the
\* character that was waiting in it for its report is forgotten.
NoiseSpike ==
  /\ SERBUFI' = NoChar
  /\ UNCHANGED <<power, wd_timeout, wd_fire, sleeping, parser, digits,
                 restart_flag, line>>

-----------------------------------------------------------------------------
(* The end of a turn.  One line is sent if the last character of the turn  *)
(* was 'w' or '.', and the next turn starts with no character.             *)

Report ==
  /\ line' = IF SERBUFI \in {"w", "."}
             THEN [rx |-> SERBUFI, flag |-> restart_flag] ELSE line
  /\ SERBUFI' = NoChar

\* wispcarb.asm computes the difference and throws it away, so the count stays.
FireLeft == IF Bench THEN wd_fire ELSE Decf(wd_fire)

\* Mutant of WatchdogFiring: the other variant's destination bit, so that
\* wispcar.asm never stops firing and wispcarb.asm does.
WatchdogFiringOther ==
  /\ wd_timeout = 0
  /\ Report
  /\ wd_fire' = IF Bench THEN Decf(wd_fire) ELSE wd_fire
  /\ IF Decf(wd_fire) = 0
     THEN power' = TRUE /\ wd_timeout' = WD_TIMEOUT /\ restart_flag' = "w"
     ELSE UNCHANGED <<power, wd_timeout, restart_flag>>
  /\ UNCHANGED <<sleeping, parser, digits>>

\* The watchdog is firing: power is off until wd_fire has run out.
WatchdogFiring ==
  /\ wd_timeout = 0
  /\ Report
  /\ wd_fire' = FireLeft
  /\ IF Decf(wd_fire) = 0
     THEN power' = TRUE /\ wd_timeout' = WD_TIMEOUT /\ restart_flag' = "w"
     ELSE UNCHANGED <<power, wd_timeout, restart_flag>>
  /\ UNCHANGED <<sleeping, parser, digits>>

\* Mutant of Snooze: a borrow from x sets only y to 9.
SnoozeOneBorrow ==
  /\ wd_timeout # 0 /\ sleeping /\ <<x, y, z>> # <<0, 0, 0>>
  /\ Report
  /\ z' = IF z # 0 THEN z - 1 ELSE IF y # 0 THEN 9 ELSE 0
  /\ y' = IF z # 0 THEN y ELSE IF y # 0 THEN y - 1 ELSE 9
  /\ x' = IF z # 0 \/ y # 0 THEN x ELSE x - 1
  /\ UNCHANGED <<power, wd_timeout, wd_fire, sleeping, parser, restart_flag>>

\* Asleep: count xyz down in decimal.
Snooze ==
  /\ wd_timeout # 0 /\ sleeping /\ <<x, y, z>> # <<0, 0, 0>>
  /\ Report
  /\ z' = IF z # 0 THEN z - 1 ELSE 9
  /\ y' = IF z # 0 THEN y ELSE IF y # 0 THEN y - 1 ELSE 9
  /\ x' = IF z # 0 \/ y # 0 THEN x ELSE x - 1
  /\ UNCHANGED <<power, wd_timeout, wd_fire, sleeping, parser, restart_flag>>

\* Mutant of SleepFinished: the switch is forgotten.
SleepFinishedDark ==
  /\ wd_timeout # 0 /\ sleeping /\ <<x, y, z>> = <<0, 0, 0>>
  /\ Report
  /\ wd_timeout' = WD_TIMEOUT /\ wd_fire' = 0
  /\ sleep_timeout' = 0
  /\ sleeping' = FALSE
  /\ restart_flag' = "s"
  /\ UNCHANGED <<power, sleep_state, digits>>

SleepFinished ==
  /\ wd_timeout # 0 /\ sleeping /\ <<x, y, z>> = <<0, 0, 0>>
  /\ Report
  /\ power' = TRUE
  /\ wd_timeout' = WD_TIMEOUT /\ wd_fire' = 0
  /\ sleep_timeout' = 0
  /\ sleeping' = FALSE
  /\ restart_flag' = "s"
  /\ UNCHANGED <<sleep_state, digits>>

\* Mutant of WatchdogFires: the duration of the firing is not loaded.
WatchdogFiresUnloaded ==
  /\ wd_timeout = 1 /\ ~sleeping
  /\ Report
  /\ wd_timeout' = 0
  /\ power' = FALSE
  /\ UNCHANGED <<wd_fire, sleeping, parser, digits, restart_flag>>

\* Awake: the watchdog counts down, and fires, or ...
WatchdogFires ==
  /\ wd_timeout = 1 /\ ~sleeping
  /\ Report
  /\ wd_timeout' = 0
  /\ power' = FALSE /\ wd_fire' = WD_FIRE
  /\ UNCHANGED <<sleeping, parser, digits, restart_flag>>

\* ... a partial command gets older.
CountDown ==
  /\ wd_timeout > 1 /\ ~sleeping
  /\ Report
  /\ wd_timeout' = wd_timeout - 1
  /\ IF sleep_state = 0 THEN UNCHANGED parser
     ELSE /\ sleep_timeout' = Decf(sleep_timeout)
          /\ sleep_state' = IF Decf(sleep_timeout) = 0 THEN 0 ELSE sleep_state
  /\ UNCHANGED <<power, wd_fire, sleeping, digits, restart_flag>>

Tick == WatchdogFiring \/ Snooze \/ SleepFinished \/ WatchdogFires \/ CountDown

Next == (\E ch \in Char : Receive(ch)) \/ NoiseSpike \/ Tick

Spec == Init /\ [][Next]_vars

\* Turns end: a character does not restart the delay of inch_n_delay, which
\* counts on whenever the line is idle, be it for half a stop bit.
FairSpec == Spec /\ WF_vars(Tick)

-----------------------------------------------------------------------------
(* Correctness. *)

TypeOK ==
  /\ power \in BOOLEAN /\ sleeping \in BOOLEAN
  /\ wd_timeout \in 0 .. WD_TIMEOUT
  /\ wd_fire \in 0 .. (Byte - 1)
  /\ sleep_state \in 0 .. 7
  /\ sleep_timeout \in 0 .. (Byte - 1)
  /\ x \in 0 .. (Byte - 1) /\ y \in 0 .. (Byte - 1) /\ z \in 0 .. (Byte - 1)
  /\ restart_flag \in {"b", "w", "s", "-"}
  /\ SERBUFI \in Char \cup {NoChar}
  /\ line \in [rx : {NoChar, "w", "."}, flag : {"b", "w", "s", "-"}]

\* While the watchdog fires there is time left on wd_fire.  Were it ever 0,
\* the register would wrap and the power stay off for 255 seconds: every way
\* into a firing has to load it, whatever a 'w' or a sleep left there.
FiringCounts == wd_timeout = 0 => wd_fire \in 1 .. WD_FIRE

\* The switch agrees with the two flags the loop decides by: power is off
\* exactly while the watchdog fires or a sleep command is executed.
PowerMatches == power <=> wd_timeout # 0 /\ ~sleeping

\* A partial command always has time running against it, at most the 5
\* seconds of wispcar.asm:104-109: a count of 0 would wrap to 256 seconds.
ParserTimed ==
  /\ sleep_state # 0 => sleep_timeout # 0
  /\ sleep_timeout <= SLEEP_TIMEOUT

\* The power always comes back by itself.
ComesBack == ~power ~> power

\* wispcar.asm:94-97: only a 'w' prevents the watchdog from cutting power, and a
\* '.' does not.  So a host from which no 'w' arrives any more has its power cut,
\* again and again, whatever else it sends, commands and rubbish included.
WatchdogWorks == []<><<Receive("w")>>_vars \/ []<>~power

\* wispcarb.asm:4-7: once the watchdog has cut the power only a 'w' of the host
\* brings it back, whatever was pending when it did.
CutUntilHost == [][wd_timeout = 0 /\ power' # power => SERBUFI' = "w"]_vars

\* "This field lets the host know just _why_ it was rebooted" (wispcar.asm:111-112):
\* when power comes back the flag says for which of the two reasons, and goes on
\* saying it until a 'w' or the next restart.  But no answer to a 'w' ever tells:
\* the 'w' has cleared the flag (419) by the time its own line is sent (859-864).
ReasonTold ==
  /\ [](line.rx = "w" => line.flag = "-")
  /\ [][LET reason == IF wd_timeout = 0 THEN "w" ELSE "s" IN
        /\ ~power /\ power' => SERBUFI' = "w" \/ restart_flag' = reason
        /\ restart_flag' # restart_flag =>
             \/ SERBUFI' = "w" /\ restart_flag' = "-"
             \/ power' /\ restart_flag' = reason]_vars

\* The firmware implements PowerPlan: the switch is off for exactly WD_FIRE
\* turns when WD_TIMEOUT turns have passed without a 'w', for xyz + 1 turns
\* after a sleep command, and for no other reason.
Mode == IF wd_timeout = 0 THEN "cut" ELSE IF sleeping THEN "asleep" ELSE "on"
Left == IF wd_timeout = 0 THEN wd_fire
        ELSE IF sleeping THEN 100 * x + 10 * y + z + 1
        ELSE wd_timeout

Plan == INSTANCE PowerPlan WITH mode <- Mode, left <- Left

ImplementsPowerPlan == Plan!Spec
=============================================================================
