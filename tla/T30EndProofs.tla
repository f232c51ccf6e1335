---------------------------- MODULE T30EndProofs ----------------------------
(***************************************************************************)
(* Proofs for T30: a call cannot go in circles and cannot stop short of    *)
(* its end, but in Stranded.                                               *)
(*                                                                         *)
(* To the invariant of T30Proofs this adds RInv: what the modems and the   *)
(* timers of a party do in each of its states (CallerRow, AnswererRow),    *)
(* and that an answerer that has heard a page does not meet a training     *)
(* (Pair).  For every operator that a handler is made of there is a lemma  *)
(* of how its party gets on with the call (CallerSteps, AnswererSteps, and *)
(* CallerWent, AnswererWent for what it hears); both ends together make    *)
(* the rank of T30 fall (StepsFall), and ranks cannot fall forever.        *)
(***************************************************************************)
EXTENDS T30Proofs, WellFoundedInduction

USE T30Assumption

Silent(s) == s.phase \in RxPhase /\ s.sending = None

\* The timer that runs is the one that is_t4 remembers.
Known(s) == (s.timer = "T2" => ~s.is_t4) /\ (s.timer = "T4" => s.is_t4)

CallerRow(c) ==
  /\ Known(c)
  /\ c.phase \in RxPhase /\ c.state # "T" => c.is_t4
  /\ c.state = "T" => c.sending = None /\ c.t0_t1 # "off"
  /\ c.state = "D" => c.sending = "DCS" /\ (c.phase \in RxPhase \/ c.phase = "B_TX")
  /\ c.state = "D_TCF" => c.phase = "C_TX" /\ c.sending = "TCF"
  /\ c.state = "D_POST_TCF" => Silent(c)
  /\ c.state = "I" => c.phase = "C_TX" /\ c.sending = "PAGE"
  /\ c.state = "II_Q" => \/ Silent(c) /\ c.timer = "T4"
                         \/ c.phase = "D_TX" /\ c.sending \in {"MPS", "EOP"}
  /\ c.state = "C" => c.phase = "D_TX" /\ c.sending # None
  /\ c.state = "B" => c.phase = "E"
  /\ c.state = "FINISHED" => c.phase = "FINISHED"

Waiting(a) == a.phase = "B_RX" /\ a.sending = None

AnswererRow(a) ==
  /\ Known(a)
  /\ a.state = "ANSWERING" => a.phase \notin TxPhase
  /\ a.state = "R" => (Waiting(a) /\ a.timer = "T4") \/ (a.phase = "B_TX" /\ a.sending = "DIS")
  /\ a.state = "F_FTT" => (Waiting(a) /\ a.timer = "T4") \/ (a.phase = "B_TX" /\ a.sending = "FTT")
  /\ a.state = "F_CFR" => a.phase = "B_TX" /\ a.sending = "CFR"
  /\ a.state \in {"F_TCF", "F_DOC"} => a.phase = "C_RX"
  /\ a.state = "F_POST_DOC" => a.phase = "D_RX" /\ ~a.is_t4
  /\ a.state = "III_Q_MCF" => a.phase = "D_TX" /\ a.sending = "MCF"
  /\ a.state = "III_Q_RTP" => a.phase = "D_TX" /\ a.sending = "RTP"
  /\ a.state = "III_Q_RTN" => a.phase = "D_TX" /\ a.sending = "RTN"
  /\ a.state = "C" => a.phase = "D_TX" /\ a.sending \in {"DIS", "DCN"}
  /\ a.state = "B" => a.phase = "E"
  /\ a.state = "FINISHED" => a.phase = "FINISHED"

-----------------------------------------------------------------------------
(* The timers in the pieces of the handlers. *)

\* A step leaves T2 and T4, and the fate of a signal, as they are; T0 may
\* become T1.
Timers(n, s) ==
  /\ n.timer = s.timer /\ n.is_t4 = s.is_t4 /\ n.fate = s.fate
  /\ n.t0_t1 = s.t0_t1 \/ (s.t0_t1 = "T0" /\ n.t0_t1 = "T1")

LEMMA SetPhaseTimers ==
  ASSUME NEW s \in t30_state_t, NEW phase, phase # "C_RX"
  PROVE  Timers(SetPhase(s, phase), s)
  BY DEF t30_state_t, SetPhase, Timers

LEMMA TransmitTimers ==
  ASSUME NEW s \in t30_state_t, NEW phase, phase # "C_RX", NEW state, NEW signal
  PROVE  Timers(Transmit(s, phase, state, signal), s)
  BY DEF t30_state_t, Transmit, SendFrame, SetState, SetPhase, Timers

\* A party that gives the call up says so with a DCN, or with a frame that
\* waits to be sent.
GivesUp(n, s) ==
  /\ n.state = "C" /\ n.phase = "D_TX"
  /\ n.sending = (IF s.sending = None THEN "DCN" ELSE s.sending)
  /\ SameRest(n, s) /\ Timers(n, s)

LEMMA DcnGivesUp ==
  ASSUME NEW s \in t30_state_t
  PROVE  GivesUp(SendDcn(s), s)
<1>1. "DCN" # None /\ "D_TX" # "C_RX"
  BY DEF None
<1> QED BY <1>1, SendDcnDoes, TransmitTimers DEF GivesUp, SendDcn

LEMMA FailureGivesUp ==
  ASSUME NEW s \in t30_state_t, NEW status \in Status
  PROVE  GivesUp(SendDcn(Fails(s, status)), s)
<1> DEFINE m == Fails(s, status)
<1>1. m \in t30_state_t /\ m.sending = s.sending /\ SameRest(m, s)
  BY FailsDoes
<1>2. Timers(m, s)
  BY DEF t30_state_t, Fails, Timers
<1> HIDE DEF m
<1>3. GivesUp(SendDcn(m), m)
  BY <1>1, DcnGivesUp
<1> QED BY <1>1, <1>2, <1>3 DEF GivesUp, SameRest, Timers, m

LEMMA UnexpectedGivesUp ==
  ASSUME NEW s \in t30_state_t
  PROVE  GivesUp(Unexpected(s), s)
  BY FailureGivesUp DEF Unexpected, Status

-----------------------------------------------------------------------------
(* Where the caller goes. *)

\* Both timers of a party that has accepted a frame are off.
Idle(s) == s \in t30_state_t /\ s.timer = "off" /\ s.t0_t1 = "off"

Trains(n) == n.state = "D" /\ n.phase = "B_TX" /\ n.sending = "DCS"

\* What the caller does about a frame.
CallerTurns(n, c, frame) ==
  /\ n.timer = "off" /\ n.t0_t1 = "off"
  /\ \/ n.state = "C" /\ n.phase = "D_TX" /\ n.sending # None /\ n.page = c.page
     \/ n.state = "B" /\ n.phase = "E" /\ n.page = c.page
     \/ c.state = "T" /\ Trains(n) /\ n.page = 1
     \/ c.state = "D_POST_TCF" /\ Trains(n) /\ n.page = c.page /\ n.retries = c.retries + 1
     \/ /\ c.state = "D_POST_TCF" /\ n.state = "D" /\ n.phase = c.phase /\ n.sending = "DCS"
        /\ n.page = c.page /\ n.is_t4 = c.is_t4
     \/ /\ c.state = "D_POST_TCF" /\ n.state = "I" /\ n.phase = "C_TX" /\ n.sending = "PAGE"
        /\ n.page = c.page
     \/ /\ c.state = "II_Q" /\ n.state = "I" /\ n.phase = "C_TX" /\ n.sending = "PAGE"
        /\ n.page = c.page + 1
     \/ c.state = "II_Q" /\ frame \in {"RTP", "RTN"} /\ Trains(n) /\ n.page = c.page

LEMMA GivingUpTurns ==
  ASSUME NEW c, Idle(c), NEW n, NEW k, k.page = c.page, k.timer = "off", k.t0_t1 = "off",
         GivesUp(n, k), NEW frame
  PROVE  CallerTurns(n, c, frame)
  BY DEF CallerTurns, GivesUp, Timers, SameRest, None

LEMMA TrainingStarts ==
  ASSUME NEW k, Idle(k), k.sending = None
  PROVE  LET n == SendDcs(k)
         IN  Trains(n) /\ SameRest(n, k) /\ Timers(n, k)
<1>1. "B_TX" \in Phase /\ "D" \in State /\ "DCS" \in Frame \cup Fast /\ "B_TX" # "C_RX"
  BY DEF Phase, TxPhase, State, Frame
<1> QED BY <1>1, TransmitDoes, TransmitTimers DEF SendDcs, Idle, Trains

LEMMA DisTurns ==
  ASSUME NEW c, Open(c), Idle(c)
  PROVE  CallerTurns(process_rx_dis(c), c, "DIS")
<1> DEFINE m == [c EXCEPT !.fallback = 0]
<1>1. c \in t30_state_t /\ c.state # "D" => c.sending = None
  BY OpenSends
<1>2. c.retries <= MAX_MESSAGE_TRIES /\ c.retries \in Nat
  BY OpenSends DEF t30_state_t
<1>3. 0 \in 0 .. Rates - 1
  OBVIOUS
<1>4. /\ Idle(m) /\ m.sending = c.sending /\ m.retries = c.retries /\ m.page = c.page
  BY <1>3 DEF Idle, t30_state_t
<1>5. CASE c.state = "D_POST_TCF"
  <2> DEFINE k == [m EXCEPT !.retries = @ + 1]
  <2>1. m.retries + 1 \in 0 .. MAX_MESSAGE_TRIES + 1
    BY <1>2, <1>4
  <2>2. Idle(k) /\ k.sending = None /\ k.retries = c.retries + 1 /\ k.page = c.page
    BY <1>1, <1>4, <1>5, <2>1 DEF Idle, t30_state_t
  <2>3. process_rx_dis(c) \in {SendDcn(Fails(k, "RETRYDCN")), SendDcs(k)}
    BY <1>5 DEF process_rx_dis, Retry
  <2> HIDE DEF k
  <2>4. CallerTurns(SendDcn(Fails(k, "RETRYDCN")), c, "DIS")
    BY <2>2, FailureGivesUp, GivingUpTurns DEF Idle, Status
  <2>5. CallerTurns(SendDcs(k), c, "DIS")
    BY <1>5, <2>2, TrainingStarts DEF CallerTurns, Idle, SameRest, Timers
  <2> QED BY <2>3, <2>4, <2>5
<1>6. CASE c.state = "T"
  <2> DEFINE k == [m EXCEPT !.page = 1, !.retries = 0]
  <2>1. 1 \in 0 .. Pages /\ 0 \in 0 .. MAX_MESSAGE_TRIES + 1
    OBVIOUS
  <2>2. Idle(k) /\ k.sending = None /\ k.page = 1
    BY <1>1, <1>4, <1>6, <2>1 DEF Idle, t30_state_t
  <2>3. process_rx_dis(c) = SendDcs(k)
    BY <1>6 DEF process_rx_dis, start_sending_document
  <2> HIDE DEF k
  <2> QED BY <1>6, <2>2, <2>3, TrainingStarts DEF CallerTurns, Idle, SameRest, Timers
<1>7. CASE c.state \notin {"D_POST_TCF", "T"}
  <2>1. process_rx_dis(c) = Unexpected(m)
    BY <1>7 DEF process_rx_dis
  <2> HIDE DEF m
  <2> QED BY <1>4, <2>1, UnexpectedGivesUp, GivingUpTurns DEF Idle
<1> QED BY <1>5, <1>6, <1>7

LEMMA CfrTurns ==
  ASSUME NEW c, Open(c), Idle(c)
  PROVE  CallerTurns(process_rx_cfr(c), c, "CFR")
<1>1. c.state # "D" => c.sending = None
  BY OpenSends
<1>2. CASE c.state = "D_POST_TCF"
  <2> DEFINE k == [c EXCEPT !.retries = 0]
             n == Transmit(k, "C_TX", "I", "PAGE")
  <2>1. 0 \in 0 .. MAX_MESSAGE_TRIES + 1
    OBVIOUS
  <2>2. Idle(k) /\ k.sending = None /\ k.page = c.page
    BY <1>1, <1>2, <2>1 DEF Idle, t30_state_t
  <2>3. process_rx_cfr(c) = n
    BY <1>2 DEF process_rx_cfr
  <2> HIDE DEF k
  <2>4. "C_TX" \in Phase /\ "I" \in State /\ "PAGE" \in Frame \cup Fast /\ "C_TX" # "C_RX"
    BY DEF Phase, TxPhase, State, Fast
  <2>5. /\ n.state = "I" /\ n.phase = "C_TX" /\ n.sending = "PAGE"
        /\ SameRest(n, k) /\ Timers(n, k)
    BY <2>2, <2>4, TransmitDoes, TransmitTimers DEF Idle
  <2> HIDE DEF n
  <2> QED BY <1>2, <2>2, <2>3, <2>5 DEF CallerTurns, Idle, SameRest, Timers
<1>3. CASE c.state # "D_POST_TCF"
  BY <1>3, UnexpectedGivesUp, GivingUpTurns DEF process_rx_cfr, Idle
<1> QED BY <1>2, <1>3

LEMMA FttTurns ==
  ASSUME NEW c, Open(c), Idle(c)
  PROVE  CallerTurns(process_rx_ftt(c), c, "FTT")
<1>1. c.state # "D" => c.sending = None
  BY OpenSends
<1>2. CASE c.state = "D_POST_TCF"
  <2> DEFINE m == [c EXCEPT !.retries = 0, !.fallback = @ + 1]
             k == [m EXCEPT !.fallback = 0]
             n == SendFrame(SetState(m, "D"), "DCS")
  <2>1. 0 \in 0 .. MAX_MESSAGE_TRIES + 1 /\ 0 \in 0 .. Rates - 1
    OBVIOUS
  <2>2. Idle(k) /\ k.page = c.page
    BY <2>1 DEF Idle, t30_state_t
  <2>3. CallerTurns(SendDcn(Fails(k, "CANNOTTRAIN")), c, "FTT")
    <3> HIDE DEF k
    <3> QED BY <2>2, FailureGivesUp, GivingUpTurns DEF Idle, Status
  <2>4. /\ n.state = "D" /\ n.phase = c.phase /\ n.sending = "DCS" /\ n.page = c.page
        /\ n.is_t4 = c.is_t4 /\ n.timer = "off" /\ n.t0_t1 = "off"
    BY <1>1, <1>2 DEF Idle, t30_state_t, SendFrame, SetState
  <2>5. process_rx_ftt(c) \in {SendDcn(Fails(k, "CANNOTTRAIN")), n}
    BY <1>2 DEF process_rx_ftt
  <2> HIDE DEF k, n
  <2> QED BY <1>2, <2>3, <2>4, <2>5 DEF CallerTurns
<1>3. CASE c.state # "D_POST_TCF"
  BY <1>3, UnexpectedGivesUp, GivingUpTurns DEF process_rx_ftt, Idle
<1> QED BY <1>2, <1>3

LEMMA McfTurns ==
  ASSUME NEW c, Open(c), Idle(c)
  PROVE  CallerTurns(process_rx_mcf(c), c, "MCF")
<1>1. c.state # "D" => c.sending = None
  BY OpenSends
<1> DEFINE m == [c EXCEPT !.retries = 0]
<1>2. 0 \in 0 .. MAX_MESSAGE_TRIES + 1
  OBVIOUS
<1>3. Idle(m) /\ m.sending = c.sending /\ m.page = c.page
  BY <1>2 DEF Idle, t30_state_t
<1>4. CASE c.state = "II_Q" /\ c.step = "MPS"
  <2> DEFINE k == [m EXCEPT !.page = @ + 1]
             n == Transmit(k, "C_TX", "I", "PAGE")
  <2>1. process_rx_mcf(c) = n
    BY <1>4 DEF process_rx_mcf
  <2>2. c.page + 1 \in 0 .. Pages
    BY <1>4 DEF Open, CallerOK, t30_state_t
  <2> HIDE DEF m
  <2>3. Idle(k) /\ k.sending = None /\ k.page = c.page + 1
    BY <1>1, <1>3, <1>4, <2>2 DEF Idle, t30_state_t
  <2> HIDE DEF k
  <2>4. "C_TX" \in Phase /\ "I" \in State /\ "PAGE" \in Frame \cup Fast /\ "C_TX" # "C_RX"
    BY DEF Phase, TxPhase, State, Fast
  <2>5. /\ n.state = "I" /\ n.phase = "C_TX" /\ n.sending = "PAGE"
        /\ SameRest(n, k) /\ Timers(n, k)
    BY <2>3, <2>4, TransmitDoes, TransmitTimers DEF Idle
  <2> HIDE DEF n
  <2> QED BY <1>4, <2>1, <2>3, <2>5 DEF CallerTurns, Idle, SameRest, Timers
<1>5. CASE c.state = "II_Q" /\ c.step = "EOP"
  <2> DEFINE k == [m EXCEPT !.success = TRUE]
  <2>1. process_rx_mcf(c) = SendDcn(k)
    BY <1>5 DEF process_rx_mcf
  <2> HIDE DEF m
  <2>2. Idle(k) /\ k.page = c.page
    BY <1>3 DEF Idle, t30_state_t
  <2> HIDE DEF k
  <2> QED BY <2>1, <2>2, DcnGivesUp, GivingUpTurns DEF Idle
<1>6. CASE ~(c.state = "II_Q" /\ c.step \in {"MPS", "EOP"})
  BY <1>6, UnexpectedGivesUp, GivingUpTurns DEF process_rx_mcf, Idle
<1> QED BY <1>4, <1>5, <1>6

LEMMA RetrainTurns ==
  ASSUME NEW c, Open(c), Idle(c), NEW frame \in {"RTP", "RTN"}
  PROVE  CallerTurns(process_rx_retrain(c), c, frame)
<1>1. c.state # "D" => c.sending = None
  BY OpenSends
<1> DEFINE k == [c EXCEPT !.retries = 0]
<1>2. 0 \in 0 .. MAX_MESSAGE_TRIES + 1
  OBVIOUS
<1>3. Idle(k) /\ k.sending = c.sending /\ k.page = c.page
  BY <1>2 DEF Idle, t30_state_t
<1>4. CASE c.state = "II_Q" /\ c.step = "MPS"
  <2>1. process_rx_retrain(c) = SendDcs(k)
    BY <1>4 DEF process_rx_retrain, restart_sending_document
  <2> HIDE DEF k
  <2> QED BY <1>1, <1>3, <1>4, <2>1, TrainingStarts DEF CallerTurns, Idle, SameRest, Timers
<1>5. CASE c.state = "II_Q" /\ c.step = "EOP"
  <2>1. process_rx_retrain(c) = SendDcn(k)
    BY <1>5 DEF process_rx_retrain
  <2> HIDE DEF k
  <2> QED BY <1>3, <2>1, DcnGivesUp, GivingUpTurns DEF Idle
<1>6. CASE ~(c.state = "II_Q" /\ c.step \in {"MPS", "EOP"})
  BY <1>6, UnexpectedGivesUp, GivingUpTurns DEF process_rx_retrain, Idle
<1> QED BY <1>4, <1>5, <1>6

LEMMA DcnTurns ==
  ASSUME NEW c, Open(c), Idle(c)
  PROVE  CallerTurns(process_rx_dcn(c), c, "DCN")
<1>1. PICK m \in t30_state_t : process_rx_dcn(c) = Disconnect(m) /\ SameRest(m, c)
  BY RxDcn DEF Idle
<1>2. /\ Disconnect(m).timer = "off" /\ Disconnect(m).t0_t1 = "off"
  BY DEF t30_state_t, Disconnect
<1> QED BY <1>1, <1>2, DisconnectDoes DEF CallerTurns, SameRest

LEMMA AcceptTurns ==
  ASSUME NEW c, Open(c), NEW frame \in {"DIS", "CFR", "FTT", "MCF", "RTP", "RTN", "DCN"}
  PROVE  CallerTurns(Accept(c, frame), c, frame)
<1> DEFINE m == [c EXCEPT !.timer = "off", !.t0_t1 = "off"]
<1>1. c \in t30_state_t
  BY OpenSends
<1>2. /\ m \in t30_state_t /\ m.phase = c.phase /\ m.state = c.state
      /\ m.sending = c.sending /\ SameRest(m, c)
  BY <1>1, TimersOff
<1>3. Idle(m) /\ m.is_t4 = c.is_t4
  BY <1>1, <1>2 DEF t30_state_t, Idle
<1>4. Open(m)
  BY <1>2 DEF Open, CallerOK, SameRest
<1>5. /\ frame = "DIS" => Accept(c, frame) = process_rx_dis(m)
      /\ frame = "CFR" => Accept(c, frame) = process_rx_cfr(m)
      /\ frame = "FTT" => Accept(c, frame) = process_rx_ftt(m)
      /\ frame = "MCF" => Accept(c, frame) = process_rx_mcf(m)
      /\ frame \in {"RTP", "RTN"} => Accept(c, frame) = process_rx_retrain(m)
      /\ frame = "DCN" => Accept(c, frame) = process_rx_dcn(m)
  BY DEF Accept
<1> HIDE DEF m
<1>6. \A n : CallerTurns(n, m, frame) => CallerTurns(n, c, frame)
  BY <1>2, <1>3 DEF CallerTurns, SameRest
<1> QED BY <1>3, <1>4, <1>5, <1>6, DisTurns, CfrTurns, FttTurns, McfTurns, RetrainTurns, DcnTurns

\* What the caller's part of the rank makes of a step.
Onward(n, c) == Left(n) <= Left(c) /\ Clock(n) <= Clock(c) /\ n.page >= c.page

Nearer(n, c) ==
  /\ Onward(n, c)
  /\ \/ Left(n) < Left(c) \/ Clock(n) < Clock(c) \/ n.page > c.page
     \/ Round(n) < Round(c)
     \/ Round(n) = Round(c) /\ n.retries > c.retries
     \/ Round(n) = Round(c) /\ n.retries = c.retries /\ CallerPlace(n) < CallerPlace(c)

\* The caller is where it was.
Level(n, c) ==
  /\ n.state = c.state /\ n.phase \in RxPhase /\ c.phase \in RxPhase
  /\ n.sending = c.sending /\ n.fate = c.fate
  /\ n.page = c.page /\ n.retries = c.retries /\ Clock(n) <= Clock(c)

\* A signal that has just been started.
New(n, s) == n.sending \notin {None, s.sending}

LEMMA PlacesAreNumbers ==
  ASSUME NEW s \in t30_state_t
  PROVE  /\ Left(s) \in Nat /\ Clock(s) \in Nat /\ s.retries \in Nat /\ s.page \in Nat
         /\ Round(s) \in Nat /\ CallerPlace(s) \in Nat /\ AnswererPlace(s) \in Nat
<1>1. s.retries \in Nat /\ s.page \in Nat
  BY DEF t30_state_t
<1> QED BY <1>1 DEF Clock, Left, Round, CallerPlace, AnswererPlace

LEMMA LevelNearer ==
  ASSUME NEW c \in t30_state_t, NEW m \in t30_state_t, Level(m, c), NEW n \in t30_state_t
  PROVE  /\ Onward(n, m) => Onward(n, c)
         /\ Nearer(n, m) => Nearer(n, c)
<1>1. Left(m) = Left(c) /\ Round(m) = Round(c) /\ CallerPlace(m) = CallerPlace(c)
  BY DEF Level, Left, Round, CallerPlace, RxPhase, TxPhase
<1> QED BY <1>1, PlacesAreNumbers DEF Level, Onward, Nearer

LEMMA TurnsRow ==
  ASSUME NEW c, Open(c), CallerRow(c), NEW n \in t30_state_t, NEW frame, CallerTurns(n, c, frame)
  PROVE  CallerRow(n)
  BY DEF Open, CallerTurns, CallerRow, Known, Trains, Silent, RxPhase, None

LEMMA TurnsNearer ==
  ASSUME NEW c, Open(c), CallerRow(c), NEW n \in t30_state_t, NEW frame, CallerTurns(n, c, frame)
  PROVE  /\ \/ Nearer(n, c)
            \/ c.state = "II_Q" /\ n.state = "D" /\ frame \in {"RTP", "RTN"} /\ Onward(n, c)
         /\ n.state = "I" => New(n, c)
         /\ n.state \notin {"D_TCF", "D_POST_TCF", "II_Q"}
<1>1. /\ c \in t30_state_t /\ c.state \notin Over \cup {"ANSWERING"} /\ c.phase \in RxPhase
      /\ c.state = "T" => c.page = 0
  BY OpenSends DEF Open, CallerOK, Over
<1>2. /\ c.page \in Nat /\ c.retries \in Nat /\ n.page \in Nat /\ n.retries \in Nat
      /\ Clock(c) \in Nat
  BY <1>1, PlacesAreNumbers
<1>3. Left(c) = 3 /\ Clock(n) = 0
  BY <1>1 DEF Left, Over, CallerTurns, Clock
<1>4. n.page >= c.page /\ Clock(n) <= Clock(c)
  BY <1>1, <1>2, <1>3 DEF CallerTurns
<1>5. CASE n.state \in {"C", "B"}
  <2>1. Left(n) \in {1, 2}
    BY <1>5 DEF Left
  <2> QED BY <1>3, <1>4, <1>5, <2>1 DEF Nearer, Onward
<1>6. CASE n.state \notin {"C", "B"}
  <2>1. n.state \in {"D", "I"} /\ Left(n) = 3
    BY <1>6 DEF CallerTurns, Trains, Left
  <2>2. n.state = "I" => New(n, c)
    BY <1>1, <1>6 DEF CallerTurns, Trains, New, CallerRow, Silent, RxPhase, TxPhase, None
  <2>3. Round(n) = (IF n.state = "I" THEN 1 ELSE IF n.phase \in TxPhase THEN 2 ELSE 0)
    BY <2>1 DEF Round
  <2>4. c.state = "D_POST_TCF" => Round(c) = 2
    BY DEF Round
  <2>5. Onward(n, c)
    BY <1>3, <1>4, <2>1 DEF Onward
  <2>6. \/ n.page > c.page
        \/ Round(n) < Round(c) \/ (Round(n) = Round(c) /\ n.retries > c.retries)
        \/ c.state = "II_Q" /\ n.state = "D" /\ frame \in {"RTP", "RTN"}
    <3>1. CASE c.state = "D_POST_TCF" /\ n.state = "I"
      BY <2>3, <2>4, <3>1
    <3>2. CASE c.state = "D_POST_TCF" /\ n.state = "D" /\ n.phase = c.phase
      BY <1>1, <2>3, <2>4, <3>2 DEF RxPhase, TxPhase
    <3>3. CASE c.state = "D_POST_TCF" /\ Trains(n) /\ n.retries = c.retries + 1
      BY <1>2, <2>3, <2>4, <3>3 DEF Trains, TxPhase
    <3>4. CASE c.state \in {"T", "II_Q"}
      BY <1>1, <1>2, <1>6, <3>4 DEF CallerTurns, Trains
    <3> QED BY <1>6, <3>1, <3>2, <3>3, <3>4 DEF CallerTurns
  <2> QED BY <2>1, <2>2, <2>5, <2>6 DEF Nearer
<1> QED BY <1>5, <1>6

LEMMA FramingTimers ==
  ASSUME NEW s \in t30_state_t
  PROVE  LET n == Framing(s)
         IN  /\ n.timer = s.timer \/ (s.timer = "T2" /\ n.timer = "off")
             /\ n.is_t4 = s.is_t4 /\ n.fate = s.fate /\ Clock(n) <= Clock(s)
             /\ s.t0_t1 # "off" => n.t0_t1 # "off"
  BY DEF t30_state_t, Framing, Clock

\* What the caller makes of a sequence of frames: it stays where it is, or
\* comes nearer, or has to send a page again.
CallerWent(n, c, frame) ==
  /\ CallerRow(n)
  /\ \/ Level(n, c) \/ Nearer(n, c)
     \/ c.state = "II_Q" /\ n.state = "D" /\ frame \in {"RTP", "RTN"} /\ Onward(n, c)
  /\ n.state = "I" => New(n, c)
  /\ n.state \in {"D_TCF", "D_POST_TCF", "II_Q"} => n.state = c.state

LEMMA LevelRow ==
  ASSUME NEW c, Open(c), CallerRow(c), NEW n \in t30_state_t, Level(n, c), Known(n),
         n.is_t4 = c.is_t4, c.timer = "T4" => n.timer = "T4", c.t0_t1 # "off" => n.t0_t1 # "off"
  PROVE  CallerRow(n)
  BY DEF Open, CallerOK, Level, CallerRow, Silent, Over, RxPhase, TxPhase

LEMMA CallerHearsWent ==
  ASSUME NEW c, Open(c), CallerRow(c), NEW fate,
         NEW frame \in {"DIS", "CFR", "FTT", "MCF", "RTP", "RTN", "DCN"}
  PROVE  CallerWent(HearFrames(c, frame, fate), c, frame)
<1> DEFINE m == Framing(c)
<1>1. c \in t30_state_t /\ c.phase \in RxPhase
  BY DEF Open, CallerOK
<1>2. /\ m \in t30_state_t /\ m.phase \in RxPhase /\ m.state = c.state
      /\ m.sending = c.sending /\ SameRest(m, c)
  BY <1>1, FramingDoes
<1>3. /\ m.timer = c.timer \/ (c.timer = "T2" /\ m.timer = "off")
      /\ m.is_t4 = c.is_t4 /\ m.fate = c.fate /\ Clock(m) <= Clock(c)
      /\ c.t0_t1 # "off" => m.t0_t1 # "off"
  BY <1>1, FramingTimers
<1>4. HearFrames(c, frame, fate) \in {Accept(m, frame), IF c.is_t4 THEN T4(m) ELSE T2(m), m}
  BY DEF HearFrames
<1> HIDE DEF m
<1>5. Level(m, c) /\ Known(m)
  BY <1>1, <1>2, <1>3 DEF Level, SameRest, CallerRow, Known
<1>6. CallerRow(m)
  BY <1>2, <1>3, <1>5, LevelRow
<1>7. CallerWent(m, c, frame)
  BY <1>1, <1>5, <1>6 DEF CallerWent, Level, CallerRow, RxPhase
<1>8. CallerWent(IF c.is_t4 THEN T4(m) ELSE T2(m), c, frame)
  <2> DEFINE n == IF c.is_t4 THEN T4(m) ELSE T2(m)
  <2>1. /\ n \in t30_state_t /\ n.state = m.state /\ n.phase = m.phase /\ n.sending = m.sending
        /\ SameRest(n, m)
    BY <1>2, T2Does, T4Does
  <2>2. /\ n.is_t4 = c.is_t4 /\ n.fate = m.fate /\ n.t0_t1 = m.t0_t1 /\ Known(n)
        /\ n.timer = IF c.is_t4 THEN "T4" ELSE "T2"
    BY <1>1, <1>2 DEF T2, T4, t30_state_t, Known
  <2> HIDE DEF n
  <2>3. Level(n, c)
    BY <1>5, <2>1, <2>2 DEF Level, SameRest, Clock
  <2>4. c.timer = "T4" => n.timer = "T4"
    BY <2>2 DEF CallerRow, Known
  <2>5. CallerRow(n)
    BY <1>3, <2>1, <2>2, <2>3, <2>4, LevelRow
  <2> QED BY <1>1, <2>3, <2>5 DEF CallerWent, Level, CallerRow, RxPhase, n
<1>9. CallerWent(Accept(m, frame), c, frame)
  <2> DEFINE n == Accept(m, frame)
  <2>1. Open(m)
    BY <1>2 DEF Open, CallerOK, SameRest, RxPhase, TxPhase
  <2>2. CallerTurns(n, m, frame)
    BY <2>1, AcceptTurns
  <2>3. n \in t30_state_t
    BY <2>1, CallerAccepts DEF CallerHeard, CallerOK
  <2> HIDE DEF n
  <2>4. CallerRow(n)
    BY <1>6, <2>1, <2>2, <2>3, TurnsRow
  <2>5. /\ \/ Nearer(n, m)
           \/ m.state = "II_Q" /\ n.state = "D" /\ frame \in {"RTP", "RTN"} /\ Onward(n, m)
        /\ n.state = "I" => New(n, m)
        /\ n.state \notin {"D_TCF", "D_POST_TCF", "II_Q"}
    BY <1>6, <2>1, <2>2, <2>3, TurnsNearer
  <2>6. Nearer(n, m) => Nearer(n, c)
    BY <1>1, <1>2, <1>5, <2>3, LevelNearer
  <2>7. Onward(n, m) => Onward(n, c)
    BY <1>1, <1>2, <1>5, <2>3, LevelNearer
  <2>8. m.state = c.state /\ m.sending = c.sending
    BY <1>2
  <2> QED BY <2>4, <2>5, <2>6, <2>7, <2>8 DEF CallerWent, New, n
<1> QED BY <1>4, <1>7, <1>8, <1>9

\* What the caller's own steps do: it comes nearer, and as far as the answerer
\* can tell it was there before.
CallerSteps(n, c) ==
  /\ CallerRow(n) /\ Nearer(n, c)
  /\ n.state = "I" => c.state = "I" /\ n.fate = c.fate /\ n.sending = c.sending
  /\ n.state \in {"D", "II_Q"} => n.state = c.state
  /\ n.state = "D_TCF" => n.state = c.state

\* The end of a signal of the caller.
LEMMA CallerSentSteps ==
  ASSUME NEW c, CallerOK(c), CallerRow(c),
         (c.phase \in TxPhase /\ c.sending # None) \/ c.state = "B"
  PROVE  LET n == SendComplete(c)
         IN  /\ CallerRow(n) /\ Nearer(n, c)
             /\ c.state = "D" => n.state = "D_TCF"
             /\ c.state = "D_TCF" => n.state = "D_POST_TCF"
             /\ c.state \in {"I", "II_Q"} => n.state = "II_Q"
             /\ c.state \in Over => n.state \in Over
             /\ c.state \in {"D", "D_TCF", "I", "II_Q"} \cup Over
<1> DEFINE m == [c EXCEPT !.sending = None]
           n == SendComplete(c)
<1>1. c \in t30_state_t
  BY DEF CallerOK
<1>2. /\ m \in t30_state_t /\ m.phase = c.phase /\ m.state = c.state
      /\ m.sending = None /\ SameRest(m, c)
  BY <1>1, SendingOver
<1>3. Timers(m, c)
  BY <1>1 DEF t30_state_t, Timers
<1>4. /\ c.page \in Nat /\ c.retries \in Nat /\ Clock(c) \in Nat
  BY <1>1, PlacesAreNumbers
<1>5. \A s : Timers(s, c) => Clock(s) <= Clock(c) /\ (Known(c) => Known(s))
  BY <1>1 DEF Timers, Clock, Known
<1> SUFFICES /\ CallerRow(n) /\ Nearer(n, c)
             /\ c.state = "D" => n.state = "D_TCF"
             /\ c.state = "D_TCF" => n.state = "D_POST_TCF"
             /\ c.state \in {"I", "II_Q"} => n.state = "II_Q"
             /\ c.state \in Over => n.state \in Over
             /\ c.state \in {"D", "D_TCF", "I", "II_Q"} \cup Over
  OBVIOUS
<1>6. CASE c.state = "D"
  <2>1. n = Transmit(m, "C_TX", "D_TCF", "TCF")
    BY <1>6 DEF SendComplete
  <2> HIDE DEF m, n
  <2>2. "C_TX" \in Phase /\ "D_TCF" \in State /\ "TCF" \in Frame \cup Fast /\ "C_TX" # "C_RX"
    BY DEF Phase, TxPhase, State, Fast
  <2>3. /\ n.phase = "C_TX" /\ n.state = "D_TCF" /\ n.sending = "TCF"
        /\ SameRest(n, m) /\ Timers(n, m)
    BY <1>2, <2>1, <2>2, TransmitDoes, TransmitTimers
  <2>4. SameRest(n, c) /\ Timers(n, c)
    BY <1>2, <1>3, <2>3 DEF SameRest, Timers
  <2>5. CallerRow(n)
    BY <1>5, <2>3, <2>4 DEF CallerRow, RxPhase, TxPhase
  <2>6. c.phase \in TxPhase
    BY <1>6
  <2>7. /\ Left(n) = 3 /\ Left(c) = 3 /\ Round(n) = 2 /\ Round(c) = 2
        /\ CallerPlace(n) = 2 /\ CallerPlace(c) = 3
    BY <1>6, <2>3, <2>6 DEF Left, Round, CallerPlace
  <2>8. Nearer(n, c)
    BY <1>4, <1>5, <2>4, <2>7 DEF Nearer, Onward, SameRest
  <2> QED BY <1>6, <2>3, <2>5, <2>8 DEF Over
<1>7. CASE c.state = "D_TCF"
  <2> DEFINE k == SetPhase(m, "B_RX")
  <2>1. n = SetState(T4(k), "D_POST_TCF")
    BY <1>7 DEF SendComplete
  <2> HIDE DEF m
  <2>2. "B_RX" \in Phase /\ "D_POST_TCF" \in State /\ "B_RX" # "C_RX"
    BY DEF Phase, RxPhase, State
  <2>3. /\ k \in t30_state_t /\ k.phase = "B_RX" /\ k.sending = None
        /\ SameRest(k, m) /\ Timers(k, m)
    BY <1>2, <2>2, SetPhaseDoes, SetPhaseTimers
  <2> HIDE DEF k, n
  <2>4. /\ n.phase = "B_RX" /\ n.state = "D_POST_TCF" /\ n.sending = None
        /\ n.timer = "T4" /\ n.is_t4 = TRUE /\ n.t0_t1 = k.t0_t1
        /\ n.page = k.page /\ n.retries = k.retries
    BY <2>1, <2>3 DEF t30_state_t, SetState, T4
  <2>5. CallerRow(n)
    BY <2>4 DEF CallerRow, Silent, Known, RxPhase, TxPhase
  <2>6. /\ Left(n) = 3 /\ Left(c) = 3 /\ Round(n) = 2 /\ Round(c) = 2
        /\ CallerPlace(n) = 1 /\ CallerPlace(c) = 2
    BY <1>7, <2>4 DEF Left, Round, CallerPlace
  <2>7. Clock(n) = Clock(k) /\ Timers(k, c)
    BY <1>3, <2>3, <2>4 DEF Clock, Timers
  <2>8. Nearer(n, c)
    BY <1>2, <1>4, <1>5, <2>3, <2>4, <2>6, <2>7 DEF Nearer, Onward, SameRest
  <2> QED BY <1>7, <2>4, <2>5, <2>8 DEF Over
<1>8. CASE c.state = "I"
  <2> DEFINE step == check_next_tx_step(c)
             k == [m EXCEPT !.step = step]
  <2>1. n = Transmit(k, "D_TX", "II_Q", step)
    BY <1>8 DEF SendComplete
  <2>2. step \in {"MPS", "EOP"}
    BY DEF check_next_tx_step
  <2> HIDE DEF m, step
  <2>3. /\ k \in t30_state_t /\ k.sending = None /\ k.page = c.page /\ k.retries = c.retries
        /\ Timers(k, c)
    BY <1>2, <1>3, <2>2 DEF t30_state_t, SameRest, Timers
  <2> HIDE DEF k, n
  <2>4. "D_TX" \in Phase /\ "II_Q" \in State /\ step \in Frame \cup Fast /\ "D_TX" # "C_RX"
    BY <2>2 DEF Phase, TxPhase, State, Frame
  <2>5. /\ n.phase = "D_TX" /\ n.state = "II_Q" /\ n.sending = step
        /\ SameRest(n, k) /\ Timers(n, k)
    BY <2>1, <2>3, <2>4, TransmitDoes, TransmitTimers
  <2>6. n.page = c.page /\ n.retries = c.retries /\ Timers(n, c)
    BY <2>3, <2>5 DEF SameRest, Timers
  <2>7. CallerRow(n)
    BY <1>5, <2>2, <2>5, <2>6 DEF CallerRow, RxPhase, TxPhase
  <2>8. /\ Left(n) = 3 /\ Left(c) = 3 /\ Round(n) = 1 /\ Round(c) = 1
        /\ CallerPlace(n) = 1 /\ CallerPlace(c) = 2
    BY <1>8, <2>5 DEF Left, Round, CallerPlace, TxPhase
  <2>9. Nearer(n, c)
    BY <1>4, <1>5, <2>6, <2>8 DEF Nearer, Onward
  <2> QED BY <1>8, <2>5, <2>7, <2>9 DEF Over
<1>9. CASE c.state = "II_Q"
  <2> DEFINE k == SetPhase(m, "D_RX")
  <2>1. n = T4(k)
    BY <1>9 DEF SendComplete
  <2> HIDE DEF m
  <2>2. "D_RX" \in Phase /\ "D_RX" # "C_RX"
    BY DEF Phase, RxPhase
  <2>3. /\ k \in t30_state_t /\ k.phase = "D_RX" /\ k.state = "II_Q" /\ k.sending = None
        /\ SameRest(k, m) /\ Timers(k, m)
    BY <1>2, <1>9, <2>2, SetPhaseDoes, SetPhaseTimers
  <2> HIDE DEF k, n
  <2>4. /\ n.phase = "D_RX" /\ n.state = "II_Q" /\ n.sending = None
        /\ n.timer = "T4" /\ n.is_t4 = TRUE /\ n.t0_t1 = k.t0_t1
        /\ n.page = k.page /\ n.retries = k.retries
    BY <2>1, <2>3 DEF t30_state_t, T4
  <2>5. CallerRow(n)
    BY <2>4 DEF CallerRow, Silent, Known, RxPhase, TxPhase
  <2>6. c.phase \in TxPhase
    BY <1>9
  <2>7. /\ Left(n) = 3 /\ Left(c) = 3 /\ Round(n) = 1 /\ Round(c) = 1
        /\ CallerPlace(n) = 0 /\ CallerPlace(c) = 1
    BY <1>9, <2>4, <2>6 DEF Left, Round, CallerPlace, TxPhase
  <2>8. Clock(n) = Clock(k) /\ Timers(k, c)
    BY <1>3, <2>3, <2>4 DEF Clock, Timers
  <2>9. Nearer(n, c)
    BY <1>2, <1>4, <1>5, <2>3, <2>4, <2>7, <2>8 DEF Nearer, Onward, SameRest
  <2> QED BY <1>9, <2>4, <2>5, <2>9 DEF Over
<1>10. CASE c.state \in {"C", "B"}
  <2> DEFINE f == [m EXCEPT !.state = "FINISHED", !.phase = "FINISHED"]
  <2>1. n = IF c.state = "C" THEN Disconnect(m) ELSE f
    BY <1>10 DEF SendComplete
  <2> HIDE DEF m
  <2>2. /\ f.state = "FINISHED" /\ f.phase = "FINISHED" /\ f.page = c.page /\ Timers(f, c)
    BY <1>2, <1>3 DEF t30_state_t, SameRest, Timers
  <2>3. /\ Disconnect(m).state = "B" /\ Disconnect(m).phase = "E" /\ Disconnect(m).page = c.page
        /\ Disconnect(m).timer = "off" /\ Disconnect(m).t0_t1 = "off"
    BY <1>2 DEF t30_state_t, SameRest, Disconnect
  <2> HIDE DEF f, n
  <2>4. CallerRow(n)
    BY <1>5, <2>1, <2>2, <2>3 DEF CallerRow, Known, RxPhase
  <2>5. Left(n) < Left(c) /\ n.state \in Over /\ n.page = c.page
    BY <1>10, <2>1, <2>2, <2>3 DEF Left, Over
  <2>6. Clock(n) <= Clock(c)
    BY <1>4, <1>5, <2>1, <2>2, <2>3 DEF Clock
  <2> QED BY <1>4, <1>10, <2>4, <2>5, <2>6, <1>1, PlacesAreNumbers DEF Nearer, Onward, Over, Left
<1>11. CASE c.state \in {"T", "D_POST_TCF", "FINISHED"}
  BY <1>11 DEF CallerRow, Silent, RxPhase, TxPhase
<1> QED BY <1>6, <1>7, <1>8, <1>9, <1>10, <1>11 DEF CallerOK, Over

LEMMA CallerT4Steps ==
  ASSUME NEW c, Open(c), CallerRow(c)
  PROVE  CallerSteps(Retry(Expired(c), RepeatLastCommand), c)
<1> DEFINE k == [Expired(c) EXCEPT !.retries = @ + 1]
           n == Retry(Expired(c), RepeatLastCommand)
<1>1. /\ c \in t30_state_t /\ c.phase \in RxPhase /\ c.state \notin Over
      /\ c.state \in {"T", "D", "D_POST_TCF", "II_Q"}
  BY OpenSends DEF Open, CallerOK, CallerRow, Over, RxPhase, TxPhase
<1>2. c.retries \in Nat /\ c.page \in Nat /\ c.retries <= MAX_MESSAGE_TRIES
      /\ Clock(c) \in Nat
  BY <1>1, OpenSends, PlacesAreNumbers
<1>3. c.retries + 1 \in 0 .. MAX_MESSAGE_TRIES + 1
  BY <1>2
<1>4. /\ k \in t30_state_t /\ k.state = c.state /\ k.phase = c.phase /\ k.sending = c.sending
      /\ k.fate = c.fate /\ k.page = c.page /\ k.retries = c.retries + 1
      /\ k.timer = "off" /\ k.is_t4 = c.is_t4 /\ k.t0_t1 = c.t0_t1 /\ k.step = c.step
  BY <1>1, <1>3 DEF t30_state_t, Expired
<1>5. n \in {SendDcn(Fails(k, "RETRYDCN")), RepeatLastCommand(k)}
  BY DEF Retry
<1> SUFFICES CallerSteps(n, c)
  OBVIOUS
<1> HIDE DEF k, n
<1>6. \A s : s.t0_t1 = k.t0_t1 \/ (k.t0_t1 = "T0" /\ s.t0_t1 = "T1") => Clock(s) <= Clock(c)
  BY <1>4 DEF Clock
<1>7. Left(c) = 3 /\ Round(c) = (IF c.state = "D_POST_TCF" THEN 2 ELSE IF c.state = "II_Q" THEN 1 ELSE 0)
  BY <1>1 DEF Left, Round, RxPhase, TxPhase
<1>8. CASE n = SendDcn(Fails(k, "RETRYDCN"))
  <2>1. GivesUp(n, k)
    BY <1>4, <1>8, FailureGivesUp DEF Status
  <2>2. CallerRow(n)
    BY <1>4, <2>1 DEF CallerRow, GivesUp, Timers, Known, RxPhase, None
  <2>3. Left(n) = 2 /\ n.state = "C" /\ n.page = c.page /\ Clock(n) <= Clock(c)
    BY <1>4, <1>6, <2>1 DEF GivesUp, Left, Timers, SameRest
  <2>4. Nearer(n, c)
    BY <1>2, <1>7, <2>3 DEF Nearer, Onward
  <2> QED BY <2>2, <2>3, <2>4 DEF CallerSteps
<1>9. CASE n = RepeatLastCommand(k)
  <2>1. CASE c.state = "II_Q"
    <3> DEFINE l == SetPhase(k, "D_TX")
    <3>1. n = SendFrame(l, k.step)
      BY <1>4, <1>9, <2>1 DEF RepeatLastCommand
    <3>2. "D_TX" \in Phase /\ "D_TX" # "C_RX" /\ k.step \in {"MPS", "EOP"} /\ k.sending = None
      BY <1>4, <2>1, OpenSends DEF Phase, TxPhase, Open, CallerOK
    <3>3. /\ l \in t30_state_t /\ l.phase = "D_TX" /\ l.state = "II_Q" /\ l.sending = None
          /\ SameRest(l, k) /\ Timers(l, k)
      BY <1>4, <2>1, <3>2, SetPhaseDoes, SetPhaseTimers
    <3> HIDE DEF l
    <3>4. /\ n.phase = "D_TX" /\ n.state = "II_Q" /\ n.sending = k.step
          /\ SameRest(n, k) /\ Timers(n, k)
      BY <3>1, <3>3 DEF t30_state_t, SendFrame, SameRest, Timers
    <3>5. CallerRow(n)
      BY <1>4, <3>2, <3>4 DEF CallerRow, Known, Timers, RxPhase
    <3>6. Left(n) = 3 /\ Round(n) = 1 /\ Clock(n) <= Clock(c)
      BY <1>6, <3>4 DEF Left, Round, Timers
    <3>7. Nearer(n, c)
      BY <1>2, <1>4, <1>7, <2>1, <3>4, <3>6 DEF Nearer, Onward, SameRest
    <3> QED BY <2>1, <3>4, <3>5, <3>7 DEF CallerSteps
  <2>2. CASE c.state # "II_Q"
    <3>1. n = k
      <4>1. c.state = "D" => k.sending = "DCS"
        BY <1>4 DEF CallerRow
      <4>2. SendFrame(k, "DCS") = k \/ c.state # "D"
        BY <4>1 DEF SendFrame, None
      <4> QED BY <1>1, <1>4, <1>9, <2>2, <4>2 DEF RepeatLastCommand
    <3>2. CallerRow(k)
      <4>1. Known(k)
        BY <1>4 DEF Known
      <4>2. k.state # "T" => k.is_t4
        BY <1>1, <1>4 DEF CallerRow
      <4> QED BY <1>1, <1>4, <2>2, <4>1, <4>2 DEF CallerRow, Silent
    <3>3. Left(k) = 3 /\ Round(k) = Round(c) /\ Clock(k) <= Clock(c)
      BY <1>1, <1>4, <1>6 DEF Left, Round, Over
    <3>4. Nearer(k, c)
      BY <1>2, <1>4, <1>7, <3>3 DEF Nearer, Onward
    <3> QED BY <1>1, <1>4, <2>2, <3>1, <3>2, <3>4 DEF CallerSteps
  <2> QED BY <2>1, <2>2
<1> QED BY <1>5, <1>8, <1>9

\* T2 runs while the caller has heard nothing but the flags of a DIS.
LEMMA CallerT2Steps ==
  ASSUME NEW c, Open(c), CallerRow(c), c.timer = "T2", NEW status \in Status,
         NEW k, k \in {Expired(c), Fails(Expired(c), status)}
  PROVE  CallerSteps(StartReceiving(k, "caller"), c)
<1> DEFINE n == SetPhase(k, "B_TX")
<1>1. c \in t30_state_t /\ c.phase \in RxPhase /\ c.state = "T"
  BY DEF Open, CallerOK, CallerRow, Known
<1>2. /\ k.state = c.state /\ k.sending = c.sending /\ k.phase = c.phase /\ k.fate = c.fate
      /\ k.page = c.page /\ k.retries = c.retries
      /\ k.timer = "off" /\ k.is_t4 = c.is_t4 /\ k.t0_t1 = c.t0_t1
      /\ k \in t30_state_t
  <2>1. CASE k = Expired(c)
    BY <1>1, <2>1 DEF t30_state_t, Expired
  <2>2. CASE k = Fails(Expired(c), status)
    BY <1>1, <2>2 DEF t30_state_t, Expired, Fails
  <2> QED BY <2>1, <2>2
<1>3. c.retries \in Nat /\ c.page \in Nat /\ Clock(c) \in Nat
  BY <1>1, PlacesAreNumbers
<1>4. StartReceiving(k, "caller") = n
  BY DEF StartReceiving
<1>5. "B_TX" \in Phase /\ "B_TX" # "C_RX"
  BY DEF Phase, TxPhase
<1>6. /\ n.phase = "B_TX" /\ n.state = c.state /\ n.sending = c.sending
      /\ SameRest(n, k) /\ Timers(n, k)
  BY <1>2, <1>5, SetPhaseDoes, SetPhaseTimers
<1> HIDE DEF n
<1>7. CallerRow(n)
  BY <1>1, <1>2, <1>6 DEF CallerRow, Known, Timers, RxPhase
<1>8. /\ Left(n) = 3 /\ Left(c) = 3 /\ Round(n) = 0 /\ Round(c) = 0
      /\ CallerPlace(n) = 0 /\ CallerPlace(c) = 1 /\ Clock(n) <= Clock(c)
  BY <1>1, <1>2, <1>6 DEF Left, Round, CallerPlace, Clock, Timers, RxPhase
<1>9. Nearer(n, c)
  BY <1>2, <1>3, <1>6, <1>8 DEF Nearer, Onward, SameRest
<1> QED BY <1>1, <1>4, <1>6, <1>7, <1>9 DEF CallerSteps

LEMMA CallerT0Steps ==
  ASSUME NEW c, CallerOK(c), CallerRow(c), c.t0_t1 = "T0", c.phase # "FINISHED", NEW status
  PROVE  CallerSteps(Disconnect(Fails(c, status)), c)
<1> DEFINE n == Disconnect(Fails(c, status))
<1>1. c \in t30_state_t
  BY DEF CallerOK
<1>2. /\ n.state = "B" /\ n.phase = "E" /\ n.timer = "off" /\ n.t0_t1 = "off" /\ n.page = c.page
  BY <1>1 DEF t30_state_t, Disconnect, Fails
<1> HIDE DEF n
<1>3. CallerRow(n)
  BY <1>2 DEF CallerRow, Known, RxPhase
<1>4. c.state # "FINISHED" /\ c.page \in Nat
  BY <1>1, PlacesAreNumbers DEF CallerRow
<1>5. Left(n) <= Left(c) /\ Clock(n) = 0 /\ Clock(c) = 2
  BY <1>2, <1>4 DEF Left, Clock
<1>6. Nearer(n, c)
  BY <1>2, <1>4, <1>5 DEF Nearer, Onward
<1> QED BY <1>2, <1>3, <1>6 DEF CallerSteps, n

LEMMA CallerT1Steps ==
  ASSUME NEW c, CallerOK(c), CallerRow(c), c.t0_t1 = "T1", c.phase # "FINISHED"
  PROVE  LET s == Fails([c EXCEPT !.t0_t1 = "off"], "T1EXPIRED")
         IN  CallerSteps(IF s.state = "T" THEN Disconnect(s) ELSE s, c)
<1> DEFINE s == Fails([c EXCEPT !.t0_t1 = "off"], "T1EXPIRED")
           d == Disconnect(s)
<1>1. c \in t30_state_t /\ c.page \in Nat /\ c.state # "FINISHED"
  BY PlacesAreNumbers DEF CallerOK, CallerRow
<1>2. /\ s.state = c.state /\ s.phase = c.phase /\ s.sending = c.sending /\ s.fate = c.fate
      /\ s.page = c.page /\ s.retries = c.retries
      /\ s.timer = c.timer /\ s.is_t4 = c.is_t4 /\ s.t0_t1 = "off"
  BY <1>1 DEF t30_state_t, Fails
<1>3. d.state = "B" /\ d.phase = "E" /\ d.timer = "off" /\ d.t0_t1 = "off" /\ d.page = c.page
  BY <1>1 DEF t30_state_t, Disconnect, Fails
<1> HIDE DEF s, d
<1>4. CallerRow(d) /\ (s.state # "T" => CallerRow(s))
  BY <1>2, <1>3 DEF CallerRow, Known, Silent, RxPhase
<1>5. /\ Left(s) = Left(c) /\ Left(d) <= Left(c) /\ Clock(s) = 0 /\ Clock(d) = 0 /\ Clock(c) = 1
  BY <1>1, <1>2, <1>3 DEF Left, Clock
<1>6. Left(c) \in Nat
  BY <1>1, PlacesAreNumbers
<1>7. Nearer(s, c) /\ Nearer(d, c)
  BY <1>1, <1>2, <1>3, <1>5, <1>6 DEF Nearer, Onward
<1> QED BY <1>2, <1>3, <1>4, <1>7 DEF CallerSteps, s, d

LEMMA CallerTerminateSteps ==
  ASSUME NEW c, CallerOK(c), CallerRow(c), c.phase # "FINISHED",
         NEW k \in {c, Disconnect(c), Fails(c, "CALLDROPPED")}
  PROVE  CallerSteps([k EXCEPT !.state = "FINISHED", !.phase = "FINISHED"], c)
<1> DEFINE n == [k EXCEPT !.state = "FINISHED", !.phase = "FINISHED"]
<1>1. c \in t30_state_t /\ c.page \in Nat /\ c.state # "FINISHED" /\ Left(c) \in Nat
  BY PlacesAreNumbers DEF CallerOK, CallerRow
<1>2. /\ n.state = "FINISHED" /\ n.phase = "FINISHED" /\ n.page = c.page
      /\ n.t0_t1 \in {c.t0_t1, "off"} /\ n.timer \in {c.timer, "off"} /\ n.is_t4 = c.is_t4
  BY <1>1 DEF t30_state_t, Fails, Disconnect
<1> HIDE DEF n
<1>3. CallerRow(n)
  BY <1>2 DEF CallerRow, Known, RxPhase
<1>4. Left(n) = 0 /\ Left(c) # 0 /\ Clock(n) <= Clock(c)
  BY <1>1, <1>2 DEF Left, Clock
<1>5. Nearer(n, c)
  BY <1>1, <1>2, <1>4 DEF Nearer, Onward
<1> QED BY <1>2, <1>3, <1>5 DEF CallerSteps, n

-----------------------------------------------------------------------------
(* Where the answerer goes. *)

\* What the answerer's part of the rank makes of a step.
Forth(m, a) == Left(m) <= Left(a) /\ Clock(m) <= Clock(a) /\ m.retries >= a.retries

Ahead(m, a) ==
  /\ Forth(m, a)
  /\ \/ Left(m) < Left(a) \/ Clock(m) < Clock(a) \/ m.retries > a.retries
     \/ AnswererPlace(m) < AnswererPlace(a)

\* What the answerer does about a frame.
AnswererTurns(m, a) ==
  /\ m.timer \in {"off", "T2"} /\ (m.timer = "T2" => ~m.is_t4) /\ m.t0_t1 = "off"
  /\ m.retries = a.retries
  /\ \/ m.state = "C" /\ m.phase = "D_TX" /\ m.sending = "DCN"
     \/ m.state = "B" /\ m.phase = "E"
     \/ a.state \in {"R", "F_DOC"} /\ m.state = "F_TCF" /\ m.phase = "C_RX"
     \/ /\ a.state = "F_POST_DOC" /\ m.phase = "D_TX"
        /\ \/ m.state = "III_Q_MCF" /\ m.sending = "MCF"
           \/ m.state = "III_Q_RTP" /\ m.sending = "RTP" /\ a.quality # "good"
           \/ m.state = "III_Q_RTN" /\ m.sending = "RTN" /\ a.quality # "good"

LEMMA HangingUpTurns ==
  ASSUME NEW a, Idle(a), a.sending = None, NEW m, GivesUp(m, a)
  PROVE  AnswererTurns(m, a)
  BY DEF AnswererTurns, GivesUp, Timers, SameRest, Idle

LEMMA DcsTurns ==
  ASSUME NEW a, Idle(a), a.sending = None
  PROVE  AnswererTurns(process_rx_dcs(a), a)
<1>1. CASE a.state \in {"R", "F_DOC"}
  <2> DEFINE n == SetPhase(SetState(a, "F_TCF"), "C_RX")
  <2>1. process_rx_dcs(a) = n
    BY <1>1 DEF process_rx_dcs
  <2>2. /\ n.state = "F_TCF" /\ n.phase = "C_RX" /\ n.t0_t1 = "off" /\ n.retries = a.retries
        /\ n.timer = "off" \/ (n.timer = "T2" /\ n.is_t4 = FALSE)
    BY DEF Idle, t30_state_t, SetPhase, SetState, T2
  <2> HIDE DEF n
  <2> QED BY <1>1, <2>1, <2>2 DEF AnswererTurns
<1>2. CASE a.state \notin {"R", "F_DOC"}
  BY <1>2, UnexpectedGivesUp, HangingUpTurns DEF process_rx_dcs, Idle
<1> QED BY <1>1, <1>2

\* The record from which the answer to a post-message command is sent.
LEMMA AnswerFrom ==
  ASSUME NEW a, Idle(a), a.sending = None, NEW step \in {"MPS", "EOP"},
         NEW k, k = [a EXCEPT !.step = step],
         NEW l \in {k, Blank(k)} \cup IF a.page # 0 THEN {Store(k), Blank(Store(k))} ELSE {}
  PROVE  Idle(l) /\ l.sending = None /\ l.retries = a.retries
<1>1. Idle(k) /\ k.sending = None /\ k.retries = a.retries /\ k.page = a.page
  BY DEF Idle, t30_state_t
<1>2. \A s : Idle(s) => Idle(Blank(s)) /\ Blank(s).sending = s.sending /\ Blank(s).retries = s.retries
  <2> SUFFICES ASSUME NEW s, Idle(s)
               PROVE  Idle(Blank(s)) /\ Blank(s).sending = s.sending /\ Blank(s).retries = s.retries
    OBVIOUS
  <2>1. Blank(s).timer = "off" /\ Blank(s).t0_t1 = "off"
    BY DEF Idle, t30_state_t, Blank
  <2> QED BY <2>1, BlankDoes DEF Idle
<1>3. ASSUME a.page # 0
      PROVE  Idle(Store(k)) /\ Store(k).sending = None /\ Store(k).retries = a.retries
  <2>1. Store(k).timer = "off" /\ Store(k).t0_t1 = "off"
    BY <1>1 DEF Idle, t30_state_t, Store
  <2> QED BY <1>1, <1>3, <2>1, StoreDoes DEF Idle
<1> QED BY <1>1, <1>2, <1>3

LEMMA PostMessageTurns ==
  ASSUME NEW a, Waits(a), Idle(a), NEW step \in {"MPS", "EOP"}
  PROVE  AnswererTurns(process_rx_post_message(a, step), a)
<1> DEFINE k == [a EXCEPT !.step = step]
           r == process_rx_post_message(a, step)
<1>1. a.sending = None
  BY WaitsSilent
<1>2. ASSUME a.state = "F_POST_DOC", NEW l, Idle(l), l.sending = None, l.retries = a.retries,
             NEW state \in {"III_Q_MCF", "III_Q_RTP", "III_Q_RTN"}, NEW signal \in {"MCF", "RTP", "RTN"},
             r = Transmit(l, "D_TX", state, signal),
             \/ state = "III_Q_MCF" /\ signal = "MCF"
             \/ state = "III_Q_RTP" /\ signal = "RTP" /\ a.quality # "good"
             \/ state = "III_Q_RTN" /\ signal = "RTN" /\ a.quality # "good"
      PROVE  AnswererTurns(r, a)
  <2> HIDE DEF r
  <2>1. "D_TX" \in Phase /\ state \in State /\ signal \in Frame \cup Fast /\ "D_TX" # "C_RX"
    BY DEF Phase, TxPhase, State, Frame
  <2>2. /\ r.phase = "D_TX" /\ r.state = state /\ r.sending = signal
        /\ SameRest(r, l) /\ Timers(r, l)
    BY <1>2, <2>1, TransmitDoes, TransmitTimers DEF Idle
  <2> QED BY <1>2, <2>2 DEF AnswererTurns, Idle, SameRest, Timers
<1>3. CASE a.state # "F_POST_DOC"
  BY <1>1, <1>3, UnexpectedGivesUp, HangingUpTurns DEF process_rx_post_message, Idle
<1>4. CASE a.state = "F_POST_DOC" /\ a.quality = "good"
  <2>1. a.page # 0
    BY <1>4 DEF Waits, AnswererOK, Storable
  <2>2. \E l \in {Store(k), Blank(Store(k))} : r = Transmit(l, "D_TX", "III_Q_MCF", "MCF")
    BY <1>4 DEF process_rx_post_message
  <2> HIDE DEF k, r
  <2>3. PICK l \in {Store(k), Blank(Store(k))} : r = Transmit(l, "D_TX", "III_Q_MCF", "MCF")
    BY <2>2
  <2>4. Idle(l) /\ l.sending = None /\ l.retries = a.retries
    BY <1>1, <2>1, AnswerFrom DEF k
  <2> QED BY <1>2, <1>4, <2>3, <2>4 DEF r
<1>5. CASE a.state = "F_POST_DOC" /\ a.quality = "poor"
  <2>1. a.page # 0
    BY <1>5 DEF Waits, AnswererOK, Storable
  <2>2. \E l \in {Store(k), Blank(Store(k))} : r = Transmit(l, "D_TX", "III_Q_RTP", "RTP")
    BY <1>5 DEF process_rx_post_message
  <2> HIDE DEF k, r
  <2>3. PICK l \in {Store(k), Blank(Store(k))} : r = Transmit(l, "D_TX", "III_Q_RTP", "RTP")
    BY <2>2
  <2>4. Idle(l) /\ l.sending = None /\ l.retries = a.retries
    BY <1>1, <2>1, AnswerFrom DEF k
  <2> QED BY <1>2, <1>5, <2>3, <2>4 DEF r
<1>6. CASE a.state = "F_POST_DOC" /\ a.quality \notin {"good", "poor"}
  <2>1. \E l \in {k, Blank(k)} : r = Transmit(l, "D_TX", "III_Q_RTN", "RTN")
    BY <1>6 DEF process_rx_post_message
  <2> HIDE DEF k, r
  <2>2. PICK l \in {k, Blank(k)} : r = Transmit(l, "D_TX", "III_Q_RTN", "RTN")
    BY <2>1
  <2>3. Idle(l) /\ l.sending = None /\ l.retries = a.retries
    BY <1>1, AnswerFrom DEF k
  <2> QED BY <1>2, <1>6, <2>2, <2>3 DEF r
<1> QED BY <1>3, <1>4, <1>5, <1>6

LEMMA AnswererAcceptTurns ==
  ASSUME NEW a, Waits(a), NEW frame \in {"DCS", "MPS", "EOP", "DCN"}
  PROVE  AnswererTurns(Accept(a, frame), a)
<1> DEFINE m == [a EXCEPT !.timer = "off", !.t0_t1 = "off"]
<1>1. a \in t30_state_t /\ a.sending = None
  BY WaitsSilent
<1>2. /\ m \in t30_state_t /\ m.phase = a.phase /\ m.state = a.state
      /\ m.sending = None /\ SameRest(m, a)
  BY <1>1, TimersOff
<1>3. Idle(m)
  BY <1>1, <1>2 DEF t30_state_t, Idle
<1>4. Waits(m)
  BY <1>1, <1>2, AnswererStays DEF Waits, Quiet
<1>5. /\ frame = "DCS" => Accept(a, frame) = process_rx_dcs(m)
      /\ frame \in {"MPS", "EOP"} => Accept(a, frame) = process_rx_post_message(m, frame)
      /\ frame = "DCN" => Accept(a, frame) = process_rx_dcn(m)
  BY DEF Accept
<1> HIDE DEF m
<1>6. AnswererTurns(process_rx_dcn(m), m)
  <2>1. PICK k \in t30_state_t : process_rx_dcn(m) = Disconnect(k) /\ SameRest(k, m)
    BY <1>2, RxDcn
  <2>2. Disconnect(k).timer = "off" /\ Disconnect(k).t0_t1 = "off"
    BY DEF t30_state_t, Disconnect
  <2> QED BY <2>1, <2>2, DisconnectDoes DEF AnswererTurns, SameRest
<1>7. \A n : AnswererTurns(n, m) => AnswererTurns(n, a)
  BY <1>2 DEF AnswererTurns, SameRest
<1> QED BY <1>2, <1>3, <1>4, <1>5, <1>6, <1>7, DcsTurns, PostMessageTurns

\* What the answerer makes of a signal that it hears: it does not go back, and
\* does not refuse a page that was good.
AnswererWent(m, a) ==
  /\ AnswererRow(m) /\ Forth(m, a)
  /\ m.state \in {"III_Q_RTP", "III_Q_RTN"} => a.state = "F_POST_DOC" /\ a.quality # "good"

LEMMA AnswererHearsWent ==
  ASSUME NEW a, Waits(a), AnswererRow(a), NEW frame \in {"DCS", "MPS", "EOP", "DCN"}, NEW fate
  PROVE  LET m == HearFrames(a, frame, fate)
         IN  /\ AnswererWent(m, a)
             /\ m.state = "F_POST_DOC" => a.state = "F_POST_DOC" /\ m.quality = a.quality
<1> DEFINE k == Framing(a)
           m == HearFrames(a, frame, fate)
<1>1. /\ a \in t30_state_t /\ a.phase \in RxPhase /\ a.sending = None /\ a.state \notin Over
      /\ a.state \in {"ANSWERING", "R", "F_TCF", "F_FTT", "F_DOC", "F_POST_DOC"}
  BY WaitsSilent DEF Waits, AnswererOK, Over
<1>2. /\ k \in t30_state_t /\ k.phase \in RxPhase /\ k.state = a.state
      /\ k.sending = a.sending /\ SameRest(k, a)
  BY <1>1, FramingDoes
<1>3. /\ k.timer = a.timer \/ (a.timer = "T2" /\ k.timer = "off")
      /\ k.is_t4 = a.is_t4 /\ Clock(k) <= Clock(a)
  BY <1>1, FramingTimers
<1>4. a.phase # "A" => k.phase = a.phase
  BY <1>1 DEF Framing, t30_state_t
<1>5. m \in {Accept(k, frame), IF a.is_t4 THEN T4(k) ELSE T2(k), k}
  BY DEF HearFrames
<1> SUFFICES /\ AnswererWent(m, a)
             /\ m.state = "F_POST_DOC" => a.state = "F_POST_DOC" /\ m.quality = a.quality
  OBVIOUS
<1> HIDE DEF k, m
<1>6. /\ a.state \in {"F_TCF", "F_DOC"} => k.phase = "C_RX"
      /\ a.state = "F_POST_DOC" => k.phase = "D_RX"
      /\ a.state \in {"R", "F_FTT"} => k.phase = "B_RX"
  BY <1>1, <1>4 DEF AnswererRow, Waiting, RxPhase
<1>7. ASSUME NEW n \in t30_state_t, n.state = k.state, n.phase = k.phase, n.sending = k.sending,
             n.is_t4 = a.is_t4, Known(n), a.timer = "T4" => n.timer = "T4", n.t0_t1 = k.t0_t1,
             n.retries = a.retries, n.quality = a.quality
      PROVE  /\ AnswererWent(n, a)
             /\ n.state = "F_POST_DOC" => a.state = "F_POST_DOC" /\ n.quality = a.quality
  <2>1. a.state \in {"R", "F_FTT"} => a.timer = "T4"
    BY <1>1 DEF AnswererRow, RxPhase, TxPhase
  <2>2. n.state = "F_POST_DOC" => ~n.is_t4
    BY <1>2, <1>7 DEF AnswererRow
  <2>3. AnswererRow(n)
    BY <1>1, <1>2, <1>6, <1>7, <2>1, <2>2 DEF AnswererRow, Waiting, RxPhase, TxPhase, Over
  <2>4. Left(n) = Left(a) /\ Clock(n) = Clock(k)
    BY <1>2, <1>7 DEF Left, Clock
  <2>5. Left(a) \in Nat /\ a.retries \in Nat
    BY <1>1, PlacesAreNumbers
  <2> QED BY <1>1, <1>2, <1>3, <1>7, <2>3, <2>4, <2>5 DEF AnswererWent, Forth
<1>8. CASE m = k
  <2>1. Known(k)
    BY <1>3 DEF AnswererRow, Known
  <2> QED BY <1>2, <1>3, <1>7, <1>8, <2>1 DEF SameRest
<1>9. CASE m = IF a.is_t4 THEN T4(k) ELSE T2(k)
  <2>1. /\ m \in t30_state_t /\ m.state = k.state /\ m.phase = k.phase /\ m.sending = k.sending
        /\ SameRest(m, k)
    BY <1>2, <1>9, T2Does, T4Does
  <2>2. /\ m.is_t4 = a.is_t4 /\ m.t0_t1 = k.t0_t1 /\ Known(m)
        /\ m.timer = IF a.is_t4 THEN "T4" ELSE "T2"
    BY <1>1, <1>2, <1>9 DEF T2, T4, t30_state_t, Known
  <2>3. a.timer = "T4" => m.timer = "T4"
    BY <2>2 DEF AnswererRow, Known
  <2> QED BY <1>2, <1>7, <2>1, <2>2, <2>3 DEF SameRest
<1>10. CASE m = Accept(k, frame)
  <2>1. Waits(k)
    BY <1>2 DEF Waits, AnswererOK, SameRest, Storable, RxPhase, TxPhase
  <2>2. AnswererTurns(m, k)
    BY <1>10, <2>1, AnswererAcceptTurns
  <2>3. AnswererRow(m)
    BY <2>2 DEF AnswererTurns, AnswererRow, Known
  <2>4. Left(a) \in {3, 4} /\ Left(m) \in {1, 2, 3}
    BY <1>1, <2>2 DEF AnswererTurns, Left, Over
  <2>5. Clock(m) = 0 /\ Clock(a) \in Nat /\ a.retries \in Nat
    BY <1>1, <2>2, PlacesAreNumbers DEF AnswererTurns, Clock
  <2>6. m.retries = a.retries
    BY <1>2, <2>2 DEF AnswererTurns, SameRest
  <2>7. /\ m.state # "F_POST_DOC"
        /\ m.state \in {"III_Q_RTP", "III_Q_RTN"} => k.state = "F_POST_DOC" /\ k.quality # "good"
    BY <2>2 DEF AnswererTurns
  <2> QED BY <1>2, <2>3, <2>4, <2>5, <2>6, <2>7 DEF AnswererWent, Forth, SameRest
<1> QED BY <1>5, <1>8, <1>9, <1>10

LEMMA AnswererHearsFastWent ==
  ASSUME NEW a, Waits(a), a.phase = "C_RX", AnswererRow(a), NEW signal \in Fast, NEW fate \in Fate,
         NEW page
  PROVE  LET m == HearFast(a, signal, fate, page)
         IN  /\ AnswererWent(m, a)
             /\ m.state = "F_POST_DOC" => m.timer = "T2" /\ m.quality \in {fate, "bad"}
                                          /\ (signal = "PAGE" => m.quality = fate)
<1> DEFINE m == HearFast(a, signal, fate, page)
           k == [a EXCEPT !.timer = "off"]
<1>1. /\ a \in t30_state_t /\ a.sending = None
      /\ a.state \in {"ANSWERING", "F_TCF", "F_DOC"}
  BY WaitsSilent DEF Waits, AnswererOK, AnswererRow, Waiting, Over, TxPhase
<1>2. Left(a) \in {3, 4} /\ Clock(a) \in Nat /\ a.retries \in Nat
  BY <1>1, PlacesAreNumbers DEF Left
<1> SUFFICES /\ AnswererWent(m, a)
             /\ m.state = "F_POST_DOC" => m.timer = "T2" /\ m.quality \in {fate, "bad"}
                                          /\ (signal = "PAGE" => m.quality = fate)
  OBVIOUS
<1>3. /\ k \in t30_state_t /\ k.state = a.state /\ k.phase = a.phase /\ k.sending = None
      /\ k.timer = "off" /\ k.t0_t1 = a.t0_t1 /\ k.retries = a.retries /\ k.is_t4 = a.is_t4
  BY <1>1 DEF t30_state_t
<1>4. CASE fate = "untrained"
  <2>1. /\ m.state = a.state /\ m.phase = a.phase /\ m.sending = None /\ m.timer = "off"
        /\ m.t0_t1 = a.t0_t1 /\ m.retries = a.retries
    BY <1>1, <1>4 DEF HearFast, t30_state_t, Fails
  <2> HIDE DEF m
  <2>2. AnswererRow(m)
    BY <1>1, <2>1 DEF AnswererRow, Known
  <2>3. Left(m) = Left(a) /\ Clock(m) = Clock(a)
    BY <2>1 DEF Left, Clock
  <2> QED BY <1>1, <1>2, <2>1, <2>2, <2>3 DEF AnswererWent, Forth
<1>5. CASE fate # "untrained" /\ a.state = "F_TCF"
  <2>1. \E l \in {k, Blank(k)} :
          \/ m = Transmit(l, "B_TX", "F_CFR", "CFR") \/ m = Transmit(l, "B_TX", "F_FTT", "FTT")
    BY <1>5 DEF HearFast
  <2> HIDE DEF k, m
  <2>2. PICK l \in {k, Blank(k)} :
          \/ m = Transmit(l, "B_TX", "F_CFR", "CFR") \/ m = Transmit(l, "B_TX", "F_FTT", "FTT")
    BY <2>1
  <2>3. Blank(k).timer = "off" /\ Blank(k).t0_t1 = k.t0_t1
    BY <1>3 DEF t30_state_t, Blank
  <2>4. /\ l \in t30_state_t /\ l.sending = None /\ l.timer = "off" /\ l.t0_t1 = a.t0_t1
        /\ l.retries = a.retries
    BY <1>3, <2>3, BlankDoes
  <2>5. /\ "B_TX" \in Phase /\ {"F_CFR", "F_FTT"} \subseteq State
        /\ {"CFR", "FTT"} \subseteq Frame \cup Fast /\ "B_TX" # "C_RX"
    BY DEF Phase, TxPhase, State, Frame
  <2>6. /\ m.phase = "B_TX" /\ SameRest(m, l) /\ Timers(m, l)
        /\ (m.state = "F_CFR" /\ m.sending = "CFR") \/ (m.state = "F_FTT" /\ m.sending = "FTT")
    BY <2>2, <2>4, <2>5, TransmitDoes, TransmitTimers
  <2>7. AnswererRow(m)
    BY <2>4, <2>6 DEF AnswererRow, Known, Timers
  <2>8. Left(m) = 3 /\ Clock(m) <= Clock(a) /\ m.retries = a.retries
    BY <2>4, <2>6 DEF Left, Clock, Timers, SameRest
  <2> QED BY <1>2, <2>6, <2>7, <2>8 DEF AnswererWent, Forth
<1>6. CASE fate # "untrained" /\ a.state # "F_TCF"
  <2> DEFINE f == IF signal = "PAGE" THEN [a EXCEPT !.page = page, !.quality = fate]
                                    ELSE [a EXCEPT !.quality = "bad"]
             l == SetState(IF f.status = "NOCARRIERRX" THEN Fails(f, "OK") ELSE f, "F_POST_DOC")
  <2>1. m = T2(SetPhase(l, "D_RX"))
    BY <1>6 DEF HearFast
  <2>2. /\ l.state = "F_POST_DOC" /\ l.sending = None /\ l.t0_t1 = a.t0_t1 /\ l.retries = a.retries
        /\ l.quality = (IF signal = "PAGE" THEN fate ELSE "bad")
        /\ DOMAIN l = DOMAIN a
    BY <1>1 DEF t30_state_t, SetState, Fails
  <2>3. DOMAIN a = {"state", "phase", "timer", "is_t4", "t0_t1", "retries", "sending", "fate",
                    "status", "step", "fallback", "page", "quality", "ended", "success"}
    BY <1>1 DEF t30_state_t
  <2> HIDE DEF l, m
  <2>4. /\ m.state = "F_POST_DOC" /\ m.phase = "D_RX" /\ m.timer = "T2" /\ m.is_t4 = FALSE
        /\ m.retries = a.retries /\ m.quality = (IF signal = "PAGE" THEN fate ELSE "bad")
        /\ m.t0_t1 = a.t0_t1
    BY <2>1, <2>2, <2>3 DEF T2, SetPhase
  <2>5. AnswererRow(m)
    BY <2>4 DEF AnswererRow, Known
  <2>6. Left(m) = 3 /\ Clock(m) = Clock(a)
    BY <2>4 DEF Left, Clock
  <2> QED BY <1>2, <2>4, <2>5, <2>6 DEF AnswererWent, Forth
<1> QED BY <1>4, <1>5, <1>6

\* What the answerer's own steps do: it gets ahead, and neither receives a page
\* nor judges one.
AnswererSteps(m, a) ==
  /\ AnswererRow(m) /\ Ahead(m, a)
  /\ m.state \in {"F_POST_DOC", "III_Q_RTP", "III_Q_RTN"} =>
       m.state = a.state /\ m.quality = a.quality /\ m.timer = a.timer

LEMMA AnswererSentSteps ==
  ASSUME NEW a, AnswererOK(a), AnswererRow(a),
         (a.phase \in TxPhase /\ a.sending # None) \/ a.state \in {"ANSWERING", "B"}
  PROVE  LET m == SendComplete(a)
         IN  /\ AnswererSteps(m, a)
             /\ m.state \in {"R", "F_FTT", "F_DOC"} \cup Over
<1> DEFINE k == [a EXCEPT !.sending = None]
           m == SendComplete(a)
<1>1. a \in t30_state_t
  BY DEF AnswererOK
<1>2. /\ k \in t30_state_t /\ k.phase = a.phase /\ k.state = a.state
      /\ k.sending = None /\ SameRest(k, a)
  BY <1>1, SendingOver
<1>3. Timers(k, a)
  BY <1>1 DEF t30_state_t, Timers
<1>4. a.retries \in Nat /\ Clock(a) \in Nat /\ Left(a) \in Nat
  BY <1>1, PlacesAreNumbers
<1>5. \A s : Timers(s, a) => Clock(s) <= Clock(a) /\ Known(s)
  BY <1>1 DEF AnswererRow, Timers, Clock, Known
<1> SUFFICES AnswererSteps(m, a) /\ m.state \in {"R", "F_FTT", "F_DOC"} \cup Over
  OBVIOUS
<1>6. CASE a.state = "ANSWERING"
  <2> DEFINE l == SetPhase(k, "B_TX")
  <2>1. m = SendFrame(SetState(T2(l), "R"), "DIS")
    BY <1>6 DEF SendComplete
  <2> HIDE DEF k, m
  <2>2. "B_TX" \in Phase /\ "B_TX" # "C_RX"
    BY DEF Phase, TxPhase
  <2>3. l \in t30_state_t /\ l.phase = "B_TX" /\ l.sending = None /\ SameRest(l, k) /\ Timers(l, k)
    BY <1>2, <2>2, SetPhaseDoes, SetPhaseTimers
  <2> HIDE DEF l
  <2>4. /\ m.state = "R" /\ m.phase = "B_TX" /\ m.sending = "DIS" /\ m.timer = "T2"
        /\ m.is_t4 = FALSE /\ m.t0_t1 = l.t0_t1 /\ m.retries = l.retries
    BY <2>1, <2>3 DEF t30_state_t, T2, SetState, SendFrame
  <2>5. AnswererRow(m)
    BY <2>4 DEF AnswererRow, Known
  <2>6. Left(m) = 3 /\ Left(a) = 4 /\ Clock(m) = Clock(l) /\ Timers(l, a)
    BY <1>3, <1>6, <2>3, <2>4 DEF Left, Clock, Timers
  <2>7. m.retries = a.retries
    BY <1>2, <2>3, <2>4 DEF SameRest
  <2> QED BY <1>4, <1>5, <2>4, <2>5, <2>6, <2>7 DEF AnswererSteps, Ahead, Forth
<1>7. CASE a.state \in {"R", "F_FTT"}
  <2> DEFINE l == SetPhase(k, "B_RX")
  <2>1. m = T4(l)
    BY <1>7 DEF SendComplete
  <2> HIDE DEF k, m
  <2>2. "B_RX" \in Phase /\ "B_RX" # "C_RX"
    BY DEF Phase, RxPhase
  <2>3. /\ l \in t30_state_t /\ l.state = a.state /\ l.phase = "B_RX" /\ l.sending = None
        /\ SameRest(l, k) /\ Timers(l, k)
    BY <1>2, <2>2, SetPhaseDoes, SetPhaseTimers
  <2> HIDE DEF l
  <2>4. /\ m.state = a.state /\ m.phase = "B_RX" /\ m.sending = None /\ m.timer = "T4"
        /\ m.is_t4 = TRUE /\ m.t0_t1 = l.t0_t1 /\ m.retries = l.retries
    BY <2>1, <2>3 DEF t30_state_t, T4
  <2>5. AnswererRow(m)
    BY <1>7, <2>4 DEF AnswererRow, Waiting, Known
  <2>6. Left(m) = Left(a) /\ Clock(m) = Clock(l) /\ Timers(l, a)
    BY <1>3, <2>3, <2>4 DEF Left, Clock, Timers
  <2>7. m.retries = a.retries
    BY <1>2, <2>3, <2>4 DEF SameRest
  <2>8. AnswererPlace(m) < AnswererPlace(a)
    BY <1>7, <2>4 DEF AnswererPlace, TxPhase
  <2> QED BY <1>4, <1>5, <1>7, <2>4, <2>5, <2>6, <2>7, <2>8 DEF AnswererSteps, Ahead, Forth
<1>8. CASE a.state \in {"F_CFR", "III_Q_MCF", "III_Q_RTP", "III_Q_RTN"}
  <2> DEFINE l == SetPhase(SetState(k, "F_DOC"), "C_RX")
             o == [l EXCEPT !.step = "MPS"]
             d == Disconnect(k)
  <2>1. m \in {l, o, d}
    BY <1>8 DEF SendComplete
  <2> HIDE DEF m
  <2>2. a.phase \in TxPhase /\ a.phase # "C_RX"
    BY <1>8 DEF TxPhase
  <2>3. /\ l.state = "F_DOC" /\ l.phase = "C_RX" /\ l.t0_t1 = a.t0_t1 /\ l.retries = a.retries
        /\ l = [[k EXCEPT !.state = "F_DOC"] EXCEPT !.phase = "C_RX", !.timer = "T2", !.is_t4 = FALSE]
    BY <1>1, <2>2 DEF t30_state_t, SetPhase, SetState, T2
  <2>4. /\ l.timer = "T2" /\ l.is_t4 = FALSE
        /\ o.state = "F_DOC" /\ o.phase = "C_RX" /\ o.timer = "T2" /\ o.is_t4 = FALSE
        /\ o.t0_t1 = a.t0_t1 /\ o.retries = a.retries
    BY <1>1, <2>3 DEF t30_state_t
  <2>5. d.state = "B" /\ d.phase = "E" /\ d.timer = "off" /\ d.t0_t1 = "off" /\ d.retries = a.retries
    BY <1>1 DEF t30_state_t, Disconnect
  <2> HIDE DEF k, l, o, d
  <2>6. CASE m \in {l, o}
    <3>1. /\ m.state = "F_DOC" /\ m.phase = "C_RX" /\ m.t0_t1 = a.t0_t1 /\ m.retries = a.retries
          /\ m.timer = "T2" /\ m.is_t4 = FALSE
      BY <2>3, <2>4, <2>6
    <3>2. AnswererRow(m)
      BY <3>1 DEF AnswererRow, Known
    <3>3. Left(m) = 3 /\ Left(a) = 3 /\ Clock(m) = Clock(a)
      BY <1>8, <3>1 DEF Left, Clock
    <3>4. AnswererPlace(m) < AnswererPlace(a)
      BY <1>8, <2>2, <3>1 DEF AnswererPlace, TxPhase
    <3> QED BY <1>4, <3>1, <3>2, <3>3, <3>4 DEF AnswererSteps, Ahead, Forth
  <2>7. CASE m = d
    <3>1. AnswererRow(m)
      BY <2>5, <2>7 DEF AnswererRow, Known
    <3>2. Left(m) = 1 /\ Left(a) = 3 /\ Clock(m) = 0
      BY <1>8, <2>5, <2>7 DEF Left, Clock
    <3> QED BY <1>4, <2>5, <2>7, <3>1, <3>2 DEF AnswererSteps, Ahead, Forth, Over
  <2> QED BY <2>1, <2>6, <2>7
<1>9. CASE a.state \in {"C", "B"}
  <2> DEFINE f == [k EXCEPT !.state = "FINISHED", !.phase = "FINISHED"]
  <2>1. m = IF a.state = "C" THEN Disconnect(k) ELSE f
    BY <1>9 DEF SendComplete
  <2> HIDE DEF m
  <2>2. /\ f.state = "FINISHED" /\ f.phase = "FINISHED" /\ f.retries = a.retries /\ Timers(f, a)
    BY <1>1 DEF t30_state_t, Timers
  <2>3. /\ Disconnect(k).state = "B" /\ Disconnect(k).phase = "E" /\ Disconnect(k).timer = "off"
        /\ Disconnect(k).t0_t1 = "off" /\ Disconnect(k).retries = a.retries
    BY <1>1 DEF t30_state_t, Disconnect
  <2> HIDE DEF f, k
  <2>4. AnswererRow(m)
    BY <1>5, <2>1, <2>2, <2>3 DEF AnswererRow, Known
  <2>5. /\ Left(m) = (IF a.state = "C" THEN 1 ELSE 0) /\ Left(a) = (IF a.state = "C" THEN 2 ELSE 1)
        /\ m.state \in {"B", "FINISHED"} /\ m.retries = a.retries
    BY <1>9, <2>1, <2>2, <2>3 DEF Left
  <2>6. Clock(m) <= Clock(a)
    BY <1>4, <1>5, <2>1, <2>2, <2>3 DEF Clock
  <2> QED BY <1>4, <2>4, <2>5, <2>6 DEF AnswererSteps, Ahead, Forth, Over
<1>10. CASE a.state \in {"F_TCF", "F_DOC", "F_POST_DOC", "FINISHED"}
  BY <1>10 DEF AnswererRow, TxPhase
<1> QED BY <1>6, <1>7, <1>8, <1>9, <1>10 DEF AnswererOK, Over

LEMMA AnswererT4Steps ==
  ASSUME NEW a, Waits(a), AnswererRow(a), a.timer = "T4"
  PROVE  AnswererSteps(Retry(Expired(a), RepeatLastCommand), a)
<1> DEFINE k == [Expired(a) EXCEPT !.retries = @ + 1]
           m == Retry(Expired(a), RepeatLastCommand)
<1>1. /\ a \in t30_state_t /\ a.phase \in RxPhase /\ a.sending = None
      /\ a.state \in {"ANSWERING", "R", "F_TCF", "F_FTT", "F_DOC"}
      /\ a.retries \in Nat /\ a.retries <= MAX_MESSAGE_TRIES
  BY WaitsSilent, PlacesAreNumbers DEF Waits, AnswererOK, AnswererRow, Known, Over
<1>2. a.retries + 1 \in 0 .. MAX_MESSAGE_TRIES + 1
  BY <1>1
<1>3. /\ k \in t30_state_t /\ k.state = a.state /\ k.phase = a.phase /\ k.sending = None
      /\ k.retries = a.retries + 1 /\ k.timer = "off" /\ k.t0_t1 = a.t0_t1
  BY <1>1, <1>2 DEF t30_state_t, Expired
<1>4. m \in {SendDcn(Fails(k, "RETRYDCN")), RepeatLastCommand(k)}
  BY DEF Retry
<1> SUFFICES AnswererSteps(m, a)
  OBVIOUS
<1> HIDE DEF k, m
<1>5. Left(a) \in {3, 4} /\ Clock(a) \in Nat /\ Clock(k) = Clock(a)
  BY <1>1, <1>3, PlacesAreNumbers DEF Left, Clock
<1>6. CASE m = SendDcn(Fails(k, "RETRYDCN"))
  <2>1. GivesUp(m, k)
    BY <1>3, <1>6, FailureGivesUp DEF Status
  <2>2. AnswererRow(m)
    BY <1>3, <2>1 DEF AnswererRow, GivesUp, Timers, Known
  <2>3. Left(m) = 2 /\ Clock(m) <= Clock(k) /\ m.retries = k.retries /\ m.state = "C"
    BY <2>1 DEF GivesUp, Left, Clock, Timers, SameRest
  <2> QED BY <1>1, <1>3, <1>5, <2>2, <2>3 DEF AnswererSteps, Ahead, Forth
<1>7. CASE m = RepeatLastCommand(k) /\ a.state \in {"R", "F_FTT"}
  <2> DEFINE l == SetPhase(k, "B_TX")
             signal == IF a.state = "R" THEN "DIS" ELSE "FTT"
  <2>1. m = SendFrame(l, signal)
    BY <1>3, <1>7 DEF RepeatLastCommand
  <2>2. "B_TX" \in Phase /\ "B_TX" # "C_RX"
    BY DEF Phase, TxPhase
  <2>3. /\ l \in t30_state_t /\ l.state = a.state /\ l.phase = "B_TX" /\ l.sending = None
        /\ SameRest(l, k) /\ Timers(l, k)
    BY <1>3, <2>2, SetPhaseDoes, SetPhaseTimers
  <2> HIDE DEF l, signal
  <2>4. /\ m.state = a.state /\ m.phase = "B_TX" /\ m.sending = signal /\ m.timer = "off"
        /\ m.t0_t1 = l.t0_t1 /\ m.retries = a.retries + 1
    BY <1>3, <2>1, <2>3 DEF t30_state_t, SendFrame, SameRest, Timers
  <2>5. AnswererRow(m)
    BY <1>7, <2>4 DEF AnswererRow, Known, signal
  <2>6. Left(m) = Left(a) /\ Clock(m) <= Clock(a)
    BY <1>3, <1>5, <2>3, <2>4 DEF Left, Clock, Timers
  <2> QED BY <1>1, <1>5, <1>7, <2>4, <2>5, <2>6 DEF AnswererSteps, Ahead, Forth
<1>8. CASE m = RepeatLastCommand(k) /\ a.state \in {"ANSWERING", "F_TCF", "F_DOC"}
  <2>1. m = k
    BY <1>3, <1>8 DEF RepeatLastCommand
  <2>2. AnswererRow(k)
    BY <1>3, <1>8 DEF AnswererRow, Known
  <2>3. Left(k) = Left(a)
    BY <1>3 DEF Left
  <2> QED BY <1>1, <1>3, <1>5, <1>8, <2>1, <2>2, <2>3 DEF AnswererSteps, Ahead, Forth
<1> QED BY <1>1, <1>4, <1>6, <1>7, <1>8

LEMMA AnswererT2Steps ==
  ASSUME NEW a, Waits(a), AnswererRow(a), a.timer = "T2", NEW status \in Status,
         NEW k, k \in {Expired(a), Fails(Expired(a), status)}
  PROVE  AnswererSteps(StartReceiving(k, "answerer"), a)
<1> DEFINE m == Transmit(k, "B_TX", "R", "DIS")
<1>1. /\ a \in t30_state_t /\ a.phase \in RxPhase /\ a.sending = None
      /\ a.state \in {"ANSWERING", "F_TCF", "F_DOC", "F_POST_DOC"}
  BY WaitsSilent DEF Waits, AnswererOK, AnswererRow, Waiting, Known, Over, RxPhase, TxPhase
<1>2. /\ k \in t30_state_t /\ k.state = a.state /\ k.phase = a.phase /\ k.sending = None
      /\ k.retries = a.retries /\ k.timer = "off" /\ k.t0_t1 = a.t0_t1
  <2>1. CASE k = Expired(a)
    BY <1>1, <2>1 DEF t30_state_t, Expired
  <2>2. CASE k = Fails(Expired(a), status)
    BY <1>1, <2>2 DEF t30_state_t, Expired, Fails
  <2> QED BY <2>1, <2>2
<1>3. StartReceiving(k, "answerer") = m
  BY DEF StartReceiving
<1>4. "B_TX" \in Phase /\ "R" \in State /\ "DIS" \in Frame \cup Fast /\ "B_TX" # "C_RX"
  BY DEF Phase, TxPhase, State, Frame
<1>5. /\ m.phase = "B_TX" /\ m.state = "R" /\ m.sending = "DIS" /\ SameRest(m, k) /\ Timers(m, k)
  BY <1>2, <1>4, TransmitDoes, TransmitTimers
<1> HIDE DEF m
<1>6. AnswererRow(m)
  BY <1>2, <1>5 DEF AnswererRow, Known, Timers
<1>7. /\ Left(m) = 3 /\ Left(a) \in {3, 4} /\ Clock(m) <= Clock(a) /\ m.retries = a.retries
      /\ AnswererPlace(m) = 1 /\ AnswererPlace(a) = 2
  BY <1>1, <1>2, <1>5 DEF Left, Clock, Timers, SameRest, AnswererPlace, RxPhase, TxPhase
<1>8. a.retries \in Nat /\ Clock(a) \in Nat
  BY <1>1, PlacesAreNumbers
<1> QED BY <1>3, <1>5, <1>6, <1>7, <1>8 DEF AnswererSteps, Ahead, Forth

LEMMA AnswererT0Steps ==
  ASSUME NEW a, AnswererOK(a), AnswererRow(a), a.t0_t1 = "T0", a.phase # "FINISHED", NEW status
  PROVE  AnswererSteps(Disconnect(Fails(a, status)), a)
<1> DEFINE m == Disconnect(Fails(a, status))
<1>1. a \in t30_state_t /\ a.state # "FINISHED" /\ a.retries \in Nat
  BY PlacesAreNumbers DEF AnswererOK, AnswererRow
<1>2. /\ m.state = "B" /\ m.phase = "E" /\ m.timer = "off" /\ m.t0_t1 = "off"
      /\ m.retries = a.retries
  BY <1>1 DEF t30_state_t, Disconnect, Fails
<1> HIDE DEF m
<1>3. AnswererRow(m)
  BY <1>2 DEF AnswererRow, Known
<1>4. Left(m) <= Left(a) /\ Clock(m) = 0 /\ Clock(a) = 2
  BY <1>1, <1>2 DEF Left, Clock
<1> QED BY <1>1, <1>2, <1>3, <1>4 DEF AnswererSteps, Ahead, Forth, m

LEMMA AnswererT1Steps ==
  ASSUME NEW a, AnswererOK(a), AnswererRow(a), a.t0_t1 = "T1", a.phase # "FINISHED"
  PROVE  LET s == Fails([a EXCEPT !.t0_t1 = "off"], "T1EXPIRED")
         IN  AnswererSteps(IF s.state = "R" THEN SendDcn(s) ELSE s, a)
<1> DEFINE s == Fails([a EXCEPT !.t0_t1 = "off"], "T1EXPIRED")
           d == SendDcn(s)
<1>1. a \in t30_state_t /\ a.state # "FINISHED" /\ a.retries \in Nat /\ Left(a) \in Nat
  BY PlacesAreNumbers DEF AnswererOK, AnswererRow
<1>2. /\ s.state = a.state /\ s.phase = a.phase /\ s.sending = a.sending
      /\ s.retries = a.retries /\ s.quality = a.quality
      /\ s.timer = a.timer /\ s.is_t4 = a.is_t4 /\ s.t0_t1 = "off"
      /\ s \in t30_state_t
  BY <1>1 DEF t30_state_t, Fails, Status
<1>3. GivesUp(d, s)
  BY <1>2, DcnGivesUp
<1> HIDE DEF s, d
<1>4. AnswererRow(s)
  BY <1>2 DEF AnswererRow, Known, Waiting
<1>5. a.state = "R" => AnswererRow(d)
  BY <1>2, <1>3 DEF AnswererRow, Known, Waiting, GivesUp, Timers
<1>6. /\ Left(s) = Left(a) /\ Clock(s) = 0 /\ Clock(d) = 0 /\ Clock(a) = 1
      /\ Left(d) = 2 /\ (a.state = "R" => Left(a) = 3) /\ d.retries = a.retries /\ d.state = "C"
  BY <1>1, <1>2, <1>3 DEF Left, Clock, GivesUp, Timers, SameRest
<1> QED BY <1>1, <1>2, <1>4, <1>5, <1>6 DEF AnswererSteps, Ahead, Forth, s, d

LEMMA AnswererTerminateSteps ==
  ASSUME NEW a, AnswererOK(a), AnswererRow(a), a.phase # "FINISHED",
         NEW k \in {a, Disconnect(a), Fails(a, "CALLDROPPED")}
  PROVE  AnswererSteps([k EXCEPT !.state = "FINISHED", !.phase = "FINISHED"], a)
<1> DEFINE m == [k EXCEPT !.state = "FINISHED", !.phase = "FINISHED"]
<1>1. a \in t30_state_t /\ a.retries \in Nat /\ a.state # "FINISHED"
  BY PlacesAreNumbers DEF AnswererOK, AnswererRow
<1>2. /\ m.state = "FINISHED" /\ m.phase = "FINISHED" /\ m.retries = a.retries
      /\ m.t0_t1 \in {a.t0_t1, "off"} /\ m.timer \in {a.timer, "off"} /\ m.is_t4 = a.is_t4
  BY <1>1 DEF t30_state_t, Fails, Disconnect
<1> HIDE DEF m
<1>3. AnswererRow(m)
  BY <1>2 DEF AnswererRow, Known
<1>4. Left(m) = 0 /\ Left(a) \in 1 .. 4 /\ Clock(m) <= Clock(a)
  BY <1>1, <1>2 DEF Left, Clock
<1> QED BY <1>1, <1>2, <1>3, <1>4 DEF AnswererSteps, Ahead, Forth, m

-----------------------------------------------------------------------------
(* The rank falls. *)

\* No DCS and no TCF are on their way to an answerer that has heard a page, and
\* one that does not wait for T2 any more has heard the post-message command.
Pair(c, a) ==
  a.state = "F_POST_DOC" =>
    /\ c.state \notin {"D", "D_TCF"}
    /\ a.timer = "off" => c.state \in {"II_Q"} \cup Over

\* A refusal that stands, or will, unless the signals that start now are spoilt.
Refuses(c, n, m) ==
  /\ n.state \in {"I", "II_Q"}
  /\ \/ n.state = "I" /\ ~New(n, c) /\ n.fate # "good"
     \/ m.state = "F_POST_DOC" /\ m.quality # "good"
     \/ m.state \in {"III_Q_RTP", "III_Q_RTN"}

\* Both ends get on with the call.
GetsOn(c, a, n, m) ==
  /\ Onward(n, c) /\ Forth(m, a)
  /\ \/ Left(n) < Left(c) \/ Left(m) < Left(a)
     \/ Clock(n) < Clock(c) \/ Clock(m) < Clock(a)
     \/ m.retries > a.retries \/ n.page > c.page
     \/ Refused(c, a) /\ ~Refuses(c, n, m)
     \/ /\ Refuses(c, n, m) => Refused(c, a)
        /\ \/ Round(n) < Round(c)
           \/ Round(n) = Round(c) /\ n.retries > c.retries
           \/ Round(n) = Round(c) /\ n.retries = c.retries /\ CallerPlace(n) < CallerPlace(c)
           \/ /\ Round(n) = Round(c) /\ n.retries = c.retries
              /\ CallerPlace(n) = CallerPlace(c) /\ AnswererPlace(m) < AnswererPlace(a)

LEMMA LowerFrom ==
  ASSUME NEW r, NEW q, NEW k \in 1 .. 10, \A i \in 1 .. 10 : r[i] \in Int /\ q[i] \in Int,
         r[k] < q[k], \A j \in 1 .. k - 1 : r[j] <= q[j]
  PROVE  Lower(r, q)
<1>1. CASE \A j \in 1 .. k - 1 : r[j] = q[j]
  BY <1>1 DEF Lower
<1>2. CASE \E j \in 1 .. k - 1 : r[j] # q[j]
  <2>1. \A j \in 1 .. k - 1 : r[j] # q[j] => r[j] < q[j]
    OBVIOUS
  <2> QED BY <1>2, <2>1 DEF Lower
<1> QED BY <1>1, <1>2

\* What a call has left to do goes down, whatever else comes with it.
LEMMA RankFalls ==
  ASSUME NEW c \in t30_state_t, NEW a \in t30_state_t,
         NEW n \in t30_state_t, NEW m \in t30_state_t,
         NEW f \in 0 .. MaxFaults, NEW g \in 0 .. MaxFaults, f <= g,
         Onward(n, c), Forth(m, a),
         \/ f < g
         \/ Left(n) < Left(c) \/ Left(m) < Left(a)
         \/ Clock(n) < Clock(c) \/ Clock(m) < Clock(a)
         \/ m.retries > a.retries \/ n.page > c.page
         \/ Refused(c, a) /\ ~Refused(n, m)
         \/ /\ Refused(n, m) => Refused(c, a)
            /\ \/ Round(n) < Round(c)
               \/ Round(n) = Round(c) /\ n.retries > c.retries
               \/ Round(n) = Round(c) /\ n.retries = c.retries /\ CallerPlace(n) < CallerPlace(c)
               \/ /\ Round(n) = Round(c) /\ n.retries = c.retries
                  /\ CallerPlace(n) = CallerPlace(c) /\ AnswererPlace(m) < AnswererPlace(a)
  PROVE  Lower(Rank(n, m, g), Rank(c, a, f))
<1> DEFINE r == Rank(n, m, g)
           q == Rank(c, a, f)
<1>1. \A s \in {c, a, n, m} :
        /\ Left(s) \in Nat /\ Clock(s) \in Nat /\ s.retries \in Nat /\ s.page \in Nat
        /\ Round(s) \in Nat /\ CallerPlace(s) \in Nat /\ AnswererPlace(s) \in Nat
  BY PlacesAreNumbers
<1>2. /\ Left(n) <= Left(c) /\ Clock(n) <= Clock(c) /\ c.page <= n.page
      /\ Left(m) <= Left(a) /\ Clock(m) <= Clock(a) /\ a.retries <= m.retries
  BY DEF Onward, Forth
<1>3. /\ q[1] = Left(c) + Left(a) /\ q[2] = MaxFaults - f /\ q[3] = Clock(c) + Clock(a)
      /\ q[4] = MAX_MESSAGE_TRIES + 1 - a.retries /\ q[5] = Pages - c.page
      /\ q[6] = (IF Refused(c, a) THEN 1 ELSE 0) /\ q[7] = Round(c)
      /\ q[8] = MAX_MESSAGE_TRIES + 1 - c.retries /\ q[9] = CallerPlace(c)
      /\ q[10] = AnswererPlace(a)
  BY DEF Rank
<1>4. /\ r[1] = Left(n) + Left(m) /\ r[2] = MaxFaults - g /\ r[3] = Clock(n) + Clock(m)
      /\ r[4] = MAX_MESSAGE_TRIES + 1 - m.retries /\ r[5] = Pages - n.page
      /\ r[6] = (IF Refused(n, m) THEN 1 ELSE 0) /\ r[7] = Round(n)
      /\ r[8] = MAX_MESSAGE_TRIES + 1 - n.retries /\ r[9] = CallerPlace(n)
      /\ r[10] = AnswererPlace(m)
  BY DEF Rank
<1> HIDE DEF r, q
<1>5. \A i \in 1 .. 10 : i \in {1, 2, 3, 4, 5, 6, 7, 8, 9, 10}
  OBVIOUS
<1>6. \A i \in 1 .. 10 : r[i] \in Int /\ q[i] \in Int
  <2>1. /\ \A i \in {1, 2, 3, 4, 5} : r[i] \in Int /\ q[i] \in Int
        /\ \A i \in {6, 7, 8, 9, 10} : r[i] \in Int /\ q[i] \in Int
    BY <1>1, <1>3, <1>4, T30Assumption
  <2> QED BY <1>5, <2>1
<1>7. \A i \in 1 .. 5 : r[i] <= q[i]
  <2>1. \A i \in {1, 2, 3, 4, 5} : r[i] <= q[i]
    BY <1>1, <1>2, <1>3, <1>4, T30Assumption
  <2> QED BY <2>1
<1>8. SUFFICES \E k \in 1 .. 10 : r[k] < q[k] /\ \A j \in 1 .. k - 1 : r[j] <= q[j]
  BY <1>6, LowerFrom DEF r, q
<1>9. CASE \E k \in 1 .. 5 : r[k] < q[k]
  BY <1>7, <1>9
<1>10. CASE Refused(c, a) /\ ~Refused(n, m)
  <2>1. r[6] < q[6]
    BY <1>3, <1>4, <1>10
  <2> QED BY <1>7, <2>1
<1>11. CASE /\ Refused(n, m) => Refused(c, a)
            /\ \/ Round(n) < Round(c)
               \/ Round(n) = Round(c) /\ n.retries > c.retries
               \/ Round(n) = Round(c) /\ n.retries = c.retries /\ CallerPlace(n) < CallerPlace(c)
               \/ /\ Round(n) = Round(c) /\ n.retries = c.retries
                  /\ CallerPlace(n) = CallerPlace(c) /\ AnswererPlace(m) < AnswererPlace(a)
  <2>1. r[6] <= q[6]
    BY <1>3, <1>4, <1>11
  <2>2. \/ r[7] < q[7]
        \/ r[7] = q[7] /\ r[8] < q[8]
        \/ r[7] = q[7] /\ r[8] = q[8] /\ r[9] < q[9]
        \/ r[7] = q[7] /\ r[8] = q[8] /\ r[9] = q[9] /\ r[10] < q[10]
    BY <1>1, <1>3, <1>4, <1>11, T30Assumption
  <2>3. \A i \in 1 .. 6 : r[i] <= q[i]
    BY <1>7, <2>1
  <2> QED BY <1>6, <2>2, <2>3
<1>12. CASE \/ f < g \/ Left(n) < Left(c) \/ Left(m) < Left(a)
            \/ Clock(n) < Clock(c) \/ Clock(m) < Clock(a)
            \/ m.retries > a.retries \/ n.page > c.page
  <2>1. r[1] < q[1] \/ r[2] < q[2] \/ r[3] < q[3] \/ r[4] < q[4] \/ r[5] < q[5]
    BY <1>1, <1>2, <1>3, <1>4, <1>12, T30Assumption
  <2> QED BY <1>9, <2>1
<1> QED BY <1>10, <1>11, <1>12

\* What becomes of a signal changes nothing else.
LEMMA FatePlaces ==
  ASSUME NEW n \in t30_state_t, NEW f \in Fate, NEW k \in {n, Fated(n, f)}
  PROVE  /\ k \in t30_state_t /\ k.state = n.state /\ k.phase = n.phase /\ k.sending = n.sending
         /\ k.timer = n.timer /\ k.is_t4 = n.is_t4 /\ k.t0_t1 = n.t0_t1
         /\ k.retries = n.retries /\ k.page = n.page /\ k.quality = n.quality
         /\ k = Fated(n, f) => k.fate = f
  BY DEF Fated, t30_state_t

\* The fates that Becomes gives: it counts the signals that it spoils.
LEMMA BecomesFates ==
  ASSUME faults \in Nat, NEW new, Becomes(new), NEW p \in Party
  PROVE  /\ faults' \in Nat /\ faults <= faults' /\ faults' <= MaxFaults
         /\ \E f \in Fate :
              /\ t30'[p] \in {new[p], Fated(new[p], f)}
              /\ faults' = faults =>
                   /\ t30'[p] = new[p] \/ (t30'[p] = Fated(new[p], f) /\ f = "good")
                   /\ New(new[p], t30[p]) => t30'[p] = Fated(new[p], f) /\ f = "good"
<1> DEFINE started == {x \in Party : new[x].sending \notin {None, t30[x].sending}}
<1>1. PICK fate \in [started -> Faults \cup {"good"}] :
        /\ faults' = faults + Cardinality({x \in started : fate[x] # "good"})
        /\ faults' <= MaxFaults
        /\ t30' = [x \in Party |->
                     IF x \in started THEN [new[x] EXCEPT !.fate = fate[x]] ELSE new[x]]
  BY DEF Becomes
<1> DEFINE spoilt == {x \in started : fate[x] # "good"}
<1>2. IsFiniteSet(spoilt)
  <2>1. IsFiniteSet({} \cup {"caller"})
    BY FS_EmptySet, FS_AddElement
  <2>2. IsFiniteSet(({} \cup {"caller"}) \cup {"answerer"})
    BY <2>1, FS_AddElement
  <2>3. spoilt \subseteq ({} \cup {"caller"}) \cup {"answerer"}
    BY DEF Party
  <2> QED BY <2>2, <2>3, FS_Subset
<1>3. Cardinality(spoilt) \in Nat /\ (Cardinality(spoilt) = 0 => spoilt = {})
  BY <1>2, FS_EmptySet, FS_CardinalityType
<1>4. faults' = faults + Cardinality(spoilt)
  BY <1>1
<1>5. p \in started <=> New(new[p], t30[p])
  BY DEF New
<1>6. p \in started => fate[p] \in Fate /\ t30'[p] = Fated(new[p], fate[p])
  BY <1>1, T30Assumption DEF Fate, Fated
<1>7. p \notin started => t30'[p] = new[p]
  BY <1>1
<1>8. spoilt = {} /\ p \in started => fate[p] = "good"
  OBVIOUS
<1> HIDE DEF spoilt, started
<1>9. faults' \in Nat /\ faults <= faults' /\ (faults' = faults => spoilt = {})
  BY <1>3, <1>4
<1>10. "good" \in Fate
  BY DEF Fate
<1>11. CASE p \in started
  BY <1>1, <1>5, <1>6, <1>8, <1>9, <1>11
<1>12. CASE p \notin started
  BY <1>1, <1>5, <1>7, <1>9, <1>10, <1>12
<1> QED BY <1>11, <1>12

RInv ==
  /\ CallerRow(t30["caller"]) /\ AnswererRow(t30["answerer"])
  /\ Pair(t30["caller"], t30["answerer"])

Falls == RInv' /\ Lower(RankNow', RankNow)

\* A step that gets on with the call, whatever becomes of the signals it starts.
LEMMA StepsFall ==
  ASSUME IInv, NEW new, Becomes(new),
         NEW n \in t30_state_t, n = new["caller"], NEW m \in t30_state_t, m = new["answerer"],
         CallerRow(n), AnswererRow(m), Pair(n, m),
         GetsOn(t30["caller"], t30["answerer"], n, m)
  PROVE  Falls
<1> DEFINE c == t30["caller"]
           a == t30["answerer"]
           k == t30'["caller"]
           l == t30'["answerer"]
<1>1. c \in t30_state_t /\ a \in t30_state_t /\ faults \in 0 .. MaxFaults
  BY DEF IInv, Both, CallerOK, AnswererOK
<1>2. /\ faults' \in 0 .. MaxFaults /\ faults <= faults'
  BY <1>1, BecomesFates DEF Party
<1>3. PICK f \in Fate :
        /\ k \in {n, Fated(n, f)}
        /\ faults' = faults =>
             /\ k = n \/ (k = Fated(n, f) /\ f = "good")
             /\ New(n, c) => k = Fated(n, f) /\ f = "good"
  BY <1>1, BecomesFates DEF Party
<1>4. PICK g \in Fate : l \in {m, Fated(m, g)}
  BY <1>1, BecomesFates DEF Party
<1>5. /\ k \in t30_state_t /\ k.state = n.state /\ k.phase = n.phase /\ k.sending = n.sending
      /\ k.timer = n.timer /\ k.is_t4 = n.is_t4 /\ k.t0_t1 = n.t0_t1
      /\ k.retries = n.retries /\ k.page = n.page /\ k.quality = n.quality
      /\ k = Fated(n, f) => k.fate = f
  BY <1>3, FatePlaces
<1>6. /\ l \in t30_state_t /\ l.state = m.state /\ l.phase = m.phase /\ l.sending = m.sending
      /\ l.timer = m.timer /\ l.is_t4 = m.is_t4 /\ l.t0_t1 = m.t0_t1
      /\ l.retries = m.retries /\ l.page = m.page /\ l.quality = m.quality
  BY <1>4, FatePlaces
<1>7. faults' = faults =>
        (k.state = "I" /\ k.fate # "good" => ~New(n, c) /\ n.fate # "good")
  <2>1. CASE New(n, c)
    BY <1>3, <1>5, <2>1
  <2>2. CASE ~New(n, c)
    BY <1>3, <1>5, <2>2
  <2> QED BY <2>1, <2>2
<1>8. GetsOn(c, a, n, m)
  OBVIOUS
<1> HIDE DEF c, a, k, l
<1>9. CallerRow(k)
  BY <1>5 DEF CallerRow, Known, Silent
<1>10. AnswererRow(l)
  BY <1>6 DEF AnswererRow, Known, Waiting
<1>11. Pair(k, l)
  BY <1>5, <1>6 DEF Pair
<1>12. /\ Left(k) = Left(n) /\ Clock(k) = Clock(n) /\ Round(k) = Round(n)
       /\ CallerPlace(k) = CallerPlace(n)
  BY <1>5 DEF Left, Clock, Round, CallerPlace
<1>13. Left(l) = Left(m) /\ Clock(l) = Clock(m) /\ AnswererPlace(l) = AnswererPlace(m)
  BY <1>6 DEF Left, Clock, AnswererPlace
<1>14. faults' = faults => (Refused(k, l) => Refuses(c, n, m))
  BY <1>5, <1>6, <1>7 DEF Refused, Refuses
<1>15. Onward(k, c) /\ Forth(l, a)
  BY <1>5, <1>6, <1>8, <1>12, <1>13 DEF GetsOn, Onward, Forth
<1>16. Lower(Rank(k, l, faults'), Rank(c, a, faults))
  <2>1. CASE faults < faults'
    BY <1>1, <1>2, <1>5, <1>6, <1>15, <2>1, RankFalls
  <2>2. CASE faults' = faults
    <3> DEFINE on == \/ Round(n) < Round(c)
                     \/ Round(n) = Round(c) /\ n.retries > c.retries
                     \/ Round(n) = Round(c) /\ n.retries = c.retries /\ CallerPlace(n) < CallerPlace(c)
                     \/ /\ Round(n) = Round(c) /\ n.retries = c.retries
                        /\ CallerPlace(n) = CallerPlace(c) /\ AnswererPlace(m) < AnswererPlace(a)
    <3>1. \/ Left(n) < Left(c) \/ Left(m) < Left(a)
          \/ Clock(n) < Clock(c) \/ Clock(m) < Clock(a)
          \/ m.retries > a.retries \/ n.page > c.page
          \/ Refused(c, a) /\ ~Refuses(c, n, m)
          \/ (Refuses(c, n, m) => Refused(c, a)) /\ on
      BY <1>8 DEF GetsOn
    <3>2. CASE \/ Left(n) < Left(c) \/ Left(m) < Left(a)
               \/ Clock(n) < Clock(c) \/ Clock(m) < Clock(a)
               \/ m.retries > a.retries \/ n.page > c.page
      BY <1>1, <1>2, <1>5, <1>6, <1>12, <1>13, <1>15, <3>2, RankFalls
    <3>3. CASE Refused(c, a) /\ ~Refuses(c, n, m)
      BY <1>1, <1>2, <1>5, <1>6, <1>14, <1>15, <2>2, <3>3, RankFalls
    <3>4. CASE (Refuses(c, n, m) => Refused(c, a)) /\ on
      BY <1>1, <1>2, <1>5, <1>6, <1>12, <1>13, <1>14, <1>15, <2>2, <3>4, RankFalls
    <3> QED BY <3>1, <3>2, <3>3, <3>4
  <2> QED BY <1>1, <1>2, <2>1, <2>2
<1> QED BY <1>9, <1>10, <1>11, <1>16 DEF Falls, RInv, RankNow, c, a, k, l

\* A step of the caller alone.
LEMMA CallerGetsOn ==
  ASSUME NEW c, CallerOK(c), NEW a, AnswererOK(a), Pair(c, a),
         NEW n, CallerSteps(n, c), Persists(n, c)
  PROVE  GetsOn(c, a, n, a) /\ Pair(n, a)
<1>1. c \in t30_state_t /\ a \in t30_state_t /\ n \in t30_state_t
  BY DEF CallerOK, AnswererOK, Persists
<1>2. Nearer(n, c)
  BY DEF CallerSteps
<1>3. Forth(a, a)
  BY <1>1, PlacesAreNumbers DEF Forth
<1>4. Refuses(c, n, a) => Refused(c, a)
  BY DEF Refuses, Refused, CallerSteps
<1>5. Pair(n, a)
  BY DEF Pair, CallerSteps, Persists
<1> QED BY <1>2, <1>3, <1>4, <1>5 DEF GetsOn, Nearer

\* A step of the answerer alone.
LEMMA AnswererGetsOn ==
  ASSUME NEW c, CallerOK(c), NEW a, AnswererOK(a), Pair(c, a),
         NEW m, AnswererSteps(m, a)
  PROVE  GetsOn(c, a, c, m) /\ Pair(c, m)
<1>1. c \in t30_state_t
  BY DEF CallerOK
<1>2. Ahead(m, a)
  BY DEF AnswererSteps
<1>3. Onward(c, c)
  BY <1>1, PlacesAreNumbers DEF Onward
<1>4. Refuses(c, c, m) => Refused(c, a)
  BY DEF Refuses, Refused, AnswererSteps
<1>5. Pair(c, m)
  BY DEF Pair, AnswererSteps
<1> QED BY <1>2, <1>3, <1>4, <1>5 DEF GetsOn, Ahead

\* The end of a signal of the caller.
LEMMA CallerSignalGetsOn ==
  ASSUME NEW c, CallerOK(c), CallerRow(c), NEW a, AnswererOK(a), AnswererRow(a), Pair(c, a),
         c.phase \in TxPhase, c.sending # None,
         NEW tuned \in BOOLEAN,
         tuned => a.phase \in RxPhase /\ (c.sending \in Fast => a.phase = "C_RX"),
         NEW m, m = IF ~tuned \/ c.fate = "lost" THEN a
                    ELSE IF c.sending \in Fast THEN HearFast(a, c.sending, c.fate, c.page)
                    ELSE HearFrames(a, c.sending, c.fate)
  PROVE  LET n == SendComplete(c)
         IN  GetsOn(c, a, n, m) /\ CallerRow(n) /\ AnswererRow(m) /\ Pair(n, m)
<1> DEFINE n == SendComplete(c)
<1>1. /\ CallerRow(n) /\ Nearer(n, c)
      /\ c.state = "D" => n.state = "D_TCF"
      /\ c.state = "D_TCF" => n.state = "D_POST_TCF"
      /\ c.state \in {"I", "II_Q"} => n.state = "II_Q"
      /\ c.state \in Over => n.state \in Over
      /\ c.state \in {"D", "D_TCF", "I", "II_Q"} \cup Over
  BY CallerSentSteps
<1>2. /\ a \in t30_state_t /\ c.fate \in Fate
      /\ c.sending \in {"DCS", "TCF", "PAGE", "MPS", "EOP", "DCN"}
      /\ c.sending = "PAGE" => c.state = "I"
  BY DEF CallerOK, AnswererOK, t30_state_t
<1>3. /\ AnswererRow(m) /\ Forth(m, a)
      /\ m.state \in {"III_Q_RTP", "III_Q_RTN"} => m = a \/ (a.state = "F_POST_DOC" /\ a.quality # "good")
      /\ m.state = "F_POST_DOC" =>
           \/ m = a
           \/ a.state = "F_POST_DOC" /\ m.quality = a.quality
           \/ c.sending \in Fast /\ m.timer = "T2" /\ (c.sending = "PAGE" => m.quality = c.fate)
  <2>1. CASE m = a
    BY <1>2, <2>1, PlacesAreNumbers DEF Forth
  <2>2. CASE tuned /\ c.sending \in Fast /\ m = HearFast(a, c.sending, c.fate, c.page)
    BY <1>2, <2>2, AnswererHearsFastWent DEF Waits, AnswererWent
  <2>3. CASE tuned /\ c.sending \notin Fast /\ m = HearFrames(a, c.sending, c.fate)
    <3>1. c.sending \in {"DCS", "MPS", "EOP", "DCN"}
      BY <1>2, <2>3 DEF Fast
    <3>2. Waits(a)
      BY <2>3 DEF Waits
    <3> QED BY <2>3, <3>1, <3>2, AnswererHearsWent DEF AnswererWent
  <2> QED BY <2>1, <2>2, <2>3
<1>4. c.state = "D" => c.sending \notin Fast
  BY DEF CallerRow, Fast
<1> HIDE DEF n
<1>5. Refuses(c, n, m) => Refused(c, a)
  <2> SUFFICES ASSUME Refuses(c, n, m) PROVE Refused(c, a)
    OBVIOUS
  <2>1. n.state = "II_Q" /\ c.state \in {"I", "II_Q"} /\ c.sending # "TCF"
    BY <1>1 DEF Refuses, Over, CallerRow, TxPhase, Silent, RxPhase
  <2>2. CASE m.state \in {"III_Q_RTP", "III_Q_RTN"}
    BY <1>3, <2>1, <2>2 DEF Refused
  <2>3. CASE m.state = "F_POST_DOC" /\ m.quality # "good"
    BY <1>2, <1>3, <2>1, <2>3 DEF Refused, Fast
  <2> QED BY <2>1, <2>2, <2>3 DEF Refuses
<1>6. Pair(n, m)
  BY <1>1, <1>3, <1>4 DEF Pair, Over
<1> QED BY <1>1, <1>3, <1>5, <1>6 DEF GetsOn, Nearer, n

\* The end of a signal of the answerer.
LEMMA AnswererSignalGetsOn ==
  ASSUME NEW c, CallerOK(c), CallerRow(c), NEW a, AnswererOK(a), AnswererRow(a),
         a.phase \in TxPhase, a.sending # None,
         NEW tuned \in BOOLEAN, tuned => c.phase \in RxPhase,
         NEW n, n = IF ~tuned \/ a.fate = "lost" THEN c
                    ELSE IF a.sending \in Fast THEN HearFast(c, a.sending, a.fate, a.page)
                    ELSE HearFrames(c, a.sending, a.fate)
  PROVE  LET m == SendComplete(a)
         IN  GetsOn(c, a, n, m) /\ CallerRow(n) /\ AnswererRow(m) /\ Pair(n, m)
<1> DEFINE m == SendComplete(a)
<1>1. AnswererRow(m) /\ Ahead(m, a) /\ m.state \in {"R", "F_FTT", "F_DOC"} \cup Over
  BY AnswererSentSteps DEF AnswererSteps
<1>2. c \in t30_state_t /\ a.sending \in {"DIS", "CFR", "FTT", "MCF", "RTP", "RTN", "DCN"}
  BY DEF CallerOK, AnswererOK
<1>3. n = c \/ CallerWent(n, c, a.sending)
  <2>1. CASE tuned /\ n = HearFrames(c, a.sending, a.fate)
    BY <1>2, <2>1, CallerHearsWent DEF Open
  <2> QED BY <1>2, <2>1 DEF Fast
<1>4. a.sending \in {"RTP", "RTN"} => a.state \in {"III_Q_RTP", "III_Q_RTN"}
  BY DEF AnswererRow, AnswererOK, Waiting, Over, TxPhase
<1> HIDE DEF m
<1>5. Refuses(c, n, m) => n = c /\ n.state = "I" /\ n.fate # "good"
  BY <1>1, <1>3 DEF Refuses, CallerWent, Over
<1>6. Refuses(c, n, m) => Refused(c, a)
  BY <1>5 DEF Refused
<1>7. CallerRow(n) /\ Pair(n, m)
  BY <1>1, <1>3 DEF CallerWent, Pair, Over
<1>8. GetsOn(c, a, n, m)
  <2>1. CASE n = c \/ Level(n, c)
    <3>1. Onward(n, c)
      BY <1>2, <2>1, PlacesAreNumbers DEF Onward, Level, Left
    <3>2. Round(n) = Round(c) /\ CallerPlace(n) = CallerPlace(c) /\ n.retries = c.retries
      BY <2>1 DEF Level, Round, CallerPlace, RxPhase, TxPhase
    <3> QED BY <1>1, <1>6, <3>1, <3>2 DEF GetsOn, Ahead
  <2>2. CASE Nearer(n, c)
    BY <1>1, <1>6, <2>2 DEF GetsOn, Ahead, Nearer
  <2>3. CASE c.state = "II_Q" /\ n.state = "D" /\ a.sending \in {"RTP", "RTN"} /\ Onward(n, c)
    <3>1. Refused(c, a)
      BY <1>4, <2>3 DEF Refused
    <3>2. ~Refuses(c, n, m)
      BY <2>3 DEF Refuses
    <3> QED BY <1>1, <2>3, <3>1, <3>2 DEF GetsOn, Ahead
  <2> QED BY <1>3, <2>1, <2>2, <2>3 DEF CallerWent
<1> QED BY <1>1, <1>7, <1>8 DEF m

-----------------------------------------------------------------------------
(* Every action gets on with the call. *)

LEMMA CallerAloneFalls ==
  ASSUME IInv, RInv, NEW n, CallerSteps(n, t30["caller"]), Persists(n, t30["caller"]),
         Becomes([t30 EXCEPT !["caller"] = n])
  PROVE  Falls
<1> DEFINE new == [t30 EXCEPT !["caller"] = n]
<1>1. new["caller"] = n /\ new["answerer"] = t30["answerer"] /\ Becomes(new)
  BY DEF IInv, Party
<1>2. GetsOn(t30["caller"], t30["answerer"], n, t30["answerer"]) /\ Pair(n, t30["answerer"])
  BY CallerGetsOn DEF IInv, RInv, Both
<1>3. n \in t30_state_t /\ t30["answerer"] \in t30_state_t /\ CallerRow(n)
  BY DEF Persists, CallerOK, IInv, Both, AnswererOK, CallerSteps
<1> HIDE DEF new
<1> QED BY <1>1, <1>2, <1>3, StepsFall DEF RInv

LEMMA AnswererAloneFalls ==
  ASSUME IInv, RInv, NEW m, AnswererSteps(m, t30["answerer"]), Quiet(m, t30["answerer"]),
         Becomes([t30 EXCEPT !["answerer"] = m])
  PROVE  Falls
<1> DEFINE new == [t30 EXCEPT !["answerer"] = m]
<1>1. new["answerer"] = m /\ new["caller"] = t30["caller"] /\ Becomes(new)
  BY DEF IInv, Party
<1>2. GetsOn(t30["caller"], t30["answerer"], t30["caller"], m) /\ Pair(t30["caller"], m)
  BY AnswererGetsOn DEF IInv, RInv, Both
<1>3. m \in t30_state_t /\ t30["caller"] \in t30_state_t /\ AnswererRow(m)
  BY DEF Quiet, AnswererOK, IInv, Both, CallerOK, AnswererSteps
<1> HIDE DEF new
<1> QED BY <1>1, <1>2, <1>3, StepsFall DEF RInv

LEMMA SignalEndsFalls ==
  ASSUME IInv, RInv, NEW p \in Party, SignalEnds(p)
  PROVE  Falls
<1> DEFINE c == t30["caller"]
           a == t30["answerer"]
<1>1. /\ Both(c, a) /\ CallerOK(c) /\ AnswererOK(a)
      /\ CallerRow(c) /\ AnswererRow(a) /\ Pair(c, a)
  BY DEF IInv, RInv, Both
<1>2. CASE p = "caller"
  <2> DEFINE n == SendComplete(c)
             m == IF ~Tuned("answerer", c.sending) \/ c.fate = "lost" THEN a
                  ELSE IF c.sending \in Fast THEN HearFast(a, c.sending, c.fate, c.page)
                  ELSE HearFrames(a, c.sending, c.fate)
             new == [t30 EXCEPT !["caller"] = n, !["answerer"] = m]
  <2>1. c.sending # None /\ c.phase \in TxPhase /\ Becomes(new)
    BY <1>2 DEF SignalEnds, Peer, OnAir
  <2>2. /\ Tuned("answerer", c.sending) \in BOOLEAN
        /\ Tuned("answerer", c.sending) =>
             a.phase \in RxPhase /\ (c.sending \in Fast => a.phase = "C_RX")
    BY DEF Tuned, RxPhase
  <2>3. GetsOn(c, a, n, m) /\ CallerRow(n) /\ AnswererRow(m) /\ Pair(n, m)
    BY <1>1, <2>1, <2>2, CallerSignalGetsOn
  <2>4. Moves(c, a, n, m)
    BY <1>1, <2>1, <2>2, CallerSignal
  <2>5. n \in t30_state_t /\ m \in t30_state_t
    BY <2>4 DEF Moves, Both, CallerOK, AnswererOK
  <2>6. new["caller"] = n /\ new["answerer"] = m
    BY DEF IInv, Party
  <2> HIDE DEF n, m, new
  <2> QED BY <2>1, <2>3, <2>5, <2>6, StepsFall
<1>3. CASE p = "answerer"
  <2> DEFINE m == SendComplete(a)
             n == IF ~Tuned("caller", a.sending) \/ a.fate = "lost" THEN c
                  ELSE IF a.sending \in Fast THEN HearFast(c, a.sending, a.fate, a.page)
                  ELSE HearFrames(c, a.sending, a.fate)
             new == [t30 EXCEPT !["answerer"] = m, !["caller"] = n]
  <2>1. a.sending # None /\ a.phase \in TxPhase /\ Becomes(new)
    BY <1>3 DEF SignalEnds, Peer, OnAir
  <2>2. /\ Tuned("caller", a.sending) \in BOOLEAN
        /\ Tuned("caller", a.sending) => c.phase \in RxPhase
    BY DEF Tuned, RxPhase
  <2>3. GetsOn(c, a, n, m) /\ CallerRow(n) /\ AnswererRow(m) /\ Pair(n, m)
    BY <1>1, <2>1, <2>2, AnswererSignalGetsOn
  <2>4. Moves(c, a, n, m)
    BY <1>1, <2>1, <2>2, AnswererSignal
  <2>5. n \in t30_state_t /\ m \in t30_state_t
    BY <2>4 DEF Moves, Both, CallerOK, AnswererOK
  <2>6. new["answerer"] = m /\ new["caller"] = n
    BY DEF IInv, Party
  <2> HIDE DEF n, m, new
  <2> QED BY <2>1, <2>3, <2>5, <2>6, StepsFall
<1> QED BY <1>2, <1>3 DEF Party

LEMMA ToneEndsFalls ==
  ASSUME IInv, RInv, NEW p \in Party, ToneEnds(p)
  PROVE  Falls
<1>1. /\ CallerOK(t30["caller"]) /\ AnswererOK(t30["answerer"])
      /\ CallerRow(t30["caller"]) /\ AnswererRow(t30["answerer"])
  BY DEF IInv, RInv, Both
<1>2. CASE p = "caller"
  <2>1. t30["caller"].state = "B"
    BY <1>1, <1>2 DEF ToneEnds, Tone, CallerOK, Over
  <2>2. Persists(SendComplete(t30["caller"]), t30["caller"])
    BY <1>1, <2>1, CallerSent
  <2>3. CallerSteps(SendComplete(t30["caller"]), t30["caller"])
    BY <1>1, <2>1, CallerSentSteps DEF CallerSteps, Over
  <2> QED BY <1>2, <2>2, <2>3, CallerAloneFalls DEF ToneEnds
<1>3. CASE p = "answerer"
  <2>1. Quiet(SendComplete(t30["answerer"]), t30["answerer"])
    BY <1>1, <1>3, AnswererSent DEF ToneEnds, Tone
  <2>2. AnswererSteps(SendComplete(t30["answerer"]), t30["answerer"])
    BY <1>1, <1>3, AnswererSentSteps DEF ToneEnds, Tone
  <2> QED BY <1>3, <2>1, <2>2, AnswererAloneFalls DEF ToneEnds
<1> QED BY <1>2, <1>3 DEF Party

LEMMA TimerT4Falls ==
  ASSUME IInv, RInv, NEW p \in Party, timer_t4_expired(p)
  PROVE  Falls
<1>1. CASE p = "caller"
  <2>1. Open(t30["caller"]) /\ CallerRow(t30["caller"])
    BY <1>1 DEF IInv, RInv, Both, Open, timer_t4_expired, T4Due, Listening
  <2> QED BY <1>1, <2>1, CallerT4, CallerT4Steps, CallerAloneFalls DEF timer_t4_expired
<1>2. CASE p = "answerer"
  <2>1. /\ Waits(t30["answerer"]) /\ AnswererRow(t30["answerer"])
        /\ t30["answerer"].timer = "T4"
    BY <1>2 DEF IInv, RInv, Both, Waits, timer_t4_expired, T4Due, Listening
  <2> QED BY <1>2, <2>1, AnswererT4, AnswererT4Steps, AnswererAloneFalls DEF timer_t4_expired
<1> QED BY <1>1, <1>2 DEF Party

LEMMA TimerT2Falls ==
  ASSUME IInv, RInv, NEW p \in Party, timer_t2_expired(p)
  PROVE  Falls
<1> DEFINE e == Expired(t30[p])
           n == CASE e.state = "F_DOC" -> Fails(e, "T2EXPFAXRX")
                  [] e.state = "F_POST_DOC" -> Fails(e, "T2EXPMPSRX")
                  [] e.state = "R" -> Fails(e, "T2EXPRX")
                  [] OTHER -> e
<1>1. /\ t30[p].phase \in RxPhase /\ t30[p].timer = "T2"
      /\ Becomes([t30 EXCEPT ![p] = StartReceiving(n, p)])
  BY DEF timer_t2_expired, T2Due, Listening
<1>2. \E status \in Status : n \in {e, Fails(e, status)}
  <2> HIDE DEF e
  <2>1. {"T2EXPFAXRX", "T2EXPMPSRX", "T2EXPRX"} \subseteq Status
    BY DEF Status
  <2>2. CASE e.state = "F_DOC"
    BY <2>1, <2>2
  <2>3. CASE e.state = "F_POST_DOC"
    BY <2>1, <2>3
  <2>4. CASE e.state = "R"
    BY <2>1, <2>4
  <2>5. CASE e.state \notin {"F_DOC", "F_POST_DOC", "R"}
    BY <2>1, <2>5
  <2> QED BY <2>2, <2>3, <2>4, <2>5
<1>3. PICK status \in Status : n \in {e, Fails(e, status)}
  BY <1>2
<1> HIDE DEF n
<1>4. CASE p = "caller"
  <2>1. Open(t30["caller"]) /\ CallerRow(t30["caller"])
    BY <1>1, <1>4 DEF IInv, RInv, Both, Open
  <2>2. /\ Persists(StartReceiving(n, "caller"), t30["caller"])
        /\ CallerSteps(StartReceiving(n, "caller"), t30["caller"])
    BY <1>1, <1>3, <1>4, <2>1, CallerT2, CallerT2Steps
  <2> QED BY <1>1, <1>4, <2>2, CallerAloneFalls
<1>5. CASE p = "answerer"
  <2>1. Waits(t30["answerer"]) /\ AnswererRow(t30["answerer"])
    BY <1>1, <1>5 DEF IInv, RInv, Both, Waits
  <2>2. /\ Quiet(StartReceiving(n, "answerer"), t30["answerer"])
        /\ AnswererSteps(StartReceiving(n, "answerer"), t30["answerer"])
    BY <1>1, <1>3, <1>5, <2>1, AnswererT2, AnswererT2Steps
  <2> QED BY <1>1, <1>5, <2>2, AnswererAloneFalls
<1> QED BY <1>4, <1>5 DEF Party

LEMMA TimerT0Falls ==
  ASSUME IInv, RInv, NEW p \in Party, timer_t0_expired(p)
  PROVE  Falls
<1> DEFINE n == Disconnect(Fails(t30[p], "T0EXPIRED"))
<1>1. /\ Becomes([t30 EXCEPT ![p] = n]) /\ "T0EXPIRED" \in Status
      /\ t30[p].t0_t1 = "T0" /\ t30[p].phase # "FINISHED"
  BY DEF timer_t0_expired, ClockDue, IInv, Status
<1>2. p = "caller" => Persists(n, t30["caller"]) /\ CallerSteps(n, t30["caller"])
  BY <1>1, CallerDrops, CallerT0Steps DEF IInv, RInv, Both
<1>3. p = "answerer" => Quiet(n, t30["answerer"]) /\ AnswererSteps(n, t30["answerer"])
  BY <1>1, AnswererDrops, AnswererT0Steps DEF IInv, RInv, Both
<1> HIDE DEF n
<1> QED BY <1>1, <1>2, <1>3, CallerAloneFalls, AnswererAloneFalls DEF Party

LEMMA TimerT1Falls ==
  ASSUME IInv, RInv, NEW p \in Party, timer_t1_expired(p)
  PROVE  Falls
<1> DEFINE s == Fails([t30[p] EXCEPT !.t0_t1 = "off"], "T1EXPIRED")
           n == CASE s.state = "T" -> Disconnect(s)
                  [] s.state = "R" -> SendDcn(s)
                  [] OTHER -> s
<1>1. /\ Becomes([t30 EXCEPT ![p] = n])
      /\ t30[p].t0_t1 = "T1" /\ t30[p].phase # "FINISHED"
  BY DEF timer_t1_expired, ClockDue
<1>2. CASE p = "caller"
  <2>1. CallerOK(t30[p]) /\ CallerRow(t30[p])
    BY <1>2 DEF IInv, RInv, Both
  <2>2. Persists(s, t30[p]) /\ Persists(Disconnect(s), t30[p])
    BY <2>1, CallerT1
  <2>3. s.state = t30[p].state /\ s.state # "R"
    BY <2>1 DEF Fails, CallerOK, t30_state_t, Over
  <2>4. n = IF s.state = "T" THEN Disconnect(s) ELSE s
    BY <2>3
  <2>5. CallerSteps(IF s.state = "T" THEN Disconnect(s) ELSE s, t30[p])
    BY <1>1, <2>1, CallerT1Steps
  <2> HIDE DEF n, s
  <2>6. Persists(n, t30["caller"]) /\ CallerSteps(n, t30["caller"])
    BY <1>2, <2>2, <2>4, <2>5
  <2> QED BY <1>1, <1>2, <2>6, CallerAloneFalls
<1>3. CASE p = "answerer"
  <2>1. AnswererOK(t30[p]) /\ AnswererRow(t30[p])
    BY <1>3 DEF IInv, RInv, Both
  <2>2. /\ Quiet(s, t30[p]) /\ s.state = t30[p].state
        /\ t30[p].state = "R" => Quiet(SendDcn(s), t30[p])
    BY <2>1, AnswererT1
  <2>3. t30[p].state # "T"
    BY <2>1 DEF AnswererOK, Over
  <2>4. AnswererSteps(IF s.state = "R" THEN SendDcn(s) ELSE s, t30[p])
    BY <1>1, <2>1, AnswererT1Steps
  <2> HIDE DEF s
  <2>5. Quiet(n, t30[p]) /\ AnswererSteps(n, t30[p])
    BY <2>2, <2>3, <2>4
  <2> HIDE DEF n
  <2> QED BY <1>1, <1>3, <2>5, AnswererAloneFalls
<1> QED BY <1>2, <1>3 DEF Party

LEMMA TerminateFalls ==
  ASSUME IInv, RInv, NEW p \in Party, t30_terminate(p)
  PROVE  Falls
<1> DEFINE s == t30[p]
           k == CASE s.state = "C" -> Disconnect(s)
                  [] s.state = "B" -> s
                  [] OTHER -> Fails(s, "CALLDROPPED")
           n == [k EXCEPT !.state = "FINISHED", !.phase = "FINISHED"]
<1>1. Becomes([t30 EXCEPT ![p] = n]) /\ s.phase # "FINISHED"
  BY DEF t30_terminate, HungUp
<1>2. k \in {s, Disconnect(s), Fails(s, "CALLDROPPED")}
  OBVIOUS
<1> HIDE DEF k
<1>3. p = "caller" => Persists(n, t30["caller"]) /\ CallerSteps(n, t30["caller"])
  BY <1>1, <1>2, CallerTerminates, CallerTerminateSteps DEF IInv, RInv, Both
<1>4. p = "answerer" => Quiet(n, t30["answerer"]) /\ AnswererSteps(n, t30["answerer"])
  BY <1>1, <1>2, AnswererTerminates, AnswererTerminateSteps DEF IInv, RInv, Both
<1> HIDE DEF n
<1> QED BY <1>1, <1>3, <1>4, CallerAloneFalls, AnswererAloneFalls DEF Party

\* A step that changes nothing is one of a call that is over.
LEMMA NextFalls ==
  ASSUME IInv, RInv, Next
  PROVE  Falls \/ UNCHANGED vars
  BY SignalEndsFalls, ToneEndsFalls, TimerT0Falls, TimerT1Falls, TimerT2Falls, TimerT4Falls,
     TerminateFalls
  DEF Next

LEMMA RowsBegin == Init => RInv
<1> SUFFICES ASSUME Init PROVE RInv
  OBVIOUS
<1>1. t30["caller"] = t30_restart("T") /\ t30["answerer"] = t30_restart("ANSWERING")
  BY DEF Init, Party
<1> QED BY <1>1 DEF RInv, CallerRow, AnswererRow, Pair, Known, t30_restart, TxPhase, None

\* Somebody has something to do until the call is over, or stranded.
LEMMA SomethingDue ==
  ASSUME IInv, RInv
  PROVE  Finished \/ Stranded \/ \E p \in Party : Due(p)
<1> DEFINE c == t30["caller"]
           a == t30["answerer"]
<1> SUFFICES ASSUME ~Due("caller"), ~Due("answerer"), ~Finished
             PROVE  Stranded
  BY DEF Party
<1>1. /\ CallerOK(c) /\ AnswererOK(a) /\ CallerRow(c) /\ AnswererRow(a) /\ Pair(c, a)
  BY DEF IInv, RInv, Both
<1>2. ~OnAir("caller") /\ ~OnAir("answerer")
  BY DEF Due
<1>3. \A unnoticed : \A s \in {"caller", "answerer"} : ~Hearing(s, unnoticed)
  BY <1>2 DEF Hearing, Peer
<1>4. /\ ~(c.sending # None /\ c.phase \in TxPhase)
      /\ ~(a.sending # None /\ a.phase \in TxPhase)
  BY <1>2 DEF OnAir
<1>5. c.phase # "FINISHED" /\ a.phase # "FINISHED"
  BY DEF Due, HungUp, Finished, Peer, Party
<1>6. c.t0_t1 = "off" /\ a.t0_t1 = "off"
  <2>1. \A s \in {c, a} : s.t0_t1 \in {"off", "T0", "T1"}
    BY <1>1 DEF CallerOK, AnswererOK, t30_state_t
  <2> QED BY <1>3, <1>5, <2>1 DEF Due, ClockDue
<1>7. /\ c.state \notin {"ANSWERING", "B"} /\ a.state \notin {"ANSWERING", "B"}
  BY DEF Due, Tone
<1>8. ~(c.timer = "T4" /\ c.phase \in RxPhase) /\ ~(a.timer = "T4" /\ a.phase \in RxPhase)
  BY <1>3 DEF Due, T4Due, Listening
<1>9. /\ ~(c.timer = "T2" /\ c.phase \in RxPhase /\ a.timer # "T4")
      /\ ~(a.timer = "T2" /\ a.phase \in RxPhase /\ c.timer # "T4")
  BY <1>3 DEF Due, T2Due, Listening, Peer
<1>10. /\ c.timer \in {"off", "T2", "T4"} /\ a.timer \in {"off", "T2", "T4"}
       /\ c.is_t4 \in BOOLEAN /\ a.is_t4 \in BOOLEAN
  BY <1>1 DEF CallerOK, AnswererOK, t30_state_t
<1> HIDE DEF c, a
<1>11. c.state \in {"D", "D_POST_TCF"} /\ c.phase \in RxPhase
  BY <1>1, <1>4, <1>5, <1>6, <1>7, <1>8
  DEF CallerOK, CallerRow, Silent, Over, RxPhase, TxPhase, None
<1>12. c.timer = "off"
  BY <1>1, <1>8, <1>10, <1>11 DEF CallerRow, Known
<1>13. a.state \in {"F_TCF", "F_DOC", "F_POST_DOC"}
  BY <1>1, <1>4, <1>5, <1>7, <1>8
  DEF AnswererOK, AnswererRow, Waiting, Over, RxPhase, TxPhase, None
<1>14. a.phase \in RxPhase
  BY <1>1, <1>13 DEF AnswererRow, RxPhase
<1>15. a.timer = "off"
  BY <1>8, <1>9, <1>10, <1>12, <1>14
<1>16. a.phase = "C_RX"
  BY <1>1, <1>11, <1>13, <1>15 DEF AnswererRow, Pair, Over
<1> QED BY <1>2, <1>12, <1>15, <1>16 DEF Stranded, c, a

-----------------------------------------------------------------------------
(* The theorems. *)

\* A rank has nothing negative in it.
LEMMA RankIsNatural ==
  ASSUME IInv
  PROVE  RankNow \in Ranks
<1> DEFINE c == t30["caller"]
           a == t30["answerer"]
<1>1. c \in t30_state_t /\ a \in t30_state_t /\ faults \in 0 .. MaxFaults
  BY DEF IInv, Both, CallerOK, AnswererOK
<1>2. /\ c.page \in 0 .. Pages
      /\ c.retries \in 0 .. MAX_MESSAGE_TRIES + 1 /\ a.retries \in 0 .. MAX_MESSAGE_TRIES + 1
  BY <1>1 DEF t30_state_t
<1>3. /\ Left(c) + Left(a) \in Nat /\ Clock(c) + Clock(a) \in Nat
      /\ Round(c) \in Nat /\ CallerPlace(c) \in Nat /\ AnswererPlace(a) \in Nat
  BY <1>1, PlacesAreNumbers
<1>4. /\ MaxFaults - faults \in Nat /\ Pages - c.page \in Nat
      /\ MAX_MESSAGE_TRIES + 1 - a.retries \in Nat /\ MAX_MESSAGE_TRIES + 1 - c.retries \in Nat
  BY <1>1, <1>2, T30Assumption
<1> QED BY <1>3, <1>4 DEF RankNow, Rank, Ranks

\* A call cannot go in circles and cannot stop short of its end but in Stranded:
\* every step takes its rank down, whatever the line does to the signals, and
\* until the end one of the guards of the handlers and timers of t30.c holds.

THEOREM CallsProgress == Spec => Progresses
<1>1. Init => IInv /\ RInv
  BY Begins, RowsBegin
<1>2. IInv /\ RInv /\ [Next]_vars => (IInv /\ RInv)'
  <2> SUFFICES ASSUME IInv, RInv, [Next]_vars
               PROVE  (IInv /\ RInv)'
    OBVIOUS
  <2>1. IInv'
    BY NextKeeps
  <2>2. CASE UNCHANGED vars
    BY <2>1, <2>2 DEF vars, RInv
  <2>3. CASE Next
    BY <2>1, <2>2, <2>3, NextFalls DEF Falls
  <2> QED BY <2>2, <2>3
<1>3. IInv /\ RInv => (Finished \/ Stranded \/ \E p \in Party : Due(p))
  BY SomethingDue
<1>4. IInv /\ RInv /\ [Next]_vars => [Lower(RankNow', RankNow)]_vars
  BY NextFalls DEF Falls
<1>5. IInv => RankNow \in Ranks
  BY RankIsNatural
<1> QED BY <1>1, <1>2, <1>3, <1>4, <1>5, PTL DEF Spec, Progresses

\* Those of the ranks in T that are lowest in their part i.
Lowest(T, i) == {r \in T : \A q \in T : r[i] <= q[i]}

Sifts(U, T, i) ==
  /\ U # {} /\ U \in SUBSET Ranks /\ U \subseteq T
  /\ \A r \in U, q \in T : ~(q[i] < r[i]) /\ (q[i] = r[i] => q \in U)

LEMMA LowestSifts ==
  ASSUME NEW T \in SUBSET Ranks, T # {}, NEW i \in 1 .. 10
  PROVE  Sifts(Lowest(T, i), T, i)
<1> DEFINE parts == {r[i] : r \in T}
<1>1. parts \subseteq Nat /\ parts # {}
  BY DEF Ranks
<1>2. PICK least \in parts : \A n \in parts : ~(<<n, least>> \in OpToRel(<, Nat))
  BY <1>1, NatLessThanWellFounded, WFMin
<1>3. least \in Nat /\ \A n \in parts : n \in Nat /\ ~(n < least)
  BY <1>1, <1>2 DEF OpToRel
<1>4. PICK s \in T : s[i] = least
  OBVIOUS
<1>5. \A q \in T : q[i] \in Nat /\ least <= q[i]
  BY <1>3
<1>6. s \in Lowest(T, i)
  BY <1>4, <1>5 DEF Lowest
<1>7. \A r \in Lowest(T, i), q \in T : r[i] <= q[i] /\ r[i] \in Nat /\ q[i] \in Nat /\ r \in T
  BY <1>5 DEF Lowest
<1>8. ASSUME NEW r \in Lowest(T, i), NEW q \in T, q[i] = r[i]
      PROVE  q \in Lowest(T, i)
  BY <1>7, <1>8 DEF Lowest
<1>9. Lowest(T, i) \subseteq T
  BY DEF Lowest
<1> HIDE DEF parts
<1> QED BY <1>6, <1>7, <1>8, <1>9 DEF Sifts

\* There is no endless way down from a rank: with CallsProgress, a call comes to
\* its end, or to where it is stranded, in finitely many steps.
THEOREM RanksWellFounded ==
  IsWellFoundedOn({pair \in Ranks \X Ranks : Lower(pair[1], pair[2])}, Ranks)
<1> DEFINE R == {pair \in Ranks \X Ranks : Lower(pair[1], pair[2])}
<1> SUFFICES ASSUME NEW T \in SUBSET Ranks, T # {}
             PROVE  \E x \in T : \A y \in T : <<y, x>> \notin R
  BY MinWF
<1> DEFINE S1 == Lowest(T, 1)
           S2 == Lowest(S1, 2)
           S3 == Lowest(S2, 3)
           S4 == Lowest(S3, 4)
           S5 == Lowest(S4, 5)
           S6 == Lowest(S5, 6)
           S7 == Lowest(S6, 7)
           S8 == Lowest(S7, 8)
           S9 == Lowest(S8, 9)
           S10 == Lowest(S9, 10)
<1>1. Sifts(S1, T, 1)
  BY LowestSifts
<1> HIDE DEF S1
<1>2. Sifts(S2, S1, 2)
  BY <1>1, LowestSifts DEF Sifts
<1> HIDE DEF S2
<1>3. Sifts(S3, S2, 3)
  BY <1>2, LowestSifts DEF Sifts
<1> HIDE DEF S3
<1>4. Sifts(S4, S3, 4)
  BY <1>3, LowestSifts DEF Sifts
<1> HIDE DEF S4
<1>5. Sifts(S5, S4, 5)
  BY <1>4, LowestSifts DEF Sifts
<1> HIDE DEF S5
<1>6. Sifts(S6, S5, 6)
  BY <1>5, LowestSifts DEF Sifts
<1> HIDE DEF S6
<1>7. Sifts(S7, S6, 7)
  BY <1>6, LowestSifts DEF Sifts
<1> HIDE DEF S7
<1>8. Sifts(S8, S7, 8)
  BY <1>7, LowestSifts DEF Sifts
<1> HIDE DEF S8
<1>9. Sifts(S9, S8, 9)
  BY <1>8, LowestSifts DEF Sifts
<1> HIDE DEF S9
<1>10. Sifts(S10, S9, 10)
  BY <1>9, LowestSifts DEF Sifts
<1> HIDE DEF S10
<1>11. PICK x \in S10 : TRUE
  BY <1>10 DEF Sifts
<1>12. SUFFICES ASSUME NEW y \in T, NEW i \in 1 .. 10, y[i] < x[i], \A j \in 1 .. i - 1 : y[j] = x[j]
                PROVE  FALSE
  BY <1>1, <1>2, <1>3, <1>4, <1>5, <1>6, <1>7, <1>8, <1>9, <1>10, <1>11 DEF Lower, Sifts
<1>13. x \in S1 /\ x \in S2 /\ x \in S3 /\ x \in S4 /\ x \in S5 /\ x \in S6 /\ x \in S7 /\ x \in S8 /\ x \in S9
  BY <1>1, <1>2, <1>3, <1>4, <1>5, <1>6, <1>7, <1>8, <1>9, <1>10, <1>11 DEF Sifts
<1>14. ASSUME NEW U, NEW V, NEW k \in 1 .. 10, Sifts(U, V, k), x \in U, y \in V, i \notin 1 .. k - 1
       PROVE  y \in U /\ i \notin 1 .. k
  <2>1. i # k
    BY <1>12, <1>14 DEF Sifts
  <2>2. y[k] = x[k]
    BY <1>12, <1>14, <2>1
  <2> QED BY <1>14, <2>1, <2>2 DEF Sifts
<1>15. y \in S3 /\ i \notin 1 .. 3
  BY <1>1, <1>2, <1>3, <1>13, <1>14
<1>16. y \in S6 /\ i \notin 1 .. 6
  BY <1>4, <1>5, <1>6, <1>13, <1>14, <1>15
<1>17. y \in S9 /\ i \notin 1 .. 9
  BY <1>7, <1>8, <1>9, <1>13, <1>14, <1>16
<1>18. i \notin 1 .. 10
  BY <1>10, <1>11, <1>14, <1>17
<1> QED BY <1>18
=============================================================================
