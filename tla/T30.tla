--------------------------------- MODULE T30 ---------------------------------
(***************************************************************************)
(* The T.30 fax protocol of src/oslec/spandsp-0.0.3/src/t30.c, with the    *)
(* modems of fax.c: a caller that sends a document page by page without    *)
(* error correction, an answerer that receives it, and a line that may     *)
(* spoil signals.  Both ends run the same code on a t30_state_t; a handler *)
(* is an operator on that record.                                          *)
(*                                                                         *)
(* A signal is a sequence of V.21 frames named by its final frame, the     *)
(* training check TCF, or a PAGE.  A handler that queues frames or starts  *)
(* a modem puts the signal into sending; it is over for both ends at once. *)
(***************************************************************************)
EXTENDS Integers, Sequences, FiniteSets

CONSTANTS
  Pages,              \* pages of the document
  Rates,              \* rates of fallback_sequence that both ends have
  MAX_MESSAGE_TRIES,  \* 3
  Faults,             \* what may happen to a signal on the line
  MaxFaults           \* bound on how often it does

\* What becomes of a signal.  "lost": it is not heard.  Of a V.21 sequence,
\* "garbled": only its flags are recognised, "cut": only its last frame is bad.
\* Of a fast signal, "untrained": the modem fails to train to it, "poor" and
\* "bad": bit errors, for copy_quality and for the check of the training.
Fate == {"good", "lost", "garbled", "cut", "untrained", "poor", "bad"}

ASSUME T30Assumption ==
  /\ Pages \in Nat \ {0} /\ Rates \in Nat \ {0}
  /\ MAX_MESSAGE_TRIES \in Nat /\ MaxFaults \in Nat
  /\ Faults \subseteq Fate

Party == {"caller", "answerer"}
Peer(p) == IF p = "caller" THEN "answerer" ELSE "caller"

Frame == {"DIS", "DCS", "CFR", "FTT", "MPS", "EOP", "MCF", "RTP", "RTN", "DCN"}
Fast == {"TCF", "PAGE"}
None == "none"

VARIABLES
  t30,    \* the t30_state_t of each party
  faults  \* signals spoilt so far

vars == <<t30, faults>>

State == {"T", "D", "D_TCF", "D_POST_TCF", "I", "II_Q",
          "ANSWERING", "R", "F_TCF", "F_CFR", "F_FTT", "F_DOC", "F_POST_DOC",
          "III_Q_MCF", "III_Q_RTP", "III_Q_RTN", "C", "B", "FINISHED"}
RxPhase == {"A", "B_RX", "C_RX", "D_RX"}
TxPhase == {"B_TX", "C_TX", "D_TX"}
Status == {"OK", "UNEXPECTED", "RETRYDCN", "CANNOTTRAIN", "DCNFAXRX", "DCNPHDRX", "NOCARRIERRX",
           "T2EXPFAXRX", "T2EXPMPSRX", "T2EXPRX", "T0EXPIRED", "T1EXPIRED", "CALLDROPPED"}

t30_state_t ==
  [ state : State,                        \* where it is in the flow charts
    phase : RxPhase \cup TxPhase \cup {"E", "FINISHED"},  \* what its modems do
    timer : {"off", "T2", "T4"},          \* timer_t2_t4
    is_t4 : BOOLEAN,                      \* timer_is_t4, also while it is off
    t0_t1 : {"off", "T0", "T1"},          \* timer_t0_t1, with far_end_detected
    retries : 0 .. MAX_MESSAGE_TRIES + 1,
    sending : Frame \cup Fast \cup {None}, \* in the transmitter
    fate : Fate,                          \* what will become of it
    status : Status,                      \* current_status
    step : {"MPS", "EOP", None},          \* next_tx_step, next_rx_step
    fallback : 0 .. Rates - 1,            \* current_fallback
    page : 0 .. Pages,                    \* being sent, or received into t4
    quality : Fate,                       \* copy_quality of the page received
    ended : Seq(1 .. Pages),              \* stored by t4_rx_end_page
    success : BOOLEAN ]                   \* "Success - delivered" was logged

t30_restart(state) ==
  [ state |-> state, phase |-> "A", timer |-> "off", is_t4 |-> FALSE, t0_t1 |-> "T0",
    retries |-> 0, sending |-> None, fate |-> "good", status |-> "OK", step |-> None,
    fallback |-> 0, page |-> 0, quality |-> "good", ended |-> <<>>, success |-> FALSE ]

Init ==
  /\ t30 = [p \in Party |-> t30_restart(IF p = "caller" THEN "T" ELSE "ANSWERING")]
  /\ faults = 0

-----------------------------------------------------------------------------
(* What the handlers are made of. *)

SetState(s, state) == [s EXCEPT !.state = state]

T2(s) == [s EXCEPT !.timer = "T2", !.is_t4 = FALSE]

T4Marked(s) == [s EXCEPT !.is_t4 = TRUE]

T4(s) == [s EXCEPT !.timer = "T4", !.is_t4 = TRUE]


\* Nothing happens on a change to the phase that it is in already, not even to
\* the timer that the phase would start.
SetPhase(s, phase) ==
  LET n == [s EXCEPT !.phase = phase]
  IN  IF phase = s.phase THEN s
      ELSE IF phase = "C_RX" THEN T2(n)
      ELSE IF phase \in {"B_TX", "D_TX"} /\ s.t0_t1 = "T0" THEN [n EXCEPT !.t0_t1 = "T1"]
      ELSE n

\* hdlc_tx_frame: a frame that finds another one waiting is dropped.
SendFrame(s, frame) == IF s.sending = None THEN [s EXCEPT !.sending = frame] ELSE s

Transmit(s, phase, state, signal) == SendFrame(SetState(SetPhase(s, phase), state), signal)

SendDcn(s) == Transmit(s, "D_TX", "C", "DCN")

Fails(s, status) == [s EXCEPT !.status = status]

Disconnect(s) == [s EXCEPT !.timer = "off", !.t0_t1 = "off", !.phase = "E", !.state = "B"]

Unexpected(s) == SendDcn(Fails(s, "UNEXPECTED"))

-----------------------------------------------------------------------------
(* Frames *)

Retry(s, repeat(_)) ==
  LET n == [s EXCEPT !.retries = @ + 1]
  IN  IF n.retries > MAX_MESSAGE_TRIES THEN SendDcn(Fails(n, "RETRYDCN")) ELSE repeat(n)

SendDcs(s) == Transmit(s, "B_TX", "D", "DCS")

start_sending_document(s) == SendDcs([s EXCEPT !.page = 1, !.retries = 0])

process_rx_dis(s) ==
  LET n == [s EXCEPT !.fallback = 0]
  IN  CASE s.state = "D_POST_TCF" -> Retry(n, SendDcs)
        [] s.state = "T" -> start_sending_document(n)
        [] OTHER -> Unexpected(n)

process_rx_dcs(s) ==
  IF s.state \in {"R", "F_DOC"} THEN SetPhase(SetState(s, "F_TCF"), "C_RX") ELSE Unexpected(s)

process_rx_cfr(s) ==
  IF s.state = "D_POST_TCF"
    THEN Transmit([s EXCEPT !.retries = 0], "C_TX", "I", "PAGE")
    ELSE Unexpected(s)

\* The next rate is chosen and send_dcs_sequence begun, but the phase stays what it
\* is: what waits for a phase to be sent in is the first frame of the sequence,
\* here named like the rest of it by the final one.
process_rx_ftt(s) ==
  LET n == [s EXCEPT !.retries = 0, !.fallback = @ + 1]
  IN  IF s.state # "D_POST_TCF" THEN Unexpected(s)
      ELSE IF n.fallback = Rates THEN SendDcn(Fails([n EXCEPT !.fallback = 0], "CANNOTTRAIN"))
      ELSE SendFrame(SetState(n, "D"), "DCS")

Store(s) == [s EXCEPT !.ended = Append(@, s.page)]

\* rx_start_page: what t4 has of a page that was not ended is lost.
Blank(s) == [s EXCEPT !.page = 0]

\* process_rx_mps and process_rx_eop
process_rx_post_message(s, step) ==
  LET n == [s EXCEPT !.step = step]
      more(m) == IF step = "MPS" THEN Blank(m) ELSE m
  IN  IF s.state # "F_POST_DOC" THEN Unexpected(s)
      ELSE CASE s.quality = "good" -> Transmit(more(Store(n)), "D_TX", "III_Q_MCF", "MCF")
             [] s.quality = "poor" -> Transmit(more(Store(n)), "D_TX", "III_Q_RTP", "RTP")
             [] OTHER -> Transmit(more(n), "D_TX", "III_Q_RTN", "RTN")

process_rx_mcf(s) ==
  LET n == [s EXCEPT !.retries = 0]
  IN  CASE s.state = "II_Q" /\ s.step = "MPS" ->
             Transmit([n EXCEPT !.page = @ + 1], "C_TX", "I", "PAGE")
        [] s.state = "II_Q" /\ s.step = "EOP" -> SendDcn([n EXCEPT !.success = TRUE])
        [] OTHER -> Unexpected(s)

RestartNextPage(s) == SendDcs([s EXCEPT !.retries = 0, !.page = @ + 1])

\* t4_tx_restart_page keeps the page that was sent.  The code begins with
\* send_dis_or_dtc_sequence in state D, whose step counter send_dcs_sequence takes
\* over: with an identification of one's own, which is assumed of both ends, CSI,
\* TSI and DCS go out.  (Without one a DTC would, a final frame, before the DCS.)
restart_sending_document(s) == SendDcs([s EXCEPT !.retries = 0])

\* process_rx_rtp and process_rx_rtn do the same.
process_rx_retrain(s) ==
  CASE s.state = "II_Q" /\ s.step = "MPS" -> restart_sending_document(s)
    [] s.state = "II_Q" /\ s.step = "EOP" -> SendDcn([s EXCEPT !.retries = 0])
    [] OTHER -> Unexpected(s)

process_rx_dcn(s) ==
  Disconnect(CASE s.state = "F_POST_DOC" -> Fails(s, "DCNFAXRX")
               [] s.state = "II_Q" /\ s.step = "MPS" -> Fails(s, "DCNPHDRX")
               [] OTHER -> s)

\* hdlc_accept_control_msg for a final frame.
Accept(s, frame) ==
  LET n == [s EXCEPT !.timer = "off", !.t0_t1 = "off"]
  IN  CASE frame = "DIS" -> process_rx_dis(n)
        [] frame = "DCS" -> process_rx_dcs(n)
        [] frame = "CFR" -> process_rx_cfr(n)
        [] frame = "FTT" -> process_rx_ftt(n)
        [] frame \in {"MPS", "EOP"} -> process_rx_post_message(n, frame)
        [] frame = "MCF" -> process_rx_mcf(n)
        [] frame \in {"RTP", "RTN"} -> process_rx_retrain(n)
        [] frame = "DCN" -> process_rx_dcn(n)

\* PUTBIT_FRAMING_OK: somebody is sending V.21 flags.
Framing(s) ==
  LET n == IF s.t0_t1 = "T0"
             THEN [s EXCEPT !.t0_t1 = "T1", !.phase = IF @ = "A" THEN "B_RX" ELSE @]
             ELSE s
  IN  IF n.timer = "T2" THEN [n EXCEPT !.timer = "off"] ELSE n

\* t30_hdlc_accept, for a whole sequence of frames: with its last frame lost
\* ("cut"), the ones before it restart the timer; with all of them bad
\* ("garbled") only the flags were seen.
HearFrames(s, frame, fate) ==
  CASE fate = "good" -> Accept(Framing(s), frame)
    [] fate = "cut" -> IF s.is_t4 THEN T4(Framing(s)) ELSE T2(Framing(s))
    [] OTHER -> Framing(s)

\* t30_non_ecm_put_bit, from the training to the end of the carrier.
HearFast(s, signal, fate, page) ==
  CASE fate = "untrained" ->
         IF s.state = "F_TCF" THEN [s EXCEPT !.timer = "off"]
                              ELSE Fails([s EXCEPT !.timer = "off"], "NOCARRIERRX")
    [] fate # "untrained" /\ s.state = "F_TCF" ->
         IF signal = "TCF" /\ fate = "good"
           THEN Transmit(Blank([s EXCEPT !.timer = "off"]), "B_TX", "F_CFR", "CFR")
           ELSE Transmit([s EXCEPT !.timer = "off"], "B_TX", "F_FTT", "FTT")
    [] OTHER ->
         LET n == IF signal = "PAGE" THEN [s EXCEPT !.page = page, !.quality = fate]
                                     ELSE [s EXCEPT !.quality = "bad"]
         IN  T2(SetPhase(SetState(IF n.status = "NOCARRIERRX" THEN Fails(n, "OK") ELSE n,
                                  "F_POST_DOC"), "D_RX"))

-----------------------------------------------------------------------------
(* Signals *)

NextStepLate(s) == IF s.page <= Pages THEN "MPS" ELSE "EOP"

check_next_tx_step(s) == IF s.page < Pages THEN "MPS" ELSE "EOP"

\* t30_send_complete
SendComplete(s) ==
  LET n == [s EXCEPT !.sending = None]
      listen(phase) == T4(SetPhase(n, phase))
  IN CASE s.state = "ANSWERING" -> SendFrame(SetState(T2(SetPhase(n, "B_TX")), "R"), "DIS")
       [] s.state \in {"R", "F_FTT"} -> listen("B_RX")
       [] s.state = "F_CFR" -> [SetPhase(SetState(n, "F_DOC"), "C_RX") EXCEPT !.step = "MPS"]
       [] s.state \in {"III_Q_MCF", "III_Q_RTP", "III_Q_RTN"} ->
            IF s.step = "MPS" THEN SetPhase(SetState(n, "F_DOC"), "C_RX") ELSE Disconnect(n)
       [] s.state = "II_Q" -> listen("D_RX")
       [] s.state = "B" -> [n EXCEPT !.state = "FINISHED", !.phase = "FINISHED"]
       [] s.state = "C" -> Disconnect(n)
       [] s.state = "D" -> Transmit(n, "C_TX", "D_TCF", "TCF")
       [] s.state = "D_TCF" -> SetState(listen("B_RX"), "D_POST_TCF")
       [] s.state = "I" ->
            LET step == check_next_tx_step(s)
            IN  Transmit([n EXCEPT !.step = step], "D_TX", "II_Q", step)
       [] OTHER -> n

OnAir(p) == t30[p].sending # None /\ t30[p].phase \in TxPhase

\* The V.21 receiver runs beside the fast one until that has trained.
Tuned(p, signal) ==
  \/ t30[p].phase = "C_RX"
  \/ t30[p].phase \in RxPhase /\ signal \notin Fast

\* The faults that make a difference to a signal.
Fates(signal) ==
  {"good"} \cup
  (Faults \cap CASE signal = "TCF"  -> {"lost", "untrained", "bad"}
                 [] signal = "PAGE" -> {"lost", "untrained", "poor", "bad"}
                 [] signal \in {"DIS", "DCS"} -> {"lost", "garbled", "cut"}
                 [] OTHER -> {"lost", "garbled"})

\* Give every new signal its fate; at most MaxFaults are spoilt.
Becomes(new) ==
  LET started == {p \in Party : new[p].sending \notin {None, t30[p].sending}}
  IN \E fate \in [started -> Faults \cup {"good"}] :
       /\ \A p \in started : fate[p] \in Fates(new[p].sending)
       /\ faults' = faults + Cardinality({p \in started : fate[p] # "good"})
       /\ faults' <= MaxFaults
       /\ t30' = [p \in Party |->
                    IF p \in started THEN [new[p] EXCEPT !.fate = fate[p]] ELSE new[p]]

\* The end of p's signal, at both ends of the line.
SignalEnds(p) ==
  LET q == Peer(p)
      s == t30[p]
      r == t30[q]
      heard == IF ~Tuned(q, s.sending) \/ s.fate = "lost" THEN r
               ELSE IF s.sending \in Fast THEN HearFast(r, s.sending, s.fate, s.page)
               ELSE HearFrames(r, s.sending, s.fate)
  IN  /\ OnAir(p)
      /\ Becomes([t30 EXCEPT ![p] = SendComplete(s), ![q] = heard])

\* The answer tone CED, and the silence of phase E, are over.
Tone(p) == t30[p].state \in {"ANSWERING", "B"}

ToneEnds(p) ==
  /\ Tone(p)
  /\ Becomes([t30 EXCEPT ![p] = SendComplete(t30[p])])

-----------------------------------------------------------------------------
(* Timers *)

\* A signal on its way stops p's timer in time, unless it goes unnoticed.
Hearing(p, unnoticed) ==
  LET q == Peer(p)
  IN  OnAir(q) /\ Tuned(p, t30[q].sending) /\ t30[q].fate \notin unnoticed

Spoilt == {"lost", "garbled"}

\* A party that is sending is not waiting for an answer.
Listening(p) == t30[p].phase \in RxPhase

Expired(s) == [s EXCEPT !.timer = "off"]

RepeatLastCommand(s) ==
  CASE s.state = "R" -> SendFrame(SetPhase(s, "B_TX"), "DIS")
    [] s.state = "F_CFR" -> SendFrame(SetPhase(s, "B_TX"), "CFR")
    [] s.state = "F_FTT" -> SendFrame(SetPhase(s, "B_TX"), "FTT")
    [] s.state = "III_Q_MCF" -> SendFrame(SetPhase(s, "D_TX"), "MCF")
    [] s.state = "III_Q_RTP" -> SendFrame(SetPhase(s, "D_TX"), "RTP")
    [] s.state = "III_Q_RTN" -> SendFrame(SetPhase(s, "D_TX"), "RTN")
    [] s.state = "II_Q" -> SendFrame(SetPhase(s, "D_TX"), s.step)
    [] s.state = "D" -> SendFrame(s, "DCS")
    [] OTHER -> s

T4Due(p) == t30[p].timer = "T4" /\ Listening(p) /\ ~Hearing(p, Spoilt)

timer_t4_expired(p) ==
  /\ T4Due(p)
  /\ Becomes([t30 EXCEPT ![p] = Retry(Expired(t30[p]), RepeatLastCommand)])

\* start_receiving_document: the caller has no file to receive into, and stays
\* in the phase it was put in.
StartReceiving(s, p) ==
  IF p = "caller" THEN SetPhase(s, "B_TX") ELSE Transmit(s, "B_TX", "R", "DIS")

\* T2 is twice T4, long enough for the other end to repeat what was lost; not long
\* enough for it to repeat the repeat.
T2Due(p) ==
  /\ t30[p].timer = "T2" /\ Listening(p) /\ ~Hearing(p, {"lost"})
  /\ t30[Peer(p)].timer = "T4" => t30[Peer(p)].retries > 0

timer_t2_expired(p) ==
  LET s == Expired(t30[p])
      n == CASE s.state = "F_DOC" -> Fails(s, "T2EXPFAXRX")
             [] s.state = "F_POST_DOC" -> Fails(s, "T2EXPMPSRX")
             [] s.state = "R" -> Fails(s, "T2EXPRX")
             [] OTHER -> s
  IN  /\ T2Due(p)
      /\ Becomes([t30 EXCEPT ![p] = StartReceiving(n, p)])

ClockDue(p, clock) ==
  t30[p].t0_t1 = clock /\ t30[p].phase # "FINISHED" /\ ~Hearing(p, Spoilt)

timer_t0_expired(p) ==
  /\ ClockDue(p, "T0")
  /\ Becomes([t30 EXCEPT ![p] = Disconnect(Fails(@, "T0EXPIRED"))])

timer_t1_expired(p) ==
  LET s == Fails([t30[p] EXCEPT !.t0_t1 = "off"], "T1EXPIRED")
  IN  /\ ClockDue(p, "T1")
      /\ Becomes([t30 EXCEPT ![p] = CASE s.state = "T" -> Disconnect(s)
                                      [] s.state = "R" -> SendDcn(s)
                                      [] OTHER -> s])

\* t30_terminate: the other end has finished and hung up.
HungUp(p) == t30[Peer(p)].phase = "FINISHED" /\ t30[p].phase # "FINISHED"

t30_terminate(p) ==
  LET s == t30[p]
      n == CASE s.state = "C" -> Disconnect(s)
             [] s.state = "B" -> s
             [] OTHER -> Fails(s, "CALLDROPPED")
  IN  /\ HungUp(p)
      /\ Becomes([t30 EXCEPT ![p] = [n EXCEPT !.state = "FINISHED", !.phase = "FINISHED"]])

-----------------------------------------------------------------------------
Finished == \A p \in Party : t30[p].phase = "FINISHED"

Next ==
  \/ \E p \in Party :
       \/ SignalEnds(p) \/ ToneEnds(p)
       \/ timer_t0_expired(p) \/ timer_t1_expired(p)
       \/ timer_t2_expired(p) \/ timer_t4_expired(p)
       \/ t30_terminate(p)
  \/ Finished /\ UNCHANGED vars

Spec == Init /\ [][Next]_vars

\* The modems and the timers are driven by the samples of the call, which go on
\* until it is finished; an end that has finished hangs up.
FairSpec == Spec /\ WF_vars(Next)
-----------------------------------------------------------------------------
(* Correctness. *)

\* The fields of t30_state_t keep to their values: the retries to MAX_MESSAGE_TRIES
\* and one, current_fallback to the rates, the page to the document.
TypeOK == t30 \in [Party -> t30_state_t] /\ faults \in 0 .. MaxFaults

\* What the handlers make of a document is a delivery: whatever the line does to
\* the signals, t4_rx_end_page stores the pages in their order, none is left out,
\* and "Success - delivered" is logged when the last one is stored.
Delivers ==
  INSTANCE Delivery WITH stored <- t30["answerer"].ended, reported <- t30["caller"].success

Delivered == Delivers!Spec

\* A page was refused, or a fast signal did not train.
Rejected ==
  \E p \in Party : t30[p].state \in {"III_Q_RTN", "III_Q_RTP"} \/ t30[p].fate = "untrained"

\* The answerer waits for a fast carrier without a timer, and the caller has
\* nothing left to repeat.
Stranded ==
  /\ t30["answerer"].phase = "C_RX" /\ t30["answerer"].timer = "off"
  /\ ~OnAir("caller") /\ t30["caller"].timer = "off"


\* Something is on its way for p: what the guards of the actions ask for.
Due(p) ==
  \/ OnAir(p) \/ Tone(p) \/ HungUp(p)
  \/ T4Due(p) \/ T2Due(p) \/ ClockDue(p, "T0") \/ ClockDue(p, "T1")

\* How much of a call is left, what counts most first: the way to hang up of
\* both ends, faults that may come, T0 and T1, the answerer's retries, pages, a
\* page that is or will be refused, training, the caller's retries, and where
\* they are: what a number costs in later ones, it pays by going down itself.
Left(s) ==
  CASE s.state = "ANSWERING" -> 4
    [] s.state = "C" -> 2
    [] s.state = "B" -> 1
    [] s.state = "FINISHED" -> 0
    [] OTHER -> 3

Clock(s) == CASE s.t0_t1 = "T0" -> 2 [] s.t0_t1 = "T1" -> 1 [] OTHER -> 0

Refused(c, a) ==
  /\ c.state \in {"I", "II_Q"}
  /\ \/ c.state = "I" /\ c.fate # "good"
     \/ a.state = "F_POST_DOC" /\ a.quality # "good"
     \/ a.state \in {"III_Q_RTP", "III_Q_RTN"}

\* A DCS that is queued without a phase to send it in is no training any more.
Round(c) ==
  CASE c.state \in {"D", "D_TCF", "D_POST_TCF"} ->
         IF c.state = "D" /\ c.phase \notin TxPhase THEN 0 ELSE 2
    [] c.state \in {"I", "II_Q"} -> 1
    [] OTHER -> 0

CallerPlace(c) ==
  CASE c.state = "D" -> 3
    [] c.state \in {"D_TCF", "I"} -> 2
    [] c.state = "D_POST_TCF" -> 1
    [] c.state = "II_Q" -> IF c.phase \in TxPhase THEN 1 ELSE 0
    [] c.state = "T" -> IF c.phase \in RxPhase THEN 1 ELSE 0
    [] OTHER -> 0

AnswererPlace(a) ==
  (IF a.state = "R" THEN 0 ELSE 2) + (IF a.phase \in TxPhase THEN 1 ELSE 0)

Rank(c, a, spoilt) ==
  << Left(c) + Left(a), MaxFaults - spoilt, Clock(c) + Clock(a),
     MAX_MESSAGE_TRIES + 1 - a.retries, Pages - c.page,
     IF Refused(c, a) THEN 1 ELSE 0, Round(c),
     MAX_MESSAGE_TRIES + 1 - c.retries, CallerPlace(c), AnswererPlace(a) >>

Ranks == [1 .. 10 -> Nat]

Lower(r, q) == \E i \in 1 .. 10 : r[i] < q[i] /\ \A j \in 1 .. i - 1 : r[j] = q[j]

RankNow == Rank(t30["caller"], t30["answerer"], faults)

\* A call cannot go in circles, since every step takes it lower, and cannot stop
\* short of its end but in Stranded: so it ends, or hangs there, after finitely many
\* steps, whatever is lost, repeated or refused.
Progresses ==
  /\ [](Finished \/ Stranded \/ \E p \in Party : Due(p))
  /\ [](RankNow \in Ranks)
  /\ [][Lower(RankNow', RankNow)]_vars

\* T2 is there "to detect the loss of command/response synchronization" (t30.c,
\* at DEFAULT_TIMER_T2): while neither end has anything to send, one of them has
\* a timer that will notice.
LossDetected ==
  \E p \in Party :
    \/ t30[p].sending # None \/ t30[p].state \in {"ANSWERING", "B", "FINISHED"}
    \/ t30[p].timer # "off" \/ t30[p].t0_t1 # "off"
=============================================================================
