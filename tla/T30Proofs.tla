------------------------------ MODULE T30Proofs ------------------------------
(***************************************************************************)
(* Proofs about T30, for documents, rates, retries and faults of any       *)
(* number: the records keep their types, and what the two ends make of a   *)
(* document is a delivery.                                                 *)
(***************************************************************************)
EXTENDS T30, FiniteSetTheorems, TLAPS

USE T30Assumption

(* The pieces of the handlers. *)

\* All of the state but where a party is, its timers and its transmitter.
SameRest(n, s) ==
  /\ n.retries = s.retries /\ n.step = s.step /\ n.fallback = s.fallback
  /\ n.page = s.page /\ n.quality = s.quality
  /\ n.ended = s.ended /\ n.success = s.success

Phase == RxPhase \cup TxPhase \cup {"E", "FINISHED"}

LEMMA PhaseSet ==
  ASSUME NEW s \in t30_state_t, NEW phase \in Phase
  PROVE  LET n == [s EXCEPT !.phase = phase]
         IN  /\ n \in t30_state_t /\ n.phase = phase /\ n.state = s.state
             /\ n.sending = s.sending /\ n.t0_t1 = s.t0_t1 /\ SameRest(n, s)
  BY DEF t30_state_t, Phase, SameRest

LEMMA T2Does ==
  ASSUME NEW s \in t30_state_t
  PROVE  LET n == T2(s)
         IN  /\ n \in t30_state_t /\ n.phase = s.phase /\ n.state = s.state
             /\ n.sending = s.sending /\ SameRest(n, s)
  BY DEF t30_state_t, SameRest, T2

LEMMA T4Does ==
  ASSUME NEW s \in t30_state_t
  PROVE  LET n == T4(s)
         IN  /\ n \in t30_state_t /\ n.phase = s.phase /\ n.state = s.state
             /\ n.sending = s.sending /\ SameRest(n, s)
  BY DEF t30_state_t, SameRest, T4

LEMMA T1Does ==
  ASSUME NEW s \in t30_state_t
  PROVE  LET n == [s EXCEPT !.t0_t1 = "T1"]
         IN  /\ n \in t30_state_t /\ n.phase = s.phase /\ n.state = s.state
             /\ n.sending = s.sending /\ SameRest(n, s)
  BY DEF t30_state_t, SameRest

LEMMA StateSet ==
  ASSUME NEW s \in t30_state_t, NEW state \in State
  PROVE  LET n == SetState(s, state)
         IN  /\ n \in t30_state_t /\ n.phase = s.phase /\ n.state = state
             /\ n.sending = s.sending /\ SameRest(n, s)
  BY DEF t30_state_t, SameRest, SetState

LEMMA FailsDoes ==
  ASSUME NEW s \in t30_state_t, NEW status \in Status
  PROVE  LET n == Fails(s, status)
         IN  /\ n \in t30_state_t /\ n.phase = s.phase /\ n.state = s.state
             /\ n.sending = s.sending /\ SameRest(n, s)
  BY DEF t30_state_t, SameRest, Fails

LEMMA SendFrameDoes ==
  ASSUME NEW s \in t30_state_t, NEW signal \in Frame \cup Fast
  PROVE  LET n == SendFrame(s, signal)
         IN  /\ n \in t30_state_t /\ n.phase = s.phase /\ n.state = s.state
             /\ n.sending = (IF s.sending = None THEN signal ELSE s.sending)
             /\ SameRest(n, s)
  BY DEF t30_state_t, SameRest, SendFrame

LEMMA SetPhaseDoes ==
  ASSUME NEW s \in t30_state_t, NEW phase \in Phase
  PROVE  LET n == SetPhase(s, phase)
         IN  /\ n \in t30_state_t /\ n.phase = phase /\ n.state = s.state
             /\ n.sending = s.sending /\ SameRest(n, s)
<1> DEFINE n == [s EXCEPT !.phase = phase]
<1>1. /\ n \in t30_state_t /\ n.phase = phase /\ n.state = s.state
      /\ n.sending = s.sending /\ SameRest(n, s)
  BY PhaseSet
<1> HIDE DEF n
<1>2. /\ T2(n) \in t30_state_t /\ T2(n).phase = phase /\ T2(n).state = s.state
      /\ T2(n).sending = s.sending /\ SameRest(T2(n), s)
  BY <1>1, T2Does DEF SameRest
<1> DEFINE m == [n EXCEPT !.t0_t1 = "T1"]
<1>3. /\ m \in t30_state_t /\ m.phase = phase /\ m.state = s.state
      /\ m.sending = s.sending /\ SameRest(m, s)
  BY <1>1, T1Does DEF SameRest
<1> HIDE DEF m
<1>4. SameRest(s, s)
  BY DEF SameRest
<1>5. \/ SetPhase(s, phase) = s /\ phase = s.phase
      \/ SetPhase(s, phase) \in {T2(n), m, n}
  BY DEF SetPhase, n, m
<1> QED BY <1>1, <1>2, <1>3, <1>4, <1>5

LEMMA TransmitDoes ==
  ASSUME NEW s \in t30_state_t, NEW phase \in Phase, NEW state \in State,
         NEW signal \in Frame \cup Fast
  PROVE  LET n == Transmit(s, phase, state, signal)
         IN  /\ n \in t30_state_t /\ n.phase = phase /\ n.state = state
             /\ n.sending = (IF s.sending = None THEN signal ELSE s.sending)
             /\ SameRest(n, s)
<1> DEFINE m == SetPhase(s, phase)
           k == SetState(m, state)
<1>1. m \in t30_state_t /\ m.phase = phase /\ m.sending = s.sending /\ SameRest(m, s)
  BY SetPhaseDoes
<1> HIDE DEF m
<1>2. /\ k \in t30_state_t /\ k.phase = phase /\ k.state = state
      /\ k.sending = s.sending /\ SameRest(k, s)
  BY <1>1, StateSet DEF SameRest
<1> HIDE DEF k
<1> QED BY <1>2, SendFrameDoes DEF Transmit, m, k, SameRest

LEMMA TimersOff ==
  ASSUME NEW s \in t30_state_t
  PROVE  LET n == [s EXCEPT !.timer = "off", !.t0_t1 = "off"]
         IN  /\ n \in t30_state_t /\ n.phase = s.phase /\ n.state = s.state
             /\ n.sending = s.sending /\ SameRest(n, s)
  BY DEF t30_state_t, SameRest

LEMMA TimerOff ==
  ASSUME NEW s \in t30_state_t
  PROVE  LET n == [s EXCEPT !.timer = "off"]
         IN  /\ n \in t30_state_t /\ n.phase = s.phase /\ n.state = s.state
             /\ n.sending = s.sending /\ SameRest(n, s)
  BY DEF t30_state_t, SameRest

LEMMA SendingOver ==
  ASSUME NEW s \in t30_state_t
  PROVE  LET n == [s EXCEPT !.sending = None]
         IN  /\ n \in t30_state_t /\ n.phase = s.phase /\ n.state = s.state
             /\ n.sending = None /\ SameRest(n, s)
  BY DEF t30_state_t, SameRest

LEMMA DisconnectDoes ==
  ASSUME NEW s \in t30_state_t
  PROVE  LET n == Disconnect(s)
         IN  /\ n \in t30_state_t /\ n.phase = "E" /\ n.state = "B"
             /\ n.sending = s.sending /\ SameRest(n, s)
  BY DEF t30_state_t, SameRest, Disconnect, State

LEMMA SendDcnDoes ==
  ASSUME NEW s \in t30_state_t
  PROVE  LET n == SendDcn(s)
         IN  /\ n \in t30_state_t /\ n.phase = "D_TX" /\ n.state = "C"
             /\ n.sending = (IF s.sending = None THEN "DCN" ELSE s.sending)
             /\ SameRest(n, s)
<1>1. "D_TX" \in Phase /\ "C" \in State /\ "DCN" \in Frame \cup Fast
  BY DEF Phase, TxPhase, State, Frame
<1> QED BY <1>1, TransmitDoes DEF SendDcn

LEMMA UnexpectedDoes ==
  ASSUME NEW s \in t30_state_t
  PROVE  LET n == Unexpected(s)
         IN  /\ n \in t30_state_t /\ n.phase = "D_TX" /\ n.state = "C"
             /\ n.sending = (IF s.sending = None THEN "DCN" ELSE s.sending)
             /\ SameRest(n, s)
<1>1. "UNEXPECTED" \in Status
  BY DEF Status
<1> DEFINE m == Fails(s, "UNEXPECTED")
<1>2. m \in t30_state_t /\ m.sending = s.sending /\ SameRest(m, s)
  BY <1>1, FailsDoes
<1> HIDE DEF m
<1> QED BY <1>2, SendDcnDoes DEF Unexpected, m, SameRest

LEMMA FramingDoes ==
  ASSUME NEW s \in t30_state_t, s.phase \in RxPhase
  PROVE  LET n == Framing(s)
         IN  /\ n \in t30_state_t /\ n.phase \in RxPhase /\ n.state = s.state
             /\ n.sending = s.sending /\ SameRest(n, s)
<1> DEFINE m == IF s.t0_t1 = "T0"
                  THEN [s EXCEPT !.t0_t1 = "T1", !.phase = IF @ = "A" THEN "B_RX" ELSE @]
                  ELSE s
<1>1. /\ m \in t30_state_t /\ m.phase \in RxPhase /\ m.state = s.state
      /\ m.sending = s.sending /\ SameRest(m, s)
  <2>1. CASE s.t0_t1 = "T0"
    BY <2>1 DEF t30_state_t, SameRest, RxPhase
  <2>2. CASE s.t0_t1 # "T0"
    BY <2>2 DEF SameRest
  <2> QED BY <2>1, <2>2
<1>2. Framing(s) = IF m.timer = "T2" THEN [m EXCEPT !.timer = "off"] ELSE m
  BY DEF Framing
<1> HIDE DEF m
<1> QED BY <1>1, <1>2, TimerOff DEF SameRest

-----------------------------------------------------------------------------
(* What holds of each party, and of both. *)

Over == {"C", "B", "FINISHED"}

CallerOK(c) ==
  /\ c \in t30_state_t
  /\ c.state \in {"T", "D", "D_TCF", "D_POST_TCF", "I", "II_Q"} \cup Over
  /\ c.sending \in {None, "DCS", "TCF", "PAGE", "MPS", "EOP", "DCN"}
  /\ c.phase \in RxPhase =>
       /\ c.state \notin Over
       /\ c.sending = None \/ (c.sending = "DCS" /\ c.state = "D")
  /\ c.phase \in TxPhase =>
       /\ c.sending \in {"MPS", "EOP"} => c.state = "II_Q"
       /\ c.sending = "PAGE" => c.state = "I"
  /\ c.phase = "E" => c.state = "B"
  /\ c.phase = "FINISHED" => c.state = "FINISHED"
  /\ c.state = "T" => c.page = 0
  /\ c.state \in {"D", "D_TCF", "D_POST_TCF", "I", "II_Q"} => c.page # 0
  /\ c.state = "II_Q" => c.step = IF c.page < Pages THEN "MPS" ELSE "EOP"
  /\ c.state \notin Over => ~c.success /\ c.retries <= MAX_MESSAGE_TRIES

Storable(a) == a.state = "F_POST_DOC" /\ a.quality \in {"good", "poor"}

AnswererOK(a) ==
  /\ a \in t30_state_t
  /\ a.state \in {"ANSWERING", "R", "F_TCF", "F_CFR", "F_FTT", "F_DOC", "F_POST_DOC",
                  "III_Q_MCF", "III_Q_RTP", "III_Q_RTN"} \cup Over
  /\ a.sending \in {None, "DIS", "CFR", "FTT", "MCF", "RTP", "RTN", "DCN"}
  /\ a.phase \in RxPhase =>
       /\ a.state \notin Over \cup {"F_CFR", "III_Q_MCF", "III_Q_RTP", "III_Q_RTN"}
       /\ a.sending = None
  /\ a.phase \in TxPhase => (a.sending = "MCF" => a.state = "III_Q_MCF")
  /\ a.phase = "E" => a.state = "B"
  /\ a.phase = "FINISHED" => a.state = "FINISHED"
  /\ Storable(a) => a.page # 0
  /\ a.state \notin Over => a.retries <= MAX_MESSAGE_TRIES

Last(seq) == IF seq = <<>> THEN 0 ELSE seq[Len(seq)]

Confirming(a) == a.phase \in TxPhase /\ a.sending = "MCF"

Agree(c, a) ==
  /\ c.page \in {Last(a.ended), Last(a.ended) + 1}
  /\ c.success => Last(a.ended) = Pages
  /\ Storable(a) => a.page = c.page
  /\ Confirming(a) => Last(a.ended) = c.page /\ c.state \in {"II_Q"} \cup Over

-----------------------------------------------------------------------------
(* The caller. *)

LEMMA CallerDcn ==
  ASSUME NEW c \in t30_state_t, c.sending \in {None, "DCS"}
  PROVE  CallerOK(SendDcn(c)) /\ SameRest(SendDcn(c), c)
<1> DEFINE n == SendDcn(c)
<1>1. /\ n \in t30_state_t /\ n.phase = "D_TX" /\ n.state = "C"
      /\ n.sending \in {"DCN", "DCS"} /\ SameRest(n, c)
  BY SendDcnDoes
<1> HIDE DEF n
<1> QED BY <1>1 DEF CallerOK, RxPhase, TxPhase, Over, n

LEMMA CallerDcs ==
  ASSUME NEW c \in t30_state_t, c.sending \in {None, "DCS"}, c.page # 0, ~c.success,
         c.retries <= MAX_MESSAGE_TRIES
  PROVE  CallerOK(SendDcs(c)) /\ SameRest(SendDcs(c), c)
<1> DEFINE n == SendDcs(c)
<1>1. "B_TX" \in Phase /\ "D" \in State /\ "DCS" \in Frame \cup Fast
  BY DEF Phase, TxPhase, State, Frame
<1>2. /\ n \in t30_state_t /\ n.phase = "B_TX" /\ n.state = "D" /\ n.sending = "DCS"
      /\ SameRest(n, c)
  BY <1>1, TransmitDoes DEF SendDcs
<1> HIDE DEF n
<1> QED BY <1>2 DEF CallerOK, RxPhase, TxPhase, Over, SameRest, n

LEMMA CallerPage ==
  ASSUME NEW c \in t30_state_t, c.sending = None, c.page # 0, ~c.success,
         c.retries <= MAX_MESSAGE_TRIES
  PROVE  LET n == Transmit(c, "C_TX", "I", "PAGE")
         IN  CallerOK(n) /\ SameRest(n, c)
<1> DEFINE n == Transmit(c, "C_TX", "I", "PAGE")
<1>1. "C_TX" \in Phase /\ "I" \in State /\ "PAGE" \in Frame \cup Fast
  BY DEF Phase, TxPhase, State, Fast
<1>2. /\ n \in t30_state_t /\ n.phase = "C_TX" /\ n.state = "I" /\ n.sending = "PAGE"
      /\ SameRest(n, c)
  BY <1>1, TransmitDoes
<1> HIDE DEF n
<1> QED BY <1>2 DEF CallerOK, RxPhase, TxPhase, Over, SameRest, n

\* A step of the caller that neither moves to another page nor reports success.
SamePage(n, c) == n.page = c.page /\ n.success = c.success /\ n.ended = c.ended

LEMMA CallerUnexpected ==
  ASSUME NEW c \in t30_state_t, c.sending \in {None, "DCS"}
  PROVE  CallerOK(Unexpected(c)) /\ SamePage(Unexpected(c), c)
<1> DEFINE m == Fails(c, "UNEXPECTED")
<1>1. m \in t30_state_t /\ m.sending = c.sending /\ SameRest(m, c)
  BY FailsDoes DEF Status
<1> HIDE DEF m
<1> QED BY <1>1, CallerDcn DEF Unexpected, m, SameRest, SamePage

\* What the handlers of the caller are given: it listens.
Open(c) == CallerOK(c) /\ c.phase \in RxPhase

LEMMA OpenSends ==
  ASSUME NEW c, Open(c)
  PROVE  /\ c \in t30_state_t /\ c.sending \in {None, "DCS"} /\ c.state \notin Over
         /\ c.state # "D" => c.sending = None
         /\ ~c.success /\ c.retries <= MAX_MESSAGE_TRIES
  BY DEF Open, CallerOK

LEMMA CallerRetry ==
  ASSUME NEW c, Open(c)
  PROVE  LET n == [c EXCEPT !.retries = @ + 1]
         IN  /\ n \in t30_state_t /\ n.sending = c.sending /\ n.state = c.state
             /\ n.phase = c.phase /\ SamePage(n, c) /\ n.step = c.step
             /\ n.retries = c.retries + 1
<1>1. c \in t30_state_t /\ c.retries <= MAX_MESSAGE_TRIES
  BY OpenSends
<1>2. c.retries \in Nat
  BY <1>1 DEF t30_state_t
<1>3. c.retries + 1 \in 0 .. MAX_MESSAGE_TRIES + 1
  BY <1>1, <1>2
<1> QED BY <1>1, <1>3 DEF t30_state_t, SamePage

\* After the last of the permitted retries the caller sends DCN.
LEMMA CallerGivesUp ==
  ASSUME NEW n \in t30_state_t, n.sending \in {None, "DCS"}
  PROVE  LET m == SendDcn(Fails(n, "RETRYDCN"))
         IN  CallerOK(m) /\ SamePage(m, n)
<1> DEFINE m == Fails(n, "RETRYDCN")
<1>1. m \in t30_state_t /\ m.sending = n.sending /\ SameRest(m, n)
  BY FailsDoes DEF Status
<1> HIDE DEF m
<1> QED BY <1>1, CallerDcn DEF m, SameRest, SamePage

LEMMA RxDis ==
  ASSUME NEW c, Open(c)
  PROVE  LET n == process_rx_dis(c)
         IN  /\ CallerOK(n)
             /\ SamePage(n, c) \/ (c.page = 0 /\ n.page = 1 /\ ~n.success /\ n.ended = c.ended)
<1> DEFINE m == [c EXCEPT !.fallback = 0]
<1>1. c \in t30_state_t /\ c.sending \in {None, "DCS"} /\ (c.state # "D" => c.sending = None)
      /\ ~c.success /\ c.retries <= MAX_MESSAGE_TRIES
  BY OpenSends
<1>2. 0 \in 0 .. Rates - 1
  OBVIOUS
<1>3. /\ m \in t30_state_t /\ m.sending = c.sending /\ m.state = c.state /\ m.phase = c.phase
      /\ m.retries = c.retries /\ m.step = c.step /\ SamePage(m, c)
  BY <1>1, <1>2 DEF t30_state_t, SamePage
<1>4. Open(m)
  BY <1>3 DEF Open, CallerOK, SamePage
<1> HIDE DEF m
<1>5. CASE c.state = "D_POST_TCF"
  <2> DEFINE k == [m EXCEPT !.retries = @ + 1]
  <2>1. /\ k \in t30_state_t /\ k.sending = None /\ SamePage(k, c)
        /\ k.page # 0 /\ k.retries = c.retries + 1
    BY <1>1, <1>3, <1>4, <1>5, CallerRetry DEF SamePage, Open, CallerOK
  <2>2. process_rx_dis(c) = IF k.retries > MAX_MESSAGE_TRIES
                              THEN SendDcn(Fails(k, "RETRYDCN")) ELSE SendDcs(k)
    BY <1>5 DEF process_rx_dis, Retry, m, k
  <2>3. k.retries \in Nat
    BY <2>1 DEF t30_state_t
  <2> HIDE DEF k
  <2>4. CASE k.retries > MAX_MESSAGE_TRIES
    BY <2>1, <2>2, <2>4, CallerGivesUp DEF SamePage
  <2>5. CASE k.retries <= MAX_MESSAGE_TRIES
    <3>1. ~k.success
      BY <1>1, <2>1 DEF SamePage
    <3>2. CallerOK(SendDcs(k)) /\ SameRest(SendDcs(k), k)
      BY <2>1, <2>5, <3>1, CallerDcs
    <3>3. process_rx_dis(c) = SendDcs(k)
      BY <2>2, <2>3, <2>5
    <3> QED BY <2>1, <3>2, <3>3 DEF SamePage, SameRest
  <2> QED BY <2>3, <2>4, <2>5
<1>6. CASE c.state = "T"
  <2> DEFINE k == [m EXCEPT !.page = 1, !.retries = 0]
  <2>1. 1 \in 0 .. Pages /\ 0 \in 0 .. MAX_MESSAGE_TRIES + 1
    OBVIOUS
  <2>2. /\ k \in t30_state_t /\ k.sending = None /\ k.page = 1 /\ k.retries = 0
        /\ k.success = c.success /\ k.ended = c.ended
    BY <1>1, <1>3, <1>6, <2>1 DEF t30_state_t, SamePage
  <2>3. process_rx_dis(c) = SendDcs(k)
    BY <1>6 DEF process_rx_dis, start_sending_document, m, k
  <2> HIDE DEF k
  <2>4. c.page = 0
    BY <1>6 DEF Open, CallerOK
  <2> QED BY <1>1, <2>2, <2>3, <2>4, CallerDcs DEF SameRest
<1>7. CASE c.state \notin {"D_POST_TCF", "T"}
  BY <1>3, <1>4, <1>7, OpenSends, CallerUnexpected DEF process_rx_dis, m, SamePage
<1> QED BY <1>5, <1>6, <1>7

LEMMA RxCfr ==
  ASSUME NEW c, Open(c)
  PROVE  LET n == process_rx_cfr(c) IN CallerOK(n) /\ SamePage(n, c)
<1>1. c \in t30_state_t /\ c.sending \in {None, "DCS"} /\ (c.state # "D" => c.sending = None)
      /\ ~c.success
  BY OpenSends
<1>2. CASE c.state = "D_POST_TCF"
  <2> DEFINE m == [c EXCEPT !.retries = 0]
  <2>1. 0 \in 0 .. MAX_MESSAGE_TRIES + 1
    OBVIOUS
  <2>2. /\ m \in t30_state_t /\ m.sending = None /\ m.retries = 0 /\ SamePage(m, c)
    BY <1>1, <1>2, <2>1 DEF t30_state_t, SamePage
  <2>3. c.page # 0
    BY <1>2 DEF Open, CallerOK
  <2>4. process_rx_cfr(c) = Transmit(m, "C_TX", "I", "PAGE")
    BY <1>2 DEF process_rx_cfr
  <2> HIDE DEF m
  <2> QED BY <1>1, <2>2, <2>3, <2>4, CallerPage DEF SameRest, SamePage
<1>3. CASE c.state # "D_POST_TCF"
  BY <1>1, <1>3, CallerUnexpected DEF process_rx_cfr
<1> QED BY <1>2, <1>3

LEMMA RxFtt ==
  ASSUME NEW c, Open(c)
  PROVE  LET n == process_rx_ftt(c) IN CallerOK(n) /\ SamePage(n, c)
<1>1. c \in t30_state_t /\ c.sending \in {None, "DCS"} /\ (c.state # "D" => c.sending = None)
      /\ ~c.success
  BY OpenSends
<1>2. CASE c.state = "D_POST_TCF"
  <2> DEFINE m == [c EXCEPT !.retries = 0, !.fallback = @ + 1]
             k == [m EXCEPT !.fallback = 0]
  <2>1. /\ 0 \in 0 .. MAX_MESSAGE_TRIES + 1 /\ 0 \in 0 .. Rates - 1
        /\ c.fallback \in 0 .. Rates - 1
    BY <1>1 DEF t30_state_t
  <2>2. CASE c.fallback + 1 = Rates
    <3>1. k \in t30_state_t /\ k.sending = None /\ SamePage(k, c)
      BY <1>1, <1>2, <2>1 DEF t30_state_t, SamePage
    <3>2. m.fallback = Rates
      BY <1>1, <2>2 DEF t30_state_t
    <3>3. process_rx_ftt(c) = SendDcn(Fails(k, "CANNOTTRAIN"))
      BY <1>2, <3>2 DEF process_rx_ftt
    <3> HIDE DEF k
    <3>4. /\ Fails(k, "CANNOTTRAIN") \in t30_state_t
          /\ Fails(k, "CANNOTTRAIN").sending = None
          /\ SameRest(Fails(k, "CANNOTTRAIN"), k)
      BY <3>1, FailsDoes DEF Status
    <3> QED BY <3>1, <3>3, <3>4, CallerDcn DEF SameRest, SamePage
  <2>3. CASE c.fallback + 1 # Rates
    <3>1. c.fallback + 1 \in 0 .. Rates - 1
      BY <2>1, <2>3
    <3>2. /\ m \in t30_state_t /\ m.sending = None /\ SamePage(m, c) /\ m.phase = c.phase
          /\ m.retries = 0 /\ m.fallback # Rates
      BY <1>1, <1>2, <2>1, <2>3, <3>1 DEF t30_state_t, SamePage
    <3>3. process_rx_ftt(c) = SendFrame(SetState(m, "D"), "DCS")
      BY <1>2, <3>2 DEF process_rx_ftt
    <3> HIDE DEF m
    <3> DEFINE k1 == SetState(m, "D")
               n == SendFrame(k1, "DCS")
    <3>4. /\ k1 \in t30_state_t /\ k1.sending = None /\ SamePage(k1, c) /\ k1.phase = c.phase
          /\ k1.retries = 0 /\ k1.state = "D"
      BY <3>2, StateSet DEF State, SameRest, SamePage
    <3> HIDE DEF k1
    <3>5. /\ n \in t30_state_t /\ n.sending = "DCS" /\ SamePage(n, c) /\ n.phase = c.phase
          /\ n.retries = 0 /\ n.state = "D"
      BY <3>4, SendFrameDoes DEF Frame, SameRest, SamePage
    <3> HIDE DEF n
    <3>6. c.page # 0 /\ c.phase \in RxPhase
      BY <1>2 DEF Open, CallerOK
    <3>7. CallerOK(n)
      BY <1>1, <3>5, <3>6 DEF CallerOK, RxPhase, TxPhase, Over, SamePage
    <3> QED BY <3>3, <3>5, <3>7 DEF k1, n
  <2> QED BY <2>2, <2>3
<1>3. CASE c.state # "D_POST_TCF"
  BY <1>1, <1>3, CallerUnexpected DEF process_rx_ftt
<1> QED BY <1>2, <1>3

LEMMA RxMcf ==
  ASSUME NEW c, Open(c)
  PROVE  LET n == process_rx_mcf(c)
         IN  /\ CallerOK(n) /\ n.ended = c.ended
             /\ \/ SamePage(n, c)
                \/ c.state = "II_Q" /\ n.page = c.page + 1 /\ ~n.success
                \/ c.state = "II_Q" /\ n.page = c.page /\ c.page = Pages /\ n.success
<1>1. c \in t30_state_t /\ c.sending \in {None, "DCS"} /\ (c.state # "D" => c.sending = None)
      /\ ~c.success
  BY OpenSends
<1>2. c.page \in 0 .. Pages
  BY <1>1 DEF t30_state_t
<1>3. CASE c.state = "II_Q" /\ c.step = "MPS"
  <2> DEFINE m == [c EXCEPT !.retries = 0, !.page = @ + 1]
             m0 == [[c EXCEPT !.retries = 0] EXCEPT !.page = @ + 1]
  <2>1. c.page < Pages
    BY <1>3 DEF Open, CallerOK
  <2>2. c.page + 1 \in 0 .. Pages /\ c.page + 1 # 0 /\ 0 \in 0 .. MAX_MESSAGE_TRIES + 1
    BY <1>2, <2>1
  <2>3. /\ m0 \in t30_state_t /\ m0.sending = None /\ m0.retries = 0 /\ m0.page = c.page + 1
        /\ m0.success = c.success /\ m0.ended = c.ended
    BY <1>1, <1>3, <2>2 DEF t30_state_t
  <2>4. process_rx_mcf(c) = Transmit(m0, "C_TX", "I", "PAGE")
    BY <1>3 DEF process_rx_mcf
  <2> HIDE DEF m0
  <2> QED BY <1>1, <1>3, <2>2, <2>3, <2>4, CallerPage DEF SameRest
<1>4. CASE c.state = "II_Q" /\ c.step = "EOP"
  <2> DEFINE m == [[c EXCEPT !.retries = 0] EXCEPT !.success = TRUE]
  <2>1. c.page = Pages
    BY <1>2, <1>4 DEF Open, CallerOK
  <2>2. 0 \in 0 .. MAX_MESSAGE_TRIES + 1
    OBVIOUS
  <2>3. /\ m \in t30_state_t /\ m.sending = None /\ m.page = c.page
        /\ m.success /\ m.ended = c.ended
    BY <1>1, <1>4, <2>2 DEF t30_state_t
  <2>4. process_rx_mcf(c) = SendDcn(m)
    BY <1>4 DEF process_rx_mcf
  <2> HIDE DEF m
  <2> QED BY <1>4, <2>1, <2>3, <2>4, CallerDcn DEF SameRest
<1>5. CASE ~(c.state = "II_Q" /\ c.step \in {"MPS", "EOP"})
  BY <1>1, <1>5, CallerUnexpected DEF process_rx_mcf, SamePage
<1> QED BY <1>3, <1>4, <1>5

LEMMA RxRetrain ==
  ASSUME NEW c, Open(c)
  PROVE  LET n == process_rx_retrain(c) IN CallerOK(n) /\ SamePage(n, c)
<1>1. c \in t30_state_t /\ c.sending \in {None, "DCS"} /\ (c.state # "D" => c.sending = None)
      /\ ~c.success
  BY OpenSends
<1> DEFINE m == [c EXCEPT !.retries = 0]
<1>2. 0 \in 0 .. MAX_MESSAGE_TRIES + 1
  OBVIOUS
<1>3. m \in t30_state_t /\ m.sending = c.sending /\ m.retries = 0 /\ SamePage(m, c)
  BY <1>1, <1>2 DEF t30_state_t, SamePage
<1>4. CASE c.state = "II_Q" /\ c.step = "MPS"
  <2>1. process_rx_retrain(c) = SendDcs(m)
    BY <1>4 DEF process_rx_retrain, restart_sending_document
  <2>2. c.page # 0
    BY <1>4 DEF Open, CallerOK
  <2> HIDE DEF m
  <2> QED BY <1>1, <1>3, <2>1, <2>2, CallerDcs DEF SameRest, SamePage
<1>5. CASE c.state = "II_Q" /\ c.step = "EOP"
  <2>1. process_rx_retrain(c) = SendDcn(m)
    BY <1>5 DEF process_rx_retrain
  <2> HIDE DEF m
  <2> QED BY <1>1, <1>3, <2>1, CallerDcn DEF SameRest, SamePage
<1>6. CASE ~(c.state = "II_Q" /\ c.step \in {"MPS", "EOP"})
  BY <1>1, <1>6, CallerUnexpected DEF process_rx_retrain
<1> QED BY <1>4, <1>5, <1>6

LEMMA CallerDisconnect ==
  ASSUME NEW c, c \in t30_state_t,
         c.sending \in {None, "DCS", "TCF", "PAGE", "MPS", "EOP", "DCN"}
  PROVE  LET n == Disconnect(c) IN CallerOK(n) /\ SamePage(n, c) /\ n.state = "B"
<1> DEFINE n == Disconnect(c)
<1>1. n \in t30_state_t /\ n.phase = "E" /\ n.state = "B" /\ n.sending = c.sending /\ SameRest(n, c)
  BY DisconnectDoes
<1> HIDE DEF n
<1> QED BY <1>1 DEF CallerOK, RxPhase, TxPhase, Over, SameRest, SamePage, n

\* process_rx_dcn ends in Disconnect, with one status or another.
LEMMA RxDcn ==
  ASSUME NEW s \in t30_state_t
  PROVE  \E m \in t30_state_t :
           /\ process_rx_dcn(s) = Disconnect(m)
           /\ m.sending = s.sending /\ m.state = s.state /\ SameRest(m, s)
<1>1. {"DCNFAXRX", "DCNPHDRX"} \subseteq Status
  BY DEF Status
<1>2. SameRest(s, s)
  BY DEF SameRest
<1>3. CASE s.state = "F_POST_DOC"
  BY <1>1, <1>3, FailsDoes DEF process_rx_dcn
<1>4. CASE s.state # "F_POST_DOC" /\ s.state = "II_Q" /\ s.step = "MPS"
  BY <1>1, <1>4, FailsDoes DEF process_rx_dcn
<1>5. CASE s.state # "F_POST_DOC" /\ ~(s.state = "II_Q" /\ s.step = "MPS")
  <2>1. process_rx_dcn(s) = Disconnect(s)
    BY <1>5 DEF process_rx_dcn
  <2> QED BY <1>2, <2>1
<1> QED BY <1>3, <1>4, <1>5

\* What the caller makes of a frame that it hears.
CallerHeard(n, c, frame) ==
  /\ CallerOK(n) /\ n.ended = c.ended
  /\ \/ SamePage(n, c)
     \/ c.page = 0 /\ n.page = 1 /\ ~n.success
     \/ frame = "MCF" /\ c.state = "II_Q" /\ n.page = c.page + 1 /\ ~n.success
     \/ frame = "MCF" /\ c.state = "II_Q" /\ n.page = c.page /\ c.page = Pages /\ n.success

LEMMA CallerAccepts ==
  ASSUME NEW c, Open(c), NEW frame \in {"DIS", "CFR", "FTT", "MCF", "RTP", "RTN", "DCN"}
  PROVE  CallerHeard(Accept(c, frame), c, frame)
<1> DEFINE m == [c EXCEPT !.timer = "off", !.t0_t1 = "off"]
<1>1. c \in t30_state_t /\ c.phase \in RxPhase
  BY DEF Open, CallerOK
<1>2. /\ m \in t30_state_t /\ m.phase = c.phase /\ m.state = c.state
      /\ m.sending = c.sending /\ SameRest(m, c)
  BY <1>1, TimersOff
<1>3. Open(m)
  BY <1>2 DEF Open, CallerOK, SameRest
<1>4. /\ frame = "DIS" => Accept(c, frame) = process_rx_dis(m)
      /\ frame = "CFR" => Accept(c, frame) = process_rx_cfr(m)
      /\ frame = "FTT" => Accept(c, frame) = process_rx_ftt(m)
      /\ frame = "MCF" => Accept(c, frame) = process_rx_mcf(m)
      /\ frame \in {"RTP", "RTN"} => Accept(c, frame) = process_rx_retrain(m)
      /\ frame = "DCN" => Accept(c, frame) = process_rx_dcn(m)
  BY DEF Accept
<1> HIDE DEF m
<1>5. CASE frame = "DIS"
  BY <1>2, <1>3, <1>4, <1>5, RxDis DEF CallerHeard, SamePage, SameRest
<1>6. CASE frame \in {"CFR", "FTT", "RTP", "RTN"}
  BY <1>2, <1>3, <1>4, <1>6, RxCfr, RxFtt, RxRetrain DEF CallerHeard, SamePage, SameRest
<1>7. CASE frame = "MCF"
  BY <1>2, <1>3, <1>4, <1>7, RxMcf DEF CallerHeard, SamePage, SameRest
<1>8. CASE frame = "DCN"
  <2>1. PICK k \in t30_state_t :
          /\ process_rx_dcn(m) = Disconnect(k)
          /\ k.sending = m.sending /\ k.state = m.state /\ SameRest(k, m)
    BY <1>2, RxDcn
  <2>2. k.sending \in {None, "DCS"}
    BY <1>3, <2>1, OpenSends
  <2> QED BY <1>2, <1>4, <1>8, <2>1, <2>2, CallerDisconnect DEF CallerHeard, SamePage, SameRest
<1> QED BY <1>5, <1>6, <1>7, <1>8

LEMMA CallerHears ==
  ASSUME NEW c, Open(c), NEW frame \in {"DIS", "CFR", "FTT", "MCF", "RTP", "RTN", "DCN"},
         NEW fate
  PROVE  CallerHeard(HearFrames(c, frame, fate), c, frame)
<1> DEFINE m == Framing(c)
<1>1. c \in t30_state_t /\ c.phase \in RxPhase
  BY DEF Open, CallerOK
<1>2. /\ m \in t30_state_t /\ m.phase \in RxPhase /\ m.state = c.state
      /\ m.sending = c.sending /\ SameRest(m, c)
  BY <1>1, FramingDoes
<1>3. HearFrames(c, frame, fate) \in {Accept(m, frame), T4(m), T2(m), m}
  BY DEF HearFrames
<1> HIDE DEF m
<1>4. \A k \in t30_state_t :
        /\ k.phase = m.phase /\ k.state = m.state /\ k.sending = m.sending /\ SameRest(k, m)
        => Open(k) /\ SamePage(k, c)
  BY <1>1, <1>2 DEF Open, CallerOK, SameRest, SamePage, RxPhase, TxPhase
<1>5. Open(m) /\ SamePage(m, c)
  BY <1>2, <1>4 DEF SameRest
<1>6. Open(T4(m)) /\ SamePage(T4(m), c) /\ Open(T2(m)) /\ SamePage(T2(m), c)
  BY <1>2, <1>4, T2Does, T4Does
<1>7. CallerHeard(Accept(m, frame), m, frame)
  BY <1>5, CallerAccepts
<1>8. CallerHeard(Accept(m, frame), c, frame)
  BY <1>2, <1>5, <1>7 DEF CallerHeard, SamePage
<1> QED BY <1>3, <1>5, <1>6, <1>8 DEF CallerHeard, Open, SamePage

\* A record that differs from an open one in its place only.
LEMMA CallerStays ==
  ASSUME NEW c, CallerOK(c), NEW n \in t30_state_t,
         n.phase = c.phase, n.state = c.state, n.sending = c.sending, SameRest(n, c)
  PROVE  CallerOK(n) /\ SamePage(n, c)
  BY DEF CallerOK, SameRest, SamePage, RxPhase, TxPhase, Over

\* The page and the success stay as they are, and a caller that waits for an
\* answer or has given up does not go back.
Persists(n, c) ==
  /\ CallerOK(n) /\ SamePage(n, c)
  /\ c.state \in {"II_Q"} \cup Over => n.state \in {"II_Q"} \cup Over

LEMMA CallerSent ==
  ASSUME NEW c, CallerOK(c), c.phase \in TxPhase \/ c.state = "B"
  PROVE  Persists(SendComplete(c), c)
<1> DEFINE m == [c EXCEPT !.sending = None]
<1>1. c \in t30_state_t /\ c.page \in 0 .. Pages
  BY DEF CallerOK, t30_state_t
<1>2. /\ m \in t30_state_t /\ m.phase = c.phase /\ m.state = c.state
      /\ m.sending = None /\ SameRest(m, c)
  BY <1>1, SendingOver
<1>3. /\ "B_RX" \in Phase /\ "D_RX" \in Phase /\ "C_TX" \in Phase /\ "D_TX" \in Phase
      /\ "D_TCF" \in State /\ "D_POST_TCF" \in State /\ "II_Q" \in State
      /\ "TCF" \in Frame \cup Fast /\ "MPS" \in Frame \cup Fast /\ "EOP" \in Frame \cup Fast
  BY DEF Phase, RxPhase, TxPhase, State, Frame, Fast
<1>4. CASE c.state = "II_Q"
  <2> DEFINE k == SetPhase(m, "D_RX")
             n == T4(k)
  <2>1. SendComplete(c) = n
    BY <1>4 DEF SendComplete
  <2> HIDE DEF m
  <2>2. /\ k \in t30_state_t /\ k.phase = "D_RX" /\ k.state = "II_Q" /\ k.sending = None
        /\ SameRest(k, c)
    BY <1>2, <1>3, <1>4, SetPhaseDoes DEF SameRest
  <2> HIDE DEF k
  <2>3. /\ n \in t30_state_t /\ n.phase = "D_RX" /\ n.state = "II_Q" /\ n.sending = None
        /\ SameRest(n, c)
    BY <2>2, T4Does DEF SameRest
  <2> HIDE DEF n
  <2>4. CallerOK(n) /\ SamePage(n, c)
    BY <1>4, <2>3 DEF CallerOK, SameRest, SamePage, RxPhase, TxPhase, Over
  <2> QED BY <2>1, <2>3, <2>4 DEF Persists
<1>5. CASE c.state = "C"
  <2>1. SendComplete(c) = Disconnect(m)
    BY <1>5 DEF SendComplete
  <2> HIDE DEF m
  <2> QED BY <1>2, <2>1, CallerDisconnect DEF SameRest, SamePage, Over, Persists
<1>6. CASE c.state = "B"
  <2> DEFINE n == [m EXCEPT !.state = "FINISHED", !.phase = "FINISHED"]
  <2>1. SendComplete(c) = n
    BY <1>6 DEF SendComplete
  <2> HIDE DEF m
  <2>2. /\ n \in t30_state_t /\ n.phase = "FINISHED" /\ n.state = "FINISHED" /\ n.sending = None
        /\ SameRest(n, c)
    BY <1>2 DEF t30_state_t, SameRest, State
  <2> HIDE DEF n
  <2> QED BY <1>6, <2>1, <2>2 DEF CallerOK, SameRest, SamePage, RxPhase, TxPhase, Over, Persists
<1>7. CASE c.state = "D"
  <2> DEFINE n == Transmit(m, "C_TX", "D_TCF", "TCF")
  <2>1. SendComplete(c) = n
    BY <1>7 DEF SendComplete
  <2> HIDE DEF m
  <2>2. "C_TX" \in Phase /\ "D_TCF" \in State /\ "TCF" \in Frame \cup Fast
    BY <1>3
  <2>3. /\ n \in t30_state_t /\ n.phase = "C_TX" /\ n.state = "D_TCF" /\ n.sending = "TCF"
        /\ SameRest(n, m)
    BY <1>2, <2>2, TransmitDoes
  <2>4. SameRest(n, c)
    BY <1>2, <2>3 DEF SameRest
  <2> HIDE DEF n
  <2> QED BY <1>7, <2>1, <2>3, <2>4 DEF CallerOK, SameRest, SamePage, RxPhase, TxPhase, Over, Persists
<1>8. CASE c.state = "D_TCF"
  <2> DEFINE k == SetPhase(m, "B_RX")
             l == T4(k)
             n == SetState(l, "D_POST_TCF")
  <2>1. SendComplete(c) = n
    BY <1>8 DEF SendComplete
  <2> HIDE DEF m
  <2>2. k \in t30_state_t /\ k.phase = "B_RX" /\ k.sending = None /\ SameRest(k, c)
    BY <1>2, <1>3, SetPhaseDoes DEF SameRest
  <2> HIDE DEF k
  <2>3. l \in t30_state_t /\ l.phase = "B_RX" /\ l.sending = None /\ SameRest(l, c)
    BY <2>2, T4Does DEF SameRest
  <2> HIDE DEF l
  <2>4. /\ n \in t30_state_t /\ n.phase = "B_RX" /\ n.state = "D_POST_TCF" /\ n.sending = None
        /\ SameRest(n, c)
    BY <1>3, <2>3, StateSet DEF SameRest
  <2> HIDE DEF n
  <2> QED BY <1>8, <2>1, <2>4 DEF CallerOK, SameRest, SamePage, RxPhase, TxPhase, Over, Persists
<1>9. CASE c.state = "I"
  <2> DEFINE step == check_next_tx_step(c)
             k == [m EXCEPT !.step = step]
             n == Transmit(k, "D_TX", "II_Q", step)
  <2>1. SendComplete(c) = n
    BY <1>9 DEF SendComplete
  <2>2. step = (IF c.page < Pages THEN "MPS" ELSE "EOP") /\ step \in {"MPS", "EOP"}
    BY DEF check_next_tx_step
  <2> HIDE DEF m, step
  <2>3. /\ k \in t30_state_t /\ k.sending = None /\ SamePage(k, c) /\ k.step = step
        /\ k.retries = c.retries
    BY <1>2, <2>2 DEF t30_state_t, SameRest, SamePage
  <2> HIDE DEF k
  <2>4. /\ n \in t30_state_t /\ n.phase = "D_TX" /\ n.state = "II_Q" /\ n.sending = step
        /\ SameRest(n, k)
    <3>1. "D_TX" \in Phase /\ "II_Q" \in State /\ step \in Frame \cup Fast
      BY <1>3, <2>2
    <3> QED BY <2>3, <3>1, TransmitDoes
  <2> HIDE DEF n
  <2>5. ~c.success /\ c.page # 0 /\ c.retries <= MAX_MESSAGE_TRIES
    BY <1>9 DEF CallerOK, Over
  <2>6. /\ n.page = c.page /\ n.success = c.success /\ n.ended = c.ended /\ n.step = step
        /\ n.retries = c.retries
    BY <2>3, <2>4 DEF SameRest, SamePage
  <2>7. CallerOK(n)
    BY <2>2, <2>4, <2>5, <2>6 DEF CallerOK, RxPhase, TxPhase, Over
  <2> QED BY <1>9, <2>1, <2>6, <2>7 DEF SamePage, Over, Persists
<1>10. CASE c.state \in {"T", "D_POST_TCF", "FINISHED"}
  <2>1. SendComplete(c) = m
    BY <1>10 DEF SendComplete
  <2> HIDE DEF m
  <2> QED BY <1>2, <1>10, <2>1 DEF Persists, None, CallerOK, SameRest, SamePage, RxPhase, TxPhase, Over
<1> QED BY <1>4, <1>5, <1>6, <1>7, <1>8, <1>9, <1>10 DEF CallerOK, Over

LEMMA CallerT4 ==
  ASSUME NEW c, Open(c)
  PROVE  Persists(Retry(Expired(c), RepeatLastCommand), c)
<1> DEFINE m == Expired(c)
           k == [m EXCEPT !.retries = @ + 1]
           n == Retry(m, RepeatLastCommand)
<1>1. c \in t30_state_t /\ CallerOK(c)
  BY DEF Open, CallerOK
<1>2. /\ m \in t30_state_t /\ m.phase = c.phase /\ m.state = c.state
      /\ m.sending = c.sending /\ SameRest(m, c)
  BY <1>1, TimerOff DEF Expired
<1>3. Open(m)
  BY <1>1, <1>2, CallerStays DEF Open
<1>4. n = IF k.retries > MAX_MESSAGE_TRIES THEN SendDcn(Fails(k, "RETRYDCN"))
          ELSE RepeatLastCommand(k)
  BY DEF Retry
<1> SUFFICES Persists(n, c)
  OBVIOUS
<1> HIDE DEF m
<1>5. /\ k \in t30_state_t /\ k.sending = c.sending /\ k.state = c.state
      /\ k.phase = c.phase /\ SamePage(k, c) /\ k.step = c.step /\ k.retries = m.retries + 1
  BY <1>2, <1>3, CallerRetry DEF SamePage, SameRest
<1>6. k.retries \in Nat
  BY <1>5 DEF t30_state_t
<1> HIDE DEF k, n
<1>7. CASE k.retries > MAX_MESSAGE_TRIES
  <2> DEFINE l == Fails(k, "RETRYDCN")
  <2>1. l \in t30_state_t
    BY <1>5, FailsDoes DEF Status
  <2>2. SendDcn(l).state = "C"
    BY <2>1, SendDcnDoes
  <2>3. c.sending \in {None, "DCS"}
    BY OpenSends
  <2> HIDE DEF l
  <2>4. CallerOK(SendDcn(l)) /\ SamePage(SendDcn(l), k)
    BY <1>5, <2>3, CallerGivesUp DEF l
  <2> QED BY <1>4, <1>5, <1>7, <2>2, <2>4 DEF Persists, Over, SamePage, l
<1>8. CASE k.retries <= MAX_MESSAGE_TRIES
  <2>1. n = RepeatLastCommand(k)
    BY <1>4, <1>6, <1>8
  <2>2. CASE c.state = "II_Q"
    <3> DEFINE l == SetPhase(k, "D_TX")
               o == SendFrame(l, k.step)
    <3>1. n = o
      BY <1>5, <2>1, <2>2 DEF RepeatLastCommand
    <3>2. "D_TX" \in Phase /\ k.step \in {"MPS", "EOP"} /\ k.step \in Frame \cup Fast
      BY <1>1, <1>5, <2>2 DEF Phase, TxPhase, Frame, CallerOK
    <3>3. /\ l \in t30_state_t /\ l.phase = "D_TX" /\ l.state = k.state /\ l.sending = k.sending
          /\ SameRest(l, k)
      BY <1>5, <3>2, SetPhaseDoes
    <3>4. k.sending = None
      BY <1>5, <2>2, OpenSends
    <3> HIDE DEF l
    <3>5. /\ o \in t30_state_t /\ o.phase = "D_TX" /\ o.state = "II_Q" /\ o.sending = k.step
          /\ SameRest(o, l)
      BY <1>5, <2>2, <3>2, <3>3, <3>4, SendFrameDoes
    <3> HIDE DEF o
    <3>6. SamePage(o, c) /\ o.step = c.step /\ o.retries = k.retries
      BY <1>5, <3>3, <3>5 DEF SameRest, SamePage
    <3>7. CallerOK(o)
      BY <1>1, <1>8, <2>2, <3>2, <3>5, <3>6
      DEF CallerOK, SamePage, RxPhase, TxPhase, Over
    <3> QED BY <2>2, <3>1, <3>5, <3>6, <3>7 DEF Persists
  <2>3. CASE c.state = "D"
    <3> DEFINE o == SendFrame(k, "DCS")
    <3>1. n = o
      BY <1>5, <2>1, <2>3 DEF RepeatLastCommand
    <3>2. "DCS" \in Frame \cup Fast
      BY DEF Frame
    <3>3. c.sending \in {None, "DCS"}
      BY OpenSends
    <3>4. /\ o \in t30_state_t /\ o.phase = c.phase /\ o.state = "D" /\ o.sending = "DCS"
          /\ SameRest(o, k)
      BY <1>5, <2>3, <3>2, <3>3, SendFrameDoes
    <3> HIDE DEF o
    <3>5. SamePage(o, c) /\ o.retries = k.retries
      BY <1>5, <3>4 DEF SameRest, SamePage
    <3>6. CallerOK(o)
      BY <1>1, <1>8, <2>3, <3>4, <3>5 DEF CallerOK, SamePage, RxPhase, TxPhase, Over
    <3> QED BY <2>3, <3>1, <3>5, <3>6 DEF Persists, Over
  <2>4. CASE c.state \notin {"II_Q", "D"}
    <3>1. n = k
      BY <1>1, <1>5, <2>1, <2>4 DEF RepeatLastCommand, CallerOK, Over
    <3>2. CallerOK(k)
      BY <1>1, <1>5, <1>8, <2>4 DEF CallerOK, SamePage, RxPhase, TxPhase, Over
    <3> QED BY <1>5, <3>1, <3>2 DEF Persists
  <2> QED BY <2>2, <2>3, <2>4
<1> QED BY <1>6, <1>7, <1>8

\* The caller has no file to receive into: T2 only puts it into phase B.
LEMMA CallerT2 ==
  ASSUME NEW c, Open(c), NEW status \in Status,
         NEW k, k \in {Expired(c), Fails(Expired(c), status)}
  PROVE  Persists(StartReceiving(k, "caller"), c)
<1> DEFINE n == SetPhase(k, "B_TX")
<1>1. c \in t30_state_t /\ CallerOK(c) /\ c.phase \in RxPhase
  BY DEF Open, CallerOK
<1>2. /\ k \in t30_state_t /\ k.state = c.state
      /\ k.sending = c.sending /\ SameRest(k, c)
  <2> DEFINE e == Expired(c)
  <2>1. e \in t30_state_t /\ e.state = c.state /\ e.sending = c.sending /\ SameRest(e, c)
    BY <1>1, TimerOff DEF Expired
  <2> HIDE DEF e
  <2> QED BY <2>1, FailsDoes DEF SameRest, e
<1>3. "B_TX" \in Phase
  BY DEF Phase, TxPhase
<1>4. /\ n \in t30_state_t /\ n.phase = "B_TX" /\ n.state = c.state
      /\ n.sending = c.sending /\ SameRest(n, k)
  BY <1>2, <1>3, SetPhaseDoes
<1>5. StartReceiving(k, "caller") = n
  BY DEF StartReceiving
<1> HIDE DEF n
<1>6. CallerOK(n) /\ SamePage(n, c)
  BY <1>1, <1>2, <1>4 DEF CallerOK, SameRest, SamePage, RxPhase, TxPhase, Over, None
<1> QED BY <1>4, <1>5, <1>6 DEF Persists

LEMMA CallerDrops ==
  ASSUME NEW c, CallerOK(c), NEW status \in Status
  PROVE  Persists(Disconnect(Fails(c, status)), c)
<1> DEFINE m == Fails(c, status)
<1>1. c \in t30_state_t /\ c.sending \in {None, "DCS", "TCF", "PAGE", "MPS", "EOP", "DCN"}
  BY DEF CallerOK
<1>2. m \in t30_state_t /\ m.sending = c.sending /\ SameRest(m, c)
  BY <1>1, FailsDoes
<1> HIDE DEF m
<1>3. CallerOK(Disconnect(m)) /\ SamePage(Disconnect(m), m) /\ Disconnect(m).state = "B"
  BY <1>1, <1>2, CallerDisconnect
<1> QED BY <1>2, <1>3 DEF Persists, SamePage, SameRest, Over, m

LEMMA CallerT1 ==
  ASSUME NEW c, CallerOK(c)
  PROVE  LET s == Fails([c EXCEPT !.t0_t1 = "off"], "T1EXPIRED")
         IN  Persists(s, c) /\ Persists(Disconnect(s), c)
<1> DEFINE m == [c EXCEPT !.t0_t1 = "off"]
           s == Fails(m, "T1EXPIRED")
<1>1. c \in t30_state_t /\ c.sending \in {None, "DCS", "TCF", "PAGE", "MPS", "EOP", "DCN"}
  BY DEF CallerOK
<1>2. /\ m \in t30_state_t /\ m.phase = c.phase /\ m.state = c.state /\ m.sending = c.sending
      /\ SameRest(m, c)
  BY <1>1 DEF t30_state_t, SameRest
<1> HIDE DEF m
<1>3. CallerOK(m) /\ SamePage(m, c)
  BY <1>2, CallerStays
<1>4. /\ s \in t30_state_t /\ s.phase = c.phase /\ s.state = c.state /\ s.sending = c.sending
      /\ SameRest(s, c)
  BY <1>2, FailsDoes DEF SameRest, Status
<1>5. CallerOK(s) /\ SamePage(s, c)
  BY <1>4, CallerStays
<1>6. Persists(Disconnect(s), m)
  BY <1>3, CallerDrops DEF Status
<1> QED BY <1>2, <1>3, <1>4, <1>5, <1>6 DEF Persists, SamePage, m

LEMMA FinishedDoes ==
  ASSUME NEW s \in t30_state_t
  PROVE  LET n == [s EXCEPT !.state = "FINISHED", !.phase = "FINISHED"]
         IN  /\ n \in t30_state_t /\ n.phase = "FINISHED" /\ n.state = "FINISHED"
             /\ n.sending = s.sending /\ SameRest(n, s)
  BY DEF t30_state_t, SameRest, State

LEMMA CallerTerminates ==
  ASSUME NEW c, CallerOK(c), NEW k \in {c, Disconnect(c), Fails(c, "CALLDROPPED")}
  PROVE  Persists([k EXCEPT !.state = "FINISHED", !.phase = "FINISHED"], c)
<1> DEFINE n == [k EXCEPT !.state = "FINISHED", !.phase = "FINISHED"]
<1>1. c \in t30_state_t /\ c.sending \in {None, "DCS", "TCF", "PAGE", "MPS", "EOP", "DCN"}
  BY DEF CallerOK
<1>2. k \in t30_state_t /\ k.sending = c.sending /\ SameRest(k, c)
  BY <1>1, DisconnectDoes, FailsDoes DEF SameRest, Status
<1>3. /\ n \in t30_state_t /\ n.phase = "FINISHED" /\ n.state = "FINISHED"
      /\ n.sending = c.sending /\ SameRest(n, k)
  BY <1>2, FinishedDoes
<1> HIDE DEF n
<1> QED BY <1>1, <1>2, <1>3 DEF Persists, CallerOK, SameRest, SamePage, RxPhase, TxPhase, Over, n

-----------------------------------------------------------------------------
(* The answerer. *)

\* A step of the answerer that stores nothing and receives no page.
SameStore(n, a) ==
  /\ n.ended = a.ended
  /\ Storable(n) => Storable(a) /\ n.page = a.page
  /\ Confirming(n) => Confirming(a)

Quiet(n, a) == AnswererOK(n) /\ SameStore(n, a)

\* What the handlers of the answerer are given: it listens.
Waits(a) == AnswererOK(a) /\ a.phase \in RxPhase

LEMMA WaitsSilent ==
  ASSUME NEW a, Waits(a)
  PROVE  a \in t30_state_t /\ a.sending = None /\ a.state \notin Over /\ ~Confirming(a)
         /\ a.retries <= MAX_MESSAGE_TRIES
  BY DEF Waits, AnswererOK, Confirming, RxPhase, TxPhase

LEMMA AnswererStays ==
  ASSUME NEW a, AnswererOK(a), NEW n \in t30_state_t,
         n.phase = a.phase, n.state = a.state, n.sending = a.sending, SameRest(n, a)
  PROVE  Quiet(n, a)
  BY DEF AnswererOK, SameRest, SameStore, Quiet, Storable, Confirming, RxPhase, TxPhase, Over

\* A frame that is not MCF, sent by an answerer that was listening.
LEMMA AnswererSends ==
  ASSUME NEW a, NEW k \in t30_state_t, k.sending = None, k.ended = a.ended,
         k.retries <= MAX_MESSAGE_TRIES,
         NEW phase \in {"B_TX", "D_TX"},
         NEW state \in {"R", "F_CFR", "F_FTT", "III_Q_RTP", "III_Q_RTN"},
         NEW signal \in {"DIS", "CFR", "FTT", "RTP", "RTN"}
  PROVE  LET n == Transmit(k, phase, state, signal)
         IN  Quiet(n, a) /\ n.phase = phase /\ n.state = state
<1> DEFINE n == Transmit(k, phase, state, signal)
<1>1. phase \in Phase /\ state \in State /\ signal \in Frame \cup Fast
  BY DEF Phase, TxPhase, State, Frame
<1>2. /\ n \in t30_state_t /\ n.phase = phase /\ n.state = state /\ n.sending = signal
      /\ SameRest(n, k)
  BY <1>1, TransmitDoes
<1> HIDE DEF n
<1>3. AnswererOK(n)
  BY <1>2 DEF AnswererOK, SameRest, Storable, RxPhase, TxPhase, Over
<1>4. SameStore(n, a)
  BY <1>2 DEF SameStore, SameRest, Storable, Confirming
<1> QED BY <1>2, <1>3, <1>4 DEF Quiet, n

LEMMA AnswererDcn ==
  ASSUME NEW a, NEW k \in t30_state_t, k.ended = a.ended,
         k.sending \in {None, "DIS", "CFR", "FTT", "RTP", "RTN", "DCN"}
  PROVE  Quiet(SendDcn(k), a)
<1> DEFINE n == SendDcn(k)
<1>1. /\ n \in t30_state_t /\ n.phase = "D_TX" /\ n.state = "C" /\ SameRest(n, k)
      /\ n.sending \in {"DIS", "CFR", "FTT", "RTP", "RTN", "DCN"}
  BY SendDcnDoes
<1> HIDE DEF n
<1>2. AnswererOK(n)
  BY <1>1 DEF AnswererOK, SameRest, Storable, RxPhase, TxPhase, Over
<1>3. SameStore(n, a)
  BY <1>1 DEF SameStore, SameRest, Storable, Confirming
<1> QED BY <1>2, <1>3 DEF Quiet, n

LEMMA AnswererUnexpected ==
  ASSUME NEW a, Waits(a)
  PROVE  Quiet(Unexpected(a), a)
<1> DEFINE m == Fails(a, "UNEXPECTED")
<1>1. a \in t30_state_t /\ a.sending = None
  BY WaitsSilent
<1>2. m \in t30_state_t /\ m.sending = None /\ SameRest(m, a)
  BY <1>1, FailsDoes DEF Status
<1> HIDE DEF m
<1> QED BY <1>2, AnswererDcn DEF Unexpected, m, SameRest

LEMMA AnswererDisconnects ==
  ASSUME NEW a, NEW k \in t30_state_t, k.ended = a.ended,
         k.sending \in {None, "DIS", "CFR", "FTT", "MCF", "RTP", "RTN", "DCN"}
  PROVE  Quiet(Disconnect(k), a)
<1> DEFINE n == Disconnect(k)
<1>1. /\ n \in t30_state_t /\ n.phase = "E" /\ n.state = "B" /\ n.sending = k.sending
      /\ SameRest(n, k)
  BY DisconnectDoes
<1> HIDE DEF n
<1>2. AnswererOK(n)
  BY <1>1 DEF AnswererOK, SameRest, Storable, RxPhase, TxPhase, Over
<1>3. SameStore(n, a)
  BY <1>1 DEF SameStore, SameRest, Storable, Confirming, TxPhase
<1> QED BY <1>2, <1>3 DEF Quiet, n

\* The answerer has stored the page that it received.
Stores(n, a) ==
  /\ AnswererOK(n) /\ Storable(a) /\ ~Storable(n)
  /\ n.ended = Append(a.ended, a.page)

LEMMA RxDcs ==
  ASSUME NEW a, Waits(a)
  PROVE  Quiet(process_rx_dcs(a), a)
<1>1. a \in t30_state_t /\ a.sending = None /\ a.retries <= MAX_MESSAGE_TRIES
  BY WaitsSilent
<1>2. CASE a.state \in {"R", "F_DOC"}
  <2> DEFINE k == SetState(a, "F_TCF")
             n == SetPhase(k, "C_RX")
  <2>1. k \in t30_state_t /\ k.state = "F_TCF" /\ k.sending = None /\ SameRest(k, a)
    BY <1>1, StateSet DEF State
  <2>2. process_rx_dcs(a) = n
    BY <1>2 DEF process_rx_dcs
  <2> HIDE DEF k
  <2>3. "C_RX" \in Phase
    BY DEF Phase, RxPhase
  <2>4. /\ n \in t30_state_t /\ n.phase = "C_RX" /\ n.state = "F_TCF" /\ n.sending = None
        /\ SameRest(n, k)
    BY <2>1, <2>3, SetPhaseDoes
  <2> HIDE DEF n
  <2>5. AnswererOK(n)
    BY <1>1, <2>1, <2>4 DEF AnswererOK, SameRest, Storable, RxPhase, TxPhase, Over
  <2>6. SameStore(n, a)
    BY <2>1, <2>4 DEF SameStore, SameRest, Storable, Confirming, TxPhase
  <2> QED BY <2>2, <2>5, <2>6 DEF Quiet
<1>3. CASE a.state \notin {"R", "F_DOC"}
  BY <1>3, AnswererUnexpected DEF process_rx_dcs
<1> QED BY <1>2, <1>3

LEMMA BlankDoes ==
  ASSUME NEW s \in t30_state_t
  PROVE  /\ Blank(s) \in t30_state_t /\ Blank(s).sending = s.sending
         /\ Blank(s).state = s.state /\ Blank(s).phase = s.phase
         /\ Blank(s).ended = s.ended /\ Blank(s).retries = s.retries
<1>1. 0 \in 0 .. Pages
  OBVIOUS
<1> QED BY <1>1 DEF t30_state_t, Blank

LEMMA StoreDoes ==
  ASSUME NEW s \in t30_state_t, s.page # 0
  PROVE  /\ Store(s) \in t30_state_t /\ Store(s).sending = s.sending
         /\ Store(s).ended = Append(s.ended, s.page) /\ Store(s).retries = s.retries
<1>1. s.page \in 1 .. Pages /\ s.ended \in Seq(1 .. Pages)
  BY DEF t30_state_t
<1>2. Append(s.ended, s.page) \in Seq(1 .. Pages)
  BY <1>1
<1> QED BY <1>2 DEF t30_state_t, Store

LEMMA RxPostMessage ==
  ASSUME NEW a, Waits(a), NEW step \in {"MPS", "EOP"}
  PROVE  LET n == process_rx_post_message(a, step)
         IN  Quiet(n, a) \/ Stores(n, a)
<1>1. a \in t30_state_t /\ a.sending = None /\ a.retries <= MAX_MESSAGE_TRIES
  BY WaitsSilent
<1> DEFINE m == [a EXCEPT !.step = step]
           k == Store(m)
           r == process_rx_post_message(a, step)
<1>2. /\ m \in t30_state_t /\ m.sending = None /\ m.retries = a.retries /\ m.page = a.page
      /\ m.ended = a.ended
  BY <1>1 DEF t30_state_t
<1>3. CASE a.state # "F_POST_DOC"
  BY <1>3, AnswererUnexpected DEF process_rx_post_message
<1>4. CASE Storable(a)
  <2>1. a.page # 0
    BY <1>4 DEF Waits, AnswererOK
  <2>2. \E l \in {k, Blank(k)} :
          \/ r = Transmit(l, "D_TX", "III_Q_MCF", "MCF")
          \/ r = Transmit(l, "D_TX", "III_Q_RTP", "RTP")
    BY <1>4 DEF process_rx_post_message, Storable
  <2> HIDE DEF m
  <2>3. /\ k \in t30_state_t /\ k.sending = None /\ k.retries = a.retries
        /\ k.ended = Append(a.ended, a.page)
    BY <1>2, <2>1, StoreDoes
  <2> HIDE DEF k, r
  <2>4. PICK l \in {k, Blank(k)} :
          \/ r = Transmit(l, "D_TX", "III_Q_MCF", "MCF")
          \/ r = Transmit(l, "D_TX", "III_Q_RTP", "RTP")
    BY <2>2
  <2>5. /\ l \in t30_state_t /\ l.sending = None /\ l.retries = a.retries
        /\ l.ended = Append(a.ended, a.page)
    BY <2>3, BlankDoes
  <2>6. "D_TX" \in Phase /\ "III_Q_MCF" \in State /\ "III_Q_RTP" \in State
        /\ "MCF" \in Frame \cup Fast /\ "RTP" \in Frame \cup Fast
    BY DEF Phase, TxPhase, State, Frame
  <2>7. /\ r \in t30_state_t /\ r.phase = "D_TX" /\ SameRest(r, l)
        /\ \/ r.state = "III_Q_MCF" /\ r.sending = "MCF"
           \/ r.state = "III_Q_RTP" /\ r.sending = "RTP"
    BY <2>4, <2>5, <2>6, TransmitDoes
  <2>8. AnswererOK(r)
    BY <1>1, <2>5, <2>7 DEF AnswererOK, SameRest, Storable, RxPhase, TxPhase, Over
  <2> QED BY <1>4, <2>5, <2>7, <2>8 DEF Stores, SameRest, Storable, r
<1>5. CASE a.state = "F_POST_DOC" /\ ~Storable(a)
  <2>1. \E l \in {m, Blank(m)} : r = Transmit(l, "D_TX", "III_Q_RTN", "RTN")
    BY <1>5 DEF process_rx_post_message, Storable
  <2> HIDE DEF m, r
  <2>2. PICK l \in {m, Blank(m)} : r = Transmit(l, "D_TX", "III_Q_RTN", "RTN")
    BY <2>1
  <2>3. /\ l \in t30_state_t /\ l.sending = None /\ l.retries = a.retries
        /\ l.ended = a.ended
    BY <1>2, BlankDoes
  <2>4. Quiet(r, a)
    BY <1>1, <2>2, <2>3, AnswererSends
  <2> QED BY <2>4 DEF r
<1> QED BY <1>3, <1>4, <1>5 DEF Storable

LEMMA AnswererAccepts ==
  ASSUME NEW a, Waits(a), NEW frame \in {"DCS", "MPS", "EOP", "DCN"}
  PROVE  LET n == Accept(a, frame)
         IN  Quiet(n, a) \/ (Stores(n, a) /\ frame \in {"MPS", "EOP"})
<1> DEFINE m == [a EXCEPT !.timer = "off", !.t0_t1 = "off"]
           n == Accept(a, frame)
<1>1. a \in t30_state_t
  BY WaitsSilent
<1>2. /\ m \in t30_state_t /\ m.phase = a.phase /\ m.state = a.state
      /\ m.sending = a.sending /\ SameRest(m, a)
  BY <1>1, TimersOff
<1>3. Waits(m)
  BY <1>2, AnswererStays DEF Waits, Quiet
<1>4. /\ frame = "DCS" => n = process_rx_dcs(m)
      /\ frame \in {"MPS", "EOP"} => n = process_rx_post_message(m, frame)
      /\ frame = "DCN" => n = process_rx_dcn(m)
  BY DEF Accept
<1> SUFFICES Quiet(n, a) \/ (Stores(n, a) /\ frame \in {"MPS", "EOP"})
  OBVIOUS
<1> HIDE DEF m, n
<1>5. \A k : Quiet(k, m) => Quiet(k, a)
  BY <1>2 DEF Quiet, SameStore, SameRest, Storable, Confirming
<1>6. CASE frame = "DCS"
  BY <1>3, <1>4, <1>5, <1>6, RxDcs
<1>7. CASE frame \in {"MPS", "EOP"}
  <2>1. Quiet(n, m) \/ Stores(n, m)
    BY <1>3, <1>4, <1>7, RxPostMessage
  <2> QED BY <1>2, <1>5, <1>7, <2>1 DEF Stores, SameRest, Storable
<1>8. CASE frame = "DCN"
  <2>1. PICK k \in t30_state_t :
          /\ process_rx_dcn(m) = Disconnect(k)
          /\ k.sending = m.sending /\ k.state = m.state /\ SameRest(k, m)
    BY <1>2, RxDcn
  <2>2. k.sending = None /\ k.ended = a.ended
    BY <1>2, <1>3, <2>1, WaitsSilent DEF SameRest
  <2> QED BY <1>4, <1>8, <2>1, <2>2, AnswererDisconnects
<1> QED BY <1>6, <1>7, <1>8

LEMMA AnswererHears ==
  ASSUME NEW a, Waits(a), NEW frame \in {"DCS", "MPS", "EOP", "DCN"}, NEW fate
  PROVE  LET n == HearFrames(a, frame, fate)
         IN  Quiet(n, a) \/ (Stores(n, a) /\ frame \in {"MPS", "EOP"})
<1> DEFINE m == Framing(a)
           n == HearFrames(a, frame, fate)
<1>1. a \in t30_state_t /\ a.phase \in RxPhase /\ ~Confirming(a) /\ a.sending = None
  BY WaitsSilent DEF Waits
<1>2. /\ m \in t30_state_t /\ m.phase \in RxPhase /\ m.state = a.state
      /\ m.sending = a.sending /\ SameRest(m, a)
  BY <1>1, FramingDoes
<1>3. n \in {Accept(m, frame), T4(m), T2(m), m}
  BY DEF HearFrames
<1> SUFFICES Quiet(n, a) \/ (Stores(n, a) /\ frame \in {"MPS", "EOP"})
  OBVIOUS
<1> HIDE DEF m, n
<1>4. Waits(m)
  BY <1>2 DEF Waits, AnswererOK, SameRest, Storable, RxPhase, TxPhase
<1>5. \A k : Quiet(k, m) => Quiet(k, a)
  <2>1. ~Confirming(m)
    BY <1>4, WaitsSilent
  <2> QED BY <1>1, <1>2, <2>1 DEF Quiet, SameStore, SameRest, Storable
<1>6. Quiet(T4(m), m) /\ Quiet(T2(m), m) /\ Quiet(m, m)
  BY <1>2, <1>4, T2Does, T4Does, AnswererStays DEF Waits, SameRest
<1>7. Quiet(Accept(m, frame), m) \/ (Stores(Accept(m, frame), m) /\ frame \in {"MPS", "EOP"})
  BY <1>4, AnswererAccepts
<1>8. \A k : Stores(k, m) => Stores(k, a)
  BY <1>2 DEF Stores, SameRest, Storable
<1> QED BY <1>3, <1>5, <1>6, <1>7, <1>8

\* The answerer has received a page, or what it takes for one.
Receives(n, a, page) ==
  /\ AnswererOK(n) /\ ~Confirming(n) /\ n.ended = a.ended
  /\ Storable(n) => n.page = page

LEMMA AnswererHearsFast ==
  ASSUME NEW a, Waits(a), NEW signal \in Fast, NEW fate \in Fate,
         NEW page, signal = "PAGE" => page \in 1 .. Pages
  PROVE  LET n == HearFast(a, signal, fate, page)
         IN  Quiet(n, a) \/ (Receives(n, a, page) /\ signal = "PAGE")
<1> DEFINE m == [a EXCEPT !.timer = "off"]
           n == HearFast(a, signal, fate, page)
<1>1. /\ a \in t30_state_t /\ a.sending = None /\ a.retries <= MAX_MESSAGE_TRIES
      /\ AnswererOK(a)
  BY WaitsSilent DEF Waits
<1>2. /\ m \in t30_state_t /\ m.phase = a.phase /\ m.state = a.state
      /\ m.sending = a.sending /\ SameRest(m, a)
  BY <1>1, TimerOff
<1>3. Quiet(m, a)
  BY <1>1, <1>2, AnswererStays
<1> SUFFICES Quiet(n, a) \/ (Receives(n, a, page) /\ signal = "PAGE")
  OBVIOUS
<1>4. CASE fate = "untrained"
  <2>1. n \in {m, Fails(m, "NOCARRIERRX")}
    BY <1>4 DEF HearFast
  <2> HIDE DEF m, n
  <2> DEFINE f == Fails(m, "NOCARRIERRX")
  <2>2. /\ f \in t30_state_t /\ f.phase = a.phase /\ f.state = a.state
        /\ f.sending = a.sending /\ SameRest(f, a)
    <3>1. "NOCARRIERRX" \in Status
      BY DEF Status
    <3>2. f \in t30_state_t /\ f.phase = m.phase /\ f.state = m.state /\ f.sending = m.sending
          /\ SameRest(f, m)
      BY <1>2, <3>1, FailsDoes
    <3> QED BY <1>2, <3>2 DEF SameRest
  <2>3. Quiet(f, a)
    BY <1>1, <2>2, AnswererStays
  <2> QED BY <1>3, <2>1, <2>3
<1>5. CASE fate # "untrained" /\ a.state = "F_TCF"
  <2>1. \/ n = Transmit(Blank(m), "B_TX", "F_CFR", "CFR")
        \/ n = Transmit(m, "B_TX", "F_FTT", "FTT")
    BY <1>5 DEF HearFast
  <2> HIDE DEF m, n
  <2>2. /\ Blank(m) \in t30_state_t /\ Blank(m).sending = None /\ Blank(m).ended = a.ended
        /\ Blank(m).retries <= MAX_MESSAGE_TRIES
    BY <1>1, <1>2, BlankDoes DEF SameRest
  <2>3. m \in t30_state_t /\ m.sending = None /\ m.ended = a.ended /\ m.retries <= MAX_MESSAGE_TRIES
    BY <1>1, <1>2 DEF SameRest
  <2> QED BY <2>1, <2>2, <2>3, AnswererSends
<1>6. CASE fate # "untrained" /\ a.state # "F_TCF"
  <2> DEFINE k == IF signal = "PAGE" THEN [a EXCEPT !.page = page, !.quality = fate]
                                    ELSE [a EXCEPT !.quality = "bad"]
             l == IF k.status = "NOCARRIERRX" THEN Fails(k, "OK") ELSE k
             f == SetState(l, "F_POST_DOC")
             g == SetPhase(f, "D_RX")
  <2>1. n = T2(g)
    BY <1>6 DEF HearFast
  <2> HIDE DEF n
  <2>2. (signal = "PAGE" => page \in 0 .. Pages /\ page # 0) /\ "bad" \in Fate
    BY DEF Fate
  <2>3. /\ k \in t30_state_t /\ k.sending = None /\ k.ended = a.ended /\ k.retries = a.retries
        /\ signal = "PAGE" => k.page = page
        /\ signal # "PAGE" => k.quality = "bad"
    BY <1>1, <2>2 DEF t30_state_t
  <2> HIDE DEF k
  <2>4. l \in t30_state_t /\ l.sending = None /\ SameRest(l, k)
    BY <2>3, FailsDoes DEF SameRest, Status
  <2> HIDE DEF l
  <2>5. "F_POST_DOC" \in State /\ "D_RX" \in Phase
    BY DEF State, Phase, RxPhase
  <2>6. f \in t30_state_t /\ f.state = "F_POST_DOC" /\ f.sending = None /\ SameRest(f, l)
    BY <2>4, <2>5, StateSet
  <2> HIDE DEF f
  <2>7. /\ g \in t30_state_t /\ g.phase = "D_RX" /\ g.state = "F_POST_DOC" /\ g.sending = None
        /\ SameRest(g, f)
    BY <2>5, <2>6, SetPhaseDoes
  <2> HIDE DEF g
  <2>8. /\ n \in t30_state_t /\ n.phase = "D_RX" /\ n.state = "F_POST_DOC" /\ n.sending = None
        /\ SameRest(n, g)
    BY <2>1, <2>7, T2Does
  <2>9. /\ n.ended = a.ended /\ n.retries = a.retries /\ n.page = k.page /\ n.quality = k.quality
    BY <2>3, <2>4, <2>6, <2>7, <2>8 DEF SameRest
  <2>10. Storable(n) => signal = "PAGE" /\ n.page = page
    BY <2>3, <2>9 DEF Storable
  <2>11. AnswererOK(n)
    BY <1>1, <2>2, <2>8, <2>9, <2>10 DEF AnswererOK, RxPhase, TxPhase, Over
  <2>12. ~Confirming(n)
    BY <2>8 DEF Confirming, TxPhase
  <2>13. CASE signal = "PAGE"
    BY <2>9, <2>10, <2>11, <2>12, <2>13 DEF Receives
  <2>14. CASE signal # "PAGE"
    BY <2>9, <2>10, <2>11, <2>12, <2>14 DEF Quiet, SameStore
  <2> QED BY <2>13, <2>14
<1> QED BY <1>4, <1>5, <1>6

\* The end of a signal of the answerer: none is confirmed and none is stored.
LEMMA AnswererSent ==
  ASSUME NEW a, AnswererOK(a), a.phase \in TxPhase \/ a.state \in {"ANSWERING", "B"}
  PROVE  LET n == SendComplete(a) IN Quiet(n, a) /\ ~Confirming(n)
<1> DEFINE m == [a EXCEPT !.sending = None]
           n == SendComplete(a)
<1>1. a \in t30_state_t
  BY DEF AnswererOK
<1>2. /\ m \in t30_state_t /\ m.phase = a.phase /\ m.state = a.state
      /\ m.sending = None /\ SameRest(m, a)
  BY <1>1, SendingOver
<1>3. /\ "B_RX" \in Phase /\ "C_RX" \in Phase /\ "B_TX" \in Phase
      /\ "R" \in State /\ "F_DOC" \in State /\ "DIS" \in Frame \cup Fast
  BY DEF Phase, RxPhase, TxPhase, State, Frame
<1>4. \A k \in t30_state_t :
        /\ k.ended = a.ended /\ k.retries = a.retries /\ k.sending = None
        /\ k.state \in {"R", "F_FTT", "F_DOC"} /\ k.phase \in RxPhase /\ a.state \notin Over
        => Quiet(k, a) /\ ~Confirming(k)
  BY DEF AnswererOK, Quiet, SameStore, Storable, Confirming, RxPhase, TxPhase, Over
<1>5. CASE a.state = "ANSWERING"
  <2> DEFINE k == SetPhase(m, "B_TX")
             l == T2(k)
             f == SetState(l, "R")
  <2>1. n = SendFrame(f, "DIS")
    BY <1>5 DEF SendComplete
  <2> HIDE DEF m, n
  <2>2. k \in t30_state_t /\ k.phase = "B_TX" /\ k.sending = None /\ SameRest(k, m)
    BY <1>2, <1>3, SetPhaseDoes
  <2> HIDE DEF k
  <2>3. l \in t30_state_t /\ l.phase = "B_TX" /\ l.sending = None /\ SameRest(l, k)
    BY <2>2, T2Does
  <2> HIDE DEF l
  <2>4. /\ f \in t30_state_t /\ f.phase = "B_TX" /\ f.state = "R" /\ f.sending = None
        /\ SameRest(f, l)
    BY <1>3, <2>3, StateSet
  <2> HIDE DEF f
  <2>5. /\ n \in t30_state_t /\ n.phase = "B_TX" /\ n.state = "R" /\ n.sending = "DIS"
        /\ SameRest(n, f)
    BY <1>3, <2>1, <2>4, SendFrameDoes
  <2>6. n.ended = a.ended /\ n.retries = a.retries
    BY <1>2, <2>2, <2>3, <2>4, <2>5 DEF SameRest
  <2>7. AnswererOK(n)
    BY <1>5, <2>5, <2>6 DEF AnswererOK, Storable, RxPhase, TxPhase, Over
  <2> QED BY <2>5, <2>6, <2>7 DEF Quiet, SameStore, Storable, Confirming, n
<1>6. CASE a.state \in {"R", "F_FTT"}
  <2> DEFINE k == SetPhase(m, "B_RX")
  <2>1. n = T4(k)
    BY <1>6 DEF SendComplete
  <2> HIDE DEF m, n
  <2>2. /\ k \in t30_state_t /\ k.phase = "B_RX" /\ k.state = a.state /\ k.sending = None
        /\ SameRest(k, m)
    BY <1>2, <1>3, SetPhaseDoes
  <2> HIDE DEF k
  <2>3. /\ n \in t30_state_t /\ n.phase = "B_RX" /\ n.state = a.state /\ n.sending = None
        /\ SameRest(n, k)
    BY <2>1, <2>2, T4Does
  <2>4. n.ended = a.ended /\ n.retries = a.retries
    BY <1>2, <2>2, <2>3 DEF SameRest
  <2>5. "B_RX" \in RxPhase /\ a.state \notin Over
    BY <1>6 DEF RxPhase, Over
  <2> QED BY <1>4, <1>6, <2>3, <2>4, <2>5 DEF n
<1>7. CASE a.state \in {"F_CFR", "III_Q_MCF", "III_Q_RTP", "III_Q_RTN"}
  <2> DEFINE k == SetState(m, "F_DOC")
             l == SetPhase(k, "C_RX")
             o == [l EXCEPT !.step = "MPS"]
  <2>1. n \in {o, l, Disconnect(m)}
    BY <1>7 DEF SendComplete
  <2> HIDE DEF m, n
  <2>2. k \in t30_state_t /\ k.state = "F_DOC" /\ k.sending = None /\ SameRest(k, m)
    BY <1>2, <1>3, StateSet
  <2> HIDE DEF k
  <2>3. /\ l \in t30_state_t /\ l.phase = "C_RX" /\ l.state = "F_DOC" /\ l.sending = None
        /\ SameRest(l, k)
    BY <1>3, <2>2, SetPhaseDoes
  <2> HIDE DEF l
  <2>4. /\ o \in t30_state_t /\ o.phase = "C_RX" /\ o.state = "F_DOC" /\ o.sending = None
        /\ o.ended = l.ended /\ o.retries = l.retries
    BY <2>3 DEF t30_state_t
  <2>5. l.ended = a.ended /\ l.retries = a.retries
    BY <1>2, <2>2, <2>3 DEF SameRest
  <2>6. "C_RX" \in RxPhase /\ a.state \notin Over
    BY <1>7 DEF RxPhase, Over
  <2>7. Quiet(l, a) /\ ~Confirming(l) /\ Quiet(o, a) /\ ~Confirming(o)
    BY <1>4, <2>3, <2>4, <2>5, <2>6
  <2>8. m.ended = a.ended
    BY <1>2 DEF SameRest
  <2>9. Quiet(Disconnect(m), a) /\ ~Confirming(Disconnect(m))
    BY <1>2, <2>8, AnswererDisconnects, DisconnectDoes DEF Confirming, TxPhase
  <2> QED BY <2>1, <2>7, <2>9 DEF n
<1>8. CASE a.state = "B"
  <2> DEFINE f == [m EXCEPT !.state = "FINISHED", !.phase = "FINISHED"]
  <2>1. n = f
    BY <1>8 DEF SendComplete
  <2> HIDE DEF m, n
  <2>2. /\ f \in t30_state_t /\ f.phase = "FINISHED" /\ f.state = "FINISHED" /\ f.sending = None
        /\ SameRest(f, m)
    BY <1>2, FinishedDoes
  <2> HIDE DEF f
  <2>3. n.ended = a.ended
    BY <1>2, <2>1, <2>2 DEF SameRest
  <2> QED BY <2>1, <2>2, <2>3
          DEF AnswererOK, Quiet, SameStore, Storable, Confirming, RxPhase, TxPhase, Over, None, n
<1>9. CASE a.state = "C"
  <2>1. n = Disconnect(m)
    BY <1>9 DEF SendComplete
  <2> HIDE DEF m, n
  <2>2. m.ended = a.ended
    BY <1>2 DEF SameRest
  <2> QED BY <1>2, <2>1, <2>2, AnswererDisconnects, DisconnectDoes DEF Confirming, TxPhase, n
<1>10. CASE a.state \in {"F_TCF", "F_DOC", "F_POST_DOC", "FINISHED"}
  <2>1. n = m
    BY <1>10 DEF SendComplete
  <2> HIDE DEF m, n
  <2>2. a.phase \in TxPhase
    BY <1>10
  <2>3. /\ AnswererOK(m) /\ m.ended = a.ended /\ ~Confirming(m)
        /\ Storable(m) => Storable(a) /\ m.page = a.page
    BY <1>2, <1>10, <2>2
    DEF AnswererOK, SameRest, Storable, Confirming, RxPhase, TxPhase, Over, None
  <2> QED BY <2>1, <2>3 DEF Quiet, SameStore, n
<1> QED BY <1>5, <1>6, <1>7, <1>8, <1>9, <1>10 DEF AnswererOK, Over

\* T4 has the answerer say DIS or FTT again, until it gives up.
LEMMA AnswererT4 ==
  ASSUME NEW a, Waits(a)
  PROVE  Quiet(Retry(Expired(a), RepeatLastCommand), a)
<1> DEFINE m == Expired(a)
           k == [m EXCEPT !.retries = @ + 1]
           n == Retry(m, RepeatLastCommand)
<1>1. /\ a \in t30_state_t /\ a.sending = None /\ a.state \notin Over
      /\ a.retries <= MAX_MESSAGE_TRIES /\ AnswererOK(a)
  BY WaitsSilent DEF Waits
<1>2. /\ m \in t30_state_t /\ m.phase = a.phase /\ m.state = a.state
      /\ m.sending = a.sending /\ SameRest(m, a)
  BY <1>1, TimerOff DEF Expired
<1>3. n = IF k.retries > MAX_MESSAGE_TRIES THEN SendDcn(Fails(k, "RETRYDCN"))
          ELSE RepeatLastCommand(k)
  BY DEF Retry
<1> SUFFICES Quiet(n, a)
  OBVIOUS
<1> HIDE DEF m
<1>4. m.retries \in Nat
  BY <1>2 DEF t30_state_t
<1>5. m.retries <= MAX_MESSAGE_TRIES
  BY <1>1, <1>2 DEF SameRest
<1>6. m.retries + 1 \in 0 .. MAX_MESSAGE_TRIES + 1
  BY <1>4, <1>5
<1>7. /\ k \in t30_state_t /\ k.phase = m.phase /\ k.state = m.state /\ k.sending = m.sending
      /\ k.page = m.page /\ k.quality = m.quality /\ k.ended = m.ended /\ k.retries = m.retries + 1
  BY <1>2, <1>6 DEF t30_state_t
<1> HIDE DEF k, n
<1>8. /\ k.phase = a.phase /\ k.state = a.state /\ k.sending = None
      /\ k.page = a.page /\ k.quality = a.quality /\ k.ended = a.ended
  BY <1>1, <1>2, <1>7 DEF SameRest
<1>9. k.retries \in Nat
  BY <1>4, <1>7
<1>10. CASE k.retries > MAX_MESSAGE_TRIES
  <2> DEFINE l == Fails(k, "RETRYDCN")
  <2>1. "RETRYDCN" \in Status
    BY DEF Status
  <2>2. l \in t30_state_t /\ l.sending = k.sending /\ SameRest(l, k)
    BY <1>7, <2>1, FailsDoes
  <2> HIDE DEF l
  <2>3. l.sending = None /\ l.ended = a.ended
    BY <1>8, <2>2 DEF SameRest
  <2> QED BY <1>3, <1>10, <2>2, <2>3, AnswererDcn DEF l
<1>11. CASE k.retries <= MAX_MESSAGE_TRIES
  <2>1. n = RepeatLastCommand(k)
    BY <1>3, <1>9, <1>11
  <2>2. CASE a.state \in {"R", "F_FTT"}
    <3> DEFINE l == SetPhase(k, "B_TX")
               signal == IF a.state = "R" THEN "DIS" ELSE "FTT"
               o == SendFrame(l, signal)
    <3>1. n = o
      BY <1>8, <2>1, <2>2 DEF RepeatLastCommand
    <3>2. "B_TX" \in Phase /\ signal \in Frame \cup Fast /\ signal \in {"DIS", "FTT"}
      BY DEF Phase, TxPhase, Frame
    <3> HIDE DEF signal
    <3>3. /\ l \in t30_state_t /\ l.phase = "B_TX" /\ l.state = k.state /\ l.sending = k.sending
          /\ SameRest(l, k)
      BY <1>7, <3>2, SetPhaseDoes
    <3> HIDE DEF l
    <3>4. /\ o \in t30_state_t /\ o.phase = "B_TX" /\ o.state = l.state
          /\ o.sending = signal /\ SameRest(o, l)
      BY <1>8, <3>2, <3>3, SendFrameDoes
    <3> HIDE DEF o
    <3>5. o.state = a.state /\ o.ended = a.ended /\ o.retries = k.retries
      BY <1>8, <3>3, <3>4 DEF SameRest
    <3>6. AnswererOK(o)
      BY <1>1, <1>11, <2>2, <3>2, <3>4, <3>5 DEF AnswererOK, Storable, RxPhase, TxPhase, Over
    <3> QED BY <2>2, <3>1, <3>2, <3>4, <3>5, <3>6 DEF Quiet, SameStore, Storable, Confirming
  <2>3. CASE a.state \notin {"R", "F_FTT"}
    <3>1. k.state \notin {"R", "F_CFR", "F_FTT", "III_Q_MCF", "III_Q_RTP", "III_Q_RTN", "II_Q", "D"}
      BY <1>1, <1>8, <2>3 DEF AnswererOK, Waits, Over
    <3>2. n = k
      BY <2>1, <3>1 DEF RepeatLastCommand
    <3>3. AnswererOK(k)
      BY <1>1, <1>7, <1>8, <1>11 DEF AnswererOK, Storable, RxPhase, TxPhase, Over, None
    <3> QED BY <1>8, <3>2, <3>3 DEF Quiet, SameStore, Storable, Confirming, None
  <2> QED BY <2>2, <2>3
<1> QED BY <1>9, <1>10, <1>11

\* T2 has the answerer start over with DIS.
LEMMA AnswererT2 ==
  ASSUME NEW a, Waits(a), NEW status \in Status,
         NEW k, k \in {Expired(a), Fails(Expired(a), status)}
  PROVE  Quiet(StartReceiving(k, "answerer"), a)
<1> DEFINE m == Expired(a)
           f == Fails(m, status)
<1>1. a \in t30_state_t /\ a.sending = None /\ a.retries <= MAX_MESSAGE_TRIES
  BY WaitsSilent
<1>2. m \in t30_state_t /\ m.sending = a.sending /\ SameRest(m, a)
  BY <1>1, TimerOff DEF Expired
<1> SUFFICES ASSUME k \in {m, f}
             PROVE  Quiet(StartReceiving(k, "answerer"), a)
  OBVIOUS
<1> HIDE DEF m
<1>3. f \in t30_state_t /\ f.sending = m.sending /\ SameRest(f, m)
  BY <1>2, FailsDoes
<1> HIDE DEF f
<1>4. /\ k \in t30_state_t /\ k.sending = None /\ k.ended = a.ended
      /\ k.retries <= MAX_MESSAGE_TRIES
  BY <1>1, <1>2, <1>3 DEF SameRest
<1>5. StartReceiving(k, "answerer") = Transmit(k, "B_TX", "R", "DIS")
  BY DEF StartReceiving
<1> QED BY <1>4, <1>5, AnswererSends

LEMMA AnswererDrops ==
  ASSUME NEW a, AnswererOK(a), NEW status \in Status
  PROVE  Quiet(Disconnect(Fails(a, status)), a)
<1> DEFINE m == Fails(a, status)
<1>1. a \in t30_state_t /\ a.sending \in {None, "DIS", "CFR", "FTT", "MCF", "RTP", "RTN", "DCN"}
  BY DEF AnswererOK
<1>2. m \in t30_state_t /\ m.sending = a.sending /\ SameRest(m, a)
  BY <1>1, FailsDoes
<1> HIDE DEF m
<1> QED BY <1>1, <1>2, AnswererDisconnects DEF SameRest, m

LEMMA AnswererT1 ==
  ASSUME NEW a, AnswererOK(a)
  PROVE  LET s == Fails([a EXCEPT !.t0_t1 = "off"], "T1EXPIRED")
         IN  Quiet(s, a) /\ (a.state = "R" => Quiet(SendDcn(s), a)) /\ s.state = a.state
<1> DEFINE m == [a EXCEPT !.t0_t1 = "off"]
           s == Fails(m, "T1EXPIRED")
<1>1. a \in t30_state_t
  BY DEF AnswererOK
<1>2. /\ m \in t30_state_t /\ m.phase = a.phase /\ m.state = a.state /\ m.sending = a.sending
      /\ SameRest(m, a)
  BY <1>1 DEF t30_state_t, SameRest
<1> HIDE DEF m
<1>3. "T1EXPIRED" \in Status
  BY DEF Status
<1>4. /\ s \in t30_state_t /\ s.phase = m.phase /\ s.state = m.state /\ s.sending = m.sending
      /\ SameRest(s, m)
  BY <1>2, <1>3, FailsDoes
<1> HIDE DEF s
<1>5. /\ s.phase = a.phase /\ s.state = a.state /\ s.sending = a.sending /\ SameRest(s, a)
  BY <1>2, <1>4 DEF SameRest
<1>6. Quiet(s, a)
  BY <1>4, <1>5, AnswererStays
<1>7. ASSUME a.state = "R" PROVE Quiet(SendDcn(s), a)
  <2>1. a.sending \in {None, "DIS", "CFR", "FTT", "RTP", "RTN", "DCN"}
    BY <1>1, <1>7 DEF AnswererOK, t30_state_t, RxPhase, TxPhase
  <2>2. s.ended = a.ended
    BY <1>5 DEF SameRest
  <2> QED BY <1>4, <1>5, <2>1, <2>2, AnswererDcn
<1> QED BY <1>5, <1>6, <1>7 DEF s, m

LEMMA AnswererTerminates ==
  ASSUME NEW a, AnswererOK(a), NEW k \in {a, Disconnect(a), Fails(a, "CALLDROPPED")}
  PROVE  Quiet([k EXCEPT !.state = "FINISHED", !.phase = "FINISHED"], a)
<1> DEFINE n == [k EXCEPT !.state = "FINISHED", !.phase = "FINISHED"]
<1>1. a \in t30_state_t /\ a.sending \in {None, "DIS", "CFR", "FTT", "MCF", "RTP", "RTN", "DCN"}
  BY DEF AnswererOK
<1>2. k \in t30_state_t /\ k.sending = a.sending /\ SameRest(k, a)
  BY <1>1, DisconnectDoes, FailsDoes DEF SameRest, Status
<1>3. /\ n \in t30_state_t /\ n.phase = "FINISHED" /\ n.state = "FINISHED"
      /\ n.sending = k.sending /\ SameRest(n, k)
  BY <1>2, FinishedDoes
<1> HIDE DEF n
<1>4. n.sending = a.sending /\ n.ended = a.ended
  BY <1>2, <1>3 DEF SameRest
<1> QED BY <1>1, <1>3, <1>4
        DEF AnswererOK, Quiet, SameStore, Storable, Confirming, RxPhase, TxPhase, Over, n

-----------------------------------------------------------------------------
(* Both ends. *)

\* What a step makes of the document, in the terms of Delivery.
Progress(c, a, n, m) ==
  \/ m.ended = a.ended /\ n.success = c.success
  \/ /\ ~c.success /\ n.success = c.success
     /\ \E page \in 1 .. Pages : /\ page \in {Last(a.ended), Last(a.ended) + 1}
                                /\ m.ended = Append(a.ended, page)
  \/ m.ended = a.ended /\ Last(a.ended) = Pages /\ n.success = TRUE

Both(c, a) == CallerOK(c) /\ AnswererOK(a) /\ Agree(c, a)

Moves(c, a, n, m) == Both(n, m) /\ Progress(c, a, n, m)

LEMMA LastIsPage ==
  ASSUME NEW seq \in Seq(1 .. Pages)
  PROVE  /\ Last(seq) \in Nat
         /\ \A page \in 1 .. Pages : Last(Append(seq, page)) = page
<1>1. CASE seq = <<>>
  BY <1>1 DEF Last
<1>2. CASE seq # <<>>
  <2>1. Len(seq) \in 1 .. Len(seq)
    BY <1>2
  <2>2. seq[Len(seq)] \in 1 .. Pages
    BY <2>1
  <2> QED BY <1>2, <2>2 DEF Last
<1> QED BY <1>1, <1>2

LEMMA QuietSteps ==
  ASSUME NEW c, NEW a, Both(c, a), NEW n, Persists(n, c), NEW m, Quiet(m, a)
  PROVE  Moves(c, a, n, m)
  BY DEF Both, Moves, Progress, Persists, Quiet, SameStore, SamePage, Agree

LEMMA StoringSteps ==
  ASSUME NEW c, NEW a, Both(c, a), c.state = "II_Q",
         NEW n, Persists(n, c), NEW m, Stores(m, a)
  PROVE  Moves(c, a, n, m)
<1>1. ~c.success /\ ~n.success /\ n.page = c.page /\ n.state \in {"II_Q"} \cup Over
  BY DEF Both, CallerOK, Persists, SamePage, Over
<1>2. a.page = c.page /\ c.page \in {Last(a.ended), Last(a.ended) + 1} /\ ~Storable(m)
  BY DEF Both, Agree, Stores
<1>3. a.page \in 1 .. Pages /\ a.ended \in Seq(1 .. Pages)
  BY DEF Both, AnswererOK, Stores, t30_state_t
<1>4. m.ended = Append(a.ended, a.page)
  BY DEF Stores
<1>5. Last(m.ended) = c.page
  BY <1>2, <1>3, <1>4, LastIsPage
<1>6. Agree(n, m)
  BY <1>1, <1>2, <1>5 DEF Agree
<1>7. n.success = c.success
  BY DEF Persists, SamePage
<1> QED BY <1>1, <1>2, <1>3, <1>4, <1>6, <1>7 DEF Moves, Both, Progress, Persists, Stores

LEMMA ReceivingSteps ==
  ASSUME NEW c, NEW a, Both(c, a), NEW n, Persists(n, c), NEW m, Receives(m, a, c.page)
  PROVE  Moves(c, a, n, m)
  BY DEF Both, Moves, Progress, Persists, Receives, SamePage, Agree

LEMMA HearingSteps ==
  ASSUME NEW c, NEW a, Both(c, a), NEW n, NEW frame, CallerHeard(n, c, frame),
         frame = "MCF" => Confirming(a),
         NEW m, Quiet(m, a), ~Confirming(m)
  PROVE  Moves(c, a, n, m)
<1>1. CallerOK(n) /\ AnswererOK(m) /\ m.ended = a.ended
  BY DEF CallerHeard, Quiet, SameStore
<1>2. /\ c.page \in {Last(a.ended), Last(a.ended) + 1} /\ Last(a.ended) \in Nat
      /\ c.success => Last(a.ended) = Pages
  BY LastIsPage DEF Both, Agree, AnswererOK, t30_state_t
<1>3. Storable(m) => Storable(a) /\ m.page = a.page /\ a.page # 0 /\ a.page = c.page
  BY DEF Quiet, SameStore, Both, Agree, AnswererOK
<1>4. Confirming(a) => Last(a.ended) = c.page /\ ~Storable(a)
  BY DEF Both, Agree, AnswererOK, Storable, Confirming
<1>5. CASE SamePage(n, c)
  <2>1. Agree(n, m)
    BY <1>1, <1>2, <1>3, <1>5 DEF Agree, SamePage
  <2> QED BY <1>1, <1>5, <2>1 DEF Moves, Both, Progress, SamePage
<1>6. CASE c.page = 0 /\ n.page = 1 /\ ~n.success
  <2>1. Last(a.ended) = 0 /\ ~Storable(m)
    BY <1>2, <1>3, <1>6
  <2>2. ~c.success
    BY <1>2, <2>1
  <2>3. n.success = c.success
    BY <1>1, <1>6, <2>2 DEF Both, CallerOK, t30_state_t
  <2>4. Agree(n, m)
    BY <1>1, <1>6, <2>1 DEF Agree
  <2> QED BY <1>1, <2>3, <2>4 DEF Moves, Both, Progress
<1>7. CASE frame = "MCF" /\ c.state = "II_Q" /\ n.page = c.page + 1 /\ ~n.success
  <2>1. Last(a.ended) = c.page /\ ~Storable(m)
    BY <1>3, <1>4, <1>7
  <2>2. n.success = c.success
    BY <1>1, <1>7 DEF Both, CallerOK, t30_state_t, Over
  <2>3. Agree(n, m)
    BY <1>1, <1>7, <2>1 DEF Agree
  <2> QED BY <1>1, <2>2, <2>3 DEF Moves, Both, Progress
<1>8. CASE frame = "MCF" /\ n.page = c.page /\ c.page = Pages /\ n.success
  <2>1. Last(a.ended) = c.page /\ ~Storable(m)
    BY <1>3, <1>4, <1>8
  <2>2. n.success = TRUE
    BY <1>1, <1>8 DEF CallerOK, t30_state_t
  <2>3. Agree(n, m)
    BY <1>1, <1>8, <2>1 DEF Agree
  <2> QED BY <1>1, <1>8, <2>1, <2>2, <2>3 DEF Moves, Both, Progress
<1> QED BY <1>5, <1>6, <1>7, <1>8 DEF CallerHeard

Fated(s, fate) == [s EXCEPT !.fate = fate]

LEMMA FateSet ==
  ASSUME NEW s \in t30_state_t, NEW fate \in Fate
  PROVE  LET n == Fated(s, fate)
         IN  /\ n \in t30_state_t /\ n.phase = s.phase /\ n.state = s.state
             /\ n.sending = s.sending /\ SameRest(n, s)
  BY DEF t30_state_t, SameRest, Fated

\* The fate of a signal is nothing that its sender knows.
LEMMA FateGiven ==
  ASSUME NEW c, NEW a, NEW n, NEW m, Moves(c, a, n, m), NEW f \in Fate, NEW g \in Fate,
         NEW k \in {n, Fated(n, f)}, NEW l \in {m, Fated(m, g)}
  PROVE  Moves(c, a, k, l)
<1>1. n \in t30_state_t /\ m \in t30_state_t
  BY DEF Moves, Both, CallerOK, AnswererOK
<1>2. /\ k \in t30_state_t /\ k.phase = n.phase /\ k.state = n.state /\ k.sending = n.sending
      /\ SameRest(k, n)
  <2> DEFINE o == Fated(n, f)
  <2>1. /\ o \in t30_state_t /\ o.phase = n.phase /\ o.state = n.state /\ o.sending = n.sending
        /\ SameRest(o, n)
    BY <1>1, FateSet
  <2>2. k \in {n, o} /\ SameRest(n, n)
    BY DEF SameRest
  <2> HIDE DEF o
  <2> QED BY <1>1, <2>1, <2>2
<1>3. /\ l \in t30_state_t /\ l.phase = m.phase /\ l.state = m.state /\ l.sending = m.sending
      /\ SameRest(l, m)
  <2> DEFINE o == Fated(m, g)
  <2>1. /\ o \in t30_state_t /\ o.phase = m.phase /\ o.state = m.state /\ o.sending = m.sending
        /\ SameRest(o, m)
    BY <1>1, FateSet
  <2>2. l \in {m, o} /\ SameRest(m, m)
    BY DEF SameRest
  <2> HIDE DEF o
  <2> QED BY <1>1, <2>1, <2>2
<1>4. CallerOK(k) /\ SamePage(k, n)
  BY <1>2, CallerStays DEF Moves, Both
<1>5. Quiet(l, m)
  BY <1>3, AnswererStays DEF Moves, Both
<1>6. Persists(k, n)
  BY <1>2, <1>4 DEF Persists
<1>7. Both(k, l)
  <2>1. Both(n, m)
    BY DEF Moves
  <2>2. Moves(n, m, k, l)
    BY <1>5, <1>6, <2>1, QuietSteps
  <2> QED BY <2>2 DEF Moves
<1>8. l.ended = m.ended /\ k.success = n.success
  BY <1>2, <1>3 DEF SameRest
<1> QED BY <1>7, <1>8 DEF Moves, Progress

LEMMA CallerSignal ==
  ASSUME NEW c, NEW a, Both(c, a), c.phase \in TxPhase, c.sending # None,
         NEW tuned \in BOOLEAN, tuned => a.phase \in RxPhase,
         NEW m, m = IF ~tuned \/ c.fate = "lost" THEN a
                    ELSE IF c.sending \in Fast THEN HearFast(a, c.sending, c.fate, c.page)
                    ELSE HearFrames(a, c.sending, c.fate)
  PROVE  Moves(c, a, SendComplete(c), m)
<1> DEFINE n == SendComplete(c)
<1>1. Persists(n, c)
  BY CallerSent DEF Both
<1>2. /\ c.sending \in {"DCS", "TCF", "PAGE", "MPS", "EOP", "DCN"} /\ c.fate \in Fate
      /\ c.sending \in {"MPS", "EOP"} => c.state = "II_Q"
      /\ c.sending = "PAGE" => c.state = "I"
  BY DEF Both, CallerOK, t30_state_t
<1> HIDE DEF n
<1>3. CASE m = a
  <2>1. Quiet(a, a)
    BY DEF Both, Quiet, SameStore
  <2> QED BY <1>1, <1>3, <2>1, QuietSteps DEF n
<1>4. CASE Waits(a) /\ c.sending \in Fast /\ m = HearFast(a, c.sending, c.fate, c.page)
  <2>1. c.sending = "PAGE" => c.page \in 1 .. Pages
    BY <1>2 DEF Both, CallerOK, t30_state_t
  <2>2. Quiet(m, a) \/ Receives(m, a, c.page)
    BY <1>2, <1>4, <2>1, AnswererHearsFast
  <2> QED BY <1>1, <2>2, QuietSteps, ReceivingSteps DEF n
<1>5. CASE Waits(a) /\ c.sending \notin Fast /\ m = HearFrames(a, c.sending, c.fate)
  <2>1. c.sending \in {"DCS", "MPS", "EOP", "DCN"}
    BY <1>2, <1>5 DEF Fast
  <2>2. Quiet(m, a) \/ (Stores(m, a) /\ c.sending \in {"MPS", "EOP"})
    BY <1>5, <2>1, AnswererHears
  <2> QED BY <1>1, <1>2, <2>2, QuietSteps, StoringSteps DEF n
<1> QED BY <1>3, <1>4, <1>5 DEF Waits, Both

LEMMA AnswererSignal ==
  ASSUME NEW c, NEW a, Both(c, a), a.phase \in TxPhase, a.sending # None,
         NEW tuned \in BOOLEAN, tuned => c.phase \in RxPhase,
         NEW n, n = IF ~tuned \/ a.fate = "lost" THEN c
                    ELSE IF a.sending \in Fast THEN HearFast(c, a.sending, a.fate, a.page)
                    ELSE HearFrames(c, a.sending, a.fate)
  PROVE  Moves(c, a, n, SendComplete(a))
<1> DEFINE m == SendComplete(a)
<1>1. Quiet(m, a) /\ ~Confirming(m)
  BY AnswererSent DEF Both
<1>2. a.sending \in {"DIS", "CFR", "FTT", "MCF", "RTP", "RTN", "DCN"} /\ a.sending \notin Fast
  BY DEF Both, AnswererOK, Fast
<1>3. a.sending = "MCF" => Confirming(a)
  BY DEF Confirming
<1> HIDE DEF m
<1>4. CASE n = c
  <2>1. Persists(c, c)
    BY DEF Both, Persists, SamePage
  <2> QED BY <1>1, <1>4, <2>1, QuietSteps DEF m
<1>5. CASE Open(c) /\ n = HearFrames(c, a.sending, a.fate)
  <2>1. CallerHeard(n, c, a.sending)
    BY <1>2, <1>5, CallerHears
  <2> QED BY <1>1, <1>3, <2>1, HearingSteps DEF m
<1> QED BY <1>2, <1>4, <1>5 DEF Open, Both

-----------------------------------------------------------------------------
(* The specification. *)

IInv ==
  /\ t30 \in [Party -> t30_state_t]
  /\ Both(t30["caller"], t30["answerer"])
  /\ faults \in 0 .. MaxFaults

\* How the document has got on in a step.
Step == Progress(t30["caller"], t30["answerer"], t30'["caller"], t30'["answerer"])

LEMMA StepsKeep ==
  ASSUME IInv, NEW new, Becomes(new),
         Moves(t30["caller"], t30["answerer"], new["caller"], new["answerer"])
  PROVE  IInv' /\ Step
<1> DEFINE started == {p \in Party : new[p].sending \notin {None, t30[p].sending}}
<1>1. PICK fate \in [started -> Faults \cup {"good"}] :
        /\ faults' = faults + Cardinality({p \in started : fate[p] # "good"})
        /\ faults' <= MaxFaults
        /\ t30' = [p \in Party |->
                     IF p \in started THEN [new[p] EXCEPT !.fate = fate[p]] ELSE new[p]]
  BY DEF Becomes
<1> DEFINE spoilt == {p \in started : fate[p] # "good"}
<1>2. faults' \in 0 .. MaxFaults
  <2>1. IsFiniteSet({"caller", "answerer"})
    <3>1. IsFiniteSet({} \cup {"caller"})
      BY FS_EmptySet, FS_AddElement
    <3>2. IsFiniteSet(({} \cup {"caller"}) \cup {"answerer"})
      BY <3>1, FS_AddElement
    <3>3. ({} \cup {"caller"}) \cup {"answerer"} = {"caller", "answerer"}
      OBVIOUS
    <3> QED BY <3>2, <3>3
  <2>2. spoilt \subseteq {"caller", "answerer"}
    BY DEF Party
  <2>3. Cardinality(spoilt) \in Nat
    BY <2>1, <2>2, FS_Subset, FS_CardinalityType
  <2> HIDE DEF spoilt
  <2>4. faults \in Nat
    BY DEF IInv
  <2> QED BY <1>1, <2>3, <2>4 DEF spoilt
<1>3. \A p \in started : fate[p] \in Fate
  BY <1>1, T30Assumption DEF Fate
<1> HIDE DEF started
<1>4. \A p \in Party : \E f \in Fate : t30'[p] \in {new[p], Fated(new[p], f)}
  <2> SUFFICES ASSUME NEW p \in Party
               PROVE  \E f \in Fate : t30'[p] \in {new[p], Fated(new[p], f)}
    OBVIOUS
  <2>1. CASE p \in started
    <3>1. t30'[p] = [new[p] EXCEPT !.fate = fate[p]]
      BY <1>1, <2>1
    <3> QED BY <1>3, <2>1, <3>1 DEF Fated
  <2>2. CASE p \notin started
    <3>1. t30'[p] = new[p] /\ "good" \in Fate
      BY <1>1, <2>2 DEF Fate
    <3> QED BY <3>1
  <2> QED BY <2>1, <2>2
<1>5. PICK f \in Fate : t30'["caller"] \in {new["caller"], Fated(new["caller"], f)}
  BY <1>4 DEF Party
<1>6. PICK g \in Fate :
        t30'["answerer"] \in {new["answerer"], Fated(new["answerer"], g)}
  BY <1>4 DEF Party
<1>7. Moves(t30["caller"], t30["answerer"], t30'["caller"], t30'["answerer"])
  <2> DEFINE c == t30["caller"]
             a == t30["answerer"]
             n == new["caller"]
             m == new["answerer"]
  <2>1. \A k \in {n, Fated(n, f)}, l \in {m, Fated(m, g)} : Moves(c, a, k, l)
    <3>1. Moves(c, a, n, m)
      OBVIOUS
    <3> HIDE DEF c, a, n, m
    <3> QED BY <3>1, FateGiven
  <2> QED BY <1>5, <1>6, <2>1
<1>8. t30' \in [Party -> t30_state_t]
  <2>1. t30'["caller"] \in t30_state_t /\ t30'["answerer"] \in t30_state_t
    BY <1>7 DEF Moves, Both, CallerOK, AnswererOK
  <2>2. t30' = [p \in Party |-> t30'[p]]
    BY <1>1
  <2> QED BY <2>1, <2>2 DEF Party
<1> QED BY <1>2, <1>7, <1>8 DEF IInv, Moves, Step

LEMMA Begins == Init => IInv
<1> SUFFICES ASSUME Init PROVE IInv
  OBVIOUS
<1> DEFINE c == t30_restart("T")
           a == t30_restart("ANSWERING")
<1>1. t30["caller"] = c /\ t30["answerer"] = a
  BY DEF Init, Party
<1>2. /\ "T" \in State /\ "ANSWERING" \in State /\ "A" \in Phase /\ "good" \in Fate
      /\ "OK" \in Status /\ <<>> \in Seq(1 .. Pages)
      /\ 0 \in 0 .. MAX_MESSAGE_TRIES + 1 /\ 0 \in 0 .. Rates - 1 /\ 0 \in 0 .. Pages
  BY DEF State, Phase, RxPhase, Fate, Status
<1>3. c \in t30_state_t /\ a \in t30_state_t
  BY <1>2 DEF t30_restart, t30_state_t, Phase
<1>4. CallerOK(c) /\ AnswererOK(a)
  BY <1>3 DEF CallerOK, AnswererOK, Storable, t30_restart, RxPhase, TxPhase, Over
<1>5. Agree(c, a)
  BY DEF Agree, Last, Storable, Confirming, t30_restart, TxPhase
<1>6. t30 \in [Party -> t30_state_t]
  BY <1>1, <1>3 DEF Init, Party
<1>7. faults \in 0 .. MaxFaults
  BY DEF Init
<1> QED BY <1>1, <1>4, <1>5, <1>6, <1>7 DEF IInv, Both

\* What only the caller does, and what only the answerer does.
LEMMA CallerAlone ==
  ASSUME IInv, NEW n, Persists(n, t30["caller"]), Becomes([t30 EXCEPT !["caller"] = n])
  PROVE  IInv' /\ Step
<1> DEFINE new == [t30 EXCEPT !["caller"] = n]
<1>1. new["caller"] = n /\ new["answerer"] = t30["answerer"]
  BY DEF IInv, Party
<1>2. Quiet(t30["answerer"], t30["answerer"])
  BY DEF IInv, Both, Quiet, SameStore
<1>3. Both(t30["caller"], t30["answerer"])
  BY DEF IInv
<1>4. Moves(t30["caller"], t30["answerer"], n, t30["answerer"])
  BY <1>2, <1>3, QuietSteps
<1>5. Becomes(new)
  OBVIOUS
<1> HIDE DEF new
<1> QED BY <1>1, <1>4, <1>5, StepsKeep

LEMMA AnswererAlone ==
  ASSUME IInv, NEW m, Quiet(m, t30["answerer"]), Becomes([t30 EXCEPT !["answerer"] = m])
  PROVE  IInv' /\ Step
<1> DEFINE new == [t30 EXCEPT !["answerer"] = m]
<1>1. new["caller"] = t30["caller"] /\ new["answerer"] = m
  BY DEF IInv, Party
<1>2. Persists(t30["caller"], t30["caller"])
  BY DEF IInv, Both, Persists, SamePage
<1>3. Both(t30["caller"], t30["answerer"])
  BY DEF IInv
<1>4. Moves(t30["caller"], t30["answerer"], t30["caller"], m)
  BY <1>2, <1>3, QuietSteps
<1>5. Becomes(new)
  OBVIOUS
<1> HIDE DEF new
<1> QED BY <1>1, <1>4, <1>5, StepsKeep

LEMMA SignalEndsKeeps ==
  ASSUME IInv, NEW p \in Party, SignalEnds(p)
  PROVE  IInv' /\ Step
<1> DEFINE c == t30["caller"]
           a == t30["answerer"]
<1>1. Both(c, a)
  BY DEF IInv
<1>2. CASE p = "caller"
  <2> DEFINE m == IF ~Tuned("answerer", c.sending) \/ c.fate = "lost" THEN a
                  ELSE IF c.sending \in Fast THEN HearFast(a, c.sending, c.fate, c.page)
                  ELSE HearFrames(a, c.sending, c.fate)
             new == [t30 EXCEPT !["caller"] = SendComplete(c), !["answerer"] = m]
  <2>1. c.sending # None /\ c.phase \in TxPhase /\ Becomes(new)
    BY <1>2 DEF SignalEnds, Peer, OnAir
  <2>2. /\ Tuned("answerer", c.sending) \in BOOLEAN
        /\ Tuned("answerer", c.sending) => a.phase \in RxPhase
    BY DEF Tuned, RxPhase
  <2>3. Moves(c, a, SendComplete(c), m)
    BY <1>1, <2>1, <2>2, CallerSignal
  <2>4. new["caller"] = SendComplete(c) /\ new["answerer"] = m
    BY DEF IInv, Party
  <2> HIDE DEF m, new
  <2> QED BY <2>1, <2>3, <2>4, StepsKeep
<1>3. CASE p = "answerer"
  <2> DEFINE n == IF ~Tuned("caller", a.sending) \/ a.fate = "lost" THEN c
                  ELSE IF a.sending \in Fast THEN HearFast(c, a.sending, a.fate, a.page)
                  ELSE HearFrames(c, a.sending, a.fate)
             new == [t30 EXCEPT !["answerer"] = SendComplete(a), !["caller"] = n]
  <2>1. a.sending # None /\ a.phase \in TxPhase /\ Becomes(new)
    BY <1>3 DEF SignalEnds, Peer, OnAir
  <2>2. /\ Tuned("caller", a.sending) \in BOOLEAN
        /\ Tuned("caller", a.sending) => c.phase \in RxPhase
    BY DEF Tuned, RxPhase
  <2>3. Moves(c, a, n, SendComplete(a))
    BY <1>1, <2>1, <2>2, AnswererSignal
  <2>4. new["answerer"] = SendComplete(a) /\ new["caller"] = n
    BY DEF IInv, Party
  <2> HIDE DEF n, new
  <2> QED BY <2>1, <2>3, <2>4, StepsKeep
<1> QED BY <1>2, <1>3 DEF Party

LEMMA ToneEndsKeeps ==
  ASSUME IInv, NEW p \in Party, ToneEnds(p)
  PROVE  IInv' /\ Step
<1>1. CallerOK(t30["caller"]) /\ AnswererOK(t30["answerer"])
  BY DEF IInv, Both
<1>2. CASE p = "caller"
  <2>1. t30["caller"].state = "B"
    BY <1>1, <1>2 DEF ToneEnds, Tone, CallerOK, Over
  <2>2. Persists(SendComplete(t30["caller"]), t30["caller"])
    BY <1>1, <2>1, CallerSent
  <2> QED BY <1>2, <2>2, CallerAlone DEF ToneEnds
<1>3. CASE p = "answerer"
  <2>1. Quiet(SendComplete(t30["answerer"]), t30["answerer"])
    BY <1>1, <1>3, AnswererSent DEF ToneEnds, Tone
  <2> QED BY <1>3, <2>1, AnswererAlone DEF ToneEnds
<1> QED BY <1>2, <1>3 DEF Party

LEMMA TimerT4Keeps ==
  ASSUME IInv, NEW p \in Party, timer_t4_expired(p)
  PROVE  IInv' /\ Step
<1>1. CASE p = "caller"
  <2>1. Open(t30["caller"])
    BY <1>1 DEF IInv, Both, Open, timer_t4_expired, T4Due, Listening
  <2> QED BY <1>1, <2>1, CallerT4, CallerAlone DEF timer_t4_expired
<1>2. CASE p = "answerer"
  <2>1. Waits(t30["answerer"])
    BY <1>2 DEF IInv, Both, Waits, timer_t4_expired, T4Due, Listening
  <2> QED BY <1>2, <2>1, AnswererT4, AnswererAlone DEF timer_t4_expired
<1> QED BY <1>1, <1>2 DEF Party

LEMMA TimerT2Keeps ==
  ASSUME IInv, NEW p \in Party, timer_t2_expired(p)
  PROVE  IInv' /\ Step
<1> DEFINE e == Expired(t30[p])
           n == CASE e.state = "F_DOC" -> Fails(e, "T2EXPFAXRX")
                  [] e.state = "F_POST_DOC" -> Fails(e, "T2EXPMPSRX")
                  [] e.state = "R" -> Fails(e, "T2EXPRX")
                  [] OTHER -> e
<1>1. t30[p].phase \in RxPhase /\ Becomes([t30 EXCEPT ![p] = StartReceiving(n, p)])
  BY DEF timer_t2_expired, T2Due, Listening
<1>2. \E status \in Status : n \in {e, Fails(e, status)}
  <2> HIDE DEF e
  <2>1. {"T2EXPFAXRX", "T2EXPMPSRX", "T2EXPRX"} \subseteq Status
    BY DEF Status
  <2>2. CASE e.state = "F_DOC"
    BY <2>1, <2>2
  <2>3. CASE e.state = "F_POST_DOC"
    BY <2>1, <2>3
  <2>4. CASE e.state = "R"
    BY <2>1, <2>4
  <2>5. CASE e.state \notin {"F_DOC", "F_POST_DOC", "R"}
    BY <2>1, <2>5
  <2> QED BY <2>2, <2>3, <2>4, <2>5
<1>3. PICK status \in Status : n \in {e, Fails(e, status)}
  BY <1>2
<1> HIDE DEF n
<1>4. CASE p = "caller"
  <2>1. Open(t30["caller"])
    BY <1>1, <1>4 DEF IInv, Both, Open
  <2>2. Persists(StartReceiving(n, "caller"), t30["caller"])
    BY <1>3, <1>4, <2>1, CallerT2
  <2> QED BY <1>1, <1>4, <2>2, CallerAlone
<1>5. CASE p = "answerer"
  <2>1. Waits(t30["answerer"])
    BY <1>1, <1>5 DEF IInv, Both, Waits
  <2>2. Quiet(StartReceiving(n, "answerer"), t30["answerer"])
    BY <1>3, <1>5, <2>1, AnswererT2
  <2> QED BY <1>1, <1>5, <2>2, AnswererAlone
<1> QED BY <1>4, <1>5 DEF Party

LEMMA TimerT0Keeps ==
  ASSUME IInv, NEW p \in Party, timer_t0_expired(p)
  PROVE  IInv' /\ Step
<1> DEFINE n == Disconnect(Fails(t30[p], "T0EXPIRED"))
<1>1. Becomes([t30 EXCEPT ![p] = n]) /\ "T0EXPIRED" \in Status
  BY DEF timer_t0_expired, IInv, Status
<1>2. p = "caller" => Persists(n, t30["caller"])
  BY <1>1, CallerDrops DEF IInv, Both
<1>3. p = "answerer" => Quiet(n, t30["answerer"])
  BY <1>1, AnswererDrops DEF IInv, Both
<1> HIDE DEF n
<1> QED BY <1>1, <1>2, <1>3, CallerAlone, AnswererAlone DEF Party

LEMMA TimerT1Keeps ==
  ASSUME IInv, NEW p \in Party, timer_t1_expired(p)
  PROVE  IInv' /\ Step
<1> DEFINE s == Fails([t30[p] EXCEPT !.t0_t1 = "off"], "T1EXPIRED")
           n == CASE s.state = "T" -> Disconnect(s)
                  [] s.state = "R" -> SendDcn(s)
                  [] OTHER -> s
<1>1. Becomes([t30 EXCEPT ![p] = n])
  BY DEF timer_t1_expired
<1>2. CASE p = "caller"
  <2>1. CallerOK(t30[p])
    BY <1>2 DEF IInv, Both
  <2>2. Persists(s, t30[p]) /\ Persists(Disconnect(s), t30[p])
    BY <2>1, CallerT1
  <2>3. s.state = t30[p].state /\ s.state # "R"
    BY <2>1 DEF Fails, CallerOK, t30_state_t, Over
  <2>4. n \in {s, Disconnect(s)}
    BY <2>3
  <2> HIDE DEF n
  <2>5. Persists(n, t30["caller"])
    BY <1>2, <2>2, <2>4
  <2> QED BY <1>1, <1>2, <2>5, CallerAlone
<1>3. CASE p = "answerer"
  <2>1. AnswererOK(t30[p])
    BY <1>3 DEF IInv, Both
  <2>2. /\ Quiet(s, t30[p]) /\ s.state = t30[p].state
        /\ t30[p].state = "R" => Quiet(SendDcn(s), t30[p])
    BY <2>1, AnswererT1
  <2>3. t30[p].state # "T"
    BY <2>1 DEF AnswererOK, Over
  <2> HIDE DEF s
  <2>4. Quiet(n, t30[p])
    BY <2>2, <2>3
  <2> HIDE DEF n
  <2> QED BY <1>1, <1>3, <2>4, AnswererAlone
<1> QED BY <1>2, <1>3 DEF Party

LEMMA TerminateKeeps ==
  ASSUME IInv, NEW p \in Party, t30_terminate(p)
  PROVE  IInv' /\ Step
<1> DEFINE s == t30[p]
           k == CASE s.state = "C" -> Disconnect(s)
                  [] s.state = "B" -> s
                  [] OTHER -> Fails(s, "CALLDROPPED")
           n == [k EXCEPT !.state = "FINISHED", !.phase = "FINISHED"]
<1>1. Becomes([t30 EXCEPT ![p] = n])
  BY DEF t30_terminate
<1>2. k \in {s, Disconnect(s), Fails(s, "CALLDROPPED")}
  OBVIOUS
<1> HIDE DEF k
<1>3. p = "caller" => Persists(n, t30["caller"])
  BY <1>2, CallerTerminates DEF IInv, Both
<1>4. p = "answerer" => Quiet(n, t30["answerer"])
  BY <1>2, AnswererTerminates DEF IInv, Both
<1> HIDE DEF n
<1> QED BY <1>1, <1>3, <1>4, CallerAlone, AnswererAlone DEF Party

LEMMA NextKeeps ==
  ASSUME IInv, [Next]_vars
  PROVE  IInv' /\ Step
<1>1. CASE UNCHANGED vars
  BY <1>1 DEF vars, IInv, Step, Progress, Party
<1>2. CASE Next
  BY <1>1, <1>2, SignalEndsKeeps, ToneEndsKeeps, TimerT0Keeps, TimerT1Keeps, TimerT2Keeps,
     TimerT4Keeps, TerminateKeeps
  DEF Next
<1> QED BY <1>1, <1>2

LEMMA Invariance == Spec => []IInv
<1>1. IInv /\ [Next]_vars => IInv'
  BY NextKeeps
<1> QED BY Begins, <1>1, PTL DEF Spec

-----------------------------------------------------------------------------
(* The theorems. *)

\* Every field of the t30_state_t keeps to its values, and every page that is
\* sent, received or stored is one of the document.
THEOREM TypeCorrect == Spec => []TypeOK
<1>1. IInv => TypeOK
  BY DEF IInv, TypeOK
<1> QED BY <1>1, Invariance, PTL

\* What the handlers of both ends make of a document, whatever the line does to
\* their signals, is a delivery: pages stored in order, none left out, and
\* "Success - delivered" logged only when the last one is stored.
THEOREM PagesDelivered == Spec => Delivered
<1>1. Init => Delivers!Init
  BY DEF Init, Delivers!Init, Party, t30_restart
<1>2. IInv /\ [Next]_vars => [Delivers!Next]_(Delivers!vars)
  <2> SUFFICES ASSUME IInv, [Next]_vars PROVE [Delivers!Next]_(Delivers!vars)
    OBVIOUS
  <2>1. Step /\ IInv'
    BY NextKeeps
  <2>2. /\ t30["caller"].success \in BOOLEAN /\ t30'["caller"].success \in BOOLEAN
    BY <2>1 DEF IInv, t30_state_t, Party
  <2> QED BY <2>1, <2>2
          DEF Step, Progress, Last, Delivers!Next, Delivers!Store, Delivers!Report,
              Delivers!LastPage, Delivers!vars
<1> QED BY <1>1, <1>2, Invariance, PTL DEF Spec, Delivered, Delivers!Spec
=============================================================================
