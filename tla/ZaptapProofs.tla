----------------------------- MODULE ZaptapProofs ----------------------------
(***************************************************************************)
(* Proofs about Zaptap, for any channels, any processes and buffers of any *)
(* size, when there is one CPU: where samples go, that they are            *)
(* multiplexed as the reader expects, and what a process that does not     *)
(* share the device may rely on, whoever had it before.                    *)
(***************************************************************************)
EXTENDS Zaptap, TLAPS

UniProcessor == Smp = FALSE

Using(p) == pc[p] \in {"open", "sleeping", "awake", "copying"}

\* The first two samples of a frame are stored and the third is not yet.
Midway == sample_state # "IDLE" /\ sample_ch \in Chan /\ irq[sample_ch] = "in"

Lost == \E c \in Chan : irq[c] = "lost"

\* Whatever the processes do: interrupts come one at a time, psample is at the
\* beginning of a frame between them, and the last to close stops the sampling.
Place ==
  /\ \A c, d \in Chan : irq[c] # "out" /\ irq[d] # "out" => c = d
  /\ sample_state # "IDLE" => \E p \in Proc : Using(p)
  /\ shared => \E p \in Proc : pc[p] # "closed"
  /\ ~Lost => \E m \in Nat : psample.off = 3 * m + (IF Midway THEN 2 ELSE 0)
  /\ Midway => psample.off \in Cell

\* psample and samples are moved apart: what they are to each other for a process
\* that has the device for itself.
Alone ==
  ~shared =>
    /\ ~Lost
    /\ \A p, q \in Proc : pc[p] # "closed" /\ pc[q] # "closed" => p = q
    /\ \A p \in Proc : Using(p) =>
         /\ sample_state # "IDLE"
         /\ psample.off = 3 * samples + (IF Midway THEN 2 ELSE 0)
    /\ \A p \in Proc : pc[p] \in {"pinged", "counted"} => psample.off = 0
    /\ samples # 0 => \E p \in Proc : Using(p) \/ pc[p] = "idled"

\* All frames are of one channel but the one that is being stored.
Frames ==
  /\ \A b \in Buffer, n \in 0 .. SAMPLE_BUF_SZ - 1 :
       ~Midway \/ b # psample.buf \/ 3 * n + 2 # psample.off => OneChannel(b, n)
  /\ Midway => /\ data[psample.buf][psample.off - 2] = Signal("tx", sample_ch)
               /\ data[psample.buf][psample.off - 1] = Signal("rx", sample_ch)

Inv == TypeOK /\ Place /\ Alone /\ Multiplexed /\ Frames

-----------------------------------------------------------------------------
(* Types and places *)

LEMMA Initially == Init => Inv
<1> SUFFICES ASSUME Init PROVE Inv
  OBVIOUS
<1>1. TypeOK
  <2>1. data \in [Buffer -> [Cell -> {Blank} \cup
                    [kind : {"tx", "rx", "ec"}, chan : Chan]]]
    BY DEF Init
  <2>2. shared \in BOOLEAN
    BY DEF Init
  <2>3. samples \in 0 .. SAMPLE_BUF_SZ - 1
    BY ZaptapAssumption DEF Init
  <2> QED BY <2>1, <2>2, <2>3 DEF Init, TypeOK, Buffer
<1>2. ~Midway /\ ~Lost
  BY DEF Init, Midway, Lost
<1>3. Place /\ Alone
  <2>1. psample.off = 3 * 0 + 0
    BY DEF Init
  <2> QED BY <1>2, <2>1 DEF Init, Place, Alone, Using
<1>4. Multiplexed
  BY DEF Init, Multiplexed
<1>5. \A b \in Buffer, n \in 0 .. SAMPLE_BUF_SZ - 1 : OneChannel(b, n)
  BY ZaptapAssumption DEF Init, OneChannel, Cell
<1> QED BY <1>1, <1>2, <1>3, <1>4, <1>5 DEF Inv, Frames

\* A process that has the device for itself has psample in its buffer.
LEMMA Inside ==
  ASSUME TypeOK, Place, Alone
  PROVE  InBuffer
<1> SUFFICES ASSUME ~shared, sample_state # "IDLE" PROVE psample.off \in Cell
  BY DEF InBuffer, Alone, Lost
<1>1. psample.off = 3 * samples + (IF Midway THEN 2 ELSE 0)
  BY DEF Place, Alone
<1>2. \A n \in 0 .. SAMPLE_BUF_SZ - 1 : 3 * n \in Cell /\ 3 * n + 2 \in Cell /\ 3 * n + 0 = 3 * n
  BY ZaptapAssumption DEF Cell
<1>3. samples \in 0 .. SAMPLE_BUF_SZ - 1
  BY DEF TypeOK
<1> QED BY <1>1, <1>2, <1>3

\* What an interrupt stores before the canceller: two samples, or none.
LEMMA BeforeStores ==
  ASSUME TypeOK, NEW c \in Chan, sample_echo_before(c), Sampled(c)
  PROVE  /\ psample' = [buf |-> psample.buf, off |-> psample.off + 2]
         /\ \A b \in Buffer, k \in Cell :
              data'[b][k] = IF b = psample.buf /\ k = psample.off
                            THEN Signal("tx", c)
                            ELSE IF b = psample.buf /\ k = psample.off + 1
                            THEN Signal("rx", c) ELSE data[b][k]
         /\ data' \in [Buffer -> [Cell -> {Blank} \cup
                         [kind : {"tx", "rx", "ec"}, chan : Chan]]]
<1> DEFINE s == [i \in 0 .. 1 |-> Signal(IF i = 0 THEN "tx" ELSE "rx", c)]
<1>1. Put(s, 2)
  BY DEF sample_echo_before
<1>2. psample' = [buf |-> psample.buf, off |-> psample.off + 2]
  BY <1>1 DEF Put, TypeOK
<1>3. \A b \in Buffer, k \in Cell :
        data'[b][k] = IF b = psample.buf /\ k - psample.off \in 0 .. 1
                      THEN s[k - psample.off] ELSE data[b][k]
  BY <1>1 DEF Put, TypeOK
<1>4. s[0] = Signal("tx", c) /\ s[1] = Signal("rx", c)
  OBVIOUS
<1>5. \A b \in Buffer, k \in Cell :
        data'[b][k] = IF b = psample.buf /\ k = psample.off
                      THEN Signal("tx", c)
                      ELSE IF b = psample.buf /\ k = psample.off + 1
                      THEN Signal("rx", c) ELSE data[b][k]
  <2> TAKE b \in Buffer, k \in Cell
  <2> HIDE DEF s
  <2>1. k \in Int /\ psample.off \in Int
    BY DEF Cell, TypeOK
  <2>2. CASE k - psample.off = 0
    BY <1>3, <1>4, <2>1, <2>2
  <2>3. CASE k - psample.off = 1
    BY <1>3, <1>4, <2>1, <2>3
  <2>4. CASE k - psample.off \notin 0 .. 1
    BY <1>3, <2>1, <2>4
  <2> QED BY <2>1, <2>2, <2>3, <2>4
<1>6. /\ Signal("tx", c) \in [kind : {"tx", "rx", "ec"}, chan : Chan]
      /\ Signal("rx", c) \in [kind : {"tx", "rx", "ec"}, chan : Chan]
  BY DEF Signal
<1>7. data' \in [Buffer -> [Cell -> {Blank} \cup
                   [kind : {"tx", "rx", "ec"}, chan : Chan]]]
  <2>1. data' = [b \in Buffer |-> [k \in Cell |-> data'[b][k]]]
    BY <1>1 DEF Put, TypeOK
  <2>2. \A b \in Buffer, k \in Cell :
          data'[b][k] \in {Blank} \cup [kind : {"tx", "rx", "ec"}, chan : Chan]
    BY <1>5, <1>6 DEF TypeOK
  <2> QED BY <2>1, <2>2
<1> QED BY <1>2, <1>5, <1>7

\* What it stores after the canceller: one sample, whether or not the buffer
\* is full with it.
LEMMA AfterStores ==
  ASSUME TypeOK, NEW c \in Chan, sample_echo_after(c), Sampled(c)
  PROVE  /\ \A b \in Buffer, k \in Cell :
              data'[b][k] = IF b = psample.buf /\ k = psample.off
                            THEN Signal("ec", c) ELSE data[b][k]
         /\ data' \in [Buffer -> [Cell -> {Blank} \cup
                         [kind : {"tx", "rx", "ec"}, chan : Chan]]]
         /\ BufferFull => /\ psample'.off = 0 /\ psample'.buf \in Buffer
                          /\ psample' \in [buf : Buffer, off : Nat]
                          /\ samples' = 0
                          /\ sample_state' \in {"PING", "PONG"}
         /\ ~BufferFull =>
              /\ psample' = [buf |-> psample.buf, off |-> psample.off + 1]
              /\ samples' = samples + 1
              /\ sample_state' = sample_state
<1>1. AfterStore(c) \/ AfterSwap(c)
  BY DEF sample_echo_after
<1>2. \A b \in Buffer, k \in Cell :
        data'[b][k] = IF b = psample.buf /\ k = psample.off
                      THEN Signal("ec", c) ELSE data[b][k]
  <2>1. CASE AfterStore(c)
    <3> DEFINE s == [i \in {0} |-> Signal("ec", c)]
    <3>1. Put(s, 1) /\ s[0] = Signal("ec", c) /\ DOMAIN s = {0}
      BY <2>1 DEF AfterStore
    <3> HIDE DEF s
    <3> TAKE b \in Buffer, k \in Cell
    <3>2. k \in Int /\ psample.off \in Int
      BY DEF Cell, TypeOK
    <3>3. data'[b][k] = IF b = psample.buf /\ k - psample.off \in {0}
                        THEN s[k - psample.off] ELSE data[b][k]
      BY <3>1 DEF Put, TypeOK
    <3>4. CASE k - psample.off = 0
      BY <3>1, <3>2, <3>3, <3>4
    <3>5. CASE k - psample.off # 0
      BY <3>2, <3>3, <3>5
    <3> QED BY <3>4, <3>5
  <2>2. CASE AfterSwap(c)
    BY <2>2 DEF AfterSwap, Swap, TypeOK
  <2> QED BY <1>1, <2>1, <2>2
<1>3. data' \in [Buffer -> [Cell -> {Blank} \cup
                   [kind : {"tx", "rx", "ec"}, chan : Chan]]]
  <2>1. data' = [b \in Buffer |-> [k \in Cell |-> data'[b][k]]]
    <3>1. CASE AfterStore(c)
      BY <3>1 DEF AfterStore, Put, TypeOK
    <3>2. CASE AfterSwap(c)
      BY <3>2 DEF AfterSwap, Swap, TypeOK
    <3> QED BY <1>1, <3>1, <3>2
  <2>2. Signal("ec", c) \in [kind : {"tx", "rx", "ec"}, chan : Chan]
    BY DEF Signal
  <2>3. \A b \in Buffer, k \in Cell :
          data'[b][k] \in {Blank} \cup [kind : {"tx", "rx", "ec"}, chan : Chan]
    BY <1>2, <2>2 DEF TypeOK
  <2> QED BY <2>1, <2>3
<1>4. ASSUME BufferFull
      PROVE  /\ psample'.off = 0 /\ psample'.buf \in Buffer
             /\ psample' \in [buf : Buffer, off : Nat]
             /\ samples' = 0 /\ sample_state' \in {"PING", "PONG"}
  <2>1. Swap(c)
    BY <1>1, <1>4 DEF AfterStore, AfterSwap
  <2> QED BY <2>1 DEF Swap, Buffer
<1>5. ASSUME ~BufferFull
      PROVE  /\ psample' = [buf |-> psample.buf, off |-> psample.off + 1]
             /\ samples' = samples + 1 /\ sample_state' = sample_state
  <2>1. AfterStore(c)
    BY <1>1, <1>5 DEF AfterSwap, Swap
  <2> QED BY <2>1 DEF AfterStore, Put, TypeOK
<1> QED BY <1>2, <1>3, <1>4, <1>5

\* Whether two more samples fit is whether the frame does.
LEMMA WholeFrames ==
  ASSUME NEW m \in Nat
  PROVE  /\ 3 * m + 1 \in Cell <=> m < SAMPLE_BUF_SZ
         /\ 3 * m \in Cell <=> m < SAMPLE_BUF_SZ
         /\ 3 * m + 2 \in Cell <=> m < SAMPLE_BUF_SZ
  BY ZaptapAssumption DEF Cell

LEMMA BeforeType ==
  ASSUME UniProcessor, Inv, NEW c \in Chan, sample_echo_before(c)
  PROVE  /\ TypeOK' /\ Place' /\ Alone' /\ ~Midway
         /\ Midway' <=> Sampled(c) /\ ~Astray(2)
         /\ UNCHANGED <<sample_state, samples, sample_ch, done, shared, pc, pread, signalled>>
         /\ \E m \in Nat : psample.off = 3 * m
<1>1. OneCpu /\ ~Midway /\ ~Lost
  BY DEF sample_echo_before, UniProcessor, MayRun, OneCpu, Midway, Lost, Inv, TypeOK
<1>2. UNCHANGED <<sample_state, samples, sample_ch, done, shared, pc, pread, signalled>>
  BY DEF sample_echo_before
<1>3. /\ irq' \in [Chan -> {"out", "in", "lost"}]
      /\ \A d \in Chan : irq'[d] # "out" <=> d = c
      /\ irq'[c] = IF Sampled(c) /\ Astray(2) THEN "lost" ELSE "in"
  BY <1>1 DEF sample_echo_before, Inv, TypeOK, OneCpu
<1>4. /\ Midway' <=> Sampled(c) /\ ~Astray(2)
      /\ Lost' <=> Sampled(c) /\ Astray(2)
  BY <1>2, <1>3 DEF Midway, Lost, Sampled, Inv, TypeOK
<1>5. PICK m \in Nat : psample.off = 3 * m
  <2>1. PICK m \in Nat : psample.off = 3 * m + 0
    BY <1>1 DEF Inv, Place
  <2> QED BY <2>1
<1>6. CASE Sampled(c)
  <2>1. /\ psample' = [buf |-> psample.buf, off |-> psample.off + 2]
        /\ data' \in [Buffer -> [Cell -> {Blank} \cup
                         [kind : {"tx", "rx", "ec"}, chan : Chan]]]
    BY <1>6, BeforeStores DEF Inv
  <2>2. TypeOK'
    BY <1>2, <1>3, <2>1 DEF Inv, TypeOK
  <2>3. psample'.off = 3 * m + 2 /\ (Astray(2) <=> psample'.off \notin Cell)
    <3>1. psample.off + 2 - 1 = 3 * m + 1 /\ psample'.off = 3 * m + 2
      BY <1>5, <2>1 DEF TypeOK
    <3> QED BY <3>1, WholeFrames DEF Astray
  <2>4. Place'
    BY <1>2, <1>3, <1>4, <1>6, <2>3 DEF Inv, Place, Using
  <2>5. Alone'
    <3> SUFFICES ASSUME ~shared PROVE Alone'
      BY <1>2 DEF Alone
    <3>1. PICK p \in Proc : Using(p)
      BY <1>6 DEF Sampled, Inv, Place
    <3>2. psample.off = 3 * samples /\ samples \in 0 .. SAMPLE_BUF_SZ - 1
      BY <1>1, <3>1 DEF Inv, Alone, TypeOK
    <3>3. m = samples /\ m < SAMPLE_BUF_SZ
      BY <1>5, <3>2, ZaptapAssumption
    <3>4. ~Astray(2)
      BY <2>3, <3>3, WholeFrames
    <3>5. \A q \in Proc : pc[q] \notin {"pinged", "counted"}
      BY <3>1 DEF Inv, Alone, Using
    <3> QED BY <1>2, <1>4, <1>6, <2>3, <3>3, <3>4, <3>5 DEF Inv, Alone, Using
  <2> QED BY <1>1, <1>2, <1>4, <1>5, <2>2, <2>4, <2>5
<1>7. CASE ~Sampled(c)
  <2>1. UNCHANGED buffers
    BY <1>7 DEF sample_echo_before
  <2>2. TypeOK'
    BY <1>2, <1>3, <2>1 DEF Inv, TypeOK, buffers
  <2>3. Place'
    BY <1>1, <1>2, <1>3, <1>4, <1>7, <2>1 DEF Inv, Place, Using, buffers
  <2>4. Alone'
    BY <1>1, <1>2, <1>3, <1>4, <1>7, <2>1 DEF Inv, Alone, Using, buffers
  <2> QED BY <1>1, <1>2, <1>4, <1>5, <2>2, <2>3, <2>4
<1> QED BY <1>6, <1>7

LEMMA AfterType ==
  ASSUME Inv, NEW c \in Chan, sample_echo_after(c)
  PROVE  /\ TypeOK' /\ Place' /\ Alone' /\ ~Midway' /\ (Midway <=> Sampled(c))
         /\ Midway => \E m \in 0 .. SAMPLE_BUF_SZ - 1 : psample.off = 3 * m + 2
<1>1. /\ irq[c] = "in" /\ sample_ch' = sample_ch /\ pread' = pread
      /\ shared' = shared /\ signalled' = signalled
  BY DEF sample_echo_after
<1>2. Midway <=> Sampled(c)
  BY <1>1 DEF Midway, Sampled, Inv, Place, TypeOK
<1>3. ~Lost
  BY <1>1 DEF Lost, Inv, Place
<1>4. ASSUME Midway
      PROVE  ~Astray(1) /\ \E m \in 0 .. SAMPLE_BUF_SZ - 1 : psample.off = 3 * m + 2
  <2>1. PICK m \in Nat : psample.off = 3 * m + 2
    BY <1>3, <1>4 DEF Inv, Place
  <2>2. psample.off \in Cell /\ psample.off + 1 - 1 = psample.off
    BY <1>4, <2>1 DEF Inv, Place
  <2>3. m \in 0 .. SAMPLE_BUF_SZ - 1
    BY <2>1, <2>2, WholeFrames, ZaptapAssumption
  <2> QED BY <2>1, <2>2, <2>3 DEF Astray
<1>5. irq' = [irq EXCEPT ![c] = "out"]
  BY <1>2, <1>4 DEF sample_echo_after
<1>6. \A d \in Chan : irq'[d] = "out"
  BY <1>1, <1>5 DEF Inv, Place, TypeOK
<1>7. irq' \in [Chan -> {"out", "in", "lost"}]
  BY <1>5 DEF Inv, TypeOK
<1>8. ~Midway' /\ ~Lost'
  BY <1>1, <1>6 DEF Midway, Lost, Inv, TypeOK
<1>9. CASE Sampled(c)
  <2>1. PICK m \in 0 .. SAMPLE_BUF_SZ - 1 : psample.off = 3 * m + 2
    BY <1>2, <1>4, <1>9
  <2>2. /\ data' \in [Buffer -> [Cell -> {Blank} \cup
                         [kind : {"tx", "rx", "ec"}, chan : Chan]]]
        /\ psample' \in [buf : Buffer, off : Nat]
        /\ samples' \in 0 .. SAMPLE_BUF_SZ - 1
        /\ sample_state' \in {"PING", "PONG"}
        /\ \E k \in Nat : psample'.off = 3 * k + 0
        /\ psample.off = 3 * samples + 2 => psample'.off = 3 * samples' + 0
    <3>1. CASE BufferFull
      <4>1. psample'.off = 3 * 0 + 0 /\ samples' = 0
        BY <1>9, <3>1, AfterStores DEF Inv
      <4> QED BY <1>9, <3>1, <4>1, AfterStores, ZaptapAssumption DEF Inv
    <3>2. CASE ~BufferFull
      <4>1. psample' = [buf |-> psample.buf, off |-> psample.off + 1]
            /\ samples' = samples + 1 /\ sample_state' = sample_state
        BY <1>9, <3>2, AfterStores DEF Inv
      <4>2. samples' \in 0 .. SAMPLE_BUF_SZ - 1
        BY <3>2, <4>1, ZaptapAssumption DEF BufferFull, Inv, TypeOK
      <4>3. psample'.off = 3 * (m + 1) + 0 /\ m + 1 \in Nat
            /\ psample' \in [buf : Buffer, off : Nat]
        BY <2>1, <4>1, ZaptapAssumption DEF Inv, TypeOK
      <4>4. data' \in [Buffer -> [Cell -> {Blank} \cup
                         [kind : {"tx", "rx", "ec"}, chan : Chan]]]
        BY <1>9, AfterStores DEF Inv
      <4>5. sample_state' \in {"PING", "PONG"}
        BY <1>9, <4>1 DEF Sampled, Inv, TypeOK
      <4>6. psample.off = 3 * samples + 2 => psample'.off = 3 * samples' + 0
        BY <4>1 DEF Inv, TypeOK
      <4> QED BY <4>2, <4>3, <4>4, <4>5, <4>6
    <3> QED BY <3>1, <3>2
  <2>3. /\ pc' \in [Proc -> {"closed", "pinged", "counted", "open", "sleeping",
                             "awake", "copying", "idled"}]
        /\ \A p \in Proc :
             /\ Using(p)' <=> Using(p)
             /\ pc[p] \in {"closed", "pinged", "counted", "idled"}
                \/ pc'[p] \in {"closed", "pinged", "counted", "idled"} => pc'[p] = pc[p]
        /\ done' \in SUBSET Buffer
    <3>1. CASE AfterStore(c)
      BY <3>1 DEF AfterStore, Using, Inv, TypeOK
    <3>2. CASE AfterSwap(c)
      BY <3>2 DEF AfterSwap, Swap, Using, Inv, TypeOK
    <3> QED BY <1>9, <3>1, <3>2 DEF sample_echo_after
  <2>4. TypeOK'
    BY <1>1, <1>7, <2>2, <2>3 DEF Inv, TypeOK
  <2>5. PICK p \in Proc : Using(p)
    BY <1>9 DEF Sampled, Inv, Place
  <2>6. Place'
    BY <1>1, <1>6, <1>8, <2>2, <2>3, <2>5 DEF Inv, Place, Using
  <2>7. Alone'
    <3> SUFFICES ASSUME ~shared PROVE Alone'
      BY <1>1 DEF Alone
    <3>1. psample.off = 3 * samples + 2 /\ \A q \in Proc : pc[q] # "closed" => q = p
      BY <1>2, <1>9, <2>5 DEF Inv, Alone, Using
    <3>2. \A q \in Proc : pc'[q] # "closed" => q = p
      BY <2>3, <3>1
    <3>3. Using(p)' /\ pc'[p] \notin {"pinged", "counted"} /\ sample_state' # "IDLE"
      BY <2>2, <2>3, <2>5 DEF Using
    <3> QED BY <1>8, <2>2, <3>1, <3>2, <3>3 DEF Alone, Using
  <2> QED BY <1>2, <1>4, <1>8, <2>4, <2>6, <2>7
<1>10. CASE ~Sampled(c)
  <2>1. UNCHANGED <<buffers, samples, sample_state, done, pc>>
    BY <1>10 DEF sample_echo_after, AfterStore, AfterSwap, Swap
  <2>2. TypeOK'
    BY <1>1, <1>7, <2>1 DEF Inv, TypeOK, buffers
  <2>3. Place' /\ Alone'
    <3>1. ~Midway /\ ~Midway' /\ ~Lost /\ ~Lost'
      BY <1>2, <1>3, <1>8, <1>10
    <3>2. Place'
      BY <1>1, <1>6, <2>1, <3>1 DEF Inv, Place, Using, buffers
    <3>3. Alone'
      BY <1>1, <2>1, <3>1 DEF Inv, Alone, Using, buffers
    <3> QED BY <3>2, <3>3
  <2> QED BY <1>2, <1>4, <1>8, <2>2, <2>3
<1> QED BY <1>9, <1>10

-----------------------------------------------------------------------------
(* What the cells hold *)

LEMMA Thirds == \A n \in Nat : (3 * n) % 3 = 0 /\ (3 * n + 1) % 3 = 1 /\ (3 * n + 2) % 3 = 2
  OBVIOUS

LEMMA SignalIsNotBlank ==
  \A k \in {"tx", "rx", "ec"}, c \in Chan :
    Signal(k, c) # Blank /\ Signal(k, c).kind = k /\ Signal(k, c).chan = c
  BY DEF Signal, Blank

\* The frame n of a buffer is of one channel when its cells are untouched.
LEMMA FrameUntouched ==
  ASSUME NEW b, NEW n, OneChannel(b, n),
         \A i \in 0 .. 2 : data'[b][3 * n + i] = data[b][3 * n + i],
         3 * n + 0 = 3 * n
  PROVE  OneChannel(b, n)'
  BY DEF OneChannel

LEMMA BeforeData ==
  ASSUME UniProcessor, Inv, NEW c \in Chan, sample_echo_before(c)
  PROVE  Multiplexed' /\ Frames'
<1>1. /\ TypeOK /\ ~Midway /\ (Midway' <=> Sampled(c) /\ ~Astray(2))
      /\ \A b \in Buffer, n \in 0 .. SAMPLE_BUF_SZ - 1 : OneChannel(b, n)
      /\ sample_ch' = sample_ch
  BY BeforeType DEF Inv, Frames
<1>2. PICK m \in Nat : psample.off = 3 * m
  BY BeforeType
<1>3. SAMPLE_BUF_SZ \in Nat
  BY ZaptapAssumption
<1>4. CASE Sampled(c)
  <2>1. /\ psample'.buf = psample.buf /\ psample.buf \in Buffer
        /\ psample'.off = 3 * m + 2
        /\ \A b \in Buffer, k \in Cell :
             data'[b][k] = IF b = psample.buf /\ k = 3 * m
                           THEN Signal("tx", c)
                           ELSE IF b = psample.buf /\ k = 3 * m + 1
                           THEN Signal("rx", c) ELSE data[b][k]
    BY <1>1, <1>2, <1>4, BeforeStores DEF TypeOK
  <2>2. Multiplexed'
    BY <1>2, <2>1, Thirds, SignalIsNotBlank DEF Inv, Multiplexed
  <2>3. ASSUME NEW b \in Buffer, NEW n \in 0 .. SAMPLE_BUF_SZ - 1,
               b # psample.buf \/ n # m
        PROVE  OneChannel(b, n)'
    <3>1. ASSUME NEW i \in 0 .. 2 PROVE data'[b][3 * n + i] = data[b][3 * n + i]
      <4>1. /\ 3 * n + i \in Cell
            /\ n # m => 3 * n + i # 3 * m /\ 3 * n + i # 3 * m + 1
        BY <1>2, <1>3 DEF Cell
      <4> QED BY <2>1, <2>3, <4>1
    <3> QED BY <1>1, <3>1, FrameUntouched
  <2>4. psample.off + 2 - 1 = 3 * m + 1 /\ (Astray(2) <=> m \notin 0 .. SAMPLE_BUF_SZ - 1)
    <3>1. psample.off + 2 - 1 = 3 * m + 1
      BY <1>2
    <3>2. m < SAMPLE_BUF_SZ <=> m \in 0 .. SAMPLE_BUF_SZ - 1
      BY <1>3
    <3> QED BY <3>1, <3>2, WholeFrames DEF Astray
  <2>5. ASSUME Midway'
        PROVE  /\ data'[psample.buf][3 * m] = Signal("tx", sample_ch)
               /\ data'[psample.buf][3 * m + 1] = Signal("rx", sample_ch)
    <3>1. m < SAMPLE_BUF_SZ
      BY <1>1, <1>3, <2>4, <2>5
    <3>2. 3 * m \in Cell /\ 3 * m + 1 \in Cell /\ 3 * m # 3 * m + 1
      BY <3>1, WholeFrames
    <3>3. c = sample_ch
      BY <1>4 DEF Sampled
    <3> QED BY <2>1, <3>2, <3>3
  <2>6. ASSUME NEW b \in Buffer, NEW n \in 0 .. SAMPLE_BUF_SZ - 1,
               ~Midway' \/ b # psample.buf \/ 3 * n + 2 # 3 * m + 2
        PROVE  OneChannel(b, n)'
    <3>1. b # psample.buf \/ n # m
      BY <1>1, <1>4, <2>4, <2>6
    <3> QED BY <2>3, <3>1
  <2>7. psample'.off - 2 = 3 * m /\ psample'.off - 1 = 3 * m + 1
    BY <2>1
  <2> QED BY <1>1, <2>1, <2>2, <2>5, <2>6, <2>7 DEF Frames
<1>5. CASE ~Sampled(c)
  <2>1. data' = data
    BY <1>5 DEF sample_echo_before, buffers
  <2>2. Multiplexed'
    BY <2>1 DEF Inv, Multiplexed
  <2>3. \A b \in Buffer, n \in 0 .. SAMPLE_BUF_SZ - 1 : OneChannel(b, n)'
    BY <1>1, <2>1 DEF OneChannel
  <2> QED BY <1>1, <1>5, <2>2, <2>3 DEF Frames
<1> QED BY <1>4, <1>5

LEMMA AfterData ==
  ASSUME Inv, NEW c \in Chan, sample_echo_after(c)
  PROVE  Multiplexed' /\ Frames'
<1>1. TypeOK /\ ~Midway' /\ (Midway <=> Sampled(c)) /\ SAMPLE_BUF_SZ \in Nat
  BY AfterType, ZaptapAssumption DEF Inv
<1>2. CASE Sampled(c)
  <2>1. PICK m \in 0 .. SAMPLE_BUF_SZ - 1 : psample.off = 3 * m + 2
    BY <1>1, <1>2, AfterType
  <2>2. c = sample_ch /\ psample.buf \in Buffer
    BY <1>1, <1>2 DEF Sampled, TypeOK
  <2>3. \A b \in Buffer, k \in Cell :
          data'[b][k] = IF b = psample.buf /\ k = 3 * m + 2
                        THEN Signal("ec", c) ELSE data[b][k]
    BY <1>1, <1>2, <2>1, AfterStores
  <2>4. Multiplexed'
    BY <1>1, <2>1, <2>3, Thirds, SignalIsNotBlank DEF Inv, Multiplexed
  <2>5. ASSUME NEW b \in Buffer, NEW n \in 0 .. SAMPLE_BUF_SZ - 1
        PROVE  OneChannel(b, n)'
    <3>1. CASE b # psample.buf \/ n # m
      <4>1. ASSUME NEW i \in 0 .. 2 PROVE data'[b][3 * n + i] = data[b][3 * n + i]
        <5>1. 3 * n + i \in Cell /\ (n # m => 3 * n + i # 3 * m + 2)
          BY <1>1 DEF Cell
        <5> QED BY <2>3, <3>1, <5>1
      <4>2. OneChannel(b, n)
        <5>1. n # m => 3 * n + 2 # psample.off
          BY <1>1, <2>1
        <5> QED BY <3>1, <5>1 DEF Inv, Frames
      <4> QED BY <4>1, <4>2, FrameUntouched
    <3>2. CASE b = psample.buf /\ n = m
      <4>1. /\ 3 * n \in Cell /\ 3 * n + 1 \in Cell /\ 3 * n + 2 \in Cell
            /\ 3 * n # 3 * n + 2 /\ 3 * n + 1 # 3 * n + 2
            /\ psample.off - 2 = 3 * n /\ psample.off - 1 = 3 * n + 1
        BY <1>1, <2>1, <3>2 DEF Cell
      <4>2. /\ data[b][3 * n] = Signal("tx", c)
            /\ data[b][3 * n + 1] = Signal("rx", c)
        BY <1>1, <1>2, <2>2, <3>2, <4>1 DEF Inv, Frames
      <4>3. /\ data'[b][3 * n] = Signal("tx", c)
            /\ data'[b][3 * n + 1] = Signal("rx", c)
            /\ data'[b][3 * n + 2] = Signal("ec", c)
        BY <2>3, <3>2, <4>1, <4>2
      <4> QED BY <4>3, SignalIsNotBlank DEF OneChannel
    <3> QED BY <3>1, <3>2
  <2> QED BY <1>1, <2>4, <2>5 DEF Frames
<1>3. CASE ~Sampled(c)
  <2>1. data' = data
    BY <1>3 DEF sample_echo_after, AfterStore, AfterSwap, Swap, buffers
  <2>2. Multiplexed'
    BY <2>1 DEF Inv, Multiplexed
  <2>3. \A b \in Buffer, n \in 0 .. SAMPLE_BUF_SZ - 1 : OneChannel(b, n)'
    BY <1>1, <1>3, <2>1 DEF OneChannel, Inv, Frames
  <2> QED BY <1>1, <2>2, <2>3 DEF Frames
<1> QED BY <1>2, <1>3

-----------------------------------------------------------------------------
(* The processes *)

\* A step of a process: which of its states it leaves for which, and that it is
\* between two interrupts.
LEMMA FopsStep ==
  ASSUME UniProcessor, TypeOK, NEW p \in Proc, sample_fops(p)
  PROVE  /\ data' = data /\ irq' = irq
         /\ ~Midway /\ ~Midway' /\ ~Lost /\ ~Lost'
         /\ pc' = [pc EXCEPT ![p] = pc'[p]]
         /\ \A q \in Proc \ {p} : pc'[q] = pc[q]
<1>1. OneCpu /\ data' = data /\ irq' = irq /\ pc' = [pc EXCEPT ![p] = pc'[p]]
  BY DEF UniProcessor, sample_fops, sample_read, OpenPing, OpenSamples, OpenState,
     SampleSetChannel, ReadSleep, ReadSignal, ReadPick, ReadDone, ReleaseState,
     ReleaseSamples, Step, MayRun, buffers, TypeOK
<1>2. \A c \in Chan : irq[c] = "out"
  BY <1>1 DEF OneCpu
<1> QED BY <1>1, <1>2 DEF Midway, Lost, TypeOK

LEMMA FopsType ==
  ASSUME TypeOK, NEW p \in Proc, sample_fops(p)
  PROVE  TypeOK'
<1> USE DEF TypeOK, Step, buffers, Buffer, Others
<1>1. CASE OpenPing(p)
  BY <1>1 DEF OpenPing
<1>2. CASE OpenSamples(p)
  BY <1>2, ZaptapAssumption DEF OpenSamples
<1>3. CASE OpenState(p) \/ ReleaseState(p)
  BY <1>3 DEF OpenState, ReleaseState
<1>4. ASSUME NEW c \in Number, SampleSetChannel(p, c) PROVE TypeOK'
  BY <1>4 DEF SampleSetChannel
<1>5. CASE ReadSleep(p) \/ ReadSignal(p)
  BY <1>5 DEF ReadSleep, ReadSignal
<1>6. CASE ReadPick(p) \/ ReadDone(p)
  BY <1>6 DEF ReadPick, ReadDone
<1>7. CASE ReleaseSamples(p)
  BY <1>7, ZaptapAssumption DEF ReleaseSamples
<1> QED BY <1>1, <1>2, <1>3, <1>4, <1>5, <1>6, <1>7 DEF sample_fops, sample_read

\* A step that opens or closes nothing.
Uses(p) == (\E c \in Number : SampleSetChannel(p, c)) \/ sample_read(p)

LEMMA UsesStep ==
  ASSUME TypeOK, NEW p \in Proc, Uses(p)
  PROVE  /\ Using(p) /\ Using(p)'
         /\ UNCHANGED <<sample_state, samples, buffers, done, shared>>
BY DEF Uses, SampleSetChannel, sample_read, ReadSleep, ReadSignal, ReadPick, ReadDone,
   Using, Step, TypeOK

LEMMA FopsPlace ==
  ASSUME UniProcessor, TypeOK, Place, NEW p \in Proc, sample_fops(p)
  PROVE  Place'
<1>1. /\ ~Midway /\ ~Midway' /\ ~Lost /\ ~Lost' /\ irq' = irq
      /\ \A q \in Proc \ {p} : pc'[q] = pc[q]
  BY FopsStep
<1>2. \A c, d \in Chan : irq'[c] # "out" /\ irq'[d] # "out" => c = d
  BY <1>1 DEF Place
<1>3. \E m \in Nat : psample'.off = 3 * m + 0
  <2>1. CASE OpenPing(p)
    <3>1. psample'.off = 3 * 0 + 0
      BY <2>1 DEF OpenPing
    <3> QED BY <3>1
  <2>2. CASE psample' = psample
    BY <1>1, <2>2 DEF Place
  <2> QED BY <2>1, <2>2
          DEF sample_fops, sample_read, OpenSamples, OpenState, SampleSetChannel, ReadSleep,
          ReadSignal, ReadPick, ReadDone, ReleaseState, ReleaseSamples, buffers
<1>4. /\ sample_state' # "IDLE" => \E q \in Proc : Using(q)'
      /\ shared' => \E q \in Proc : pc'[q] # "closed"
  <2>1. CASE OpenPing(p) \/ OpenSamples(p)
    BY <1>1, <2>1 DEF OpenPing, OpenSamples, Step, Place, Using, TypeOK
  <2>2. CASE OpenState(p)
    <3>1. pc'[p] = "open"
      BY <2>2 DEF OpenState, Step, TypeOK
    <3> QED BY <3>1 DEF Using
  <2>3. CASE Uses(p)
    BY <2>3, UsesStep DEF Using
  <2>4. CASE ReleaseState(p)
    <3>1. pc'[p] = "idled" /\ sample_state' = "IDLE"
      BY <2>4 DEF ReleaseState, Step, TypeOK
    <3> QED BY <3>1
  <2>5. CASE ReleaseSamples(p)
    BY <1>1, <2>5 DEF ReleaseSamples, Step, Place, Using, Others, TypeOK
  <2> QED BY <2>1, <2>2, <2>3, <2>4, <2>5 DEF sample_fops, Uses
<1> QED BY <1>1, <1>2, <1>3, <1>4 DEF Place

LEMMA FopsAlone ==
  ASSUME UniProcessor, TypeOK, Place, Alone, NEW p \in Proc, sample_fops(p)
  PROVE  Alone'
<1> SUFFICES ASSUME ~shared' PROVE Alone'
  BY DEF Alone
<1>1. /\ ~Midway /\ ~Midway' /\ ~Lost'
      /\ \A q \in Proc \ {p} : pc'[q] = pc[q]
  BY FopsStep
<1>2. CASE OpenPing(p)
  <2>1. \A q \in Proc : q # p => pc[q] = "closed"
    BY <1>2 DEF OpenPing, Others
  <2>2. ~shared /\ samples = 0 /\ samples' = samples
    BY <1>2, <2>1 DEF OpenPing, Step, Place, Alone, Using
  <2>3. psample'.off = 0 /\ pc'[p] = "pinged"
    BY <1>2 DEF OpenPing, Step, TypeOK
  <2> QED BY <1>1, <2>1, <2>2, <2>3 DEF Alone, Using
<1>3. CASE OpenSamples(p)
  BY <1>1, <1>3 DEF OpenSamples, Step, Alone, Using, buffers, TypeOK
<1>4. CASE OpenState(p)
  <2>1. /\ pc[p] = "counted" /\ pc'[p] = "open" /\ ~shared /\ sample_state' = "PING"
        /\ psample' = psample /\ samples' = samples
    BY <1>4 DEF OpenState, Step, buffers, TypeOK
  <2>2. \A q \in Proc : q # p => pc[q] = "closed"
    BY <2>1 DEF Alone
  <2>3. samples = 0 /\ psample.off = 0
    BY <2>1, <2>2 DEF Alone, Using
  <2>4. psample'.off = 3 * samples' + 0
    BY <2>1, <2>3
  <2> QED BY <1>1, <2>1, <2>2, <2>3, <2>4 DEF Alone, Using
<1>5. CASE Uses(p)
  <2>1. /\ Using(p) /\ Using(p)'
        /\ UNCHANGED <<sample_state, samples, psample, done, shared>>
    BY <1>5, UsesStep DEF buffers
  <2>2. \A q \in Proc : q # p => pc[q] = "closed" /\ pc'[q] = "closed"
    BY <1>1, <2>1 DEF Alone, Using
  <2> QED BY <1>1, <2>1, <2>2 DEF Alone, Using
<1>6. CASE ReleaseState(p)
  <2>1. /\ pc[p] = "open" /\ pc'[p] = "idled" /\ ~shared
        /\ psample' = psample /\ samples' = samples
    BY <1>6 DEF ReleaseState, Step, buffers, TypeOK
  <2>2. \A q \in Proc : q # p => pc'[q] = "closed"
    BY <1>1, <2>1 DEF Alone
  <2> QED BY <1>1, <2>1, <2>2 DEF Alone, Using
<1>7. CASE ReleaseSamples(p)
  <2>1. pc'[p] = "closed" /\ samples' = 0 /\ (~shared \/ ~Others(p)) /\ pc[p] = "idled"
    BY <1>7 DEF ReleaseSamples, Step, TypeOK
  <2>2. \A q \in Proc : pc'[q] = "closed"
    BY <1>1, <2>1 DEF Alone, Others
  <2> QED BY <1>1, <2>1, <2>2 DEF Alone, Using
<1> QED BY <1>2, <1>3, <1>4, <1>5, <1>6, <1>7 DEF sample_fops, Uses

LEMMA FopsKeeps ==
  ASSUME UniProcessor, Inv, NEW p \in Proc, sample_fops(p)
  PROVE  Inv'
<1>1. data' = data /\ ~Midway /\ ~Midway'
  BY FopsStep DEF Inv
<1>2. TypeOK' /\ Place' /\ Alone'
  BY FopsType, FopsPlace, FopsAlone DEF Inv
<1>3. Multiplexed'
  BY <1>1 DEF Inv, Multiplexed
<1>4. \A b \in Buffer, n \in 0 .. SAMPLE_BUF_SZ - 1 : OneChannel(b, n)'
  BY <1>1 DEF OneChannel, Inv, Frames
<1> QED BY <1>1, <1>2, <1>3, <1>4 DEF Inv, Frames

LEMMA Preserved ==
  ASSUME UniProcessor, Inv, [Next]_vars
  PROVE  Inv'
<1>1. ASSUME NEW c \in Chan, sample_echo_before(c) PROVE Inv'
  BY <1>1, BeforeType, BeforeData DEF Inv
<1>2. ASSUME NEW c \in Chan, sample_echo_after(c) PROVE Inv'
  BY <1>2, AfterType, AfterData DEF Inv
<1>3. CASE UNCHANGED vars
  BY <1>3 DEF vars, buffers, Inv, TypeOK, Place, Alone, Using, Midway, Lost, Multiplexed,
     Frames, OneChannel
<1> QED BY <1>1, <1>2, <1>3, FopsKeeps DEF Next, __zt_ec_chunk

LEMMA SamplingInv ==
  ASSUME UniProcessor
  PROVE  Spec => [](TypeOK /\ InBuffer /\ Multiplexed /\ FramesOfOneChannel)
<1>1. Init => Inv
  BY Initially
<1>2. Inv /\ [Next]_vars => Inv'
  BY Preserved
<1>3. Inv => TypeOK /\ InBuffer /\ Multiplexed /\ FramesOfOneChannel
  <2> SUFFICES ASSUME Inv PROVE InBuffer /\ FramesOfOneChannel
    BY DEF Inv
  <2>1. Midway => ~OneCpu
    BY DEF Midway, OneCpu, Inv, TypeOK
  <2>2. InBuffer
    BY Inside DEF Inv
  <2> QED BY <2>1, <2>2 DEF FramesOfOneChannel, Inv, Frames
<1> QED BY <1>1, <1>2, <1>3, PTL DEF Spec

\* The state of the sampler keeps its type, whatever processes do.
THEOREM TypeCorrect == ASSUME UniProcessor PROVE Spec => []TypeOK
  BY SamplingInv, PTL

\* No store is past the end of a buffer unless processes share the device, and
\* never again when all have closed it.
THEOREM StoresInside == ASSUME UniProcessor PROVE Spec => []InBuffer
  BY SamplingInv, PTL

\* Every sample is stored in its place of the frame of three, even when other
\* processes open and close the device.
THEOREM Framed == ASSUME UniProcessor PROVE Spec => []Multiplexed
  BY SamplingInv, PTL

\* A complete frame is of one channel, whenever the channel is changed and by
\* whomever.
THEOREM Sampling == ASSUME UniProcessor PROVE Spec => []FramesOfOneChannel
  BY SamplingInv, PTL

-----------------------------------------------------------------------------
(* Reading *)

\* Woken by a buffer that is full, and not through with it.
Woken(p) == pc[p] \in {"awake", "copying"} /\ p \notin signalled

\* The state names the buffer that is filled; while a reader that it has woken
\* is not done it is not full, the other one is, and that is what it copies.
Reader ==
  ~shared =>
    /\ sample_state # "IDLE"
       => psample.buf = IF sample_state = "PING" THEN "ping" ELSE "pong"
    /\ \A p \in Proc :
         /\ pc[p] \in {"pinged", "counted"} => psample.buf = "ping"
         /\ Midway /\ BufferFull => ~Woken(p)
         /\ Woken(p) => done = Buffer \ {psample.buf}
         /\ Woken(p) /\ pc[p] = "copying" => pread[p] \in Buffer \ {psample.buf}

LEMMA InterruptKeepsReader ==
  ASSUME UniProcessor, Prompt = TRUE, Inv, Reader, NEW c \in Chan, __zt_ec_chunk(c)
  PROVE  Reader'
<1>1. CASE sample_echo_before(c)
  <2>1. psample'.buf = psample.buf
    <3>1. CASE Sampled(c)
      BY <1>1, <3>1, BeforeStores DEF Inv
    <3>2. CASE ~Sampled(c)
      BY <1>1, <3>2 DEF sample_echo_before, buffers
    <3> QED BY <3>1, <3>2
  <2>2. UNCHANGED <<sample_state, samples, sample_ch, done, shared, pc, pread, signalled>>
    BY <1>1 DEF sample_echo_before
  <2>3. \A p \in Proc : Midway' /\ BufferFull => ~Woken(p)
    BY <1>1, BeforeType DEF sample_echo_before, InTime, Woken
  <2> QED BY <2>1, <2>2, <2>3 DEF Reader, Woken, BufferFull
<1>2. CASE sample_echo_after(c)
  <2>1. /\ ~Midway' /\ (Midway <=> Sampled(c)) /\ TypeOK
        /\ shared' = shared /\ signalled' = signalled /\ pread' = pread
    BY <1>2, AfterType DEF Inv, sample_echo_after
  <2>2. CASE AfterStore(c)
    <3>1. psample'.buf = psample.buf
      BY <1>2, <2>1, <2>2, AfterStores DEF AfterStore
    <3> QED BY <2>1, <2>2, <3>1 DEF AfterStore, Reader, Woken
  <2>3. CASE AfterSwap(c)
    <3> SUFFICES ASSUME ~shared PROVE Reader'
      BY <2>1 DEF Reader
    <3>1. /\ Swap(c)
          /\ pc' = [q \in Proc |-> IF pc[q] = "sleeping" THEN "awake" ELSE pc[q]]
      BY <2>3 DEF AfterSwap
    <3>2. Midway /\ BufferFull
      BY <2>1, <3>1 DEF Swap
    <3>3. PICK p \in Proc : Using(p)
      BY <3>2 DEF Midway, Inv, Place
    <3>4. \A q \in Proc : q # p => pc[q] = "closed"
      BY <3>3 DEF Using, Inv, Alone
    <3>5. \A q \in Proc :
            pc'[q] \notin {"pinged", "counted"} /\ (Woken(q)' => pc'[q] # "copying")
      <4> TAKE q \in Proc
      <4>1. CASE q = p
        BY <2>1, <3>1, <3>2, <3>3, <4>1 DEF Reader, Woken, Using
      <4>2. CASE q # p
        BY <3>1, <3>4, <4>2
      <4> QED BY <4>1, <4>2
    <3>6. sample_state' = (IF sample_state = "PING" THEN "PONG" ELSE "PING")
          /\ psample'.buf = (IF sample_state = "PING" THEN "pong" ELSE "ping")
          /\ done' = {psample.buf} /\ sample_state # "IDLE"
      BY <3>1 DEF Swap, Sampled
    <3>7. done' = Buffer \ {psample'.buf}
      BY <2>1, <3>6 DEF Reader, Buffer, TypeOK
    <3> QED BY <2>1, <3>5, <3>6, <3>7 DEF Reader
  <2>4. CASE ~Sampled(c)
    BY <1>2, <2>1, <2>4
    DEF sample_echo_after, AfterStore, AfterSwap, Swap, buffers, Reader, Woken
  <2> QED BY <1>2, <2>2, <2>3, <2>4 DEF sample_echo_after
<1> QED BY <1>1, <1>2 DEF __zt_ec_chunk

LEMMA FopsKeepReader ==
  ASSUME UniProcessor, Inv, Reader, NEW p \in Proc, sample_fops(p)
  PROVE  Reader'
<1> SUFFICES ASSUME ~shared' PROVE Reader'
  BY DEF Reader
<1>1. ~Midway' /\ \A q \in Proc \ {p} : pc'[q] = pc[q]
  BY FopsStep DEF Inv
<1>2. \A q \in Proc : q # p => pc[q] = "closed" /\ pc'[q] = "closed"
  <2>1. CASE OpenPing(p)
    BY <1>1, <2>1 DEF OpenPing, Others
  <2>2. CASE ReleaseSamples(p)
    BY <1>1, <2>2 DEF ReleaseSamples, Others, Step, Inv, Alone
  <2>3. CASE pc[p] # "closed" /\ ~shared
    BY <1>1, <2>3 DEF Inv, Alone
  <2> QED BY <2>1, <2>2, <2>3
          DEF sample_fops, sample_read, OpenSamples, OpenState, SampleSetChannel, ReadSleep,
          ReadSignal, ReadPick, ReadDone, ReleaseState, Step
<1>3. TypeOK /\ TypeOK' /\ (Using(p) /\ ~shared => sample_state \in {"PING", "PONG"})
  BY FopsType DEF Inv, Alone, Using, TypeOK
<1>4. CASE OpenPing(p)
  <2>1. pc'[p] = "pinged" /\ psample'.buf = "ping" /\ sample_state' = sample_state
    BY <1>4 DEF OpenPing, Step, TypeOK, Inv
  <2>2. sample_state = "IDLE"
    BY <1>2, <1>4 DEF OpenPing, Step, Inv, Place, Using
  <2> QED BY <1>1, <1>2, <2>1, <2>2 DEF Reader, Woken
<1>5. CASE OpenSamples(p)
  <2>1. /\ pc[p] = "pinged" /\ pc'[p] = "counted"
        /\ UNCHANGED <<sample_state, psample, shared>>
    BY <1>3, <1>5 DEF OpenSamples, Step, TypeOK, buffers
  <2> QED BY <1>1, <1>2, <2>1 DEF Reader, Woken
<1>6. CASE OpenState(p)
  <2>1. /\ pc[p] = "counted" /\ pc'[p] = "open" /\ sample_state' = "PING"
        /\ UNCHANGED <<psample, shared>>
    BY <1>3, <1>6 DEF OpenState, Step, TypeOK, buffers
  <2> QED BY <1>1, <1>2, <2>1 DEF Reader, Woken
<1>7. CASE \/ \E c \in Number : SampleSetChannel(p, c)
           \/ ReadSleep(p) \/ ReadSignal(p) \/ ReadDone(p)
  <2>1. /\ pc'[p] \in {"open", "sleeping", "awake"}
        /\ pc'[p] = "awake" => p \in signalled'
        /\ UNCHANGED <<sample_state, psample, shared>>
    BY <1>3, <1>7 DEF SampleSetChannel, ReadSleep, ReadSignal, ReadDone, Step, TypeOK, buffers
  <2> QED BY <1>1, <1>2, <2>1 DEF Reader, Woken
<1>8. CASE ReadPick(p)
  <2>1. /\ pc[p] = "awake" /\ pc'[p] = "copying"
        /\ pread'[p] = IF sample_state = "PING" THEN "pong" ELSE "ping"
        /\ UNCHANGED <<sample_state, psample, done, shared, signalled>>
    BY <1>3, <1>8 DEF ReadPick, Step, TypeOK, buffers
  <2>2. pread'[p] \in Buffer \ {psample.buf}
    BY <1>3, <2>1 DEF Reader, Using, Buffer
  <2> QED BY <1>1, <1>2, <2>1, <2>2 DEF Reader, Woken
<1>9. CASE ReleaseState(p)
  <2>1. pc'[p] = "idled" /\ sample_state' = "IDLE"
    BY <1>3, <1>9 DEF ReleaseState, Step, TypeOK
  <2> QED BY <1>1, <1>2, <2>1 DEF Reader, Woken
<1>10. CASE ReleaseSamples(p)
  <2>1. pc[p] = "idled" /\ pc'[p] = "closed" /\ sample_state' = sample_state
    BY <1>3, <1>10 DEF ReleaseSamples, Step, TypeOK
  <2>2. sample_state = "IDLE"
    BY <1>2, <2>1 DEF Inv, Place, Using
  <2> QED BY <1>1, <1>2, <2>1, <2>2 DEF Reader, Woken
<1> QED BY <1>4, <1>5, <1>6, <1>7, <1>8, <1>9, <1>10 DEF sample_fops, sample_read

\* When the scheduler lets a woken reader copy in time, what a process reads that
\* does not share the device is a full buffer, and not the one being filled,
\* unless a signal has ended its wait.
THEOREM ReadingPrepared ==
  ASSUME UniProcessor, Prompt = TRUE
  PROVE  Spec => []ReadsPrepared
<1>1. Init => Inv /\ Reader
  <2>1. Init => Reader
    BY DEF Init, Reader, Woken, Midway
  <2> QED BY <2>1, Initially
<1>2. Inv /\ Reader /\ [Next]_vars => Inv' /\ Reader'
  <2>1. Reader /\ UNCHANGED vars => Reader'
    BY DEF vars, buffers, Reader, Woken, Midway, BufferFull
  <2> QED BY <2>1, Preserved, InterruptKeepsReader, FopsKeepReader DEF Next
<1>3. Inv /\ Reader => ReadsPrepared
  BY DEF Reader, Woken, ReadsPrepared
<1> QED BY <1>1, <1>2, <1>3, PTL DEF Spec
=============================================================================
