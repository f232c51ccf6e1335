-------------------------------- MODULE Zaptap -------------------------------
(***************************************************************************)
(* Zaptap, the sampler that src/oslec/kernel/zaptel-1.4.12.1.patch adds to *)
(* zaptel-base.c.  For every sample of every channel that has a canceller  *)
(* the interrupt calls sample_echo_before, the canceller and               *)
(* sample_echo_after; of the channel that is sampled, if it is one of      *)
(* those, the three signals go to one of two buffers.                      *)
(* Processes open /dev/sample, choose the channel and read the buffer that *)
(* has been filled last.  Nothing is locked.                               *)
(***************************************************************************)
EXTENDS Integers

CONSTANTS
  Number,         \* what the ioctl may be given as a channel: any int
  Chan,           \* the channels that have a canceller at one time or another
  Proc,           \* processes that use /dev/sample
  SAMPLE_BUF_SZ,  \* frames of three samples in a buffer
  Smp,            \* TRUE: processes and interrupts run at the same time
  Prompt          \* TRUE: a reader that a full buffer has woken is done with
                  \* it before the other one is full

ASSUME ZaptapAssumption ==
  /\ SAMPLE_BUF_SZ \in Nat \ {0}
  /\ Smp \in BOOLEAN /\ Prompt \in BOOLEAN
  /\ Chan \subseteq Number

VARIABLES
  sample_state,  \* "IDLE", or the buffer being filled, "PING" or "PONG"
  samples,       \* frames in it
  psample,       \* where the next sample goes: a buffer and an offset
  sample_ch,     \* the channel that is sampled
  data,          \* what each cell of the two buffers holds
  done,          \* buffers that are complete, the other one being filled
  shared,        \* a process has opened the device while it was open, and
                 \* not everybody has closed it since
  irq,           \* per channel: between _before and _after, or not, or lost
  pc,            \* per process: what it is doing
  pread,         \* per process: the buffer it copies, "ping" while it does not
  signalled      \* processes whose read goes on because of a signal

buffers == <<psample, data>>
vars == <<sample_state, samples, buffers, sample_ch, done, shared, irq, pc, pread,
          signalled>>

Buffer == {"ping", "pong"}
Cell == 0 .. 3 * SAMPLE_BUF_SZ - 1

\* A cell: nothing yet, or one of the three signals of a channel.
Blank == [kind |-> "none"]
Signal(k, c) == [kind |-> k, chan |-> c]

Init ==
  /\ sample_state = "IDLE" /\ samples = 0
  /\ psample = [buf |-> "ping", off |-> 0]
  /\ sample_ch \in Number
  /\ data = [b \in Buffer |-> [k \in Cell |-> Blank]]
  /\ done = {} /\ shared = FALSE
  /\ irq = [c \in Chan |-> "out"]
  /\ pc = [p \in Proc |-> "closed"]
  /\ pread = [p \in Proc |-> "ping"]
  /\ signalled = {}

\* One CPU: an interrupt is not interrupted, neither by a process.
OneCpu == \A c \in Chan : irq[c] = "out"
MayRun == Smp \/ OneCpu

-----------------------------------------------------------------------------
(* The interrupt *)

Sampled(c) == sample_state # "IDLE" /\ c = sample_ch

\* n samples more would leave the buffer.
Astray(n) == psample.off + n - 1 \notin Cell

\* Stores what s says at the cells from psample on, and moves psample by n.
Put(s, n) ==
  /\ data' = [data EXCEPT ![psample.buf] =
                [k \in Cell |-> IF k - psample.off \in DOMAIN s
                                THEN s[k - psample.off] ELSE @[k]]]
  /\ psample' = [psample EXCEPT !.off = @ + n]

\* Mutant of BufferFull: the last frame of the buffer is not counted.
BufferFullLate == samples + 1 > SAMPLE_BUF_SZ

BufferFull == samples + 1 >= SAMPLE_BUF_SZ

\* A buffer takes 125 ms to fill: a reader that was woken when it was begun has
\* copied the other one by then.  One that a signal has woken may just have begun.
InTime ==
  Prompt => \A p \in Proc : pc[p] \in {"awake", "copying"} => p \in signalled

\* A store beyond the end of the buffer hits something else: an interrupt that
\* makes one is lost, as is the CPU it has.
sample_echo_before(c) ==
  /\ MayRun /\ irq[c] = "out"
  /\ Sampled(c) /\ BufferFull => InTime
  /\ irq' = [irq EXCEPT ![c] = IF Sampled(c) /\ Astray(2) THEN "lost" ELSE "in"]
  /\ IF Sampled(c)
     THEN Put([i \in 0 .. 1 |-> Signal(IF i = 0 THEN "tx" ELSE "rx", c)], 2)
     ELSE UNCHANGED buffers
  /\ UNCHANGED <<sample_state, samples, sample_ch, done, shared, pc, pread, signalled>>

\* Mutant of AfterStore: the canceller's output is not stored.
AfterStoreNot(c) ==
  /\ Sampled(c) /\ ~BufferFull
  /\ samples' = samples + 1
  /\ UNCHANGED <<buffers, sample_state, done, pc>>

\* The third sample of a frame, the buffer not being full with it.
AfterStore(c) ==
  /\ Sampled(c) /\ ~BufferFull
  /\ Put([i \in {0} |-> Signal("ec", c)], 1)
  /\ samples' = samples + 1
  /\ UNCHANGED <<sample_state, done, pc>>

\* The third sample fills the buffer: the other one is next.
Swap(c) ==
  /\ Sampled(c) /\ BufferFull
  /\ data' = [data EXCEPT ![psample.buf] =
                [k \in Cell |-> IF k = psample.off THEN Signal("ec", c) ELSE @[k]]]
  /\ psample' = [buf |-> IF sample_state = "PING" THEN "pong" ELSE "ping", off |-> 0]
  /\ sample_state' = IF sample_state = "PING" THEN "PONG" ELSE "PING"
  /\ done' = {psample.buf} /\ samples' = 0

\* Mutant of AfterSwap: nobody is woken.
AfterSwapSilent(c) == Swap(c) /\ UNCHANGED pc

\* Everybody who sleeps on sample_wait is woken.
AfterSwap(c) ==
  /\ Swap(c)
  /\ pc' = [p \in Proc |-> IF pc[p] = "sleeping" THEN "awake" ELSE pc[p]]

sample_echo_after(c) ==
  /\ irq[c] = "in"
  /\ irq' = [irq EXCEPT ![c] = IF Sampled(c) /\ Astray(1) THEN "lost" ELSE "out"]
  /\ \/ AfterStore(c) \/ AfterSwap(c)
     \/ ~Sampled(c) /\ UNCHANGED <<buffers, samples, sample_state, done, pc>>
  /\ UNCHANGED <<sample_ch, shared, pread, signalled>>

__zt_ec_chunk(c) == sample_echo_before(c) \/ sample_echo_after(c)

-----------------------------------------------------------------------------
(* /dev/sample *)

Others(p) == \E q \in Proc \ {p} : pc[q] # "closed"

Step(p, from, to) == MayRun /\ pc[p] = from /\ pc' = [pc EXCEPT ![p] = to]

\* sample_open, in the order of its assignments: an interrupt may come between
\* two of them.
OpenPing(p) ==
  /\ Step(p, "closed", "pinged")
  /\ psample' = [buf |-> "ping", off |-> 0]
  /\ done' = {} /\ shared' = Others(p)
  /\ UNCHANGED <<sample_state, samples, data, sample_ch, irq, pread, signalled>>

OpenSamples(p) ==
  /\ Step(p, "pinged", "counted")
  /\ samples' = 0
  /\ UNCHANGED <<sample_state, buffers, sample_ch, done, shared, irq, pread, signalled>>

OpenState(p) ==
  /\ Step(p, "counted", "open")
  /\ sample_state' = "PING"
  /\ UNCHANGED <<samples, buffers, sample_ch, done, shared, irq, pread, signalled>>

\* The number is not checked: it may be that of no channel.
SampleSetChannel(p, c) ==
  /\ Step(p, "open", "open")
  /\ sample_ch' = c
  /\ UNCHANGED <<sample_state, samples, buffers, done, shared, irq, pread, signalled>>

ReadSleep(p) ==
  /\ Step(p, "open", "sleeping")
  /\ UNCHANGED <<sample_state, samples, buffers, sample_ch, done, shared, irq, pread,
                 signalled>>

\* interruptible_sleep_on returns; why it did is not looked at.
ReadSignal(p) ==
  /\ Step(p, "sleeping", "awake")
  /\ signalled' = signalled \cup {p}
  /\ UNCHANGED <<sample_state, samples, buffers, sample_ch, done, shared, irq, pread>>

\* Mutant of ReadPick: the buffer that is being filled.
ReadPickSame(p) ==
  /\ Step(p, "awake", "copying")
  /\ pread' = [pread EXCEPT ![p] = IF sample_state = "PING" THEN "ping" ELSE "pong"]
  /\ UNCHANGED <<sample_state, samples, buffers, sample_ch, done, shared, irq, signalled>>

ReadPick(p) ==
  /\ Step(p, "awake", "copying")
  /\ pread' = [pread EXCEPT ![p] = IF sample_state = "PING" THEN "pong" ELSE "ping"]
  /\ UNCHANGED <<sample_state, samples, buffers, sample_ch, done, shared, irq, signalled>>

ReadDone(p) ==
  /\ Step(p, "copying", "open")
  /\ pread' = [pread EXCEPT ![p] = "ping"]
  /\ signalled' = signalled \ {p}
  /\ UNCHANGED <<sample_state, samples, buffers, sample_ch, done, shared, irq>>

ReleaseState(p) ==
  /\ Step(p, "open", "idled")
  /\ sample_state' = "IDLE"
  /\ UNCHANGED <<samples, buffers, sample_ch, done, shared, irq, pread, signalled>>

ReleaseSamples(p) ==
  /\ Step(p, "idled", "closed")
  /\ samples' = 0
  /\ shared' = (shared /\ Others(p))
  /\ UNCHANGED <<sample_state, buffers, sample_ch, done, irq, pread, signalled>>

sample_read(p) == ReadSleep(p) \/ ReadSignal(p) \/ ReadPick(p) \/ ReadDone(p)

sample_fops(p) ==
  \/ OpenPing(p) \/ OpenSamples(p) \/ OpenState(p)
  \/ \E c \in Number : SampleSetChannel(p, c)
  \/ sample_read(p)
  \/ ReleaseState(p) \/ ReleaseSamples(p)

Next == (\E c \in Chan : __zt_ec_chunk(c)) \/ (\E p \in Proc : sample_fops(p))

Spec == Init /\ [][Next]_vars

\* An interrupt ends, and a reader that is awake gets on with its read: the
\* interrupts leave it time between them.  Nothing makes a channel go on.
FairSpec ==
  /\ Spec
  /\ \A c \in Chan : WF_vars(sample_echo_after(c))
  /\ \A p \in Proc : SF_vars(ReadPick(p) \/ ReadDone(p))

-----------------------------------------------------------------------------
(* Correctness. *)

TypeOK ==
  /\ sample_state \in {"IDLE", "PING", "PONG"}
  /\ samples \in 0 .. SAMPLE_BUF_SZ - 1
  /\ psample \in [buf : Buffer, off : Nat]
  /\ sample_ch \in Number
  /\ data \in [Buffer -> [Cell -> {Blank} \cup
                  [kind : {"tx", "rx", "ec"}, chan : Chan]]]
  /\ done \in SUBSET Buffer /\ shared \in BOOLEAN
  /\ irq \in [Chan -> {"out", "in", "lost"}]
  /\ pc \in [Proc -> {"closed", "pinged", "counted", "open", "sleeping", "awake",
                      "copying", "idled"}]
  /\ pread \in [Proc -> Buffer]
  /\ signalled \in SUBSET Proc

\* The next store goes into the buffer: psample has not left it, though only
\* samples is compared with the size and the two are moved apart.  A second
\* process can make the device lose that, until all have closed it.
InBuffer ==
  ~shared => /\ sample_state # "IDLE" => psample.off \in Cell
             /\ \A c \in Chan : irq[c] # "lost"

\* zaptel-1.4.12.1.patch:112-116: the buffers hold tx, rx and ec in turn,
\* whatever other processes do to the device.
Multiplexed ==
  \A b \in Buffer, k \in Cell :
    data[b][k] # Blank =>
      data[b][k].kind = IF k % 3 = 0 THEN "tx" ELSE IF k % 3 = 1 THEN "rx" ELSE "ec"

OneChannel(b, n) ==
  \A i \in 1 .. 2 :
    /\ data[b][3 * n + i] = Blank <=> data[b][3 * n] = Blank
    /\ data[b][3 * n] # Blank => data[b][3 * n + i].chan = data[b][3 * n].chan

\* The three samples of a frame are of one channel, when it is complete, no
\* matter when sample_ch is changed and by whom.
FramesOfOneChannel ==
  \A b \in Buffer, n \in 0 .. SAMPLE_BUF_SZ - 1 :
    OneCpu \/ b # psample.buf => OneChannel(b, n)

\* zaptel-1.4.12.1.patch:260-262, "wait for next buffer to be prepared by ISR, we
\* read alternate buffer just after transition": what a reader copies is a full
\* buffer, and not the one that the interrupt is writing to, unless a signal has
\* ended its wait or it shares the device.  Those that shared it before, and the
\* reader's own reads that a signal ended, have no effect on it.
ReadsPrepared ==
  \A p \in Proc : pc[p] = "copying" /\ ~shared /\ p \notin signalled
                    => pread[p] \in done \ {psample.buf}

\* A read returns if the channel that is sampled has a call that goes on: the
\* interrupt fills a buffer and wakes the reader, however the device was shared
\* before the reader opened it.  On a channel without one it waits for a signal.
ReadReturns ==
  []<><<\E c \in Chan : c = sample_ch /\ sample_echo_before(c)>>_vars
    => \A p \in Proc : pc[p] = "sleeping" ~> pc[p] = "open" \/ shared
=============================================================================
