------------------------------ MODULE OslecWrap ------------------------------
(***************************************************************************)
(* The Oslec kernel wrapper, src/oslec/kernel/oslec_wrap.c: the zaptel     *)
(* entry points that create, run and free one echo canceller per call, and *)
(* the /proc/oslec handlers that watch and control one of them through the *)
(* global mon_ec.                                                          *)
(*                                                                         *)
(* Three kinds of thread meet in it.  The control thread of a channel      *)
(* (the zaptel echo-cancel ioctl) creates and frees that channel's         *)
(* canceller.  The interrupt handler of a channel runs it on every sample, *)
(* under the channel's own lock and without oslec_lock.  /proc threads     *)
(* read and write under oslec_lock.  Any of them may run on any CPU, so    *)
(* every step between two accesses to shared state is an action.           *)
(***************************************************************************)
EXTENDS Integers, FiniteSets

CONSTANTS
  Chan,          \* telephone channels; each has one control thread, one ISR
  Proc,          \* threads that open files of /proc/oslec
  Ec,            \* heap addresses an echo_can_state_t can have
  Len,           \* tap counts zaptel asks for
  Mode,          \* values of adaption_mode
  DefaultMode,   \* the mode every canceller is created with
  Null,          \* the C null pointer, as ec->ec or mon_ec
  NoEc,          \* chan->ec is null: the channel has no canceller
  Unlocked,      \* value of oslec_lock when nobody holds it
  EarlyReaders,  \* /proc threads that do not wait for insmod to finish
  MallocMayFail  \* whether an allocation may return NULL

ASSUME ThreadAssumption ==
  /\ IsFiniteSet(Chan)
  /\ Chan \cap Proc = {}
  /\ Unlocked \notin Chan \cup Proc
  /\ EarlyReaders \subseteq Proc

ASSUME ValueAssumption ==
  /\ Null \notin Ec /\ NoEc \notin Ec /\ NoEc # Null
  /\ Len \subseteq Nat
  /\ DefaultMode \in Mode
  /\ MallocMayFail \in BOOLEAN

Thread == Chan \cup Proc
Handler == {"info", "mode", "write", "reset"}

VARIABLES
  ready,          \* init_oslec has returned
  oslec_lock,     \* the thread that holds the spin lock, or Unlocked
  mon_ec,         \* the canceller /proc/oslec shows, or Null
  num_ec,         \* number of cancellers
  len_ec,         \* taps of the monitored canceller, for /proc/oslec/info
  live,           \* addresses that hold an allocated canceller
  taps,           \* its length
  adaption_mode,  \* its mode word
  chan_ec,        \* chan->ec of zaptel: an address, Null or NoEc
  mine,           \* the canceller a control thread is creating or freeing
  pc,             \* where each control and /proc thread is
  handler,        \* the handler a /proc thread is running
  isr,            \* where the interrupt handler of each channel is
  timed           \* it took start_cycles at the top of this sample

globals == <<mon_ec, num_ec, len_ec>>
heap    == <<live, taps, adaption_mode>>
vars    == <<ready, oslec_lock, globals, heap, chan_ec, mine, pc, handler,
             isr, timed>>

\* A thread gets past a dereference of e only if e is an allocated canceller;
\* otherwise it has crashed and stays where it is, with the locks it holds.
Deref(e) == e \in live

Goto(t, l) == pc' = [pc EXCEPT ![t] = l]

\* spin_lock_irqsave and spin_unlock_irqrestore, with the thread's next step.
Lock(t, from, to) ==
  /\ pc[t] = from
  /\ oslec_lock = Unlocked
  /\ oslec_lock' = t
  /\ Goto(t, to)
  /\ UNCHANGED <<ready, globals, heap, chan_ec, mine, handler, isr, timed>>

Unlock == oslec_lock' = Unlocked

-----------------------------------------------------------------------------
(* Loading the module. *)

\* init_oslec has cleared the globals and created the /proc entries, and is
\* about to initialise the lock.
Init ==
  /\ ready = FALSE
  /\ oslec_lock = Unlocked
  /\ mon_ec = Null /\ num_ec = 0 /\ len_ec = 0
  /\ live = {}
  /\ taps = [e \in Ec |-> 0]
  /\ adaption_mode = [e \in Ec |-> DefaultMode]
  /\ chan_ec = [c \in Chan |-> NoEc]
  /\ mine = [c \in Chan |-> NoEc]
  /\ pc = [t \in Thread |-> "idle"]
  /\ handler = [p \in Proc |-> "info"]
  /\ isr = [c \in Chan |-> "idle"]
  /\ timed = [c \in Chan |-> FALSE]

\* spin_lock_init(&oslec_lock), after the entries are already visible.
SpinLockInit ==
  /\ ~ready
  /\ ready' = TRUE
  /\ Unlock
  /\ UNCHANGED <<globals, heap, chan_ec, mine, pc, handler, isr, timed>>

-----------------------------------------------------------------------------
(* oslec_echo_can_create, from the control thread of channel c. *)

\* The allocation, outside the lock: any address not in use may come back.
\* An echo_can_create that runs out of memory returns NULL, which the wrapper
\* stores, or crashes half way; a wrapper that cannot be allocated is written
\* through and crashes too.
CreateAlloc(c, len) ==
  /\ ready /\ pc[c] = "idle" /\ chan_ec[c] = NoEc
  /\ \/ \E e \in Ec \ live :
          /\ live' = live \cup {e}
          /\ taps' = [taps EXCEPT ![e] = len]
          /\ adaption_mode' = [adaption_mode EXCEPT ![e] = DefaultMode]
          /\ mine' = [mine EXCEPT ![c] = e]
          /\ Goto(c, "created")
     \/ /\ MallocMayFail
        /\ mine' = [mine EXCEPT ![c] = Null]
        /\ Goto(c, "created") \/ Goto(c, "oops")
        /\ UNCHANGED heap
  /\ UNCHANGED <<ready, oslec_lock, globals, chan_ec, handler, isr, timed>>

CreateLock(c) == Lock(c, "created", "creating")

\* The len oslec_echo_can_create was called with; any, if there is no canceller.
Asked(c) == IF mine[c] = Null THEN Len ELSE {taps[mine[c]]}

\* Mutants of Watch: the newest call is always watched; len_ec is set for every
\* call; the wrapper itself is stored instead of its ec->ec.
WatchNewest(c) == mon_ec' = mine[c] /\ len_ec' \in Asked(c)
WatchLenAlways(c) ==
  mon_ec' = (IF mon_ec = Null THEN mine[c] ELSE mon_ec) /\ len_ec' \in Asked(c)
WatchWrapper(c) ==
  mon_ec' = (IF mon_ec = Null THEN c ELSE mon_ec) /\ UNCHANGED len_ec

\* The new canceller is watched if none is.
Watch(c) ==
  IF mon_ec = Null
  THEN mon_ec' = mine[c] /\ len_ec' \in Asked(c)
  ELSE UNCHANGED <<mon_ec, len_ec>>

\* Count the canceller, watch it if none is watched, and unlock.
Register(c, count) ==
  /\ pc[c] = "creating"
  /\ num_ec' = count
  /\ Watch(c)
  /\ Unlock
  /\ Goto(c, "returned")
  /\ UNCHANGED <<ready, heap, chan_ec, mine, handler, isr, timed>>

\* Mutant: only the call that gets watched is counted.
CreateCountsWatched(c) == Register(c, IF mon_ec = Null THEN num_ec + 1 ELSE num_ec)

CreateRegister(c) == Register(c, num_ec + 1)

\* zaptel stores the result in chan->ec under the channel lock.
Attach(c) ==
  /\ pc[c] = "returned" /\ isr[c] = "idle"
  /\ chan_ec' = [chan_ec EXCEPT ![c] = mine[c]]
  /\ mine' = [mine EXCEPT ![c] = NoEc]
  /\ Goto(c, "idle")
  /\ UNCHANGED <<ready, oslec_lock, globals, heap, handler, isr, timed>>

-----------------------------------------------------------------------------
(* oslec_echo_can_free, from the control thread of channel c. *)

\* zaptel takes chan->ec away under the channel lock before it frees it.
Detach(c) ==
  /\ pc[c] = "idle" /\ chan_ec[c] # NoEc /\ isr[c] = "idle"
  /\ mine' = [mine EXCEPT ![c] = chan_ec[c]]
  /\ chan_ec' = [chan_ec EXCEPT ![c] = NoEc]
  /\ Goto(c, "detached")
  /\ UNCHANGED <<ready, oslec_lock, globals, heap, handler, isr, timed>>

FreeLock(c) == Lock(c, "detached", "freeing")

Unmonitor(c, next) ==
  /\ pc[c] = "freeing"
  /\ mon_ec' = next
  /\ Goto(c, "unmonitored")
  /\ UNCHANGED <<ready, oslec_lock, num_ec, len_ec, heap, chan_ec, mine,
                 handler, isr, timed>>

\* Mutants: mon_ec is left pointing to the freed canceller; another call that
\* is up is watched instead.
FreeLeavesMonitor(c) == Unmonitor(c, mon_ec)
FreeHandsOver(c) ==
  \E next \in {Null} \cup ({chan_ec[d] : d \in Chan} \cap Ec) :
    Unmonitor(c, IF mon_ec = mine[c] THEN next ELSE mon_ec)

FreeUnmonitor(c) == Unmonitor(c, IF mon_ec = mine[c] THEN Null ELSE mon_ec)

\* echo_can_free reads the canceller's buffers before it frees them.  What they
\* held is gone: nothing looks at it any more (NoStalePointer).
FreeRelease(c) ==
  /\ pc[c] = "unmonitored"
  /\ Deref(mine[c])
  /\ live' = live \ {mine[c]}
  /\ taps' = [taps EXCEPT ![mine[c]] = 0]
  /\ adaption_mode' = [adaption_mode EXCEPT ![mine[c]] = DefaultMode]
  /\ num_ec' = num_ec - 1
  /\ mine' = [mine EXCEPT ![c] = NoEc]
  /\ Unlock
  /\ Goto(c, "idle")
  /\ UNCHANGED <<ready, mon_ec, len_ec, chan_ec, handler, isr, timed>>

-----------------------------------------------------------------------------
(* The interrupt handler of channel c, which holds the channel's lock from *)
(* its first step until it is idle again.                                  *)

\* oslec_echo_can_update: is this the monitored canceller?  Then start_cycles.
UpdateStart(c) ==
  /\ isr[c] = "idle" /\ chan_ec[c] # NoEc
  /\ timed' = [timed EXCEPT ![c] = (chan_ec[c] = mon_ec)]
  /\ isr' = [isr EXCEPT ![c] = "start"]
  /\ UNCHANGED <<ready, oslec_lock, globals, heap, chan_ec, mine, pc, handler>>

\* echo_can_update runs the canceller.
UpdateRun(c) ==
  /\ isr[c] = "start"
  /\ Deref(chan_ec[c])
  /\ isr' = [isr EXCEPT ![c] = "ran"]
  /\ UNCHANGED <<ready, oslec_lock, globals, heap, chan_ec, mine, pc, handler, timed>>

\* mon_ec is read again to decide whether to account the cycles.
UpdateTest(c) ==
  /\ isr[c] = "ran"
  /\ isr' = [isr EXCEPT ![c] = IF chan_ec[c] = mon_ec THEN "stats" ELSE "idle"]
  /\ timed' = [timed EXCEPT ![c] = @ /\ chan_ec[c] = mon_ec]
  /\ UNCHANGED <<ready, oslec_lock, globals, heap, chan_ec, mine, pc, handler>>

\* cycles_last, cycles_average and cycles_worst have been written.
UpdateStats(c) ==
  /\ isr[c] = "stats"
  /\ isr' = [isr EXCEPT ![c] = "idle"]
  /\ timed' = [timed EXCEPT ![c] = FALSE]
  /\ UNCHANGED <<ready, oslec_lock, globals, heap, chan_ec, mine, pc, handler>>

\* The transmit hook: oslec_hpf_tx filters a sample with the canceller's state.
HpfTxStart(c) ==
  /\ isr[c] = "idle" /\ chan_ec[c] # NoEc
  /\ isr' = [isr EXCEPT ![c] = "hpf"]
  /\ UNCHANGED <<ready, oslec_lock, globals, heap, chan_ec, mine, pc, handler,
                 timed>>

oslec_hpf_tx(c) ==
  /\ isr[c] = "hpf"
  /\ Deref(chan_ec[c])
  /\ isr' = [isr EXCEPT ![c] = "idle"]
  /\ UNCHANGED <<ready, oslec_lock, globals, heap, chan_ec, mine, pc, handler, timed>>

-----------------------------------------------------------------------------
(* The /proc/oslec handlers, from thread p. *)

\* The write handlers are installed just before init_oslec ends.
ProcCall(p, h) ==
  /\ pc[p] = "idle"
  /\ ready \/ (p \in EarlyReaders /\ h \in {"info", "mode"})
  /\ handler' = [handler EXCEPT ![p] = h]
  /\ Goto(p, "called")
  /\ UNCHANGED <<ready, oslec_lock, globals, heap, chan_ec, mine, isr, timed>>

\* Mutant: a handler that enters without the lock.
ProcNoLock(p) ==
  /\ pc[p] = "called"
  /\ Goto(p, "entered")
  /\ UNCHANGED <<ready, oslec_lock, globals, heap, chan_ec, mine, handler, isr,
                 timed>>

ProcLock(p) == Lock(p, "called", "entered")

\* Mutant: with nothing to show, the handler tries again.
NoMonitorRetries(p) ==
  /\ pc[p] = "entered" /\ mon_ec = Null
  /\ Unlock
  /\ Goto(p, "called")
  /\ UNCHANGED <<ready, globals, heap, chan_ec, mine, handler, isr, timed>>

\* Nothing is monitored: say so, unlock and return.
NoMonitor(p) ==
  /\ pc[p] = "entered" /\ mon_ec = Null
  /\ Unlock
  /\ Goto(p, "idle")
  /\ UNCHANGED <<ready, globals, heap, chan_ec, mine, handler, isr, timed>>

Monitor(p) ==
  /\ pc[p] = "entered" /\ mon_ec # Null
  /\ Goto(p, "using")
  /\ UNCHANGED <<ready, oslec_lock, globals, heap, chan_ec, mine, handler, isr,
                 timed>>

\* The body of a handler works on the canceller mon_ec points to, and unlocks.
Use(p, h) ==
  /\ pc[p] = "using" /\ handler[p] = h
  /\ Deref(mon_ec)
  /\ Unlock
  /\ Goto(p, "idle")
  /\ UNCHANGED <<ready, globals, live, taps, chan_ec, mine, handler, isr, timed>>

proc_read_info(p)  == Use(p, "info")  /\ UNCHANGED adaption_mode
proc_read_mode(p)  == Use(p, "mode")  /\ UNCHANGED adaption_mode
proc_write_reset(p) == Use(p, "reset") /\ UNCHANGED adaption_mode
proc_write_mode(p, m) ==
  /\ Use(p, "write")
  /\ adaption_mode' = [e \in Ec |-> IF e = mon_ec THEN m ELSE adaption_mode[e]]

-----------------------------------------------------------------------------
Create(c) ==
  \/ \E len \in Len : CreateAlloc(c, len)
  \/ CreateLock(c) \/ CreateRegister(c) \/ Attach(c)
Free(c)   == Detach(c) \/ FreeLock(c) \/ FreeUnmonitor(c) \/ FreeRelease(c)
Update(c) == UpdateStart(c) \/ UpdateRun(c) \/ UpdateTest(c) \/ UpdateStats(c)
HpfTx(c)  == HpfTxStart(c) \/ oslec_hpf_tx(c)
ProcBody(p) ==
  \/ NoMonitor(p) \/ Monitor(p)
  \/ proc_read_info(p) \/ proc_read_mode(p) \/ proc_write_reset(p)
  \/ \E m \in Mode : proc_write_mode(p, m)
ProcFs(p) == (\E h \in Handler : ProcCall(p, h)) \/ ProcLock(p) \/ ProcBody(p)

Next ==
  \/ SpinLockInit
  \/ \E c \in Chan : Create(c) \/ Free(c) \/ Update(c) \/ HpfTx(c)
  \/ \E p \in Proc : ProcFs(p)

Spec == Init /\ [][Next]_vars

\* A thread keeps running once it has started, and an ISR ends: weak fairness.
\* A spin lock that is free again and again is obtained: strong fairness.
\* Nothing makes a call start, end, or be looked at.
Fairness ==
  /\ WF_vars(SpinLockInit)
  /\ \A c \in Chan :
       /\ WF_vars(FreeUnmonitor(c) \/ FreeRelease(c))
       /\ WF_vars(CreateRegister(c) \/ Attach(c))
       /\ WF_vars(UpdateRun(c) \/ UpdateTest(c) \/ UpdateStats(c) \/ oslec_hpf_tx(c))
       /\ SF_vars(CreateLock(c) \/ FreeLock(c))
  /\ \A p \in Proc : WF_vars(ProcBody(p)) /\ SF_vars(ProcLock(p))

FairSpec == Spec /\ Fairness

-----------------------------------------------------------------------------
(* Correctness. *)

TypeOK ==
  /\ ready \in BOOLEAN
  /\ oslec_lock \in Thread \cup {Unlocked}
  /\ mon_ec \in Ec \cup {Null}
  /\ num_ec \in Int
  /\ len_ec \in Nat
  /\ live \in SUBSET Ec
  /\ taps \in [Ec -> Nat]
  /\ adaption_mode \in [Ec -> Mode]
  /\ chan_ec \in [Chan -> Ec \cup {Null, NoEc}]
  /\ mine \in [Chan -> Ec \cup {Null, NoEc}]
  /\ pc \in [Thread -> {"idle", "created", "creating", "returned", "detached",
                        "freeing", "unmonitored", "oops",
                        "called", "entered", "using"}]
  /\ handler \in [Proc -> Handler]
  /\ isr \in [Chan -> {"idle", "start", "ran", "stats", "hpf"}]
  /\ timed \in [Chan -> BOOLEAN]

\* Thread t is between a spin_lock_irqsave and its spin_unlock_irqrestore.
Inside(t) == pc[t] \in {"creating", "freeing", "unmonitored", "entered", "using"}

\* The control thread of c has run num_ec++ for its canceller and not num_ec--.
Counted(c) ==
  \/ chan_ec[c] # NoEc
  \/ pc[c] \in {"returned", "detached", "freeing", "unmonitored"}

\* The comment at oslec_wrap.c:128-134: the lock covers any access to mon_ec,
\* num_ec and len_ec.  No two threads are inside a locked region at once.
MutualExclusion == \A s, t \in Thread : Inside(s) /\ Inside(t) => s = t

\* Issues 2 to 4 of oslec_wrap.c:142-158: neither a handler, nor the sample
\* interrupt, nor a free is ever about to touch a canceller that has been
\* destroyed.  What it finds instead of a live one is the NULL of a failed
\* allocation, and a handler, which tests for it, not even that.
NoStalePointer ==
  /\ \A c \in Chan : pc[c] = "unmonitored" => mine[c] \in live \cup {Null}
  /\ \A c \in Chan : isr[c] \in {"start", "hpf"} => chan_ec[c] \in live \cup {Null}
  /\ \A p \in Proc : pc[p] = "using" => mon_ec \in live

\* Some thread has run into the result of a failed allocation.
Crashed ==
  \E c \in Chan :
    \/ pc[c] = "oops"
    \/ pc[c] = "unmonitored" /\ mine[c] = Null
    \/ isr[c] \in {"start", "hpf"} /\ chan_ec[c] = Null

\* Issue 3: mon_ec never points to a destroyed canceller.  It is always one
\* some call owns and num_ec counts.
MonitoredIsACall ==
  mon_ec # Null =>
    \E c \in Chan : Counted(c) /\ mon_ec \in {chan_ec[c], mine[c]} \cap live

\* The "channels" line of /proc/oslec/info: num_ec is exact at every moment,
\* however creates, hang-ups and readers overlap.
CountsCalls == num_ec = Cardinality({c \in Chan : Counted(c)})

\* The "length" line of /proc/oslec/info describes the canceller the other
\* lines are read from.
LengthOfMonitored == mon_ec # Null => len_ec = taps[mon_ec]

\* oslec_wrap.c:217-222: the cycles_* globals need no lock, since only one
\* thread at a time gets to write them ...
OneCyclesWriter ==
  \A c, d \in Chan : isr[c] = "stats" /\ isr[d] = "stats" => c = d

\* ... and it measured from the start of this very sample: mon_ec cannot come
\* to point to a canceller between the two tests of one oslec_echo_can_update.
CyclesTimed == \A c \in Chan : isr[c] = "stats" => timed[c]

\* oslec_wrap.c:184-190: monitoring starts only with a call that is just being
\* created and stops only when that call is freed; it never moves from one
\* call to another, nor to a call that was already up.
MonitorPolicy ==
  [][mon_ec' # mon_ec =>
       \E c \in Chan :
         \/ mon_ec = Null /\ pc[c] = "creating" /\ mon_ec' = mine[c]
         \/ mon_ec' = Null /\ pc[c] = "freeing" /\ mon_ec = mine[c]]_vars

\* Every create, free and /proc call that has started comes back, whatever
\* the other threads do (each early return gives the lock back), unless a
\* failed allocation makes a thread crash: a free keeps the lock then.
CallsReturn == \A t \in Thread : pc[t] # "idle" ~> pc[t] = "idle" \/ Crashed

-----------------------------------------------------------------------------
(* The wrapper implements CallMonitor: a call is up from the moment it is   *)
(* registered until the free that ends it has looked at mon_ec.             *)

Up == {e \in Ec : \E c \in Chan :
         \/ chan_ec[c] = e
         \/ mine[c] = e /\ pc[c] \in {"returned", "detached", "freeing"}}

Calls == INSTANCE CallMonitor WITH
           calls   <- Up,
           mode    <- [e \in Up |-> adaption_mode[e]],
           watched <- mon_ec,
           length  <- IF mon_ec = Null THEN 0 ELSE len_ec

\* oslec_wrap.c implements the abstract monitor: calls start in the default
\* mode, only the watched call's mode is ever written, and the watched call is
\* the first one created since none was.  A call without a canceller is none.
ImplementsCallMonitor == Calls!Spec
=============================================================================
