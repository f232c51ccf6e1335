--------------------------- MODULE OslecWrapProofs ---------------------------
(***************************************************************************)
(* Proofs about OslecWrap for any finite number of channels and any        *)
(* threads, addresses, lengths and modes, and whether or not allocations   *)
(* fail, provided that /proc/oslec is not read while the module is being   *)
(* loaded (TLC shows what happens otherwise).                              *)
(***************************************************************************)
EXTENDS OslecWrap, FiniteSetTheorems, TLAPS

Quiet == EarlyReaders = {}

\* The canceller channel c has, being created, attached or being freed; Null if
\* its allocation failed.
Held(c) == IF chan_ec[c] # NoEc THEN chan_ec[c] ELSE mine[c]

\* The canceller of c is one FreeUnmonitor has still to look at.
Watchable(c) ==
  chan_ec[c] # NoEc \/ pc[c] \in {"returned", "detached", "freeing"}

ThreadsOK ==
  /\ \A c \in Chan : pc[c] \in {"idle", "created", "creating", "returned",
                                "detached", "freeing", "unmonitored", "oops"}
  /\ \A p \in Proc : pc[p] \in {"idle", "called", "entered", "using"}
  /\ ~ready => \A t \in Thread : pc[t] = "idle"
  /\ ~ready => \A c \in Chan : chan_ec[c] = NoEc

LockOK == \A t \in Thread : Inside(t) => oslec_lock = t

HeapOK ==
  /\ \A c \in Chan : mine[c] # NoEc <=> pc[c] # "idle"
  /\ \A c \in Chan : chan_ec[c] # NoEc => pc[c] = "idle"
  /\ \A c \in Chan : Held(c) \in live \cup {Null, NoEc}
  /\ \A c, d \in Chan : Held(c) = Held(d) /\ Held(c) \in Ec => c = d

MonitorOK ==
  /\ mon_ec # Null => \E c \in Chan : Watchable(c) /\ mon_ec = Held(c)
  /\ mon_ec # Null => len_ec = taps[mon_ec]
  /\ \A p \in Proc : pc[p] = "using" => mon_ec # Null

StatsOK ==
  /\ \A c \in Chan : isr[c] # "idle" => chan_ec[c] # NoEc
  /\ \A c \in Chan : isr[c] \in {"ran", "stats"} => chan_ec[c] # Null
  /\ \A c \in Chan : isr[c] \in {"start", "ran", "stats"} /\ chan_ec[c] # Null =>
                       (timed[c] <=> chan_ec[c] = mon_ec)
  /\ \A c \in Chan : isr[c] = "stats" => timed[c]

SInv == TypeOK /\ ThreadsOK /\ LockOK /\ HeapOK /\ MonitorOK /\ StatsOK

IInv == SInv /\ CountsCalls

-----------------------------------------------------------------------------
\* Initially no thread is anywhere and nothing is allocated.
LEMMA InitSInv == Init => SInv
<1> SUFFICES ASSUME Init PROVE SInv
  OBVIOUS
<1> USE ThreadAssumption, ValueAssumption DEF Init
<1>1. TypeOK
  <2>1. timed \in [Chan -> BOOLEAN]
    OBVIOUS
  <2>2. isr \in [Chan -> {"idle", "start", "ran", "stats", "hpf"}]
    OBVIOUS
  <2>3. /\ pc \in [Thread -> {"idle", "created", "creating", "returned", "detached",
                        "freeing", "unmonitored", "oops",
                        "called", "entered", "using"}]
        /\ handler \in [Proc -> Handler]
    BY DEF Handler
  <2>4. /\ chan_ec \in [Chan -> Ec \cup {Null, NoEc}]
        /\ mine \in [Chan -> Ec \cup {Null, NoEc}]
    OBVIOUS
  <2>5. taps \in [Ec -> Nat] /\ adaption_mode \in [Ec -> Mode]
    OBVIOUS
  <2>6. ready \in BOOLEAN
    BY Zenon
  <2>7. /\ oslec_lock \in Thread \cup {Unlocked} /\ mon_ec \in Ec \cup {Null}
        /\ num_ec \in Int /\ len_ec \in Nat /\ live \in SUBSET Ec
    OBVIOUS
  <2>8. QED
    BY ONLY <2>1, <2>2, <2>3, <2>4, <2>5, <2>6, <2>7 DEF TypeOK
<1>2. ThreadsOK /\ LockOK
  BY DEF ThreadsOK, LockOK, Inside, Thread
<1>3. HeapOK /\ MonitorOK
  BY DEF HeapOK, MonitorOK, Held, Thread
<1>4. StatsOK
  BY DEF StatsOK
<1>5. QED
  BY <1>1, <1>2, <1>3, <1>4 DEF SInv

\* Every step of the wrapper, zaptel and /proc keeps the structural invariant.
LEMMA NextSInv == Quiet /\ SInv /\ [Next]_vars => SInv'
<1> SUFFICES ASSUME Quiet, SInv, [Next]_vars PROVE SInv'
  OBVIOUS
<1> USE ThreadAssumption, ValueAssumption
    DEF Quiet, SInv, TypeOK, ThreadsOK, LockOK, HeapOK, MonitorOK, StatsOK,
        Held, Watchable, Inside, Thread, Handler, Goto, Unlock, Deref,
        globals, heap
<1>1. CASE SpinLockInit
  BY <1>1 DEF SpinLockInit
<1>2. ASSUME NEW c \in Chan, NEW len \in Len, CreateAlloc(c, len) PROVE SInv'
  <2>1. /\ ready /\ pc[c] = "idle" /\ chan_ec[c] = NoEc
        /\ UNCHANGED <<ready, oslec_lock, mon_ec, num_ec, len_ec, chan_ec,
                       handler, isr, timed>>
    BY <1>2 DEF CreateAlloc
  <2>2. ASSUME NEW e \in Ec \ live,
               /\ live' = live \cup {e}
               /\ taps' = [taps EXCEPT ![e] = len]
               /\ adaption_mode' = [adaption_mode EXCEPT ![e] = DefaultMode]
               /\ mine' = [mine EXCEPT ![c] = e],
               pc' = [pc EXCEPT ![c] = "created"]
        PROVE  SInv'
    <3>1. TypeOK' /\ ThreadsOK' /\ LockOK'
      BY <2>1, <2>2
    <3>2. HeapOK'
      BY <2>1, <2>2
    <3>3. MonitorOK' /\ StatsOK'
      BY <2>1, <2>2
    <3>4. QED
      BY <3>1, <3>2, <3>3
  <2>3. ASSUME mine' = [mine EXCEPT ![c] = Null], UNCHANGED <<live, taps, adaption_mode>>,
               NEW l \in {"created", "oops"}, pc' = [pc EXCEPT ![c] = l]
        PROVE  SInv'
    <3>1. TypeOK' /\ ThreadsOK' /\ LockOK'
      BY <2>1, <2>3
    <3>2. HeapOK'
      BY <2>1, <2>3
    <3>3. MonitorOK' /\ StatsOK'
      BY <2>1, <2>3
    <3>4. QED
      BY <3>1, <3>2, <3>3
  <2>4. QED
    BY <1>2, <2>2, <2>3 DEF CreateAlloc
<1>3. ASSUME NEW c \in Chan, CreateLock(c) PROVE SInv'
  BY <1>3 DEF CreateLock, Lock
<1>4. ASSUME NEW c \in Chan, CreateRegister(c) PROVE SInv'
  <2>1. /\ pc[c] = "creating" /\ oslec_lock = c /\ chan_ec[c] = NoEc
        /\ mine[c] \in live \cup {Null} /\ live \subseteq Ec
    BY <1>4 DEF CreateRegister, Register
  <2>2. /\ num_ec' = num_ec + 1 /\ oslec_lock' = Unlocked
        /\ pc' = [pc EXCEPT ![c] = "returned"]
        /\ UNCHANGED <<ready, live, taps, adaption_mode, chan_ec, mine, handler,
                       isr, timed>>
    BY <1>4 DEF CreateRegister, Register
  <2>3. /\ mon_ec # Null \/ mine[c] = Null => mon_ec' = mon_ec
        /\ mon_ec # Null => len_ec' = len_ec
        /\ mon_ec = Null /\ mine[c] # Null => mon_ec' = mine[c] /\ len_ec' = taps[mine[c]]
        /\ len_ec' \in Nat
    <3>1. CASE mon_ec # Null
      BY <1>4, <3>1 DEF CreateRegister, Register, Watch
    <3>2. CASE mon_ec = Null /\ mine[c] = Null
      BY <1>4, <3>2 DEF CreateRegister, Register, Watch, Asked
    <3>3. CASE mon_ec = Null /\ mine[c] # Null
      BY <1>4, <2>1, <3>3 DEF CreateRegister, Register, Watch, Asked
    <3>4. QED
      BY <3>1, <3>2, <3>3
  <2>4. TypeOK' /\ ThreadsOK' /\ LockOK'
    BY <2>1, <2>2, <2>3
  <2>5. HeapOK'
    BY <2>1, <2>2
  <2>6. MonitorOK'
    <3>1. \A d \in Chan : Held(d)' = Held(d) /\ (Watchable(d) => Watchable(d)')
      BY <2>1, <2>2
    <3>2. Watchable(c)' /\ Held(c) = mine[c]
      BY <2>1, <2>2
    <3>3. mon_ec' # Null => \E d \in Chan : Watchable(d)' /\ mon_ec' = Held(d)'
      BY ONLY <2>3, <3>1, <3>2, MonitorOK, c \in Chan DEF MonitorOK
    <3>4. mon_ec' # Null => len_ec' = taps'[mon_ec']
      BY ONLY <2>2, <2>3, MonitorOK DEF MonitorOK
    <3>5. \A p \in Proc : pc'[p] # "using"
      BY <2>1, <2>2
    <3>6. QED
      BY ONLY <3>3, <3>4, <3>5 DEF MonitorOK
  <2>7. StatsOK'
    <3>1. \A d \in Chan : chan_ec[d] # NoEc /\ chan_ec[d] # Null => chan_ec[d] # mine[c]
      BY <2>1
    <3>2. QED
      BY <2>2, <2>3, <3>1
  <2>8. QED
    BY ONLY <2>4, <2>5, <2>6, <2>7 DEF SInv
<1>5. ASSUME NEW c \in Chan, Attach(c) PROVE SInv'
  BY <1>5 DEF Attach
<1>6. ASSUME NEW c \in Chan, Detach(c) PROVE SInv'
  <2>1. TypeOK' /\ ThreadsOK' /\ LockOK'
    BY <1>6 DEF Detach
  <2>2. /\ pc[c] = "idle" /\ chan_ec[c] # NoEc /\ isr[c] = "idle"
        /\ pc' = [pc EXCEPT ![c] = "detached"]
        /\ mine' = [mine EXCEPT ![c] = chan_ec[c]]
        /\ chan_ec' = [chan_ec EXCEPT ![c] = NoEc]
        /\ UNCHANGED <<mon_ec, len_ec, live, taps, isr, timed>>
    BY <1>6 DEF Detach
  <2>3. ASSUME NEW d \in Chan PROVE Held(d)' = Held(d)
    BY ONLY <2>2, TypeOK DEF TypeOK, Held
  <2>4. ASSUME NEW d \in Chan, Watchable(d) PROVE Watchable(d)'
    BY ONLY <2>2, <2>4, TypeOK, ThreadAssumption DEF TypeOK, Watchable, Thread
  <2>5. HeapOK'
    <3>1. \A d \in Chan : mine'[d] # NoEc <=> pc'[d] # "idle"
      BY <2>2
    <3>2. \A d \in Chan : chan_ec'[d] # NoEc => pc'[d] = "idle"
      BY <2>2
    <3>3. QED
      BY ONLY <3>1, <3>2, <2>2, <2>3, HeapOK DEF HeapOK
  <2>6. MonitorOK'
    <3>1. mon_ec # Null => \E d \in Chan : Watchable(d)' /\ mon_ec = Held(d)'
      BY ONLY <2>3, <2>4, MonitorOK DEF MonitorOK
    <3>2. QED
      BY <2>2, <3>1
  <2>7. StatsOK'
    BY <2>2
  <2>8. QED
    BY <2>1, <2>5, <2>6, <2>7
<1>7. ASSUME NEW c \in Chan, FreeLock(c) PROVE SInv'
  BY <1>7 DEF FreeLock, Lock
<1>8. ASSUME NEW c \in Chan, FreeUnmonitor(c) PROVE SInv'
  BY <1>8 DEF FreeUnmonitor, Unmonitor
<1>9. ASSUME NEW c \in Chan, FreeRelease(c) PROVE SInv'
  BY <1>9 DEF FreeRelease
<1>10. ASSUME NEW c \in Chan, Update(c) \/ HpfTx(c) PROVE SInv'
  <2>1. CASE UpdateStart(c)
    <3>1. timed' \in [Chan -> BOOLEAN]
      BY ONLY <2>1, TypeOK, Zenon DEF UpdateStart, TypeOK
    <3>2. timed'[c] <=> chan_ec[c] = mon_ec
      BY ONLY <2>1, TypeOK, Zenon DEF UpdateStart, TypeOK
    <3>3. \A d \in Chan : d # c => timed'[d] = timed[d]
      BY ONLY <2>1, TypeOK, Zenon DEF UpdateStart, TypeOK
    <3>4. /\ isr[c] = "idle" /\ chan_ec[c] # NoEc
          /\ isr' = [isr EXCEPT ![c] = "start"]
          /\ UNCHANGED <<ready, oslec_lock, mon_ec, num_ec, len_ec, live, taps,
                         adaption_mode, chan_ec, mine, pc, handler>>
      BY <2>1 DEF UpdateStart
    <3>5. QED
      BY <3>1, <3>2, <3>3, <3>4
  <2>2. CASE UpdateRun(c)
    BY <2>2 DEF UpdateRun
  <2>3. CASE UpdateTest(c)
    BY <2>3 DEF UpdateTest
  <2>4. CASE UpdateStats(c)
    BY <2>4 DEF UpdateStats
  <2>5. CASE HpfTx(c)
    BY <2>5 DEF HpfTx, HpfTxStart, oslec_hpf_tx
  <2>6. QED
    BY <1>10, <2>1, <2>2, <2>3, <2>4, <2>5 DEF Update
<1>11. ASSUME NEW p \in Proc, NEW h \in Handler, ProcCall(p, h) PROVE SInv'
  BY <1>11 DEF ProcCall
<1>12. ASSUME NEW p \in Proc, ProcLock(p) PROVE SInv'
  BY <1>12 DEF ProcLock, Lock
<1>13. ASSUME NEW p \in Proc, ProcBody(p) PROVE SInv'
  BY <1>13 DEF ProcBody, NoMonitor, Monitor, Use, proc_read_info,
              proc_read_mode, proc_write_reset, proc_write_mode
<1>14. CASE UNCHANGED vars
  BY <1>14 DEF vars
<1>15. ASSUME NEW c \in Chan, Create(c) \/ Free(c) PROVE SInv'
  BY ONLY <1>2, <1>3, <1>4, <1>5, <1>6, <1>7, <1>8, <1>9, <1>15 DEF Create, Free
<1>16. ASSUME NEW p \in Proc, ProcFs(p) PROVE SInv'
  BY ONLY <1>11, <1>12, <1>13, <1>16 DEF ProcFs
<1>17. QED
  BY ONLY <1>1, <1>10, <1>14, <1>15, <1>16, [Next]_vars DEF Next

-----------------------------------------------------------------------------
(* num_ec is exact: it moves with the set of counted channels.             *)

CountedSet == {c \in Chan : Counted(c)}

\* A step that leaves every channel counted or not leaves the count right.
LEMMA SameCount ==
  ASSUME CountsCalls, num_ec' = num_ec, \A c \in Chan : Counted(c)' <=> Counted(c)
  PROVE  CountsCalls'
<1>1. CountedSet' = CountedSet
  BY DEF CountedSet
<1>2. QED
  BY <1>1 DEF CountsCalls, CountedSet

\* Registering counts one channel more, releasing one less; no other step counts.
LEMMA NextCounts == Quiet /\ SInv /\ CountsCalls /\ [Next]_vars => CountsCalls'
<1> SUFFICES ASSUME Quiet, SInv, CountsCalls, [Next]_vars PROVE CountsCalls'
  OBVIOUS
<1> USE DEF globals, heap
<1>1. CASE SpinLockInit
  BY <1>1, SameCount DEF SpinLockInit, Counted
<1>2. ASSUME NEW c \in Chan, CreateRegister(c) PROVE CountsCalls'
  <2>1. c \notin CountedSet /\ CountedSet' = CountedSet \cup {c}
    BY <1>2 DEF CreateRegister, Register, Watch, Goto, CountedSet, Counted, SInv, TypeOK, HeapOK, Thread
  <2>2. IsFiniteSet(CountedSet)
    BY ThreadAssumption, FS_Subset DEF CountedSet
  <2>3. Cardinality(CountedSet') = Cardinality(CountedSet) + 1
    BY <2>1, <2>2, FS_AddElement
  <2>4. QED
    BY <1>2, <2>3 DEF CreateRegister, Register, Watch, CountsCalls, CountedSet
<1>3. ASSUME NEW c \in Chan, FreeRelease(c) PROVE CountsCalls'
  <2>1. c \in CountedSet /\ CountedSet' = CountedSet \ {c}
    BY <1>3 DEF FreeRelease, Goto, CountedSet, Counted, SInv, TypeOK, HeapOK, Thread
  <2>2. IsFiniteSet(CountedSet)
    BY ThreadAssumption, FS_Subset DEF CountedSet
  <2>3. Cardinality(CountedSet') = Cardinality(CountedSet) - 1
    BY <2>1, <2>2, FS_RemoveElement
  <2>4. QED
    BY <1>3, <2>3 DEF FreeRelease, CountsCalls, CountedSet
<1>4. ASSUME NEW c \in Chan, NEW len \in Len, CreateAlloc(c, len) PROVE CountsCalls'
  BY <1>4, SameCount DEF CreateAlloc, Goto, Counted, SInv, TypeOK, Thread
<1>5. ASSUME NEW c \in Chan, CreateLock(c) \/ FreeLock(c) PROVE CountsCalls'
  BY <1>5, SameCount DEF CreateLock, FreeLock, Lock, Goto, Counted, SInv, TypeOK, Thread
<1>6. ASSUME NEW c \in Chan, Attach(c) PROVE CountsCalls'
  BY <1>6, SameCount DEF Attach, Goto, Counted, SInv, TypeOK, HeapOK, Thread
<1>7. ASSUME NEW c \in Chan, Detach(c) PROVE CountsCalls'
  BY <1>7, SameCount DEF Detach, Goto, Counted, SInv, TypeOK, Thread
<1>8. ASSUME NEW c \in Chan, FreeUnmonitor(c) PROVE CountsCalls'
  BY <1>8, SameCount DEF FreeUnmonitor, Unmonitor, Goto, Counted, SInv, TypeOK, Thread
<1>9. ASSUME NEW c \in Chan, Update(c) \/ HpfTx(c) PROVE CountsCalls'
  BY <1>9, SameCount DEF Update, UpdateStart, UpdateRun, UpdateTest, UpdateStats,
     HpfTx, HpfTxStart, oslec_hpf_tx, Counted
<1>10. ASSUME NEW p \in Proc, ProcFs(p) PROVE CountsCalls'
  <2>1. /\ UNCHANGED <<num_ec, chan_ec>>
        /\ \E l \in {"idle", "called", "entered", "using"} : pc' = [pc EXCEPT ![p] = l]
    BY <1>10 DEF ProcFs, ProcCall, ProcLock, Lock, ProcBody, NoMonitor, Monitor,
       Use, proc_read_info, proc_read_mode, proc_write_reset, proc_write_mode, Goto
  <2>2. \A c \in Chan : pc'[c] = pc[c]
    BY <2>1, ThreadAssumption DEF SInv, TypeOK, Thread
  <2>3. QED
    BY <2>1, <2>2, SameCount DEF Counted
<1>11. CASE UNCHANGED vars
  BY <1>11, SameCount DEF vars, Counted
<1>12. QED
  BY ONLY <1>1, <1>2, <1>3, <1>4, <1>5, <1>6, <1>7, <1>8, <1>9, <1>10, <1>11,
     [Next]_vars DEF Next, Create, Free

LEMMA InitIInv == Init => IInv
<1> SUFFICES ASSUME Init PROVE CountsCalls
  BY InitSInv DEF IInv
<1>1. {c \in Chan : Counted(c)} = {}
  BY DEF Init, Counted, Thread
<1>2. QED
  BY <1>1, FS_EmptySet DEF CountsCalls, Init

-----------------------------------------------------------------------------
\* The inductive invariant holds in every reachable state.
THEOREM Invariance == ASSUME Quiet PROVE Spec => []IInv
<1>1. IInv /\ [Next]_vars => IInv'
  BY NextSInv, NextCounts DEF IInv
<1>2. QED
  BY InitIInv, <1>1, PTL DEF Spec

\* Type correctness of the wrapper's state.
THEOREM TypeCorrect == ASSUME Quiet PROVE Spec => []TypeOK
<1>1. IInv => TypeOK
  BY DEF IInv, SInv
<1>2. QED
  BY Invariance, <1>1, PTL

\* oslec_lock excludes: at most one thread is between a lock and its unlock.
THEOREM LockExcludes == ASSUME Quiet PROVE Spec => []MutualExclusion
<1>1. IInv => MutualExclusion
  BY DEF IInv, SInv, LockOK, MutualExclusion
<1>2. QED
  BY Invariance, <1>1, PTL

\* No handler, interrupt or free touches a destroyed canceller, and mon_ec
\* always points to the canceller of a call that is still counted.
LEMMA NothingDangles ==
  ASSUME Quiet PROVE Spec => [](NoStalePointer /\ MonitoredIsACall)
<1>1. IInv => NoStalePointer /\ MonitoredIsACall
  BY ValueAssumption
  DEF IInv, SInv, TypeOK, ThreadsOK, MonitorOK, HeapOK, StatsOK, NoStalePointer,
      MonitoredIsACall, Watchable, Counted, Held
<1>2. QED
  BY Invariance, <1>1, PTL

\* Nothing dereferences a canceller that has been destroyed, even when
\* allocations fail.
THEOREM NoUseAfterFree == ASSUME Quiet PROVE Spec => []NoStalePointer
  BY NothingDangles, PTL

\* A failed allocation is the only thing that makes a thread crash.
THEOREM OnlyMallocCrashes == ASSUME ~MallocMayFail PROVE Spec => []~Crashed
<1> DEFINE NoNull ==
      /\ chan_ec \in [Chan -> Ec \cup {NoEc}]
      /\ mine \in [Chan -> Ec \cup {NoEc}]
      /\ pc \in [Thread -> {"idle", "created", "creating", "returned", "detached",
                            "freeing", "unmonitored", "called", "entered", "using"}]
<1>1. Init => NoNull
  BY ValueAssumption DEF Init, Thread
<1>2. NoNull /\ [Next]_vars => NoNull'
  <2> SUFFICES ASSUME NoNull, [Next]_vars PROVE NoNull'
    OBVIOUS
  <2> USE DEF globals, heap, Goto, Thread
  <2>1. ASSUME NEW c \in Chan, Create(c) PROVE NoNull'
    BY <2>1 DEF Create, CreateAlloc, CreateLock, Lock, CreateRegister, Register, Attach
  <2>2. ASSUME NEW c \in Chan, Free(c) PROVE NoNull'
    BY <2>2 DEF Free, Detach, FreeLock, Lock, FreeUnmonitor, Unmonitor, FreeRelease
  <2>3. ASSUME NEW c \in Chan, Update(c) \/ HpfTx(c) PROVE NoNull'
    BY <2>3 DEF Update, UpdateStart, UpdateRun, UpdateTest, UpdateStats, HpfTx,
                HpfTxStart, oslec_hpf_tx
  <2>4. ASSUME NEW p \in Proc, ProcFs(p) PROVE NoNull'
    BY <2>4 DEF ProcFs, ProcCall, ProcLock, Lock, ProcBody, NoMonitor, Monitor, Use,
                proc_read_info, proc_read_mode, proc_write_reset, proc_write_mode
  <2>5. CASE SpinLockInit \/ UNCHANGED vars
    BY <2>5 DEF SpinLockInit, vars
  <2>6. QED
    BY ONLY <2>1, <2>2, <2>3, <2>4, <2>5, [Next]_vars DEF Next
<1>3. NoNull => ~Crashed
  BY ValueAssumption DEF Crashed, Thread
<1> QED BY <1>1, <1>2, <1>3, PTL DEF Spec

\* What mon_ec points to is the canceller of a call that is up.
THEOREM MonitorIsLive == ASSUME Quiet PROVE Spec => []MonitoredIsACall
  BY NothingDangles, PTL

\* num_ec counts the calls that are up, and len_ec describes the monitored one.
LEMMA ProcInfo == ASSUME Quiet PROVE Spec => [](CountsCalls /\ LengthOfMonitored)
<1>1. IInv => CountsCalls /\ LengthOfMonitored
  BY DEF IInv, SInv, MonitorOK, LengthOfMonitored
<1>2. QED
  BY Invariance, <1>1, PTL

\* The /proc info line "number of calls" is right.
THEOREM CallsCounted == ASSUME Quiet PROVE Spec => []CountsCalls
  BY ProcInfo, PTL

\* The length /proc shows is that of the monitored canceller.
THEOREM LengthShown == ASSUME Quiet PROVE Spec => []LengthOfMonitored
  BY ProcInfo, PTL

\* The cycles_* statistics have one writer, which timed the sample it reports:
\* the claim that they need no lock.
LEMMA Statistics == ASSUME Quiet PROVE Spec => [](OneCyclesWriter /\ CyclesTimed)
<1>1. IInv => OneCyclesWriter /\ CyclesTimed
  <2> SUFFICES ASSUME IInv PROVE OneCyclesWriter /\ CyclesTimed
    OBVIOUS
  <2>1. CyclesTimed
    BY DEF IInv, SInv, StatsOK, CyclesTimed
  <2>2. \A c \in Chan : isr[c] = "stats" =>
                          chan_ec[c] = mon_ec /\ chan_ec[c] # NoEc /\ chan_ec[c] \in Ec
    BY DEF IInv, SInv, StatsOK, TypeOK
  <2>3. OneCyclesWriter
    BY <2>2 DEF IInv, SInv, HeapOK, Held, OneCyclesWriter
  <2>4. QED
    BY <2>1, <2>3
<1>2. QED
  BY Invariance, <1>1, PTL

\* No two interrupts update the cycle statistics at once.
THEOREM StatsNeedNoLock == ASSUME Quiet PROVE Spec => []OneCyclesWriter
  BY Statistics, PTL

\* Whoever updates them has read the start time of this sample.
THEOREM StatsTimed == ASSUME Quiet PROVE Spec => []CyclesTimed
  BY Statistics, PTL

\* Monitoring starts only at a create and ends only at the free of that call.
THEOREM MonitorMovesByPolicy == Spec => MonitorPolicy
<1> DEFINE Policy ==
      mon_ec' # mon_ec =>
        \E c \in Chan :
          \/ mon_ec = Null /\ pc[c] = "creating" /\ mon_ec' = mine[c]
          \/ mon_ec' = Null /\ pc[c] = "freeing" /\ mon_ec = mine[c]
<1>1. Next => Policy
  <2> SUFFICES ASSUME Next, mon_ec' # mon_ec PROVE Policy
    OBVIOUS
  <2>1. PICK c \in Chan : CreateRegister(c) \/ FreeUnmonitor(c)
    BY DEF Next, SpinLockInit, Create, CreateAlloc, CreateLock, Attach, Free,
       Detach, FreeLock, FreeRelease, Lock, Update, UpdateStart, UpdateRun,
       UpdateTest, UpdateStats, HpfTx, HpfTxStart, oslec_hpf_tx, ProcFs,
       ProcCall, ProcLock, ProcBody, NoMonitor, Monitor, Use, proc_read_info,
       proc_read_mode, proc_write_reset, proc_write_mode, globals
  <2>2. CASE CreateRegister(c)
    BY <2>2 DEF CreateRegister, Register, Watch
  <2>3. CASE FreeUnmonitor(c)
    BY <2>3 DEF FreeUnmonitor, Unmonitor
  <2>4. QED
    BY <2>1, <2>2, <2>3
<1>2. [Next]_vars => [Policy]_vars
  BY <1>1
<1>3. QED
  BY <1>2, PTL DEF Spec, MonitorPolicy

-----------------------------------------------------------------------------
(* The wrapper implements CallMonitor.                                      *)

\* A canceller that is not yet registered has the default mode (only the
\* monitored one's is written), and every allocated one has a length asked for.
NewOK ==
  /\ \A c \in Chan : pc[c] \in {"created", "creating"} /\ mine[c] # Null =>
                       adaption_mode[mine[c]] = DefaultMode
  /\ \A e \in live : taps[e] \in Len

LEMMA NextNewOK == Quiet /\ SInv /\ NewOK /\ [Next]_vars => NewOK'
<1> SUFFICES ASSUME Quiet, SInv, NewOK, [Next]_vars PROVE NewOK'
  OBVIOUS
<1> USE ThreadAssumption, ValueAssumption
    DEF Quiet, SInv, TypeOK, HeapOK, Held, NewOK, Thread, Goto, globals, heap
<1>1. CASE SpinLockInit
  BY <1>1 DEF SpinLockInit
<1>2. ASSUME NEW c \in Chan, NEW len \in Len, CreateAlloc(c, len) PROVE NewOK'
  <2>1. pc[c] = "idle" /\ \A d \in Chan : d # c => pc'[d] = pc[d]
    BY <1>2 DEF CreateAlloc
  <2>2. ASSUME NEW e \in Ec \ live,
               /\ live' = live \cup {e}
               /\ taps' = [taps EXCEPT ![e] = len]
               /\ adaption_mode' = [adaption_mode EXCEPT ![e] = DefaultMode]
               /\ mine' = [mine EXCEPT ![c] = e]
        PROVE  NewOK'
    <3>1. \A d \in Chan : pc'[d] \in {"created", "creating"} /\ mine'[d] # Null =>
                          adaption_mode'[mine'[d]] = DefaultMode
      BY <2>1, <2>2
    <3>2. QED
      BY <2>2, <3>1
  <2>3. ASSUME mine' = [mine EXCEPT ![c] = Null], UNCHANGED <<live, taps, adaption_mode>>
        PROVE  NewOK'
    BY <2>1, <2>3
  <2>4. QED
    BY <1>2, <2>2, <2>3 DEF CreateAlloc
<1>3. ASSUME NEW c \in Chan, CreateLock(c) \/ FreeLock(c) PROVE NewOK'
  BY <1>3 DEF CreateLock, FreeLock, Lock
<1>4. ASSUME NEW c \in Chan, CreateRegister(c) \/ Attach(c) PROVE NewOK'
  BY <1>4 DEF CreateRegister, Register, Watch, Attach
<1>5. ASSUME NEW c \in Chan, Detach(c) \/ FreeUnmonitor(c) PROVE NewOK'
  BY <1>5 DEF Detach, FreeUnmonitor, Unmonitor
<1>6. ASSUME NEW c \in Chan, FreeRelease(c) PROVE NewOK'
  BY <1>6 DEF FreeRelease
<1>7. ASSUME NEW c \in Chan, Update(c) \/ HpfTx(c) PROVE NewOK'
  BY <1>7 DEF Update, UpdateStart, UpdateRun, UpdateTest, UpdateStats, HpfTx,
              HpfTxStart, oslec_hpf_tx
<1>8. ASSUME NEW p \in Proc, NEW m \in Mode, proc_write_mode(p, m) PROVE NewOK'
  <2>1. \A c \in Chan : pc[c] \in {"created", "creating"} => mon_ec # mine[c]
    BY <1>8 DEF proc_write_mode, Use, MonitorOK, Watchable
  <2>2. \A c \in Chan : pc'[c] = pc[c]
    BY <1>8 DEF proc_write_mode, Use
  <2>3. \A c \in Chan : pc[c] \in {"created", "creating"} => mine[c] \in Ec \cup {Null}
    OBVIOUS
  <2>4. QED
    BY <1>8, <2>1, <2>2, <2>3 DEF proc_write_mode, Use
<1>9. ASSUME NEW p \in Proc,
             \/ \E h \in Handler : ProcCall(p, h)
             \/ ProcLock(p) \/ NoMonitor(p) \/ Monitor(p)
             \/ proc_read_info(p) \/ proc_read_mode(p) \/ proc_write_reset(p)
      PROVE  NewOK'
  BY <1>9 DEF ProcCall, ProcLock, Lock, NoMonitor, Monitor, Use, proc_read_info,
              proc_read_mode, proc_write_reset
<1>10. CASE UNCHANGED vars
  BY <1>10 DEF vars
<1>11. QED
  BY ONLY <1>1, <1>2, <1>3, <1>4, <1>5, <1>6, <1>7, <1>8, <1>9, <1>10, [Next]_vars
  DEF Next, Create, Free, ProcFs, ProcBody

\* Steps that neither register, unregister nor set a mode leave the abstract
\* calls as they are.
LEMMA Stutter ==
  ASSUME Up' = Up, mon_ec' = mon_ec, mon_ec # Null => len_ec' = len_ec,
         \A e \in Up : adaption_mode'[e] = adaption_mode[e]
  PROVE  UNCHANGED Calls!vars
  BY DEF Calls!vars

LEMMA NextImplements ==
  Quiet /\ SInv /\ NewOK /\ [Next]_vars => [Calls!Next]_(Calls!vars)
<1> SUFFICES ASSUME Quiet, SInv, NewOK, [Next]_vars PROVE [Calls!Next]_(Calls!vars)
  OBVIOUS
<1> USE ThreadAssumption, ValueAssumption
    DEF SInv, TypeOK, HeapOK, Held, Thread, Goto, globals, heap
<1>1. ASSUME NEW c \in Chan, NEW len \in Len, CreateAlloc(c, len)
      PROVE  UNCHANGED Calls!vars
  <2>1. /\ pc[c] = "idle" /\ pc' \in {[pc EXCEPT ![c] = l] : l \in {"created", "oops"}}
        /\ UNCHANGED <<chan_ec, mon_ec, len_ec>>
        /\ \E n : mine' = [mine EXCEPT ![c] = n]
    BY <1>1 DEF CreateAlloc
  <2>2. Up' = Up
    BY <2>1 DEF Up
  <2>3. Up \subseteq live
    BY DEF Up
  <2>4. \A e \in Up : adaption_mode'[e] = adaption_mode[e]
    BY <1>1, <2>3 DEF CreateAlloc
  <2>5. QED
    BY <2>1, <2>2, <2>4, Stutter
<1>2. ASSUME NEW c \in Chan, CreateRegister(c) PROVE [Calls!Next]_(Calls!vars)
  <2>1. pc[c] = "creating" /\ UNCHANGED <<chan_ec, mine, adaption_mode>>
        /\ pc' = [pc EXCEPT ![c] = "returned"]
    BY <1>2 DEF CreateRegister, Register
  <2>2. CASE mine[c] = Null
    <3>1. Up' = Up
      BY <2>1, <2>2 DEF Up
    <3>2. mon_ec' = mon_ec /\ (mon_ec # Null => len_ec' = len_ec)
      BY <1>2, <2>2 DEF CreateRegister, Register, Watch
    <3>3. QED
      BY <2>1, <3>1, <3>2, Stutter
  <2>3. CASE mine[c] # Null
    <3> PICK e \in Ec : e = mine[c]
      BY <2>1, <2>3
    <3>1. /\ e \notin Up /\ Up' = Up \cup {e}
          /\ taps[e] \in Len /\ adaption_mode[e] = DefaultMode
      BY <2>1, <2>3 DEF Up, NewOK
    <3>2. IF mon_ec = Null THEN mon_ec' = e /\ len_ec' = taps[e]
          ELSE UNCHANGED <<mon_ec, len_ec>>
      BY <1>2, <2>3 DEF CreateRegister, Register, Watch, Asked
    <3>3. PICK len \in Len : len = taps[e]
      BY <3>1
    <3>4. e # Null
      BY <2>3
    <3>5. Calls!Start(e, len)
      BY ONLY <2>1, <3>1, <3>2, <3>3, <3>4 DEF Calls!Start
    <3>6. QED
      BY ONLY <3>3, <3>5, e \in Ec DEF Calls!Next
  <2>4. QED
    BY <2>2, <2>3
<1>3. ASSUME NEW c \in Chan, FreeUnmonitor(c) PROVE [Calls!Next]_(Calls!vars)
  <2>1. /\ pc[c] = "freeing" /\ UNCHANGED <<chan_ec, mine, adaption_mode, len_ec>>
        /\ pc' = [pc EXCEPT ![c] = "unmonitored"]
        /\ mon_ec' = IF mon_ec = mine[c] THEN Null ELSE mon_ec
    BY <1>3 DEF FreeUnmonitor, Unmonitor
  <2>2. CASE mine[c] = Null
    <3>1. Up' = Up
      BY <2>1, <2>2 DEF Up
    <3>2. QED
      BY <2>1, <2>2, <3>1, Stutter
  <2>3. CASE mine[c] # Null
    <3> PICK e \in Ec : e = mine[c]
      BY <2>1, <2>3
    <3>1. e \in Up /\ Up' = Up \ {e} /\ e # Null
      BY <2>1, <2>3 DEF Up
    <3>2. Calls!End(e)
      BY ONLY <2>1, <3>1, e = mine[c] DEF Calls!End
    <3>3. QED
      BY ONLY <3>2, e \in Ec DEF Calls!Next
  <2>4. QED
    BY <2>2, <2>3
<1>4. ASSUME NEW p \in Proc, NEW m \in Mode, proc_write_mode(p, m) PROVE Calls!Next
  <2>1. mon_ec # Null /\ mon_ec \in Up /\ Up' = Up
    BY <1>4 DEF proc_write_mode, Use, MonitorOK, Watchable, Up
  <2>2. /\ adaption_mode' = [e \in Ec |-> IF e = mon_ec THEN m ELSE adaption_mode[e]]
        /\ UNCHANGED <<mon_ec, len_ec>> /\ Up \subseteq Ec
    BY <1>4 DEF proc_write_mode, Use, Up
  <2>3. Calls!SetMode(m)
    BY ONLY <2>1, <2>2 DEF Calls!SetMode
  <2>4. QED
    BY ONLY <2>3, m \in Mode DEF Calls!Next
<1>5. ASSUME NEW c \in Chan, CreateLock(c) \/ FreeLock(c) \/ Attach(c) \/ Detach(c)
      PROVE  UNCHANGED Calls!vars
  <2>1. Up' = Up
    <3>1. CASE CreateLock(c) \/ FreeLock(c)
      BY <3>1 DEF CreateLock, FreeLock, Lock, Up
    <3>2. CASE Attach(c)
      BY <3>2 DEF Attach, Up
    <3>3. CASE Detach(c)
      BY <3>3 DEF Detach, Up
    <3>4. QED
      BY <1>5, <3>1, <3>2, <3>3
  <2>2. QED
    BY <1>5, <2>1, Stutter DEF CreateLock, FreeLock, Lock, Attach, Detach
<1>6. ASSUME NEW c \in Chan, FreeRelease(c) PROVE UNCHANGED Calls!vars
  <2>1. Up' = Up
    BY <1>6 DEF FreeRelease, Up
  <2>2. mine[c] \notin Up
    BY <1>6 DEF FreeRelease, Up
  <2>3. \A e \in Up : adaption_mode'[e] = adaption_mode[e]
    BY <1>6, <2>2 DEF FreeRelease, Up
  <2>4. QED
    BY <1>6, <2>1, <2>3, Stutter DEF FreeRelease
<1>7. ASSUME NEW c \in Chan, Update(c) \/ HpfTx(c) PROVE UNCHANGED Calls!vars
  BY <1>7, Stutter DEF Update, UpdateStart, UpdateRun, UpdateTest, UpdateStats,
     HpfTx, HpfTxStart, oslec_hpf_tx, Up
<1>8. ASSUME NEW p \in Proc,
             \/ \E h \in Handler : ProcCall(p, h)
             \/ ProcLock(p) \/ NoMonitor(p) \/ Monitor(p)
             \/ proc_read_info(p) \/ proc_read_mode(p) \/ proc_write_reset(p)
      PROVE  UNCHANGED Calls!vars
  <2>1. /\ UNCHANGED <<mon_ec, len_ec, adaption_mode, chan_ec, mine>>
        /\ \A c \in Chan : pc'[c] = pc[c]
    BY <1>8 DEF ProcCall, ProcLock, Lock, NoMonitor, Monitor, Use, proc_read_info,
       proc_read_mode, proc_write_reset
  <2>2. QED
    BY <2>1, Stutter DEF Up
<1>9. CASE SpinLockInit \/ UNCHANGED vars
  BY <1>9, Stutter DEF SpinLockInit, vars, Up
<1>10. QED
  BY ONLY <1>1, <1>2, <1>3, <1>4, <1>5, <1>6, <1>7, <1>8, <1>9, [Next]_vars
  DEF Next, Create, Free, ProcFs, ProcBody

\* oslec_wrap.c implements the abstract monitor of calls.
THEOREM Implementation == ASSUME Quiet PROVE Spec => ImplementsCallMonitor
<1>1. Init => Calls!Init
  <2> SUFFICES ASSUME Init PROVE Calls!Init
    OBVIOUS
  <2>1. Up = {}
    BY ValueAssumption DEF Init, Up
  <2>2. QED
    BY <2>1 DEF Init, Calls!Init
<1>2. Init => NewOK
  BY DEF Init, NewOK, Thread
<1>3. SInv /\ NewOK /\ [Next]_vars => NewOK'
  BY NextNewOK
<1>4. SInv /\ NewOK /\ [Next]_vars => [Calls!Next]_(Calls!vars)
  BY NextImplements
<1>5. IInv => SInv
  BY DEF IInv
<1>6. QED
  BY Invariance, <1>1, <1>2, <1>3, <1>4, <1>5, PTL
  DEF Spec, ImplementsCallMonitor, Calls!Spec
=============================================================================
