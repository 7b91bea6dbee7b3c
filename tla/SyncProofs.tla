----------------------------- MODULE SyncProofs -----------------------------
(***************************************************************************)
(* For any number of threads: what threads and handlers do to an Event, a   *)
(* Mutex and a Signal is a behaviour of the scheduler, the mutex has one    *)
(* owner, and nobody sleeps through an Event.                               *)
(***************************************************************************)
EXTENDS SyncHistory, SchedulerProofs

(* Every step of a call is a step of the scheduler, or leaves it alone. *)
LEMMA SyncStepIsSchedulerStep == [SyncNext]_syncVars => [Next]_schedVars
<1> SUFFICES ASSUME [SyncNext]_syncVars PROVE [Next]_schedVars
  OBVIOUS
<1>1. ASSUME NEW q \in Queues, SleepOn(q) \/ WakeAllThreads(q) \/ WakeOneThread(q)
      PROVE  Next
  BY <1>1 DEF Next, CoreNext, GiveUp, WakeAll
<1>2. EventQ \in Queues /\ MutexQ \in Queues /\ SignalQ \in Queues
  BY SyncAssumption
<1>3. CASE MutexCall
  BY <1>1, <1>2, <1>3 DEF MutexCall, LockTest, LockSleep, LockClaim, TryLock, Unlock
<1>4. CASE EventCall
  BY <1>1, <1>2, <1>4
     DEF EventCall, EventWait, EventSleep, EventSet, EventWake, EventClear, HandlerSet
<1>5. CASE FsCall
  BY <1>1, <1>2, <1>5 DEF FsCall, FsTest, FsSleep, FsMount, FsMounted, FsSignal
<1>6. CASE Background
  BY <1>6, SyncAssumption
     DEF Background, AllocFails, Next, CoreNext, Create, GiveUp, WakeAll
<1>7. CASE UNCHANGED syncVars
  BY <1>7 DEF syncVars
<1> QED
  BY <1>3, <1>4, <1>5, <1>6, <1>7 DEF SyncNext

(* Mutex, Event and Signal use the scheduler as Scheduler specifies it. *)
THEOREM UsesScheduler == SyncSpec => Spec
<1>1. SyncInit => Init
  BY DEF SyncInit
<1> QED
  BY <1>1, SyncStepIsSchedulerStep, PTL DEF SyncSpec, Spec

-----------------------------------------------------------------------------
(* The invariant.                                                           *)

(* A call leaves every variable of the objects and the threads in its type. *)
LEMMA SyncTypesStep ==
    ASSUME IInv, SyncTypeOK, [SyncNext]_syncVars
    PROVE  SyncTypeOK'
<1> USE DEF SyncTypeOK
<1>1. ASSUME NEW place \in Places, Calls, Goto(place)
      PROVE  pc' \in [Threads -> Places]
  BY <1>1, CallerIsThread DEF Goto
<1>2. ASSUME NEW b \in BOOLEAN, owns' = [owns EXCEPT ![tp] = b]
      PROVE  owns' \in [Threads -> BOOLEAN]
  BY <1>2
<1>3. CASE LockTest \/ LockSleep
  BY <1>1, <1>3 DEF LockTest, LockSleep, At, Places, objVars
<1>4. CASE LockClaim
  BY <1>1, <1>2, <1>4 DEF LockClaim, At, Places
<1>5. CASE TryLock \/ Unlock
  <2>1. owns[tp] \in BOOLEAN
    BY <1>5, CallerIsThread DEF TryLock, Unlock, At
  <2> QED
    BY <1>2, <1>5, <2>1 DEF TryLock, Unlock
<1>6. CASE EventCall
  BY <1>1, <1>6 DEF EventCall, EventWait, EventSleep, EventSet, EventWake, EventClear,
                    HandlerSet, At, Places, objVars
<1>7. CASE FsCall
  BY <1>1, <1>7 DEF FsCall, FsTest, FsSleep, FsMount, FsMounted, FsSignal, At, Places, objVars
<1>8. CASE Background \/ UNCHANGED syncVars
  BY <1>8 DEF Background, Idles, syncVars, objVars
<1> QED
  BY <1>3, <1>4, <1>5, <1>6, <1>7, <1>8 DEF SyncNext, MutexCall

(* Mutex::lock and try_lock give the mutex to a thread only if nobody owns  *)
(* it, and only its owner gives it back.                                    *)
LEMMA OwnersStep ==
    ASSUME IInv, SyncTypeOK, MutualExclusion, [SyncNext]_syncVars
    PROVE  MutualExclusion'
<1> USE DEF MutualExclusion, SyncTypeOK
<1>1. CASE LockClaim \/ TryLock
  <2>1. tp \in Threads /\ locked'
    BY <1>1, CallerIsThread DEF LockClaim, TryLock, At
  <2>2. CASE locked
    <3>1. \A t \in Threads : owns'[t] => owns[t]
      BY <1>1, <2>1, <2>2 DEF LockClaim, TryLock
    <3> QED
      BY <2>1, <3>1
  <2>3. CASE ~locked
    <3>1. \A t \in Threads : owns'[t] => t = tp
      BY <1>1, <2>1, <2>3 DEF LockClaim, TryLock
    <3> QED
      BY <2>1, <3>1
  <2> QED
    BY <2>2, <2>3
<1>2. CASE Unlock
  <2>1. tp \in Threads /\ owns[tp]
    BY <1>2, CallerIsThread DEF Unlock, At
  <2>2. \A t \in Threads : owns[t] => t = tp
    BY <2>1
  <2>3. \A t \in Threads : ~owns'[t]
    BY <1>2, <2>1, <2>2 DEF Unlock
  <2> QED
    BY <2>3
<1>3. CASE UNCHANGED <<locked, owns>>
  BY <1>3
<1>4. CASE LockTest \/ LockSleep \/ EventCall \/ FsCall \/ Background \/ UNCHANGED syncVars
  BY <1>3, <1>4 DEF LockTest, LockSleep, EventCall, EventWait, EventSleep, EventSet, EventWake,
                    EventClear, HandlerSet, FsCall, FsTest, FsSleep, FsMount, FsMounted,
                    FsSignal, Background, Idles, syncVars, objVars
<1> QED
  BY <1>1, <1>2, <1>4 DEF SyncNext, MutexCall

(* A thread joins the waiters of an object only by the sleep of a call to   *)
(* that object.                                                             *)
LEMMA NewWaiter ==
    ASSUME IInv, [SyncNext]_syncVars, NEW q \in Queues, NEW t,
           Listed(waitQ'[q], t), ~Listed(waitQ[q], t)
    PROVE  /\ t = tp /\ SleepOn(q)
           /\ \/ q = EventQ /\ EventSleep /\ ~active
              \/ q = MutexQ /\ LockSleep
              \/ q = SignalQ /\ FsSleep
<1>1. /\ EventQ \in Queues /\ MutexQ \in Queues /\ SignalQ \in Queues
      /\ EventQ # MutexQ /\ EventQ # SignalQ /\ MutexQ # SignalQ
  BY SyncAssumption
<1>2. SleepOn(q) /\ t = tp
  BY SyncStepIsSchedulerStep, WaitersOfStep
<1>3. /\ InThread /\ making[tp] = None /\ mode = "thread" /\ waking = None
      /\ panic = "none" /\ mode' = "thread" /\ tp # None
  BY <1>2 DEF SleepOn, Calls, InThread, Reschedule, SwitchIn, IInv, HartState
<1>4. tp \in Threads /\ state[tp] = "Ready" /\ state'[tp] = "Sleeping"
  BY <1>2, <1>3, RunnerListed DEF SleepOn, IInv, TypeOK
<1>5. waitQ' # waitQ /\ waitQ'[q] # waitQ[q]
  OBVIOUS
<1>6. ~(LockTest \/ LockClaim \/ TryLock \/ FsTest \/ FsMount \/ FsMounted)
  BY <1>5 DEF LockTest, LockClaim, TryLock, FsTest, FsMount, FsMounted, schedVars
<1>7. CASE LockSleep \/ FsSleep
  BY <1>1, <1>2, <1>5, <1>7, SleepElsewhere DEF LockSleep, FsSleep
<1>8. ~Unlock
  <2>1. ~WakeOneThread(MutexQ)
    BY <1>4 DEF WakeOneThread, Schedule, IInv, TypeOK
  <2> QED
    BY <1>5, <2>1 DEF Unlock, schedVars
<1>9. ~(EventWait \/ EventSet \/ EventWake \/ EventClear \/ HandlerSet \/ FsSignal)
  BY <1>5 DEF EventWait, EventSet, EventWake, EventClear, HandlerSet, FsSignal,
              WakeAllThreads, schedVars, listVars
<1>10. CASE EventSleep
  BY <1>1, <1>2, <1>5, <1>10, SleepElsewhere DEF EventSleep, schedVars
<1>11. ~Background
  <2>1. ~(Boot \/ PushThread \/ WakeFront \/ WakeDone \/ IrqEnter \/ IrqReturn \/ Halted)
    BY <1>3 DEF Boot, CreateIdle, CreateStartup, InitIrq, RunStartup, PushThread,
                WakeFront, WakeDone, IrqEnter, IrqReturn, InHandler, Halted
  <2>2. ~(\/ \E p \in ThreadPriorities : AllocThread(p)
          \/ BeginCreate \/ AllocFails \/ DisableIrq \/ EnableIrq)
    BY <1>5 DEF AllocThread, BeginCreate, ReadFree, AllocFails, PoolFails, DisableIrq, EnableIrq, listVars
  <2>3. ~StopThread
    BY <1>4 DEF StopThread, IInv, TypeOK
  <2> QED
    BY <2>1, <2>2, <2>3 DEF Background
<1>12. ~UNCHANGED syncVars
  BY <1>5 DEF syncVars, schedVars
<1> QED
  BY <1>2, <1>6, <1>7, <1>8, <1>9, <1>10, <1>11, <1>12 DEF SyncNext, MutexCall, EventCall, FsCall

(* Only an EventSleep adds to the waiters of the Event. *)
LEMMA EventWaiters ==
    ASSUME IInv, [SyncNext]_syncVars, ~EventSleep, NEW t, Listed(waitQ'[EventQ], t)
    PROVE  Listed(waitQ[EventQ], t)
<1>1. EventQ \in Queues /\ EventQ # MutexQ /\ EventQ # SignalQ
  BY SyncAssumption
<1> QED
  BY <1>1, NewWaiter

(* Whoever sleeps on a set Event is about to be woken: the second test of   *)
(* Event::wait and its sleep are one step, and set wakes the others.        *)
LEMMA HeardStep ==
    ASSUME IInv, SyncTypeOK, EventHeard, [SyncNext]_syncVars
    PROVE  EventHeard'
<1> SUFFICES ASSUME NEW t \in Threads, active', Listed(waitQ'[EventQ], t)
             PROVE  waking' = EventQ \/ \E c \in Threads : pc'[c] = "wake"
  BY DEF EventHeard
<1> USE DEF SyncTypeOK
<1>0. EventQ \in Queues /\ EventQ # None
  BY SyncAssumption, ThreadAssumption
<1>1. CASE EventSet
  BY <1>1, CallerIsThread DEF EventSet, At, Goto
<1>2. CASE EventWake \/ HandlerSet
  BY <1>2 DEF EventWake, HandlerSet, WakeAllThreads
<1>3. CASE EventClear
  BY <1>3 DEF EventClear
<1>4. CASE EventSleep /\ ~active
  BY <1>4 DEF EventSleep, objVars
<1>5. ASSUME active, Listed(waitQ[EventQ], t), waking # None => waking' = waking,
             \A c \in Threads : pc[c] = "wake" => pc'[c] = "wake"
      PROVE  waking' = EventQ \/ \E c \in Threads : pc'[c] = "wake"
  <2>1. CASE waking = EventQ
    BY <1>0, <1>5, <2>1
  <2>2. CASE \E c \in Threads : pc[c] = "wake"
    BY <1>5, <2>2
  <2> QED
    BY <1>5, <2>1, <2>2 DEF EventHeard
<1>6. ASSUME NEW place, Calls, pc[tp] # "wake", Goto(place), NEW c \in Threads, pc[c] = "wake"
      PROVE  pc'[c] = "wake"
  BY <1>6, CallerIsThread DEF Goto
<1>7. CASE EventSleep /\ active
  <2>1. Listed(waitQ[EventQ], t)
    BY <1>7 DEF EventSleep, schedVars
  <2>2. \A c \in Threads : pc[c] = "wake" => pc'[c] = "wake"
    BY <1>6, <1>7 DEF EventSleep, At
  <2> QED
    BY <1>5, <1>7, <2>1, <2>2 DEF EventSleep, schedVars
<1>8. CASE \/ LockTest \/ LockSleep \/ LockClaim \/ EventWait
           \/ FsTest \/ FsSleep \/ FsMount \/ FsMounted \/ FsSignal
  <2>1. active /\ Listed(waitQ[EventQ], t)
    BY <1>8, EventWaiters
       DEF LockTest, LockSleep, LockClaim, EventWait, FsTest, FsSleep, FsMount, FsMounted,
           FsSignal, objVars, SyncNext, MutexCall, EventCall, FsCall, EventSleep, At
  <2>2. \A c \in Threads : pc[c] = "wake" => pc'[c] = "wake"
    BY <1>6, <1>8 DEF LockTest, LockSleep, LockClaim, EventWait, FsTest, FsSleep, FsMount,
                      FsMounted, FsSignal, At
  <2>3. waking # None => waking' = waking
    BY <1>8 DEF LockTest, LockSleep, LockClaim, EventWait, FsTest, FsSleep, FsMount, FsMounted,
                FsSignal, At, Calls, InThread
  <2> QED
    BY <1>5, <2>1, <2>2, <2>3
<1>9. CASE TryLock \/ Unlock
  <2>1. active /\ UNCHANGED pc /\ waking = None
    BY <1>9 DEF TryLock, Unlock, At, Calls, InThread
  <2>2. Listed(waitQ[EventQ], t)
    BY <1>9, EventWaiters DEF TryLock, Unlock, SyncNext, MutexCall, EventSleep, At, EventCall
  <2> QED
    BY <1>5, <2>1, <2>2
<1>10. CASE Background \/ UNCHANGED syncVars
  <2>1. active /\ UNCHANGED <<active, pc>>
    BY <1>10 DEF Background, Idles, syncVars, objVars
  <2>2. Listed(waitQ[EventQ], t)
    <3>1. CASE ~EventSleep
      BY <1>10, <3>1, EventWaiters
    <3>2. CASE EventSleep
      BY <2>1, <3>2, CallerIsThread DEF EventSleep, At, Goto
    <3> QED
      BY <3>1, <3>2
  <2>3. CASE WakeDone
    <3>1. waking # EventQ
      BY <2>2, <2>3, EmptyListed DEF WakeDone
    <3> QED
      BY <2>1, <2>2, <3>1 DEF EventHeard
  <2>4. CASE ~WakeDone
    <3>1. waking # None => waking' = waking
      BY <1>10, <2>4
         DEF Background, Boot, CreateIdle, CreateStartup, InitIrq, RunStartup, PushThread,
             WakeFront, IrqEnter, IrqReturn, Halted, BeginCreate, ReadFree, AllocThread, AllocFails,
             PoolFails, StopThread, DisableIrq, EnableIrq, wakeVars, schedVars, syncVars
    <3> QED
      BY <1>5, <2>1, <2>2, <3>1
  <2> QED
    BY <2>3, <2>4
<1> QED
  BY <1>1, <1>2, <1>3, <1>4, <1>7, <1>8, <1>9, <1>10 DEF SyncNext, MutexCall, EventCall, FsCall

-----------------------------------------------------------------------------
(* The theorems.                                                            *)

(* Before the first call the mutex is free and nobody waits. *)
LEMMA InitSyncIInv == SyncInit => SyncIInv
  BY DEF SyncInit, SyncIInv, SyncTypeOK, Places, MutualExclusion, EventHeard

(* The invariant behind the properties of Mutex and Event holds in every    *)
(* reachable state.                                                         *)
THEOREM SyncSafety == SyncSpec => []SyncIInv
<1>1. ASSUME IInv, SyncIInv, [SyncNext]_syncVars
      PROVE  SyncIInv'
  BY <1>1, SyncTypesStep, OwnersStep, HeardStep DEF SyncIInv
<1>2. SyncSpec => []IInv
  BY UsesScheduler, Safety, PTL
<1> QED
  BY <1>1, <1>2, InitSyncIInv, PTL DEF SyncSpec

(* Mutex::lock and try_lock never give the mutex to two threads.            *)
THEOREM OneOwner == SyncSpec => []MutualExclusion
<1>1. SyncIInv => MutualExclusion
  BY DEF SyncIInv
<1> QED
  BY <1>1, SyncSafety, PTL

(* Event::wait never sleeps through an Event::set, whether a thread or an   *)
(* interrupt handler sets it.                                               *)
THEOREM NoEventMissed == SyncSpec => []EventHeard
<1>1. SyncIInv => EventHeard
  BY DEF SyncIInv
<1> QED
  BY <1>1, SyncSafety, PTL

-----------------------------------------------------------------------------
(* Mutex::lock and the wait for fs, which test with interrupts enabled.     *)

(* Only the running thread moves on in its call. *)
LEMMA PlacesStay ==
    ASSUME IInv, SyncTypeOK, [SyncNext]_syncVars, NEW t \in Threads, t # tp \/ ~Calls
    PROVE  pc'[t] = pc[t]
<1>1. ASSUME NEW place, At(place), NEW next, Goto(next) PROVE pc'[t] = pc[t]
  BY <1>1 DEF At, Goto, SyncTypeOK
<1>2. CASE MutexCall
  BY <1>1, <1>2 DEF MutexCall, LockTest, LockSleep, LockClaim, TryLock, Unlock, At, Goto
<1>3. CASE EventCall
  BY <1>1, <1>3 DEF EventCall, EventWait, EventSleep, EventSet, EventWake, EventClear, HandlerSet
<1>4. CASE FsCall
  BY <1>1, <1>4 DEF FsCall, FsTest, FsSleep, FsMount, FsMounted, FsSignal, At, Goto
<1>5. CASE Background \/ UNCHANGED syncVars
  BY <1>5 DEF Background, Idles, syncVars
<1> QED
  BY <1>2, <1>3, <1>4, <1>5 DEF SyncNext

(* A thread gives the hart up outside its calls, or in one of their sleeps. *)
LEMMA GivesUpWhere ==
    ASSUME IInv, SyncTypeOK, [SyncNext]_syncVars, GiveUp
    PROVE  /\ pc[tp] \in {"free", "sleep", "wait", "unmounted"}
           /\ pc'[tp] \in {"free", "lock", "mount"}
<1>1. /\ Calls /\ mode = "thread" /\ waking = None /\ making[tp] = None /\ mode' = "thread"
      /\ tp \in Threads /\ state[tp] = "Ready" /\ state'[tp] # "Ready"
  <2>1. Calls /\ mode = "thread" /\ waking = None /\ making[tp] = None /\ mode' = "thread"
        /\ tp # None
    BY DEF GiveUp, SleepOn, StopThread, Calls, InThread, Reschedule, SwitchIn, IInv, HartState
  <2>2. tp \in Threads /\ state[tp] = "Ready" /\ state \in [Threads -> {"Ready", "Sleeping", "Dead"}]
    BY <2>1, RunnerListed DEF IInv, TypeOK
  <2> QED
    BY <2>1, <2>2 DEF GiveUp, SleepOn, StopThread
<1>2. state' # state /\ pc \in [Threads -> Places] /\ state \in [Threads -> {"Ready", "Sleeping", "Dead"}]
  BY <1>1 DEF SyncTypeOK, IInv, TypeOK
<1>3. ~\E t : Schedule(t)
  BY <1>1, <1>2 DEF Schedule
<1>4. CASE LockSleep
  BY <1>1, <1>2, <1>4 DEF LockSleep, At, Goto
<1>5. CASE EventSleep
  BY <1>1, <1>2, <1>5 DEF EventSleep, At, Goto
<1>6. CASE FsSleep
  BY <1>1, <1>2, <1>6 DEF FsSleep, At, Goto
<1>7. ~(LockTest \/ LockClaim \/ TryLock \/ FsTest \/ FsMount \/ FsMounted \/ EventWait
        \/ EventSet \/ EventClear \/ UNCHANGED syncVars)
  BY <1>2 DEF LockTest, LockClaim, TryLock, FsTest, FsMount, FsMounted, EventWait, EventSet,
              EventClear, syncVars, schedVars
<1>8. ~(Unlock \/ EventWake \/ HandlerSet \/ FsSignal)
  BY <1>2, <1>3 DEF Unlock, WakeOneThread, EventWake, HandlerSet, FsSignal, WakeAllThreads,
                    schedVars, threadVars
<1>9. CASE Background
  <2>1. ~(Boot \/ PushThread \/ WakeFront \/ WakeDone \/ IrqEnter \/ IrqReturn \/ Halted)
    BY <1>1, <1>2 DEF Boot, CreateIdle, CreateStartup, InitIrq, RunStartup, PushThread,
                WakeFront, WakeDone, IrqEnter, IrqReturn, InHandler, Halted, schedVars
  <2>2. ~\E p \in ThreadPriorities : AllocThread(p)
    BY <1>1, <1>2 DEF AllocThread
  <2>3. At("free")
    BY <1>9, <2>1, <2>2 DEF Background
  <2> QED
    BY <1>9, <2>3 DEF At, Background, Idles
<1> QED
  BY <1>4, <1>5, <1>6, <1>7, <1>8, <1>9 DEF SyncNext, MutexCall, EventCall, FsCall

(* Between its test and its sleep a thread keeps the hart, unless a more    *)
(* urgent one takes it.                                                     *)
Resumable ==
    \A t \in Threads : pc[t] \in {"sleep", "unmounted"} => tp # None /\ InFront(t)

(* So does the thread that does not sleep. *)
LEMMA ResumableStep ==
    ASSUME IInv, NothingUrgentYet, SyncTypeOK, Resumable, [SyncNext]_syncVars
    PROVE  Resumable'
<1> SUFFICES ASSUME NEW t \in Threads, pc'[t] \in {"sleep", "unmounted"}
             PROVE  tp' # None /\ InFront(t)'
  BY DEF Resumable
<1>1. [Next]_schedVars
  BY SyncStepIsSchedulerStep
<1>2. CASE t # tp
  <2>1. tp # None /\ InFront(t)
    BY <1>2, PlacesStay DEF Resumable
  <2> QED
    BY <1>1, <1>2, <2>1, FrontStays
<1>3. CASE t = tp
  <2>1. ~GiveUp
    BY <1>3, GivesUpWhere
  <2>2. tp # None /\ InFront(t)
    BY <1>3, RunnerInFront, ThreadAssumption
  <2> QED
    BY <1>1, <2>1, <2>2, FrontStays
<1> QED
  BY <1>2, <1>3

(* Whoever runs before a thread in front has the high priority. *)
LEMMA Outranked ==
    ASSUME IInv, OthersOutrankIdle, tp # None, NEW t \in Threads \ {Idle}, t # tp, InFront(t)
    PROVE  prio[tp] = High
<1>1. prio[tp] <= prio[t] /\ Head(readyQ[prio[t]]) = t
  BY DEF InFront
<1>2. Head(readyQ[prio[tp]]) = tp /\ prio[tp] \in 0 .. 2
  BY RunnerListed DEF IInv, CurrentAtFront, Priorities
<1>3. prio[t] \in {0, 1} /\ prio[tp] # prio[t]
  BY <1>1, <1>2 DEF OthersOutrankIdle, High, Normal
<1> QED
  BY <1>1, <1>2, <1>3 DEF High

(* What the loops of Mutex::lock and of start_8bit found stays true until   *)
(* they sleep, unless a high-priority thread has outrun them.               *)
TestsHold ==
    \A t \in Threads \ outrun : /\ pc[t] = "sleep" => locked
                                /\ pc[t] = "unmounted" => ~fs

IdleCallsNothing == pc[Idle] = "free"

(* Only an equally urgent thread could undo it, and none runs. *)
LEMMA TestsHoldStep ==
    ASSUME IInv, OthersOutrankIdle, SyncTypeOK, Resumable, TestsHold, IdleCallsNothing,
           [HistNext]_histVars
    PROVE  TestsHold'
<1> SUFFICES ASSUME NEW t \in Threads, t \notin outrun', pc'[t] \in {"sleep", "unmounted"}
             PROVE  /\ pc'[t] = "sleep" => locked'
                    /\ pc'[t] = "unmounted" => ~fs'
  BY DEF TestsHold
<1>1. CASE UNCHANGED histVars
  BY <1>1 DEF histVars, syncVars, objVars, TestsHold
<1>2. CASE HistNext
  <2>1. /\ SyncNext /\ [SyncNext]_syncVars /\ pc \in [Threads -> Places]
        /\ t \notin outrun /\ ~Outruns(t)
    BY <1>2 DEF HistNext, Outrun, SyncTypeOK
  <2>2. ASSUME pc[t] \in {"sleep", "unmounted"}, pc[tp] # pc[t], Calls
        PROVE  /\ pc[t] = "sleep" /\ locked => locked'
               /\ pc[t] = "unmounted" /\ ~fs => ~fs'
    <3>1. tp # None /\ InFront(t) /\ t # Idle /\ t # tp
      BY <2>2 DEF Resumable, IdleCallsNothing
    <3> QED
      BY <2>1, <3>1, Outranked DEF Outruns
  <2>3. CASE LockTest \/ FsTest
    <3>1. tp \in Threads /\ UNCHANGED objVars
      BY <2>3, CallerIsThread DEF LockTest, FsTest, At
    <3>2. /\ pc'[t] = "sleep" => locked \/ pc[t] = "sleep"
          /\ pc'[t] = "unmounted" => ~fs \/ pc[t] = "unmounted"
      BY <2>1, <2>3, <3>1 DEF LockTest, FsTest, Goto
    <3> QED
      BY <2>1, <3>1, <3>2 DEF TestsHold, objVars
  <2>4. ASSUME pc'[t] \in {"sleep", "unmounted"} => pc'[t] = pc[t],
               UNCHANGED <<locked, fs>> \/ (Calls /\ pc[tp] \notin {"sleep", "unmounted"})
        PROVE  /\ pc'[t] = "sleep" => locked'
               /\ pc'[t] = "unmounted" => ~fs'
    BY <2>1, <2>2, <2>4 DEF TestsHold
  <2>5. ASSUME NEW next \in Places \ {"sleep", "unmounted"}, Goto(next), Calls
        PROVE  pc'[t] \in {"sleep", "unmounted"} => pc'[t] = pc[t]
    BY <2>1, <2>5 DEF Goto
  <2>6. CASE LockSleep \/ EventCall \/ FsSleep \/ FsMount
    BY <2>4, <2>5, <2>6
       DEF LockSleep, EventCall, EventWait, EventSleep, EventSet, EventWake, EventClear,
           HandlerSet, FsSleep, FsMount, At, Places, objVars
  <2>7. CASE LockClaim \/ TryLock \/ Unlock \/ FsMounted \/ FsSignal
    BY <2>4, <2>5, <2>7 DEF LockClaim, TryLock, Unlock, FsMounted, FsSignal, At, Places, objVars
  <2>8. CASE Background
    BY <2>4, <2>8 DEF Background, Idles, objVars
  <2> QED
    BY <2>1, <2>3, <2>6, <2>7, <2>8 DEF SyncNext, MutexCall, FsCall
<1> QED
  BY <1>1, <1>2

(* Whoever sleeps on the mutex looks at it again when it wakes. *)
WaitersLoop == \A t \in Threads : Listed(waitQ[MutexQ], t) => pc[t] = "lock"

(* A thread on a wait queue is not the one that runs. *)
LEMMA WaiterNotRunning ==
    ASSUME IInv, NEW q \in Queues, NEW t \in Threads, Listed(waitQ[q], t)
    PROVE  t # tp
  BY RunnerListed, ThreadAssumption

(* Mutex::lock sleeps in its loop. *)
LEMMA WaitersLoopStep ==
    ASSUME IInv, SyncTypeOK, WaitersLoop, [SyncNext]_syncVars
    PROVE  WaitersLoop'
<1> SUFFICES ASSUME NEW t \in Threads, Listed(waitQ'[MutexQ], t) PROVE pc'[t] = "lock"
  BY DEF WaitersLoop
<1>1. MutexQ \in Queues /\ MutexQ # EventQ /\ MutexQ # SignalQ
  BY SyncAssumption
<1>2. CASE Listed(waitQ[MutexQ], t)
  BY <1>1, <1>2, WaiterNotRunning, PlacesStay DEF WaitersLoop
<1>3. CASE ~Listed(waitQ[MutexQ], t)
  <2>1. t = tp /\ LockSleep
    BY <1>1, <1>3, NewWaiter
  <2> QED
    BY <2>1 DEF LockSleep, Goto, SyncTypeOK
<1> QED
  BY <1>2, <1>3

(* Only LockSleep, EventSleep and FsSleep put a thread to sleep. *)
LEMMA FallsAsleepIn ==
    ASSUME IInv, [SyncNext]_syncVars, NEW t \in Threads,
           state[t] # "Sleeping", state'[t] = "Sleeping"
    PROVE  /\ t = tp /\ Calls
           /\ LockSleep \/ FsSleep \/ (EventSleep /\ SleepOn(EventQ))
<1>1. state' # state /\ state \in [Threads -> {"Ready", "Sleeping", "Dead"}]
  BY DEF IInv, TypeOK
<1>2. ASSUME NEW q, SleepOn(q) PROVE t = tp /\ Calls
  BY <1>1, <1>2 DEF SleepOn
<1>3. ~\E u : Schedule(u)
  BY <1>1 DEF Schedule
<1>4. CASE LockSleep \/ FsSleep \/ EventSleep
  BY <1>1, <1>2, <1>4 DEF LockSleep, FsSleep, EventSleep, schedVars
<1>5. ~(LockTest \/ LockClaim \/ TryLock \/ FsTest \/ FsMount \/ FsMounted \/ EventWait
        \/ EventSet \/ EventClear \/ UNCHANGED syncVars)
  BY <1>1 DEF LockTest, LockClaim, TryLock, FsTest, FsMount, FsMounted, EventWait, EventSet,
              EventClear, syncVars, schedVars
<1>6. ~(Unlock \/ EventWake \/ HandlerSet \/ FsSignal)
  BY <1>1, <1>3 DEF Unlock, WakeOneThread, EventWake, HandlerSet, FsSignal, WakeAllThreads,
                    threadVars, schedVars
<1>7. ~Background
  <2>1. ~(\/ CreateIdle \/ CreateStartup \/ StopThread
          \/ \E p \in ThreadPriorities : AllocThread(p))
    BY <1>1 DEF CreateIdle, CreateStartup, StopThread, AllocThread
  <2>2. ~(\/ InitIrq \/ RunStartup \/ PushThread \/ WakeDone \/ IrqEnter \/ IrqReturn \/ Halted
          \/ BeginCreate \/ AllocFails \/ DisableIrq \/ EnableIrq)
    BY <1>1 DEF InitIrq, RunStartup, PushThread, WakeDone, IrqEnter, IrqReturn, Halted,
                BeginCreate, ReadFree, AllocFails, PoolFails, DisableIrq, EnableIrq, threadVars,
                schedVars
  <2>3. ~WakeFront
    BY <1>3 DEF WakeFront
  <2> QED
    BY <2>1, <2>2, <2>3 DEF Background, Boot
<1> QED
  BY <1>4, <1>5, <1>6, <1>7 DEF SyncNext, MutexCall, EventCall, FsCall

(* A sleeper leaves the list of fsChanged only to wake. *)
LEMMA SignalWaiterStays ==
    ASSUME IInv, SyncTypeOK, [SyncNext]_syncVars, NEW t \in Threads,
           state[t] = "Sleeping", state'[t] = "Sleeping", Listed(waitQ[SignalQ], t)
    PROVE  Listed(waitQ'[SignalQ], t)
<1>1. /\ SignalQ \in Queues /\ MutexQ \in Queues /\ SignalQ # MutexQ
      /\ waitQ \in [Queues -> Seq(Threads)] /\ waitQ[SignalQ] # <<>>
      /\ state \in [Threads -> {"Ready", "Sleeping", "Dead"}]
  BY SyncAssumption, EmptyListed DEF IInv, TypeOK
<1>2. ASSUME waitQ' = waitQ PROVE Listed(waitQ'[SignalQ], t)
  BY <1>2
<1>3. ASSUME NEW q \in Queues, SleepOn(q) PROVE Listed(waitQ'[SignalQ], t)
  <2>1. tp # None /\ tp \in Threads
    BY <1>3, CallerIsThread, ThreadAssumption DEF SleepOn
  <2>2. waitQ' = PushWaiter(waitQ, q, tp) /\ ~Listed(waitQ[SignalQ], tp)
    BY <1>1, <1>3, <2>1, RunnerListed DEF SleepOn
  <2>3. CASE q # SignalQ \/ q \in broken
    BY <1>1, <2>2, <2>3 DEF PushWaiter, PushBack
  <2>4. CASE q = SignalQ /\ q \notin broken
    <3>1. waitQ'[SignalQ] = Append(waitQ[SignalQ], tp)
      BY <1>1, <2>2, <2>4 DEF PushWaiter, PushBack
    <3>2. waitQ[SignalQ] \in Seq(Threads) /\ IsInjective(waitQ[SignalQ])
      BY <1>1 DEF IInv, QueueDiscipline, SleepersListed
    <3> QED
      BY <2>1, <2>2, <3>1, <3>2, AppendListed
  <2> QED
    BY <2>3, <2>4
<1>4. CASE WakeFront
  <2>1. waking \in Queues /\ waitQ[waking] # <<>>
    BY <1>4 DEF WakeFront, IInv, TypeOK
  <2>2. PICK u \in Threads : u = Head(waitQ[waking])
    BY <2>1, WaiterListed
  <2>3. /\ waitQ' = [waitQ EXCEPT ![waking] = Tail(@)]
        /\ state' = [state EXCEPT ![u] = "Ready"]
        /\ \A v : Listed(Tail(waitQ[waking]), v) <=> Listed(waitQ[waking], v) /\ v # u
    BY <1>4, <2>1, <2>2, WaiterListed DEF WakeFront, Schedule
  <2>4. t # u
    BY <1>1, <2>3
  <2> QED
    BY <1>1, <2>1, <2>3, <2>4
<1>5. CASE WakeOneThread(MutexQ)
  <2>1. waitQ[MutexQ] # <<>>
    BY <1>5 DEF WakeOneThread
  <2>2. UnlinkAll(waitQ, Head(waitQ[MutexQ])) = [waitQ EXCEPT ![MutexQ] = Tail(@)]
    BY <1>1, <2>1, WaiterListed
  <2>3. waitQ'[SignalQ] = waitQ[SignalQ]
    BY <1>1, <1>5, <2>2 DEF WakeOneThread
  <2> QED
    BY <2>3
<1>6. CASE MutexCall \/ EventCall \/ FsCall
  BY <1>1, <1>2, <1>3, <1>5, <1>6, SyncAssumption
     DEF MutexCall, LockTest, LockSleep, LockClaim, TryLock, Unlock, EventCall, EventWait,
         EventSleep, EventSet, EventWake, EventClear, HandlerSet, FsCall, FsTest, FsSleep, FsMount,
         FsMounted, FsSignal, WakeAllThreads, listVars, schedVars
<1>7. CASE StopThread
  BY <1>2, <1>7, RunnerListed, CallerIsThread, ThreadAssumption DEF StopThread
<1>8. CASE Background /\ ~WakeFront /\ ~StopThread
  BY <1>2, <1>8
     DEF Background, Boot, CreateIdle, CreateStartup, InitIrq, RunStartup, PushThread, WakeDone,
         IrqEnter, IrqReturn, Halted, BeginCreate, ReadFree, AllocThread, AllocFails, PoolFails,
         DisableIrq, EnableIrq, listVars, schedVars
<1>9. CASE UNCHANGED syncVars
  BY <1>2, <1>9 DEF syncVars, schedVars
<1> QED
  BY <1>4, <1>6, <1>7, <1>8, <1>9 DEF SyncNext

(* Who sleeps in Mutex::lock is on the list of the mutex or dropped, who    *)
(* sleeps on fsChanged is on its list.                                      *)
SleepersFound ==
    /\ broken \subseteq {MutexQ}
    /\ \A t \in Threads : state[t] = "Sleeping" =>
         /\ pc[t] = "lock" => Listed(waitQ[MutexQ], t) \/ t \in dropped
         /\ pc[t] = "mount" => Listed(waitQ[SignalQ], t)

(* Only Mutex::unlock breaks a list, and its own. *)
LEMMA BrokenStep ==
    ASSUME [SyncNext]_syncVars, broken \subseteq {MutexQ}
    PROVE  broken' \subseteq {MutexQ}
<1>1. CASE MutexCall
  BY <1>1 DEF MutexCall, LockTest, LockSleep, LockClaim, TryLock, Unlock, SleepOn, WakeOneThread,
              schedVars
<1>2. CASE EventCall \/ FsCall \/ UNCHANGED syncVars
  BY <1>2 DEF EventCall, EventWait, EventSleep, EventSet, EventWake, EventClear, HandlerSet, FsCall,
              FsTest, FsSleep, FsMount, FsMounted, FsSignal, SleepOn, WakeAllThreads, listVars,
              schedVars, syncVars
<1>3. CASE Background
  BY <1>3 DEF Background, Boot, CreateIdle, CreateStartup, InitIrq, RunStartup, PushThread,
              WakeFront, WakeDone, IrqEnter, IrqReturn, Halted, BeginCreate, ReadFree, AllocThread,
              AllocFails, PoolFails, StopThread, DisableIrq, EnableIrq, listVars, schedVars
<1> QED
  BY <1>1, <1>2, <1>3 DEF SyncNext

(* A sleep that joins a list is found there, unless the list is broken. *)
LEMMA SleeperJoins ==
    ASSUME IInv, NEW q \in Queues, SleepOn(q), q \notin broken
    PROVE  Listed(waitQ'[q], tp)
<1>1. /\ tp \in Threads /\ tp # None
      /\ waitQ \in [Queues -> Seq(Threads)] /\ waitQ[q] \in Seq(Threads) /\ IsInjective(waitQ[q])
  BY CallerIsThread, ThreadAssumption DEF SleepOn, IInv, TypeOK, QueueDiscipline, SleepersListed
<1>2. ~Listed(waitQ[q], tp) /\ waitQ'[q] = Append(waitQ[q], tp)
  BY <1>1, RunnerListed DEF SleepOn, PushWaiter, PushBack
<1> QED
  BY <1>1, <1>2, AppendListed

(* Falling asleep is joining the list, and leaving it asleep being dropped. *)
LEMMA SleepersFoundStep ==
    ASSUME IInv, SyncTypeOK, SleepersFound, [HistNext]_histVars
    PROVE  SleepersFound'
<1>1. CASE UNCHANGED histVars
  BY <1>1 DEF histVars, syncVars, schedVars, SleepersFound
<1>2. CASE HistNext
  <2>1. /\ [SyncNext]_syncVars /\ dropped' = dropped \cup Dropped
        /\ MutexQ \in Queues /\ SignalQ \in Queues /\ MutexQ # SignalQ
    BY <1>2, SyncAssumption DEF HistNext
  <2>2. broken' \subseteq {MutexQ}
    BY <2>1, BrokenStep DEF SleepersFound
  <2>3. ASSUME NEW t \in Threads, state'[t] = "Sleeping"
        PROVE  /\ pc'[t] = "lock" => Listed(waitQ'[MutexQ], t) \/ t \in dropped'
               /\ pc'[t] = "mount" => Listed(waitQ'[SignalQ], t)
    <3>1. CASE state[t] = "Sleeping"
      <4>1. t # tp
        BY <3>1, RunnerListed, ThreadAssumption
      <4>2. pc'[t] = pc[t]
        BY <2>1, <4>1, PlacesStay
      <4> QED
        BY <2>1, <2>3, <3>1, <4>2, SignalWaiterStays DEF SleepersFound, Dropped
    <3>2. CASE state[t] # "Sleeping"
      <4>1. /\ t = tp /\ Calls
            /\ LockSleep \/ FsSleep \/ (EventSleep /\ SleepOn(EventQ))
        BY <2>1, <2>3, <3>2, FallsAsleepIn
      <4>2. CASE LockSleep
        <5>1. SleepOn(MutexQ) /\ pc[t] = "sleep" /\ pc'[t] = "lock"
          BY <4>1, <4>2 DEF LockSleep, At, Goto, SyncTypeOK
        <5> QED
          BY <2>1, <2>3, <4>1, <5>1, SleeperJoins DEF Dropped
      <4>3. CASE FsSleep
        <5>1. SleepOn(SignalQ) /\ pc'[t] = "mount" /\ SignalQ \notin broken
          BY <2>1, <4>1, <4>3 DEF FsSleep, Goto, SyncTypeOK, SleepersFound
        <5> QED
          BY <2>1, <4>1, <5>1, SleeperJoins
      <4>4. CASE EventSleep
        BY <4>1, <4>4 DEF EventSleep, Goto, SyncTypeOK
      <4> QED
        BY <4>1, <4>2, <4>3, <4>4
    <3> QED
      BY <3>1, <3>2
  <2> QED
    BY <2>2, <2>3 DEF SleepersFound
<1> QED
  BY <1>1, <1>2

(* Whoever unlocks wakes the first waiter, whoever finds the mutex free and *)
(* has not locked it yet is Ready to, and nobody falls asleep on a free one.*)
LEMMA LockHeardStep ==
    ASSUME IInv, SyncTypeOK, TestsHold, WaitersLoop, SleepersFound, SleepersFound', LockHeard,
           [HistNext]_histVars
    PROVE  LockHeard'
<1> SUFFICES ASSUME NEW t \in Threads, t \notin outrun', t \notin dropped', ~locked',
                    state'[t] = "Sleeping", pc'[t] = "lock"
             PROVE  \E u \in Threads : pc'[u] \in {"lock", "claim"} /\ state'[u] = "Ready"
  BY DEF LockHeard
<1>1. MutexQ \in Queues /\ MutexQ # EventQ /\ MutexQ # SignalQ
  BY SyncAssumption
<1>2. /\ t \notin outrun /\ t \notin dropped /\ Listed(waitQ'[MutexQ], t)
      /\ [SyncNext]_syncVars /\ [Next]_schedVars /\ pc \in [Threads -> Places]
  <2>1. t \notin outrun /\ t \notin dropped /\ [SyncNext]_syncVars
    <3>1. CASE HistNext
      BY <3>1 DEF HistNext, Outrun
    <3>2. CASE UNCHANGED histVars
      BY <3>2 DEF histVars
    <3> QED
      BY <3>1, <3>2
  <2>2. Listed(waitQ'[MutexQ], t)
    BY DEF SleepersFound
  <2> QED
    BY <2>1, <2>2, SyncStepIsSchedulerStep DEF SyncTypeOK
<1>3. Listed(waitQ[MutexQ], t)
  <2> SUFFICES ASSUME ~Listed(waitQ[MutexQ], t) PROVE FALSE
    OBVIOUS
  <2>1. t = tp /\ LockSleep
    BY <1>1, <1>2, NewWaiter
  <2> QED
    BY <1>2, <2>1 DEF LockSleep, At, TestsHold, objVars
<1>s. state[t] = "Sleeping" /\ pc[t] = "lock"
  BY <1>1, <1>3 DEF WaitersLoop, IInv, QueueDiscipline, SleepersListed
<1>4. CASE locked
  <2>1. Unlock
    BY <1>2, <1>4 DEF SyncNext, MutexCall, LockTest, LockSleep, LockClaim, TryLock, EventCall,
             EventWait, EventSleep, EventSet, EventWake, EventClear, HandlerSet, FsCall, FsTest,
             FsSleep, FsMount, FsMounted, FsSignal, Background, Idles, syncVars, objVars
  <2>2. waitQ[MutexQ] # <<>>
    BY <1>3, EmptyListed
  <2>3. PICK u \in Threads : u = Head(waitQ[MutexQ])
    BY <1>1, <2>2, WaiterListed
  <2>4. Listed(waitQ[MutexQ], u)
    <3>1. waitQ[MutexQ] \in Seq(Threads)
      BY <1>1 DEF IInv, TypeOK
    <3> QED
      BY <2>2, <2>3, <3>1 DEF Listed
  <2>5. Schedule(u) /\ UNCHANGED pc
    BY <2>1, <2>2, <2>3 DEF Unlock, WakeOneThread
  <2> QED
    BY <2>4, <2>5 DEF Schedule, WaitersLoop, IInv, TypeOK
<1>5. CASE ~locked
  <2>1. PICK u \in Threads : pc[u] \in {"lock", "claim"} /\ state[u] = "Ready"
    BY <1>2, <1>5, <1>s DEF LockHeard
  <2>2. CASE u # tp
    BY <1>2, <2>1, <2>2, PlacesStay, ReadyStays
  <2>3. CASE u = tp
    <3>1. state'[u] = "Ready"
      BY <1>2, <2>1, <2>3, GivesUpWhere, ReadyStays
    <3>2. ~LockClaim
      BY DEF LockClaim
    <3>3. CASE LockTest
      BY <1>2, <1>5, <2>1, <2>3, <3>1, <3>3 DEF LockTest, Goto
    <3>4. CASE ~LockTest
      <4>1. UNCHANGED pc
        BY <1>2, <2>1, <2>3, <3>2, <3>4
           DEF SyncNext, MutexCall, LockSleep, TryLock, Unlock, EventCall, EventWait, EventSleep,
               EventSet, EventWake, EventClear, HandlerSet, FsCall, FsTest, FsSleep, FsMount,
               FsMounted, FsSignal, Background, Idles, syncVars, objVars, At
      <4> QED
        BY <2>1, <3>1, <4>1
    <3> QED
      BY <3>3, <3>4
  <2> QED
    BY <2>2, <2>3
<1> QED
  BY <1>4, <1>5

(* wakeAllThreads goes on until its queue is empty. *)
LEMMA WakingStays ==
    ASSUME IInv, [Next]_schedVars, NEW q \in Queues, waking = q, NEW t, Listed(waitQ[q], t)
    PROVE  waking' = q
<1>1. q # None /\ waitQ[q] # <<>>
  BY EmptyListed, ThreadAssumption
<1>2. ~WakeDone /\ ~(\E r \in Queues : WakeAllThreads(r))
  BY <1>1 DEF WakeDone, WakeAllThreads, Calls, InThread, InHandler
<1> QED
  BY <1>2 DEF Next, CoreNext, Boot, CreateIdle, CreateStartup, InitIrq, RunStartup, Create,
         BeginCreate, ReadFree, AllocThread, PoolFails, PushThread, GiveUp, StopThread, SleepOn,
         WakeAll, WakeFront, WakeOneThread, DisableIrq, EnableIrq, IrqEnter, IrqReturn, Halted, wakeVars, schedVars

(* Whoever mounts fs goes on to signal it, and the startup thread does not  *)
(* fall asleep once it is mounted.                                          *)
LEMMA MountHeardStep ==
    ASSUME IInv, SyncTypeOK, TestsHold, SleepersFound, SleepersFound', MountHeard,
           [HistNext]_histVars
    PROVE  MountHeard'
<1> SUFFICES ASSUME NEW t \in Threads, t \notin outrun', fs', state'[t] = "Sleeping",
                    pc'[t] = "mount"
             PROVE  waking' = SignalQ \/ \E c \in Threads : pc'[c] = "announce"
  BY DEF MountHeard
<1>1. SignalQ \in Queues /\ SignalQ # EventQ /\ SignalQ # MutexQ
  BY SyncAssumption
<1>2. /\ t \notin outrun /\ Listed(waitQ'[SignalQ], t)
      /\ [SyncNext]_syncVars /\ [Next]_schedVars /\ pc \in [Threads -> Places]
  <2>1. t \notin outrun /\ [SyncNext]_syncVars
    <3>1. CASE HistNext
      BY <3>1 DEF HistNext, Outrun
    <3>2. CASE UNCHANGED histVars
      BY <3>2 DEF histVars
    <3> QED
      BY <3>1, <3>2
  <2>2. Listed(waitQ'[SignalQ], t)
    BY DEF SleepersFound
  <2> QED
    BY <2>1, <2>2, SyncStepIsSchedulerStep DEF SyncTypeOK
<1>3. Listed(waitQ[SignalQ], t)
  <2> SUFFICES ASSUME ~Listed(waitQ[SignalQ], t) PROVE FALSE
    OBVIOUS
  <2>1. t = tp /\ FsSleep
    BY <1>1, <1>2, NewWaiter
  <2> QED
    BY <1>2, <2>1 DEF FsSleep, At, TestsHold, objVars
<1>s. state[t] = "Sleeping" /\ pc[t] = "mount"
  <2>1. state[t] = "Sleeping" /\ t # tp
    BY <1>1, <1>3, WaiterNotRunning DEF IInv, QueueDiscipline, SleepersListed
  <2> QED
    BY <1>2, <2>1, PlacesStay
<1>4. CASE ~fs
  <2>1. FsMounted
    BY <1>2, <1>4 DEF SyncNext, MutexCall, LockTest, LockSleep, LockClaim, TryLock, Unlock,
             EventCall, EventWait, EventSleep, EventSet, EventWake, EventClear, HandlerSet, FsCall,
             FsTest, FsSleep, FsMount, FsSignal, Background, Idles, syncVars, objVars
  <2> QED
    BY <1>2, <2>1, CallerIsThread DEF FsMounted, At, Goto
<1>5. CASE fs
  <2>1. CASE waking = SignalQ
    BY <1>1, <1>2, <1>3, <2>1, WakingStays
  <2>2. ASSUME NEW c \in Threads, pc[c] = "announce"
        PROVE  waking' = SignalQ \/ pc'[c] = "announce"
    <3>1. CASE c # tp
      BY <1>2, <2>2, <3>1, PlacesStay
    <3>2. CASE FsSignal
      BY <3>2 DEF FsSignal, WakeAllThreads
    <3>3. CASE c = tp /\ ~FsSignal
      <4>1. UNCHANGED pc
        BY <1>2, <2>2, <3>3
           DEF SyncNext, MutexCall, LockTest, LockSleep, LockClaim, TryLock, Unlock, EventCall,
               EventWait, EventSleep, EventSet, EventWake, EventClear, HandlerSet, FsCall, FsTest,
               FsSleep, FsMount, FsMounted, Background, Idles, syncVars, objVars, At
      <4> QED
        BY <2>2, <4>1
    <3> QED
      BY <3>1, <3>2, <3>3
  <2> QED
    BY <1>2, <1>5, <1>s, <2>1, <2>2 DEF MountHeard
<1> QED
  BY <1>4, <1>5

(* The invariant behind LockHeard and MountHeard. *)
HistIInv ==
    /\ SyncTypeOK
    /\ NothingUrgentYet
    /\ OthersOutrankIdle
    /\ IdleCallsNothing
    /\ Resumable
    /\ TestsHold
    /\ WaitersLoop
    /\ SleepersFound
    /\ LockHeard
    /\ MountHeard

(* Before the first call nobody waits and nothing is between two steps. *)
LEMMA InitHistIInv == HistInit => HistIInv
<1> SUFFICES ASSUME HistInit PROVE HistIInv
  OBVIOUS
<1>1. SyncTypeOK /\ NothingUrgentYet /\ Init
  BY InitSyncIInv, InitNothingUrgent DEF HistInit, SyncInit, SyncIInv
<1>2. OthersOutrankIdle
  BY <1>1 DEF Init, OthersOutrankIdle
<1>3. \A t \in Threads : pc[t] = "free"
  BY DEF HistInit, SyncInit
<1>4. MutexQ \in Queues /\ SignalQ \in Queues /\ Idle \in Threads
  BY SyncAssumption, ThreadAssumption
<1>5. \A t : ~Listed(waitQ[MutexQ], t) /\ ~Listed(waitQ[SignalQ], t)
  BY <1>1, <1>4, EmptyListed DEF Init
<1>6. \A t \in Threads : state[t] = "Dead" /\ broken = {}
  BY <1>1 DEF Init
<1> QED
  BY <1>1, <1>2, <1>3, <1>4, <1>5, <1>6
     DEF HistIInv, IdleCallsNothing, Resumable, TestsHold, WaitersLoop, SleepersFound, LockHeard,
         MountHeard

(* It is inductive on top of the scheduler's. *)
LEMMA HistIInvStep == IInv /\ HistIInv /\ [HistNext]_histVars => HistIInv'
<1> SUFFICES ASSUME IInv, HistIInv, [HistNext]_histVars PROVE HistIInv'
  OBVIOUS
<1> USE DEF HistIInv
<1>1. [SyncNext]_syncVars
  BY DEF HistNext, histVars
<1>2. [Next]_schedVars
  BY <1>1, SyncStepIsSchedulerStep
<1>3. SyncTypeOK'
  BY <1>1, SyncTypesStep
<1>4. NothingUrgentYet' /\ OthersOutrankIdle'
  BY <1>2, NothingUrgentStep, OthersOutrankStep
<1>5. IdleCallsNothing'
  <2>1. Idle \in Threads /\ (Idle # tp \/ ~Calls)
    BY ThreadAssumption DEF Calls
  <2> QED
    BY <1>1, <2>1, PlacesStay DEF IdleCallsNothing
<1>6. Resumable' /\ WaitersLoop'
  BY <1>1, ResumableStep, WaitersLoopStep
<1>7. TestsHold' /\ SleepersFound'
  BY TestsHoldStep, SleepersFoundStep
<1>8. LockHeard' /\ MountHeard'
  BY <1>7, LockHeardStep, MountHeardStep
<1> QED
  BY <1>3, <1>4, <1>5, <1>6, <1>7, <1>8

(* For any number of threads of any priorities. *)
THEOREM HistSafety == HistSpec => []HistIInv
<1>1. HistSpec => SyncSpec
  <2>1. HistInit => SyncInit
    BY DEF HistInit
  <2>2. [HistNext]_histVars => [SyncNext]_syncVars
    BY DEF HistNext, histVars
  <2> QED
    BY <2>1, <2>2, PTL DEF HistSpec, SyncSpec
<1>2. HistSpec => []IInv
  BY <1>1, UsesScheduler, Safety, PTL
<1> QED
  BY <1>2, InitHistIInv, HistIInvStep, PTL DEF HistSpec

(* Who sleeps in Mutex::lock while the mutex is free sees another thread    *)
(* Ready to lock it, though lock tests _locked with interrupts enabled;     *)
(* except who was outrun by a high-priority thread, or dropped by           *)
(* wakeOneThread.                                                           *)
THEOREM NoUnlockMissed == HistSpec => []LockHeard
<1>1. HistIInv => LockHeard
  BY DEF HistIInv
<1> QED
  BY <1>1, HistSafety, PTL

(* The startup thread, wherever it sleeps in its wait for a file system,    *)
(* does not sleep through the mounting of one, unless it was outrun.        *)
THEOREM NoMountMissed == HistSpec => []MountHeard
<1>1. HistIInv => MountHeard
  BY DEF HistIInv
<1> QED
  BY <1>1, HistSafety, PTL


=============================================================================
