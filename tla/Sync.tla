-------------------------------- MODULE Sync --------------------------------
(***************************************************************************)
(* saros/include/saros/sync and saros/saros/mutex.cpp on top of the         *)
(* scheduler: an Event, a Mutex, and the Signal fsChanged with the flag fs  *)
(* it announces (main.cpp waits for it, the SD thread raises it).  Every    *)
(* step of a call is a step of the scheduler or leaves it alone; between    *)
(* two steps of one call interrupts may be enabled, so a handler or a more  *)
(* urgent thread may come in between.                                       *)
(***************************************************************************)
EXTENDS Scheduler

CONSTANTS
    EventQ,             \* Event::_threadQueue
    MutexQ,             \* Mutex::_threadQueue
    SignalQ,            \* the _threadQueue of fsChanged
    ThreadPriorities    \* the priorities threads are created with

ASSUME SyncAssumption ==
    /\ Queues = {EventQ, MutexQ, SignalQ}
    /\ EventQ # MutexQ /\ MutexQ # SignalQ /\ SignalQ # EventQ
    /\ ThreadPriorities \subseteq {High, Normal}

VARIABLES
    active,     \* Event::_active
    locked,     \* Mutex::_locked
    fs,         \* whether fs holds a file system
    pc,         \* where in which call each thread is
    owns        \* the thread has locked the mutex and not unlocked it

objVars == <<active, locked, fs>>
syncVars == <<schedVars, objVars, pc, owns>>

(* "lock" is the top of Mutex::lock's loop, "sleep" and "claim" its two     *)
(* branches; "wait" is past the first test of Event::wait; "wake" is        *)
(* between the two statements of Event::set; "mount" and "unmounted" are    *)
(* the loop of start_8bit, "mounting" is in fs.emplace and "announce"       *)
(* before fsChanged.signal().                                               *)
Places == {"free", "lock", "sleep", "claim", "wait", "wake",
           "mount", "unmounted", "mounting", "announce"}

SyncTypeOK ==
    /\ active \in BOOLEAN
    /\ locked \in BOOLEAN
    /\ fs \in BOOLEAN
    /\ pc \in [Threads -> Places]
    /\ owns \in [Threads -> BOOLEAN]

SyncInit ==
    /\ Init
    /\ active = FALSE
    /\ locked = FALSE
    /\ fs = FALSE
    /\ pc = [t \in Threads |-> "free"]
    /\ owns = [t \in Threads |-> FALSE]

At(place) == Calls /\ pc[tp] = place

Goto(place) == pc' = [pc EXCEPT ![tp] = place]

Idles == UNCHANGED <<objVars, pc, owns>>

-----------------------------------------------------------------------------
(* Mutex.                                                                   *)

(* _locked is read with interrupts enabled. *)
LockTest ==
    /\ At("free") \/ At("lock")
    /\ ~owns[tp]
    /\ Goto(IF locked THEN "sleep" ELSE "claim")
    /\ UNCHANGED <<schedVars, objVars, owns>>

LockSleep ==
    /\ At("sleep")
    /\ SleepOn(MutexQ)
    /\ Goto("lock")
    /\ UNCHANGED <<objVars, owns>>

(* Mutation: the second test, under the SpinLock, forgotten. *)
LockClaimBlindly ==
    /\ At("claim")
    /\ locked' = TRUE
    /\ owns' = [owns EXCEPT ![tp] = TRUE]
    /\ Goto("free")
    /\ UNCHANGED <<schedVars, active, fs>>

LockClaim ==
    /\ At("claim")
    /\ locked' = TRUE
    /\ owns' = [owns EXCEPT ![tp] = ~locked]
    /\ Goto(IF locked THEN "lock" ELSE "free")
    /\ UNCHANGED <<schedVars, active, fs>>

TryLock ==
    /\ At("free")
    /\ locked' = TRUE
    /\ owns' = [owns EXCEPT ![tp] = @ \/ ~locked]
    /\ UNCHANGED <<schedVars, active, fs, pc>>

(* Mutation: nobody is woken. *)
UnlockQuietly ==
    /\ At("free")
    /\ owns[tp]
    /\ locked' = FALSE
    /\ owns' = [owns EXCEPT ![tp] = FALSE]
    /\ UNCHANGED <<schedVars, active, fs, pc>>

Unlock ==
    /\ At("free")
    /\ owns[tp]
    /\ locked' = FALSE
    /\ owns' = [owns EXCEPT ![tp] = FALSE]
    /\ WakeOneThread(MutexQ) \/ (waitQ[MutexQ] = <<>> /\ UNCHANGED schedVars)
    /\ UNCHANGED <<active, fs, pc>>

-----------------------------------------------------------------------------
(* Event.                                                                   *)

EventWait ==
    /\ At("free")
    /\ ~active
    /\ Goto("wait")
    /\ UNCHANGED <<schedVars, objVars, owns>>

(* Mutation: the second test forgotten. *)
EventSleepBlindly ==
    /\ At("wait")
    /\ SleepOn(EventQ)
    /\ Goto("free")
    /\ UNCHANGED <<objVars, owns>>

(* From the second test on interrupts are off. *)
EventSleep ==
    /\ At("wait")
    /\ (active /\ UNCHANGED schedVars) \/ (~active /\ SleepOn(EventQ))
    /\ Goto("free")
    /\ UNCHANGED <<objVars, owns>>

EventSet ==
    /\ At("free")
    /\ active' = TRUE
    /\ Goto("wake")
    /\ UNCHANGED <<schedVars, locked, fs, owns>>

EventWake ==
    /\ At("wake")
    /\ WakeAllThreads(EventQ)
    /\ Goto("free")
    /\ UNCHANGED <<objVars, owns>>

EventClear ==
    /\ At("free")
    /\ active' = FALSE
    /\ UNCHANGED <<schedVars, locked, fs, pc, owns>>

(* An interrupt handler sets the event. *)
HandlerSet ==
    /\ InHandler
    /\ WakeAllThreads(EventQ)
    /\ active' = TRUE
    /\ UNCHANGED <<locked, fs, pc, owns>>

-----------------------------------------------------------------------------
(* The startup thread waits for a file system; another thread, the SD       *)
(* card's, mounts one and signals.                                          *)

FsTest ==
    /\ tp = Startup
    /\ At("free") \/ At("mount")
    /\ Goto(IF fs THEN "free" ELSE "unmounted")
    /\ UNCHANGED <<schedVars, objVars, owns>>

FsSleep ==
    /\ At("unmounted")
    /\ SleepOn(SignalQ)
    /\ Goto("mount")
    /\ UNCHANGED <<objVars, owns>>

(* Only one thread mounts, the SD card's, and only while there is no fs. *)
FsMount ==
    /\ tp # Startup
    /\ At("free")
    /\ ~fs
    /\ \A c \in Threads : pc[c] \notin {"mounting", "announce"}
    /\ Goto("mounting")
    /\ UNCHANGED <<schedVars, objVars, owns>>

(* What is not a FAT32 file system after all is dropped again. *)
FsMounted ==
    /\ At("mounting")
    /\ fs' \in BOOLEAN
    /\ Goto(IF fs' THEN "announce" ELSE "free")
    /\ UNCHANGED <<schedVars, active, locked, owns>>

(* Mutation: the signal forgotten. *)
FsQuiet == At("announce") /\ Goto("free") /\ UNCHANGED <<schedVars, objVars, owns>>

FsSignal ==
    /\ At("announce")
    /\ WakeAllThreads(SignalQ)
    /\ Goto("free")
    /\ UNCHANGED <<objVars, owns>>

-----------------------------------------------------------------------------
(* Creating, stopping and interrupting threads, as in Scheduler.  A thread  *)
(* creates and stops outside its calls, and stops without the mutex.        *)

Background ==
    /\ \/ Boot \/ PushThread \/ WakeFront \/ WakeDone \/ IrqEnter \/ IrqReturn \/ Halted
       \/ \E p \in ThreadPriorities : AllocThread(p)
       \/ /\ At("free")
          /\ \/ BeginCreate
             \/ AllocFails
             \/ StopThread /\ ~owns[tp]
             \/ DisableIrq
             \/ EnableIrq
    /\ Idles

MutexCall == LockTest \/ LockSleep \/ LockClaim \/ TryLock \/ Unlock

EventCall == EventWait \/ EventSleep \/ EventSet \/ EventWake \/ EventClear \/ HandlerSet

FsCall == FsTest \/ FsSleep \/ FsMount \/ FsMounted \/ FsSignal

SyncNext == MutexCall \/ EventCall \/ FsCall \/ Background

SyncSpec == SyncInit /\ [][SyncNext]_syncVars

-----------------------------------------------------------------------------
(* Safety.                                                                  *)

(* One thread at most owns the mutex, and only a locked one. *)
MutualExclusion ==
    \A t \in Threads : owns[t] => locked /\ \A u \in Threads : owns[u] => u = t

(* Nobody sleeps through an Event: while one is set, a thread asleep on it  *)
(* is about to be woken by whoever set it.                                  *)
EventHeard ==
    \A t \in Threads : active /\ Listed(waitQ[EventQ], t) =>
        waking = EventQ \/ \E c \in Threads : pc[c] = "wake"

(* Nobody sleeps on a free mutex unless another thread is on its way to     *)
(* lock it, and so to unlock it: the promise of the loop in Mutex::lock,    *)
(* which allows for a preemption between its test and its action            *)
(* (mutex.cpp:17).                                                          *)
MutexHeard ==
    \A t \in Threads : ~locked /\ Listed(waitQ[MutexQ], t) =>
        \E u \in Threads : pc[u] \in {"lock", "claim"} /\ state[u] = "Ready"

(* The invariant behind MutualExclusion and EventHeard. *)
SyncIInv == SyncTypeOK /\ MutualExclusion /\ EventHeard

=============================================================================
