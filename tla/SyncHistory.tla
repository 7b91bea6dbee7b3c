---------------------------- MODULE SyncHistory ----------------------------
(***************************************************************************)
(* Sync with what the two ways of losing a wakeup leave behind, thread by   *)
(* thread: to be outrun between a test and a sleep, and to fall off the     *)
(* list of the mutex.  The first takes a high-priority thread; those of the *)
(* repository all have the normal priority.                                 *)
(***************************************************************************)
EXTENDS Sync

VARIABLES
    outrun,     \* whose test a high-priority thread has made untrue
    dropped     \* whom wakeOneThread has dropped

histVars == <<syncVars, outrun, dropped>>

HistInit == SyncInit /\ outrun = {} /\ dropped = {}

(* A high-priority thread unlocks, or mounts, what t has found locked, or   *)
(* not mounted, and t has not gone to sleep yet.                            *)
Outruns(t) ==
    /\ \/ pc[t] = "sleep" /\ locked /\ ~locked'
       \/ pc[t] = "unmounted" /\ ~fs /\ fs'
    /\ t # tp /\ prio[tp] = High

(* It matters until t has slept. *)
Outrun ==
    {t \in Threads :
        /\ t \in outrun \/ Outruns(t)
        /\ pc'[t] \in {"sleep", "unmounted"} \/ state'[t] = "Sleeping"}

(* The second pop of wakeOneThread takes off the list who is not woken, and *)
(* may leave a list on which nobody is found who goes to sleep later.       *)
Dropped ==
    {t \in Threads :
        \/ /\ Listed(waitQ[MutexQ], t) /\ ~Listed(waitQ'[MutexQ], t)
           /\ state'[t] = "Sleeping"
        \/ MutexQ \in broken /\ pc[t] = "sleep" /\ state'[t] = "Sleeping"}

HistNext ==
    /\ SyncNext
    /\ outrun' = Outrun
    /\ dropped' = dropped \cup Dropped

HistSpec == HistInit /\ [][HistNext]_histVars

(* A thread does not sleep in Mutex::lock while the mutex is free and no    *)
(* one is about to lock it, on the list or off it, but for two reasons: a   *)
(* high-priority thread unlocked between its test and its sleep             *)
(* (mutex.cpp:10), or wakeOneThread dropped it (saros.cpp:39).              *)
LockHeard ==
    \A t \in Threads : ~locked /\ state[t] = "Sleeping" /\ pc[t] = "lock" =>
        \/ \E u \in Threads : pc[u] \in {"lock", "claim"} /\ state[u] = "Ready"
        \/ t \in outrun \cup dropped

(* The startup thread does not sleep through the mounting of fs, which a    *)
(* Signal does not remember (main.cpp:74, signal.h:15), unless it was       *)
(* outrun.                                                                  *)
MountHeard ==
    \A t \in Threads : fs /\ state[t] = "Sleeping" /\ pc[t] = "mount" =>
        \/ waking = SignalQ
        \/ \E c \in Threads : pc[c] = "announce"
        \/ t \in outrun

=============================================================================
