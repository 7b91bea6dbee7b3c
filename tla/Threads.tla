------------------------------ MODULE Threads ------------------------------
(***************************************************************************)
(* What the scheduler promises its threads, with no queue order, interrupt  *)
(* flag or stack in sight: a thread is awake, asleep on one queue, or does  *)
(* not exist; it falls asleep and ends only by its own doing, while it      *)
(* runs; it wakes only through the queue it sleeps on; and the hart goes to *)
(* one of the most urgent awake threads, never away from an awake thread    *)
(* except to a more urgent one.                                            *)
(***************************************************************************)
EXTENDS Integers

CONSTANTS Threads, Queues, None

VARIABLES
    awake,      \* the threads that can run
    asleep,     \* the threads asleep on each queue
    urgency,    \* 0 is the most urgent; 1 for a thread that does not exist
    runner      \* the thread that has the hart

vars == <<awake, asleep, urgency, runner>>

Exists == awake \cup UNION {asleep[q] : q \in Queues}

MostUrgent(S) == {t \in S : \A u \in S : urgency[t] <= urgency[u]}

Init ==
    /\ awake = {}
    /\ asleep = [q \in Queues |-> {}]
    /\ urgency = [t \in Threads |-> 1]
    /\ runner = None

Create(t, p) ==
    /\ t \notin Exists
    /\ awake' = awake \cup {t}
    /\ urgency' = [urgency EXCEPT ![t] = p]
    /\ UNCHANGED <<asleep, runner>>

(* The runner leaves the hart to one of the most urgent of the others. *)
HandOver == runner' \in MostUrgent(awake \ {runner})

Sleep(q) ==
    /\ runner \in awake
    /\ awake' = awake \ {runner}
    /\ asleep' = [asleep EXCEPT ![q] = @ \cup {runner}]
    /\ HandOver
    /\ UNCHANGED urgency

End ==
    /\ runner \in awake
    /\ awake' = awake \ {runner}
    /\ urgency' = [urgency EXCEPT ![runner] = 1]
    /\ HandOver
    /\ UNCHANGED asleep

Wake(q, t) ==
    /\ t \in asleep[q]
    /\ asleep' = [asleep EXCEPT ![q] = @ \ {t}]
    /\ awake' = awake \cup {t}
    /\ UNCHANGED <<urgency, runner>>

Preempt ==
    /\ runner' \in MostUrgent(awake)
    /\ runner # None => urgency[runner'] < urgency[runner]
    /\ UNCHANGED <<awake, asleep, urgency>>

Next ==
    \/ \E t \in Threads, p \in 0 .. 2 : Create(t, p)
    \/ \E q \in Queues : Sleep(q)
    \/ End
    \/ \E q \in Queues, t \in Threads : Wake(q, t)
    \/ Preempt

Spec == Init /\ [][Next]_vars

=============================================================================
