------------------------------- MODULE Timers -------------------------------
(***************************************************************************)
(* saros/kernel/timer.cpp, Saros::sleep_ns and the compare register of      *)
(* timer_int_ctrl.sv, on top of the scheduler.  Each slot of the pool of    *)
(* timers holds one TimerEvent; Queues are the wait queues of their Events, *)
(* so a slot is identified by its queue.                                    *)
(*                                                                         *)
(* A thread registers one timer at a time.  It clears its handle only when  *)
(* the timer has left the queue, for TimerHandle::clear does not unlink it, *)
(* and clears the event only of a timer that will fire again.               *)
(***************************************************************************)
EXTENDS Scheduler

CONSTANTS
    Horizon,            \* time stops here: the bound of the model
    Delays,             \* what threads ask sleep_ns for, in nanoseconds
    Repeats,            \* what they ask registerTimer for; 0 is no repeat
    ClockFreq,          \* get_clock_freq(), cycles a second
    NanoFactor,         \* nanoseconds a second
    Word,               \* 2^64, for products
    Never,              \* all ones, TIMER_INT_DISABLED64
    ThreadPriorities    \* the priorities threads are created with

ASSUME TimersAssumption ==
    /\ Horizon \in Nat
    /\ Delays \subseteq Nat
    /\ Repeats \subseteq Nat
    /\ ClockFreq \in Nat /\ NanoFactor \in Nat \ {0} /\ Word \in Nat \ {0}
    /\ Never \in Nat /\ Horizon < Never
    /\ None \notin 0 .. Horizon
    /\ \A r \in Repeats : Horizon + r < Never
    /\ ThreadPriorities \subseteq {High, Normal}

VARIABLES
    now,                \* cycles_counter
    compare,            \* interrupt_cycle
    timerQ,             \* timerQueue
    due, repeat,        \* TimerEvent::wakeupTime, repeatTime
    fired,              \* TimerEvent::wakeupEvent._active
    spare,              \* slots on the free list of timersAllocator
    handle,             \* the timer a thread's TimerHandle holds
    pc,                 \* where in which call each thread is
    asked,              \* history: a thread's last sleep_ns, what for and when
    serving             \* the time the timer handler has read, None outside it

eventVars == <<due, repeat, fired>>
timerVars == <<compare, timerQ, eventVars, spare>>
callVars == <<handle, pc, asked>>
timersVars == <<schedVars, now, timerVars, callVars, serving>>

(* "wait" is past the first test of Event::wait, "slept" is the return from *)
(* the wait of sleep_ns.                                                    *)
Places == {"free", "wait", "slept"}

Times == 0 .. Never

Queued(e) == Listed(timerQ, e)

TimersTypeOK ==
    /\ now \in 0 .. Horizon
    /\ compare \in Times
    /\ timerQ \in Seq(Queues)
    /\ due \in [Queues -> Times]
    /\ repeat \in [Queues -> Repeats \cup {0}]
    /\ fired \in [Queues -> BOOLEAN]
    /\ spare \subseteq Queues
    /\ handle \in [Threads -> Queues \cup {None}]
    /\ pc \in [Threads -> Places]
    /\ asked \in [Threads -> [ns : Delays \cup {0}, at : 0 .. Horizon]]
    /\ serving \in (0 .. Horizon) \cup {None}

TimersInit ==
    /\ Init
    /\ now = 0
    /\ compare = Never
    /\ timerQ = <<>>
    /\ due = [e \in Queues |-> 0]
    /\ repeat = [e \in Queues |-> 0]
    /\ fired = [e \in Queues |-> FALSE]
    /\ spare = Queues
    /\ handle = [t \in Threads |-> None]
    /\ pc = [t \in Threads |-> "free"]
    /\ asked = [t \in Threads |-> [ns |-> 0, at |-> 0]]
    /\ serving = None

-----------------------------------------------------------------------------
(* The queue and the compare register.                                      *)

(* Mutation (as in Scheduler, of the definition that follows): queued last. *)
PlacedLast(q, d, e) == Append(q, e)

(* placeTimerEvent: before the first event that is due later. *)
Placed(q, d, e) ==
    LET later == {i \in DOMAIN q : d[q[i]] > d[e]}
    IN IF later = {} THEN Append(q, e)
       ELSE InsertAt(q, CHOOSE i \in later : \A j \in later : i <= j, e)

(* registerTimer, which constructs the event in a free slot. *)
Register(e, trigger, r) ==
    /\ e \in spare
    /\ spare' = spare \ {e}
    /\ due' = [due EXCEPT ![e] = trigger]
    /\ repeat' = [repeat EXCEPT ![e] = r]
    /\ fired' = [fired EXCEPT ![e] = FALSE]
    /\ timerQ' = Placed(timerQ, due', e)
    /\ compare' = IF timerQ = <<>> \/ due[Head(timerQ)] > trigger THEN trigger ELSE compare
    /\ handle' = [handle EXCEPT ![tp] = e]

-----------------------------------------------------------------------------
(* Threads.                                                                 *)

At(place) == Calls /\ pc[tp] = place

Goto(place) == pc' = [pc EXCEPT ![tp] = place]

(* Mutation: the factors the other way round. *)
CyclesOfQuotient(ns) == ns * (ClockFreq \div NanoFactor)

(* registerTimerNs: a product of 64 bits, and a quotient rounded down. *)
Cycles(ns) == ((ns * ClockFreq) % Word) \div NanoFactor

(* sleep_ns runs with interrupts off from its first instruction until it    *)
(* is asleep; the event is a new one, so its wait sleeps.                   *)
SleepNs(ns) ==
    /\ At("free")
    /\ handle[tp] = None
    /\ now + Cycles(ns) <= Horizon
    /\ \E e \in Queues : Register(e, now + Cycles(ns), 0) /\ SleepOn(e)
    /\ Goto("slept")
    /\ asked' = [asked EXCEPT ![tp] = [ns |-> ns, at |-> now]]
    /\ UNCHANGED <<now, serving>>

(* registerTimer by itself, for any point in time. *)
RegisterTimer(trigger, r) ==
    /\ At("free")
    /\ handle[tp] = None
    /\ \E e \in Queues : Register(e, trigger, r)
    /\ UNCHANGED <<schedVars, now, pc, asked, serving>>

(* The pool of timers is empty. *)
RegisterFails ==
    /\ At("free")
    /\ handle[tp] = None
    /\ spare = {}
    /\ PoolFails
    /\ UNCHANGED <<now, timerVars, callVars, serving>>

(* event().wait() *)
WaitTest ==
    /\ At("free")
    /\ handle[tp] # None
    /\ ~fired[handle[tp]]
    /\ Goto("wait")
    /\ UNCHANGED <<schedVars, now, timerVars, handle, asked, serving>>

WaitSleep ==
    /\ At("wait")
    /\ IF fired[handle[tp]] THEN UNCHANGED schedVars ELSE SleepOn(handle[tp])
    /\ Goto("free")
    /\ UNCHANGED <<now, timerVars, handle, asked, serving>>

ClearEvent ==
    /\ At("free")
    /\ handle[tp] # None
    /\ Queued(handle[tp])
    /\ fired' = [fired EXCEPT ![handle[tp]] = FALSE]
    /\ UNCHANGED <<schedVars, now, compare, timerQ, due, repeat, spare, callVars, serving>>

(* TimerHandle::clear.  After sleep_ns it is the destructor that calls it.  *)
ClearHandle ==
    /\ \/ At("slept")
       \/ At("free") /\ handle[tp] # None /\ ~Queued(handle[tp])
    /\ spare' = spare \cup {handle[tp]}
    /\ handle' = [handle EXCEPT ![tp] = None]
    /\ Goto("free")
    /\ asked' = [asked EXCEPT ![tp] = [ns |-> 0, at |-> 0]]
    /\ UNCHANGED <<schedVars, now, compare, timerQ, eventVars, serving>>

-----------------------------------------------------------------------------
(* The interrupt.  The time is read once, on the way in.                    *)

TimerPending == now >= compare

TimerIrq ==
    /\ TimerPending
    /\ IrqEnter
    /\ serving' = now
    /\ UNCHANGED <<now, timerVars, callVars>>

Due(e) == due[e] <= serving

(* One turn of the loop of handleTimerInterrupt: Event::set, the rest of    *)
(* which are turns of wakeAllThreads, and the event's next time.            *)
FireFront ==
    /\ InHandler
    /\ serving # None
    /\ timerQ # <<>>
    /\ LET e == Head(timerQ) IN
         /\ Due(e)
         /\ WakeAllThreads(e)
         /\ fired' = [fired EXCEPT ![e] = TRUE]
         /\ due' = [due EXCEPT ![e] = @ + repeat[e]]
         /\ timerQ' = IF repeat[e] = 0 THEN Tail(timerQ) ELSE Placed(Tail(timerQ), due', e)
    /\ UNCHANGED <<now, compare, repeat, spare, callVars, serving>>

(* Mutation: the compare register is always reset. *)
HandlerResets ==
    /\ InHandler
    /\ serving # None
    /\ timerQ # <<>> => ~Due(Head(timerQ))
    /\ compare' = Never
    /\ serving' = None
    /\ UNCHANGED <<schedVars, now, timerQ, eventVars, spare, callVars>>

HandlerDone ==
    /\ InHandler
    /\ serving # None
    /\ timerQ # <<>> => ~Due(Head(timerQ))
    /\ compare' = IF timerQ = <<>> THEN Never ELSE due[Head(timerQ)]
    /\ serving' = None
    /\ UNCHANGED <<schedVars, now, timerQ, eventVars, spare, callVars>>

Tick ==
    /\ now < Horizon
    /\ panic = "none"
    /\ now' = now + 1
    /\ UNCHANGED <<schedVars, timerVars, callVars, serving>>

-----------------------------------------------------------------------------
(* The scheduler's other steps.  A thread returns with no handle, and the   *)
(* handler returns when it is done.  Outside these calls threads leave      *)
(* interrupts enabled.                                                      *)

TimersIdle == UNCHANGED <<now, timerVars, callVars, serving>>

Return == IrqReturn /\ serving = None

Background ==
    /\ \/ Boot \/ PushThread \/ WakeFront \/ WakeDone \/ IrqEnter \/ Return \/ Halted
       \/ \E p \in ThreadPriorities : AllocThread(p)
       \/ /\ At("free")
          /\ \/ BeginCreate
             \/ AllocFails
             \/ StopThread /\ handle[tp] = None
    /\ TimersIdle

Call ==
    \/ \E ns \in Delays : SleepNs(ns)
    \/ \E trigger \in 0 .. Horizon, r \in Repeats : RegisterTimer(trigger, r)
    \/ RegisterFails
    \/ WaitTest \/ WaitSleep
    \/ ClearEvent \/ ClearHandle

TimersNext == Call \/ TimerIrq \/ FireFront \/ HandlerDone \/ Tick \/ Background

TimersSpec == TimersInit /\ [][TimersNext]_timersVars

(* Time goes on, the handler is straight-line code, and the hart takes a    *)
(* timer interrupt that stays pending while interrupts are enabled again    *)
(* and again.                                                               *)
TimersFairness ==
    /\ WF_timersVars(Tick)
    /\ WF_timersVars(Boot /\ TimersIdle)
    /\ WF_timersVars(FireFront \/ HandlerDone \/ ((WakeFront \/ WakeDone) /\ TimersIdle))
    /\ SF_timersVars(TimerIrq)
    /\ SF_timersVars(Return /\ TimersIdle)

TimersLiveSpec == TimersSpec /\ TimersFairness

-----------------------------------------------------------------------------
(* Safety.                                                                  *)

(* The queue is ordered and holds a timer once. *)
QueueOrdered ==
    /\ \A i, j \in DOMAIN timerQ : i < j => due[timerQ[i]] <= due[timerQ[j]]
    /\ IsInjective(timerQ)

(* A slot is on the free list or in the hands of one thread.  Only the      *)
(* latter can be queued, and only its holder waits for it: what             *)
(* registerTimer constructs anew is in nobody's use.                        *)
SlotsApart ==
    \A e \in Queues :
        /\ e \in spare <=> \A t \in Threads : handle[t] # e
        /\ \A t, u \in Threads : handle[t] = e /\ handle[u] = e => t = u
        /\ Queued(e) => e \notin spare
        /\ \A t \in Threads : Listed(waitQ[e], t) => handle[t] = e

(* Outside the handler the compare register holds the time of the first     *)
(* timer, and none if there is none: registerTimer sets it only for a       *)
(* timer that comes first.                                                  *)
Armed ==
    serving = None => compare = IF timerQ = <<>> THEN Never ELSE due[Head(timerQ)]

(* A thread asleep on a timer waits for something that is still to come.    *)
NobodyForgotten ==
    /\ \A e \in Queues : e \in spare \/ fired[e] \/ Queued(e)
    /\ \A e \in Queues, t \in Threads : Listed(waitQ[e], t) => Queued(e) \/ waking = e

(* The handler wakes a timer that is due, and that it has taken off the     *)
(* queue unless it repeats.                                                 *)
HandlerShape ==
    /\ serving # None => mode = "irq" /\ serving <= now
    /\ waking # None => serving # None
    /\ waking # None /\ repeat[waking] = 0 => ~Queued(waking) /\ due[waking] <= now

(* Whoever returns from sleep_ns holds a timer that is no longer queued.    *)
CallShape ==
    \A t \in Threads :
        /\ state[t] = "Dead" => pc[t] = "free" /\ handle[t] = None
        /\ pc[t] # "free" => handle[t] # None
        /\ pc[t] = "slept" => /\ repeat[handle[t]] = 0
                              /\ state[t] = "Sleeping" \/ ~Queued(handle[t])

(* The timer of a thread in sleep_ns is due when what it has asked for is   *)
(* over, rounded down to a cycle, unless the product was too large.         *)
DueAsAsked ==
    \A t \in Threads : pc[t] = "slept" /\ asked[t].ns * ClockFreq < Word =>
        (due[handle[t]] - asked[t].at + 1) * NanoFactor > asked[t].ns * ClockFreq

(* Everything above at once; each part is preserved because the others hold *)
(* and because the scheduler keeps its own invariant.                       *)
TimersIInv ==
    /\ TimersTypeOK
    /\ QueueOrdered
    /\ SlotsApart
    /\ Armed
    /\ NobodyForgotten
    /\ HandlerShape
    /\ CallShape
    /\ DueAsAsked

(* Nobody wakes from sleep_ns a cycle or more before the nanoseconds asked  *)
(* for are over, as long as their product with the frequency has 64 bits    *)
(* (timer.cpp:87; beyond that it wraps, and the sleep is too short).        *)
NotEarly ==
    [][\A t \in Threads :
         pc[t] = "slept" /\ state[t] = "Sleeping" /\ state'[t] = "Ready"
         /\ asked[t].ns * ClockFreq < Word =>
            (now - asked[t].at + 1) * NanoFactor > asked[t].ns * ClockFreq]_timersVars

-----------------------------------------------------------------------------
(* Liveness.                                                                *)

(* Everybody wakes from sleep_ns. *)
SleepersWake ==
    \A t \in Threads : pc[t] = "slept" /\ state[t] = "Sleeping"
                         ~> state[t] = "Ready" \/ panic # "none"

=============================================================================
