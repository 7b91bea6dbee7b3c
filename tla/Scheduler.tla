----------------------------- MODULE Scheduler -----------------------------
(***************************************************************************)
(* The SAROS kernel scheduler: saros/kernel/{scheduler,thread,thread_queue} *)
(* context.s, and the scheduling half of saros.cpp, on one VexRiscv hart.   *)
(*                                                                         *)
(* A thread control block lives at the top of the stack slot it is given,   *)
(* so a thread is identified by its slot.  The running thread is not taken  *)
(* off its ready queue: it stays at the front until it sleeps or stops.     *)
(* A step ends where an interrupt can be taken; only the loop of            *)
(* wakeAllThreads, which runs with interrupts off, is one step per turn.    *)
(***************************************************************************)
EXTENDS Integers, SequencesExt

CONSTANTS
    Threads,    \* the stack slots of __thread_stacks_start .. _end
    Queues,     \* the wait queues: one in every Event, Signal and Mutex
    Idle,       \* the slot of the idle thread, the first one allocated
    Startup,    \* the slot of the startup thread, the second one
    None        \* no thread (tp = 0), no queue

ASSUME ThreadAssumption ==
    /\ {Idle, Startup} \subseteq Threads
    /\ Idle # Startup
    /\ None \notin Threads \cup Queues

VARIABLES
    readyQ,     \* Scheduler::_readyThreads
    waitQ,      \* the list of each wait queue
    broken,     \* the wait queues whose list header pop_front has cleared
    state,      \* Thread::_state
    prio,       \* Thread::_priority
    free,       \* slots on the stack allocator's free list
    taking,     \* the slot a creator has found at the front of that list
    behind,     \* the list behind that slot, as the creator found it
    making,     \* the thread a creator has constructed and not queued yet
    waking,     \* the queue wakeAllThreads is draining
    prevMie,    \* _prevIntState of the SpinLock wakeAllThreads holds
    tp,         \* register tp: the current thread
    mode,       \* what the hart executes
    mie, mpie,  \* mstatus.MIE and mstatus.MPIE
    running,    \* Saros::_running
    panic       \* why the kernel aborted

threadVars == <<state, prio, free, taking, behind, making>>
listVars == <<readyQ, waitQ, broken>>
wakeVars == <<waking, prevMie>>
cpuVars == <<tp, mode, mie, mpie>>
schedVars == <<readyQ, waitQ, broken, state, prio, free, taking, behind, making,
               waking, prevMie, tp, mode, mie, mpie, running, panic>>

-----------------------------------------------------------------------------
(* 0 is high, 1 is normal, and only the idle thread ever has 2. *)
Priorities == 0 .. 2
High == 0
Normal == 1
IdlePriority == 2

Modes == {"reset", "idle created", "startup created", "armed", "thread", "irq"}

Panics == {"none", "not ready", "already ready", "nothing ready", "pool empty"}

TypeOK ==
    /\ readyQ \in [Priorities -> Seq(Threads)]
    /\ waitQ \in [Queues -> Seq(Threads)]
    /\ broken \subseteq Queues
    /\ state \in [Threads -> {"Ready", "Sleeping", "Dead"}]
    /\ prio \in [Threads -> Priorities]
    /\ free \subseteq Threads
    /\ taking \in [Threads -> Threads \cup {None}]
    /\ behind \in [Threads -> SUBSET Threads]
    /\ making \in [Threads -> Threads \cup {None}]
    /\ waking \in Queues \cup {None}
    /\ prevMie \in BOOLEAN
    /\ tp \in Threads \cup {None}
    /\ mode \in Modes
    /\ mie \in BOOLEAN
    /\ mpie \in BOOLEAN
    /\ running \in BOOLEAN
    /\ panic \in Panics

Init ==
    /\ readyQ = [p \in Priorities |-> <<>>]
    /\ waitQ = [q \in Queues |-> <<>>]
    /\ broken = {}
    /\ state = [t \in Threads |-> "Dead"]
    /\ prio = [t \in Threads |-> Normal]
    /\ free = Threads
    /\ taking = [t \in Threads |-> None]
    /\ behind = [t \in Threads |-> {}]
    /\ making = [t \in Threads |-> None]
    /\ waking = None
    /\ prevMie = FALSE
    /\ tp = None
    /\ mode = "reset"
    /\ mie = FALSE
    /\ mpie = FALSE
    /\ running = FALSE
    /\ panic = "none"

-----------------------------------------------------------------------------
(* Intrusive lists.  A thread has one hook, so it is on one list at most,   *)
(* and unlinking it takes it off whichever list that is.                    *)

Unlink(s, t) ==
    IF \E i \in DOMAIN s : s[i] = t
    THEN RemoveAt(s, CHOOSE i \in DOMAIN s : s[i] = t)
    ELSE s

UnlinkAll(lists, t) == [l \in DOMAIN lists |-> Unlink(lists[l], t)]

(* A mutation (so are the definitions that say so below, each of the        *)
(* definition that follows it): a queue that is a stack.                    *)
PushFront(lists, l, t) == [lists EXCEPT ![l] = <<t>> \o @]

PushBack(lists, l, t) == [lists EXCEPT ![l] = Append(@, t)]

(* Once its header is cleared a list reports itself empty for ever: what is *)
(* pushed on it can be reached from nowhere.                                *)
PushWaiter(lists, q, t) == IF q \in broken THEN lists ELSE PushBack(lists, q, t)

-----------------------------------------------------------------------------
(* rescheduleImpl and switchIn.  A current thread that is Ready gives way   *)
(* only to the front of a queue of higher priority.                         *)

IsReady(st, current) == current # None /\ st[current] = "Ready"

Eligible(rq, st, current) ==
    {p \in Priorities : rq[p] # <<>> /\ (IsReady(st, current) => p < prio[current])}

(* Mutation: the least urgent queue first. *)
ChosenBackwards(rq, st, current) ==
    LET ps == Eligible(rq, st, current)
    IN IF ps # {} THEN Head(rq[CHOOSE p \in ps : \A r \in ps : r <= p])
       ELSE IF IsReady(st, current) THEN current ELSE None

Chosen(rq, st, current) ==
    LET ps == Eligible(rq, st, current)
    IN IF ps # {} THEN Head(rq[CHOOSE p \in ps : \A r \in ps : p <= r])
       ELSE IF IsReady(st, current) THEN current ELSE None

(* Mutation: a return that leaves MPIE alone. *)
SwitchInOnce(t) ==
    /\ tp' = t
    /\ mode' = "thread"
    /\ mie' = mpie
    /\ mpie' = mpie

(* switchIn ends in mret: MIE takes the value of MPIE, MPIE becomes 1       *)
(* (VexRiscv.v:3556), whatever scheduler.cpp:13 says of MPIE.               *)
SwitchIn(t) ==
    /\ tp' = t
    /\ mode' = "thread"
    /\ mie' = mpie
    /\ mpie' = TRUE

(* What an action leaves in panic: the first check that failed. *)
Check(ok, message) == IF ok THEN "none" ELSE message

(* rq and st are the ready queues and the states it finds. *)
Reschedule(rq, st, current, failed) ==
    LET t == Chosen(rq, st, current)
    IN /\ SwitchIn(t)
       /\ panic' = IF failed # "none" THEN failed ELSE Check(t # None, "nothing ready")

-----------------------------------------------------------------------------
(* The boot flow: Saros::init and Saros::run, on the boot stack, tp = 0.    *)

(* Scheduler::init: createThread pushes the idle thread on the normal queue *)
(* and init moves it to the queue of priority 2.                            *)
CreateIdle ==
    /\ mode = "reset"
    /\ mode' = "idle created"
    /\ free' = free \ {Idle}
    /\ state' = [state EXCEPT ![Idle] = "Ready"]
    /\ prio' = [prio EXCEPT ![Idle] = IdlePriority]
    /\ readyQ' = PushBack(UnlinkAll(PushBack(readyQ, Normal, Idle), Idle), IdlePriority, Idle)
    /\ UNCHANGED <<waitQ, broken, taking, behind, making, wakeVars, tp, mie, mpie, running, panic>>

CreateStartup ==
    /\ mode = "idle created"
    /\ mode' = "startup created"
    /\ free' = free \ {Startup}
    /\ state' = [state EXCEPT ![Startup] = "Ready"]
    /\ prio' = [prio EXCEPT ![Startup] = Normal]
    /\ readyQ' = PushBack(readyQ, Normal, Startup)
    /\ UNCHANGED <<waitQ, broken, taking, behind, making, wakeVars, tp, mie, mpie, running, panic>>

(* initIrq, then uartInit unmasks the UART's receive interrupt. *)
InitIrq ==
    /\ mode = "startup created"
    /\ mode' = "armed"
    /\ mie' = TRUE
    /\ UNCHANGED <<listVars, threadVars, wakeVars, tp, mpie, running, panic>>

RunStartup ==
    /\ mode = "armed"
    /\ running' = TRUE
    /\ SwitchIn(Startup)
    /\ UNCHANGED <<listVars, threadVars, wakeVars, panic>>

-----------------------------------------------------------------------------
(* What a thread may call.  The idle thread only waits for interrupts.      *)

InThread == panic = "none" /\ mode = "thread" /\ waking = None

Calls == InThread /\ tp # Idle /\ taking[tp] = None /\ making[tp] = None

(* createThread calls alloc before its SpinLock, so interrupts may still be *)
(* enabled: alloc reads _firstFree and the slot behind, and stores the      *)
(* latter in a later step.  The slots behind are then the list, whatever    *)
(* became of it in between; a slot that is freed in between is lost.        *)
ReadFree(t) ==
    /\ Calls
    /\ t \in free
    /\ taking' = [taking EXCEPT ![tp] = t]
    /\ behind' = [behind EXCEPT ![tp] = free \ {t}]
    /\ UNCHANGED <<listVars, state, prio, free, making, wakeVars, cpuVars, running, panic>>

(* The store, and createThread up to its SpinLock: the creator can be       *)
(* preempted with the new thread Ready and on no queue.                     *)
AllocThread(p) ==
    /\ InThread
    /\ taking[tp] # None
    /\ free' = behind[tp]
    /\ state' = [state EXCEPT ![taking[tp]] = "Ready"]
    /\ prio' = [prio EXCEPT ![taking[tp]] = p]
    /\ making' = [making EXCEPT ![tp] = taking[tp]]
    /\ taking' = [taking EXCEPT ![tp] = None]
    /\ behind' = [behind EXCEPT ![tp] = {}]
    /\ UNCHANGED <<listVars, wakeVars, cpuVars, running, panic>>

(* alloc of an empty pool, the stacks' or another component's. *)
PoolFails ==
    /\ Calls
    /\ panic' = "pool empty"
    /\ mie' = FALSE
    /\ UNCHANGED <<listVars, threadVars, wakeVars, tp, mode, mpie, running>>

AllocFails == free = {} /\ PoolFails

(* The rest of createThread, under its SpinLock. *)
PushThread ==
    /\ InThread
    /\ making[tp] # None
    /\ readyQ' = PushBack(readyQ, prio[making[tp]], making[tp])
    /\ making' = [making EXCEPT ![tp] = None]
    /\ UNCHANGED <<waitQ, broken, state, prio, free, taking, behind, wakeVars, cpuVars, running,
                   panic>>

(* threadTrampoline calls stopThread when the entry point returns. *)
StopThread ==
    /\ Calls
    /\ readyQ' = UnlinkAll(readyQ, tp)
    /\ waitQ' = UnlinkAll(waitQ, tp)
    /\ state' = [state EXCEPT ![tp] = "Dead"]
    /\ free' = free \cup {tp}
    /\ Reschedule(readyQ', state', None, "none")
    /\ UNCHANGED <<broken, prio, taking, behind, making, wakeVars, running>>

SleepOn(q) ==
    /\ Calls
    /\ readyQ' = UnlinkAll(readyQ, tp)
    /\ waitQ' = PushWaiter(UnlinkAll(waitQ, tp), q, tp)
    /\ state' = [state EXCEPT ![tp] = "Sleeping"]
    /\ Reschedule(readyQ', state', tp, Check(state[tp] = "Ready", "not ready"))
    /\ UNCHANGED <<broken, prio, free, taking, behind, making, wakeVars, running>>

(* csr_read_clr_bits and csr_read_set_bits of MIE in a thread's own code. *)
DisableIrq ==
    /\ Calls /\ mie
    /\ mie' = FALSE
    /\ UNCHANGED <<listVars, threadVars, wakeVars, tp, mode, mpie, running, panic>>

EnableIrq ==
    /\ Calls /\ ~mie
    /\ mie' = TRUE
    /\ UNCHANGED <<listVars, threadVars, wakeVars, tp, mode, mpie, running, panic>>

-----------------------------------------------------------------------------
(* Waking.  Threads and interrupt handlers both call wakeAllThreads; only   *)
(* threads call wakeOneThread (Mutex::unlock).                              *)

InHandler == panic = "none" /\ mode = "irq" /\ waking = None

WakeAllThreads(q) ==
    /\ Calls \/ InHandler
    /\ waking' = q
    /\ prevMie' = mie
    /\ mie' = FALSE
    /\ UNCHANGED <<listVars, threadVars, tp, mode, mpie, running, panic>>

(* Scheduler::schedule: off its wait queue, on the queue of its priority. *)
Schedule(t) ==
    /\ state' = [state EXCEPT ![t] = "Ready"]
    /\ readyQ' = PushBack(UnlinkAll(readyQ, t), prio[t], t)
    /\ panic' = Check(state[t] # "Ready", "already ready")

(* Mutation: the loop pops what schedule has already unlinked. *)
WakeFrontAndPop ==
    /\ panic = "none"
    /\ waking # None
    /\ waitQ[waking] # <<>>
    /\ LET t == Head(waitQ[waking])
           rest == UnlinkAll(waitQ, t)
       IN /\ Schedule(t)
          /\ waitQ' = [rest EXCEPT ![waking] = IF @ = <<>> THEN @ ELSE Tail(@)]
    /\ UNCHANGED <<broken, prio, free, taking, behind, making, wakeVars, cpuVars, running>>

(* One turn of the loop: schedule unlinks the front thread. *)
WakeFront ==
    /\ panic = "none"
    /\ waking # None
    /\ waitQ[waking] # <<>>
    /\ LET t == Head(waitQ[waking])
       IN /\ Schedule(t)
          /\ waitQ' = UnlinkAll(waitQ, t)
    /\ UNCHANGED <<broken, prio, free, taking, behind, making, wakeVars, cpuVars, running>>

(* The loop ends and the SpinLock's destructor restores MIE. *)
WakeDone ==
    /\ panic = "none"
    /\ waking # None
    /\ waitQ[waking] = <<>>
    /\ waking' = None
    /\ mie' = prevMie
    /\ prevMie' = FALSE
    /\ UNCHANGED <<listVars, threadVars, tp, mode, mpie, running, panic>>

(* wakeOneThread schedules the front thread, which takes it off the queue,  *)
(* and then pops the queue once more.  The pop drops the next waiter; on a  *)
(* list left empty it unlinks the list's own header, and what that does     *)
(* depends on the build: nothing, or a list that is empty for ever.         *)
WakeOneThread(q) ==
    /\ Calls
    /\ waitQ[q] # <<>>
    /\ LET t == Head(waitQ[q])
           rest == UnlinkAll(waitQ, t)
       IN /\ Schedule(t)
          /\ IF rest[q] # <<>>
             THEN /\ waitQ' = [rest EXCEPT ![q] = Tail(@)]
                  /\ broken' = broken
             ELSE /\ waitQ' = rest
                  /\ broken' \in {broken, broken \cup {q}}
    /\ UNCHANGED <<prio, free, taking, behind, making, wakeVars, cpuVars, running>>

-----------------------------------------------------------------------------
(* Interrupts.  The hart takes one whenever MIE is set; it can arrive in    *)
(* the boot flow too, once initIrq has run.                                 *)

IrqEnter ==
    /\ panic = "none"
    /\ mode \in {"armed", "thread"}
    /\ mie
    /\ mode' = "irq"
    /\ mie' = FALSE
    /\ mpie' = mie
    /\ UNCHANGED <<listVars, threadVars, wakeVars, tp, running, panic>>

(* trap_handler ends in Scheduler::reschedule. *)
IrqReturn ==
    /\ InHandler
    /\ Reschedule(readyQ, state, tp, "none")
    /\ UNCHANGED <<listVars, threadVars, wakeVars, running>>

(* After an abort the hart halts. *)
Halted == panic # "none" /\ UNCHANGED schedVars

-----------------------------------------------------------------------------
Boot == CreateIdle \/ CreateStartup \/ InitIrq \/ RunStartup

(* In the repository threads of normal priority create others.              *)
BeginCreate == \E t \in Threads : ReadFree(t) /\ prio[tp] = Normal

Create == \/ BeginCreate
          \/ \E p \in {High, Normal} : AllocThread(p)
          \/ PoolFails
          \/ PushThread

GiveUp == StopThread \/ \E q \in Queues : SleepOn(q)

WakeAll == (\E q \in Queues : WakeAllThreads(q)) \/ WakeFront \/ WakeDone

(* Every operation but wakeOneThread, which only Mutex::unlock uses. *)
CoreNext == Boot \/ Create \/ GiveUp \/ DisableIrq \/ EnableIrq \/ WakeAll
            \/ IrqEnter \/ IrqReturn \/ Halted

Next == CoreNext \/ \E q \in Queues : WakeOneThread(q)

CoreSpec == Init /\ [][CoreNext]_schedVars
Spec == Init /\ [][Next]_schedVars

(* High-priority threads create, too: createThread does not forbid it.      *)
AnyCreatorNext == CoreNext \/ \E t \in Threads : ReadFree(t)

AnyCreatorSpec == Init /\ [][AnyCreatorNext]_schedVars

-----------------------------------------------------------------------------
(* Safety.                                                                  *)

Listed(s, t) == \E i \in DOMAIN s : s[i] = t

ReadyListed ==
    \A p \in Priorities :
        /\ IsInjective(readyQ[p])
        /\ \A t \in Threads : Listed(readyQ[p], t) => state[t] = "Ready" /\ prio[t] = p

SleepersListed ==
    \A q \in Queues :
        /\ IsInjective(waitQ[q])
        /\ \A t \in Threads : Listed(waitQ[q], t) =>
              state[t] = "Sleeping" /\ \A r \in Queues : Listed(waitQ[r], t) => r = q

NoReadyThreadLost ==
    \A t \in Threads : state[t] = "Ready" =>
        Listed(readyQ[prio[t]], t) \/ \E c \in Threads : making[c] = t

(* Every thread is where its state says: a Ready one once on the queue of   *)
(* its own priority (or in the hands of its creator), a Sleeping one on no  *)
(* more than one wait queue, a Dead one on no list at all.                  *)
QueueDiscipline == ReadyListed /\ SleepersListed /\ NoReadyThreadLost

(* The current thread is Ready and at the front of the queue of its         *)
(* priority: sleepOn and stopThread unlink it there, and reschedule reads   *)
(* nothing else.                                                            *)
CurrentAtFront ==
    tp # None => /\ state[tp] = "Ready"
                 /\ readyQ[prio[tp]] # <<>>
                 /\ Head(readyQ[prio[tp]]) = tp

(* No assertion of the scheduler fails; only the stack pool can run out.    *)
NoAssertionFails == panic \in {"none", "pool empty"}

(* A slot on the free list belongs to nobody: it is not running, not being  *)
(* built, on no list, and its thread is Dead.                               *)
FreeSlotsUnused ==
    \A t \in free :
        /\ t # tp
        /\ state[t] = "Dead"
        /\ \A c \in Threads : making[c] # t
        /\ making[t] = None

(* The assertion "Trying to schedule a thread that is already Ready" of     *)
(* scheduler.cpp:99 holds.                                                  *)
NeverReadyTwice == panic # "already ready"

(* A sleeping thread can still be found by whoever wakes its queue.         *)
SleepersReachable ==
    \A t \in Threads : state[t] = "Sleeping" => \E q \in Queues : Listed(waitQ[q], t)

-----------------------------------------------------------------------------
(* The inductive invariant behind the safety properties.                    *)

(* Two creators never build the same thread, and what is being built is on  *)
(* no ready queue and builds nothing itself.                                *)
CreatorsApart ==
    \A c \in Threads : making[c] # None =>
        /\ state[making[c]] = "Ready"
        /\ making[making[c]] = None
        /\ \A p \in Priorities : ~Listed(readyQ[p], making[c])
        /\ \A d \in Threads : making[d] = making[c] => d = c

(* alloc is not entered again while a thread is in it: that thread is the   *)
(* one of normal priority that runs next, and what it has read is still so, *)
(* but for slots that were freed since.                                     *)
AllocsApart ==
    \A c \in Threads : taking[c] # None =>
        /\ state[c] = "Ready" /\ prio[c] = Normal
        /\ readyQ[Normal] # <<>> /\ Head(readyQ[Normal]) = c
        /\ making[c] = None
        /\ taking[c] \in free
        /\ behind[c] \subseteq free \ {taking[c]}

IdleListed == mode # "reset" => Listed(readyQ[IdlePriority], Idle)

Booting == mode \notin {"thread", "irq"}

BootShape ==
    /\ Booting => tp = None /\ waking = None
    /\ mode = "reset" => /\ readyQ = [p \in Priorities |-> <<>>]
                         /\ free = Threads
    /\ mode = "idle created" => readyQ[Normal] = <<>> /\ Startup \in free
    /\ mode \in {"startup created", "armed"} => readyQ[Normal] = <<Startup>>

HartState ==
    /\ mode = "thread" => tp # None
    /\ ~Booting => mpie

(* Everything above at once; each part is preserved because the others hold. *)
IInv ==
    /\ TypeOK
    /\ QueueDiscipline
    /\ CurrentAtFront
    /\ NoAssertionFails
    /\ FreeSlotsUnused
    /\ CreatorsApart
    /\ AllocsApart
    /\ IdleListed
    /\ BootShape
    /\ HartState

-----------------------------------------------------------------------------
(* What a step may never do.                                                *)

(* A thread that is still Ready loses the hart only to a higher priority,   *)
(* and whenever the hart changes hands nothing more urgent is left waiting. *)
PriorityDispatch ==
    [][/\ (tp # None /\ tp' # tp /\ state'[tp] = "Ready") => prio[tp'] < prio[tp]
       /\ (tp' # tp \/ (mode = "irq" /\ mode' = "thread")) =>
             \A p \in Priorities : p < prio[tp'] => readyQ'[p] = <<>>]_schedVars

(* Threads of one priority run in the order they became Ready: only the     *)
(* front leaves a ready queue, and what stays keeps its order.              *)
FirstComeFirstServed ==
    [][\A p \in Priorities :
         \E s \in {readyQ[p], IF readyQ[p] = <<>> THEN <<>> ELSE Tail(readyQ[p])} :
           IsPrefix(s, readyQ'[p])]_schedVars

(* Whoever is switched in after a thread has run gets interrupts enabled,   *)
(* however deep its predecessor had disabled them: the sleep "will          *)
(* re-enable them" (event.h:32, sd.cpp:497).                                *)
SwitchEnablesIrq == [][tp # None /\ tp' # tp => mie']_schedVars

(* The claim of include/saros/saros.h:41, "Wake one thread from the wait    *)
(* list": a call takes one thread off the list it is given.                 *)
WakeOneTakesOne ==
    [][\A q \in Queues : WakeOneThread(q) => Len(waitQ'[q]) = Len(waitQ[q]) - 1]_schedVars

-----------------------------------------------------------------------------
(* The scheduler without wakeOneThread keeps the promises of Threads.       *)

AwakeSet == {t \in Threads : state[t] = "Ready" /\ \A c \in Threads : making[c] # t}

SleepSet(q) == {t \in Threads : Listed(waitQ[q], t)}

T == INSTANCE Threads WITH
        awake <- AwakeSet,
        asleep <- [q \in Queues |-> SleepSet(q)],
        urgency <- [t \in Threads |->
                      IF t \in AwakeSet \/ state[t] = "Sleeping" THEN prio[t] ELSE Normal],
        runner <- tp

KeepsPromises == T!Spec

-----------------------------------------------------------------------------
(* Liveness.  The boot flow, the rest of createThread, the loop of          *)
(* wakeAllThreads and the way out of a handler are straight-line code that  *)
(* an interrupt delays and does not stop.  Scheduling is cooperative: that  *)
(* a thread which keeps getting the hart sleeps or returns some day is what *)
(* the kernel asks of its threads.                                          *)

Created == PushThread \/ \E p \in {High, Normal} : AllocThread(p)

Fairness ==
    /\ WF_schedVars(Boot)
    /\ WF_schedVars(WakeFront \/ WakeDone)
    /\ SF_schedVars(IrqReturn)
    /\ \A t \in Threads \ {Idle} : /\ SF_schedVars(tp = t /\ Created)
                                  /\ SF_schedVars(tp = t /\ GiveUp)

LiveSpec == CoreSpec /\ Fairness

Waits(t, p) == state[t] = "Ready" /\ prio[t] = p

Served(t) == tp = t \/ panic # "none"

(* A Ready thread of high priority gets the hart. *)
HighRuns == \A t \in Threads : Waits(t, High) ~> Served(t)

(* So does a normal one, unless high-priority threads are ready for ever.   *)
NormalRuns ==
    ([]<>(readyQ[High] = <<>>)) => \A t \in Threads : Waits(t, Normal) ~> Served(t)

=============================================================================
