-------------------------- MODULE SchedulerProofs --------------------------
(***************************************************************************)
(* For any number of stack slots and wait queues: the scheduler keeps its   *)
(* lists in order, runs only what stands at the front of a ready queue, and *)
(* fails none of its assertions.                                            *)
(***************************************************************************)
EXTENDS Scheduler, SequenceTheorems, TLAPS

-----------------------------------------------------------------------------
(* Lists.                                                                   *)

(* Unlinking what is on no list changes nothing. *)
LEMMA UnlinkAbsent ==
    ASSUME NEW S, NEW s \in Seq(S), NEW t, ~Listed(s, t)
    PROVE  Unlink(s, t) = s
  BY DEF Unlink, Listed

(* Unlinking the front of a list without repetitions leaves its tail. *)
LEMMA UnlinkFront ==
    ASSUME NEW S, NEW s \in Seq(S), s # <<>>, IsInjective(s)
    PROVE  Unlink(s, Head(s)) = Tail(s)
<1>1. /\ Len(s) \in Nat \ {0}
      /\ DOMAIN s = 1 .. Len(s)
      /\ Head(s) = s[1]
  OBVIOUS
<1>2. \A i \in DOMAIN s : s[i] = Head(s) => i = 1
  BY <1>1 DEF IsInjective
<1>3. (CHOOSE i \in DOMAIN s : s[i] = Head(s)) = 1
  BY <1>1, <1>2
<1>4. RemoveAt(s, 1) = Tail(s)
  BY <1>1 DEF RemoveAt
<1>5. \E i \in DOMAIN s : s[i] = Head(s)
  BY <1>1
<1>6. Unlink(s, Head(s)) = RemoveAt(s, CHOOSE i \in DOMAIN s : s[i] = Head(s))
  BY <1>5 DEF Unlink
<1> QED
  BY <1>3, <1>4, <1>6

(* The tail of a list without repetitions lists all but its front. *)
LEMMA TailListed ==
    ASSUME NEW S, NEW s \in Seq(S), s # <<>>, IsInjective(s)
    PROVE  /\ Tail(s) \in Seq(S)
           /\ IsInjective(Tail(s))
           /\ Head(s) \in S
           /\ Listed(s, Head(s))
           /\ \A u : Listed(Tail(s), u) <=> Listed(s, u) /\ u # Head(s)
<1>1. /\ Len(s) \in Nat \ {0}
      /\ DOMAIN s = 1 .. Len(s)
      /\ Head(s) = s[1]
      /\ Tail(s) \in Seq(S)
      /\ DOMAIN Tail(s) = 1 .. Len(s) - 1
      /\ \A i \in 1 .. Len(s) - 1 : Tail(s)[i] = s[i + 1]
  OBVIOUS
<1>2. IsInjective(Tail(s))
  BY <1>1 DEF IsInjective
<1>3. ASSUME NEW u
      PROVE  Listed(Tail(s), u) <=> Listed(s, u) /\ u # Head(s)
  <2>1. ASSUME Listed(Tail(s), u)
        PROVE  Listed(s, u) /\ u # Head(s)
    <3>1. PICK i \in 1 .. Len(s) - 1 : s[i + 1] = u
      BY <1>1, <2>1 DEF Listed
    <3> QED
      BY <1>1, <3>1 DEF Listed, IsInjective
  <2>2. ASSUME Listed(s, u), u # Head(s)
        PROVE  Listed(Tail(s), u)
    <3>1. PICK i \in 1 .. Len(s) : s[i] = u /\ i # 1
      BY <1>1, <2>2 DEF Listed
    <3>2. i - 1 \in 1 .. Len(s) - 1 /\ Tail(s)[i - 1] = u
      BY <1>1, <3>1
    <3> QED
      BY <1>1, <3>2 DEF Listed
  <2> QED
    BY <2>1, <2>2
<1>4. Listed(s, Head(s)) /\ Head(s) \in S
  BY <1>1 DEF Listed
<1> QED
  BY <1>1, <1>2, <1>3, <1>4

(* A list to which a thread is appended lists that thread too. *)
LEMMA AppendListed ==
    ASSUME NEW S, NEW s \in Seq(S), NEW t \in S, IsInjective(s), ~Listed(s, t)
    PROVE  /\ Append(s, t) \in Seq(S)
           /\ IsInjective(Append(s, t))
           /\ Append(s, t) # <<>>
           /\ s # <<>> => Head(Append(s, t)) = Head(s)
           /\ \A u : Listed(Append(s, t), u) <=> Listed(s, u) \/ u = t
<1>1. /\ Len(s) \in Nat
      /\ DOMAIN s = 1 .. Len(s)
      /\ Append(s, t) \in Seq(S)
      /\ DOMAIN Append(s, t) = 1 .. Len(s) + 1
      /\ \A i \in 1 .. Len(s) : Append(s, t)[i] = s[i]
      /\ Append(s, t)[Len(s) + 1] = t
  OBVIOUS
<1>2. IsInjective(Append(s, t))
  BY <1>1 DEF IsInjective, Listed
<1>3. Append(s, t) # <<>> /\ (s # <<>> => Head(Append(s, t)) = Head(s))
  BY <1>1
<1>4. \A u : Listed(Append(s, t), u) <=> Listed(s, u) \/ u = t
  BY <1>1 DEF Listed
<1> QED
  BY <1>1, <1>2, <1>3, <1>4

(* An empty list lists nothing, and a list that lists something has a front. *)
LEMMA EmptyListed ==
    /\ IsInjective(<<>>)
    /\ \A t : ~Listed(<<>>, t)
  BY DEF Listed, IsInjective

(* A thread pushed on an empty list is alone on it. *)
LEMMA AppendEmpty ==
    ASSUME NEW S, NEW t \in S
    PROVE  Append(<<>>, t) = <<t>>
<1>1. /\ Append(<<>>, t) \in Seq(S)
      /\ Len(Append(<<>>, t)) = 1
      /\ Append(<<>>, t)[1] = t
  OBVIOUS
<1>2. /\ <<t>> \in Seq(S)
      /\ Len(<<t>>) = 1
      /\ <<t>>[1] = t
  OBVIOUS
<1>3. \A i \in 1 .. Len(<<t>>) : Append(<<>>, t)[i] = <<t>>[i]
  BY <1>1, <1>2
<1> QED
  BY <1>1, <1>2, <1>3, SeqEqual

(* Unlinking a thread that is on none of the lists changes none of them. *)
LEMMA UnlinkAllAbsent ==
    ASSUME NEW L, NEW lists \in [L -> Seq(Threads)], NEW t,
           \A l \in L : ~Listed(lists[l], t)
    PROVE  UnlinkAll(lists, t) = lists
  BY UnlinkAbsent DEF UnlinkAll

(* Unlinking the front of one list, on no other, pops that list. *)
LEMMA UnlinkAllFront ==
    ASSUME NEW L, NEW lists \in [L -> Seq(Threads)], NEW k \in L,
           lists[k] # <<>>, IsInjective(lists[k]),
           \A l \in L \ {k} : ~Listed(lists[l], Head(lists[k]))
    PROVE  UnlinkAll(lists, Head(lists[k])) = [lists EXCEPT ![k] = Tail(@)]
<1>1. Unlink(lists[k], Head(lists[k])) = Tail(lists[k])
  BY UnlinkFront
<1>2. \A l \in L \ {k} : Unlink(lists[l], Head(lists[k])) = lists[l]
  BY UnlinkAbsent
<1> QED
  BY <1>1, <1>2 DEF UnlinkAll

-----------------------------------------------------------------------------
(* Reschedule.                                                              *)

(* What rescheduleImpl switches to is Ready and at the front of the queue   *)
(* of its priority, provided the lists agree with the states and the idle   *)
(* thread is listed.                                                        *)
LEMMA ChosenAtFront ==
    ASSUME TypeOK, NEW rq \in [Priorities -> Seq(Threads)], NEW st,
           NEW current \in Threads \cup {None},
           \A p \in Priorities : \A t \in Threads :
               Listed(rq[p], t) => st[t] = "Ready" /\ prio[t] = p,
           Listed(rq[IdlePriority], Idle),
           IsReady(st, current) => /\ rq[prio[current]] # <<>>
                                   /\ Head(rq[prio[current]]) = current
    PROVE  /\ Chosen(rq, st, current) \in Threads
           /\ st[Chosen(rq, st, current)] = "Ready"
           /\ rq[prio[Chosen(rq, st, current)]] # <<>>
           /\ Head(rq[prio[Chosen(rq, st, current)]]) = Chosen(rq, st, current)
<1> DEFINE ps == Eligible(rq, st, current)
<1>1. ASSUME NEW p \in Priorities, rq[p] # <<>>
      PROVE  /\ Head(rq[p]) \in Threads
             /\ st[Head(rq[p])] = "Ready"
             /\ prio[Head(rq[p])] = p
  <2>1. Head(rq[p]) \in Threads /\ Listed(rq[p], Head(rq[p]))
    <3>1. rq[p] \in Seq(Threads)
      OBVIOUS
    <3>2. Len(rq[p]) \in Nat \ {0} /\ Head(rq[p]) = rq[p][1] /\ DOMAIN rq[p] = 1 .. Len(rq[p])
      BY <1>1, <3>1
    <3> QED
      BY <3>1, <3>2 DEF Listed
  <2> QED
    BY <2>1
<1>2. CASE ps # {}
  <2>1. PICK p \in ps : \A r \in ps : p <= r
    <3>1. ps \subseteq 0 .. 2
      BY DEF Eligible, Priorities
    <3> QED
      BY <1>2, <3>1
  <2> DEFINE m == CHOOSE x \in ps : \A r \in ps : x <= r
  <2>2. m \in ps
    BY <2>1
  <2>3. m \in Priorities /\ rq[m] # <<>>
    BY <2>2 DEF Eligible
  <2>4. Chosen(rq, st, current) = Head(rq[m])
    BY <1>2 DEF Chosen
  <2> QED
    BY <1>1, <2>3, <2>4
<1>3. CASE ps = {}
  <2>1. IsReady(st, current)
    <3>1. IdlePriority \in Priorities /\ rq[IdlePriority] # <<>>
      BY EmptyListed DEF IdlePriority, Priorities
    <3> QED
      BY <1>3, <3>1 DEF Eligible
  <2>2. Chosen(rq, st, current) = current
    BY <1>3, <2>1 DEF Chosen
  <2>3. current \in Threads /\ st[current] = "Ready"
    BY <2>1 DEF IsReady
  <2> QED
    BY <2>1, <2>2, <2>3
<1> QED
  BY <1>2, <1>3

-----------------------------------------------------------------------------
(* One lemma per action that moves a thread between lists.                  *)

(* The running thread is at the front of its ready queue and nowhere else. *)
LEMMA RunnerListed ==
    ASSUME IInv, tp # None
    PROVE  /\ tp \in Threads
           /\ state[tp] = "Ready"
           /\ prio[tp] \in Priorities
           /\ Listed(readyQ[prio[tp]], tp)
           /\ \A p \in Priorities \ {prio[tp]} : ~Listed(readyQ[p], tp)
           /\ \A q \in Queues : ~Listed(waitQ[q], tp)
           /\ tp \notin free
           /\ \A c \in Threads : making[c] # tp
           /\ UnlinkAll(readyQ, tp) = [readyQ EXCEPT ![prio[tp]] = Tail(@)]
           /\ UnlinkAll(waitQ, tp) = waitQ
<1> USE DEF IInv
<1>1. /\ tp \in Threads
      /\ state[tp] = "Ready"
      /\ prio[tp] \in Priorities
      /\ readyQ[prio[tp]] \in Seq(Threads)
      /\ readyQ[prio[tp]] # <<>>
      /\ Head(readyQ[prio[tp]]) = tp
      /\ IsInjective(readyQ[prio[tp]])
  BY DEF TypeOK, CurrentAtFront, QueueDiscipline, ReadyListed
<1>2. Listed(readyQ[prio[tp]], tp)
  BY <1>1, TailListed
<1>3. \A p \in Priorities \ {prio[tp]} : ~Listed(readyQ[p], tp)
  BY <1>1 DEF QueueDiscipline, ReadyListed
<1>4. \A q \in Queues : ~Listed(waitQ[q], tp)
  BY <1>1 DEF QueueDiscipline, SleepersListed
<1>5. tp \notin free /\ \A c \in Threads : making[c] # tp
  <2>1. \A c \in Threads : making[c] # tp
    <3> SUFFICES ASSUME NEW c \in Threads, making[c] = tp PROVE FALSE
      OBVIOUS
    <3>1. making[c] # None
      BY <1>1, ThreadAssumption
    <3> QED
      BY <1>1, <1>2, <3>1 DEF CreatorsApart
  <2> QED
    BY <2>1 DEF FreeSlotsUnused
<1>6. UnlinkAll(readyQ, tp) = [readyQ EXCEPT ![prio[tp]] = Tail(@)]
  <2>1. readyQ \in [Priorities -> Seq(Threads)]
    BY DEF TypeOK
  <2>2. \A p \in Priorities \ {prio[tp]} : ~Listed(readyQ[p], Head(readyQ[prio[tp]]))
    BY <1>1, <1>3
  <2>3. readyQ[prio[tp]] # <<>> /\ IsInjective(readyQ[prio[tp]]) /\ prio[tp] \in Priorities
    BY <1>1
  <2>4. UnlinkAll(readyQ, Head(readyQ[prio[tp]])) = [readyQ EXCEPT ![prio[tp]] = Tail(@)]
    BY <2>1, <2>2, <2>3, UnlinkAllFront
  <2> QED
    BY <1>1, <2>4
<1>7. UnlinkAll(waitQ, tp) = waitQ
  <2>1. waitQ \in [Queues -> Seq(Threads)]
    BY DEF TypeOK
  <2> QED
    BY <1>4, <2>1, UnlinkAllAbsent
<1> QED
  BY <1>1, <1>2, <1>3, <1>4, <1>5, <1>6, <1>7

(* The ready queues after the running thread has left them. *)
LEMMA RunnerUnlinked ==
    ASSUME IInv, tp # None, NEW rq, rq = [readyQ EXCEPT ![prio[tp]] = Tail(@)]
    PROVE  /\ rq \in [Priorities -> Seq(Threads)]
           /\ \A p \in Priorities : IsInjective(rq[p])
           /\ \A p \in Priorities : \A u : Listed(rq[p], u) <=> Listed(readyQ[p], u) /\ u # tp
<1>1. /\ prio[tp] \in Priorities
      /\ readyQ \in [Priorities -> Seq(Threads)]
      /\ readyQ[prio[tp]] # <<>>
      /\ Head(readyQ[prio[tp]]) = tp
      /\ \A p \in Priorities : IsInjective(readyQ[p])
  BY DEF IInv, TypeOK, CurrentAtFront, QueueDiscipline, ReadyListed
<1>2. /\ Tail(readyQ[prio[tp]]) \in Seq(Threads)
      /\ IsInjective(Tail(readyQ[prio[tp]]))
      /\ \A u : Listed(Tail(readyQ[prio[tp]]), u) <=> Listed(readyQ[prio[tp]], u) /\ u # tp
  <2>1. readyQ[prio[tp]] \in Seq(Threads)
    BY <1>1
  <2> QED
    BY <1>1, <2>1, TailListed
<1>3. \A p \in Priorities \ {prio[tp]} : rq[p] = readyQ[p] /\ ~Listed(readyQ[p], tp)
  BY <1>1, RunnerListed
<1>4. rq[prio[tp]] = Tail(readyQ[prio[tp]])
  BY <1>1
<1> QED
  BY <1>1, <1>2, <1>3, <1>4

(* What a creator has read off the free list stays so while it is the one   *)
(* of normal priority to run and no slot is taken.                          *)
LEMMA AllocsKept ==
    ASSUME IInv, UNCHANGED <<taking, behind>>, free \subseteq free',
           \A c \in Threads : taking[c] # None =>
               /\ state'[c] = "Ready" /\ prio'[c] = Normal
               /\ readyQ'[Normal] # <<>> /\ Head(readyQ'[Normal]) = Head(readyQ[Normal])
               /\ making'[c] = None
    PROVE  AllocsApart'
  BY DEF IInv, AllocsApart

(* While nobody of normal priority is ready, nobody is inside alloc. *)
LEMMA NobodyAllocates ==
    ASSUME IInv, readyQ[Normal] = <<>>, taking' = taking
    PROVE  AllocsApart'
  BY DEF IInv, AllocsApart

(* A thread that is not inside alloc leaves the ready queues without        *)
(* touching the thread that is.                                             *)
LEMMA OutsideAlloc ==
    ASSUME IInv, tp # None, taking[tp] = None, NEW c \in Threads, taking[c] # None
    PROVE  c # tp /\ prio[tp] # Normal
<1>1. Head(readyQ[prio[tp]]) = tp
  BY DEF IInv, CurrentAtFront
<1>2. Head(readyQ[Normal]) = c
  BY DEF IInv, AllocsApart
<1> QED
  BY <1>1, <1>2

(* So what is read in alloc is still so when such a thread sleeps or stops. *)
LEMMA AllocsSurvive ==
    ASSUME IInv, tp # None, taking[tp] = None, NEW s,
           readyQ' = [readyQ EXCEPT ![prio[tp]] = Tail(@)],
           state' = [state EXCEPT ![tp] = s],
           UNCHANGED <<prio, taking, behind, making>>, free \subseteq free'
    PROVE  AllocsApart'
<1> SUFFICES ASSUME NEW c \in Threads, taking[c] # None
             PROVE  /\ state'[c] = "Ready" /\ prio'[c] = Normal
                    /\ readyQ'[Normal] # <<>> /\ Head(readyQ'[Normal]) = Head(readyQ[Normal])
                    /\ making'[c] = None
  BY AllocsKept
<1>1. c # tp /\ prio[tp] # Normal
  BY OutsideAlloc
<1>2. readyQ'[Normal] = readyQ[Normal] /\ state'[c] = state[c]
  BY <1>1 DEF IInv, TypeOK, Normal, Priorities
<1> QED
  BY <1>2 DEF IInv, AllocsApart

(* sleepOn moves the running thread to a wait queue. *)
LEMMA SleepOnStep ==
    ASSUME IInv, NEW q \in Queues, SleepOn(q)
    PROVE  IInv'
<1>1. /\ panic = "none" /\ mode = "thread" /\ waking = None
      /\ tp # None /\ tp # Idle /\ taking[tp] = None /\ making[tp] = None /\ mpie
  BY DEF IInv, HartState, Booting, SleepOn, Calls, InThread
<1>2. TypeOK /\ QueueDiscipline /\ FreeSlotsUnused /\ CreatorsApart /\ IdleListed
  BY DEF IInv
<1>3. /\ tp \in Threads
      /\ state[tp] = "Ready"
      /\ \A r \in Queues : ~Listed(waitQ[r], tp)
      /\ tp \notin free
      /\ \A c \in Threads : making[c] # tp
      /\ readyQ' = [readyQ EXCEPT ![prio[tp]] = Tail(@)]
      /\ waitQ' = PushWaiter(waitQ, q, tp)
  BY <1>1, RunnerListed DEF SleepOn
<1>4. /\ readyQ' \in [Priorities -> Seq(Threads)]
      /\ \A p \in Priorities : IsInjective(readyQ'[p])
      /\ \A p \in Priorities : \A u : Listed(readyQ'[p], u) <=> Listed(readyQ[p], u) /\ u # tp
  BY <1>1, <1>3, RunnerUnlinked
<1>5. /\ waitQ' \in [Queues -> Seq(Threads)]
      /\ \A r \in Queues : IsInjective(waitQ'[r])
      /\ \A r \in Queues : \A u :
            Listed(waitQ'[r], u) => Listed(waitQ[r], u) \/ (r = q /\ u = tp)
  <2>1. /\ waitQ \in [Queues -> Seq(Threads)]
        /\ \A r \in Queues : IsInjective(waitQ[r])
    BY <1>2 DEF TypeOK, QueueDiscipline, SleepersListed
  <2>2. CASE q \in broken
    BY <1>3, <2>1, <2>2 DEF PushWaiter
  <2>3. CASE q \notin broken
    <3>1. waitQ' = [waitQ EXCEPT ![q] = Append(@, tp)]
      BY <1>3, <2>3 DEF PushWaiter, PushBack
    <3>2. /\ Append(waitQ[q], tp) \in Seq(Threads)
          /\ IsInjective(Append(waitQ[q], tp))
          /\ \A u : Listed(Append(waitQ[q], tp), u) <=> Listed(waitQ[q], u) \/ u = tp
      BY <1>3, <2>1, AppendListed
    <3> QED
      BY <2>1, <3>1, <3>2
  <2> QED
    BY <2>2, <2>3
<1>6. /\ state' = [state EXCEPT ![tp] = "Sleeping"]
      /\ UNCHANGED <<broken, prio, free, taking, behind, making, waking, prevMie, running>>
      /\ Reschedule(readyQ', state', tp, "none")
  BY <1>3 DEF SleepOn, wakeVars, Check
<1>7. state' \in [Threads -> {"Ready", "Sleeping", "Dead"}]
  BY <1>2, <1>6 DEF TypeOK
<1>8. \A p \in Priorities : \A t \in Threads :
          Listed(readyQ'[p], t) => state'[t] = "Ready" /\ prio[t] = p
  BY <1>2, <1>4, <1>6 DEF TypeOK, QueueDiscipline, ReadyListed
<1>9. Listed(readyQ'[IdlePriority], Idle)
  BY <1>1, <1>2, <1>4 DEF IdleListed, IdlePriority, Priorities
<1>10. /\ tp' \in Threads
       /\ state'[tp'] = "Ready"
       /\ readyQ'[prio[tp']] # <<>>
       /\ Head(readyQ'[prio[tp']]) = tp'
  <2>1. ~IsReady(state', tp)
    BY <1>2, <1>3, <1>6 DEF IsReady, TypeOK
  <2>2. tp' = Chosen(readyQ', state', tp)
    BY <1>6 DEF Reschedule, SwitchIn
  <2>3. /\ Chosen(readyQ', state', tp) \in Threads
        /\ state'[Chosen(readyQ', state', tp)] = "Ready"
        /\ readyQ'[prio[Chosen(readyQ', state', tp)]] # <<>>
        /\ Head(readyQ'[prio[Chosen(readyQ', state', tp)]]) = Chosen(readyQ', state', tp)
    <3>1. TypeOK /\ readyQ' \in [Priorities -> Seq(Threads)] /\ tp \in Threads \cup {None}
      BY <1>2, <1>3, <1>4
    <3> QED
      BY <3>1, <1>8, <1>9, <2>1, ChosenAtFront
  <2> QED
    BY <2>2, <2>3
<1>11. panic' = "none" /\ mode' = "thread" /\ mie' = mpie /\ mpie'
  BY <1>1, <1>6, <1>10, ThreadAssumption DEF Reschedule, SwitchIn, Check
<1>12. TypeOK'
  BY <1>2, <1>4, <1>5, <1>6, <1>7, <1>10, <1>11 DEF TypeOK, Modes, Panics
<1>13. QueueDiscipline'
  <2>1. ReadyListed'
    BY <1>4, <1>6, <1>8 DEF ReadyListed
  <2>2. SleepersListed'
    BY <1>2, <1>3, <1>5, <1>6 DEF SleepersListed, TypeOK, QueueDiscipline
  <2>3. NoReadyThreadLost'
    BY <1>2, <1>3, <1>4, <1>6 DEF NoReadyThreadLost, TypeOK, QueueDiscipline
  <2> QED
    BY <2>1, <2>2, <2>3 DEF QueueDiscipline
<1>14. CurrentAtFront' /\ NoAssertionFails' /\ HartState'
  BY <1>6, <1>10, <1>11, ThreadAssumption DEF CurrentAtFront, NoAssertionFails, HartState
<1>15. FreeSlotsUnused'
  BY <1>2, <1>3, <1>6, <1>10 DEF FreeSlotsUnused, TypeOK
<1>16. CreatorsApart'
  BY <1>2, <1>3, <1>4, <1>6 DEF CreatorsApart, TypeOK
<1>17. AllocsApart'
  BY <1>1, <1>3, <1>6, AllocsSurvive
<1>18. IdleListed' /\ BootShape'
  BY <1>9, <1>11 DEF IdleListed, BootShape, Booting
<1> QED
  BY <1>12, <1>13, <1>14, <1>15, <1>16, <1>17, <1>18 DEF IInv

(* stopThread takes the running thread off its ready queue for good. *)
LEMMA StopThreadStep ==
    ASSUME IInv, StopThread
    PROVE  IInv'
<1>1. /\ panic = "none" /\ mode = "thread" /\ waking = None
      /\ tp # None /\ tp # Idle /\ taking[tp] = None /\ making[tp] = None /\ mpie
  BY DEF IInv, HartState, Booting, StopThread, Calls, InThread
<1>2. TypeOK /\ QueueDiscipline /\ FreeSlotsUnused /\ CreatorsApart /\ IdleListed
  BY DEF IInv
<1>3. /\ tp \in Threads
      /\ state[tp] = "Ready"
      /\ \A r \in Queues : ~Listed(waitQ[r], tp)
      /\ \A c \in Threads : making[c] # tp
      /\ readyQ' = [readyQ EXCEPT ![prio[tp]] = Tail(@)]
      /\ waitQ' = waitQ
  BY <1>1, RunnerListed DEF StopThread
<1>4. /\ readyQ' \in [Priorities -> Seq(Threads)]
      /\ \A p \in Priorities : IsInjective(readyQ'[p])
      /\ \A p \in Priorities : \A u : Listed(readyQ'[p], u) <=> Listed(readyQ[p], u) /\ u # tp
  BY <1>1, <1>3, RunnerUnlinked
<1>5. /\ state' = [state EXCEPT ![tp] = "Dead"]
      /\ free' = free \cup {tp}
      /\ UNCHANGED <<broken, prio, taking, behind, making, waking, prevMie, running>>
      /\ Reschedule(readyQ', state', None, "none")
  BY DEF StopThread, wakeVars
<1>6. \A p \in Priorities : \A t \in Threads :
          Listed(readyQ'[p], t) => state'[t] = "Ready" /\ prio[t] = p
  BY <1>2, <1>4, <1>5 DEF TypeOK, QueueDiscipline, ReadyListed
<1>7. Listed(readyQ'[IdlePriority], Idle)
  BY <1>1, <1>2, <1>4 DEF IdleListed, IdlePriority, Priorities
<1>8. /\ tp' \in Threads
      /\ state'[tp'] = "Ready"
      /\ readyQ'[prio[tp']] # <<>>
      /\ Head(readyQ'[prio[tp']]) = tp'
  <2>1. ~IsReady(state', None)
    BY DEF IsReady
  <2>2. tp' = Chosen(readyQ', state', None)
    BY <1>5 DEF Reschedule, SwitchIn
  <2>3. /\ Chosen(readyQ', state', None) \in Threads
        /\ state'[Chosen(readyQ', state', None)] = "Ready"
        /\ readyQ'[prio[Chosen(readyQ', state', None)]] # <<>>
        /\ Head(readyQ'[prio[Chosen(readyQ', state', None)]]) = Chosen(readyQ', state', None)
    <3>1. TypeOK /\ readyQ' \in [Priorities -> Seq(Threads)]
      BY <1>2, <1>4
    <3> QED
      BY <3>1, <1>6, <1>7, <2>1, ChosenAtFront
  <2> QED
    BY <2>2, <2>3
<1>9. panic' = "none" /\ mode' = "thread" /\ mie' = mpie /\ mpie'
  BY <1>1, <1>5, <1>8, ThreadAssumption DEF Reschedule, SwitchIn, Check
<1>10. TypeOK'
  BY <1>2, <1>3, <1>4, <1>5, <1>8, <1>9 DEF TypeOK, Modes, Panics
<1>11. QueueDiscipline'
  <2>1. ReadyListed'
    BY <1>4, <1>5, <1>6 DEF ReadyListed
  <2>2. SleepersListed'
    BY <1>2, <1>3, <1>5 DEF SleepersListed, TypeOK, QueueDiscipline
  <2>3. NoReadyThreadLost'
    BY <1>2, <1>3, <1>4, <1>5 DEF NoReadyThreadLost, TypeOK, QueueDiscipline
  <2> QED
    BY <2>1, <2>2, <2>3 DEF QueueDiscipline
<1>12. CurrentAtFront' /\ NoAssertionFails' /\ HartState'
  BY <1>5, <1>8, <1>9, ThreadAssumption DEF CurrentAtFront, NoAssertionFails, HartState
<1>13. FreeSlotsUnused'
  BY <1>1, <1>2, <1>3, <1>5, <1>8 DEF FreeSlotsUnused, TypeOK
<1>14. CreatorsApart'
  BY <1>2, <1>3, <1>4, <1>5 DEF CreatorsApart, TypeOK
<1>15. AllocsApart'
  <2>1. free \subseteq free'
    BY <1>5
  <2> QED
    BY <1>1, <1>3, <1>5, <2>1, AllocsSurvive
<1>16. IdleListed' /\ BootShape'
  BY <1>7, <1>9 DEF IdleListed, BootShape, Booting
<1> QED
  BY <1>10, <1>11, <1>12, <1>13, <1>14, <1>15, <1>16 DEF IInv

(* A thread not yet listed goes to the end of the ready queue of its        *)
(* priority, and the front of every queue stays what it is.                 *)
LEMMA ReadyPushed ==
    ASSUME IInv, NEW t \in Threads,
           \A p \in Priorities : ~Listed(readyQ[p], t)
    PROVE  /\ PushBack(readyQ, prio[t], t) \in [Priorities -> Seq(Threads)]
           /\ \A p \in Priorities : IsInjective(PushBack(readyQ, prio[t], t)[p])
           /\ \A p \in Priorities : \A u :
                 Listed(PushBack(readyQ, prio[t], t)[p], u)
                     <=> Listed(readyQ[p], u) \/ (p = prio[t] /\ u = t)
           /\ \A p \in Priorities :
                 readyQ[p] # <<>> =>
                     /\ PushBack(readyQ, prio[t], t)[p] # <<>>
                     /\ Head(PushBack(readyQ, prio[t], t)[p]) = Head(readyQ[p])
<1> DEFINE rq == PushBack(readyQ, prio[t], t)
<1>1. /\ prio[t] \in Priorities
      /\ readyQ \in [Priorities -> Seq(Threads)]
      /\ \A p \in Priorities : IsInjective(readyQ[p])
  BY DEF IInv, TypeOK, QueueDiscipline, ReadyListed
<1>2. /\ Append(readyQ[prio[t]], t) \in Seq(Threads)
      /\ IsInjective(Append(readyQ[prio[t]], t))
      /\ Append(readyQ[prio[t]], t) # <<>>
      /\ readyQ[prio[t]] # <<>> =>
            Head(Append(readyQ[prio[t]], t)) = Head(readyQ[prio[t]])
      /\ \A u : Listed(Append(readyQ[prio[t]], t), u) <=> Listed(readyQ[prio[t]], u) \/ u = t
  <2>1. readyQ[prio[t]] \in Seq(Threads) /\ ~Listed(readyQ[prio[t]], t)
    BY <1>1
  <2> QED
    BY <1>1, <2>1, AppendListed
<1>3. /\ rq[prio[t]] = Append(readyQ[prio[t]], t)
      /\ \A p \in Priorities \ {prio[t]} : rq[p] = readyQ[p]
      /\ rq = [readyQ EXCEPT ![prio[t]] = Append(@, t)]
  BY <1>1 DEF PushBack
<1> HIDE DEF rq
<1>4. /\ rq \in [Priorities -> Seq(Threads)]
      /\ \A p \in Priorities : IsInjective(rq[p])
      /\ \A p \in Priorities : \A u :
            Listed(rq[p], u) <=> Listed(readyQ[p], u) \/ (p = prio[t] /\ u = t)
      /\ \A p \in Priorities :
            readyQ[p] # <<>> => rq[p] # <<>> /\ Head(rq[p]) = Head(readyQ[p])
  BY <1>1, <1>2, <1>3
<1> QED
  BY <1>4 DEF rq

(* The second half of createThread lists the thread it has built. *)
LEMMA PushThreadStep ==
    ASSUME IInv, PushThread
    PROVE  IInv'
<1> DEFINE t == making[tp]
<1>1. /\ panic = "none" /\ mode = "thread" /\ waking = None
      /\ tp # None /\ t # None
  BY DEF IInv, HartState, PushThread, InThread
<1>2. TypeOK /\ QueueDiscipline /\ FreeSlotsUnused /\ CreatorsApart /\ IdleListed
  BY DEF IInv
<1>3. /\ tp \in Threads /\ t \in Threads
      /\ state[t] = "Ready"
      /\ \A p \in Priorities : ~Listed(readyQ[p], t)
      /\ making[t] = None
      /\ \A d \in Threads : making[d] = t => d = tp
  BY <1>1, <1>2 DEF TypeOK, CreatorsApart
<1>4. /\ readyQ' = PushBack(readyQ, prio[t], t)
      /\ making' = [making EXCEPT ![tp] = None]
      /\ UNCHANGED <<waitQ, broken, state, prio, free, taking, behind, waking, prevMie, tp, mode,
                     mie, mpie, running, panic>>
  BY DEF PushThread, wakeVars, cpuVars
<1>5. /\ readyQ' \in [Priorities -> Seq(Threads)]
      /\ \A p \in Priorities : IsInjective(readyQ'[p])
      /\ \A p \in Priorities : \A u :
            Listed(readyQ'[p], u) <=> Listed(readyQ[p], u) \/ (p = prio[t] /\ u = t)
      /\ \A p \in Priorities :
            readyQ[p] # <<>> => readyQ'[p] # <<>> /\ Head(readyQ'[p]) = Head(readyQ[p])
  <2> HIDE DEF t
  <2> QED
    BY <1>3, <1>4, ReadyPushed
<1>6. TypeOK'
  BY <1>2, <1>3, <1>4, <1>5 DEF TypeOK
<1>7. QueueDiscipline'
  <2>1. ReadyListed'
    BY <1>2, <1>3, <1>4, <1>5 DEF ReadyListed, QueueDiscipline
  <2>2. SleepersListed'
    BY <1>2, <1>4 DEF SleepersListed, QueueDiscipline
  <2>3. NoReadyThreadLost'
    <3> SUFFICES ASSUME NEW u \in Threads, state[u] = "Ready"
                 PROVE  Listed(readyQ'[prio[u]], u) \/ \E c \in Threads : making'[c] = u
      BY <1>4 DEF NoReadyThreadLost
    <3>1. prio[u] \in Priorities
      BY <1>2 DEF TypeOK
    <3>2. CASE u = t
      BY <1>5, <3>1, <3>2
    <3>3. CASE u # t /\ Listed(readyQ[prio[u]], u)
      BY <1>5, <3>1, <3>3
    <3>4. CASE u # t /\ \E c \in Threads : making[c] = u
      <4>1. PICK c \in Threads : making[c] = u
        BY <3>4
      <4>2. making'[c] = u
        BY <1>2, <1>4, <3>4, <4>1 DEF TypeOK
      <4> QED
        BY <4>2
    <3> QED
      BY <1>2, <3>2, <3>3, <3>4 DEF QueueDiscipline, NoReadyThreadLost
  <2> QED
    BY <2>1, <2>2, <2>3 DEF QueueDiscipline
<1>8. CurrentAtFront' /\ NoAssertionFails' /\ HartState'
  BY <1>4, <1>5 DEF IInv, TypeOK, CurrentAtFront, NoAssertionFails, HartState, Booting
<1>9. FreeSlotsUnused'
  BY <1>2, <1>3, <1>4, ThreadAssumption DEF FreeSlotsUnused, TypeOK
<1>10. CreatorsApart'
  BY <1>2, <1>3, <1>4, <1>5, ThreadAssumption DEF CreatorsApart, TypeOK
<1>11. IdleListed' /\ BootShape'
  BY <1>1, <1>2, <1>4, <1>5 DEF IdleListed, BootShape, Booting, IdlePriority, Priorities
<1>12. AllocsApart'
  <2>1. \A c \in Threads : making[c] = None => making'[c] = None
    BY <1>2, <1>4 DEF TypeOK
  <2> QED
    BY <1>4, <1>5, <2>1, AllocsKept DEF IInv, AllocsApart, Normal, Priorities
<1> QED
  BY <1>6, <1>7, <1>8, <1>9, <1>10, <1>11, <1>12 DEF IInv

(* The front of a wait queue sleeps there and is nowhere else. *)
LEMMA WaiterListed ==
    ASSUME IInv, NEW q \in Queues, waitQ[q] # <<>>, NEW t, t = Head(waitQ[q])
    PROVE  /\ t \in Threads
           /\ state[t] = "Sleeping"
           /\ \A p \in Priorities : ~Listed(readyQ[p], t)
           /\ UnlinkAll(readyQ, t) = readyQ
           /\ UnlinkAll(waitQ, t) = [waitQ EXCEPT ![q] = Tail(@)]
           /\ \A r \in Queues \ {q} : ~Listed(waitQ[r], t)
           /\ Tail(waitQ[q]) \in Seq(Threads)
           /\ IsInjective(Tail(waitQ[q]))
           /\ \A u : Listed(Tail(waitQ[q]), u) <=> Listed(waitQ[q], u) /\ u # t
<1>1. /\ readyQ \in [Priorities -> Seq(Threads)]
      /\ waitQ \in [Queues -> Seq(Threads)]
      /\ waitQ[q] \in Seq(Threads)
      /\ IsInjective(waitQ[q])
  BY DEF IInv, TypeOK, QueueDiscipline, SleepersListed
<1>2. /\ t \in Threads
      /\ Listed(waitQ[q], t)
      /\ Tail(waitQ[q]) \in Seq(Threads)
      /\ IsInjective(Tail(waitQ[q]))
      /\ \A u : Listed(Tail(waitQ[q]), u) <=> Listed(waitQ[q], u) /\ u # t
  BY <1>1, TailListed
<1>3. state[t] = "Sleeping" /\ \A r \in Queues \ {q} : ~Listed(waitQ[r], t)
  BY <1>2 DEF IInv, QueueDiscipline, SleepersListed
<1>4. \A p \in Priorities : ~Listed(readyQ[p], t)
  BY <1>2, <1>3 DEF IInv, QueueDiscipline, ReadyListed
<1>5. UnlinkAll(readyQ, t) = readyQ
  BY <1>1, <1>4, UnlinkAllAbsent
<1>6. UnlinkAll(waitQ, Head(waitQ[q])) = [waitQ EXCEPT ![q] = Tail(@)]
  <2>1. \A r \in Queues \ {q} : ~Listed(waitQ[r], Head(waitQ[q]))
    BY <1>3
  <2> QED
    BY <1>1, <2>1, UnlinkAllFront
<1> QED
  BY <1>2, <1>3, <1>4, <1>5, <1>6

(* Making a sleeper Ready, whatever else leaves the wait queues with it. *)
LEMMA WakeStep ==
    ASSUME IInv, panic = "none", ~Booting, NEW t \in Threads, state[t] = "Sleeping",
           readyQ' = PushBack(readyQ, prio[t], t),
           state' = [state EXCEPT ![t] = "Ready"],
           waitQ' \in [Queues -> Seq(Threads)],
           \A r \in Queues : IsInjective(waitQ'[r]),
           \A r \in Queues : \A u \in Threads :
               Listed(waitQ'[r], u) => Listed(waitQ[r], u) /\ u # t,
           broken' \subseteq Queues,
           panic' = "none",
           UNCHANGED <<prio, free, taking, behind, making, waking, prevMie, tp, mode, mie, mpie,
                       running>>
    PROVE  IInv'
<1>1. TypeOK /\ QueueDiscipline /\ FreeSlotsUnused /\ CreatorsApart /\ IdleListed /\ CurrentAtFront
  BY DEF IInv
<1>2. /\ \A p \in Priorities : ~Listed(readyQ[p], t)
      /\ t # tp
      /\ t \notin free
      /\ \A c \in Threads : making[c] # t
  <2>1. \A p \in Priorities : ~Listed(readyQ[p], t)
    BY <1>1 DEF QueueDiscipline, ReadyListed
  <2>2. t # tp
    BY <1>1, ThreadAssumption DEF CurrentAtFront
  <2>3. t \notin free
    BY <1>1 DEF FreeSlotsUnused
  <2>4. ASSUME NEW c \in Threads PROVE making[c] # t
    BY <1>1, ThreadAssumption DEF CreatorsApart
  <2> QED
    BY <2>1, <2>2, <2>3, <2>4
<1>3. /\ readyQ' \in [Priorities -> Seq(Threads)]
      /\ \A p \in Priorities : IsInjective(readyQ'[p])
      /\ \A p \in Priorities : \A u :
            Listed(readyQ'[p], u) <=> Listed(readyQ[p], u) \/ (p = prio[t] /\ u = t)
      /\ \A p \in Priorities :
            readyQ[p] # <<>> => readyQ'[p] # <<>> /\ Head(readyQ'[p]) = Head(readyQ[p])
  BY <1>2, ReadyPushed
<1>4. TypeOK'
  BY <1>1, <1>3 DEF TypeOK, Panics
<1>5. QueueDiscipline'
  <2>1. ReadyListed'
    BY <1>1, <1>2, <1>3 DEF ReadyListed, QueueDiscipline, TypeOK
  <2>2. SleepersListed'
    BY <1>1 DEF SleepersListed, QueueDiscipline, TypeOK
  <2>3. NoReadyThreadLost'
    <3> SUFFICES ASSUME NEW u \in Threads, state'[u] = "Ready"
                 PROVE  Listed(readyQ'[prio[u]], u) \/ \E c \in Threads : making[c] = u
      BY DEF NoReadyThreadLost
    <3>1. prio[u] \in Priorities
      BY <1>1 DEF TypeOK
    <3>2. CASE u = t
      BY <1>3, <3>1, <3>2
    <3>3. CASE u # t
      <4>1. state[u] = "Ready"
        BY <1>1, <3>3 DEF TypeOK
      <4>2. Listed(readyQ[prio[u]], u) \/ \E c \in Threads : making[c] = u
        BY <1>1, <4>1 DEF QueueDiscipline, NoReadyThreadLost
      <4> QED
        BY <1>3, <3>1, <4>2
    <3> QED
      BY <3>2, <3>3
  <2> QED
    BY <2>1, <2>2, <2>3 DEF QueueDiscipline
<1>6. CurrentAtFront'
  <2> SUFFICES ASSUME tp # None
               PROVE  /\ state'[tp] = "Ready"
                      /\ readyQ'[prio[tp]] # <<>>
                      /\ Head(readyQ'[prio[tp]]) = tp
    BY DEF CurrentAtFront
  <2>1. tp \in Threads /\ prio[tp] \in Priorities
    BY <1>1 DEF TypeOK
  <2> QED
    BY <1>1, <1>2, <1>3, <2>1 DEF CurrentAtFront, TypeOK
<1>7. NoAssertionFails' /\ HartState'
  BY DEF IInv, NoAssertionFails, HartState, Booting
<1>8. FreeSlotsUnused' /\ CreatorsApart'
  BY <1>1, <1>2, <1>3 DEF FreeSlotsUnused, CreatorsApart, TypeOK
<1>9. IdleListed'
  <2>1. mode # "reset" /\ IdlePriority \in Priorities
    BY DEF Booting, IdlePriority, Priorities
  <2>2. Listed(readyQ[IdlePriority], Idle)
    BY <1>1, <2>1 DEF IdleListed
  <2> QED
    BY <1>3, <2>1, <2>2 DEF IdleListed
<1>10. BootShape'
  <2>1. ~Booting' /\ mode' \notin {"reset", "idle created", "startup created", "armed"}
    BY DEF Booting
  <2> QED
    BY <2>1 DEF BootShape
<1>11. AllocsApart'
  <2>1. \A c \in Threads : state[c] = "Ready" => state'[c] = "Ready"
    BY <1>1 DEF TypeOK
  <2> QED
    BY <1>3, <2>1, AllocsKept DEF IInv, AllocsApart, Normal, Priorities
<1> QED
  BY <1>4, <1>5, <1>6, <1>7, <1>8, <1>9, <1>10, <1>11 DEF IInv

(* A turn of wakeAllThreads' loop makes the front sleeper Ready. *)
LEMMA WakeFrontStep ==
    ASSUME IInv, WakeFront
    PROVE  IInv'
<1> DEFINE t == Head(waitQ[waking])
<1>1. /\ panic = "none" /\ waking \in Queues /\ waitQ[waking] # <<>> /\ ~Booting
  BY DEF IInv, TypeOK, BootShape, WakeFront
<1>2. /\ t \in Threads
      /\ state[t] = "Sleeping"
      /\ UnlinkAll(readyQ, t) = readyQ
      /\ UnlinkAll(waitQ, t) = [waitQ EXCEPT ![waking] = Tail(@)]
      /\ \A r \in Queues \ {waking} : ~Listed(waitQ[r], t)
      /\ Tail(waitQ[waking]) \in Seq(Threads)
      /\ IsInjective(Tail(waitQ[waking]))
      /\ \A u : Listed(Tail(waitQ[waking]), u) <=> Listed(waitQ[waking], u) /\ u # t
  BY <1>1, WaiterListed
<1>3. /\ readyQ' = PushBack(readyQ, prio[t], t)
      /\ state' = [state EXCEPT ![t] = "Ready"]
      /\ waitQ' = [waitQ EXCEPT ![waking] = Tail(@)]
      /\ panic' = "none"
      /\ UNCHANGED <<broken, prio, free, taking, behind, making, waking, prevMie, tp, mode, mie,
                     mpie, running>>
  BY <1>2 DEF WakeFront, Schedule, Check, wakeVars, cpuVars
<1>4. /\ waitQ' \in [Queues -> Seq(Threads)]
      /\ \A r \in Queues : IsInjective(waitQ'[r])
      /\ \A r \in Queues : \A u \in Threads :
            Listed(waitQ'[r], u) => Listed(waitQ[r], u) /\ u # t
  <2> HIDE DEF t
  <2> QED
    BY <1>1, <1>2, <1>3 DEF IInv, TypeOK, QueueDiscipline, SleepersListed
<1>5. broken' \subseteq Queues
  BY <1>3 DEF IInv, TypeOK
<1> HIDE DEF t
<1> QED
  BY <1>1, <1>2, <1>3, <1>4, <1>5, WakeStep

(* wakeOneThread makes the front sleeper Ready, and may drop another one. *)
LEMMA WakeOneStep ==
    ASSUME IInv, NEW q \in Queues, WakeOneThread(q)
    PROVE  IInv'
<1> DEFINE t == Head(waitQ[q])
           rest == UnlinkAll(waitQ, t)
<1>1. panic = "none" /\ waitQ[q] # <<>> /\ ~Booting
  BY DEF WakeOneThread, Calls, InThread, Booting
<1>2. /\ t \in Threads
      /\ state[t] = "Sleeping"
      /\ UnlinkAll(readyQ, t) = readyQ
      /\ rest = [waitQ EXCEPT ![q] = Tail(@)]
      /\ \A r \in Queues \ {q} : ~Listed(waitQ[r], t)
      /\ Tail(waitQ[q]) \in Seq(Threads)
      /\ IsInjective(Tail(waitQ[q]))
      /\ \A u : Listed(Tail(waitQ[q]), u) <=> Listed(waitQ[q], u) /\ u # t
  BY <1>1, WaiterListed
<1>3. /\ readyQ' = PushBack(readyQ, prio[t], t)
      /\ state' = [state EXCEPT ![t] = "Ready"]
      /\ panic' = "none"
      /\ UNCHANGED <<prio, free, taking, behind, making, waking, prevMie, tp, mode, mie, mpie,
                     running>>
      /\ \/ /\ rest[q] # <<>>
            /\ waitQ' = [rest EXCEPT ![q] = Tail(@)]
            /\ broken' = broken
         \/ waitQ' = rest /\ broken' \in {broken, broken \cup {q}}
  BY <1>2 DEF WakeOneThread, Schedule, Check, wakeVars, cpuVars
<1>4. /\ rest \in [Queues -> Seq(Threads)]
      /\ \A r \in Queues : IsInjective(rest[r])
      /\ \A r \in Queues : \A u \in Threads :
            Listed(rest[r], u) => Listed(waitQ[r], u) /\ u # t
  <2>1. waitQ \in [Queues -> Seq(Threads)] /\ \A r \in Queues : IsInjective(waitQ[r])
    BY DEF IInv, TypeOK, QueueDiscipline, SleepersListed
  <2> HIDE DEF t, rest
  <2> QED
    BY <1>2, <2>1
<1>5. /\ waitQ' \in [Queues -> Seq(Threads)]
      /\ \A r \in Queues : IsInjective(waitQ'[r])
      /\ \A r \in Queues : \A u \in Threads :
            Listed(waitQ'[r], u) => Listed(rest[r], u)
  <2> HIDE DEF t, rest
  <2>1. CASE waitQ' = rest
    BY <1>4, <2>1
  <2>2. CASE rest[q] # <<>> /\ waitQ' = [rest EXCEPT ![q] = Tail(@)]
    <3>1. rest[q] \in Seq(Threads) /\ IsInjective(rest[q])
      BY <1>4
    <3>2. /\ Tail(rest[q]) \in Seq(Threads)
          /\ IsInjective(Tail(rest[q]))
          /\ \A u : Listed(Tail(rest[q]), u) => Listed(rest[q], u)
      BY <2>2, <3>1, TailListed
    <3> QED
      BY <1>4, <2>2, <3>2
  <2> QED
    BY <1>3, <2>1, <2>2
<1>6. broken' \subseteq Queues
  BY <1>3 DEF IInv, TypeOK
<1>7. \A r \in Queues : \A u \in Threads :
          Listed(waitQ'[r], u) => Listed(waitQ[r], u) /\ u # t
  BY <1>4, <1>5
<1> HIDE DEF t, rest
<1> QED
  BY <1>1, <1>2, <1>3, <1>5, <1>6, <1>7, WakeStep

(* A creator of normal priority is the only thread inside alloc. *)
LEMMA ReadFreeStep ==
    ASSUME IInv, NEW t \in Threads, ReadFree(t), prio[tp] = Normal
    PROVE  IInv'
<1>1. /\ panic = "none" /\ mode = "thread" /\ tp # None
      /\ taking[tp] = None /\ making[tp] = None /\ t \in free
  BY DEF IInv, HartState, ReadFree, Calls, InThread
<1>2. /\ taking' = [taking EXCEPT ![tp] = t]
      /\ behind' = [behind EXCEPT ![tp] = free \ {t}]
      /\ UNCHANGED <<readyQ, waitQ, broken, state, prio, free, making, waking, prevMie, tp, mode,
                     mie, mpie, running, panic>>
  BY DEF ReadFree, listVars, wakeVars, cpuVars
<1>3. TypeOK'
  BY <1>2 DEF IInv, TypeOK
<1>4. /\ QueueDiscipline' /\ CurrentAtFront' /\ NoAssertionFails' /\ FreeSlotsUnused'
      /\ CreatorsApart' /\ IdleListed' /\ BootShape' /\ HartState'
  <2>1. QueueDiscipline'
    BY <1>2 DEF IInv, QueueDiscipline, ReadyListed, SleepersListed, NoReadyThreadLost
  <2>2. CurrentAtFront' /\ NoAssertionFails' /\ IdleListed'
    BY <1>2 DEF IInv, CurrentAtFront, NoAssertionFails, IdleListed
  <2>3. FreeSlotsUnused' /\ CreatorsApart'
    BY <1>2 DEF IInv, FreeSlotsUnused, CreatorsApart
  <2>4. BootShape' /\ HartState'
    BY <1>2 DEF IInv, BootShape, HartState, Booting
  <2> QED
    BY <2>1, <2>2, <2>3, <2>4
<1>5. AllocsApart'
  <2>1. /\ tp \in Threads /\ state[tp] = "Ready"
        /\ readyQ[Normal] # <<>> /\ Head(readyQ[Normal]) = tp
    BY <1>1 DEF IInv, TypeOK, CurrentAtFront
  <2>2. \A c \in Threads : c # tp => taking'[c] = None
    BY <1>1, <1>2, OutsideAlloc DEF IInv, TypeOK
  <2>3. taking'[tp] = t /\ behind'[tp] = free \ {t}
    BY <1>2, <2>1 DEF IInv, TypeOK
  <2> QED
    BY <1>1, <1>2, <2>1, <2>2, <2>3 DEF AllocsApart
<1> QED
  BY <1>3, <1>4, <1>5 DEF IInv

(* What a creator stores is still right: the slot it has found is free, and *)
(* nobody else is inside alloc.                                             *)
LEMMA SlotTaken ==
    ASSUME IInv, NEW p, AllocThread(p)
    PROVE  \E t \in Threads :
             /\ t = taking[tp] /\ t \in free /\ state[t] = "Dead" /\ t # tp
             /\ making[t] = None /\ making[tp] = None
             /\ \A c \in Threads : making[c] # t
             /\ behind[tp] \subseteq free \ {t}
             /\ \A c \in Threads : taking[c] # None => c = tp
<1>1. tp \in Threads /\ taking[tp] # None
  BY DEF AllocThread, InThread, IInv, HartState, TypeOK
<1>2. /\ taking[tp] \in Threads /\ taking[tp] \in free /\ making[tp] = None
      /\ behind[tp] \subseteq free \ {taking[tp]}
      /\ \A c \in Threads : taking[c] # None => c = tp
  BY <1>1 DEF IInv, TypeOK, AllocsApart
<1> QED
  BY <1>2 DEF IInv, FreeSlotsUnused

(* The first half of createThread builds its thread in a slot nobody uses. *)
LEMMA AllocThreadStep ==
    ASSUME IInv, NEW p \in {High, Normal}, AllocThread(p)
    PROVE  IInv'
<1>1. panic = "none" /\ mode = "thread" /\ tp # None
  BY DEF IInv, HartState, AllocThread, InThread
<1>2. TypeOK /\ QueueDiscipline /\ FreeSlotsUnused /\ CreatorsApart /\ IdleListed /\ CurrentAtFront
  BY DEF IInv
<1>t. PICK t \in Threads :
        /\ t = taking[tp] /\ t \in free /\ state[t] = "Dead" /\ t # tp
        /\ making[t] = None /\ making[tp] = None
        /\ \A c \in Threads : making[c] # t
        /\ behind[tp] \subseteq free \ {t}
        /\ \A c \in Threads : taking[c] # None => c = tp
  BY SlotTaken
<1>3. /\ free' \subseteq free \ {t}
      /\ state' = [state EXCEPT ![t] = "Ready"]
      /\ prio' = [prio EXCEPT ![t] = p]
      /\ making' = [making EXCEPT ![tp] = t]
      /\ taking' = [taking EXCEPT ![tp] = None]
      /\ behind' = [behind EXCEPT ![tp] = {}]
      /\ UNCHANGED <<readyQ, waitQ, broken, waking, prevMie, tp, mode, mie, mpie, running, panic>>
  BY <1>t DEF AllocThread, listVars, wakeVars, cpuVars
<1>4. /\ state[t] = "Dead"
      /\ t # tp
      /\ making[t] = None
      /\ making[tp] = None
      /\ \A c \in Threads : making[c] # t
      /\ \A r \in Priorities : ~Listed(readyQ[r], t)
      /\ \A r \in Queues : ~Listed(waitQ[r], t)
  BY <1>t, <1>2 DEF QueueDiscipline, ReadyListed, SleepersListed
<1>5. tp \in Threads /\ t # None
  BY <1>1, <1>2, ThreadAssumption DEF TypeOK
<1>6. TypeOK'
  <2>1. p \in Priorities
    BY DEF Priorities, High, Normal
  <2>2. /\ state' \in [Threads -> {"Ready", "Sleeping", "Dead"}]
        /\ prio' \in [Threads -> Priorities]
        /\ making' \in [Threads -> Threads \cup {None}]
        /\ taking' \in [Threads -> Threads \cup {None}]
        /\ behind' \in [Threads -> SUBSET Threads]
        /\ free' \subseteq Threads
    BY <1>2, <1>3, <2>1 DEF TypeOK
  <2> QED
    BY <1>2, <1>3, <2>2 DEF TypeOK
<1>7. QueueDiscipline'
  <2>1. ReadyListed'
    BY <1>2, <1>3, <1>4 DEF ReadyListed, QueueDiscipline, TypeOK
  <2>2. SleepersListed'
    BY <1>2, <1>3, <1>4 DEF SleepersListed, QueueDiscipline, TypeOK
  <2>3. NoReadyThreadLost'
    <3> SUFFICES ASSUME NEW u \in Threads, state'[u] = "Ready"
                 PROVE  Listed(readyQ[prio'[u]], u) \/ \E c \in Threads : making'[c] = u
      BY <1>3 DEF NoReadyThreadLost
    <3>1. CASE u = t
      <4>1. making'[tp] = t
        BY <1>2, <1>3, <1>5 DEF TypeOK
      <4> QED
        BY <1>5, <3>1, <4>1
    <3>2. CASE u # t
      <4>1. state[u] = "Ready" /\ prio'[u] = prio[u]
        BY <1>2, <1>3, <3>2 DEF TypeOK
      <4>2. ASSUME NEW c \in Threads, making[c] = u
            PROVE  making'[c] = u
        <5>1. c # tp
          BY <1>4, <4>2, ThreadAssumption
        <5> QED
          BY <1>2, <1>3, <4>2, <5>1 DEF TypeOK
      <4> QED
        BY <1>2, <4>1, <4>2 DEF QueueDiscipline, NoReadyThreadLost
    <3> QED
      BY <3>1, <3>2
  <2> QED
    BY <2>1, <2>2, <2>3 DEF QueueDiscipline
<1>8. CurrentAtFront' /\ NoAssertionFails' /\ HartState'
  BY <1>1, <1>2, <1>3, <1>4, <1>5 DEF IInv, TypeOK, CurrentAtFront, NoAssertionFails, HartState, Booting
<1>9. FreeSlotsUnused'
  BY <1>1, <1>2, <1>3, <1>4, <1>5, RunnerListed DEF FreeSlotsUnused, TypeOK, IInv
<1>10. CreatorsApart'
  <2> SUFFICES ASSUME NEW c \in Threads, making'[c] # None
               PROVE  /\ state'[making'[c]] = "Ready"
                      /\ making'[making'[c]] = None
                      /\ \A r \in Priorities : ~Listed(readyQ[r], making'[c])
                      /\ \A d \in Threads : making'[d] = making'[c] => d = c
    BY <1>3 DEF CreatorsApart
  <2>1. CASE c = tp
    <3>1. making'[c] = t
      BY <1>2, <1>3, <1>5, <2>1 DEF TypeOK
    <3>2. making'[t] = None /\ \A d \in Threads : making'[d] = t => d = tp
      BY <1>2, <1>3, <1>4, <1>5 DEF TypeOK
    <3>3. state'[t] = "Ready"
      BY <1>2, <1>3 DEF TypeOK
    <3> QED
      BY <1>4, <2>1, <3>1, <3>2, <3>3
  <2>2. CASE c # tp
    <3>1. making'[c] = making[c] /\ making[c] \in Threads /\ making[c] # t
      BY <1>2, <1>3, <1>4, <2>2 DEF TypeOK
    <3>2. making[c] # tp
      BY IInv, <1>1, RunnerListed
    <3>3. state'[making[c]] = "Ready" /\ making'[making[c]] = None
      BY <1>2, <1>3, <3>1, <3>2 DEF TypeOK, CreatorsApart
    <3>4. ASSUME NEW d \in Threads, making'[d] = making[c] PROVE d = c
      BY <1>2, <1>3, <3>1, <3>4 DEF TypeOK, CreatorsApart
    <3> QED
      BY <1>2, <3>1, <3>3, <3>4 DEF CreatorsApart
  <2> QED
    BY <2>1, <2>2
<1>11. IdleListed' /\ BootShape'
  BY <1>1, <1>2, <1>3 DEF IdleListed, BootShape, Booting
<1>12. AllocsApart'
  <2>1. \A c \in Threads : taking'[c] = None
    BY <1>t, <1>2, <1>3 DEF TypeOK
  <2> QED
    BY <2>1 DEF AllocsApart
<1> QED
  BY <1>6, <1>7, <1>8, <1>9, <1>10, <1>11, <1>12 DEF IInv

(* The way out of a handler switches to a thread at the front of its queue. *)
LEMMA IrqReturnStep ==
    ASSUME IInv, IrqReturn
    PROVE  IInv'
<1>1. /\ panic = "none" /\ mode = "irq" /\ waking = None /\ mpie
  BY DEF IInv, HartState, Booting, IrqReturn, InHandler
<1>2. TypeOK /\ QueueDiscipline /\ FreeSlotsUnused /\ CreatorsApart /\ IdleListed /\ CurrentAtFront
  BY DEF IInv
<1>3. UNCHANGED <<readyQ, waitQ, broken, state, prio, free, taking, behind, making, waking,
                  prevMie, running>>
  BY DEF IrqReturn, listVars, threadVars, wakeVars
<1>4. /\ tp' \in Threads
      /\ state[tp'] = "Ready"
      /\ readyQ[prio[tp']] # <<>>
      /\ Head(readyQ[prio[tp']]) = tp'
  <2>1. tp' = Chosen(readyQ, state, tp)
    BY DEF IrqReturn, Reschedule, SwitchIn
  <2>2. /\ Chosen(readyQ, state, tp) \in Threads
        /\ state[Chosen(readyQ, state, tp)] = "Ready"
        /\ readyQ[prio[Chosen(readyQ, state, tp)]] # <<>>
        /\ Head(readyQ[prio[Chosen(readyQ, state, tp)]]) = Chosen(readyQ, state, tp)
    <3>1. readyQ \in [Priorities -> Seq(Threads)] /\ tp \in Threads \cup {None}
      BY <1>2 DEF TypeOK
    <3>2. \A p \in Priorities : \A t \in Threads :
              Listed(readyQ[p], t) => state[t] = "Ready" /\ prio[t] = p
      BY <1>2 DEF QueueDiscipline, ReadyListed
    <3>3. Listed(readyQ[IdlePriority], Idle)
      BY <1>1, <1>2 DEF IdleListed
    <3>4. IsReady(state, tp) => readyQ[prio[tp]] # <<>> /\ Head(readyQ[prio[tp]]) = tp
      BY <1>2 DEF IsReady, CurrentAtFront
    <3> QED
      BY <1>2, <3>1, <3>2, <3>3, <3>4, ChosenAtFront
  <2> QED
    BY <2>1, <2>2
<1>5. panic' = "none" /\ mode' = "thread" /\ mie' = mpie /\ mpie'
  <2>1. Chosen(readyQ, state, tp) = tp' /\ tp' # None
    BY <1>4, ThreadAssumption DEF IrqReturn, Reschedule, SwitchIn
  <2> QED
    BY <2>1 DEF IrqReturn, Reschedule, SwitchIn, Check
<1>6. TypeOK'
  BY <1>2, <1>3, <1>4, <1>5 DEF TypeOK, Modes, Panics
<1>7. QueueDiscipline' /\ CreatorsApart' /\ IdleListed'
  BY <1>1, <1>2, <1>3 DEF QueueDiscipline, ReadyListed, SleepersListed, NoReadyThreadLost,
                          CreatorsApart, IdleListed
<1>8. CurrentAtFront' /\ NoAssertionFails' /\ HartState'
  BY <1>3, <1>4, <1>5, ThreadAssumption DEF CurrentAtFront, NoAssertionFails, HartState
<1>9. FreeSlotsUnused'
  BY <1>2, <1>3, <1>4 DEF FreeSlotsUnused
<1>10. BootShape'
  BY <1>5 DEF BootShape, Booting
<1>11. AllocsApart'
  BY <1>3, AllocsKept DEF IInv, AllocsApart
<1> QED
  BY <1>6, <1>7, <1>8, <1>9, <1>10, <1>11 DEF IInv

-----------------------------------------------------------------------------
(* The boot flow.                                                           *)

(* Before the idle thread exists no thread does. *)
LEMMA CreateIdleStep ==
    ASSUME IInv, CreateIdle
    PROVE  IInv'
<1>1. /\ TypeOK /\ QueueDiscipline /\ FreeSlotsUnused
      /\ tp = None /\ waking = None
      /\ readyQ = [p \in Priorities |-> <<>>]
      /\ free = Threads
      /\ panic \in {"none", "pool empty"}
  BY DEF IInv, CreateIdle, BootShape, Booting, NoAssertionFails
<1>2. \A t \in Threads : state[t] = "Dead" /\ making[t] = None
  BY <1>1 DEF FreeSlotsUnused
<1>3. Idle \in Threads /\ Startup \in Threads /\ Idle # Startup
  BY ThreadAssumption
<1> DEFINE rq == PushBack(readyQ, Normal, Idle)
<1>4. /\ rq = [p \in Priorities |-> IF p = Normal THEN <<Idle>> ELSE <<>>]
      /\ Normal \in Priorities
  <2>1. Normal \in Priorities
    BY DEF Normal, Priorities
  <2>2. Append(<<>>, Idle) = <<Idle>>
    BY <1>3, AppendEmpty
  <2> QED
    BY <1>1, <2>1, <2>2 DEF PushBack
<1>5. UnlinkAll(rq, Idle) = [p \in Priorities |-> <<>>]
  <2>1. /\ rq \in [Priorities -> Seq(Threads)]
        /\ rq[Normal] = <<Idle>>
        /\ \A p \in Priorities \ {Normal} : rq[p] = <<>>
    BY <1>3, <1>4
  <2> HIDE DEF rq
  <2>2. rq[Normal] # <<>> /\ Head(rq[Normal]) = Idle /\ Tail(rq[Normal]) = <<>>
    BY <2>1
  <2>3. IsInjective(rq[Normal])
    BY <2>1 DEF IsInjective
  <2>4. \A p \in Priorities \ {Normal} : ~Listed(rq[p], Head(rq[Normal]))
    BY <2>1, EmptyListed
  <2>5. UnlinkAll(rq, Head(rq[Normal])) = [rq EXCEPT ![Normal] = Tail(@)]
    <3>1. Normal \in Priorities /\ rq[Normal] # <<>> /\ rq \in [Priorities -> Seq(Threads)]
      BY <1>4, <2>1, <2>2
    <3> QED
      BY <2>3, <2>4, <3>1, UnlinkAllFront
  <2> QED
    BY <2>1, <2>2, <2>5
<1>6. readyQ' = [p \in Priorities |-> IF p = IdlePriority THEN <<Idle>> ELSE <<>>]
  <2>1. Append(<<>>, Idle) = <<Idle>> /\ IdlePriority \in Priorities
    BY <1>3, AppendEmpty DEF IdlePriority, Priorities
  <2>2. readyQ' = PushBack(UnlinkAll(rq, Idle), IdlePriority, Idle)
    BY DEF CreateIdle
  <2> HIDE DEF rq
  <2> QED
    BY <1>5, <2>1, <2>2 DEF PushBack
<1> HIDE DEF rq
<1>7. /\ mode' = "idle created"
      /\ free' = free \ {Idle}
      /\ state' = [state EXCEPT ![Idle] = "Ready"]
      /\ prio' = [prio EXCEPT ![Idle] = IdlePriority]
      /\ UNCHANGED <<waitQ, broken, taking, behind, making, waking, prevMie, tp, mie, mpie, running,
                     panic>>
  BY DEF CreateIdle, wakeVars
<1>8. /\ \A p \in Priorities : \A u : Listed(readyQ'[p], u) <=> p = IdlePriority /\ u = Idle
      /\ \A p \in Priorities : IsInjective(readyQ'[p])
      /\ readyQ' \in [Priorities -> Seq(Threads)]
      /\ readyQ'[Normal] = <<>>
      /\ IdlePriority \in Priorities
  BY <1>3, <1>6 DEF Listed, IsInjective, IdlePriority, Normal, Priorities
<1>9. TypeOK'
  BY <1>1, <1>3, <1>7, <1>8 DEF TypeOK, Modes
<1>10. QueueDiscipline'
  <2>1. ReadyListed'
    BY <1>1, <1>3, <1>7, <1>8 DEF ReadyListed, TypeOK
  <2>2. SleepersListed'
    BY <1>1, <1>2, <1>7 DEF SleepersListed, QueueDiscipline
  <2>3. NoReadyThreadLost'
    BY <1>1, <1>2, <1>3, <1>7, <1>8 DEF NoReadyThreadLost, TypeOK
  <2> QED
    BY <2>1, <2>2, <2>3 DEF QueueDiscipline
<1>11. CurrentAtFront' /\ NoAssertionFails' /\ HartState'
  BY <1>1, <1>7 DEF CurrentAtFront, NoAssertionFails, HartState, Booting
<1>12. FreeSlotsUnused' /\ CreatorsApart'
  BY <1>1, <1>2, <1>3, <1>7, ThreadAssumption DEF FreeSlotsUnused, CreatorsApart, TypeOK
<1>13. IdleListed' /\ BootShape'
  BY <1>1, <1>3, <1>7, <1>8 DEF IdleListed, BootShape
<1>14. AllocsApart'
  BY <1>1, <1>4, <1>7, NobodyAllocates
<1> QED
  BY <1>9, <1>10, <1>11, <1>12, <1>13, <1>14 DEF IInv

(* The startup thread is the first of normal priority. *)
LEMMA CreateStartupStep ==
    ASSUME IInv, CreateStartup
    PROVE  IInv'
<1>1. /\ TypeOK /\ QueueDiscipline /\ FreeSlotsUnused /\ CreatorsApart /\ IdleListed
      /\ tp = None /\ waking = None
      /\ mode = "idle created"
      /\ readyQ[Normal] = <<>>
      /\ Startup \in free
      /\ panic \in {"none", "pool empty"}
  BY DEF IInv, CreateStartup, BootShape, Booting, NoAssertionFails
<1>2. /\ state[Startup] = "Dead"
      /\ making[Startup] = None
      /\ \A c \in Threads : making[c] # Startup
      /\ \A p \in Priorities : ~Listed(readyQ[p], Startup)
      /\ \A q \in Queues : ~Listed(waitQ[q], Startup)
      /\ Startup \in Threads
  BY <1>1, ThreadAssumption DEF FreeSlotsUnused, QueueDiscipline, ReadyListed, SleepersListed
<1>3. /\ mode' = "startup created"
      /\ free' = free \ {Startup}
      /\ state' = [state EXCEPT ![Startup] = "Ready"]
      /\ prio' = [prio EXCEPT ![Startup] = Normal]
      /\ UNCHANGED <<waitQ, broken, taking, behind, making, waking, prevMie, tp, mie, mpie, running,
                     panic>>
  BY DEF CreateStartup, wakeVars
<1>4. readyQ' = [readyQ EXCEPT ![Normal] = <<Startup>>] /\ Normal \in Priorities
  <2>1. Append(<<>>, Startup) = <<Startup>> /\ Normal \in Priorities
    BY <1>2, AppendEmpty DEF Normal, Priorities
  <2>2. readyQ \in [Priorities -> Seq(Threads)]
    BY <1>1 DEF TypeOK
  <2> QED
    BY <1>1, <2>1, <2>2 DEF CreateStartup, PushBack
<1>5. /\ readyQ' \in [Priorities -> Seq(Threads)]
      /\ readyQ'[Normal] = <<Startup>>
      /\ \A p \in Priorities : IsInjective(readyQ'[p])
      /\ \A p \in Priorities : \A u :
            Listed(readyQ'[p], u) <=> Listed(readyQ[p], u) \/ (p = Normal /\ u = Startup)
  <2>1. /\ readyQ \in [Priorities -> Seq(Threads)]
        /\ \A p \in Priorities : IsInjective(readyQ[p])
    BY <1>1 DEF TypeOK, QueueDiscipline, ReadyListed
  <2>2. IsInjective(<<Startup>>) /\ \A u : Listed(<<Startup>>, u) <=> u = Startup
    BY DEF IsInjective, Listed
  <2>3. \A u : ~Listed(readyQ[Normal], u)
    BY <1>1, EmptyListed
  <2> QED
    BY <1>2, <1>4, <2>1, <2>2, <2>3
<1>6. TypeOK'
  BY <1>1, <1>2, <1>3, <1>4, <1>5 DEF TypeOK, Modes
<1>7. QueueDiscipline'
  <2>1. ReadyListed'
    <3>1. /\ state'[Startup] = "Ready" /\ prio'[Startup] = Normal
          /\ \A u \in Threads \ {Startup} : state'[u] = state[u] /\ prio'[u] = prio[u]
      BY <1>1, <1>2, <1>3 DEF TypeOK
    <3>2. ASSUME NEW p \in Priorities, NEW u \in Threads, Listed(readyQ'[p], u)
          PROVE  state'[u] = "Ready" /\ prio'[u] = p
      <4>1. CASE u = Startup
        BY <1>2, <1>5, <3>1, <3>2, <4>1
      <4>2. CASE u # Startup
        <5>1. Listed(readyQ[p], u)
          BY <1>5, <3>2, <4>2
        <5> QED
          BY <1>1, <3>1, <4>2, <5>1 DEF ReadyListed, QueueDiscipline
      <4> QED
        BY <4>1, <4>2
    <3> QED
      BY <1>5, <3>2 DEF ReadyListed
  <2>2. SleepersListed'
    BY <1>1, <1>2, <1>3 DEF SleepersListed, QueueDiscipline, TypeOK
  <2>3. NoReadyThreadLost'
    <3> SUFFICES ASSUME NEW u \in Threads, state'[u] = "Ready"
                 PROVE  Listed(readyQ'[prio'[u]], u) \/ \E c \in Threads : making[c] = u
      BY <1>3 DEF NoReadyThreadLost
    <3>1. CASE u = Startup
      BY <1>1, <1>2, <1>3, <1>4, <1>5, <3>1 DEF TypeOK
    <3>2. CASE u # Startup
      <4>1. state[u] = "Ready" /\ prio'[u] = prio[u] /\ prio[u] \in Priorities
        BY <1>1, <1>3, <3>2 DEF TypeOK
      <4> QED
        BY <1>1, <1>5, <4>1 DEF QueueDiscipline, NoReadyThreadLost
    <3> QED
      BY <3>1, <3>2
  <2> QED
    BY <2>1, <2>2, <2>3 DEF QueueDiscipline
<1>8. CurrentAtFront' /\ NoAssertionFails' /\ HartState'
  BY <1>1, <1>3 DEF CurrentAtFront, NoAssertionFails, HartState, Booting
<1>9. FreeSlotsUnused' /\ CreatorsApart'
  BY <1>1, <1>2, <1>3, <1>5 DEF FreeSlotsUnused, CreatorsApart, TypeOK
<1>10. IdleListed'
  <2>1. IdlePriority \in Priorities
    BY DEF IdlePriority, Priorities
  <2> QED
    BY <1>1, <1>5, <2>1 DEF IdleListed
<1>11. BootShape'
  BY <1>1, <1>3, <1>5 DEF BootShape
<1>12. AllocsApart'
  BY <1>1, <1>3, NobodyAllocates
<1> QED
  BY <1>6, <1>7, <1>8, <1>9, <1>10, <1>11, <1>12 DEF IInv

(* Saros::run leaves the boot stack for the startup thread. *)
LEMMA RunStartupStep ==
    ASSUME IInv, RunStartup
    PROVE  IInv'
<1>1. /\ TypeOK /\ QueueDiscipline /\ FreeSlotsUnused /\ CreatorsApart /\ IdleListed
      /\ waking = None
      /\ mode = "armed"
      /\ readyQ[Normal] = <<Startup>>
      /\ NoAssertionFails
  BY DEF IInv, RunStartup, BootShape, Booting
<1>2. /\ UNCHANGED <<readyQ, waitQ, broken, state, prio, free, taking, behind, making, waking,
                     prevMie, panic>>
      /\ running' = TRUE
      /\ tp' = Startup
      /\ mode' = "thread"
      /\ mie' = mpie
      /\ mpie' = TRUE
  BY DEF RunStartup, SwitchIn, listVars, threadVars, wakeVars
<1>3. Startup \in Threads /\ Startup # None /\ Normal \in Priorities
  BY ThreadAssumption DEF Normal, Priorities
<1>4. state[Startup] = "Ready" /\ prio[Startup] = Normal
  <2>1. Listed(readyQ[Normal], Startup)
    BY <1>1 DEF Listed
  <2> QED
    BY <1>1, <1>3, <2>1 DEF QueueDiscipline, ReadyListed
<1>5. TypeOK'
  BY <1>1, <1>2, <1>3 DEF TypeOK, Modes
<1>6. QueueDiscipline' /\ CreatorsApart' /\ IdleListed' /\ NoAssertionFails'
  BY <1>1, <1>2 DEF QueueDiscipline, ReadyListed, SleepersListed, NoReadyThreadLost,
                    CreatorsApart, IdleListed, NoAssertionFails
<1>7. CurrentAtFront' /\ HartState'
  <2>1. readyQ[prio[Startup]] # <<>> /\ Head(readyQ[prio[Startup]]) = Startup
    <3>1. readyQ[prio[Startup]] = <<Startup>>
      BY <1>1, <1>4
    <3>2. <<Startup>> # <<>> /\ Head(<<Startup>>) = Startup
      OBVIOUS
    <3> QED
      BY <3>1, <3>2
  <2> QED
    BY <1>2, <1>3, <1>4, <2>1 DEF CurrentAtFront, HartState, Booting
<1>8. FreeSlotsUnused'
  BY <1>1, <1>2, <1>4 DEF FreeSlotsUnused
<1>9. BootShape'
  BY <1>2 DEF BootShape, Booting
<1>10. AllocsApart'
  BY <1>2, AllocsKept DEF IInv, AllocsApart
<1> QED
  BY <1>5, <1>6, <1>7, <1>8, <1>9, <1>10 DEF IInv

-----------------------------------------------------------------------------
(* The theorem.                                                             *)

(* What only touches the hart's flags leaves the lists as they are. *)
LEMMA FlagStep ==
    ASSUME IInv, UNCHANGED <<listVars, threadVars, tp, running>>,
           mode' \in Modes, mie' \in BOOLEAN, mpie' \in BOOLEAN, prevMie' \in BOOLEAN,
           panic' \in {"none", "pool empty"}, waking' \in Queues \cup {None},
           HartState', BootShape', mode' # "reset" => mode # "reset"
    PROVE  IInv'
<1>1. UNCHANGED <<readyQ, waitQ, broken, state, prio, free, taking, behind, making>>
  BY DEF listVars, threadVars
<1>2. TypeOK'
  BY <1>1 DEF IInv, TypeOK, Panics
<1>3. QueueDiscipline' /\ CurrentAtFront' /\ FreeSlotsUnused' /\ CreatorsApart' /\ IdleListed'
  BY <1>1 DEF IInv, QueueDiscipline, ReadyListed, SleepersListed, NoReadyThreadLost,
              CurrentAtFront, FreeSlotsUnused, CreatorsApart, IdleListed
<1>4. NoAssertionFails'
  BY DEF NoAssertionFails
<1>5. AllocsApart'
  BY <1>1, AllocsKept DEF IInv, AllocsApart
<1> QED
  BY <1>2, <1>3, <1>4, <1>5 DEF IInv

(* The actions that move no thread. *)
LEMMA HartStep ==
    ASSUME IInv, \/ InitIrq \/ PoolFails \/ DisableIrq \/ EnableIrq
                 \/ (\E q \in Queues : WakeAllThreads(q)) \/ WakeDone \/ IrqEnter \/ Halted
                 \/ UNCHANGED schedVars
    PROVE  IInv'
<1>1. TypeOK /\ NoAssertionFails /\ HartState /\ BootShape
  BY DEF IInv
<1>2. /\ mode \in Modes /\ mie \in BOOLEAN /\ mpie \in BOOLEAN /\ prevMie \in BOOLEAN
      /\ waking \in Queues \cup {None} /\ panic \in {"none", "pool empty"}
  BY <1>1 DEF TypeOK, NoAssertionFails
<1>3. CASE InitIrq
  BY <1>1, <1>2, <1>3, FlagStep
     DEF InitIrq, Modes, listVars, threadVars, wakeVars, HartState, BootShape, Booting
<1>4. CASE PoolFails
  BY <1>1, <1>2, <1>4, FlagStep
     DEF PoolFails, Calls, InThread, listVars, threadVars, wakeVars, HartState, BootShape, Booting
<1>5. CASE DisableIrq \/ EnableIrq
  BY <1>1, <1>2, <1>5, FlagStep
     DEF DisableIrq, EnableIrq, Calls, InThread, listVars, threadVars, wakeVars, HartState,
         BootShape, Booting
<1>6. CASE \E q \in Queues : WakeAllThreads(q)
  <2>1. PICK q \in Queues : WakeAllThreads(q)
    BY <1>6
  <2>2. /\ mode \in {"thread", "irq"} /\ panic = "none"
        /\ waking' = q /\ prevMie' = mie /\ mie' = FALSE
        /\ UNCHANGED <<listVars, threadVars, tp, mode, mpie, running, panic>>
    BY <2>1 DEF WakeAllThreads, Calls, InThread, InHandler
  <2>3. HartState' /\ BootShape'
    BY <1>1, <2>2 DEF HartState, BootShape, Booting
  <2> QED
    BY <1>2, <2>2, <2>3, FlagStep
<1>7. CASE WakeDone
  BY <1>1, <1>2, <1>7, FlagStep, ThreadAssumption
     DEF WakeDone, listVars, threadVars, HartState, BootShape, Booting
<1>8. CASE IrqEnter
  BY <1>1, <1>2, <1>8, FlagStep
     DEF IrqEnter, Modes, listVars, threadVars, wakeVars, HartState, BootShape, Booting
<1>9. CASE Halted \/ UNCHANGED schedVars
  BY <1>1, <1>2, <1>9, FlagStep
     DEF Halted, schedVars, listVars, threadVars, HartState, BootShape, Booting
<1> QED
  BY <1>3, <1>4, <1>5, <1>6, <1>7, <1>8, <1>9

(* The state the hart is reset into satisfies the invariant. *)
LEMMA InitIInv == Init => IInv
<1> SUFFICES ASSUME Init PROVE IInv
  OBVIOUS
<1>1. TypeOK
  <2>1. /\ readyQ \in [Priorities -> Seq(Threads)]
        /\ waitQ \in [Queues -> Seq(Threads)]
    BY DEF Init
  <2>2. Normal \in Priorities
    BY DEF Normal, Priorities
  <2> QED
    BY <2>1, <2>2 DEF Init, TypeOK, Modes, Panics
<1>2. QueueDiscipline
  BY EmptyListed DEF Init, QueueDiscipline, ReadyListed, SleepersListed, NoReadyThreadLost
<1>3. CurrentAtFront /\ NoAssertionFails /\ FreeSlotsUnused /\ CreatorsApart /\ AllocsApart
  BY ThreadAssumption DEF Init, CurrentAtFront, NoAssertionFails, FreeSlotsUnused, CreatorsApart,
                          AllocsApart
<1>4. IdleListed /\ BootShape /\ HartState
  BY DEF Init, IdleListed, BootShape, HartState, Booting
<1> QED
  BY <1>1, <1>2, <1>3, <1>4 DEF IInv

(* Every step of the scheduler preserves it. *)
LEMMA NextIInv == IInv /\ [Next]_schedVars => IInv'
<1> SUFFICES ASSUME IInv, [Next]_schedVars PROVE IInv'
  OBVIOUS
<1>1. CASE Boot
  BY <1>1, CreateIdleStep, CreateStartupStep, RunStartupStep, HartStep DEF Boot
<1>2. CASE Create
  BY <1>2, ReadFreeStep, AllocThreadStep, PushThreadStep, HartStep DEF Create, BeginCreate
<1>3. CASE GiveUp
  BY <1>3, SleepOnStep, StopThreadStep DEF GiveUp
<1>4. CASE WakeAll
  BY <1>4, WakeFrontStep, HartStep DEF WakeAll
<1>5. CASE IrqReturn
  BY <1>5, IrqReturnStep
<1>6. CASE \E q \in Queues : WakeOneThread(q)
  BY <1>6, WakeOneStep
<1>7. CASE DisableIrq \/ EnableIrq \/ IrqEnter \/ Halted \/ UNCHANGED schedVars
  BY <1>7, HartStep
<1> QED
  BY <1>1, <1>2, <1>3, <1>4, <1>5, <1>6, <1>7 DEF Next, CoreNext

(* In every reachable state of the scheduler, wakeOneThread included, the   *)
(* inductive invariant holds, as long as only threads of normal priority    *)
(* create others.                                                           *)
THEOREM Safety == Spec => []IInv
<1> QED
  BY InitIInv, NextIInv, PTL DEF Spec

(* Every variable keeps its type: Scheduler and Thread fields stay in range. *)
THEOREM TypeCorrect == Spec => []TypeOK
<1>1. IInv => TypeOK
  BY DEF IInv
<1> QED
  BY <1>1, Safety, PTL

(* sleepOn, stopThread, schedule and createThread leave every thread on the *)
(* list its state and priority say, and on no other.                        *)
THEOREM ListsFollowStates == Spec => []QueueDiscipline
<1>1. IInv => QueueDiscipline
  BY DEF IInv
<1> QED
  BY <1>1, Safety, PTL

(* rescheduleImpl never leaves tp pointing at a thread that is not Ready at *)
(* the front of the queue of its priority.                                  *)
THEOREM RunnerIsFront == Spec => []CurrentAtFront
<1>1. IInv => CurrentAtFront
  BY DEF IInv
<1> QED
  BY <1>1, Safety, PTL

(* None of the three assertions of scheduler.cpp fails, whatever threads    *)
(* and handlers do; the stack pool is the only thing that can give out.     *)
THEOREM AssertionsHold == Spec => []NoAssertionFails
<1>1. IInv => NoAssertionFails
  BY DEF IInv
<1> QED
  BY <1>1, Safety, PTL

(* A stack slot on the free list is in nobody's use, and no creator enters  *)
(* alloc while another is between its load and its store, so that each gets *)
(* a slot of its own: as long as only threads of normal priority create.    *)
THEOREM StacksNotShared == Spec => [](FreeSlotsUnused /\ AllocsApart /\ CreatorsApart)
<1>1. IInv => FreeSlotsUnused /\ AllocsApart /\ CreatorsApart
  BY DEF IInv
<1> QED
  BY <1>1, Safety, PTL

(* sleepOn, stopThread and the way out of a handler hand the hart over with *)
(* interrupts enabled, whatever the previous thread had done to MIE: once a *)
(* thread has run, MPIE is set in all of them.                              *)
THEOREM SleepEnablesIrq == Spec => SwitchEnablesIrq
<1>1. ASSUME IInv, [Next]_schedVars
      PROVE  tp # None /\ tp' # tp => mie'
  <2> SUFFICES ASSUME tp # None, tp' # tp PROVE mie'
    OBVIOUS
  <2>1. ~Booting /\ mpie
    BY <1>1 DEF IInv, BootShape, HartState
  <2>2. CASE (\E q \in Queues : SleepOn(q)) \/ StopThread \/ IrqReturn
    BY <2>1, <2>2 DEF SleepOn, StopThread, IrqReturn, Reschedule, SwitchIn
  <2>3. CASE Boot
    BY <2>1, <2>3 DEF Boot, CreateIdle, CreateStartup, InitIrq, RunStartup, Booting
  <2>4. CASE Create \/ WakeAll \/ (\E q \in Queues : WakeOneThread(q))
    BY <2>4 DEF Create, BeginCreate, ReadFree, AllocThread, PoolFails, PushThread, WakeAll,
                WakeAllThreads,
                WakeFront, WakeDone, WakeOneThread, cpuVars
  <2>5. CASE DisableIrq \/ EnableIrq \/ IrqEnter \/ Halted \/ UNCHANGED schedVars
    BY <2>5 DEF DisableIrq, EnableIrq, IrqEnter, Halted, schedVars
  <2> QED
    BY <1>1, <2>2, <2>3, <2>4, <2>5 DEF Next, CoreNext, GiveUp
<1> QED
  BY <1>1, Safety, PTL DEF Spec, SwitchEnablesIrq

-----------------------------------------------------------------------------
(* What the users of the scheduler rely on.                                 *)

(* Only sleepOn puts a thread on a wait queue, and on the one it is given. *)
LEMMA WaitersOfStep ==
    ASSUME IInv, [Next]_schedVars, NEW q \in Queues, NEW t,
           Listed(waitQ'[q], t), ~Listed(waitQ[q], t)
    PROVE  SleepOn(q) /\ t = tp
<1> USE DEF IInv
<1>1. waitQ \in [Queues -> Seq(Threads)]
  BY DEF TypeOK
<1>2. ASSUME waitQ' = waitQ PROVE FALSE
  BY <1>2
<1>3. CASE Boot \/ Create
  BY <1>2, <1>3 DEF Boot, CreateIdle, CreateStartup, InitIrq, RunStartup, Create,
                    BeginCreate, ReadFree, AllocThread, PoolFails, PushThread, listVars
<1>4. CASE DisableIrq \/ EnableIrq \/ IrqEnter \/ IrqReturn \/ Halted \/ UNCHANGED schedVars
  BY <1>2, <1>4 DEF DisableIrq, EnableIrq, IrqEnter, IrqReturn, Halted, schedVars, listVars
<1>5. CASE StopThread
  <2>1. tp # None
    BY <1>5 DEF StopThread, Calls, InThread, HartState
  <2> QED
    BY <1>2, <1>5, <2>1, RunnerListed DEF StopThread
<1>6. CASE \E r \in Queues : SleepOn(r)
  <2>1. PICK r \in Queues : SleepOn(r)
    BY <1>6
  <2>2. tp # None
    BY <2>1 DEF SleepOn, Calls, InThread, HartState
  <2>3. waitQ' = PushWaiter(waitQ, r, tp) /\ tp \in Threads /\ ~Listed(waitQ[r], tp)
    BY <2>1, <2>2, RunnerListed DEF SleepOn
  <2>4. r \notin broken /\ waitQ' = [waitQ EXCEPT ![r] = Append(@, tp)]
    BY <1>2, <2>3 DEF PushWaiter, PushBack
  <2>5. q = r
    BY <1>1, <2>4
  <2>6. Listed(Append(waitQ[r], tp), t) <=> Listed(waitQ[r], t) \/ t = tp
    <3>1. waitQ[r] \in Seq(Threads) /\ IsInjective(waitQ[r])
      BY <1>1 DEF QueueDiscipline, SleepersListed
    <3> QED
      BY <2>3, <3>1, AppendListed
  <2> QED
    BY <1>1, <2>1, <2>4, <2>5, <2>6
<1>7. CASE WakeAll
  <2>1. CASE (\E r \in Queues : WakeAllThreads(r)) \/ WakeDone
    BY <1>2, <2>1 DEF WakeAllThreads, WakeDone, listVars
  <2>2. CASE WakeFront
    <3>1. waking \in Queues /\ waitQ[waking] # <<>>
      BY <2>2 DEF WakeFront, TypeOK
    <3>2. /\ waitQ' = [waitQ EXCEPT ![waking] = Tail(@)]
          /\ \A u : Listed(Tail(waitQ[waking]), u) => Listed(waitQ[waking], u)
      BY <2>2, <3>1, WaiterListed DEF WakeFront
    <3> QED
      BY <1>1, <3>1, <3>2
  <2> QED
    BY <1>7, <2>1, <2>2 DEF WakeAll
<1>8. CASE \E r \in Queues : WakeOneThread(r)
  <2>1. PICK r \in Queues : WakeOneThread(r)
    BY <1>8
  <2> DEFINE rest == [waitQ EXCEPT ![r] = Tail(@)]
  <2>2. waitQ[r] # <<>> /\ waitQ[r] \in Seq(Threads)
    BY <1>1, <2>1 DEF WakeOneThread
  <2>3. /\ UnlinkAll(waitQ, Head(waitQ[r])) = rest
        /\ Tail(waitQ[r]) \in Seq(Threads)
        /\ IsInjective(Tail(waitQ[r]))
        /\ \A u : Listed(Tail(waitQ[r]), u) => Listed(waitQ[r], u)
    BY <2>2, WaiterListed
  <2>4. waitQ' = rest \/ (rest[r] # <<>> /\ waitQ' = [rest EXCEPT ![r] = Tail(@)])
    BY <2>1, <2>3 DEF WakeOneThread
  <2>5. CASE waitQ' = rest
    BY <1>1, <2>3, <2>5
  <2>6. CASE rest[r] # <<>> /\ waitQ' = [rest EXCEPT ![r] = Tail(@)]
    <3>1. /\ rest[r] = Tail(waitQ[r])
          /\ waitQ'[r] = Tail(Tail(waitQ[r]))
          /\ \A s \in Queues \ {r} : waitQ'[s] = waitQ[s]
      BY <1>1, <2>6
    <3>2. \A u : Listed(Tail(Tail(waitQ[r])), u) => Listed(Tail(waitQ[r]), u)
      BY <2>3, <2>6, <3>1, TailListed
    <3> QED
      BY <2>3, <3>1, <3>2
  <2> QED
    BY <2>4, <2>5, <2>6
<1> QED
  BY <1>3, <1>4, <1>5, <1>6, <1>7, <1>8 DEF Next, CoreNext, GiveUp

(* A sleep on one queue leaves the waiters of the others where they are. *)
LEMMA SleepElsewhere ==
    ASSUME IInv, NEW q \in Queues, NEW r \in Queues, q # r, SleepOn(r)
    PROVE  waitQ'[q] = waitQ[q]
<1>1. waitQ \in [Queues -> Seq(Threads)]
  BY DEF IInv, TypeOK
<1>2. tp # None
  BY DEF IInv, HartState, SleepOn, Calls, InThread
<1>3. waitQ' = PushWaiter(waitQ, r, tp)
  BY <1>2, RunnerListed DEF SleepOn
<1> QED
  BY <1>1, <1>3 DEF PushWaiter, PushBack

(* Only threads make calls. *)
LEMMA CallerIsThread == IInv /\ Calls => tp \in Threads
  BY DEF IInv, TypeOK, HartState, Calls, InThread

-----------------------------------------------------------------------------
(* Who gets the hart.                                                       *)

(* rescheduleImpl leaves nothing more urgent on the ready queues than what  *)
(* it switches to, and takes the hart from a Ready thread only for more.    *)
LEMMA ChosenMostUrgent ==
    ASSUME TypeOK, NEW rq \in [Priorities -> Seq(Threads)], NEW st,
           NEW current \in Threads \cup {None},
           \A p \in Priorities : \A t \in Threads :
               Listed(rq[p], t) => st[t] = "Ready" /\ prio[t] = p,
           Listed(rq[IdlePriority], Idle)
    PROVE  /\ \A p \in Priorities : p < prio[Chosen(rq, st, current)] => rq[p] = <<>>
           /\ IsReady(st, current) /\ Chosen(rq, st, current) # current
                  => prio[Chosen(rq, st, current)] < prio[current]
<1> DEFINE ps == Eligible(rq, st, current)
<1>1. ps \subseteq 0 .. 2 /\ Priorities = 0 .. 2
  BY DEF Eligible, Priorities
<1>2. IsReady(st, current) => current \in Threads /\ prio[current] \in Priorities
  BY DEF IsReady, TypeOK
<1>3. CASE ps # {}
  <2> DEFINE m == CHOOSE x \in ps : \A r \in ps : x <= r
  <2>1. \E x \in ps : \A r \in ps : x <= r
    BY <1>1, <1>3
  <2>2. m \in ps /\ \A r \in ps : m <= r
    BY <2>1
  <2>3. Chosen(rq, st, current) = Head(rq[m])
    BY <1>3 DEF Chosen
  <2> HIDE DEF m
  <2>4. /\ m \in Priorities /\ rq[m] # <<>> /\ rq[m] \in Seq(Threads)
        /\ IsReady(st, current) => m < prio[current]
    BY <2>2 DEF Eligible
  <2>5. prio[Chosen(rq, st, current)] = m
    <3>1. Listed(rq[m], Head(rq[m])) /\ Head(rq[m]) \in Threads
      BY <2>4 DEF Listed
    <3> QED
      BY <2>3, <2>4, <3>1
  <2>6. ASSUME NEW p \in Priorities, p < m PROVE rq[p] = <<>>
    <3>1. p \notin ps
      BY <1>1, <2>2, <2>6
    <3>2. IsReady(st, current) => p < prio[current]
      BY <1>1, <1>2, <2>4, <2>6
    <3> QED
      BY <3>1, <3>2 DEF Eligible
  <2> QED
    BY <2>4, <2>5, <2>6
<1>4. CASE ps = {}
  <2>1. IsReady(st, current)
    <3>1. IdlePriority \in Priorities /\ rq[IdlePriority] # <<>>
      BY EmptyListed DEF IdlePriority, Priorities
    <3> QED
      BY <1>4, <3>1 DEF Eligible
  <2>2. Chosen(rq, st, current) = current
    BY <1>4, <2>1 DEF Chosen
  <2> QED
    BY <1>4, <2>1, <2>2 DEF Eligible
<1> QED
  BY <1>3, <1>4

(* Until the startup thread runs, no thread of high priority exists. *)
NothingUrgentYet == Booting => readyQ[High] = <<>>

(* The state the hart is reset into has no thread at all. *)
LEMMA InitNothingUrgent == Init => NothingUrgentYet
  BY DEF Init, NothingUrgentYet, High, Priorities

(* The boot flow queues the idle and the startup thread and nothing else. *)
LEMMA NothingUrgentStep == IInv /\ NothingUrgentYet /\ [Next]_schedVars => NothingUrgentYet'
<1> SUFFICES ASSUME IInv, NothingUrgentYet, [Next]_schedVars, Booting'
             PROVE  readyQ'[High] = <<>>
  BY DEF NothingUrgentYet
<1>1. /\ High \in Priorities /\ Normal \in Priorities /\ IdlePriority \in Priorities
      /\ High # Normal /\ High # IdlePriority /\ Normal # IdlePriority
      /\ readyQ \in [Priorities -> Seq(Threads)]
  BY DEF High, Normal, IdlePriority, Priorities, IInv, TypeOK
<1>2. CASE CreateIdle
  <2>1. readyQ = [p \in Priorities |-> <<>>]
    BY <1>2 DEF CreateIdle, IInv, BootShape
  <2>2. readyQ' = PushBack(UnlinkAll(PushBack(readyQ, Normal, Idle), Idle), IdlePriority, Idle)
    BY <1>2 DEF CreateIdle
  <2>3. PushBack(readyQ, Normal, Idle)[High] = <<>>
        /\ DOMAIN PushBack(readyQ, Normal, Idle) = Priorities
    BY <1>1, <2>1 DEF PushBack
  <2>4. UnlinkAll(PushBack(readyQ, Normal, Idle), Idle)[High] = <<>>
        /\ DOMAIN UnlinkAll(PushBack(readyQ, Normal, Idle), Idle) = Priorities
    BY <1>1, <2>3, EmptyListed DEF UnlinkAll, Unlink, Listed
  <2> QED
    BY <1>1, <2>2, <2>4 DEF PushBack
<1>3. CASE CreateStartup
  BY <1>1, <1>3 DEF CreateStartup, PushBack, NothingUrgentYet, Booting
<1>4. CASE InitIrq
  BY <1>4 DEF InitIrq, listVars, NothingUrgentYet, Booting
<1>5. CASE RunStartup \/ Create \/ GiveUp \/ WakeAll \/ IrqReturn \/ DisableIrq \/ EnableIrq
           \/ IrqEnter \/ (\E q \in Queues : WakeOneThread(q)) \/ Halted \/ UNCHANGED schedVars
  <2>1. Booting /\ readyQ' = readyQ
    <3>1. CASE RunStartup \/ IrqReturn \/ IrqEnter
      BY <1>5, <3>1 DEF RunStartup, SwitchIn, IrqReturn, Reschedule, IrqEnter, Booting
    <3>2. CASE GiveUp
      BY <3>2 DEF GiveUp, SleepOn, StopThread, Reschedule, SwitchIn, Booting
    <3>3. CASE DisableIrq \/ EnableIrq \/ Create \/ \E q \in Queues : WakeOneThread(q)
      BY <3>3 DEF Create, BeginCreate, ReadFree, AllocThread, PoolFails, PushThread, DisableIrq,
                  EnableIrq, Booting, WakeOneThread, Calls, InThread, cpuVars
    <3>4. CASE WakeAll
      <4>1. waking # None \/ ~Booting
        BY <3>4 DEF WakeAll, WakeFront, WakeDone, WakeAllThreads, Calls, InThread, InHandler,
                    Booting
      <4>2. ~Booting
        BY <4>1 DEF IInv, BootShape
      <4>3. mode' = mode
        BY <3>4 DEF WakeAll, WakeFront, WakeDone, WakeAllThreads, cpuVars
      <4> QED
        BY <4>2, <4>3 DEF Booting
    <3>5. CASE Halted \/ UNCHANGED schedVars
      BY <3>5 DEF Halted, schedVars, Booting
    <3> QED
      BY <1>5, <3>1, <3>2, <3>3, <3>4, <3>5
  <2> QED
    BY <2>1 DEF NothingUrgentYet
<1> QED
  BY <1>2, <1>3, <1>4, <1>5 DEF Next, CoreNext, Boot

(* The steps that hand the hart over leave nothing more urgent waiting, and *)
(* take it from a thread that stays Ready only for a more urgent one.       *)
LEMMA HandOverStep ==
    ASSUME IInv, NothingUrgentYet,
           RunStartup \/ StopThread \/ (\E q \in Queues : SleepOn(q)) \/ IrqReturn
    PROVE  /\ \A p \in Priorities : p < prio[tp'] => readyQ'[p] = <<>>
           /\ tp # None /\ tp' # tp /\ state'[tp] = "Ready" => prio[tp'] < prio[tp]
<1>1. TypeOK /\ QueueDiscipline /\ IdleListed /\ readyQ \in [Priorities -> Seq(Threads)]
      /\ IdlePriority \in Priorities
  BY DEF IInv, TypeOK, IdlePriority, Priorities
<1>2. CASE RunStartup
  <2>1. tp = None /\ tp' = Startup /\ readyQ' = readyQ /\ readyQ[High] = <<>>
        /\ readyQ[Normal] = <<Startup>>
    BY <1>2 DEF RunStartup, SwitchIn, listVars, IInv, BootShape, Booting, NothingUrgentYet
  <2>2. prio[Startup] = Normal
    <3>1. Listed(readyQ[Normal], Startup) /\ Startup \in Threads /\ Normal \in Priorities
      BY <2>1, ThreadAssumption DEF Listed, Normal, Priorities
    <3> QED
      BY <1>1, <3>1 DEF QueueDiscipline, ReadyListed
  <2> QED
    BY <2>1, <2>2 DEF High, Normal, Priorities
<1>3. CASE StopThread
  <2>1. tp # None /\ tp # Idle /\ mode = "thread"
    BY <1>3 DEF StopThread, Calls, InThread, IInv, HartState
  <2>2. /\ readyQ' \in [Priorities -> Seq(Threads)]
        /\ \A p \in Priorities : \A u : Listed(readyQ'[p], u) <=> Listed(readyQ[p], u) /\ u # tp
    BY <1>3, <2>1, RunnerListed, RunnerUnlinked DEF StopThread
  <2>3. /\ state' = [state EXCEPT ![tp] = "Dead"] /\ tp \in Threads
        /\ tp' = Chosen(readyQ', state', None)
    BY <1>3, <2>1, RunnerListed DEF StopThread, Reschedule, SwitchIn
  <2>4. /\ \A p \in Priorities : \A t \in Threads :
              Listed(readyQ'[p], t) => state'[t] = "Ready" /\ prio[t] = p
        /\ Listed(readyQ'[IdlePriority], Idle)
    BY <1>1, <2>1, <2>2, <2>3 DEF TypeOK, QueueDiscipline, ReadyListed, IdleListed
  <2>5. /\ \A p \in Priorities : p < prio[Chosen(readyQ', state', None)] => readyQ'[p] = <<>>
        /\ IsReady(state', None) /\ Chosen(readyQ', state', None) # None
              => prio[Chosen(readyQ', state', None)] < prio[None]
    <3>1. TypeOK /\ None \in Threads \cup {None} /\ readyQ' \in [Priorities -> Seq(Threads)]
      BY <1>1, <2>2, <2>3
    <3> QED
      BY <2>4, <3>1, ChosenMostUrgent
  <2>6. state'[tp] # "Ready"
    BY <1>1, <2>3 DEF TypeOK
  <2> QED
    BY <2>3, <2>5, <2>6
<1>4. CASE \E q \in Queues : SleepOn(q)
  <2>1. tp # None /\ tp # Idle /\ mode = "thread"
    BY <1>4 DEF SleepOn, Calls, InThread, IInv, HartState
  <2>2. /\ readyQ' \in [Priorities -> Seq(Threads)]
        /\ \A p \in Priorities : \A u : Listed(readyQ'[p], u) <=> Listed(readyQ[p], u) /\ u # tp
    BY <1>4, <2>1, RunnerListed, RunnerUnlinked DEF SleepOn
  <2>3. /\ state' = [state EXCEPT ![tp] = "Sleeping"] /\ tp \in Threads
        /\ tp' = Chosen(readyQ', state', tp)
    BY <1>4, <2>1, RunnerListed DEF SleepOn, Reschedule, SwitchIn
  <2>4. /\ \A p \in Priorities : \A t \in Threads :
              Listed(readyQ'[p], t) => state'[t] = "Ready" /\ prio[t] = p
        /\ Listed(readyQ'[IdlePriority], Idle)
    BY <1>1, <2>1, <2>2, <2>3 DEF TypeOK, QueueDiscipline, ReadyListed, IdleListed
  <2>5. /\ \A p \in Priorities : p < prio[Chosen(readyQ', state', tp)] => readyQ'[p] = <<>>
        /\ IsReady(state', tp) /\ Chosen(readyQ', state', tp) # tp
              => prio[Chosen(readyQ', state', tp)] < prio[tp]
    <3>1. TypeOK /\ tp \in Threads \cup {None} /\ readyQ' \in [Priorities -> Seq(Threads)]
      BY <1>1, <2>2, <2>3
    <3> QED
      BY <2>4, <3>1, ChosenMostUrgent
  <2>6. state'[tp] # "Ready"
    BY <1>1, <2>3 DEF TypeOK
  <2> QED
    BY <2>3, <2>5, <2>6
<1>5. CASE IrqReturn
  <2>1. mode = "irq" /\ readyQ' = readyQ /\ state' = state /\ tp' = Chosen(readyQ, state, tp)
    BY <1>5 DEF IrqReturn, InHandler, listVars, threadVars, Reschedule, SwitchIn
  <2>2. /\ \A p \in Priorities : \A t \in Threads :
              Listed(readyQ[p], t) => state[t] = "Ready" /\ prio[t] = p
        /\ Listed(readyQ[IdlePriority], Idle)
        /\ tp \in Threads \cup {None}
    BY <1>1, <2>1 DEF TypeOK, QueueDiscipline, ReadyListed, IdleListed
  <2>3. /\ \A p \in Priorities : p < prio[Chosen(readyQ, state, tp)] => readyQ[p] = <<>>
        /\ IsReady(state, tp) /\ Chosen(readyQ, state, tp) # tp
              => prio[Chosen(readyQ, state, tp)] < prio[tp]
    BY <1>1, <2>2, ChosenMostUrgent
  <2> QED
    BY <2>1, <2>3 DEF IsReady
<1> QED
  BY <1>2, <1>3, <1>4, <1>5

(* Every other step leaves the hart where it is. *)
LEMMA HartStays ==
    ASSUME IInv, [Next]_schedVars, tp' # tp \/ (mode = "irq" /\ mode' = "thread")
    PROVE  RunStartup \/ StopThread \/ (\E q \in Queues : SleepOn(q)) \/ IrqReturn
<1>1. CASE CreateIdle \/ CreateStartup \/ InitIrq
  BY <1>1 DEF CreateIdle, CreateStartup, InitIrq
<1>2. CASE Create \/ DisableIrq \/ EnableIrq \/ IrqEnter
  BY <1>2 DEF Create, BeginCreate, ReadFree, AllocThread, PoolFails, PushThread, DisableIrq,
              EnableIrq, IrqEnter, cpuVars
<1>3. CASE WakeAll \/ \E q \in Queues : WakeOneThread(q)
  BY <1>3 DEF WakeAll, WakeAllThreads, WakeFront, WakeDone, WakeOneThread, cpuVars
<1>4. CASE Halted \/ UNCHANGED schedVars
  BY <1>4 DEF Halted, schedVars
<1> QED
  BY <1>1, <1>2, <1>3, <1>4 DEF Next, CoreNext, Boot, GiveUp

(* Strict priorities, whoever calls what and whenever interrupts come: a thread *)
(* that can go on loses the hart only to a more urgent one, and no switch leaves *)
(* a more urgent thread waiting (rescheduleImpl).                                *)
THEOREM MoreUrgentFirst == Spec => PriorityDispatch
<1>1. IInv /\ NothingUrgentYet /\ [Next]_schedVars =>
          /\ (tp # None /\ tp' # tp /\ state'[tp] = "Ready") => prio[tp'] < prio[tp]
          /\ (tp' # tp \/ (mode = "irq" /\ mode' = "thread")) =>
                \A p \in Priorities : p < prio[tp'] => readyQ'[p] = <<>>
  BY HandOverStep, HartStays
<1>2. Init => NothingUrgentYet
  BY InitNothingUrgent
<1>3. IInv /\ NothingUrgentYet /\ [Next]_schedVars => NothingUrgentYet'
  BY NothingUrgentStep
<1> QED
  BY <1>1, <1>2, <1>3, Safety, PTL DEF Spec, PriorityDispatch

(* A sequence begins with itself, with nothing, and with what it was before  *)
(* something was appended.                                                   *)
LEMMA Beginnings ==
    ASSUME NEW S, NEW s \in Seq(S)
    PROVE  /\ IsPrefix(s, s)
           /\ IsPrefix(<<>>, s)
           /\ \A t \in S : IsPrefix(s, Append(s, t))
<1>1. Len(s) \in Nat
  OBVIOUS
<1>2. IsPrefix(s, s) /\ IsPrefix(<<>>, s)
  BY <1>1 DEF IsPrefix
<1>3. ASSUME NEW t \in S PROVE IsPrefix(s, Append(s, t))
  <2>1. /\ Append(s, t) \in Seq(S) /\ Len(Append(s, t)) = Len(s) + 1
        /\ \A i \in 1 .. Len(s) : Append(s, t)[i] = s[i]
    BY <1>1
  <2>2. SubSeq(Append(s, t), 1, Len(s)) = SubSeq(s, 1, Len(s))
    BY <1>1, <2>1
  <2> QED
    BY <1>1, <2>1, <2>2 DEF IsPrefix
<1> QED
  BY <1>2, <1>3

(* Pushing on a ready queue leaves what is before it in place. *)
LEMMA PushKeepsOrder ==
    ASSUME NEW rq \in [Priorities -> Seq(Threads)], NEW l \in Priorities, NEW t \in Threads,
           NEW p \in Priorities
    PROVE  IsPrefix(rq[p], PushBack(rq, l, t)[p])
<1>1. rq[p] \in Seq(Threads)
  OBVIOUS
<1>2. PushBack(rq, l, t)[p] = IF p = l THEN Append(rq[p], t) ELSE rq[p]
  BY DEF PushBack
<1> QED
  BY <1>1, <1>2, Beginnings

(* Round robin within a priority: a thread leaves a ready queue only from its *)
(* front, where it runs, and joins one only at its end.                       *)
THEOREM QueuesAreFair == Spec => FirstComeFirstServed
<1> DEFINE Kept(p) == \E s \in {readyQ[p], IF readyQ[p] = <<>> THEN <<>> ELSE Tail(readyQ[p])} :
                          IsPrefix(s, readyQ'[p])
<1>1. ASSUME IInv, [Next]_schedVars, NEW p \in Priorities
      PROVE  Kept(p)
  <2>1. TypeOK /\ readyQ \in [Priorities -> Seq(Threads)] /\ readyQ[p] \in Seq(Threads)
        /\ IInv' /\ readyQ' \in [Priorities -> Seq(Threads)]
    BY <1>1, NextIInv DEF IInv, TypeOK
  <2>2. ASSUME readyQ' = readyQ PROVE Kept(p)
    BY <2>1, <2>2, Beginnings
  <2>3. ASSUME NEW l \in Priorities, NEW t \in Threads, readyQ' = PushBack(readyQ, l, t)
        PROVE  Kept(p)
    BY <2>1, <2>3, PushKeepsOrder
  <2>4. ASSUME readyQ' = UnlinkAll(readyQ, tp), tp # None PROVE Kept(p)
    <3>1. /\ readyQ' = [readyQ EXCEPT ![prio[tp]] = Tail(@)] /\ prio[tp] \in Priorities
          /\ readyQ[prio[tp]] # <<>>
      BY <1>1, <2>4, RunnerListed DEF IInv, CurrentAtFront
    <3>2. CASE p = prio[tp]
      <4>1. readyQ'[p] = Tail(readyQ[p]) /\ readyQ[p] # <<>> /\ readyQ'[p] \in Seq(Threads)
        BY <2>1, <3>1, <3>2
      <4>2. IsPrefix(readyQ'[p], readyQ'[p])
        BY <4>1, Beginnings
      <4> QED
        BY <4>1, <4>2
    <3>3. CASE p # prio[tp]
      <4>1. readyQ'[p] = readyQ[p]
        BY <2>1, <3>1, <3>3
      <4>2. IsPrefix(readyQ[p], readyQ[p])
        BY <2>1, Beginnings
      <4> QED
        BY <4>1, <4>2
    <3> QED
      BY <3>2, <3>3
  <2>5. CASE CreateIdle
    <3>1. readyQ[p] = <<>>
      BY <1>1, <2>5 DEF CreateIdle, IInv, BootShape
    <3>2. readyQ'[p] \in Seq(Threads)
      BY <2>1
    <3>3. IsPrefix(<<>>, readyQ'[p])
      BY <3>2, Beginnings
    <3> QED
      BY <3>1, <3>3
  <2>6. CASE CreateStartup
    <3>1. Normal \in Priorities /\ Startup \in Threads
      BY ThreadAssumption DEF Normal, Priorities
    <3> QED
      BY <2>3, <2>6, <3>1 DEF CreateStartup
  <2>7. CASE PushThread
    <3>1. making[tp] \in Threads /\ prio[making[tp]] \in Priorities
      BY <1>1, <2>1, <2>7 DEF PushThread, InThread, TypeOK, IInv, HartState
    <3> QED
      BY <2>3, <2>7, <3>1 DEF PushThread
  <2>8. CASE StopThread \/ \E q \in Queues : SleepOn(q)
    BY <1>1, <2>4, <2>8 DEF StopThread, SleepOn, Calls, InThread, IInv, HartState
  <2>9. ASSUME NEW q \in Queues, waitQ[q] # <<>>, Schedule(Head(waitQ[q])) PROVE Kept(p)
    <3>1. /\ Head(waitQ[q]) \in Threads /\ prio[Head(waitQ[q])] \in Priorities
          /\ UnlinkAll(readyQ, Head(waitQ[q])) = readyQ
      BY <1>1, <2>1, <2>9, WaiterListed DEF TypeOK
    <3> QED
      BY <2>3, <2>9, <3>1 DEF Schedule
  <2>10. CASE WakeFront \/ \E q \in Queues : WakeOneThread(q)
    BY <2>1, <2>9, <2>10 DEF WakeFront, WakeOneThread, TypeOK
  <2>11. CASE \/ InitIrq \/ RunStartup \/ BeginCreate \/ (\E r \in {High, Normal} : AllocThread(r))
              \/ PoolFails \/ DisableIrq \/ EnableIrq \/ (\E q \in Queues : WakeAllThreads(q))
              \/ WakeDone \/ IrqEnter \/ IrqReturn \/ Halted \/ UNCHANGED schedVars
    BY <2>2, <2>11
       DEF InitIrq, RunStartup, BeginCreate, ReadFree, AllocThread, PoolFails, DisableIrq, EnableIrq, WakeAllThreads,
           WakeDone, IrqEnter, IrqReturn, Halted, listVars, schedVars
  <2> HIDE DEF Kept
  <2> QED
    BY <1>1, <2>5, <2>6, <2>7, <2>8, <2>10, <2>11
       DEF Next, CoreNext, Boot, Create, GiveUp, WakeAll
<1>2. IInv /\ [Next]_schedVars =>
          \A p \in Priorities :
              \E s \in {readyQ[p], IF readyQ[p] = <<>> THEN <<>> ELSE Tail(readyQ[p])} :
                  IsPrefix(s, readyQ'[p])
  BY <1>1
<1> QED
  BY <1>2, Safety, PTL DEF Spec, FirstComeFirstServed

(* A thread that can go on: Ready, at the front of its ready queue, and what *)
(* runs is no less urgent.  Whoever is preempted in the middle of a call is. *)
InFront(t) ==
    /\ state[t] = "Ready"
    /\ readyQ[prio[t]] # <<>>
    /\ Head(readyQ[prio[t]]) = t
    /\ prio[tp] <= prio[t]

(* The running thread is in front. *)
LEMMA RunnerInFront == IInv /\ tp # None => InFront(tp)
<1> SUFFICES ASSUME IInv, tp # None PROVE InFront(tp)
  OBVIOUS
<1>1. state[tp] = "Ready" /\ readyQ[prio[tp]] # <<>> /\ Head(readyQ[prio[tp]]) = tp
  BY DEF IInv, CurrentAtFront
<1>2. prio[tp] \in 0 .. 2
  BY RunnerListed DEF Priorities
<1> QED
  BY <1>1, <1>2 DEF InFront

(* Nobody but the running thread stops being Ready, and a priority is given *)
(* to a thread when it is created.                                          *)
LEMMA ReadyStays ==
    ASSUME IInv, [Next]_schedVars, NEW t \in Threads, state[t] = "Ready",
           t # tp \/ ~GiveUp
    PROVE  state'[t] = "Ready" /\ (tp # None => prio'[t] = prio[t])
<1>1. TypeOK
  BY DEF IInv
<1>2. CASE Boot
  <2>1. tp = None
    BY <1>2 DEF Boot, CreateIdle, CreateStartup, InitIrq, RunStartup, IInv, BootShape, Booting
  <2> QED
    BY <1>1, <1>2, <2>1 DEF Boot, CreateIdle, CreateStartup, InitIrq, RunStartup, threadVars, TypeOK
<1>3. CASE Create
  <2>1. ASSUME NEW p \in {High, Normal}, AllocThread(p)
        PROVE  state'[t] = "Ready" /\ prio'[t] = prio[t]
    <3>1. taking[tp] # t
      BY <2>1, SlotTaken
    <3> QED
      BY <1>1, <2>1, <3>1 DEF AllocThread, TypeOK
  <2> QED
    BY <1>3, <2>1 DEF Create, BeginCreate, ReadFree, PoolFails, PushThread, threadVars
<1>4. CASE GiveUp
  <2>1. t # tp
    BY <1>4
  <2> QED
    BY <1>1, <1>4, <2>1 DEF GiveUp, StopThread, SleepOn, TypeOK
<1>5. CASE WakeAll \/ \E q \in Queues : WakeOneThread(q)
  BY <1>1, <1>5 DEF WakeAll, WakeAllThreads, WakeFront, WakeDone, WakeOneThread, Schedule,
                    threadVars, TypeOK
<1>6. CASE DisableIrq \/ EnableIrq \/ IrqEnter \/ IrqReturn \/ Halted \/ UNCHANGED schedVars
  BY <1>6 DEF DisableIrq, EnableIrq, IrqEnter, IrqReturn, Halted, schedVars, threadVars
<1> QED
  BY <1>2, <1>3, <1>4, <1>5, <1>6 DEF Next, CoreNext

(* A thread in front stays there until it sleeps or stops, whatever runs    *)
(* in its stead.                                                            *)
LEMMA FrontStays ==
    ASSUME IInv, NothingUrgentYet, [Next]_schedVars, tp # None,
           NEW t \in Threads, InFront(t), t # tp \/ ~GiveUp
    PROVE  tp' # None /\ InFront(t)'
<1>1. /\ TypeOK /\ readyQ \in [Priorities -> Seq(Threads)] /\ mode \in {"thread", "irq"}
      /\ IInv' /\ tp' \in Threads \cup {None}
      /\ tp \in Threads /\ state[tp] = "Ready" /\ prio[tp] \in 0 .. 2 /\ prio[t] \in 0 .. 2
      /\ Priorities = 0 .. 2
  BY NextIInv, RunnerListed DEF IInv, TypeOK, BootShape, Booting, Priorities
<1>2. /\ state[t] = "Ready" /\ readyQ[prio[t]] # <<>> /\ Head(readyQ[prio[t]]) = t
      /\ prio[tp] <= prio[t] /\ readyQ[prio[t]] \in Seq(Threads)
  BY <1>1 DEF InFront
<1>3. state'[t] = "Ready" /\ prio'[t] = prio[t]
  BY <1>2, ReadyStays
<1> DEFINE Leads(rq) == rq[prio[t]] # <<>> /\ Head(rq[prio[t]]) = t
<1>4. Leads(readyQ')
  <2>1. ASSUME readyQ' = readyQ PROVE Leads(readyQ')
    BY <1>2, <2>1
  <2>2. ASSUME NEW l \in Priorities, NEW u \in Threads, readyQ' = PushBack(readyQ, l, u)
        PROVE  Leads(readyQ')
    <3>1. CASE prio[t] = l
      <4>1. readyQ'[prio[t]] = Append(readyQ[prio[t]], u)
        BY <1>1, <2>2, <3>1 DEF PushBack
      <4> QED
        BY <1>2, <4>1
    <3>2. CASE prio[t] # l
      BY <1>1, <1>2, <2>2, <3>2 DEF PushBack
    <3> QED
      BY <3>1, <3>2
  <2>3. CASE GiveUp
    <3>1. readyQ' = [readyQ EXCEPT ![prio[tp]] = Tail(@)] /\ Head(readyQ[prio[tp]]) = tp
      BY <1>1, <2>3, RunnerListed DEF GiveUp, StopThread, SleepOn, IInv, CurrentAtFront
    <3>2. prio[t] # prio[tp]
      BY <1>2, <2>3, <3>1
    <3> QED
      BY <1>1, <1>2, <3>1, <3>2
  <2>4. CASE Create
    <3>1. CASE PushThread
      <4>1. making[tp] \in Threads /\ prio[making[tp]] \in Priorities
        BY <1>1, <3>1 DEF PushThread, TypeOK
      <4> QED
        BY <2>2, <3>1, <4>1 DEF PushThread
    <3> QED
      BY <2>1, <2>4, <3>1 DEF Create, BeginCreate, ReadFree, AllocThread, PoolFails, listVars
  <2>5. ASSUME NEW q \in Queues, waitQ[q] # <<>>, Schedule(Head(waitQ[q]))
        PROVE  Leads(readyQ')
    <3>1. /\ Head(waitQ[q]) \in Threads /\ prio[Head(waitQ[q])] \in Priorities
          /\ UnlinkAll(readyQ, Head(waitQ[q])) = readyQ
      BY <1>1, <2>5, WaiterListed DEF TypeOK
    <3> QED
      BY <2>2, <2>5, <3>1 DEF Schedule
  <2>6. CASE WakeFront \/ \E q \in Queues : WakeOneThread(q)
    BY <1>1, <2>5, <2>6 DEF WakeFront, WakeOneThread, TypeOK
  <2>7. CASE Boot
    BY <1>1, <2>7 DEF Boot, CreateIdle, CreateStartup, InitIrq, RunStartup
  <2>8. CASE \/ DisableIrq \/ EnableIrq \/ (\E q \in Queues : WakeAllThreads(q))
             \/ WakeDone \/ IrqEnter \/ IrqReturn \/ Halted \/ UNCHANGED schedVars
    BY <2>1, <2>8
       DEF DisableIrq, EnableIrq, WakeAllThreads, WakeDone, IrqEnter, IrqReturn, Halted,
           listVars, schedVars
  <2> HIDE DEF Leads
  <2> QED
    BY <2>3, <2>4, <2>6, <2>7, <2>8 DEF Next, CoreNext, WakeAll
<1>5. prio'[tp'] <= prio[t]
  <2>1. CASE tp' = tp /\ ~GiveUp
    BY <1>1, <1>2, <2>1, ReadyStays
  <2>2. CASE tp' # tp \/ GiveUp
    <3>1. RunStartup \/ StopThread \/ (\E q \in Queues : SleepOn(q)) \/ IrqReturn
      BY <2>2, HartStays DEF GiveUp
    <3>2. \A p \in Priorities : p < prio[tp'] => readyQ'[p] = <<>>
      BY <3>1, HandOverStep
    <3>3. prio' = prio /\ mode' = "thread"
      BY <3>1 DEF RunStartup, StopThread, SleepOn, IrqReturn, Reschedule, SwitchIn, threadVars
    <3>4. tp' \in Threads /\ prio[tp'] \in 0 .. 2
      BY <1>1, <3>3 DEF IInv, HartState, TypeOK, Priorities
    <3> QED
      BY <1>1, <1>4, <3>2, <3>3, <3>4
  <2> QED
    BY <2>1, <2>2
<1>6. tp' # None
  <2>1. CASE tp' # tp
    <3>1. mode' = "thread"
      BY <2>1, HartStays DEF RunStartup, StopThread, SleepOn, IrqReturn, Reschedule, SwitchIn
    <3> QED
      BY <1>1, <3>1 DEF IInv, HartState
  <2> QED
    BY <2>1
<1> QED
  BY <1>3, <1>4, <1>5, <1>6 DEF InFront

(* Only the idle thread has the lowest priority. *)
OthersOutrankIdle == \A t \in Threads \ {Idle} : prio[t] \in {High, Normal}

(* Threads are created with a priority of their own choice above it. *)
LEMMA OthersOutrankStep == IInv /\ OthersOutrankIdle /\ [Next]_schedVars => OthersOutrankIdle'
<1> SUFFICES ASSUME IInv, OthersOutrankIdle, [Next]_schedVars PROVE OthersOutrankIdle'
  OBVIOUS
<1>1. prio \in [Threads -> Priorities]
  BY DEF IInv, TypeOK
<1>2. CASE prio' = prio
  BY <1>2 DEF OthersOutrankIdle
<1>3. CASE Boot
  BY <1>1, <1>2, <1>3 DEF Boot, CreateIdle, CreateStartup, InitIrq, RunStartup, threadVars,
                          OthersOutrankIdle
<1>4. CASE Create
  BY <1>1, <1>2, <1>4 DEF Create, BeginCreate, ReadFree, AllocThread, PoolFails, PushThread,
                          threadVars, OthersOutrankIdle
<1>5. CASE GiveUp \/ WakeAll \/ \E q \in Queues : WakeOneThread(q)
  BY <1>2, <1>5 DEF GiveUp, StopThread, SleepOn, WakeAll, WakeAllThreads, WakeFront, WakeDone,
                    WakeOneThread, threadVars
<1>6. CASE DisableIrq \/ EnableIrq \/ IrqEnter \/ IrqReturn \/ Halted \/ UNCHANGED schedVars
  BY <1>2, <1>6 DEF DisableIrq, EnableIrq, IrqEnter, IrqReturn, Halted, schedVars, threadVars
<1> QED
  BY <1>3, <1>4, <1>5, <1>6 DEF Next, CoreNext

-----------------------------------------------------------------------------
(* The scheduler without wakeOneThread implements Threads.                  *)

AsleepOn == [q \in Queues |-> SleepSet(q)]

Urgency == [t \in Threads |->
               IF t \in AwakeSet \/ state[t] = "Sleeping" THEN prio[t] ELSE Normal]

(* No list is broken, and every sleeper is on one. *)
SleepersKept == broken = {} /\ SleepersReachable

(* Nobody sleeps at reset. *)
LEMMA InitSleepersKept == Init => SleepersKept
  BY DEF Init, SleepersKept, SleepersReachable

(* A thread falls asleep by joining a wait queue and leaves it by waking. *)
LEMMA SleepersKeptStep == IInv /\ SleepersKept /\ [CoreNext]_schedVars => SleepersKept'
<1> SUFFICES ASSUME IInv, SleepersKept, [CoreNext]_schedVars PROVE SleepersKept'
  OBVIOUS
<1>1. TypeOK /\ broken = {} /\ SleepersReachable
  BY DEF IInv, SleepersKept
<1>2. ASSUME UNCHANGED <<broken, waitQ>>, \A t \in Threads : state'[t] = "Sleeping" => state[t] = "Sleeping"
      PROVE  SleepersKept'
  BY <1>1, <1>2 DEF SleepersKept, SleepersReachable
<1>3. CASE CreateIdle \/ CreateStartup \/ \E p \in {High, Normal} : AllocThread(p)
  BY <1>1, <1>2, <1>3 DEF CreateIdle, CreateStartup, AllocThread, listVars, TypeOK
<1>4. CASE StopThread
  <2>1. tp # None
    BY <1>4 DEF StopThread, Calls, InThread, IInv, HartState
  <2> QED
    BY <1>1, <1>2, <1>4, <2>1, RunnerListed DEF StopThread, TypeOK
<1>5. CASE \E q \in Queues : SleepOn(q)
  <2>1. PICK q \in Queues : SleepOn(q)
    BY <1>5
  <2>2. tp # None
    BY <2>1 DEF SleepOn, Calls, InThread, IInv, HartState
  <2>3. /\ waitQ' = [waitQ EXCEPT ![q] = Append(@, tp)] /\ broken' = broken
        /\ state' = [state EXCEPT ![tp] = "Sleeping"] /\ tp \in Threads
        /\ waitQ[q] \in Seq(Threads) /\ IsInjective(waitQ[q]) /\ ~Listed(waitQ[q], tp)
        /\ waitQ \in [Queues -> Seq(Threads)]
    BY <1>1, <2>1, <2>2, RunnerListed
       DEF SleepOn, PushWaiter, PushBack, TypeOK, IInv, QueueDiscipline, SleepersListed
  <2>4. \A u : Listed(Append(waitQ[q], tp), u) <=> Listed(waitQ[q], u) \/ u = tp
    BY <2>3, AppendListed
  <2> QED
    BY <1>1, <2>3, <2>4 DEF SleepersKept, SleepersReachable, TypeOK
<1>6. CASE WakeFront
  <2>1. waking \in Queues /\ waitQ[waking] # <<>> /\ waitQ \in [Queues -> Seq(Threads)]
    BY <1>1, <1>6 DEF WakeFront, TypeOK
  <2>2. PICK t \in Threads : t = Head(waitQ[waking])
    BY <2>1, WaiterListed
  <2>3. /\ waitQ' = [waitQ EXCEPT ![waking] = Tail(@)] /\ broken' = broken
        /\ state' = [state EXCEPT ![t] = "Ready"]
        /\ \A u : Listed(Tail(waitQ[waking]), u) <=> Listed(waitQ[waking], u) /\ u # t
    BY <1>6, <2>1, <2>2, WaiterListed DEF WakeFront, Schedule
  <2> QED
    BY <1>1, <2>1, <2>3 DEF SleepersKept, SleepersReachable, TypeOK
<1>7. CASE \/ InitIrq \/ RunStartup \/ BeginCreate \/ PoolFails \/ PushThread \/ DisableIrq
           \/ EnableIrq \/ (\E q \in Queues : WakeAllThreads(q)) \/ WakeDone \/ IrqEnter \/ IrqReturn
           \/ Halted \/ UNCHANGED schedVars
  BY <1>2, <1>7
     DEF InitIrq, RunStartup, BeginCreate, ReadFree, PoolFails, PushThread, DisableIrq, EnableIrq, WakeAllThreads,
         WakeDone, IrqEnter, IrqReturn, Halted, listVars, threadVars, schedVars
<1> QED
  BY <1>3, <1>4, <1>5, <1>6, <1>7 DEF CoreNext, Boot, Create, GiveUp, WakeAll

(* An awake thread is on the ready queue of its priority, a thread that does *)
(* not exist neither awake nor on a wait queue.                              *)
LEMMA AwakeListed ==
    ASSUME IInv
    PROVE  /\ \A t \in AwakeSet : t \in Threads /\ state[t] = "Ready" /\ Listed(readyQ[prio[t]], t)
           /\ tp # None => tp \in AwakeSet
           /\ \A t \in Threads : state[t] # "Sleeping" /\ t \notin AwakeSet => t \notin T!Exists
           /\ \A t \in AwakeSet : Urgency[t] = prio[t]
<1>1. \A t \in AwakeSet : t \in Threads /\ state[t] = "Ready" /\ Listed(readyQ[prio[t]], t)
  BY DEF AwakeSet, IInv, QueueDiscipline, NoReadyThreadLost
<1>2. tp # None => tp \in AwakeSet
  BY RunnerListed DEF AwakeSet
<1>3. ASSUME NEW t \in Threads, state[t] # "Sleeping", t \notin AwakeSet PROVE t \notin T!Exists
  <2>1. \A q \in Queues : t \notin SleepSet(q)
    BY <1>3 DEF SleepSet, IInv, QueueDiscipline, SleepersListed
  <2> QED
    BY <1>3, <2>1 DEF T!Exists
<1>4. \A t \in AwakeSet : Urgency[t] = prio[t]
  BY <1>1 DEF Urgency
<1> QED
  BY <1>1, <1>2, <1>3, <1>4

(* The states of the threads and the wait queues are all Threads sees. *)
LEMMA NothingSeen ==
    ASSUME UNCHANGED <<state, making, prio, waitQ>>
    PROVE  UNCHANGED <<AwakeSet, AsleepOn, Urgency>>
<1>1. AwakeSet' = AwakeSet
  BY DEF AwakeSet
<1>2. AsleepOn' = AsleepOn
  BY DEF AsleepOn, SleepSet
<1>3. Urgency' = Urgency
  BY <1>1 DEF Urgency
<1> QED
  BY <1>1, <1>2, <1>3

(* What has nothing more urgent before it on the ready queues is one of the *)
(* most urgent of those that are listed there.                              *)
LEMMA MostUrgentIs ==
    ASSUME IInv, NEW S \in SUBSET AwakeSet, NEW rq \in [Priorities -> Seq(Threads)],
           NEW m \in S, \A t \in S : Listed(rq[prio[t]], t),
           \A p \in Priorities : p < prio[m] => rq[p] = <<>>
    PROVE  m \in T!MostUrgent(S)
<1>1. \A t \in S : t \in Threads /\ prio[t] \in Priorities /\ Urgency[t] = prio[t]
  BY AwakeListed DEF IInv, TypeOK
<1>2. ASSUME NEW t \in S PROVE prio[m] <= prio[t]
  <2>1. rq[prio[t]] # <<>>
    BY EmptyListed
  <2> QED
    BY <1>1, <2>1 DEF Priorities
<1> QED
  BY <1>1, <1>2 DEF T!MostUrgent, Urgency

(* A thread is created when it is first queued. *)
LEMMA CreateImplements ==
    ASSUME IInv, CreateIdle \/ CreateStartup \/ PushThread
    PROVE  \E t \in Threads, p \in 0 .. 2 : T!Create(t, p)
<1>1. TypeOK /\ FreeSlotsUnused /\ Idle \in Threads /\ Startup \in Threads
  BY ThreadAssumption DEF IInv
<1>2. ASSUME NEW t \in Threads, t \notin AwakeSet, state[t] # "Sleeping",
             AwakeSet' = AwakeSet \cup {t}, state'[t] = "Ready", prio'[t] \in 0 .. 2,
             \A u \in Threads : u # t => /\ prio'[u] = prio[u]
                                         /\ (state'[u] = "Sleeping" <=> state[u] = "Sleeping"),
             UNCHANGED <<waitQ, tp>>
      PROVE  \E s \in Threads, p \in 0 .. 2 : T!Create(s, p)
  <2>1. t \notin T!Exists
    BY <1>2, AwakeListed
  <2>2. AsleepOn' = AsleepOn
    BY <1>2 DEF AsleepOn, SleepSet
  <2>3. Urgency' = [Urgency EXCEPT ![t] = prio'[t]]
    BY <1>2 DEF Urgency
  <2>4. PICK p \in 0 .. 2 : p = prio'[t]
    BY <1>2
  <2>5. T!Create(t, p)
    BY <1>2, <2>1, <2>2, <2>3, <2>4 DEF T!Create, AsleepOn, Urgency
  <2> QED
    BY <2>5
<1>3. CASE CreateIdle
  <2>1. free = Threads
    BY <1>3 DEF CreateIdle, IInv, BootShape
  <2>2. \A t \in Threads : state[t] = "Dead" /\ making[t] = None
    BY <1>1, <2>1 DEF FreeSlotsUnused
  <2>3. /\ state' = [state EXCEPT ![Idle] = "Ready"]
        /\ prio' = [prio EXCEPT ![Idle] = IdlePriority]
        /\ UNCHANGED <<waitQ, making, tp>>
    BY <1>3 DEF CreateIdle
  <2>4. AwakeSet = {} /\ AwakeSet' = AwakeSet \cup {Idle}
    BY <1>1, <2>2, <2>3, ThreadAssumption DEF AwakeSet, TypeOK
  <2>5. /\ state'[Idle] = "Ready" /\ prio'[Idle] \in 0 .. 2
        /\ \A u \in Threads : u # Idle => /\ prio'[u] = prio[u]
                                           /\ state'[u] = state[u]
    BY <1>1, <2>3 DEF TypeOK, IdlePriority
  <2> QED
    BY <1>1, <1>2, <2>2, <2>3, <2>4, <2>5
<1>4. CASE CreateStartup
  <2>1. Startup \in free
    BY <1>4 DEF CreateStartup, IInv, BootShape
  <2>2. state[Startup] = "Dead" /\ \A c \in Threads : making[c] # Startup
    BY <1>1, <2>1 DEF FreeSlotsUnused
  <2>3. /\ state' = [state EXCEPT ![Startup] = "Ready"]
        /\ prio' = [prio EXCEPT ![Startup] = Normal]
        /\ UNCHANGED <<waitQ, making, tp>>
    BY <1>4 DEF CreateStartup
  <2>4. Startup \notin AwakeSet /\ AwakeSet' = AwakeSet \cup {Startup}
    BY <1>1, <2>2, <2>3 DEF AwakeSet, TypeOK
  <2>5. /\ state'[Startup] = "Ready" /\ prio'[Startup] \in 0 .. 2
        /\ \A u \in Threads : u # Startup => /\ prio'[u] = prio[u]
                                              /\ state'[u] = state[u]
    BY <1>1, <2>3 DEF TypeOK, Normal
  <2> QED
    BY <1>1, <1>2, <2>2, <2>3, <2>4, <2>5
<1>5. CASE PushThread
  <2>1. tp \in Threads /\ making[tp] \in Threads /\ making[tp] # None
    BY <1>1, <1>5 DEF PushThread, InThread, IInv, HartState, TypeOK
  <2> DEFINE t == making[tp]
  <2>2. state[t] = "Ready" /\ \A d \in Threads : making[d] = t => d = tp
    BY <2>1 DEF IInv, CreatorsApart
  <2>3. UNCHANGED <<state, prio, waitQ, tp>> /\ making' = [making EXCEPT ![tp] = None]
    BY <1>5 DEF PushThread, cpuVars
  <2>4. t \notin AwakeSet /\ AwakeSet' = AwakeSet \cup {t}
    <3>1. \A u \in Threads : (\E c \in Threads : making'[c] = u)
                                 <=> (\E c \in Threads : making[c] = u) /\ u # t
      BY <1>1, <2>1, <2>2, <2>3, ThreadAssumption DEF TypeOK
    <3> QED
      BY <2>1, <2>2, <2>3, <3>1 DEF AwakeSet
  <2>5. prio[t] \in 0 .. 2
    BY <1>1, <2>1 DEF TypeOK, Priorities
  <2> HIDE DEF t
  <2>6. t \in Threads
    BY <2>1 DEF t
  <2> QED
    BY <1>2, <2>2, <2>3, <2>4, <2>5, <2>6
<1> QED
  BY <1>3, <1>4, <1>5

(* A thread under construction does not exist yet. *)
LEMMA AllocUnseen ==
    ASSUME IInv, NEW p \in {High, Normal}, AllocThread(p)
    PROVE  UNCHANGED <<AwakeSet, AsleepOn, Urgency, tp>>
<1>t. PICK t \in Threads : /\ t = taking[tp] /\ state[t] = "Dead" /\ making[tp] = None
                           /\ \A c \in Threads : making[c] # t
  BY SlotTaken
<1>1. /\ TypeOK /\ tp \in Threads /\ making[tp] = None /\ None \notin Threads
      /\ state[t] = "Dead" /\ \A c \in Threads : making[c] # t
  BY <1>t, ThreadAssumption DEF AllocThread, InThread, IInv, HartState, TypeOK
<1>2. /\ state' = [state EXCEPT ![t] = "Ready"]
      /\ prio' = [prio EXCEPT ![t] = p]
      /\ making' = [making EXCEPT ![tp] = t]
      /\ UNCHANGED <<waitQ, tp>>
  BY <1>t DEF AllocThread, listVars, cpuVars
<1>3. making'[tp] = t /\ t \notin AwakeSet /\ t \notin AwakeSet'
  BY <1>1, <1>2 DEF AwakeSet, TypeOK
<1>4. \A u \in Threads : u # t =>
          /\ state'[u] = state[u] /\ prio'[u] = prio[u]
          /\ (\E c \in Threads : making'[c] = u) <=> (\E c \in Threads : making[c] = u)
  BY <1>1, <1>2 DEF TypeOK
<1>5. AwakeSet' = AwakeSet
  BY <1>3, <1>4 DEF AwakeSet
<1>6. Urgency' = Urgency
  <2>1. state'[t] = "Ready"
    BY <1>1, <1>2 DEF TypeOK
  <2> QED
    BY <1>1, <1>3, <1>4, <1>5, <2>1 DEF Urgency
<1> QED
  BY <1>2, <1>5, <1>6 DEF AsleepOn, SleepSet

(* The runner that leaves the hart is followed by one of the most urgent of *)
(* the threads that stay awake.                                             *)
LEMMA LeavesToMostUrgent ==
    ASSUME IInv, IInv', NothingUrgentYet, StopThread \/ \E q \in Queues : SleepOn(q)
    PROVE  T!HandOver
<1>1. tp # None /\ prio' = prio
  BY DEF StopThread, SleepOn, Calls, InThread, IInv, HartState
<1>2. /\ tp \in Threads
      /\ readyQ' \in [Priorities -> Seq(Threads)]
      /\ \A p \in Priorities : \A u : Listed(readyQ'[p], u) <=> Listed(readyQ[p], u) /\ u # tp
  BY <1>1, RunnerListed, RunnerUnlinked DEF StopThread, SleepOn
<1>3. \A t \in AwakeSet \ {tp} : Listed(readyQ'[prio[t]], t)
  BY <1>2, AwakeListed DEF IInv, TypeOK
<1>4. \A p \in Priorities : p < prio[tp'] => readyQ'[p] = <<>>
  BY HandOverStep
<1>5. tp' \in AwakeSet \ {tp}
  <2>1. tp' # None
    BY ThreadAssumption DEF StopThread, SleepOn, Reschedule, SwitchIn, IInv, HartState
  <2>2. tp' \in Threads /\ state'[tp'] = "Ready" /\ \A c \in Threads : making'[c] # tp'
    <3>1. /\ tp' \in Threads /\ state'[tp'] = "Ready" /\ Listed(readyQ'[prio'[tp']], tp')
          /\ prio'[tp'] \in Priorities
      BY <2>1, TailListed DEF IInv, TypeOK, CurrentAtFront, QueueDiscipline, ReadyListed
    <3> QED
      BY <3>1, ThreadAssumption DEF IInv, CreatorsApart
  <2>3. making' = making
    BY DEF StopThread, SleepOn
  <2>4. \/ state' = [state EXCEPT ![tp] = "Dead"]
        \/ state' = [state EXCEPT ![tp] = "Sleeping"]
    BY DEF StopThread, SleepOn
  <2> QED
    BY <1>2, <2>2, <2>3, <2>4 DEF AwakeSet, IInv, TypeOK
<1> DEFINE S == AwakeSet \ {tp}
<1>6. tp' \in T!MostUrgent(S)
  <2>1. S \in SUBSET AwakeSet /\ tp' \in S /\ \A t \in S : Listed(readyQ'[prio[t]], t)
    BY <1>3, <1>5
  <2> HIDE DEF S
  <2> QED
    BY <1>2, <1>4, <2>1, MostUrgentIs
<1> QED
  BY <1>6 DEF T!HandOver

(* A thread that sleeps leaves the awake ones for one queue. *)
LEMMA SleepImplements ==
    ASSUME IInv, IInv', NothingUrgentYet, SleepersKept, NEW q \in Queues, SleepOn(q)
    PROVE  T!Sleep(q)
<1>1. tp # None /\ TypeOK /\ broken = {}
  BY DEF SleepOn, Calls, InThread, IInv, HartState, SleepersKept
<1>2. /\ tp \in Threads /\ state[tp] = "Ready" /\ ~Listed(waitQ[q], tp)
      /\ waitQ' = [waitQ EXCEPT ![q] = Append(@, tp)]
      /\ state' = [state EXCEPT ![tp] = "Sleeping"]
      /\ UNCHANGED <<prio, making>>
  BY <1>1, RunnerListed DEF SleepOn, PushWaiter, PushBack
<1>3. tp \in AwakeSet /\ AwakeSet' = AwakeSet \ {tp}
  BY <1>1, <1>2, AwakeListed DEF AwakeSet, TypeOK
<1>4. AsleepOn' = [AsleepOn EXCEPT ![q] = @ \cup {tp}]
  <2>1. waitQ \in [Queues -> Seq(Threads)] /\ IsInjective(waitQ[q])
    BY <1>1 DEF TypeOK, IInv, QueueDiscipline, SleepersListed
  <2>2. \A u : Listed(Append(waitQ[q], tp), u) <=> Listed(waitQ[q], u) \/ u = tp
    <3>1. waitQ[q] \in Seq(Threads)
      BY <2>1
    <3> QED
      BY <1>2, <2>1, <3>1, AppendListed
  <2>3. \A r \in Queues : waitQ'[r] = IF r = q THEN Append(waitQ[q], tp) ELSE waitQ[r]
    BY <1>2, <2>1
  <2>4. \A r \in Queues : SleepSet(r)' = IF r = q THEN SleepSet(q) \cup {tp} ELSE SleepSet(r)
    BY <1>2, <2>2, <2>3 DEF SleepSet
  <2> QED
    BY <2>4 DEF AsleepOn
<1>5. Urgency' = Urgency
  BY <1>1, <1>2, <1>3 DEF Urgency, TypeOK
<1>6. T!HandOver
  BY LeavesToMostUrgent
<1> QED
  BY <1>3, <1>4, <1>5, <1>6 DEF T!Sleep, AsleepOn, Urgency

(* A thread that stops is gone. *)
LEMMA StopImplements ==
    ASSUME IInv, IInv', NothingUrgentYet, StopThread
    PROVE  T!End
<1>1. tp # None /\ TypeOK
  BY DEF StopThread, Calls, InThread, IInv, HartState
<1>2. /\ tp \in Threads /\ state[tp] = "Ready"
      /\ state' = [state EXCEPT ![tp] = "Dead"]
      /\ UNCHANGED <<waitQ, prio, making>>
  BY <1>1, RunnerListed DEF StopThread
<1>3. tp \in AwakeSet /\ AwakeSet' = AwakeSet \ {tp}
  BY <1>1, <1>2, AwakeListed DEF AwakeSet, TypeOK
<1>4. AsleepOn' = AsleepOn
  BY <1>2 DEF AsleepOn, SleepSet
<1>5. Urgency' = [Urgency EXCEPT ![tp] = 1]
  BY <1>1, <1>2, <1>3 DEF Urgency, TypeOK, Normal
<1>6. T!HandOver
  BY LeavesToMostUrgent
<1> QED
  BY <1>3, <1>4, <1>5, <1>6 DEF T!End, AsleepOn, Urgency

(* wakeAllThreads wakes threads that sleep on the queue it is given. *)
LEMMA WakeImplements ==
    ASSUME IInv, WakeFront
    PROVE  \E q \in Queues, t \in Threads : T!Wake(q, t)
<1>1. /\ TypeOK /\ waking \in Queues /\ waitQ[waking] # <<>>
      /\ waitQ \in [Queues -> Seq(Threads)]
  BY DEF WakeFront, IInv, TypeOK
<1>2. PICK t \in Threads : t = Head(waitQ[waking])
  BY <1>1, WaiterListed
<1>3. /\ state[t] = "Sleeping"
      /\ \A u : Listed(Tail(waitQ[waking]), u) <=> Listed(waitQ[waking], u) /\ u # t
      /\ UnlinkAll(waitQ, t) = [waitQ EXCEPT ![waking] = Tail(@)]
  BY <1>1, <1>2, WaiterListed
<1>4. /\ waitQ' = [waitQ EXCEPT ![waking] = Tail(@)]
      /\ state' = [state EXCEPT ![t] = "Ready"]
      /\ UNCHANGED <<prio, making, tp>>
  BY <1>2, <1>3 DEF WakeFront, Schedule, cpuVars
<1>5. \A c \in Threads : making[c] # t
  BY <1>3, ThreadAssumption DEF IInv, CreatorsApart
<1>6. AwakeSet' = AwakeSet \cup {t}
  BY <1>1, <1>4, <1>5 DEF AwakeSet, TypeOK
<1>7. t \in SleepSet(waking)
  <2>1. waitQ[waking] \in Seq(Threads) /\ IsInjective(waitQ[waking])
    BY <1>1 DEF IInv, QueueDiscipline, SleepersListed
  <2> QED
    BY <1>1, <1>2, <2>1, TailListed DEF SleepSet
<1>8. AsleepOn' = [AsleepOn EXCEPT ![waking] = @ \ {t}]
  <2>1. \A r \in Queues : waitQ'[r] = IF r = waking THEN Tail(waitQ[waking]) ELSE waitQ[r]
    BY <1>1, <1>4
  <2>2. \A r \in Queues :
            SleepSet(r)' = IF r = waking THEN SleepSet(waking) \ {t} ELSE SleepSet(r)
    BY <1>3, <2>1 DEF SleepSet
  <2> QED
    BY <1>1, <2>2 DEF AsleepOn
<1>9. Urgency' = Urgency
  BY <1>1, <1>3, <1>4, <1>6 DEF Urgency, TypeOK
<1>10. T!Wake(waking, t)
  BY <1>1, <1>4, <1>6, <1>7, <1>8, <1>9 DEF T!Wake, AsleepOn, Urgency
<1> QED
  BY <1>1, <1>10

(* The way out of a handler, and the first switch of all, change nothing but *)
(* who has the hart, and that only for a more urgent thread.                 *)
LEMMA SwitchImplements ==
    ASSUME IInv, IInv', NothingUrgentYet, RunStartup \/ IrqReturn
    PROVE  T!Preempt \/ UNCHANGED <<AwakeSet, AsleepOn, Urgency, tp>>
<1>1. UNCHANGED <<state, making, prio, waitQ, readyQ>>
  BY DEF RunStartup, IrqReturn, listVars, threadVars
<1>2. UNCHANGED <<AwakeSet, AsleepOn, Urgency>>
  BY <1>1, NothingSeen
<1>3. CASE tp' = tp
  BY <1>2, <1>3
<1>4. CASE tp' # tp
  <2>1. tp' # None
    BY ThreadAssumption DEF RunStartup, IrqReturn, Reschedule, SwitchIn, IInv, HartState
  <2>2. tp' \in AwakeSet
    <3>1. /\ tp' \in Threads /\ state[tp'] = "Ready" /\ Listed(readyQ[prio[tp']], tp')
          /\ prio[tp'] \in Priorities
      BY <1>1, <2>1, TailListed DEF IInv, TypeOK, CurrentAtFront, QueueDiscipline, ReadyListed
    <3> QED
      BY <3>1, ThreadAssumption DEF IInv, CreatorsApart, AwakeSet
  <2>3. /\ \A p \in Priorities : p < prio[tp'] => readyQ[p] = <<>>
        /\ tp # None => prio[tp'] < prio[tp]
    BY <1>1, <1>4, HandOverStep DEF IInv, CurrentAtFront
  <2>4. tp' \in T!MostUrgent(AwakeSet)
    <3>1. /\ AwakeSet \in SUBSET AwakeSet /\ readyQ \in [Priorities -> Seq(Threads)]
          /\ \A t \in AwakeSet : Listed(readyQ[prio[t]], t)
      BY AwakeListed DEF IInv, TypeOK
    <3> QED
      BY <2>2, <2>3, <3>1, MostUrgentIs
  <2>5. tp # None => Urgency[tp'] < Urgency[tp]
    BY <2>2, <2>3, AwakeListed
  <2> QED
    BY <1>2, <2>4, <2>5 DEF T!Preempt, AsleepOn, Urgency
<1> QED
  BY <1>3, <1>4

(* Every step of the scheduler but wakeOneThread is one of Threads or none. *)
LEMMA StepImplements ==
    ASSUME IInv, IInv', NothingUrgentYet, SleepersKept, [CoreNext]_schedVars
    PROVE  [T!Next]_(T!vars)
<1>1. ASSUME UNCHANGED <<AwakeSet, AsleepOn, Urgency, tp>> PROVE [T!Next]_(T!vars)
  BY <1>1 DEF T!vars, AsleepOn, Urgency
<1>2. CASE CreateIdle \/ CreateStartup \/ PushThread
  BY <1>2, CreateImplements DEF T!Next
<1>3. CASE \E p \in {High, Normal} : AllocThread(p)
  BY <1>1, <1>3, AllocUnseen
<1>4. CASE StopThread
  BY <1>4, StopImplements DEF T!Next
<1>5. CASE \E q \in Queues : SleepOn(q)
  BY <1>5, SleepImplements DEF T!Next
<1>6. CASE WakeFront
  BY <1>6, WakeImplements DEF T!Next
<1>7. CASE RunStartup \/ IrqReturn
  BY <1>1, <1>7, SwitchImplements DEF T!Next
<1>8. CASE \/ InitIrq \/ BeginCreate \/ PoolFails \/ DisableIrq \/ EnableIrq
           \/ (\E q \in Queues : WakeAllThreads(q)) \/ WakeDone \/ IrqEnter \/ Halted
           \/ UNCHANGED schedVars
  <2>1. UNCHANGED <<state, making, prio, waitQ, tp>>
    BY <1>8 DEF InitIrq, BeginCreate, ReadFree, PoolFails, DisableIrq, EnableIrq, WakeAllThreads,
                WakeDone, IrqEnter, Halted, listVars, threadVars, cpuVars, schedVars
  <2> QED
    BY <1>1, <2>1, NothingSeen
<1> QED
  BY <1>2, <1>3, <1>4, <1>5, <1>6, <1>7, <1>8 DEF CoreNext, Boot, Create, GiveUp, WakeAll

(* Without wakeOneThread the scheduler keeps every promise of Threads: nobody  *)
(* falls asleep, ends or wakes but by its own call or its queue's, and the hart *)
(* is always with one of the most urgent awake threads when it changes hands.   *)
THEOREM PromisesKept == CoreSpec => KeepsPromises
<1>1. CoreSpec => Spec
  <2>1. [CoreNext]_schedVars => [Next]_schedVars
    BY DEF Next
  <2> QED
    BY <2>1, PTL DEF CoreSpec, Spec
<1>2. Init => T!Init
  <2> SUFFICES ASSUME Init PROVE T!Init
    OBVIOUS
  <2>1. AwakeSet = {} /\ \A t \in Threads : state[t] = "Dead"
    BY DEF Init, AwakeSet
  <2>2. \A q \in Queues : SleepSet(q) = {}
    BY EmptyListed DEF Init, SleepSet
  <2> QED
    BY <2>1, <2>2 DEF Init, T!Init, Normal
<1>3. IInv /\ IInv' /\ NothingUrgentYet /\ SleepersKept /\ [CoreNext]_schedVars
          => [T!Next]_(T!vars)
  BY StepImplements
<1>4. Init => NothingUrgentYet /\ SleepersKept
  BY InitNothingUrgent, InitSleepersKept
<1>5. IInv /\ NothingUrgentYet /\ SleepersKept /\ [CoreNext]_schedVars
          => NothingUrgentYet' /\ SleepersKept'
  BY NothingUrgentStep, SleepersKeptStep DEF Next
<1> QED
  BY <1>1, <1>2, <1>3, <1>4, <1>5, Safety, PTL DEF CoreSpec, KeepsPromises, T!Spec

(* Without wakeOneThread no sleeper is ever lost: whoever wakes the queue   *)
(* it went to sleep on finds it there.                                      *)
THEOREM NobodyLost == CoreSpec => []SleepersReachable
<1>1. CoreSpec => Spec
  <2>1. [CoreNext]_schedVars => [Next]_schedVars
    BY DEF Next
  <2> QED
    BY <2>1, PTL DEF CoreSpec, Spec
<1>2. SleepersKept => SleepersReachable
  BY DEF SleepersKept
<1> QED
  BY <1>1, <1>2, Safety, InitSleepersKept, SleepersKeptStep, PTL DEF CoreSpec


=============================================================================
