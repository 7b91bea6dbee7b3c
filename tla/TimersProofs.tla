---------------------------- MODULE TimersProofs ----------------------------
(***************************************************************************)
(* For any number of threads and timers: what threads and the timer handler *)
(* do is a behaviour of the scheduler, the queue of timers stays ordered,   *)
(* the compare register follows its front, and nobody wakes from sleep_ns   *)
(* a cycle before its time.                                                 *)
(***************************************************************************)
EXTENDS Timers, SchedulerProofs, SequenceTheorems, WellFoundedInduction

(* Natural numbers have a smallest among them. *)
LEMMA Smallest ==
    ASSUME NEW ns \in SUBSET Nat, ns # {}
    PROVE  \E m \in ns : \A n \in ns : m <= n
<1> DEFINE R == {ss \in Nat \X Nat : ss[1] < ss[2]}
<1>1. IsWellFoundedOn(R, Nat)
  BY NatLessThanWellFounded DEF OpToRel
<1>2. \A m, n \in ns : <<n, m>> \notin R => m <= n
  OBVIOUS
<1> HIDE DEF R
<1>3. \E m \in ns : \A n \in ns : ~ (<<n, m>> \in R)
  <2>1. ns \subseteq Nat
    OBVIOUS
  <2> QED
    BY <1>1, <2>1, WFMin
<1> QED
  BY <1>2, <1>3

(* r is s with e put before index k. *)
Inserts(r, s, k, e) ==
    /\ Len(r) = Len(s) + 1
    /\ r[k] = e
    /\ \A i \in 1 .. k - 1 : r[i] = s[i]
    /\ \A i \in k + 1 .. Len(s) + 1 : r[i] = s[i - 1]

(* Inserting into a sequence, index by index. *)
LEMMA InsertAtProperties ==
    ASSUME NEW S, NEW s \in Seq(S), NEW k \in 1 .. Len(s) + 1, NEW e \in S
    PROVE  /\ InsertAt(s, k, e) \in Seq(S)
           /\ Inserts(InsertAt(s, k, e), s, k, e)
<1> DEFINE before == SubSeq(s, 1, k - 1)
           after == SubSeq(s, k, Len(s))
           first == before \o <<e>>
<1>1. Len(s) \in Nat /\ \A i \in 1 .. Len(s) : s[i] \in S
  BY LenProperties
<1>2. /\ before \in Seq(S)
      /\ Len(before) = k - 1
      /\ \A i \in 1 .. k - 1 : before[i] = s[i]
  <2>1. k - 1 \in Int /\ \A i \in 1 .. k - 1 : s[i] \in S
    BY <1>1
  <2> QED
    BY <2>1, SubSeqProperties
<1>3. /\ after \in Seq(S)
      /\ Len(after) = Len(s) - k + 1
      /\ \A i \in 1 .. Len(s) - k + 1 : after[i] = s[k + i - 1]
  <2>1. Len(s) \in Int /\ k \in Int /\ \A i \in k .. Len(s) : s[i] \in S
    BY <1>1
  <2> QED
    BY <1>1, <2>1, SubSeqProperties
<1>4. <<e>> \in Seq(S) /\ Len(<<e>>) = 1 /\ <<e>>[1] = e
  OBVIOUS
<1> HIDE DEF before, after
<1>5. /\ first \in Seq(S)
      /\ Len(first) = k
      /\ \A i \in 1 .. k : first[i] = IF i <= k - 1 THEN before[i] ELSE <<e>>[i - (k - 1)]
  BY <1>2, <1>4, ConcatProperties
<1> HIDE DEF first
<1>6. /\ first \o after \in Seq(S)
      /\ Len(first \o after) = Len(s) + 1
      /\ \A i \in 1 .. Len(s) + 1 :
            (first \o after)[i] = IF i <= k THEN first[i] ELSE after[i - k]
  <2>1. /\ first \in Seq(S) /\ after \in Seq(S)
        /\ Len(first) = k /\ Len(first) + Len(after) = Len(s) + 1
    BY <1>1, <1>3, <1>5
  <2>2. /\ first \o after \in Seq(S)
        /\ Len(first \o after) = Len(first) + Len(after)
        /\ \A i \in 1 .. Len(first) + Len(after) :
              (first \o after)[i] = IF i <= Len(first) THEN first[i] ELSE after[i - Len(first)]
    BY <2>1, ConcatProperties
  <2> QED
    BY <2>1, <2>2
<1>7. InsertAt(s, k, e) = first \o after
  BY DEF InsertAt, first, before, after
<1>8. first[k] = e /\ \A i \in 1 .. k - 1 : first[i] = s[i]
  BY <1>1, <1>2, <1>4, <1>5
<1>9. \A i \in k + 1 .. Len(s) + 1 : after[i - k] = s[i - 1]
  BY <1>1, <1>3
<1> QED
  <2> DEFINE r == first \o after
  <2>1. /\ Len(r) = Len(s) + 1
        /\ r[k] = e
        /\ \A i \in 1 .. k - 1 : r[i] = s[i]
        /\ \A i \in k + 1 .. Len(s) + 1 : r[i] = s[i - 1]
    BY <1>1, <1>6, <1>8, <1>9
  <2> HIDE DEF r
  <2>2. Inserts(r, s, k, e)
    BY <2>1 DEF Inserts
  <2> QED
    BY <1>6, <1>7, <2>2 DEF r

(* Where placeTimerEvent puts an event: behind what is due no later, before *)
(* what is due later.                                                       *)
LEMMA PlacedSomewhere ==
    ASSUME NEW S, NEW q \in Seq(S), NEW e \in S, NEW d \in [S -> Nat],
           \A i, j \in DOMAIN q : i < j => d[q[i]] <= d[q[j]]
    PROVE  /\ Placed(q, d, e) \in Seq(S)
           /\ Len(Placed(q, d, e)) = Len(q) + 1
           /\ \E k \in 1 .. Len(q) + 1 :
                /\ Placed(q, d, e)[k] = e
                /\ \A i \in 1 .. k - 1 : Placed(q, d, e)[i] = q[i] /\ d[q[i]] <= d[e]
                /\ \A i \in k + 1 .. Len(q) + 1 :
                     Placed(q, d, e)[i] = q[i - 1] /\ d[q[i - 1]] > d[e]
<1> DEFINE later == {i \in DOMAIN q : d[q[i]] > d[e]}
<1>1. /\ Len(q) \in Nat /\ DOMAIN q = 1 .. Len(q)
      /\ \A i \in 1 .. Len(q) : q[i] \in S /\ d[q[i]] \in Nat
      /\ d[e] \in Nat
  OBVIOUS
<1>2. CASE later = {}
  <2>1. Placed(q, d, e) = Append(q, e)
    BY <1>2 DEF Placed
  <2>2. \A i \in 1 .. Len(q) : d[q[i]] <= d[e]
    BY <1>1, <1>2
  <2> QED
    BY <1>1, <2>1, <2>2
<1>3. CASE later # {}
  <2> DEFINE first == CHOOSE i \in later : \A j \in later : i <= j
  <2>1. \E i \in later : \A j \in later : i <= j
    <3>1. later \in SUBSET Nat /\ later # {}
      BY <1>1, <1>3
    <3> HIDE DEF later
    <3> QED
      BY <3>1, Smallest
  <2>2. first \in later /\ \A j \in later : first <= j
    BY <2>1
  <2>3. Placed(q, d, e) = InsertAt(q, first, e)
    BY <1>3 DEF Placed
  <2>4. first \in 1 .. Len(q) + 1 /\ first <= Len(q)
    BY <1>1, <2>2
  <2>5. \A i \in 1 .. first - 1 : d[q[i]] <= d[e]
    <3> SUFFICES ASSUME NEW i \in 1 .. first - 1
                 PROVE  d[q[i]] <= d[e]
      OBVIOUS
    <3> HIDE DEF first
    <3>1. i \in 1 .. Len(q) /\ i < first
      BY <1>1, <2>4
    <3>2. i \notin later
      <4>1. i \in Int /\ first \in Int
        BY <2>4
      <4> HIDE DEF later
      <4> QED
        BY <2>2, <3>1, <4>1
    <3> QED
      BY <1>1, <3>1, <3>2
  <2>6. \A i \in first + 1 .. Len(q) + 1 : d[q[i - 1]] > d[e]
    <3> SUFFICES ASSUME NEW i \in first + 1 .. Len(q) + 1
                 PROVE  d[q[i - 1]] > d[e]
      OBVIOUS
    <3>1. i - 1 \in 1 .. Len(q) /\ first \in 1 .. Len(q) /\ first <= i - 1
      BY <1>1, <2>4
    <3>2. d[q[first]] > d[e]
      BY <2>2
    <3>3. d[q[first]] <= d[q[i - 1]]
      BY <1>1, <3>1
    <3> QED
      BY <1>1, <3>1, <3>2, <3>3
  <2> HIDE DEF first, later
  <2>7. q \in Seq(S) /\ first \in 1 .. Len(q) + 1 /\ e \in S
    BY <2>4
  <2>8. /\ InsertAt(q, first, e) \in Seq(S)
        /\ Inserts(InsertAt(q, first, e), q, first, e)
    BY ONLY <2>7, InsertAtProperties
  <2>9. /\ Placed(q, d, e) \in Seq(S)
        /\ Inserts(Placed(q, d, e), q, first, e)
    BY <2>3, <2>8
  <2>10. PICK p : p = Placed(q, d, e)
    OBVIOUS
  <2>11. /\ Len(p) = Len(q) + 1
         /\ p[first] = e
         /\ \A i \in 1 .. first - 1 : p[i] = q[i]
         /\ \A i \in first + 1 .. Len(q) + 1 : p[i] = q[i - 1]
    BY <2>9, <2>10 DEF Inserts
  <2> QED
    BY <2>4, <2>5, <2>6, <2>9, <2>10, <2>11
<1> QED
  BY <1>2, <1>3

(* So the queue stays ordered, gains just the event, and begins with it     *)
(* only if what was first is due later.                                     *)
LEMMA PlacedOrdered ==
    ASSUME NEW S, NEW q \in Seq(S), NEW e \in S, NEW d \in [S -> Nat],
           \A i, j \in DOMAIN q : i < j => d[q[i]] <= d[q[j]],
           IsInjective(q), ~Listed(q, e), NEW p, p = Placed(q, d, e)
    PROVE  /\ p \in Seq(S) /\ p # <<>>
           /\ \A i, j \in DOMAIN p : i < j => d[p[i]] <= d[p[j]]
           /\ IsInjective(p)
           /\ \A u : Listed(p, u) <=> Listed(q, u) \/ u = e
           /\ Head(p) = IF q = <<>> \/ d[Head(q)] > d[e] THEN e ELSE Head(q)
<1>1. /\ p \in Seq(S)
      /\ Len(p) = Len(q) + 1
      /\ \E k \in 1 .. Len(q) + 1 :
           /\ p[k] = e
           /\ \A i \in 1 .. k - 1 : p[i] = q[i] /\ d[q[i]] <= d[e]
           /\ \A i \in k + 1 .. Len(q) + 1 : p[i] = q[i - 1] /\ d[q[i - 1]] > d[e]
  <2>1. /\ Placed(q, d, e) \in Seq(S)
        /\ Len(Placed(q, d, e)) = Len(q) + 1
        /\ \E k \in 1 .. Len(q) + 1 :
             /\ Placed(q, d, e)[k] = e
             /\ \A i \in 1 .. k - 1 : Placed(q, d, e)[i] = q[i] /\ d[q[i]] <= d[e]
             /\ \A i \in k + 1 .. Len(q) + 1 :
                  Placed(q, d, e)[i] = q[i - 1] /\ d[q[i - 1]] > d[e]
    BY PlacedSomewhere
  <2> QED
    BY <2>1
<1>2. PICK k \in 1 .. Len(q) + 1 :
           /\ p[k] = e
           /\ \A i \in 1 .. k - 1 : p[i] = q[i] /\ d[q[i]] <= d[e]
           /\ \A i \in k + 1 .. Len(q) + 1 : p[i] = q[i - 1] /\ d[q[i - 1]] > d[e]
  BY <1>1
<1>3. /\ Len(q) \in Nat /\ DOMAIN q = 1 .. Len(q) /\ DOMAIN p = 1 .. Len(q) + 1
      /\ \A i \in 1 .. Len(q) : q[i] \in S /\ d[q[i]] \in Nat /\ q[i] # e
      /\ d[e] \in Nat
  BY <1>1 DEF Listed
<1>4. ASSUME NEW i \in DOMAIN p, NEW j \in DOMAIN p, i < j
      PROVE  d[p[i]] <= d[p[j]] /\ p[i] # p[j]
  <2>1. CASE j < k
    <3>1. i \in 1 .. k - 1 /\ j \in 1 .. k - 1 /\ i \in 1 .. Len(q) /\ j \in 1 .. Len(q)
      BY <1>3, <1>4, <2>1
    <3> QED
      BY <1>2, <1>3, <1>4, <3>1 DEF IsInjective
  <2>2. CASE j = k
    <3>1. i \in 1 .. k - 1 /\ i \in 1 .. Len(q)
      BY <1>3, <1>4, <2>2
    <3> QED
      BY <1>2, <1>3, <2>2, <3>1
  <2>3. CASE j > k /\ i < k
    <3>1. i \in 1 .. k - 1 /\ i \in 1 .. Len(q)
          /\ j \in k + 1 .. Len(q) + 1 /\ j - 1 \in 1 .. Len(q) /\ i < j - 1
      BY <1>3, <1>4, <2>3
    <3>2. p[i] = q[i] /\ p[j] = q[j - 1]
      BY <1>2, <3>1
    <3>3. d[q[i]] <= d[q[j - 1]] /\ q[i] # q[j - 1]
      BY <1>3, <3>1 DEF IsInjective
    <3> QED
      BY <3>2, <3>3
  <2>4. CASE j > k /\ i = k
    <3>1. j \in k + 1 .. Len(q) + 1 /\ j - 1 \in 1 .. Len(q)
      BY <1>3, <1>4, <2>4
    <3> QED
      BY <1>2, <1>3, <2>4, <3>1
  <2>5. CASE j > k /\ i > k
    <3>1. /\ i \in k + 1 .. Len(q) + 1 /\ i - 1 \in 1 .. Len(q)
          /\ j \in k + 1 .. Len(q) + 1 /\ j - 1 \in 1 .. Len(q) /\ i - 1 < j - 1
      BY <1>3, <1>4, <2>5
    <3>2. p[i] = q[i - 1] /\ p[j] = q[j - 1]
      BY <1>2, <3>1
    <3>3. d[q[i - 1]] <= d[q[j - 1]] /\ q[i - 1] # q[j - 1]
      BY <1>3, <3>1 DEF IsInjective
    <3> QED
      BY <3>2, <3>3
  <2> QED
    BY <1>3, <2>1, <2>2, <2>3, <2>4, <2>5
<1>5. IsInjective(p)
  <2>1. ASSUME NEW i \in DOMAIN p, NEW j \in DOMAIN p, p[i] = p[j] PROVE i = j
    <3>1. ~ i < j /\ ~ j < i
      BY <1>4, <2>1
    <3> QED
      BY <1>3, <3>1
  <2> QED
    BY <2>1 DEF IsInjective
<1>6. ASSUME NEW u PROVE Listed(p, u) <=> Listed(q, u) \/ u = e
  <2>1. ASSUME Listed(p, u) PROVE Listed(q, u) \/ u = e
    <3>1. PICK i \in 1 .. Len(q) + 1 : p[i] = u
      BY <1>3, <2>1 DEF Listed
    <3>2. CASE i \in 1 .. k - 1
      BY <1>2, <1>3, <3>1, <3>2 DEF Listed
    <3>3. CASE i = k
      BY <1>2, <3>1, <3>3
    <3>4. CASE i \in k + 1 .. Len(q) + 1
      <4>1. i - 1 \in 1 .. Len(q)
        BY <1>3, <3>4
      <4> QED
        BY <1>2, <1>3, <3>1, <3>4, <4>1 DEF Listed
    <3> QED
      BY <1>3, <3>2, <3>3, <3>4
  <2>2. ASSUME Listed(q, u) PROVE Listed(p, u)
    <3>1. PICK i \in 1 .. Len(q) : q[i] = u
      BY <1>3, <2>2 DEF Listed
    <3>2. CASE i < k
      BY <1>2, <1>3, <3>1, <3>2 DEF Listed
    <3>3. CASE i >= k
      <4>1. i + 1 \in k + 1 .. Len(q) + 1 /\ (i + 1) - 1 = i /\ i + 1 \in 1 .. Len(q) + 1
        BY <1>3, <3>3
      <4>2. p[i + 1] = q[(i + 1) - 1]
        BY <1>2, <4>1
      <4> QED
        BY <1>3, <3>1, <4>1, <4>2 DEF Listed
    <3> QED
      BY <1>3, <3>2, <3>3
  <2>3. u = e => Listed(p, u)
    BY <1>2, <1>3 DEF Listed
  <2> QED
    BY <2>1, <2>2, <2>3
<1>7. p # <<>> /\ Head(p) = p[1]
  BY <1>1, <1>3
<1>8. Head(p) = IF q = <<>> \/ d[Head(q)] > d[e] THEN e ELSE Head(q)
  <2>1. CASE q = <<>>
    <3>1. k = 1
      BY <1>3, <2>1
    <3> QED
      BY <1>2, <1>7, <2>1, <3>1
  <2>2. CASE q # <<>>
    <3>1. Head(q) = q[1] /\ Len(q) >= 1
      BY <1>3, <2>2
    <3>2. CASE k = 1
      <4>1. 2 \in k + 1 .. Len(q) + 1 /\ 2 - 1 = 1
        BY <1>3, <3>1, <3>2
      <4>2. d[q[2 - 1]] > d[e]
        BY <1>2, <4>1
      <4> QED
        BY <1>2, <1>7, <3>1, <3>2, <4>1, <4>2
    <3>3. CASE k # 1
      <4>1. 1 \in 1 .. k - 1 /\ 1 \in 1 .. Len(q)
        BY <1>3, <3>1, <3>3
      <4> QED
        BY <1>2, <1>3, <1>7, <2>2, <3>1, <4>1
    <3> QED
      BY <3>2, <3>3
  <2> QED
    BY <2>1, <2>2
<1> QED
  BY <1>1, <1>4, <1>5, <1>6, <1>7, <1>8

-----------------------------------------------------------------------------
(* The two operations on the queue of timers.                               *)

(* Who makes a call is a Ready thread, on no wait queue, outside the handler. *)
LEMMA Caller ==
    ASSUME IInv, TimersIInv, Calls
    PROVE  /\ tp \in Threads /\ tp # None
           /\ state[tp] = "Ready"
           /\ \A q \in Queues : ~Listed(waitQ[q], tp)
           /\ mode = "thread" /\ waking = None /\ serving = None
<1>1. tp # None /\ mode = "thread" /\ waking = None
  BY DEF IInv, HartState, Calls, InThread
<1>2. serving = None
  BY <1>1 DEF TimersIInv, HandlerShape
<1> QED
  BY <1>1, <1>2, RunnerListed

(* registerTimer keeps the queue ordered and adds the new timer to it, and  *)
(* leaves the compare register at the time of the first.                    *)
LEMMA RegisterStep ==
    ASSUME IInv, TimersIInv, Calls, handle[tp] = None,
           NEW e \in Queues, NEW trigger \in 0 .. Horizon, NEW r \in Repeats \cup {0},
           Register(e, trigger, r)
    PROVE  /\ timerQ' \in Seq(Queues) /\ timerQ' # <<>>
           /\ QueueOrdered'
           /\ \A u : Queued(u)' <=> Queued(u) \/ u = e
           /\ compare' = due'[Head(timerQ')]
           /\ due' \in [Queues -> Times]
           /\ ~Queued(e)
<1>1. /\ timerQ \in Seq(Queues)
      /\ due \in [Queues -> Times]
      /\ Times \subseteq Nat /\ trigger \in Times
  BY TimersAssumption DEF TimersIInv, TimersTypeOK, Times
<1>2. e \in spare /\ ~Queued(e)
  BY DEF Register, TimersIInv, SlotsApart
<1>3. ~Listed(timerQ, e)
  BY <1>2 DEF Queued
<1>4. due' = [due EXCEPT ![e] = trigger] /\ due' \in [Queues -> Times] /\ due'[e] = trigger
  BY <1>1 DEF Register
<1>5. \A i \in DOMAIN timerQ : timerQ[i] \in Queues /\ timerQ[i] # e /\ due'[timerQ[i]] = due[timerQ[i]]
  BY <1>1, <1>3, <1>4 DEF Listed
<1>6. \A i, j \in DOMAIN timerQ : i < j => due'[timerQ[i]] <= due'[timerQ[j]]
  BY <1>5 DEF TimersIInv, QueueOrdered
<1>7. IsInjective(timerQ)
  BY DEF TimersIInv, QueueOrdered
<1>8. due' \in [Queues -> Nat]
  BY <1>1, <1>4
<1>9. /\ timerQ' \in Seq(Queues) /\ timerQ' # <<>>
      /\ \A i, j \in DOMAIN timerQ' : i < j => due'[timerQ'[i]] <= due'[timerQ'[j]]
      /\ IsInjective(timerQ')
      /\ \A u : Listed(timerQ', u) <=> Listed(timerQ, u) \/ u = e
      /\ Head(timerQ') = IF timerQ = <<>> \/ due'[Head(timerQ)] > due'[e] THEN e ELSE Head(timerQ)
  <2>1. timerQ' = Placed(timerQ, due', e)
    BY DEF Register
  <2> QED
    BY <1>1, <1>3, <1>6, <1>7, <1>8, <2>1, PlacedOrdered
<1>10. compare' = due'[Head(timerQ')]
  <2>1. compare = IF timerQ = <<>> THEN Never ELSE due[Head(timerQ)]
    BY Caller DEF TimersIInv, Armed
  <2>2. compare' = IF timerQ = <<>> \/ due[Head(timerQ)] > trigger THEN trigger ELSE compare
    BY DEF Register
  <2>3. timerQ # <<>> => due'[Head(timerQ)] = due[Head(timerQ)]
    <3>1. timerQ # <<>> => 1 \in DOMAIN timerQ /\ Head(timerQ) = timerQ[1]
      BY <1>1
    <3> QED
      BY <1>5, <3>1
  <2> QED
    BY <1>4, <1>9, <2>1, <2>2, <2>3
<1> QED
  BY <1>2, <1>4, <1>9, <1>10 DEF QueueOrdered, Queued

(* A turn of the handler takes the first timer off the queue and, if it     *)
(* repeats, puts it back in its new place.                                  *)
LEMMA FireFrontStep ==
    ASSUME IInv, TimersIInv, FireFront, NEW e, e = Head(timerQ)
    PROVE  /\ e \in Queues /\ Queued(e)
           /\ due[e] <= serving /\ serving \in 0 .. Horizon
           /\ timerQ' \in Seq(Queues)
           /\ QueueOrdered'
           /\ \A u : u # e => (Queued(u)' <=> Queued(u))
           /\ repeat[e] = 0 <=> ~Queued(e)'
           /\ due' \in [Queues -> Times]
           /\ repeat[e] = 0 => due'[e] = due[e]
<1>1. /\ timerQ \in Seq(Queues) /\ timerQ # <<>>
      /\ due \in [Queues -> Times]
      /\ repeat \in [Queues -> Repeats \cup {0}]
      /\ serving \in 0 .. Horizon
      /\ IsInjective(timerQ)
      /\ Times \subseteq Nat
  BY TimersAssumption DEF TimersIInv, TimersTypeOK, QueueOrdered, FireFront, Times
<1> DEFINE rest == Tail(timerQ)
<1>2. /\ rest \in Seq(Queues)
      /\ IsInjective(rest)
      /\ e \in Queues
      /\ Listed(timerQ, e)
      /\ \A u : Listed(rest, u) <=> Listed(timerQ, u) /\ u # e
  BY <1>1, TailListed
<1>3. due[e] <= serving
  BY DEF FireFront, Due
<1>4. /\ due' = [due EXCEPT ![e] = due[e] + repeat[e]]
      /\ timerQ' = IF repeat[e] = 0 THEN rest ELSE Placed(rest, due', e)
  BY DEF FireFront
<1>5. due'[e] = due[e] + repeat[e] /\ due[e] + repeat[e] \in Times
  <2>1. due'[e] = due[e] + repeat[e] /\ due[e] \in Nat /\ repeat[e] \in Repeats \cup {0}
    BY <1>1, <1>2, <1>4
  <2>2. repeat[e] \in Nat /\ Horizon + repeat[e] <= Never /\ Never \in Nat /\ Horizon \in Nat
    <3> DEFINE r == repeat[e]
    <3>1. r \in Repeats \/ r = 0
      BY <2>1
    <3>2. Horizon \in Nat /\ Never \in Nat /\ Horizon < Never
      BY TimersAssumption
    <3>3. r \in Repeats => r \in Nat /\ Horizon + r < Never
      BY TimersAssumption
    <3> HIDE DEF r
    <3>4. r \in Nat /\ Horizon + r <= Never
      BY <3>1, <3>2, <3>3
    <3> QED
      BY <3>2, <3>4 DEF r
  <2> QED
    BY <1>1, <1>3, <2>1, <2>2 DEF Times
<1>6. due' \in [Queues -> Times] /\ due' \in [Queues -> Nat]
  BY <1>1, <1>4, <1>5
<1>7. \A i, j \in DOMAIN rest : i < j => due'[rest[i]] <= due'[rest[j]]
  <2>1. \A i, j \in DOMAIN timerQ : i < j => due[timerQ[i]] <= due[timerQ[j]]
    BY DEF TimersIInv, QueueOrdered
  <2>2. /\ Len(timerQ) \in Nat \ {0} /\ DOMAIN timerQ = 1 .. Len(timerQ)
        /\ DOMAIN rest = 1 .. Len(timerQ) - 1
        /\ \A i \in 1 .. Len(timerQ) - 1 : rest[i] = timerQ[i + 1]
    BY <1>1
  <2>3. \A i \in DOMAIN rest : due'[rest[i]] = due[rest[i]]
    <3> TAKE i \in DOMAIN rest
    <3>1. Listed(rest, rest[i]) /\ rest[i] \in Queues
      BY <1>2 DEF Listed
    <3> HIDE DEF rest
    <3> QED
      BY <1>1, <1>2, <1>4, <3>1
  <2> HIDE DEF rest
  <2>4. ASSUME NEW i \in DOMAIN rest, NEW j \in DOMAIN rest, i < j
        PROVE  due[rest[i]] <= due[rest[j]]
    <3>1. /\ i + 1 \in DOMAIN timerQ /\ j + 1 \in DOMAIN timerQ /\ i + 1 < j + 1
          /\ rest[i] = timerQ[i + 1] /\ rest[j] = timerQ[j + 1]
      BY <2>2, <2>4
    <3> QED
      BY <2>1, <3>1
  <2> QED
    BY <2>3, <2>4
<1>8. CASE repeat[e] = 0
  <2>1. timerQ' = rest
    BY <1>4, <1>8
  <2>2. due'[e] = due[e]
    <3>1. due[e] \in Nat
      BY <1>1, <1>2
    <3> QED
      BY <1>5, <1>8, <3>1
  <2> HIDE DEF rest
  <2> QED
    BY <1>1, <1>2, <1>3, <1>6, <1>7, <1>8, <2>1, <2>2 DEF QueueOrdered, Queued
<1>9. CASE repeat[e] # 0
  <2> HIDE DEF rest
  <2>1. /\ timerQ' = Placed(rest, due', e)
        /\ ~Listed(rest, e)
    BY <1>2, <1>4, <1>9
  <2>2. /\ timerQ' \in Seq(Queues)
        /\ \A i, j \in DOMAIN timerQ' : i < j => due'[timerQ'[i]] <= due'[timerQ'[j]]
        /\ IsInjective(timerQ')
        /\ \A u : Listed(timerQ', u) <=> Listed(rest, u) \/ u = e
    BY <1>2, <1>6, <1>7, <2>1, PlacedOrdered
  <2> QED
    BY <1>1, <1>2, <1>3, <1>6, <1>9, <2>2 DEF QueueOrdered, Queued
<1> QED
  BY <1>8, <1>9

-----------------------------------------------------------------------------
(* What a step may do.                                                     *)

(* The conversion of registerTimerNs loses less than a cycle, as long as    *)
(* the product has no more bits than its type.                              *)
LEMMA CyclesOfSleep ==
    ASSUME NEW ns \in Nat
    PROVE  /\ Cycles(ns) \in Nat
           /\ ns * ClockFreq < Word => (Cycles(ns) + 1) * NanoFactor > ns * ClockFreq
<1>1. ClockFreq \in Nat /\ NanoFactor \in Nat \ {0} /\ Word \in Nat \ {0}
  BY TimersAssumption
<1>2. PICK x \in Nat : x = ns * ClockFreq
  BY <1>1
<1>3. PICK y \in Nat : y = x % Word
  BY <1>1
<1>4. x < Word => y = x
  BY <1>1, <1>3
<1>5. Cycles(ns) = y \div NanoFactor
  BY <1>2, <1>3 DEF Cycles
<1>6. y \div NanoFactor \in Nat /\ (y \div NanoFactor + 1) * NanoFactor > y
  <2>1. PICK n \in Nat \ {0} : n = NanoFactor
    BY <1>1
  <2>2. y = n * (y \div n) + (y % n) /\ (y % n) \in 0 .. n - 1 /\ y \div n \in Nat
    BY <2>1
  <2>3. PICK k \in Nat : k = y \div n
    BY <2>2
  <2>4. (k + 1) * n = n * k + n
    BY <2>1, <2>3
  <2>5. PICK m \in Int : m = n * k
    BY <2>1, <2>3
  <2> QED
    BY <2>1, <2>2, <2>3, <2>4, <2>5
<1> QED
  BY <1>2, <1>4, <1>5, <1>6

(* What has passed once has passed for ever after. *)
LEMMA LaterStill ==
    ASSUME NEW a \in Nat, NEW b \in Nat, NEW from \in Nat, NEW ns \in Nat, a <= b,
           (a - from + 1) * NanoFactor > ns * ClockFreq
    PROVE  (b - from + 1) * NanoFactor > ns * ClockFreq
<1>1. NanoFactor \in Nat /\ ClockFreq \in Nat
  BY TimersAssumption
<1>2. PICK n \in Nat, x \in Nat : n = NanoFactor /\ x = ns * ClockFreq
  BY <1>1
<1>3. PICK k \in Nat : b = a + k
  <2>1. b - a \in Nat /\ b = a + (b - a)
    OBVIOUS
  <2> QED
    BY <2>1
<1>4. PICK c \in Int : c = a - from + 1
  OBVIOUS
<1>5. b - from + 1 = c + k
  BY <1>3, <1>4
<1>6. (c + k) * n = c * n + k * n /\ k * n \in Nat /\ c * n \in Int
  BY <1>2, <1>3, <1>4
<1>7. c * n > x
  BY <1>2, <1>4
<1> QED
  BY <1>2, <1>5, <1>6, <1>7

(* A call that registers a timer, and whether it goes to sleep on it. *)
RegisterCall(e, trigger, r) ==
    /\ Calls /\ pc[tp] = "free" /\ handle[tp] = None
    /\ Register(e, trigger, r)
    /\ \/ /\ SleepOn(e) /\ r = 0 /\ Goto("slept")
          /\ \E ns \in Delays : /\ trigger = now + Cycles(ns)
                              /\ asked' = [asked EXCEPT ![tp] = [ns |-> ns, at |-> now]]
       \/ UNCHANGED <<schedVars, pc, asked>>
    /\ UNCHANGED <<now, serving>>

(* The steps that leave the queue of timers alone. *)
QueueKept ==
    \/ RegisterFails \/ WaitTest \/ WaitSleep \/ ClearEvent \/ ClearHandle
    \/ TimerIrq \/ HandlerDone \/ Tick \/ Background \/ UNCHANGED timersVars

(* Every step registers a timer, fires the first one or leaves the queue.   *)
LEMMA StepCases ==
    ASSUME IInv, TimersIInv, [TimersNext]_timersVars
    PROVE  \/ \E e \in Queues, trigger \in 0 .. Horizon, r \in Repeats \cup {0} :
                RegisterCall(e, trigger, r)
           \/ FireFront
           \/ QueueKept
<1>1. CASE \E ns \in Delays : SleepNs(ns)
  <2>1. PICK ns \in Delays : SleepNs(ns)
    BY <1>1
  <2>2. PICK e \in Queues : Register(e, now + Cycles(ns), 0) /\ SleepOn(e)
    BY <2>1 DEF SleepNs
  <2>3. now + Cycles(ns) \in 0 .. Horizon
    <3>1. now \in 0 .. Horizon /\ ns \in Nat /\ Horizon \in Nat
      BY TimersAssumption DEF TimersIInv, TimersTypeOK
    <3>2. Cycles(ns) \in Nat /\ now + Cycles(ns) <= Horizon
      BY <2>1, <3>1, CyclesOfSleep DEF SleepNs
    <3> QED
      BY <3>1, <3>2
  <2>4. RegisterCall(e, now + Cycles(ns), 0)
    BY <2>1, <2>2 DEF SleepNs, RegisterCall, At
  <2> QED
    BY <2>3, <2>4
<1>2. CASE \E trigger \in 0 .. Horizon, r \in Repeats : RegisterTimer(trigger, r)
  BY <1>2 DEF RegisterTimer, RegisterCall, At
<1> QED
  BY <1>1, <1>2 DEF TimersNext, Call, QueueKept

(* So the timers stay queued, due and repeating as they were. *)
LEMMA QueueKeptStep ==
    ASSUME QueueKept
    PROVE  /\ UNCHANGED <<timerQ, due, repeat>>
           /\ \A u : Queued(u)' <=> Queued(u)
<1>1. UNCHANGED <<timerQ, due, repeat>>
  BY DEF QueueKept, RegisterFails, WaitTest, WaitSleep, ClearEvent, ClearHandle, TimerIrq,
         HandlerDone, Tick, Background, TimersIdle, timersVars, timerVars, eventVars
<1> QED
  BY <1>1 DEF Queued

(* Every step is a step of the scheduler, or leaves it alone. *)
LEMMA TimersStepIsSchedulerStep ==
    ASSUME IInv, TimersIInv, [TimersNext]_timersVars
    PROVE  [Next]_schedVars
<1>1. ASSUME NEW q \in Queues, SleepOn(q) \/ WakeAllThreads(q) PROVE Next
  BY <1>1 DEF Next, CoreNext, GiveUp, WakeAll
<1>2. CASE \E e \in Queues, trigger \in 0 .. Horizon, r \in Repeats \cup {0} :
                RegisterCall(e, trigger, r)
  BY <1>1, <1>2 DEF RegisterCall
<1>3. CASE FireFront
  BY <1>1, <1>3, FireFrontStep DEF FireFront
<1>4. CASE QueueKept
  <2>1. CASE WaitSleep
    <3>1. handle[tp] \in Queues
      <4>1. tp \in Threads /\ pc[tp] # "free"
        BY <2>1, Caller DEF WaitSleep, At
      <4> QED
        BY <4>1 DEF TimersIInv, CallShape, TimersTypeOK
    <3> QED
      BY <1>1, <2>1, <3>1 DEF WaitSleep
  <2>2. CASE Background
    <3>1. CASE \E p \in ThreadPriorities : AllocThread(p)
      BY <3>1, TimersAssumption DEF Next, CoreNext, Create
    <3> QED
      BY <2>2, <3>1 DEF Background, Return, AllocFails, Next, CoreNext, Create, GiveUp, WakeAll
  <2>3. CASE RegisterFails \/ TimerIrq
    BY <2>3 DEF RegisterFails, TimerIrq, Next, CoreNext, Create
  <2>4. CASE WaitTest \/ ClearEvent \/ ClearHandle \/ HandlerDone \/ Tick \/ UNCHANGED timersVars
    BY <2>4 DEF WaitTest, ClearEvent, ClearHandle, HandlerDone, Tick, timersVars
  <2> QED
    BY <1>4, <2>1, <2>2, <2>3, <2>4 DEF QueueKept
<1> QED
  BY <1>2, <1>3, <1>4, StepCases

(* A sleeper wakes only as the front waiter of the timer that is firing. *)
LEMMA Wakes ==
    ASSUME IInv, TimersIInv, [TimersNext]_timersVars, NEW t \in Threads,
           state[t] = "Sleeping", state'[t] # "Sleeping"
    PROVE  /\ waking \in Queues /\ handle[t] = waking
           /\ QueueKept /\ UNCHANGED <<now, timerVars, callVars>>
<1> USE DEF IInv
<1>1. /\ state \in [Threads -> {"Ready", "Sleeping", "Dead"}]
      /\ \A u \in free : state[u] = "Dead"
  BY DEF TypeOK, FreeSlotsUnused
<1>2. CASE \E e \in Queues, trigger \in 0 .. Horizon, r \in Repeats \cup {0} :
                RegisterCall(e, trigger, r)
  BY <1>1, <1>2 DEF RegisterCall, SleepOn, schedVars
<1>3. CASE FireFront
  BY <1>3 DEF FireFront, WakeAllThreads, threadVars
<1>4. CASE QueueKept
  <2>1. CASE Background
    <3>1. CASE Boot
      BY <1>1, <3>1, ThreadAssumption
         DEF Boot, CreateIdle, CreateStartup, InitIrq, RunStartup, threadVars, BootShape
    <3>2. CASE BeginCreate \/ PushThread \/ WakeDone \/ IrqEnter \/ Return \/ AllocFails
               \/ Halted
      BY <3>2 DEF BeginCreate, ReadFree, PushThread, WakeDone, IrqEnter, Return, IrqReturn, AllocFails, PoolFails,
                  Halted, threadVars, schedVars
    <3>3. CASE \E p \in ThreadPriorities : AllocThread(p)
      <4>1. PICK p \in ThreadPriorities : AllocThread(p)
        BY <3>3
      <4>2. PICK u \in Threads : u = taking[tp] /\ state[u] = "Dead"
        BY <4>1, SlotTaken
      <4> QED
        BY <1>1, <4>1, <4>2 DEF AllocThread
    <3>4. CASE StopThread
      <4>1. state[tp] = "Ready"
        BY <3>4, Caller DEF StopThread
      <4> QED
        BY <1>1, <3>4, <4>1 DEF StopThread
    <3>5. CASE WakeFront
      <4>1. waking \in Queues /\ waitQ[waking] # <<>>
        BY <3>5 DEF WakeFront, TypeOK
      <4>2. t = Head(waitQ[waking])
        BY <1>1, <3>5 DEF WakeFront, Schedule
      <4>3. Listed(waitQ[waking], t)
        <5>1. waitQ[waking] \in Seq(Threads) /\ IsInjective(waitQ[waking])
          BY <4>1 DEF TypeOK, QueueDiscipline, SleepersListed
        <5> QED
          BY <4>1, <4>2, <5>1, TailListed
      <4> QED
        BY <1>4, <2>1, <4>1, <4>3 DEF TimersIInv, SlotsApart, Background, TimersIdle
    <3> QED
      BY <2>1, <3>1, <3>2, <3>3, <3>4, <3>5 DEF Background
  <2>2. CASE WaitSleep
    BY <1>1, <2>2 DEF WaitSleep, SleepOn, schedVars
  <2>3. CASE RegisterFails \/ WaitTest \/ ClearEvent \/ ClearHandle \/ TimerIrq
               \/ HandlerDone \/ Tick \/ UNCHANGED timersVars
    BY <2>3 DEF RegisterFails, PoolFails, WaitTest, ClearEvent, ClearHandle, TimerIrq, IrqEnter,
                HandlerDone, Tick, timersVars, schedVars, threadVars
  <2> QED
    BY <1>4, <2>1, <2>2, <2>3 DEF QueueKept
<1> QED
  BY <1>2, <1>3, <1>4, StepCases

(* Only the caller's own place, handle and request change. *)
LEMMA OthersStay ==
    ASSUME IInv, TimersIInv, [TimersNext]_timersVars, NEW t \in Threads, t # tp \/ ~Calls
    PROVE  pc'[t] = pc[t] /\ handle'[t] = handle[t] /\ asked'[t] = asked[t]
<1>1. /\ pc \in [Threads -> Places] /\ handle \in [Threads -> Queues \cup {None}]
      /\ asked \in [Threads -> [ns : Delays \cup {0}, at : 0 .. Horizon]]
  BY DEF TimersIInv, TimersTypeOK
<1>2. CASE \E e \in Queues, trigger \in 0 .. Horizon, r \in Repeats \cup {0} :
                RegisterCall(e, trigger, r)
  BY <1>1, <1>2 DEF RegisterCall, Register, Goto
<1>3. CASE FireFront
  BY <1>3 DEF FireFront, callVars
<1>4. CASE QueueKept
  BY <1>1, <1>4 DEF QueueKept, RegisterFails, WaitTest, WaitSleep, ClearEvent, ClearHandle,
         TimerIrq, HandlerDone, Tick, Background, TimersIdle, timersVars, callVars, At, Goto
<1> QED
  BY <1>2, <1>3, <1>4, StepCases

(* A thread that is dead holds no timer and is in no call. *)
LEMMA Dies ==
    ASSUME IInv, TimersIInv, [TimersNext]_timersVars, NEW t \in Threads,
           state'[t] = "Dead"
    PROVE  pc'[t] = "free" /\ handle'[t] = None
<1> USE DEF IInv
<1>1. state \in [Threads -> {"Ready", "Sleeping", "Dead"}]
  BY DEF TypeOK
<1>2. CASE state[t] = "Dead"
  <2>1. pc[t] = "free" /\ handle[t] = None
    BY <1>2 DEF TimersIInv, CallShape
  <2>2. t # tp \/ ~Calls
    BY <1>2, Caller
  <2> QED
    BY <2>1, <2>2, OthersStay
<1>3. CASE At("free") /\ StopThread /\ handle[tp] = None /\ TimersIdle
  <2>1. t = tp \/ state[t] = "Dead"
    BY <1>1, <1>3 DEF StopThread
  <2>2. pc'[tp] = "free" /\ handle'[tp] = None
    BY <1>3 DEF At, TimersIdle, callVars
  <2> QED
    BY <1>2, <2>1, <2>2
<1>4. CASE state[t] # "Dead" /\ ~(At("free") /\ StopThread /\ handle[tp] = None /\ TimersIdle)
  <2>1. CASE \E e \in Queues, trigger \in 0 .. Horizon, r \in Repeats \cup {0} :
                RegisterCall(e, trigger, r)
    BY <1>1, <1>4, <2>1 DEF RegisterCall, SleepOn, schedVars
  <2>2. CASE FireFront
    BY <1>4, <2>2 DEF FireFront, WakeAllThreads, threadVars
  <2>3. CASE Background
    <3>1. CASE Boot
      BY <1>1, <1>4, <3>1
         DEF Boot, CreateIdle, CreateStartup, InitIrq, RunStartup, threadVars
    <3>2. CASE BeginCreate \/ PushThread \/ WakeDone \/ IrqEnter \/ Return \/ AllocFails
               \/ Halted
      BY <1>4, <3>2 DEF BeginCreate, ReadFree, PushThread, WakeDone, IrqEnter, Return, IrqReturn, AllocFails, PoolFails,
                  Halted, threadVars, schedVars
    <3>3. CASE \E p \in ThreadPriorities : AllocThread(p)
      BY <1>1, <1>4, <3>3 DEF AllocThread
    <3>4. CASE WakeFront
      BY <1>1, <1>4, <3>4 DEF WakeFront, Schedule
    <3> QED
      BY <1>4, <2>3, <3>1, <3>2, <3>3, <3>4 DEF Background
  <2>4. CASE WaitSleep
    BY <1>1, <1>4, <2>4 DEF WaitSleep, SleepOn, schedVars
  <2>5. CASE RegisterFails \/ WaitTest \/ ClearEvent \/ ClearHandle \/ TimerIrq
               \/ HandlerDone \/ Tick \/ UNCHANGED timersVars
    BY <1>4, <2>5 DEF RegisterFails, PoolFails, WaitTest, ClearEvent, ClearHandle, TimerIrq, IrqEnter,
                HandlerDone, Tick, timersVars, schedVars, threadVars
  <2> QED
    BY <2>1, <2>2, <2>3, <2>4, <2>5, StepCases DEF QueueKept
<1> QED
  BY <1>2, <1>3, <1>4

(* A thread that comes to wait for a timer holds it and saw that it had not *)
(* fired, or has just registered it.                                        *)
LEMMA NewWaiter ==
    ASSUME IInv, TimersIInv, [TimersNext]_timersVars, NEW e \in Queues, NEW t \in Threads,
           Listed(waitQ'[e], t)
    PROVE  \/ Listed(waitQ[e], t)
           \/ /\ t = tp /\ Calls /\ handle'[t] = e /\ Queued(e)'
<1>1. CASE \E f \in Queues, trigger \in 0 .. Horizon, r \in Repeats \cup {0} :
                RegisterCall(f, trigger, r)
  <2>1. PICK f \in Queues, trigger \in 0 .. Horizon, r \in Repeats \cup {0} :
                RegisterCall(f, trigger, r)
    BY <1>1
  <2>2. /\ Calls /\ handle[tp] = None /\ Register(f, trigger, r)
        /\ SleepOn(f) \/ waitQ' = waitQ
    BY <2>1 DEF RegisterCall, schedVars
  <2>3. handle'[tp] = f /\ Queued(f)'
    <3>1. Queued(f)'
      BY <2>2, RegisterStep
    <3>2. handle \in [Threads -> Queues \cup {None}] /\ tp \in Threads
      BY <2>2, Caller DEF TimersIInv, TimersTypeOK
    <3> QED
      BY <2>2, <3>1, <3>2 DEF Register
  <2>4. CASE SleepOn(f) /\ e # f
    BY <2>4, SleepElsewhere
  <2>5. CASE SleepOn(f) /\ e = f
    <3>1. [Next]_schedVars
      BY TimersStepIsSchedulerStep
    <3> QED
      BY <2>2, <2>3, <2>5, <3>1, WaitersOfStep
  <2> QED
    BY <2>2, <2>4, <2>5
<1>2. CASE FireFront
  BY <1>2 DEF FireFront, WakeAllThreads, listVars
<1>3. CASE WaitSleep
  <2>1. tp \in Threads /\ pc[tp] # "free" /\ handle[tp] \in Queues \cup {None}
    BY <1>3, Caller DEF WaitSleep, At, TimersIInv, TimersTypeOK
  <2>2. handle[tp] \in Queues
    BY <2>1 DEF TimersIInv, CallShape
  <2>3. CASE fired[handle[tp]]
    BY <1>3, <2>3 DEF WaitSleep, schedVars
  <2>4. CASE ~fired[handle[tp]]
    <3>1. SleepOn(handle[tp]) /\ Calls /\ handle' = handle /\ timerQ' = timerQ
      BY <1>3, <2>4 DEF WaitSleep, At, timerVars
    <3>2. Queued(handle[tp])
      BY <2>1, <2>2, <2>4 DEF TimersIInv, NobodyForgotten, SlotsApart
    <3>3. CASE e = handle[tp]
      <4>1. [Next]_schedVars
        BY TimersStepIsSchedulerStep
      <4>2. Queued(e)'
        BY <3>1, <3>2, <3>3 DEF Queued
      <4> QED
        BY <3>1, <3>3, <4>1, <4>2, WaitersOfStep
    <3>4. CASE e # handle[tp]
      BY <2>2, <3>1, <3>4, SleepElsewhere
    <3> QED
      BY <3>3, <3>4
  <2> QED
    BY <2>3, <2>4
<1>4. CASE QueueKept /\ ~WaitSleep
  <2>1. CASE Background
    <3>1. CASE Listed(waitQ[e], t)
      BY <3>1
    <3>2. CASE ~Listed(waitQ[e], t)
      <4>1. SleepOn(e) /\ t = tp
        <5>1. [Next]_schedVars
          BY TimersStepIsSchedulerStep
        <5> QED
          BY <3>2, <5>1, WaitersOfStep
      <4>2. state'[tp] = "Sleeping" /\ state[tp] = "Ready" /\ mode = "thread" /\ waking = None
        BY <4>1, Caller DEF SleepOn, IInv, TypeOK
      <4>3. waitQ' # waitQ
        BY <3>2
      <4>4. CASE StopThread
        <5>1. state'[tp] = "Dead"
          BY <4>1, <4>4, Caller DEF StopThread, SleepOn, IInv, TypeOK
        <5> QED
          BY <4>2, <5>1
      <4>5. CASE Boot \/ IrqEnter \/ Return \/ Halted
        BY <4>3, <4>5 DEF Boot, CreateIdle, CreateStartup, InitIrq, RunStartup, IrqEnter, Return,
               IrqReturn, Halted, listVars, schedVars
      <4>6. CASE BeginCreate \/ PushThread \/ AllocFails \/ \E p \in ThreadPriorities : AllocThread(p)
        BY <4>3, <4>6 DEF BeginCreate, ReadFree, PushThread, AllocThread, AllocFails, PoolFails, listVars
      <4>7. CASE WakeFront \/ WakeDone
        BY <4>2, <4>7 DEF WakeFront, WakeDone
      <4> QED
        BY <2>1, <4>4, <4>5, <4>6, <4>7 DEF Background
    <3> QED
      BY <3>1, <3>2
  <2>2. CASE ~Background
    BY <1>4, <2>2 DEF QueueKept, RegisterFails, PoolFails, WaitTest, ClearEvent, ClearHandle, TimerIrq,
           IrqEnter, HandlerDone, Tick, timersVars, schedVars, listVars
  <2> QED
    BY <2>1, <2>2
<1> QED
  BY <1>1, <1>2, <1>3, <1>4, StepCases DEF QueueKept

-----------------------------------------------------------------------------
(* The parts of the invariant, one by one.                                  *)

(* Every variable keeps its type; a timer that is due can be put off by its *)
(* repeat time without reaching Never.                                      *)
LEMMA TypesStep ==
    ASSUME IInv, TimersIInv, [TimersNext]_timersVars
    PROVE  TimersTypeOK'
<1> USE DEF TimersTypeOK
<1>1. TimersTypeOK
  BY DEF TimersIInv
<1>2. 0 .. Horizon \subseteq Times
  BY TimersAssumption DEF Times
<1>3. CASE \E e \in Queues, trigger \in 0 .. Horizon, r \in Repeats \cup {0} :
                RegisterCall(e, trigger, r)
  <2>1. PICK e \in Queues, trigger \in 0 .. Horizon, r \in Repeats \cup {0} :
                RegisterCall(e, trigger, r)
    BY <1>3
  <2>2. Calls /\ handle[tp] = None /\ Register(e, trigger, r) /\ tp \in Threads
    BY <2>1, Caller DEF RegisterCall
  <2>3. timerQ' \in Seq(Queues) /\ due' \in [Queues -> Times] /\ compare' \in Times
    <3>1. /\ timerQ' \in Seq(Queues) /\ due' \in [Queues -> Times]
          /\ timerQ' # <<>> /\ compare' = due'[Head(timerQ')]
      BY <2>2, RegisterStep
    <3>2. Head(timerQ') \in Queues
      BY <3>1
    <3> QED
      BY <3>1, <3>2
  <2>4. repeat' \in [Queues -> Repeats \cup {0}] /\ fired' \in [Queues -> BOOLEAN]
        /\ spare' \subseteq Queues /\ handle' \in [Threads -> Queues \cup {None}]
    BY <1>1, <2>2 DEF Register
  <2>5. pc' \in [Threads -> Places] /\ now' \in 0 .. Horizon /\ serving' \in (0 .. Horizon) \cup {None}
    BY <1>1, <2>1, <2>2 DEF RegisterCall, Goto, Places
  <2>6. asked' \in [Threads -> [ns : Delays \cup {0}, at : 0 .. Horizon]]
    BY <1>1, <2>1, <2>2 DEF RegisterCall
  <2> QED
    BY <2>3, <2>4, <2>5, <2>6
<1>4. CASE FireFront
  <2>1. timerQ' \in Seq(Queues) /\ due' \in [Queues -> Times]
    BY <1>4, FireFrontStep
  <2>2. fired' \in [Queues -> BOOLEAN]
    BY <1>1, <1>4 DEF FireFront
  <2> QED
    BY <1>1, <1>4, <2>1, <2>2 DEF FireFront, callVars
<1>5. CASE RegisterFails \/ Background \/ UNCHANGED timersVars
  BY <1>1, <1>5 DEF RegisterFails, Background, TimersIdle, timersVars, timerVars, eventVars, callVars
<1>6. CASE WaitTest \/ WaitSleep
  BY <1>1, <1>6 DEF WaitTest, WaitSleep, Goto, Places, timerVars, eventVars
<1>7. CASE ClearEvent \/ TimerIrq
  BY <1>1, <1>7 DEF ClearEvent, TimerIrq, timerVars, eventVars, callVars
<1>8. CASE ClearHandle
  <2>1. tp \in Threads /\ (pc[tp] # "free" \/ handle[tp] # None)
    BY <1>8, Caller DEF ClearHandle, At
  <2>2. tp \in Threads /\ handle[tp] \in Queues
    <3>1. tp \in Threads
      BY <1>8, Caller DEF ClearHandle, At
    <3> QED
      BY <1>1, <2>1, <3>1 DEF TimersIInv, CallShape
  <2>3. asked' \in [Threads -> [ns : Delays \cup {0}, at : 0 .. Horizon]]
    <3>1. [ns |-> 0, at |-> 0] \in [ns : Delays \cup {0}, at : 0 .. Horizon]
      BY TimersAssumption
    <3>2. asked' = [asked EXCEPT ![tp] = [ns |-> 0, at |-> 0]]
      BY <1>8 DEF ClearHandle
    <3> QED
      BY <1>1, <2>2, <3>1, <3>2
  <2> QED
    BY <1>1, <1>8, <2>2, <2>3 DEF ClearHandle, Goto, Places, eventVars
<1>9. CASE HandlerDone
  <2>1. compare' \in Times
    <3>1. timerQ # <<>> => Head(timerQ) \in Queues
      BY <1>1
    <3>2. Never \in Times
      BY TimersAssumption DEF Times
    <3> QED
      BY <1>1, <1>9, <3>1, <3>2 DEF HandlerDone
  <2> QED
    BY <1>1, <1>9, <2>1 DEF HandlerDone, eventVars, callVars
<1>10. CASE Tick
  <2>1. now' \in 0 .. Horizon
    BY <1>1, <1>10, TimersAssumption DEF Tick
  <2> QED
    BY <1>1, <1>10, <2>1 DEF Tick, timerVars, eventVars, callVars
<1> QED
  BY <1>3, <1>4, <1>5, <1>6, <1>7, <1>8, <1>9, <1>10, StepCases DEF QueueKept

(* The queue stays ordered. *)
LEMMA QueueOrderedStep ==
    ASSUME IInv, TimersIInv, [TimersNext]_timersVars
    PROVE  QueueOrdered'
<1>1. CASE \E e \in Queues, trigger \in 0 .. Horizon, r \in Repeats \cup {0} :
                RegisterCall(e, trigger, r)
  BY <1>1, RegisterStep DEF RegisterCall
<1>2. CASE FireFront
  BY <1>2, FireFrontStep
<1>3. CASE QueueKept
  BY <1>3, QueueKeptStep DEF TimersIInv, QueueOrdered
<1> QED
  BY <1>1, <1>2, <1>3, StepCases

(* Outside the handler the compare register follows the front of the queue. *)
LEMMA ArmedStep ==
    ASSUME IInv, TimersIInv, [TimersNext]_timersVars
    PROVE  Armed'
<1> USE DEF Armed
<1>1. CASE \E e \in Queues, trigger \in 0 .. Horizon, r \in Repeats \cup {0} :
                RegisterCall(e, trigger, r)
  BY <1>1, RegisterStep DEF RegisterCall
<1>2. CASE FireFront
  BY <1>2 DEF FireFront
<1>3. CASE QueueKept /\ ~HandlerDone /\ ~TimerIrq
  <2>1. UNCHANGED <<compare, serving, timerQ, due>>
    BY <1>3 DEF QueueKept, RegisterFails, WaitTest, WaitSleep, ClearEvent, ClearHandle, Tick,
                Background, TimersIdle, timersVars, timerVars, eventVars
  <2> QED
    BY <2>1 DEF TimersIInv
<1>4. CASE HandlerDone
  BY <1>4 DEF HandlerDone, eventVars
<1>5. CASE TimerIrq
  <2>1. serving' # None
    BY <1>5, TimersAssumption DEF TimerIrq, TimersIInv, TimersTypeOK
  <2> QED
    BY <2>1
<1> QED
  BY <1>1, <1>2, <1>3, <1>4, <1>5, StepCases

(* A slot stays in one pair of hands. *)
LEMMA SlotsApartStep ==
    ASSUME IInv, TimersIInv, [TimersNext]_timersVars
    PROVE  SlotsApart'
<1>1. SlotsApart /\ TimersTypeOK /\ CallShape
  BY DEF TimersIInv
<1>2. ASSUME UNCHANGED <<spare, handle>>, \A u : Queued(u)' => Queued(u) PROVE SlotsApart'
  <2> SUFFICES ASSUME NEW e \in Queues, NEW t \in Threads, Listed(waitQ'[e], t)
               PROVE  handle'[t] = e
    BY <1>1, <1>2 DEF SlotsApart
  <2> QED
    BY <1>1, <1>2, NewWaiter DEF SlotsApart
<1>3. CASE \E e \in Queues, trigger \in 0 .. Horizon, r \in Repeats \cup {0} :
                RegisterCall(e, trigger, r)
  <2>1. PICK e \in Queues, trigger \in 0 .. Horizon, r \in Repeats \cup {0} :
                RegisterCall(e, trigger, r)
    BY <1>3
  <2>2. Calls /\ handle[tp] = None /\ Register(e, trigger, r) /\ tp \in Threads
    BY <2>1, Caller DEF RegisterCall
  <2>3. /\ e \in spare /\ spare' = spare \ {e}
        /\ handle'[tp] = e
        /\ \A t \in Threads \ {tp} : handle'[t] = handle[t]
        /\ \A t \in Threads : handle[t] # e
        /\ None \notin Queues
    BY <1>1, <2>2, ThreadAssumption DEF Register, SlotsApart, TimersTypeOK
  <2>4. \A u : Queued(u)' <=> Queued(u) \/ u = e
    BY <2>2, RegisterStep
  <2> SUFFICES ASSUME NEW f \in Queues
               PROVE  /\ f \in spare' <=> \A t \in Threads : handle'[t] # f
                      /\ \A t, u \in Threads : handle'[t] = f /\ handle'[u] = f => t = u
                      /\ Queued(f)' => f \notin spare'
                      /\ \A t \in Threads : Listed(waitQ'[f], t) => handle'[t] = f
    BY DEF SlotsApart
  <2>5. f \in spare' <=> \A t \in Threads : handle'[t] # f
    BY <1>1, <2>2, <2>3 DEF SlotsApart
  <2>6. \A t, u \in Threads : handle'[t] = f /\ handle'[u] = f => t = u
    BY <1>1, <2>2, <2>3 DEF SlotsApart
  <2>7. Queued(f)' => f \notin spare'
    BY <1>1, <2>3, <2>4 DEF SlotsApart
  <2>8. ASSUME NEW t \in Threads, Listed(waitQ'[f], t) PROVE handle'[t] = f
    <3>1. CASE Listed(waitQ[f], t)
      <4>1. t # tp
        BY <2>2, <3>1, Caller
      <4> QED
        BY <1>1, <2>3, <3>1, <4>1 DEF SlotsApart
    <3> QED
      BY <2>8, <3>1, NewWaiter
  <2> QED
    BY <2>5, <2>6, <2>7, <2>8
<1>4. CASE FireFront
  <2>1. UNCHANGED <<spare, handle>>
    BY <1>4 DEF FireFront, callVars
  <2>2. \A u : Queued(u)' => Queued(u)
    BY <1>4, FireFrontStep
  <2> QED
    BY <1>2, <2>1, <2>2
<1>5. CASE QueueKept /\ ~ClearHandle
  <2>1. UNCHANGED <<spare, handle>>
    BY <1>5 DEF QueueKept, RegisterFails, WaitTest, WaitSleep, ClearEvent, TimerIrq, HandlerDone, Tick,
                Background, TimersIdle, timersVars, timerVars, callVars
  <2>2. \A u : Queued(u)' => Queued(u)
    BY <1>5, QueueKeptStep
  <2> QED
    BY <1>2, <2>1, <2>2
<1>6. CASE ClearHandle
  <2>1. Calls /\ tp \in Threads /\ state[tp] = "Ready"
    BY <1>6, Caller DEF ClearHandle, At
  <2> DEFINE e == handle[tp]
  <2>2. e \in Queues /\ ~Queued(e)
    BY <1>1, <1>6, <2>1 DEF ClearHandle, At, CallShape, TimersTypeOK
  <2>3. /\ spare' = spare \cup {e}
        /\ handle'[tp] = None
        /\ \A t \in Threads \ {tp} : handle'[t] = handle[t] /\ handle[t] # e
        /\ None \notin Queues
    BY <1>1, <1>6, <2>1, <2>2, ThreadAssumption DEF ClearHandle, SlotsApart, TimersTypeOK
  <2>4. handle[tp] = e
    OBVIOUS
  <2>5. \A u : Queued(u)' => Queued(u)
    <3>1. QueueKept
      BY <1>6 DEF QueueKept
    <3> QED
      BY <3>1, QueueKeptStep
  <2> HIDE DEF e
  <2> SUFFICES ASSUME NEW f \in Queues
               PROVE  /\ f \in spare' <=> \A t \in Threads : handle'[t] # f
                      /\ \A t, u \in Threads : handle'[t] = f /\ handle'[u] = f => t = u
                      /\ Queued(f)' => f \notin spare'
                      /\ \A t \in Threads : Listed(waitQ'[f], t) => handle'[t] = f
    BY DEF SlotsApart
  <2>6. f \in spare' <=> \A t \in Threads : handle'[t] # f
    BY <1>1, <2>1, <2>3, <2>4 DEF SlotsApart
  <2>7. \A t, u \in Threads : handle'[t] = f /\ handle'[u] = f => t = u
    BY <1>1, <2>1, <2>3 DEF SlotsApart
  <2>8. Queued(f)' => f \notin spare'
    BY <1>1, <2>2, <2>3, <2>5 DEF SlotsApart
  <2>9. ASSUME NEW t \in Threads, Listed(waitQ'[f], t) PROVE handle'[t] = f
    <3>1. CASE Listed(waitQ[f], t)
      <4>1. t # tp
        BY <2>1, <3>1, Caller
      <4> QED
        BY <1>1, <2>3, <3>1, <4>1 DEF SlotsApart
    <3> QED
      BY <2>9, <3>1, NewWaiter
  <2> QED
    BY <2>6, <2>7, <2>8, <2>9
<1> QED
  BY <1>3, <1>4, <1>5, <1>6, StepCases

(* Nobody comes to wait for a timer that has left the queue, and none        *)
(* leaves it without its waiters being woken.                               *)
LEMMA NobodyForgottenStep ==
    ASSUME IInv, TimersIInv, [TimersNext]_timersVars
    PROVE  NobodyForgotten'
<1>1. NobodyForgotten /\ TimersTypeOK
  BY DEF TimersIInv
<1>2. ASSUME \A e \in Queues : e \in spare' \/ fired'[e] \/ Queued(e)',
             \A e \in Queues : Queued(e) => Queued(e)' \/ waking' = e,
             \A e \in Queues, t \in Threads :
               waking = e /\ Listed(waitQ[e], t) /\ Listed(waitQ'[e], t) => waking' = e
      PROVE  NobodyForgotten'
  <2> SUFFICES ASSUME NEW e \in Queues, NEW t \in Threads, Listed(waitQ'[e], t)
               PROVE  Queued(e)' \/ waking' = e
    BY <1>2 DEF NobodyForgotten
  <2> QED
    BY <1>1, <1>2, NewWaiter DEF NobodyForgotten
<1>3. CASE \E e \in Queues, trigger \in 0 .. Horizon, r \in Repeats \cup {0} :
                RegisterCall(e, trigger, r)
  <2>1. PICK e \in Queues, trigger \in 0 .. Horizon, r \in Repeats \cup {0} :
                RegisterCall(e, trigger, r)
    BY <1>3
  <2>2. Calls /\ handle[tp] = None /\ Register(e, trigger, r) /\ waking = None
    BY <2>1, Caller DEF RegisterCall
  <2>3. \A u : Queued(u)' <=> Queued(u) \/ u = e
    BY <2>2, RegisterStep
  <2>4. spare' = spare \ {e} /\ \A f \in Queues \ {e} : fired'[f] = fired[f]
    BY <1>1, <2>2 DEF Register, TimersTypeOK
  <2>5. \A f \in Queues : f \in spare' \/ fired'[f] \/ Queued(f)'
    BY <1>1, <2>3, <2>4 DEF NobodyForgotten
  <2>6. \A f \in Queues : waking # f
    BY <2>2, ThreadAssumption
  <2> QED
    BY <1>2, <2>3, <2>5, <2>6
<1>4. CASE FireFront
  <2> DEFINE e == Head(timerQ)
  <2>1. \A u : u # e => (Queued(u)' <=> Queued(u))
    BY <1>4, FireFrontStep
  <2>2. waking = None /\ waking' = e /\ spare' = spare /\ fired' = [fired EXCEPT ![e] = TRUE]
    BY <1>4 DEF FireFront, InHandler, WakeAllThreads
  <2> HIDE DEF e
  <2>3. \A f \in Queues : fired'[f] = IF f = e THEN TRUE ELSE fired[f]
    BY <1>1, <2>2 DEF TimersTypeOK
  <2>4. \A f \in Queues : f \in spare' \/ fired'[f] \/ Queued(f)'
    BY <1>1, <2>1, <2>2, <2>3 DEF NobodyForgotten
  <2>5. \A f \in Queues : waking # f
    BY <2>2, ThreadAssumption
  <2> QED
    BY <1>2, <2>1, <2>2, <2>4, <2>5
<1>5. CASE QueueKept
  <2>1. \A u : Queued(u)' <=> Queued(u)
    BY <1>5, QueueKeptStep
  <2>2. \A f \in Queues : f \in spare' \/ fired'[f] \/ Queued(f)'
    <3>1. CASE ClearEvent
      BY <1>1, <2>1, <3>1 DEF ClearEvent, NobodyForgotten, TimersTypeOK
    <3>2. CASE ClearHandle
      BY <1>1, <2>1, <3>2 DEF ClearHandle, NobodyForgotten, eventVars
    <3>3. CASE ~ClearEvent /\ ~ClearHandle
      <4>1. UNCHANGED <<spare, fired>>
        BY <1>5, <3>3 DEF QueueKept, RegisterFails, WaitTest, WaitSleep, TimerIrq, HandlerDone, Tick,
                  Background, TimersIdle, timersVars, timerVars, eventVars
      <4> QED
        BY <1>1, <2>1, <4>1 DEF NobodyForgotten
    <3> QED
      BY <3>1, <3>2, <3>3
  <2>3. ASSUME NEW e \in Queues, NEW t \in Threads,
               waking = e, Listed(waitQ[e], t), Listed(waitQ'[e], t)
        PROVE  waking' = e
    <3>1. waking # None /\ waitQ[waking] # <<>>
      BY <2>3, ThreadAssumption, EmptyListed
    <3>2. ~Calls /\ ~InHandler /\ ~WakeDone
      BY <3>1 DEF Calls, InThread, InHandler, WakeDone
    <3>3. CASE Background
      <4>1. waking' = waking
        BY <3>1, <3>2, <3>3 DEF Background, Boot, CreateIdle, CreateStartup, InitIrq, RunStartup,
               PushThread, AllocThread, InThread, WakeFront, IrqEnter, Return, IrqReturn, Halted, At,
               wakeVars, schedVars
      <4> QED
        BY <2>3, <4>1
    <3>4. CASE ~Background
      <4>1. waking' = waking
        BY <1>5, <3>2, <3>4 DEF QueueKept, RegisterFails, WaitTest, WaitSleep, ClearEvent, ClearHandle,
               TimerIrq, IrqEnter, HandlerDone, Tick, timersVars, At, wakeVars, schedVars
      <4> QED
        BY <2>3, <4>1
    <3> QED
      BY <3>3, <3>4
  <2> QED
    BY <1>2, <2>1, <2>2, <2>3
<1> QED
  BY <1>3, <1>4, <1>5, StepCases

(* The handler keeps to the time it has read. *)
LEMMA HandlerShapeStep ==
    ASSUME IInv, TimersIInv, [TimersNext]_timersVars
    PROVE  HandlerShape'
<1>1. HandlerShape /\ TimersTypeOK
  BY DEF TimersIInv
<1>2. ASSUME serving' = None, waking' = None PROVE HandlerShape'
  BY <1>2 DEF HandlerShape
<1>3. CASE \E e \in Queues, trigger \in 0 .. Horizon, r \in Repeats \cup {0} :
                RegisterCall(e, trigger, r)
  <2>1. Calls /\ waking = None /\ serving = None
    BY <1>3, Caller DEF RegisterCall
  <2>2. serving' = None /\ waking' = None
    BY <1>3, <2>1 DEF RegisterCall, SleepOn, wakeVars, schedVars
  <2> QED
    BY <1>2, <2>2
<1>4. CASE FireFront
  <2>1. PICK e : e = Head(timerQ)
    OBVIOUS
  <2>2. /\ e \in Queues /\ due[e] <= serving
        /\ repeat[e] = 0 <=> ~Queued(e)'
        /\ repeat[e] = 0 => due'[e] = due[e]
    BY <1>4, <2>1, FireFrontStep
  <2>3. /\ waking' = e /\ mode' = mode /\ mode = "irq" /\ serving' = serving /\ serving # None
        /\ now' = now /\ repeat' = repeat
    BY <1>4, <2>1 DEF FireFront, InHandler, WakeAllThreads
  <2>4. serving <= now /\ serving \in Nat /\ now \in Nat
    BY <1>1, <2>3, TimersAssumption DEF HandlerShape, TimersTypeOK
  <2>5. due[e] \in Nat
    <3>1. Times \subseteq Nat
      BY TimersAssumption DEF Times
    <3> QED
      BY <1>1, <2>2, <3>1 DEF TimersTypeOK
  <2>6. repeat[e] = 0 => due'[e] <= now
    BY <2>2, <2>4, <2>5
  <2>7. repeat'[waking'] = 0 => ~Queued(waking)' /\ due'[waking'] <= now'
    BY <2>2, <2>3, <2>6 DEF Queued
  <2> QED
    BY <2>3, <2>4, <2>7 DEF HandlerShape
<1>5. CASE WaitTest \/ WaitSleep \/ ClearEvent \/ ClearHandle \/ RegisterFails
  <2>1. Calls /\ waking = None /\ serving = None
    BY <1>5, Caller DEF WaitTest, WaitSleep, ClearEvent, ClearHandle, RegisterFails, At
  <2>2. serving' = None /\ waking' = None
    BY <1>5, <2>1 DEF WaitTest, WaitSleep, ClearEvent, ClearHandle, RegisterFails, PoolFails,
         SleepOn, wakeVars, schedVars
  <2> QED
    BY <1>2, <2>2
<1>6. CASE TimerIrq
  <2>1. waking = None
    BY <1>1, <1>6 DEF TimerIrq, IrqEnter, HandlerShape
  <2>2. serving' = now /\ now' = now /\ mode' = "irq" /\ waking' = None
    BY <1>6, <2>1 DEF TimerIrq, IrqEnter, wakeVars
  <2>3. now <= now
    BY <1>1, TimersAssumption DEF TimersTypeOK
  <2> QED
    BY <2>2, <2>3 DEF HandlerShape
<1>7. CASE HandlerDone
  BY <1>2, <1>7 DEF HandlerDone, InHandler, schedVars
<1>8. CASE QueueKept /\ (Background \/ Tick \/ UNCHANGED timersVars)
  <2>1. /\ UNCHANGED <<serving, due, repeat>>
        /\ \A u : Queued(u)' <=> Queued(u)
    BY <1>8, QueueKeptStep DEF Background, TimersIdle, Tick, timersVars
  <2>2. now' >= now /\ now \in Nat /\ now' \in Nat
    <3>1. now \in Nat
      BY <1>1, TimersAssumption DEF TimersTypeOK
    <3> QED
      BY <1>8, <3>1 DEF Background, TimersIdle, Tick, timersVars
  <2>3. /\ waking' = waking \/ waking' = None
        /\ serving # None => mode' = "irq"
    <3>1. CASE Background
      <4>1. CASE serving = None
        <5>1. waking = None
          BY <1>1, <4>1 DEF HandlerShape
        <5>2. waking' = None
          BY <3>1, <5>1, Caller DEF Background, Boot, CreateIdle, CreateStartup, InitIrq, RunStartup,
               PushThread, WakeFront, WakeDone, IrqEnter, Return, IrqReturn, Halted, At, AllocThread,
               BeginCreate, ReadFree, AllocFails, PoolFails, StopThread, wakeVars, schedVars
        <5> QED
          BY <4>1, <5>2
      <4>2. CASE serving # None
        <5>1. mode = "irq"
          BY <1>1, <4>2 DEF HandlerShape
        <5>2. /\ ~Boot /\ ~PushThread /\ ~IrqEnter /\ ~Return /\ ~At("free")
              /\ ~\E p \in ThreadPriorities : AllocThread(p)
          BY <4>2, <5>1 DEF Boot, CreateIdle, CreateStartup, InitIrq, RunStartup, PushThread,
                            AllocThread, InThread, IrqEnter, Return, At, Calls
        <5> QED
          BY <3>1, <5>1, <5>2 DEF Background, WakeFront, WakeDone, Halted, wakeVars, cpuVars, schedVars
      <4> QED
        BY <4>1, <4>2
    <3>2. CASE Tick \/ UNCHANGED timersVars
      BY <1>1, <3>2 DEF HandlerShape, Tick, timersVars, schedVars
    <3> QED
      BY <1>8, <3>1, <3>2
  <2>4. serving # None => serving <= now'
    BY <1>1, <2>2, TimersAssumption DEF HandlerShape, TimersTypeOK
  <2>5. waking' # None /\ repeat'[waking'] = 0 => ~Queued(waking)' /\ due'[waking'] <= now'
    <3> SUFFICES ASSUME waking' # None, repeat'[waking'] = 0
                 PROVE  ~Queued(waking)' /\ due'[waking'] <= now'
      OBVIOUS
    <3>1. waking' = waking /\ waking # None /\ repeat[waking] = 0 /\ due' = due
      BY <2>1, <2>3
    <3>2. waking \in Queues
      BY <3>1 DEF IInv, TypeOK
    <3>3. due[waking] \in Nat
      <4>1. Times \subseteq Nat
        BY TimersAssumption DEF Times
      <4> QED
        BY <1>1, <3>2, <4>1 DEF TimersTypeOK
    <3>4. ~Queued(waking) /\ due[waking] <= now
      BY <1>1, <3>1 DEF HandlerShape
    <3>5. ~Queued(waking)'
      BY <1>8, <3>1, <3>4, QueueKeptStep DEF Queued
    <3> QED
      BY <2>2, <3>1, <3>3, <3>4, <3>5
  <2>6. waking' # None => serving' # None
    BY <1>1, <2>1, <2>3 DEF HandlerShape
  <2> QED
    BY <2>1, <2>3, <2>4, <2>5, <2>6 DEF HandlerShape
<1> QED
  BY <1>3, <1>4, <1>5, <1>6, <1>7, <1>8, StepCases DEF QueueKept

(* Where a step leaves a thread. *)
LEMMA CallerMoves ==
    ASSUME IInv, TimersIInv, [TimersNext]_timersVars, NEW t \in Threads
    PROVE  \/ pc'[t] = pc[t] /\ handle'[t] = handle[t]
           \/ pc'[t] = "free"
           \/ pc'[t] = "wait" /\ handle'[t] # None
           \/ /\ handle'[t] \in Queues
              /\ repeat'[handle'[t]] = 0
              /\ state'[t] = "Sleeping"
<1>1. TimersTypeOK
  BY DEF TimersIInv
<1>2. CASE t # tp \/ ~Calls
  BY <1>2, OthersStay
<1>3. CASE t = tp /\ Calls
  <2>1. CASE \E e \in Queues, trigger \in 0 .. Horizon, r \in Repeats \cup {0} :
                RegisterCall(e, trigger, r)
    <3>1. PICK e \in Queues, trigger \in 0 .. Horizon, r \in Repeats \cup {0} :
                RegisterCall(e, trigger, r)
      BY <2>1
    <3>2. handle'[t] = e /\ repeat'[e] = r
      BY <1>1, <1>3, <3>1 DEF RegisterCall, Register, TimersTypeOK
    <3>3. CASE SleepOn(e) /\ r = 0
      <4>1. state'[t] = "Sleeping"
        BY <1>3, <3>3 DEF SleepOn, IInv, TypeOK
      <4> QED
        BY <3>2, <3>3, <4>1
    <3> QED
      BY <1>3, <3>1, <3>3 DEF RegisterCall
  <2>2. CASE FireFront
    BY <2>2 DEF FireFront, callVars
  <2>3. CASE WaitTest
    BY <1>1, <1>3, <2>3 DEF WaitTest, Goto, TimersTypeOK
  <2>4. CASE WaitSleep \/ ClearHandle
    BY <1>1, <1>3, <2>4 DEF WaitSleep, ClearHandle, Goto, TimersTypeOK
  <2>5. CASE RegisterFails \/ ClearEvent \/ TimerIrq \/ HandlerDone \/ Tick \/ Background
               \/ UNCHANGED timersVars
    BY <2>5 DEF RegisterFails, ClearEvent, TimerIrq, HandlerDone, Tick, Background, TimersIdle,
                timersVars, callVars
  <2> QED
    BY <2>1, <2>2, <2>3, <2>4, <2>5, StepCases DEF QueueKept
<1> QED
  BY <1>2, <1>3

(* Whoever is back from sleep_ns holds a timer that has fired. *)
LEMMA CallShapeStep ==
    ASSUME IInv, TimersIInv, [TimersNext]_timersVars
    PROVE  CallShape'
<1>1. CallShape /\ SlotsApart /\ TimersTypeOK
  BY DEF TimersIInv
<1> SUFFICES ASSUME NEW t \in Threads
             PROVE  /\ state'[t] = "Dead" => pc'[t] = "free" /\ handle'[t] = None
                    /\ pc'[t] # "free" => handle'[t] # None
                    /\ pc'[t] = "slept" => /\ repeat'[handle'[t]] = 0
                                           /\ state'[t] = "Sleeping" \/ ~Listed(timerQ', handle'[t])
  BY DEF CallShape, Queued
<1>2. state'[t] = "Dead" => pc'[t] = "free" /\ handle'[t] = None
  BY Dies
<1>3. pc'[t] # "free" => handle'[t] # None
  BY <1>1, CallerMoves, ThreadAssumption DEF CallShape
<1>4. ASSUME pc'[t] = "slept", pc[t] = "slept", handle'[t] = handle[t]
      PROVE  /\ repeat'[handle'[t]] = 0
             /\ state'[t] = "Sleeping" \/ ~Listed(timerQ', handle'[t])
  <2>1. PICK h \in Queues : h = handle[t]
    BY <1>1, <1>4 DEF CallShape, TimersTypeOK
  <2>2. repeat[h] = 0 /\ (state[t] = "Sleeping" \/ ~Queued(h))
    BY <1>1, <1>4, <2>1 DEF CallShape
  <2>3. repeat'[h] = 0 /\ (~Queued(h) => ~Queued(h)')
    <3>1. CASE \E e \in Queues, trigger \in 0 .. Horizon, r \in Repeats \cup {0} :
                RegisterCall(e, trigger, r)
      <4>1. PICK e \in Queues, trigger \in 0 .. Horizon, r \in Repeats \cup {0} :
                RegisterCall(e, trigger, r)
        BY <3>1
      <4>2. e # h
        BY <1>1, <2>1, <4>1 DEF RegisterCall, Register, SlotsApart
      <4>3. \A u : Queued(u)' <=> Queued(u) \/ u = e
        BY <4>1, RegisterStep DEF RegisterCall
      <4>4. repeat'[h] = repeat[h]
        BY <1>1, <2>1, <4>1, <4>2 DEF RegisterCall, Register, TimersTypeOK
      <4> QED
        BY <2>2, <4>2, <4>3, <4>4
    <3>2. CASE FireFront
      <4>1. repeat' = repeat
        BY <3>2 DEF FireFront
      <4>2. ~Queued(h) => ~Queued(h)'
        BY <3>2, FireFrontStep
      <4> QED
        BY <2>2, <4>1, <4>2
    <3>3. CASE QueueKept
      BY <2>2, <3>3, QueueKeptStep
    <3> QED
      BY <3>1, <3>2, <3>3, StepCases
  <2>4. CASE ~Queued(h)
    BY <1>4, <2>1, <2>3, <2>4 DEF Queued
  <2>5. CASE state[t] = "Sleeping" /\ state'[t] # "Sleeping"
    <3>1. waking = h /\ waking \in Queues /\ QueueKept
      BY <2>1, <2>5, Wakes
    <3>2. ~Queued(h)
      BY <2>2, <3>1, ThreadAssumption DEF TimersIInv, HandlerShape
    <3> QED
      BY <2>4, <3>2
  <2> QED
    BY <1>4, <2>1, <2>2, <2>3, <2>4, <2>5
<1>5. pc'[t] = "slept" => /\ repeat'[handle'[t]] = 0
                          /\ state'[t] = "Sleeping" \/ ~Listed(timerQ', handle'[t])
  BY <1>4, CallerMoves
<1> QED
  BY <1>2, <1>3, <1>5

(* A timer that does not repeat stays due at the time it was registered     *)
(* for, while its holder keeps it.                                          *)
LEMMA DueStays ==
    ASSUME IInv, TimersIInv, [TimersNext]_timersVars, NEW t \in Threads,
           pc[t] = "slept", t # tp \/ ~Calls
    PROVE  due'[handle[t]] = due[handle[t]]
<1>1. SlotsApart /\ TimersTypeOK /\ CallShape
  BY DEF TimersIInv
<1>2. PICK h \in Queues : h = handle[t]
  BY <1>1 DEF CallShape, TimersTypeOK
<1>3. repeat[h] = 0
  BY <1>1, <1>2 DEF CallShape
<1>4. CASE \E e \in Queues, trigger \in 0 .. Horizon, r \in Repeats \cup {0} :
                RegisterCall(e, trigger, r)
  BY <1>1, <1>2, <1>4 DEF RegisterCall, Register, SlotsApart, TimersTypeOK
<1>5. CASE FireFront
  <2>1. PICK e : e = Head(timerQ)
    OBVIOUS
  <2>2. repeat[e] = 0 => due'[e] = due[e]
    BY <1>5, <2>1, FireFrontStep
  <2>3. e # h => due'[h] = due[h]
    BY <1>1, <1>5, <2>1 DEF FireFront, TimersTypeOK
  <2> QED
    BY <1>2, <1>3, <2>2, <2>3
<1>6. CASE QueueKept
  BY <1>2, <1>6, QueueKeptStep
<1> QED
  BY <1>4, <1>5, <1>6, StepCases

(* A thread falls asleep in sleep_ns on a timer that is due when what it    *)
(* asks for is over.                                                        *)
LEMMA DueAsAskedStep ==
    ASSUME IInv, TimersIInv, [TimersNext]_timersVars
    PROVE  DueAsAsked'
<1>1. TimersTypeOK /\ DueAsAsked
  BY DEF TimersIInv
<1> SUFFICES ASSUME NEW t \in Threads, pc'[t] = "slept", asked'[t].ns * ClockFreq < Word
             PROVE  (due'[handle'[t]] - asked'[t].at + 1) * NanoFactor > asked'[t].ns * ClockFreq
  BY DEF DueAsAsked
<1>2. CASE t # tp \/ ~Calls
  <2>1. pc[t] = "slept" /\ handle'[t] = handle[t] /\ asked'[t] = asked[t]
    BY <1>2, OthersStay
  <2>2. due'[handle[t]] = due[handle[t]]
    BY <1>2, <2>1, DueStays
  <2> QED
    BY <1>1, <2>1, <2>2 DEF DueAsAsked
<1>3. CASE t = tp /\ Calls
  <2>1. CASE \E e \in Queues, trigger \in 0 .. Horizon, r \in Repeats \cup {0} :
                RegisterCall(e, trigger, r)
    <3>1. PICK e \in Queues, trigger \in 0 .. Horizon, r \in Repeats \cup {0} :
                RegisterCall(e, trigger, r)
      BY <2>1
    <3>2. pc[tp] = "free"
      BY <3>1 DEF RegisterCall
    <3>3. PICK ns \in Delays : /\ trigger = now + Cycles(ns)
                               /\ asked' = [asked EXCEPT ![tp] = [ns |-> ns, at |-> now]]
      BY <1>3, <3>1, <3>2 DEF RegisterCall
    <3>4. asked'[t].ns = ns /\ asked'[t].at = now
      BY <1>1, <1>3, <3>3 DEF TimersTypeOK
    <3>5. due'[handle'[t]] = trigger
      BY <1>1, <1>3, <3>1 DEF RegisterCall, Register, TimersTypeOK
    <3>6. ns \in Nat /\ now \in Nat
      BY <1>1, TimersAssumption DEF TimersTypeOK
    <3>7. Cycles(ns) \in Nat /\ (Cycles(ns) + 1) * NanoFactor > ns * ClockFreq
      BY <3>4, <3>6, CyclesOfSleep
    <3>8. due'[handle'[t]] - asked'[t].at + 1 = Cycles(ns) + 1
      BY <3>3, <3>4, <3>5, <3>6, <3>7
    <3> QED
      BY <3>4, <3>7, <3>8
  <2>2. CASE FireFront \/ HandlerDone
    BY <1>3, <2>2 DEF FireFront, HandlerDone, InHandler, Calls, InThread
  <2>3. CASE WaitTest \/ WaitSleep \/ ClearHandle
    <3>1. pc'[tp] \in {"wait", "free"}
      BY <1>1, <1>3, <2>3, Caller DEF WaitTest, WaitSleep, ClearHandle, Goto, TimersTypeOK
    <3> QED
      BY <1>3, <3>1
  <2>4. CASE RegisterFails \/ ClearEvent \/ TimerIrq \/ Tick \/ Background \/ UNCHANGED timersVars
    <3>1. UNCHANGED <<pc, handle, asked, due>>
      BY <2>4 DEF RegisterFails, TimerIrq, ClearEvent, Tick, Background, TimersIdle, timersVars, timerVars, eventVars, callVars
    <3> QED
      BY <1>1, <3>1 DEF DueAsAsked
  <2> QED
    BY <2>1, <2>2, <2>3, <2>4, StepCases DEF QueueKept
<1> QED
  BY <1>2, <1>3

(* The invariant holds at reset. *)
LEMMA InitTimersIInv == TimersInit => TimersIInv
<1> SUFFICES ASSUME TimersInit PROVE TimersIInv
  OBVIOUS
<1> USE DEF TimersInit
<1>1. TimersTypeOK
  BY TimersAssumption DEF TimersTypeOK, Times, Places
<1>2. QueueOrdered /\ \A e : ~Queued(e)
  BY EmptyListed DEF QueueOrdered, Queued, Listed
<1>3. \A e \in Queues : \A t : ~Listed(waitQ[e], t)
  BY EmptyListed DEF Init
<1>4. SlotsApart
  BY <1>2, <1>3, ThreadAssumption DEF SlotsApart
<1>5. Armed /\ NobodyForgotten
  BY <1>3 DEF Armed, NobodyForgotten
<1>6. HandlerShape /\ CallShape /\ DueAsAsked
  BY DEF HandlerShape, CallShape, DueAsAsked, Init
<1> QED
  BY <1>1, <1>2, <1>4, <1>5, <1>6 DEF TimersIInv

(* The invariants of the scheduler and of the timers need each other: the   *)
(* former says who is Ready and who waits where, the latter which queue a   *)
(* thread or the handler gives to the scheduler.                            *)
LEMMA TimersInduction == TimersSpec => [](IInv /\ TimersIInv)
<1>1. TimersInit => IInv /\ TimersIInv
  BY InitIInv, InitTimersIInv DEF TimersInit
<1>2. IInv /\ TimersIInv /\ [TimersNext]_timersVars => (IInv /\ TimersIInv)'
  <2> SUFFICES ASSUME IInv, TimersIInv, [TimersNext]_timersVars PROVE IInv' /\ TimersIInv'
    OBVIOUS
  <2>1. IInv'
    BY TimersStepIsSchedulerStep, NextIInv
  <2> QED
    BY <2>1, TypesStep, QueueOrderedStep, SlotsApartStep, ArmedStep, NobodyForgottenStep,
       HandlerShapeStep, CallShapeStep, DueAsAskedStep DEF TimersIInv
<1> QED
  BY <1>1, <1>2, PTL DEF TimersSpec

-----------------------------------------------------------------------------
(* In every reachable state the queue of timers is ordered, the compare     *)
(* register is armed for its front, no slot is in two hands and every       *)
(* sleeper waits for a timer that will fire.                                *)
THEOREM TimersSafety == TimersSpec => []TimersIInv
  BY TimersInduction, PTL

(* The timers use the scheduler as Scheduler specifies it. *)
THEOREM UsesScheduler == TimersSpec => Spec
<1>1. TimersInit => Init
  BY DEF TimersInit
<1>2. IInv /\ TimersIInv /\ [TimersNext]_timersVars => [Next]_schedVars
  BY TimersStepIsSchedulerStep
<1> QED
  BY <1>1, <1>2, TimersInduction, PTL DEF TimersSpec, Spec

(* Nobody wakes from sleep_ns a cycle or more before the time asked for,    *)
(* unless that is so long that its conversion to cycles overflows.          *)
THEOREM NobodyEarly == TimersSpec => NotEarly
<1>1. ASSUME IInv, TimersIInv, [TimersNext]_timersVars
      PROVE  [\A t \in Threads :
                 pc[t] = "slept" /\ state[t] = "Sleeping" /\ state'[t] = "Ready"
                 /\ asked[t].ns * ClockFreq < Word =>
                    (now - asked[t].at + 1) * NanoFactor > asked[t].ns * ClockFreq]_timersVars
  <2> SUFFICES ASSUME NEW t \in Threads, pc[t] = "slept", state[t] = "Sleeping", state'[t] = "Ready",
                      asked[t].ns * ClockFreq < Word
               PROVE  (now - asked[t].at + 1) * NanoFactor > asked[t].ns * ClockFreq
    OBVIOUS
  <2>1. waking \in Queues /\ handle[t] = waking
    BY <1>1, Wakes
  <2>2. repeat[waking] = 0
    BY <1>1, <2>1 DEF TimersIInv, CallShape
  <2>3. due[waking] <= now
    BY <1>1, <2>1, <2>2, ThreadAssumption DEF TimersIInv, HandlerShape
  <2>4. due[waking] \in Nat /\ now \in Nat
    BY <1>1, <2>1, TimersAssumption DEF TimersIInv, TimersTypeOK, Times
  <2>5. (due[waking] - asked[t].at + 1) * NanoFactor > asked[t].ns * ClockFreq
    BY <1>1, <2>1 DEF TimersIInv, DueAsAsked
  <2>6. asked[t].at \in Nat /\ asked[t].ns \in Nat
    <3>1. asked[t] \in [ns : Delays \cup {0}, at : 0 .. Horizon]
      BY <1>1 DEF TimersIInv, TimersTypeOK
    <3>2. asked[t].at \in 0 .. Horizon /\ asked[t].ns \in Delays \cup {0}
      BY <3>1
    <3>3. PICK n \in Delays \cup {0}, k \in 0 .. Horizon : n = asked[t].ns /\ k = asked[t].at
      BY <3>2
    <3>4. n \in Nat /\ k \in Nat
      BY <3>3, TimersAssumption
    <3> QED
      BY <3>3, <3>4
  <2> QED
    BY <2>3, <2>4, <2>5, <2>6, LaterStill
<1> QED
  BY <1>1, TimersInduction, PTL DEF TimersSpec, NotEarly

=============================================================================
