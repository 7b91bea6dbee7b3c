------------------------------ MODULE SdProofs ------------------------------
(***************************************************************************)
(* For any cards, any size of a block, of the pool and of the pipeline:     *)
(* the SD card driver waits for nothing that has happened, every block of   *)
(* its pool has one holder, no command spoils the reply of another, and     *)
(* what readBlock returns without an error is the block it was asked for.   *)
(***************************************************************************)
EXTENDS SdCard, FiniteSetTheorems, SequenceTheorems, TLAPS

-----------------------------------------------------------------------------
(* The shape of a step.                                                     *)

(* The places of SD::initCard and of what threadMain does with its result. *)
Setup == {"cmd0", "cmd8", "cmd8?", "app", "app?", "app2", "app2?", "acmd41", "acmd41?", "cmd2",
          "cmd2?", "cmd3", "cmd3?", "cmd9", "cmd9?", "cmd7", "cmd7?", "failed", "ready"}

(* SD::initCard sends commands and sleeps between two questions whether the *)
(* card is ready; of the software's state only its own place and the        *)
(* description of the card change.                                          *)
LEMMA InitCardMoves ==
    ASSUME InitCard
    PROVE  /\ panic = "no" /\ run = "sd" /\ pc["sd"] \in Setup \ {"failed", "ready"}
           /\ (\E to \in Setup \ {"cmd0"} : Go("sd", to)) \/ Sleep("sd", "timer", "app")
           /\ UNCHANGED <<panic, irqVars, readVars, mountVars>>
<1> USE DEF At, Setup
<1>1. CASE Cmd0 \/ Cmd8 \/ AppCmd \/ AppCmdAgain \/ Acmd41 \/ Cmd2 \/ Cmd3 \/ Cmd9 \/ Cmd7
  BY <1>1 DEF Cmd0, Cmd8, AppCmd, AppCmdAgain, Acmd41, Cmd2, Cmd3, Cmd9, Cmd7, Sends
<1>2. CASE Cmd8Done \/ AppCmdDone \/ Cmd2Done \/ Cmd3Done \/ Cmd9Done \/ Cmd7Done
  BY <1>2 DEF Cmd8Done, AppCmdDone, Cmd2Done, Cmd3Done, Cmd9Done, Cmd7Done, Done
<1>3. CASE AppCmdAgainDone \/ Acmd41Done
  BY <1>3 DEF AppCmdAgainDone, Acmd41Done, Asked, Done
<1> QED
  BY <1>1, <1>2, <1>3 DEF InitCard

(* What thread t may do, one step of a read or of its own loop. *)
StepOf(t) == ReadStep(t) \/ (t = "sd" /\ CardThread) \/ (t = "main" /\ MainThread)

(* A step is one of the hardware, of an interrupt, or of a thread. *)
LEMMA StepIs ==
    ASSUME [Next]_vars
    PROVE  \/ UNCHANGED software
           \/ InsertIrq \/ DataIrq \/ TimerIrq
           \/ \E t \in Threads : StepOf(t)
  BY DEF Next, vars, software, Hardware, Slot, Halted, StepOf, Threads

(* Only the thread that has the hart takes a step. *)
LEMMA StepperRuns ==
    ASSUME NEW t \in Threads, StepOf(t)
    PROVE  run = t /\ panic = "no"
<1>1. CASE ReadStep(t)
  BY <1>1 DEF ReadStep, ReadBlock, Lock, WaitDataIdle, IdleTest, IdleSleep, Alloc, Params, Cmd17,
              Sends, Cmd17Done, Done, Return, Fail, EmptyBlock, At
<1>2. CASE t = "sd" /\ CardThread
  BY <1>2, InitCardMoves
     DEF CardThread, Top, AwaitCard, InitReturns, MbrRead, BootRead, FatRead, Settle,
         AwaitRemoval, At
<1>3. CASE t = "main" /\ MainThread
  BY <1>3 DEF MainThread, FsTest, UseBlock, At
<1> QED
  BY <1>1, <1>2, <1>3 DEF StepOf

(* There are two threads. *)
LEMMA TwoThreads ==
    /\ Threads = {"sd", "main"} /\ "idle" \notin Threads /\ "none" \notin Threads
    /\ \A t \in Threads : Other(t) \in Threads /\ Other(t) # t
    /\ \A t, u \in Threads : u = t \/ u = Other(t)
  BY DEF Threads, Other

(* A thread that sleeps leaves the hart to the other one, if that is awake. *)
LEMMA SleepIs ==
    ASSUME DriverTypeOK, NEW t \in Threads, NEW reason \in Reasons, NEW place \in Places,
           Sleep(t, reason, place)
    PROVE  /\ pc' \in [Threads -> Places] /\ pc'[t] = place /\ pc'[Other(t)] = pc[Other(t)]
           /\ blocked' \in [Threads -> Reasons] /\ blocked'[t] = reason
           /\ blocked'[Other(t)] = blocked[Other(t)]
           /\ run' = (IF blocked[Other(t)] = "no" THEN Other(t) ELSE "idle")
           /\ mie'
  BY TwoThreads DEF Sleep, DriverTypeOK

(* wakeAllThreads wakes whoever sleeps for the reason; the hart changes     *)
(* hands only if nobody had it.                                             *)
LEMMA WakeUpIs ==
    ASSUME DriverTypeOK, NEW reason \in Reasons, WakeUp(reason)
    PROVE  /\ blocked' \in [Threads -> Reasons]
           /\ \A t \in Threads : blocked'[t] = IF blocked[t] = reason THEN "no" ELSE blocked[t]
           /\ run' \in Threads \cup {"idle"}
           /\ run \in Threads => run' = run
           /\ run = "idle" /\ run' \in Threads => blocked[run'] = reason
           /\ run' = "idle" => run = "idle" /\ \A t \in Threads : blocked[t] # reason
<1> DEFINE woken == {t \in Threads : blocked[t] = reason}
<1>1. blocked' = [t \in Threads |-> IF t \in woken THEN "no" ELSE blocked[t]]
  BY DEF WakeUp
<1>2. blocked \in [Threads -> Reasons] /\ run \in Threads \cup {"idle"} /\ "no" \in Reasons
  BY DEF DriverTypeOK, Reasons
<1>3. woken # {} => (CHOOSE t \in woken : TRUE) \in woken
  OBVIOUS
<1>4. run' = IF run = "idle" /\ woken # {} THEN CHOOSE t \in woken : TRUE ELSE run
  BY DEF WakeUp
<1>5. "idle" \notin Threads
  BY TwoThreads
<1>6. /\ blocked' \in [Threads -> Reasons]
      /\ \A t \in Threads : blocked'[t] = IF blocked[t] = reason THEN "no" ELSE blocked[t]
  BY <1>1, <1>2
<1> QED
  BY <1>2, <1>3, <1>4, <1>5, <1>6

-----------------------------------------------------------------------------
(* The invariant of the software.                                           *)

ReadPlaces == Reading \cup {"fail", "empty", "got"}

PlacesOf(t) == IF t = "sd" THEN Places \ {"fs?"} ELSE ReadPlaces \cup {"fs?"}

(* Where a thread goes on that has slept. *)
Rests == {"top", "app", "lock", "idle1?", "idle2?", "fs?"}

(* Who has the hart is awake, the other one is where it has slept. *)
Turns ==
    /\ \A t \in Threads : pc[t] \in PlacesOf(t)
    /\ run \in Threads => blocked[run] = "no"
    /\ run = "idle" => \A t \in Threads : blocked[t] # "no"
    /\ \A t \in Threads : t # run => pc[t] \in Rests

(* Between _dataLock.lock() and its release. *)
Locked == {"idle1?", "idle1 sleep", "alloc", "params", "cmd17", "cmd17?", "idle2?", "idle2 sleep",
           "return", "fail"}

LockOwned == \A t \in Threads : lock = t <=> pc[t] \in Locked

(* Between the allocation of a block and what is done with it. *)
Holding == {"params", "cmd17", "cmd17?", "idle2?", "idle2 sleep", "return", "fail", "got"}

Buffers ==
    /\ \A t \in Threads : buf[t] # Nothing <=> pc[t] \in Holding
    /\ kept["sd"] # Nothing <=> step = "fat" /\ pc["sd"] \in ReadPlaces

HeldBy(t) == {buf[t], kept[t]} \ {Nothing}

(* BlocksAccounted without counting. *)
HeldApart ==
    /\ free \cup HeldBy("sd") \cup HeldBy("main") = PoolOf
    /\ \A t \in Threads : /\ HeldBy(t) \cap free = {}
                          /\ HeldBy(t) \cap HeldBy(Other(t)) = {}
                          /\ buf[t] # Nothing => buf[t] # kept[t]

(* From Top on the interrupt is for a card that leaves. *)
Polarised == pc["sd"] \notin {"top", "removed"} => ~polarity

(* What the driver keeps whatever the controller does. *)
DriverIInv ==
    /\ DriverTypeOK
    /\ Turns
    /\ LockOwned
    /\ Buffers
    /\ HeldApart
    /\ Polarised
    /\ NoLostWakeup

(* A holder's block is one of the pool. *)
LEMMA HolderHas ==
    ASSUME DriverTypeOK, Buffers, NEW t \in Threads, pc[t] \in Holding
    PROVE  buf[t] \in PoolOf
  BY DEF DriverTypeOK, Buffers

-----------------------------------------------------------------------------
(* Types of the driver's variables.                                         *)

(* unlock leaves no owner, and the list as it was or without its header.    *)
LEMMA UnlockTypes ==
    ASSUME lockBroken \in BOOLEAN, NEW t, NEW place, Unlock(t, place)
    PROVE  lock' \in Threads \cup {"none"} /\ lockBroken' \in BOOLEAN
  BY DEF Unlock

(* Every step of the software keeps them. *)
LEMMA DriverTypesStep ==
    ASSUME TypeOK, Buffers, [Next]_vars
    PROVE  DriverTypeOK'
<1> USE DEF lockVars
<1>1. DriverTypeOK /\ lastReply.addr \in Cards \cup {Nothing}
  BY DEF TypeOK, SdTypeOK, Replies
<1>2. CASE UNCHANGED software
  BY <1>1, <1>2 DEF software, threadVars, irqVars, driverVars, readVars, mountVars, DriverTypeOK
<1>3. CASE InsertIrq \/ DataIrq \/ TimerIrq
  <2>1. ASSUME NEW reason \in Reasons, WakeUp(reason)
        PROVE  blocked' \in [Threads -> Reasons] /\ run' \in Threads \cup {"idle"}
    BY <1>1, <2>1, WakeUpIs
  <2>2. {"status", "data", "timer"} \subseteq Reasons
    BY DEF Reasons
  <2> QED
    BY <1>1, <1>3, <2>1, <2>2 DEF InsertIrq, DataIrq, TimerIrq, irqVars, driverVars, readVars,
                                  mountVars, DriverTypeOK
<1> DEFINE ThreadTypes == /\ run' \in Threads \cup {"idle"} /\ blocked' \in [Threads -> Reasons]
                          /\ pc' \in [Threads -> Places] /\ mie' \in BOOLEAN
<1>4. ASSUME NEW t \in Threads, NEW place \in Places, Go(t, place) PROVE ThreadTypes
  BY <1>1, <1>4 DEF Go, DriverTypeOK
<1>5. ASSUME NEW t \in Threads, NEW reason \in Reasons, NEW place \in Places,
             Sleep(t, reason, place)
      PROVE  ThreadTypes
  BY <1>1, <1>5, SleepIs, TwoThreads DEF Sleep, DriverTypeOK
<1>6. ASSUME NEW t \in Threads, NEW reason \in Reasons, NEW place \in Places,
             WakeUp(reason), pc' = [pc EXCEPT ![t] = place], mie' = mie
      PROVE  ThreadTypes
  BY <1>1, <1>6, WakeUpIs DEF DriverTypeOK
<1> HIDE DEF ThreadTypes
<1>7. /\ Reasons = {"no", "timer", "status", "data", "lock", "lost", "fs"} /\ Reading \subseteq Places
      /\ Setup \cup {"fail", "empty", "got", "top", "settle", "settled", "removed", "fs?"}
             \subseteq Places
      /\ 0 \in Blocks /\ 1 \in Blocks /\ "sd" \in Threads /\ "main" \in Threads
  BY SdControllerAssumption, SdCardAssumption DEF Reasons, Places, Reading, Setup, Threads
<1>8. ASSUME NEW t \in Threads, ReadStep(t) PROVE DriverTypeOK'
  <2>1. Reading \subseteq Places /\ Reading = {"read", "lock", "idle1?", "idle1 sleep", "alloc",
            "params", "cmd17", "cmd17?", "idle2?", "idle2 sleep", "return"}
        /\ {"fail", "empty", "got"} \subseteq Places
    BY <1>7 DEF Reading
  <2>2. ASSUME ThreadTypes, UNCHANGED <<panic, irqVars, driverVars, readVars, mountVars>>
        PROVE  DriverTypeOK'
    BY <1>1, <2>2 DEF ThreadTypes, irqVars, driverVars, readVars, mountVars, DriverTypeOK
  <2>3. CASE ReadBlock(t)
    BY <1>4, <1>8, <2>1, <2>2, <2>3 DEF ReadBlock
  <2>4. CASE Lock(t)
    <3>1. ThreadTypes
      BY <1>4, <1>5, <1>7, <1>8, <2>1, <2>4 DEF Lock
    <3> QED
      BY <1>1, <1>8, <2>4, <3>1 DEF Lock, ThreadTypes, irqVars, driverVars, mountVars, DriverTypeOK
  <2>5. CASE WaitDataIdle(t)
    <3>1. ASSUME NEW place, NEW sleep \in Places, NEW next \in Places,
                 IdleTest(t, place, sleep, next)
          PROVE  DriverTypeOK'
      <4>1. ThreadTypes
        BY <1>1, <1>8, <3>1 DEF IdleTest, DriverTypeOK, ThreadTypes
      <4> QED
        BY <2>2, <3>1, <4>1 DEF IdleTest
    <3>2. ASSUME NEW sleep, NEW place \in Places, IdleSleep(t, sleep, place)
          PROVE  DriverTypeOK'
      <4>1. ThreadTypes
        BY <1>5, <1>7, <1>8, <3>2 DEF IdleSleep
      <4>2. /\ dataMasked' = FALSE
            /\ UNCHANGED <<panic, insertMasked, polarity, driverVars, readVars, mountVars>>
        BY <3>2 DEF IdleSleep
      <4>3. dataMasked' \in BOOLEAN /\ insertMasked' \in BOOLEAN /\ polarity' \in BOOLEAN
        BY <1>1, <4>2 DEF DriverTypeOK
      <4>4. UNCHANGED <<panic, initialised, cardAddr, numBlocks, tries, lock, lockBroken, free, req,
                        buf, kept, step, fs>>
        BY <4>2 DEF driverVars, readVars, lockVars, mountVars
      <4> QED
        BY <1>1, <4>1, <4>3, <4>4 DEF ThreadTypes, DriverTypeOK
    <3> QED
      BY <2>1, <2>5, <3>1, <3>2 DEF WaitDataIdle
  <2>6. CASE Alloc(t)
    <3>1. free' \subseteq PoolOf /\ buf' \in [Threads -> PoolOf \cup {Nothing}]
          /\ panic' \in {"no", "EmptyPool"}
      BY <1>1, <1>8, <2>6 DEF Alloc, DriverTypeOK, At
    <3>2. ThreadTypes
      <4>1. CASE UNCHANGED threadVars
        BY <1>1, <4>1 DEF threadVars, DriverTypeOK, ThreadTypes
      <4> QED
        BY <1>4, <1>8, <2>1, <2>6, <4>1 DEF Alloc
    <3> QED
      BY <1>1, <2>6, <3>1, <3>2 DEF Alloc, ThreadTypes, irqVars, driverVars, mountVars, DriverTypeOK
  <2>7. CASE Params(t) \/ Cmd17(t) \/ Cmd17Done(t)
    BY <1>4, <1>8, <2>1, <2>2, <2>7 DEF Params, Cmd17, Sends, Cmd17Done
  <2>8. CASE Return(t)
    <3>1. ThreadTypes
      BY <1>4, <1>6, <1>7, <1>8, <2>1, <2>8 DEF Return, Unlock
    <3>2. lock' \in Threads \cup {"none"} /\ lockBroken' \in BOOLEAN
      <4>1. lock \in Threads \cup {"none"} /\ lockBroken \in BOOLEAN
        BY <1>1 DEF DriverTypeOK
      <4>2. CASE UNCHANGED lockVars
        BY <4>1, <4>2
      <4> QED
        BY <2>8, <4>1, <4>2, UnlockTypes DEF Return
    <3>3. UNCHANGED <<panic, irqVars, driverVars, free, req, buf, kept, mountVars>>
      BY <2>8 DEF Return
    <3> QED
      BY <1>1, <3>1, <3>2, <3>3 DEF ThreadTypes, irqVars, driverVars, mountVars, DriverTypeOK
  <2>9. CASE Fail(t)
    <3>1. ThreadTypes /\ lock' \in Threads \cup {"none"} /\ lockBroken' \in BOOLEAN
      <4>1. ThreadTypes
        BY <1>6, <1>7, <1>8, <2>1, <2>9 DEF Fail, Unlock
      <4>2. lockBroken \in BOOLEAN
        BY <1>1 DEF DriverTypeOK
      <4> QED
        BY <2>9, <4>1, <4>2, UnlockTypes DEF Fail
    <3>2. buf[t] \in PoolOf
      BY <1>1, <1>8, <2>9, HolderHas DEF Fail, At, Holding
    <3>3. /\ free' = free \cup {buf[t]} /\ buf' = [buf EXCEPT ![t] = Nothing]
          /\ UNCHANGED <<panic, irqVars, driverVars, req, kept, mountVars>>
      BY <2>9 DEF Fail
    <3> QED
      BY <1>1, <1>8, <3>1, <3>2, <3>3 DEF ThreadTypes, irqVars, driverVars, mountVars, DriverTypeOK
  <2>10. CASE EmptyBlock(t)
    BY <1>1, <2>10 DEF EmptyBlock, threadVars, irqVars, driverVars, readVars, mountVars,
                       DriverTypeOK
  <2> QED
    BY <1>8, <2>3, <2>4, <2>5, <2>6, <2>7, <2>8, <2>9, <2>10 DEF ReadStep
<1>9. ASSUME CardThread PROVE DriverTypeOK'
  <2>1. ASSUME ThreadTypes, UNCHANGED <<panic, irqVars, driverVars, readVars, mountVars>>
        PROVE  DriverTypeOK'
    BY <1>1, <2>1 DEF ThreadTypes, irqVars, driverVars, readVars, mountVars, DriverTypeOK
  <2>2. CASE Top \/ Settle \/ AwaitCard \/ AwaitRemoval
    <3>1. {"cmd0", "removed", "top", "settled"} \subseteq Places
      BY <1>7 DEF Setup
    <3>2. CASE Settle
      <4>1. ThreadTypes
        BY <1>1, <1>7, <3>1, <3>2 DEF Settle, DriverTypeOK, ThreadTypes
      <4> QED
        BY <2>1, <3>2, <4>1 DEF Settle
    <3>3. CASE Top \/ AwaitCard \/ AwaitRemoval
      <4>1. ThreadTypes
        BY <1>4, <1>5, <1>7, <3>1, <3>3 DEF Top, AwaitCard, AwaitRemoval
      <4>2. /\ insertMasked' \in BOOLEAN /\ polarity' \in BOOLEAN
            /\ UNCHANGED <<panic, dataMasked, driverVars, readVars, mountVars>>
        BY <1>1, <3>3 DEF Top, AwaitCard, AwaitRemoval, DriverTypeOK
      <4> QED
        BY <1>1, <4>1, <4>2 DEF ThreadTypes, driverVars, readVars, mountVars, DriverTypeOK
    <3> QED
      BY <2>2, <3>2, <3>3
  <2>3. CASE InitCard
    <3>1. ThreadTypes
      BY <1>4, <1>5, <1>7, <2>3, InitCardMoves DEF Setup
    <3>2. UNCHANGED <<panic, irqVars, readVars, mountVars>>
      BY <2>3, InitCardMoves
    <3>3. /\ initialised' \in BOOLEAN /\ cardAddr' \in Cards \cup {Nothing}
          /\ numBlocks' \in {0, Cardinality(Blocks)}
          /\ tries' \in 0 .. Retries
      <4>1. CASE Cmd0 \/ Cmd8 \/ AppCmd \/ AppCmdAgain \/ Acmd41 \/ Cmd2 \/ Cmd3 \/ Cmd9 \/ Cmd7
        BY <1>1, <4>1 DEF Cmd0, Cmd8, AppCmd, AppCmdAgain, Acmd41, Cmd2, Cmd3, Cmd9, Cmd7, Sends,
                          driverVars, DriverTypeOK
      <4>2. CASE Cmd8Done \/ AppCmdDone \/ Cmd2Done \/ Cmd3Done \/ Cmd9Done \/ Cmd7Done
        <5>1. CASE Cmd8Done \/ AppCmdDone \/ Cmd2Done
          BY <1>1, <5>1, SdCardAssumption
             DEF Cmd8Done, AppCmdDone, Cmd2Done, driverVars, DriverTypeOK
        <5>2. CASE Cmd3Done
          BY <1>1, <5>2 DEF Cmd3Done, DriverTypeOK
        <5>3. CASE Cmd9Done
          BY <1>1, <5>3 DEF Cmd9Done, DriverTypeOK
        <5>4. CASE Cmd7Done
          BY <1>1, <5>4 DEF Cmd7Done, DriverTypeOK
        <5> QED
          BY <4>2, <5>1, <5>2, <5>3, <5>4
      <4>3. ASSUME NEW timeout, NEW ready, Asked(timeout, ready)
            PROVE  tries' \in 0 .. Retries /\ UNCHANGED <<initialised, cardAddr, numBlocks>>
        BY <1>1, <4>3, SdCardAssumption DEF Asked, DriverTypeOK
      <4>4. CASE AppCmdAgainDone \/ Acmd41Done
        BY <1>1, <4>3, <4>4 DEF AppCmdAgainDone, Acmd41Done, driverVars, DriverTypeOK
      <4> QED
        BY <2>3, <4>1, <4>2, <4>4 DEF InitCard
    <3> QED
      BY <1>1, <3>1, <3>2, <3>3 DEF ThreadTypes, irqVars, readVars, mountVars, DriverTypeOK
  <2>4. CASE InitReturns
    <3>1. ThreadTypes
      BY <1>4, <1>5, <1>7, <2>4 DEF InitReturns, Reading
    <3> QED
      BY <1>1, <1>7, <2>4, <3>1 DEF InitReturns, ThreadTypes, irqVars, driverVars, DriverTypeOK
  <2>5. CASE MbrRead
    <3>1. ThreadTypes
      BY <1>4, <1>7, <2>5 DEF MbrRead, Reading
    <3>2. buf["sd"] \in PoolOf
      BY <1>1, <1>7, <2>5, HolderHas DEF MbrRead, At, Holding
    <3> QED
      BY <1>1, <1>7, <2>5, <3>1, <3>2 DEF MbrRead, ThreadTypes, irqVars, driverVars, DriverTypeOK
  <2>6. CASE BootRead
    <3>1. ThreadTypes
      BY <1>4, <1>7, <2>6 DEF BootRead, Reading
    <3>2. /\ kept' = [kept EXCEPT !["sd"] = buf["sd"]] /\ buf' = [buf EXCEPT !["sd"] = Nothing]
          /\ step' \in {"mbr", "boot", "fat"}
          /\ UNCHANGED <<panic, irqVars, driverVars, lockVars, free, req, fs>>
      BY <2>6 DEF BootRead
    <3> QED
      BY <1>1, <1>7, <3>1, <3>2 DEF ThreadTypes, irqVars, driverVars, DriverTypeOK
  <2>7. CASE FatRead
    <3>1. ThreadTypes
      BY <1>6, <1>7, <2>7 DEF FatRead
    <3>2. buf["sd"] \in PoolOf
      BY <1>1, <1>7, <2>7, HolderHas DEF FatRead, At, Holding
    <3>3. kept["sd"] \in PoolOf
      BY <1>1, <1>7, <2>7 DEF FatRead, At, Buffers, ReadPlaces, DriverTypeOK
    <3> QED
      BY <1>1, <2>7, <3>1, <3>2, <3>3 DEF FatRead, ReadFrom, ThreadTypes, irqVars, driverVars,
                                          DriverTypeOK
  <2> QED
    BY <1>9, <2>2, <2>3, <2>4, <2>5, <2>6, <2>7 DEF CardThread
<1>10. ASSUME MainThread PROVE DriverTypeOK'
  <2>1. ThreadTypes
    BY <1>4, <1>5, <1>7, <1>10 DEF MainThread, FsTest, UseBlock, Reading
  <2>2. CASE FsTest
    BY <1>1, <2>1, <2>2 DEF FsTest, ThreadTypes, irqVars, driverVars, mountVars, DriverTypeOK
  <2>3. CASE UseBlock
    <3>1. "main" \in Threads /\ buf["main"] \in PoolOf \cup {Nothing}
          /\ kept["main"] \in PoolOf \cup {Nothing} /\ free \subseteq PoolOf
      BY <1>1, <1>7 DEF DriverTypeOK
    <3>2. free' \subseteq PoolOf
      BY <2>3, <3>1 DEF UseBlock
    <3> QED
      BY <1>1, <2>1, <2>3, <3>1, <3>2 DEF UseBlock, ThreadTypes, irqVars, driverVars, mountVars,
                                          DriverTypeOK
  <2> QED
    BY <1>10, <2>2, <2>3 DEF MainThread
<1> QED
  BY <1>2, <1>3, <1>8, <1>9, <1>10, StepIs DEF StepOf

-----------------------------------------------------------------------------
(* Who has the hart, the lock and the blocks.                               *)

(* A step of a thread moves it on, puts it to sleep, or wakes others.       *)
LEMMA ThreadMoves ==
    ASSUME DriverTypeOK, NEW t \in Threads, StepOf(t)
    PROVE  \/ UNCHANGED <<pc, run, blocked>>
           \/ \E place \in PlacesOf(t) :
                 pc' = [pc EXCEPT ![t] = place] /\ UNCHANGED <<run, blocked>>
           \/ \E reason \in Reasons \ {"no"}, place \in PlacesOf(t) \cap Rests :
                 Sleep(t, reason, place)
           \/ \E reason \in Reasons \ {"no"}, place \in PlacesOf(t) :
                 WakeUp(reason) /\ pc' = [pc EXCEPT ![t] = place]
<1> DEFINE Moves == \E place \in PlacesOf(t) :
                        pc' = [pc EXCEPT ![t] = place] /\ UNCHANGED <<run, blocked>>
           Sleeps == \E reason \in Reasons \ {"no"}, place \in PlacesOf(t) \cap Rests :
                        Sleep(t, reason, place)
           Wakes == \E reason \in Reasons \ {"no"}, place \in PlacesOf(t) :
                        WakeUp(reason) /\ pc' = [pc EXCEPT ![t] = place]
<1>1. ASSUME NEW place \in PlacesOf(t), Go(t, place) PROVE Moves
  BY <1>1 DEF Go
<1>2. /\ ReadPlaces \subseteq PlacesOf(t)
      /\ t = "sd" => Setup \cup {"top", "settle", "settled", "removed", "app"} \subseteq PlacesOf(t)
      /\ t = "main" => "fs?" \in PlacesOf(t)
  BY DEF PlacesOf, Places, ReadPlaces, Reading, Setup
<1>3. ReadPlaces = {"read", "lock", "idle1?", "idle1 sleep", "alloc", "params", "cmd17", "cmd17?",
                    "idle2?", "idle2 sleep", "return", "fail", "empty", "got"}
  BY DEF ReadPlaces, Reading
<1>4. Reasons \ {"no"} = {"timer", "status", "data", "lock", "lost", "fs"}
  BY DEF Reasons
<1>5. CASE ReadStep(t)
  <2>1. CASE ReadBlock(t) \/ Params(t) \/ Cmd17(t) \/ Cmd17Done(t)
    BY <1>1, <1>2, <1>3, <2>1 DEF ReadBlock, Params, Cmd17, Sends, Cmd17Done
  <2>2. CASE Lock(t)
    <3>1. Moves \/ Sleeps
      BY <1>1, <1>2, <1>3, <1>4, <2>2 DEF Lock, Rests
    <3> QED
      BY <3>1
  <2>3. CASE WaitDataIdle(t)
    <3>1. CASE \/ IdleTest(t, "idle1?", "idle1 sleep", "alloc")
               \/ IdleTest(t, "idle2?", "idle2 sleep", "return")
      BY <1>2, <1>3, <3>1 DEF IdleTest
    <3>2. CASE IdleSleep(t, "idle1 sleep", "idle1?") \/ IdleSleep(t, "idle2 sleep", "idle2?")
      BY <1>2, <1>3, <1>4, <3>2 DEF IdleSleep, Rests
    <3> QED
      BY <2>3, <3>1, <3>2 DEF WaitDataIdle
  <2>4. CASE Alloc(t)
    <3>1. UNCHANGED threadVars \/ Go(t, "params")
      BY <2>4 DEF Alloc
    <3> QED
      BY <1>1, <1>2, <1>3, <3>1 DEF threadVars
  <2>5. CASE Return(t)
    <3>1. Go(t, "fail") \/ (WakeUp("lock") /\ pc' = [pc EXCEPT ![t] = "got"])
      BY <2>5 DEF Return, Unlock
    <3>2. Moves \/ Wakes
      BY <1>1, <1>2, <1>3, <1>4, <3>1
    <3> QED
      BY <3>2
  <2>6. CASE Fail(t)
    <3>1. WakeUp("lock") /\ pc' = [pc EXCEPT ![t] = "empty"]
      BY <2>6 DEF Fail, Unlock
    <3>2. Wakes
      BY <1>2, <1>3, <1>4, <3>1
    <3> QED
      BY <3>2
  <2>7. CASE EmptyBlock(t)
    BY <2>7 DEF EmptyBlock, threadVars
  <2> QED
    BY <1>5, <2>1, <2>2, <2>3, <2>4, <2>5, <2>6, <2>7 DEF ReadStep
<1>6. CASE t = "sd" /\ CardThread
  <2>1. CASE InitCard
    <3>1. Moves \/ Sleeps
      BY <1>1, <1>2, <1>4, <1>6, <2>1, InitCardMoves DEF Setup, Rests
    <3> QED
      BY <3>1
  <2>2. CASE Top \/ AwaitCard \/ InitReturns \/ AwaitRemoval
    <3>1. Moves \/ Sleeps
      BY <1>1, <1>2, <1>3, <1>4, <1>6, <2>2
         DEF Top, AwaitCard, InitReturns, AwaitRemoval, Rests, Setup
    <3> QED
      BY <3>1
  <2>3. CASE MbrRead \/ BootRead
    BY <1>1, <1>2, <1>3, <1>6, <2>3 DEF MbrRead, BootRead
  <2>4. CASE FatRead
    <3>1. WakeUp("fs") /\ pc' = [pc EXCEPT ![t] = "settle"]
      BY <1>6, <2>4 DEF FatRead
    <3>2. Wakes
      BY <1>2, <1>4, <1>6, <3>1
    <3> QED
      BY <3>2
  <2>5. CASE Settle
    BY <1>2, <1>6, <2>5 DEF Settle
  <2> QED
    BY <1>6, <2>1, <2>2, <2>3, <2>4, <2>5 DEF CardThread
<1>7. CASE t = "main" /\ MainThread
  <2>1. Moves \/ Sleeps
    BY <1>1, <1>2, <1>3, <1>4, <1>7 DEF MainThread, FsTest, UseBlock, Rests
  <2> QED
    BY <2>1
<1> QED
  BY <1>5, <1>6, <1>7 DEF StepOf

(* A thread that is not running sleeps, or will go on from where it slept.  *)
LEMMA TurnsStep ==
    ASSUME DriverTypeOK, Turns, [Next]_vars
    PROVE  Turns'
<1>1. CASE UNCHANGED software
  BY <1>1 DEF software, threadVars, Turns
<1>2. CASE InsertIrq \/ DataIrq \/ TimerIrq
  <2>1. PICK reason \in {"status", "data", "timer"} : WakeUp(reason)
    BY <1>2 DEF InsertIrq, DataIrq, TimerIrq
  <2>2. reason \in Reasons /\ pc' = pc
    BY <1>2 DEF Reasons, InsertIrq, DataIrq, TimerIrq
  <2>3. /\ \A t \in Threads : blocked'[t] = IF blocked[t] = reason THEN "no" ELSE blocked[t]
        /\ run' \in Threads \cup {"idle"}
        /\ run \in Threads => run' = run
        /\ run = "idle" /\ run' \in Threads => blocked[run'] = reason
        /\ run' = "idle" => run = "idle" /\ \A t \in Threads : blocked[t] # reason
    BY <2>1, <2>2, WakeUpIs
  <2>4. run \in Threads \cup {"idle"}
    BY DEF DriverTypeOK
  <2> QED
    BY <2>2, <2>3, <2>4, TwoThreads DEF Turns
<1>3. CASE \E t \in Threads : StepOf(t)
  <2>1. PICK t \in Threads : StepOf(t)
    BY <1>3
  <2>2. run = t /\ blocked[t] = "no" /\ pc \in [Threads -> Places]
    BY <2>1, StepperRuns DEF Turns, DriverTypeOK
  <2>3. CASE UNCHANGED <<pc, run, blocked>>
    BY <2>3 DEF Turns
  <2>4. ASSUME NEW place \in PlacesOf(t), pc' = [pc EXCEPT ![t] = place],
               run' = run, blocked'[t] = "no"
        PROVE  Turns'
    BY <2>2, <2>4, TwoThreads DEF Turns
  <2>5. ASSUME NEW reason \in Reasons \ {"no"}, NEW place \in PlacesOf(t) \cap Rests,
               Sleep(t, reason, place)
        PROVE  Turns'
    <3>1. place \in Places
      BY DEF PlacesOf, Places, ReadPlaces
    <3>2. /\ pc'[t] = place /\ pc'[Other(t)] = pc[Other(t)]
          /\ blocked'[t] = reason /\ blocked'[Other(t)] = blocked[Other(t)]
          /\ run' = (IF blocked[Other(t)] = "no" THEN Other(t) ELSE "idle")
      BY <2>5, <3>1, SleepIs
    <3>3. Other(t) \in Threads /\ Other(t) # t /\ "idle" \notin Threads
          /\ \A u \in Threads : u = t \/ u = Other(t)
      BY TwoThreads
    <3> QED
      BY <2>2, <3>2, <3>3 DEF Turns
  <2>6. ASSUME NEW reason \in Reasons \ {"no"}, NEW place \in PlacesOf(t),
               WakeUp(reason), pc' = [pc EXCEPT ![t] = place]
        PROVE  Turns'
    <3>1. run' = run /\ blocked'[t] = "no"
      BY <2>2, <2>6, WakeUpIs
    <3> QED
      BY <2>4, <2>6, <3>1
  <2> QED
    BY <2>1, <2>2, <2>3, <2>4, <2>5, <2>6, ThreadMoves
<1> QED
  BY <1>1, <1>2, <1>3, StepIs

(* readBlock takes _dataLock before it looks at the controller, and gives   *)
(* it back on its way out, with a block or without.                         *)
LEMMA LockOwnedStep ==
    ASSUME DriverTypeOK, LockOwned, [Next]_vars
    PROVE  LockOwned'
<1> USE DEF lockVars
<1>0. pc \in [Threads -> Places] /\ lock \in Threads \cup {"none"}
  BY DEF DriverTypeOK
<1>1. CASE UNCHANGED <<pc, lock>>
  BY <1>1 DEF LockOwned
<1>2. ASSUME NEW t \in Threads, NEW place, pc' = [pc EXCEPT ![t] = place], lock' = lock,
             place \in Locked <=> pc[t] \in Locked
      PROVE  LockOwned'
  BY <1>0, <1>2 DEF LockOwned
<1>3. ASSUME NEW t \in Threads, ReadStep(t)
      PROVE  LockOwned'
  <2>1. CASE ReadBlock(t) \/ Params(t) \/ Cmd17(t) \/ Cmd17Done(t)
    BY <1>2, <1>3, <2>1 DEF ReadBlock, Params, Cmd17, Sends, Cmd17Done, Done, At, Go, readVars, Locked
  <2>2. CASE Lock(t)
    <3>1. CASE lock = "none"
      <4>1. /\ pc[t] = "lock" /\ lock' = t /\ pc' = [pc EXCEPT ![t] = "idle1?"]
        BY <2>2, <3>1 DEF Lock, At, Go
      <4>2. \A u \in Threads : pc[u] \notin Locked
        BY <3>1, TwoThreads DEF LockOwned
      <4>3. "idle1?" \in Locked
        BY DEF Locked
      <4> QED
        BY <1>0, <1>3, <4>1, <4>2, <4>3 DEF LockOwned
    <3>2. CASE lock # "none"
      BY <1>2, <1>3, <2>2, <3>2 DEF Lock, At, Sleep, Locked
    <3> QED
      BY <3>1, <3>2
  <2>3. CASE WaitDataIdle(t)
    BY <1>2, <1>3, <2>3 DEF WaitDataIdle, IdleTest, IdleSleep, Sleep, At, readVars, Locked
  <2>4. CASE Alloc(t)
    BY <1>1, <1>2, <1>3, <2>4 DEF Alloc, threadVars, At, Go, Locked
  <2>5. ASSUME NEW place, place \notin Locked, pc[t] \in Locked, Unlock(t, place)
        PROVE  LockOwned'
    BY <1>0, <1>3, <2>5, TwoThreads DEF Unlock, LockOwned
  <2>6. CASE Return(t)
    BY <1>2, <1>3, <2>5, <2>6 DEF Return, At, Go, Locked
  <2>7. CASE Fail(t)
    BY <1>3, <2>5, <2>7 DEF Fail, At, Locked
  <2>8. CASE EmptyBlock(t)
    BY <1>1, <2>8 DEF EmptyBlock, threadVars, readVars
  <2> QED
    BY <1>3, <2>1, <2>2, <2>3, <2>4, <2>6, <2>7, <2>8 DEF ReadStep
<1>4. CASE CardThread
  <2>0. "sd" \in Threads
    BY TwoThreads
  <2>1. CASE InitCard
    BY <1>2, <2>0, <2>1, InitCardMoves DEF Go, Sleep, readVars, Setup, Locked
  <2>2. CASE Top \/ AwaitCard \/ AwaitRemoval \/ Settle
    BY <1>2, <2>0, <2>2 DEF Top, AwaitCard, AwaitRemoval, Settle, At, Go, Sleep, readVars, Locked
  <2>4. CASE InitReturns
    <3>1. pc["sd"] \in {"ready", "failed"} /\ lock' = lock
          /\ \E place \in {"top", "read"} : pc' = [pc EXCEPT !["sd"] = place]
      BY <2>4 DEF InitReturns, At, Go, Sleep
    <3> QED
      BY <1>2, <2>0, <3>1 DEF Locked
  <2>3. CASE MbrRead \/ BootRead \/ FatRead
    BY <1>2, <2>0, <2>3 DEF MbrRead, BootRead, FatRead, At, Go, Locked
  <2> QED
    BY <1>4, <2>1, <2>2, <2>3, <2>4 DEF CardThread
<1>5. CASE MainThread
  BY <1>2, <1>5, TwoThreads DEF MainThread, FsTest, UseBlock, At, Go, Sleep, Locked
<1>6. CASE InsertIrq \/ DataIrq \/ TimerIrq \/ UNCHANGED software
  BY <1>1, <1>6 DEF InsertIrq, DataIrq, TimerIrq, software, threadVars, readVars
<1> QED
  BY <1>3, <1>4, <1>5, <1>6, StepIs DEF StepOf

(* A thread has a block from its allocation until it is dealt with, and     *)
(* FAT::FAT the boot sector as long as it reads the FAT.                    *)
LEMMA BuffersStep ==
    ASSUME DriverTypeOK, Buffers, [Next]_vars
    PROVE  Buffers'
<1>0. /\ pc \in [Threads -> Places] /\ "sd" \in Threads /\ "main" \in Threads /\ "main" # "sd"
      /\ buf \in [Threads -> PoolOf \cup {Nothing}]
      /\ kept \in [Threads -> PoolOf \cup {Nothing}]
      /\ Nothing \notin PoolOf
  BY NothingAssumption DEF DriverTypeOK, Threads, PoolOf
<1>1. CASE UNCHANGED <<pc, buf, kept, step>>
  BY <1>1 DEF Buffers
<1>2. ASSUME NEW t \in Threads, NEW place, pc' = [pc EXCEPT ![t] = place],
             UNCHANGED <<buf, kept, step>>, place \in Holding <=> pc[t] \in Holding,
             t = "sd" => (place \in ReadPlaces <=> pc[t] \in ReadPlaces)
      PROVE  Buffers'
  BY <1>0, <1>2 DEF Buffers
<1>3. ReadPlaces = {"read", "lock", "idle1?", "idle1 sleep", "alloc", "params", "cmd17", "cmd17?",
                    "idle2?", "idle2 sleep", "return", "fail", "empty", "got"}
  BY DEF ReadPlaces, Reading
<1>4. ASSUME NEW t \in Threads, ReadStep(t)
      PROVE  Buffers'
  <2>1. CASE ReadBlock(t) \/ Params(t) \/ Cmd17(t) \/ Cmd17Done(t)
    BY <1>2, <1>3, <1>4, <2>1
       DEF ReadBlock, Params, Cmd17, Sends, Cmd17Done, Done, At, Go, readVars, mountVars, Holding
  <2>2. CASE Lock(t)
    BY <1>2, <1>3, <1>4, <2>2 DEF Lock, At, Go, Sleep, mountVars, Holding
  <2>3. CASE WaitDataIdle(t)
    BY <1>2, <1>3, <1>4, <2>3 DEF WaitDataIdle, IdleTest, IdleSleep, Sleep, At, readVars, mountVars,
                                  Holding
  <2>4. CASE Alloc(t)
    <3>1. CASE free = {}
      BY <1>1, <2>4, <3>1 DEF Alloc, threadVars, mountVars
    <3>2. CASE free # {}
      <4>1. PICK b \in free : buf' = [buf EXCEPT ![t] = b] /\ Go(t, "params")
        BY <2>4, <3>2 DEF Alloc
      <4>2. b # Nothing
        BY <1>0 DEF DriverTypeOK
      <4>3. UNCHANGED <<kept, step>> /\ pc[t] = "alloc"
        BY <2>4 DEF Alloc, At, mountVars
      <4> QED
        BY <1>0, <1>3, <1>4, <4>1, <4>2, <4>3 DEF Go, Holding, Buffers
    <3> QED
      BY <3>1, <3>2
  <2>5. CASE Return(t)
    BY <1>2, <1>3, <1>4, <2>5 DEF Return, Unlock, At, Go, mountVars, Holding
  <2>6. CASE Fail(t)
    BY <1>0, <1>3, <1>4, <2>6 DEF Fail, Unlock, At, mountVars, Holding, Buffers
  <2>7. CASE EmptyBlock(t)
    BY <1>1, <2>7 DEF EmptyBlock, threadVars, readVars, mountVars
  <2> QED
    BY <1>4, <2>1, <2>2, <2>3, <2>4, <2>5, <2>6, <2>7 DEF ReadStep
<1>5. CASE CardThread
  <2>1. CASE InitCard
    <3>1. /\ \E place : place \in Setup /\ pc' = [pc EXCEPT !["sd"] = place]
          /\ pc["sd"] \in Setup /\ UNCHANGED <<buf, kept, step>>
      <4>1. "app" \in Setup
        BY DEF Setup
      <4> QED
        BY <2>1, <4>1, InitCardMoves DEF Go, Sleep, readVars, mountVars
    <3>2. \A place \in Setup : place \notin Holding /\ place \notin ReadPlaces
      BY <1>3 DEF Setup, Holding
    <3> QED
      BY <1>0, <1>2, <3>1, <3>2
  <2>2. CASE Top \/ AwaitCard \/ AwaitRemoval \/ Settle
    BY <1>0, <1>2, <1>3, <2>2 DEF Top, AwaitCard, AwaitRemoval, Settle, At, Go, Sleep, readVars,
                                  mountVars, Holding
  <2>3. CASE InitReturns
    <3>1. /\ pc["sd"] \in {"ready", "failed"} /\ UNCHANGED <<buf, kept>>
          /\ \/ pc' = [pc EXCEPT !["sd"] = "top"] /\ step' = step
             \/ pc' = [pc EXCEPT !["sd"] = "read"] /\ step' = "mbr"
      BY <2>3 DEF InitReturns, At, Go, Sleep
    <3>2. kept["sd"] = Nothing /\ pc["sd"] \notin Holding
      BY <1>3, <3>1 DEF Buffers, Holding
    <3>3. "top" \notin Holding \cup ReadPlaces /\ "read" \notin Holding
      BY <1>3 DEF Holding
    <3> QED
      BY <1>0, <3>1, <3>2, <3>3 DEF Buffers
  <2>4. CASE MbrRead
    BY <1>0, <1>3, <2>4 DEF MbrRead, At, Go, Holding, Buffers
  <2>5. CASE BootRead
    BY <1>0, <1>3, <2>5 DEF BootRead, At, Go, Holding, Buffers
  <2>6. CASE FatRead
    BY <1>0, <1>3, <2>6 DEF FatRead, At, Holding, Buffers
  <2> QED
    BY <1>5, <2>1, <2>2, <2>3, <2>4, <2>5, <2>6 DEF CardThread
<1>6. CASE MainThread
  <2>1. CASE FsTest
    BY <1>0, <1>2, <2>1 DEF FsTest, At, Go, Sleep, mountVars, Holding
  <2>2. CASE UseBlock
    BY <1>0, <2>2 DEF UseBlock, At, Go, mountVars, Holding, Buffers
  <2> QED
    BY <1>6, <2>1, <2>2 DEF MainThread
<1>7. CASE InsertIrq \/ DataIrq \/ TimerIrq \/ UNCHANGED software
  BY <1>1, <1>7 DEF InsertIrq, DataIrq, TimerIrq, software, threadVars, readVars, mountVars
<1> QED
  BY <1>4, <1>5, <1>6, <1>7, StepIs DEF StepOf


(* Who gives blocks back holds them no longer, and nothing else moves.      *)
LEMMA GivenBack ==
    ASSUME DriverTypeOK, HeldApart, NEW t \in Threads, NEW done \in SUBSET HeldBy(t),
           free' = free \cup done, HeldBy(t)' = HeldBy(t) \ done,
           HeldBy(Other(t))' = HeldBy(Other(t)), buf'[t] # Nothing => buf'[t] # kept'[t],
           buf'[Other(t)] = buf[Other(t)], kept'[Other(t)] = kept[Other(t)]
    PROVE  HeldApart'
<1>1. /\ (t = "sd" /\ Other(t) = "main") \/ (t = "main" /\ Other(t) = "sd")
      /\ Threads = {t, Other(t)} /\ Other(Other(t)) = t
  BY DEF Threads, Other
<1> DEFINE mine == HeldBy(t)
           others == HeldBy(Other(t))
<1>2. /\ free \cup mine \cup others = PoolOf
      /\ mine \cap free = {} /\ others \cap free = {} /\ mine \cap others = {}
      /\ buf[Other(t)] # Nothing => buf[Other(t)] # kept[Other(t)]
  BY <1>1 DEF HeldApart
<1>3. mine' = mine \ done /\ others' = others /\ done \subseteq mine
  OBVIOUS
<1> HIDE DEF mine, others
<1>4. /\ free' \cup mine' \cup others' = PoolOf
      /\ mine' \cap free' = {} /\ others' \cap free' = {} /\ mine' \cap others' = {}
  BY <1>2, <1>3
<1>5. free' \cup HeldBy("sd")' \cup HeldBy("main")' = PoolOf
  BY <1>1, <1>4 DEF mine, others
<1>6. \A u \in Threads : /\ HeldBy(u)' \cap free' = {}
                         /\ HeldBy(u)' \cap HeldBy(Other(u))' = {}
                         /\ buf'[u] # Nothing => buf'[u] # kept'[u]
  <2>1. HeldBy(t)' \cap free' = {} /\ HeldBy(Other(t))' \cap free' = {}
        /\ HeldBy(t)' \cap HeldBy(Other(t))' = {}
    BY <1>4 DEF mine, others
  <2>2. buf'[Other(t)] # Nothing => buf'[Other(t)] # kept'[Other(t)]
    BY <1>2
  <2>3. TAKE u \in Threads
  <2>4. CASE u = t
    BY <2>1, <2>4
  <2>5. CASE u = Other(t)
    BY <1>1, <2>1, <2>2, <2>5
  <2> QED
    BY <1>1, <2>4, <2>5
<1>7. PoolOf' = PoolOf
  BY DEF PoolOf
<1> QED
  BY <1>5, <1>6, <1>7 DEF HeldApart

(* A block is handed from the pool to a thread, and from there back.        *)
LEMMA HeldApartStep ==
    ASSUME DriverTypeOK, Buffers, HeldApart, [Next]_vars
    PROVE  HeldApart'
<1>0. /\ "sd" \in Threads /\ "main" \in Threads
      /\ Other("sd") = "main" /\ Other("main") = "sd" /\ "main" # "sd"
      /\ buf \in [Threads -> PoolOf \cup {Nothing}]
      /\ kept \in [Threads -> PoolOf \cup {Nothing}]
      /\ free \subseteq PoolOf /\ Nothing \notin PoolOf
  BY NothingAssumption DEF DriverTypeOK, Threads, PoolOf, Other
<1>1. CASE UNCHANGED <<free, buf, kept>>
  BY <1>1 DEF HeldApart, HeldBy, PoolOf
<1>2. ASSUME NEW t \in Threads, ReadStep(t)
      PROVE  HeldApart'
  <2>1. CASE ReadBlock(t) \/ Lock(t) \/ WaitDataIdle(t) \/ Params(t) \/ Cmd17(t) \/ Cmd17Done(t)
             \/ Return(t) \/ EmptyBlock(t)
    BY <1>1, <2>1 DEF ReadBlock, Lock, WaitDataIdle, IdleTest, IdleSleep, Params, Cmd17, Sends,
                      Cmd17Done, Return, EmptyBlock, readVars
  <2>2. CASE Alloc(t)
    <3>1. CASE free = {}
      BY <1>1, <2>2, <3>1 DEF Alloc
    <3>2. CASE free # {}
      <4>1. PICK b \in free : free' = free \ {b} /\ buf' = [buf EXCEPT ![t] = b]
        BY <2>2, <3>2 DEF Alloc
      <4>2. kept' = kept /\ pc[t] = "alloc"
        BY <2>2 DEF Alloc, At
      <4>3. buf[t] = Nothing /\ "alloc" \notin Holding
        BY <4>2 DEF Buffers, Holding
      <4>4. /\ HeldBy(t)' = HeldBy(t) \cup {b}
            /\ \A u \in Threads \ {t} : HeldBy(u)' = HeldBy(u) /\ buf'[u] = buf[u]
            /\ buf'[t] = b /\ b \in PoolOf /\ b # Nothing
        BY <1>0, <1>2, <4>1, <4>2, <4>3 DEF HeldBy
      <4>5. /\ \A u \in Threads : b \notin HeldBy(u)
            /\ kept[t] # b
        <5>1. \A u \in Threads : b \notin HeldBy(u)
          BY <4>1 DEF HeldApart
        <5> QED
          BY <1>2, <4>4, <5>1 DEF HeldBy
      <4>6. free' \cup HeldBy("sd")' \cup HeldBy("main")' = PoolOf
        <5>1. free \cup HeldBy("sd") \cup HeldBy("main") = PoolOf
          BY DEF HeldApart
        <5>2. \/ HeldBy("sd")' = HeldBy("sd") \cup {b} /\ HeldBy("main")' = HeldBy("main")
              \/ HeldBy("sd")' = HeldBy("sd") /\ HeldBy("main")' = HeldBy("main") \cup {b}
          BY <1>0, <1>2, <4>4 DEF Threads
        <5> QED
          BY <4>1, <5>1, <5>2
      <4>7. ASSUME NEW u \in Threads
            PROVE  /\ HeldBy(u)' \cap free' = {}
                   /\ HeldBy(u)' \cap HeldBy(Other(u))' = {}
                   /\ buf'[u] # Nothing => buf'[u] # kept'[u]
        <5>1. /\ HeldBy(u) \cap free = {} /\ HeldBy(u) \cap HeldBy(Other(u)) = {}
              /\ buf[u] # Nothing => buf[u] # kept[u]
          BY DEF HeldApart
        <5>2. Other(u) \in Threads /\ Other(u) # u /\ (u = t \/ Other(u) = t)
          BY <1>2, TwoThreads
        <5>3. b \notin HeldBy(u) /\ b \notin HeldBy(Other(u))
          BY <4>5, <5>2
        <5>4. \/ HeldBy(u)' = HeldBy(u) \cup {b} /\ HeldBy(Other(u))' = HeldBy(Other(u))
              \/ HeldBy(u)' = HeldBy(u) /\ HeldBy(Other(u))' = HeldBy(Other(u)) \cup {b}
          BY <4>4, <5>2
        <5>5. HeldBy(u)' \cap free' = {} /\ HeldBy(u)' \cap HeldBy(Other(u))' = {}
          BY <4>1, <5>1, <5>3, <5>4
        <5>6. buf'[u] # Nothing => buf'[u] # kept'[u]
          BY <4>2, <4>4, <4>5, <5>1
        <5> QED
          BY <5>5, <5>6
      <4>8. PoolOf' = PoolOf
        BY DEF PoolOf
      <4> QED
        BY <4>6, <4>7, <4>8 DEF HeldApart
    <3> QED
      BY <3>1, <3>2
  <2>3. CASE Fail(t)
    <3>1. /\ free' = free \cup {buf[t]} /\ buf' = [buf EXCEPT ![t] = Nothing] /\ kept' = kept
          /\ pc[t] = "fail"
      BY <2>3 DEF Fail, At
    <3>2. buf[t] # Nothing
      BY <1>2, <3>1 DEF Buffers, Holding
    <3>3. buf[t] # kept[t]
      BY <1>2, <3>2 DEF HeldApart
    <3>4. /\ {buf[t]} \in SUBSET HeldBy(t) /\ HeldBy(t)' = HeldBy(t) \ {buf[t]}
          /\ HeldBy(Other(t))' = HeldBy(Other(t)) /\ buf'[t] = Nothing
          /\ buf'[Other(t)] = buf[Other(t)]
      BY <1>0, <1>2, <3>1, <3>2, <3>3, TwoThreads DEF HeldBy
    <3> QED
      BY <1>2, <3>1, <3>4, GivenBack
  <2> QED
    BY <1>2, <2>1, <2>2, <2>3 DEF ReadStep
<1>3. CASE CardThread
  <2>1. CASE InitCard \/ Top \/ AwaitCard \/ AwaitRemoval \/ Settle \/ InitReturns
    BY <1>1, <2>1, InitCardMoves
       DEF Top, AwaitCard, AwaitRemoval, Settle, InitReturns, readVars
  <2>2. CASE MbrRead
    <3>1. /\ free' = free \cup {buf["sd"]} /\ buf' = [buf EXCEPT !["sd"] = Nothing] /\ kept' = kept
          /\ pc["sd"] = "got"
      BY <2>2 DEF MbrRead, At
    <3>2. buf["sd"] # Nothing
      BY <1>0, <3>1 DEF Buffers, Holding
    <3>3. buf["sd"] # kept["sd"]
      BY <1>0, <3>2 DEF HeldApart
    <3>4. /\ {buf["sd"]} \in SUBSET HeldBy("sd") /\ HeldBy("sd")' = HeldBy("sd") \ {buf["sd"]}
          /\ HeldBy("main")' = HeldBy("main") /\ buf'["sd"] = Nothing
          /\ buf'["main"] = buf["main"]
      BY <1>0, <3>1, <3>2, <3>3 DEF HeldBy
    <3> QED
      BY <1>0, <3>1, <3>4, GivenBack
  <2>3. CASE BootRead
    <3>1. /\ free' = free /\ buf' = [buf EXCEPT !["sd"] = Nothing]
          /\ kept' = [kept EXCEPT !["sd"] = buf["sd"]] /\ step = "boot"
      BY <2>3 DEF BootRead
    <3>2. kept["sd"] = Nothing
      BY <3>1 DEF Buffers
    <3>3. /\ {} \in SUBSET HeldBy("sd") /\ HeldBy("sd")' = HeldBy("sd") \ {}
          /\ HeldBy("main")' = HeldBy("main") /\ buf'["sd"] = Nothing
          /\ buf'["main"] = buf["main"] /\ kept'["main"] = kept["main"]
      BY <1>0, <3>1, <3>2 DEF HeldBy
    <3>4. free' = free \cup {}
      BY <3>1
    <3> QED
      BY <1>0, <3>3, <3>4, GivenBack
  <2>4. CASE FatRead
    <3>1. /\ free' = free \cup {buf["sd"], kept["sd"]} /\ buf' = [buf EXCEPT !["sd"] = Nothing]
          /\ kept' = [kept EXCEPT !["sd"] = Nothing] /\ pc["sd"] = "got" /\ step = "fat"
      BY <2>4 DEF FatRead, At
    <3>2. buf["sd"] # Nothing /\ kept["sd"] # Nothing
      BY <1>0, <3>1 DEF Buffers, Holding, ReadPlaces
    <3>3. /\ {buf["sd"], kept["sd"]} \in SUBSET HeldBy("sd")
          /\ HeldBy("sd")' = HeldBy("sd") \ {buf["sd"], kept["sd"]}
          /\ HeldBy("main")' = HeldBy("main") /\ buf'["sd"] = Nothing
          /\ buf'["main"] = buf["main"] /\ kept'["main"] = kept["main"]
      BY <1>0, <3>1, <3>2 DEF HeldBy
    <3> QED
      BY <1>0, <3>1, <3>3, GivenBack
  <2> QED
    BY <1>3, <2>1, <2>2, <2>3, <2>4 DEF CardThread
<1>4. CASE MainThread
  <2>1. CASE FsTest
    BY <1>1, <2>1 DEF FsTest
  <2>2. CASE UseBlock
    <3> DEFINE before == {kept["main"]} \ {Nothing}
    <3>1. /\ free' = free \cup before /\ buf' = [buf EXCEPT !["main"] = Nothing]
          /\ kept' = [kept EXCEPT !["main"] = buf["main"]] /\ pc["main"] = "got"
      BY <2>2 DEF UseBlock, At
    <3>2. buf["main"] # Nothing
      BY <1>0, <3>1 DEF Buffers, Holding
    <3>3. buf["main"] # kept["main"]
      BY <1>0, <3>2 DEF HeldApart
    <3>4. /\ before \in SUBSET HeldBy("main") /\ HeldBy("main")' = HeldBy("main") \ before
          /\ HeldBy("sd")' = HeldBy("sd") /\ buf'["main"] = Nothing
          /\ buf'["sd"] = buf["sd"] /\ kept'["sd"] = kept["sd"]
      BY <1>0, <3>1, <3>2, <3>3 DEF HeldBy
    <3> HIDE DEF before
    <3> QED
      BY <1>0, <3>1, <3>4, GivenBack
  <2> QED
    BY <1>4, <2>1, <2>2 DEF MainThread
<1>5. CASE InsertIrq \/ DataIrq \/ TimerIrq \/ UNCHANGED software
  BY <1>1, <1>5 DEF InsertIrq, DataIrq, TimerIrq, software, readVars
<1> QED
  BY <1>2, <1>3, <1>4, <1>5, StepIs DEF StepOf

(* The polarity changes where the card thread looks at the card detect: the *)
(* whole use of a card waits for the card to leave.                         *)
LEMMA PolarisedStep ==
    ASSUME DriverTypeOK, Turns, Polarised, [Next]_vars
    PROVE  Polarised'
<1>0. pc \in [Threads -> Places] /\ "sd" \in Threads /\ "main" \in Threads
  BY TwoThreads DEF DriverTypeOK
<1>1. CASE polarity' = polarity /\ pc'["sd"] = pc["sd"]
  BY <1>1 DEF Polarised
<1>2. CASE ~polarity'
  BY <1>2 DEF Polarised
<1>3. CASE polarity' = polarity /\ pc["sd"] \notin {"top", "removed"}
  BY <1>3 DEF Polarised
<1>4. ASSUME NEW t \in Threads, ReadStep(t)
      PROVE  Polarised'
  <2>1. polarity' = polarity
    BY <1>4 DEF ReadStep, ReadBlock, Lock, WaitDataIdle, IdleTest, IdleSleep, Alloc, Params, Cmd17,
                Sends, Cmd17Done, Return, Fail, EmptyBlock, irqVars
  <2>2. CASE t = "sd"
    <3>1. pc["sd"] \in ReadPlaces
      BY <1>4, <2>2 DEF ReadStep, ReadBlock, Lock, WaitDataIdle, IdleTest, IdleSleep, Alloc, Params,
                        Cmd17, Sends, Cmd17Done, Done, Return, Fail, EmptyBlock, At, ReadPlaces,
                        Reading
    <3>2. "top" \notin ReadPlaces /\ "removed" \notin ReadPlaces
      BY DEF ReadPlaces, Reading
    <3> QED
      BY <1>3, <2>1, <3>1, <3>2
  <2>3. CASE t = "main"
    <3>1. pc'["sd"] = pc["sd"]
      <4>1. StepOf(t)
        BY <1>4 DEF StepOf
      <4>2. \/ pc' = pc
            \/ \E place : pc' = [pc EXCEPT !["main"] = place]
        BY <1>4, <2>3, <4>1, ThreadMoves DEF Sleep
      <4> QED
        BY <1>0, <4>2, TwoThreads DEF Threads
    <3> QED
      BY <1>1, <2>1, <3>1
  <2> QED
    BY <1>4, <2>2, <2>3 DEF Threads
<1>5. CASE CardThread
  <2>1. CASE InitCard
    BY <1>3, <2>1, InitCardMoves DEF Setup, irqVars
  <2>2. CASE Top
    <3>1. CASE slot # Nothing
      BY <1>2, <2>2, <3>1 DEF Top
    <3>2. CASE slot = Nothing
      BY <1>0, <2>2, <3>2 DEF Top, Go, Polarised
    <3> QED
      BY <3>1, <3>2
  <2>3. CASE AwaitCard
    BY <1>0, <2>3 DEF AwaitCard, Sleep, Polarised
  <2>4. CASE AwaitRemoval \/ Settle \/ InitReturns \/ MbrRead \/ BootRead \/ FatRead
    BY <1>3, <2>4 DEF AwaitRemoval, Settle, InitReturns, MbrRead, BootRead, FatRead, At, irqVars
  <2> QED
    BY <1>5, <2>1, <2>2, <2>3, <2>4 DEF CardThread
<1>6. CASE MainThread
  <2>1. polarity' = polarity /\ \E place : pc' = [pc EXCEPT !["main"] = place]
    BY <1>6 DEF MainThread, FsTest, UseBlock, Go, Sleep, irqVars
  <2> QED
    BY <1>0, <1>1, <2>1
<1>7. CASE InsertIrq \/ DataIrq \/ TimerIrq \/ UNCHANGED software
  BY <1>1, <1>7 DEF InsertIrq, DataIrq, TimerIrq, software, threadVars, irqVars
<1> QED
  BY <1>4, <1>5, <1>6, <1>7, StepIs DEF StepOf


(* A step that puts nobody to sleep and leaves alone what is waited for     *)
(* loses no wake-up,                                                        *)
LEMMA AwakeStays ==
    ASSUME NoLostWakeup, UNCHANGED <<blocked, insertMasked, dataMasked, lockVars, fs>>
    PROVE  NoLostWakeup'
  BY DEF NoLostWakeup, lockVars

(* nor does one after which nobody waits for what it may have changed,      *)
LEMMA WokenStays ==
    ASSUME DriverTypeOK, NoLostWakeup, NEW reason \in Reasons \ {"no"}, WakeUp(reason),
           reason = "status" \/ insertMasked' = insertMasked,
           reason = "data" \/ dataMasked' = dataMasked,
           reason = "lock" \/ lock' = lock, lockBroken => lockBroken', reason = "fs" \/ fs' = fs
    PROVE  NoLostWakeup'
<1>1. \A t \in Threads : blocked'[t] = IF blocked[t] = reason THEN "no" ELSE blocked[t]
  BY WakeUpIs
<1>2. "sd" \in Threads
  BY TwoThreads
<1> QED
  BY <1>1, <1>2 DEF NoLostWakeup, Reasons

(* nor one that goes to sleep for something that is still to come.          *)
LEMMA SleepStays ==
    ASSUME DriverTypeOK, NoLostWakeup, NEW t \in Threads, NEW reason \in Reasons,
           NEW place \in Places, Sleep(t, reason, place), UNCHANGED lockVars, fs' = fs,
           insertMasked' = insertMasked \/ ~insertMasked',
           dataMasked' = dataMasked \/ ~dataMasked',
           reason = "status" => t = "sd" /\ ~insertMasked', reason = "data" => ~dataMasked',
           reason = "lock" => lock = Other(t), reason = "lost" => lockBroken,
           reason = "fs" => fs = Nothing
    PROVE  NoLostWakeup'
<1>1. /\ blocked'[t] = reason /\ blocked'[Other(t)] = blocked[Other(t)]
      /\ Other(t) \in Threads /\ \A u \in Threads : u = t \/ u = Other(t)
  BY SleepIs, TwoThreads
<1>2. "sd" \in Threads
  BY TwoThreads
<1> QED
  BY <1>1, <1>2 DEF NoLostWakeup, lockVars

(* Nobody goes to sleep for what has happened already.                      *)
LEMMA NoLostWakeupStep ==
    ASSUME DriverTypeOK, Turns, LockOwned, NoLostWakeup, [Next]_vars
    PROVE  NoLostWakeup'
<1> USE DEF lockVars
<1>0. Reasons = {"no", "timer", "status", "data", "lock", "lost", "fs"} /\ ReadPlaces \subseteq Places
      /\ {"top", "fs?", "app"} \subseteq Places /\ "sd" \in Threads /\ "main" \in Threads
  BY TwoThreads DEF Reasons, Places, ReadPlaces
<1>1. ReadPlaces = {"read", "lock", "idle1?", "idle1 sleep", "alloc", "params", "cmd17", "cmd17?",
                    "idle2?", "idle2 sleep", "return", "fail", "empty", "got"}
  BY DEF ReadPlaces, Reading
<1>2. CASE UNCHANGED software
  BY <1>2, AwakeStays DEF software, threadVars, irqVars, readVars, mountVars
<1>3. CASE InsertIrq \/ DataIrq \/ TimerIrq
  BY <1>0, <1>3, WokenStays DEF InsertIrq, DataIrq, TimerIrq, irqVars, readVars, mountVars
<1>4. ASSUME NEW t \in Threads, ReadStep(t)
      PROVE  NoLostWakeup'
  <2>1. CASE ReadBlock(t) \/ Params(t) \/ Cmd17(t) \/ Cmd17Done(t) \/ EmptyBlock(t)
    BY <2>1, AwakeStays DEF ReadBlock, Params, Cmd17, Sends, Cmd17Done, EmptyBlock, Go,
                            threadVars, irqVars, readVars, mountVars
  <2>2. CASE Lock(t)
    <3>1. CASE lock = "none"
      <4>1. \A u \in Threads : blocked[u] # "lock"
        BY <3>1, TwoThreads DEF NoLostWakeup
      <4>2. UNCHANGED <<blocked, insertMasked, dataMasked, lockBroken, fs>>
        BY <2>2, <3>1 DEF Lock, Go, irqVars, mountVars
      <4> QED
        BY <4>1, <4>2 DEF NoLostWakeup
    <3>2. CASE lock # "none"
      <4>1. lock \in Threads /\ pc[t] = "lock"
        BY <2>2, <3>2 DEF Lock, At, DriverTypeOK
      <4>2. lock = Other(t)
        BY <1>4, <4>1, TwoThreads DEF LockOwned, Locked
      <4>3. /\ IF lockBroken THEN Sleep(t, "lost", "lock") ELSE Sleep(t, "lock", "lock")
            /\ UNCHANGED <<insertMasked, dataMasked, lockVars, fs>>
        BY <2>2, <3>2 DEF Lock, irqVars, mountVars
      <4>4. "lock" \in Places /\ "lock" \in Reasons /\ "lost" \in Reasons
        BY <1>0, <1>1
      <4> QED
        BY <1>4, <4>2, <4>3, <4>4, SleepStays
    <3> QED
      BY <3>1, <3>2
  <2>3. CASE WaitDataIdle(t)
    <3>1. ASSUME NEW place, NEW sleep, NEW next, IdleTest(t, place, sleep, next)
          PROVE  NoLostWakeup'
      BY <3>1, AwakeStays DEF IdleTest, irqVars, readVars, mountVars
    <3>2. ASSUME NEW sleep, NEW place \in {"idle1?", "idle2?"}, IdleSleep(t, sleep, place)
          PROVE  NoLostWakeup'
      <4>1. /\ Sleep(t, "data", place) /\ ~dataMasked'
            /\ UNCHANGED <<insertMasked, lockVars, fs>>
        BY <3>2 DEF IdleSleep, readVars, mountVars
      <4>2. "data" \in Reasons /\ place \in Places
        BY <1>0, <1>1
      <4> QED
        BY <1>4, <4>1, <4>2, SleepStays
    <3> QED
      BY <2>3, <3>1, <3>2 DEF WaitDataIdle
  <2>4. CASE Alloc(t)
    BY <2>4, AwakeStays DEF Alloc, Go, threadVars, irqVars, mountVars
  <2>5. ASSUME NEW place, Unlock(t, place), UNCHANGED <<irqVars, mountVars>>
        PROVE  NoLostWakeup'
    <3>1. lockBroken => lockBroken'
      BY <2>5 DEF Unlock
    <3> QED
      BY <1>0, <2>5, <3>1, WokenStays DEF Unlock, irqVars, mountVars
  <2>6. CASE Return(t)
    BY <2>5, <2>6, AwakeStays DEF Return, Go, irqVars, mountVars
  <2>7. CASE Fail(t)
    BY <2>5, <2>7 DEF Fail
  <2> QED
    BY <1>4, <2>1, <2>2, <2>3, <2>4, <2>6, <2>7 DEF ReadStep
<1>5. ASSUME CardThread, blocked["sd"] = "no"
      PROVE  NoLostWakeup'
  <2>1. CASE InitCard
    <3>1. UNCHANGED <<insertMasked, dataMasked, lockVars, fs>>
          /\ (UNCHANGED blocked \/ Sleep("sd", "timer", "app"))
      BY <2>1, InitCardMoves DEF Go, irqVars, readVars, mountVars
    <3> QED
      BY <1>0, <3>1, AwakeStays, SleepStays
  <2>2. CASE Top
    BY <1>5, <2>2 DEF Top, Go, NoLostWakeup, driverVars, readVars, mountVars
  <2>3. CASE AwaitCard \/ AwaitRemoval
    <3>1. /\ Sleep("sd", "status", "top") /\ ~insertMasked'
          /\ UNCHANGED <<dataMasked, lockVars, fs>>
      BY <2>3 DEF AwaitCard, AwaitRemoval, readVars, mountVars
    <3>2. "status" \in Reasons /\ "top" \in Places
      BY <1>0
    <3> QED
      BY <1>0, <3>1, <3>2, SleepStays
  <2>4. CASE InitReturns
    <3>1. /\ UNCHANGED <<insertMasked, dataMasked, lockVars, fs>>
          /\ UNCHANGED blocked \/ Sleep("sd", "timer", "top")
      BY <2>4 DEF InitReturns, Go, irqVars
    <3> QED
      BY <1>0, <3>1, AwakeStays, SleepStays
  <2>5. CASE MbrRead \/ BootRead \/ Settle
    BY <2>5, AwakeStays DEF MbrRead, BootRead, Settle, Go, irqVars, readVars, mountVars
  <2>6. CASE FatRead
    BY <1>0, <2>6, WokenStays DEF FatRead, irqVars
  <2> QED
    BY <1>5, <2>1, <2>2, <2>3, <2>4, <2>5, <2>6 DEF CardThread
<1>6. CASE MainThread
  <2>1. CASE FsTest
    <3>1. /\ UNCHANGED <<insertMasked, dataMasked, lockVars, fs>>
          /\ UNCHANGED blocked \/ (fs = Nothing /\ Sleep("main", "fs", "fs?"))
      BY <2>1 DEF FsTest, Go, irqVars, mountVars
    <3> QED
      BY <1>0, <3>1, AwakeStays, SleepStays
  <2>2. CASE UseBlock
    BY <2>2, AwakeStays DEF UseBlock, Go, irqVars, mountVars
  <2> QED
    BY <1>6, <2>1, <2>2 DEF MainThread
<1>7. ASSUME NEW t \in Threads, StepOf(t)
      PROVE  NoLostWakeup'
  BY <1>4, <1>5, <1>6, <1>7, StepperRuns DEF StepOf, Turns
<1> QED
  BY <1>2, <1>3, <1>7, StepIs


(* A thread that was not waiting for the card detect and now does is the    *)
(* card thread, at one of its two tests.                                    *)
LEMMA WaitsForCard ==
    ASSUME DriverTypeOK, blocked["sd"] # "status", blocked'["sd"] = "status", [Next]_vars
    PROVE  AwaitCard \/ AwaitRemoval
<1>0. "sd" \in Threads /\ "main" \in Threads /\ Other("main") = "sd" /\ "main" # "sd"
      /\ blocked \in [Threads -> Reasons]
  BY DEF DriverTypeOK, Threads, Other
<1>1. blocked' # blocked
  OBVIOUS
<1>2. ASSUME NEW reason \in Reasons \ {"no"}, WakeUp(reason)
      PROVE  FALSE
  BY <1>0, <1>2, WakeUpIs
<1>3. {"status", "data", "timer", "lock", "fs"} \subseteq Reasons \ {"no"}
  BY DEF Reasons
<1>4. ASSUME NEW t \in Threads, NEW reason, NEW place, Sleep(t, reason, place),
             t = "main" \/ reason # "status"
      PROVE  FALSE
  BY <1>0, <1>4 DEF Sleep
<1>5. CASE UNCHANGED software \/ InsertIrq \/ DataIrq \/ TimerIrq
  BY <1>1, <1>2, <1>3, <1>5 DEF software, threadVars, InsertIrq, DataIrq, TimerIrq
<1>6. ASSUME NEW t \in Threads, ReadStep(t)
      PROVE  FALSE
  <2>1. ~ReadBlock(t) /\ ~Params(t) /\ ~Cmd17(t) /\ ~Cmd17Done(t) /\ ~EmptyBlock(t) /\ ~Alloc(t)
    BY <1>1 DEF ReadBlock, Params, Cmd17, Sends, Cmd17Done, EmptyBlock, Alloc, Go, threadVars
  <2>2. ~Lock(t)
    BY <1>1, <1>4, <1>6 DEF Lock, Go
  <2>3. ~WaitDataIdle(t)
    BY <1>1, <1>4, <1>6 DEF WaitDataIdle, IdleTest, IdleSleep
  <2>4. ~Return(t) /\ ~Fail(t)
    BY <1>1, <1>2, <1>3 DEF Return, Fail, Unlock, Go
  <2> QED
    BY <1>6, <2>1, <2>2, <2>3, <2>4 DEF ReadStep
<1>7. CASE MainThread
  BY <1>0, <1>1, <1>4, <1>7 DEF MainThread, FsTest, UseBlock, Go
<1>8. CASE CardThread
  <2>1. ~InitCard
    BY <1>0, <1>1, <1>4, InitCardMoves DEF Go
  <2>2. ~Top /\ ~InitReturns /\ ~MbrRead /\ ~BootRead /\ ~Settle
    BY <1>0, <1>1, <1>4 DEF Top, InitReturns, MbrRead, BootRead, Settle, Go
  <2>3. ~FatRead
    BY <1>2, <1>3 DEF FatRead
  <2> QED
    BY <1>8, <2>1, <2>2, <2>3 DEF CardThread
<1> QED
  BY <1>5, <1>6, <1>7, <1>8, StepIs DEF StepOf

(* It waits for a change from what it found.                                *)
LEMMA ChangesNoticedStep ==
    ASSUME DriverTypeOK, Polarised, [Next]_vars,
           blocked["sd"] # "status", blocked'["sd"] = "status"
    PROVE  InsertLine' <=> (slot' # Nothing) = (pc["sd"] = "removed")
<1>1. CASE AwaitCard
  BY <1>1 DEF AwaitCard, At, InsertLine
<1>2. CASE AwaitRemoval
  <2>1. pc["sd"] = "settled" /\ polarity' = polarity
    BY <1>2 DEF AwaitRemoval, At
  <2>2. polarity' = FALSE
    BY <2>1 DEF Polarised, DriverTypeOK
  <2> QED
    BY <2>1, <2>2 DEF InsertLine
<1> QED
  BY <1>1, <1>2, WaitsForCard

(* Blocks that have one holder each are counted by counting the holders.    *)
LEMMA ApartAccounted ==
    ASSUME DriverTypeOK, HeldApart
    PROVE  BlocksAccounted
<1> DEFINE sds == HeldBy("sd")
           mains == HeldBy("main")
<1>1. /\ free \cup sds \cup mains = PoolOf
      /\ sds \cap free = {} /\ mains \cap free = {} /\ sds \cap mains = {}
      /\ \A t \in Threads : buf[t] # Nothing => buf[t] # kept[t]
  BY DEF HeldApart, Threads, Other
<1>2. IsFiniteSet(PoolOf) /\ Cardinality(PoolOf) = PoolBlocks
  BY SdControllerAssumption, FS_Interval DEF PoolOf
<1>3. [t \in Threads |-> {buf[t], kept[t]} \ {Nothing}]["sd"] = sds
      /\ [t \in Threads |-> {buf[t], kept[t]} \ {Nothing}]["main"] = mains
  BY DEF HeldBy, Threads
<1> HIDE DEF sds, mains
<1>4. IsFiniteSet(free) /\ IsFiniteSet(sds) /\ IsFiniteSet(mains)
  BY <1>1, <1>2, FS_Subset
<1>5. /\ IsFiniteSet(free \cup sds)
      /\ Cardinality(free \cup sds) = Cardinality(free) + Cardinality(sds) - Cardinality(free \cap sds)
  BY <1>4, FS_Union
<1>6. Cardinality((free \cup sds) \cup mains)
        = Cardinality(free \cup sds) + Cardinality(mains) - Cardinality((free \cup sds) \cap mains)
  BY <1>4, <1>5, FS_Union
<1>7. free \cap sds = {} /\ (free \cup sds) \cap mains = {} /\ (free \cup sds) \cup mains = PoolOf
  BY <1>1
<1>8. Cardinality({}) = 0 /\ Cardinality(free) \in Nat /\ Cardinality(sds) \in Nat
      /\ Cardinality(mains) \in Nat
  BY <1>4, FS_EmptySet, FS_CardinalityType
<1>9. Cardinality(free) + Cardinality(sds) + Cardinality(mains) = PoolBlocks
  <2>1. Cardinality(free \cap sds) = 0 /\ Cardinality((free \cup sds) \cap mains) = 0
    BY <1>7, <1>8
  <2>2. Cardinality((free \cup sds) \cup mains) = PoolBlocks
    BY <1>2, <1>7
  <2>3. PoolBlocks = Cardinality(free \cup sds) + Cardinality(mains)
    BY <1>4, <1>5, <1>6, <1>8, <2>1, <2>2, FS_CardinalityType
  <2>4. Cardinality(free \cup sds) = Cardinality(free) + Cardinality(sds)
    BY <1>5, <1>8, <2>1
  <2> QED
    BY <2>3, <2>4
<1> QED
  BY <1>1, <1>3, <1>9 DEF BlocksAccounted


-----------------------------------------------------------------------------
(* Commands.                                                                *)

(* The places where a thread waits for a reply. *)
Waiting == {"cmd8?", "app?", "app2?", "acmd41?", "cmd2?", "cmd3?", "cmd9?", "cmd7?", "cmd17?"}

ReadCommand(t) == [cmd |-> "CMD17", arg |-> req[t], flags |-> {"reply", "data"}]

SizeMessage == [cmd |-> "params", arg |-> BlockWords, flags |-> {}]

(* A word that crosses is the last one written, and somebody waits for the  *)
(* reply to it unless it has none: then who wrote it cannot write another.  *)
Crossing ==
    /\ cdc # Nothing => cdcOut = cdc /\ (cmdBusy <=> "reply" \in cdc.flags)
    /\ cdc # Nothing /\ ~cmdBusy =>
         \/ cdc = SizeMessage /\ run \in Threads /\ pc[run] = "cmd17"
         \/ cdc.cmd = "CMD0" /\ cdc.flags = {} /\ run = "sd" /\ pc["sd"] = "cmd8"

(* While a command is sent, or answered, its thread waits for the reply.    *)
Answering ==
    cmdState # "idle" =>
        /\ command # Nothing
        /\ IF "reply" \in command.flags THEN cmdBusy /\ cdc = Nothing /\ cdcOut = command
           ELSE cmdState = "send" /\ command.cmd = "CMD0" /\ command.flags = {}

(* Who waits for a reply has the hart, and has sent the last word.          *)
Awaited ==
    cmdBusy => /\ run \in Threads
               /\ pc[run] \in Waiting
               /\ cdcOut # Nothing
               /\ IF pc[run] = "cmd17?" THEN cdcOut = ReadCommand(run)
                  ELSE cdcOut.cmd \notin {"CMD17", "params"} /\ "data" \notin cdcOut.flags

CommandIInv == Crossing /\ Answering /\ Awaited

(* The variables of the command path that these are about. *)
cmdCore == <<cdc, cdcOut, cmdState, command, cmdBusy>>

(* A step of a thread is the writing of a command, or of the size of a      *)
(* block, or leaves the command path alone; and it waits for a reply until  *)
(* that is there, and for a word to cross before it writes another.         *)
LEMMA StepCommands ==
    ASSUME NEW t \in Threads, StepOf(t)
    PROVE  \/ /\ UNCHANGED cmdPath
              /\ pc[t] \in Waiting => ~cmdBusy /\ cdc = Nothing
              /\ pc[t] \notin {"cmd17", "cmd8"}
           \/ /\ WriteCommand("CMD17", req[t], {"reply", "data"})
              /\ pc[t] = "cmd17" /\ Go(t, "cmd17?") /\ req' = req
           \/ /\ t = "sd" /\ WriteCommand("CMD0", 0, {})
              /\ pc[t] = "cmd0" /\ Go(t, "cmd8")
           \/ /\ t = "sd" /\ pc[t] \notin Waiting
              /\ \E name \in Commands \ {"CMD17"}, arg \in Nat \cup Cards \cup {cardAddr},
                    flags \in {{"reply"}, {"reply", "long"}} : WriteCommand(name, arg, flags)
              /\ \E place \in Waiting \ {"cmd17?"} : Go(t, place)
           \/ Params(t)
<1> DEFINE Quietly == /\ UNCHANGED cmdPath
                      /\ pc[t] \in Waiting => ~cmdBusy /\ cdc = Nothing
                      /\ pc[t] \notin {"cmd17", "cmd8"}
           Ordinary == /\ t = "sd" /\ pc[t] \notin Waiting
                       /\ \E name \in Commands \ {"CMD17"}, arg \in Nat \cup Cards \cup {cardAddr},
                             flags \in {{"reply"}, {"reply", "long"}} :
                             WriteCommand(name, arg, flags)
                       /\ \E place \in Waiting \ {"cmd17?"} : Go(t, place)
<1>1. CASE ReadStep(t)
  <2>1. CASE Cmd17(t)
    BY <2>1 DEF Cmd17, Sends, At, Flags, readVars
  <2>2. CASE ReadBlock(t) \/ Lock(t) \/ WaitDataIdle(t) \/ Alloc(t) \/ Return(t) \/ Fail(t)
             \/ EmptyBlock(t)
    <3>1. /\ UNCHANGED cmdPath
          /\ pc[t] \in {"read", "lock", "idle1?", "idle1 sleep", "idle2?", "idle2 sleep", "alloc",
                        "return", "fail", "empty"}
      BY <2>2 DEF ReadBlock, Lock, WaitDataIdle, IdleTest, IdleSleep, Alloc, Return, Fail,
                  EmptyBlock, At, sdVars
    <3>2. Quietly
      BY <3>1 DEF Waiting
    <3> QED
      BY <3>2
  <2>3. CASE Cmd17Done(t)
    BY <2>3 DEF Cmd17Done, Done, Accessible, At, sdVars
  <2> QED
    BY <1>1, <2>1, <2>2, <2>3 DEF ReadStep
<1>2. CASE t = "sd" /\ CardThread
  <2>1. CASE InitCard
    <3>1. CASE Cmd0
      BY <1>2, <3>1 DEF Cmd0, Sends, At, Flags
    <3>2. ASSUME \/ Cmd8Done \/ AppCmdDone \/ AppCmdAgainDone \/ Acmd41Done \/ Cmd2Done
                 \/ Cmd3Done \/ Cmd9Done \/ Cmd7Done
          PROVE  Quietly
      <4>1. /\ UNCHANGED cmdPath /\ ~cmdBusy /\ cdc = Nothing
            /\ pc["sd"] \in Waiting
        BY <3>2 DEF Cmd8Done, AppCmdDone, AppCmdAgainDone, Acmd41Done, Cmd2Done, Cmd3Done, Cmd9Done,
                    Cmd7Done, Asked, Done, Accessible, At, sdVars, Waiting
      <4> QED
        BY <1>2, <4>1 DEF Waiting
    <3>3. ASSUME NEW from, from \notin Waiting, NEW name \in Commands \ {"CMD17"},
                 NEW arg \in Nat \cup Cards \cup {cardAddr}, NEW to \in Waiting \ {"cmd17?"},
                 Flags(name) \in {{"reply"}, {"reply", "long"}}, Sends("sd", from, name, arg, to)
          PROVE  Ordinary
      BY <1>2, <3>3 DEF Sends, At
    <3>4. ASSUME NEW from \in {"cmd8", "app", "app2", "acmd41", "cmd2", "cmd3", "cmd9", "cmd7"},
                 NEW name \in {"CMD2", "CMD3", "CMD7", "CMD8", "CMD9", "CMD55", "ACMD41"},
                 NEW arg \in {0, cardAddr},
                 NEW to \in {"cmd8?", "app?", "app2?", "acmd41?", "cmd2?", "cmd3?", "cmd9?",
                             "cmd7?"},
                 Sends("sd", from, name, arg, to)
          PROVE  Ordinary
      <4>1. name \in Commands \ {"CMD17"} /\ Flags(name) \in {{"reply"}, {"reply", "long"}}
        BY DEF Commands, Flags
      <4>2. from \notin Waiting /\ to \in Waiting \ {"cmd17?"}
        BY DEF Waiting
      <4>3. arg \in Nat \cup Cards \cup {cardAddr}
        OBVIOUS
      <4> QED
        BY <3>3, <3>4, <4>1, <4>2, <4>3
    <3> HIDE DEF Ordinary
    <3>5. Cmd8 \/ AppCmd \/ AppCmdAgain \/ Acmd41 => Ordinary
      BY <3>4 DEF Cmd8, AppCmd, AppCmdAgain, Acmd41
    <3>6. Cmd2 \/ Cmd3 \/ Cmd9 \/ Cmd7 => Ordinary
      BY <3>4 DEF Cmd2, Cmd3, Cmd9, Cmd7
    <3>7. Cmd0 \/ Quietly \/ Ordinary
      BY <2>1, <3>2, <3>5, <3>6 DEF InitCard
    <3> USE DEF Ordinary
    <3> QED
      BY <3>1, <3>7
  <2>2. CASE Top \/ AwaitCard \/ InitReturns \/ MbrRead \/ BootRead \/ FatRead \/ Settle
             \/ AwaitRemoval
    <3>1. /\ UNCHANGED cmdPath
          /\ pc["sd"] \in {"top", "removed", "ready", "failed", "got", "settle", "settled"}
      BY <2>2 DEF Top, AwaitCard, InitReturns, MbrRead, BootRead, FatRead, Settle, AwaitRemoval, At,
                  sdVars
    <3>2. Quietly
      BY <1>2, <3>1 DEF Waiting
    <3> QED
      BY <3>2
  <2> QED
    BY <1>2, <2>1, <2>2 DEF CardThread
<1>3. CASE t = "main" /\ MainThread
  <2>1. UNCHANGED cmdPath /\ pc["main"] \in {"fs?", "got"}
    BY <1>3 DEF MainThread, FsTest, UseBlock, At, sdVars
  <2>2. Quietly
    BY <1>3, <2>1 DEF Waiting
  <2> QED
    BY <2>2
<1> QED
  BY <1>1, <1>2, <1>3 DEF StepOf

(* A step, with those of the controller told apart.                         *)
LEMMA StepKinds ==
    ASSUME [Next]_vars
    PROVE  \/ UNCHANGED vars
           \/ Hardware \/ Slot
           \/ /\ InsertIrq \/ DataIrq \/ TimerIrq
              /\ UNCHANGED <<sdVars, pc, panic, readVars, mountVars>>
           \/ \E t \in Threads : StepOf(t)
  BY DEF Next, Halted, StepOf, Threads, InsertIrq, DataIrq, TimerIrq


(* What the controller and the slot do to commands.                         *)
LEMMA CommandingStep ==
    ASSUME SdTypeOK, CommandIInv, Hardware \/ Slot
    PROVE  CommandIInv'
<1>0. Nothing \notin Messages /\ cdc \in Messages \cup {Nothing}
  BY NothingAssumption DEF SdTypeOK
<1>1. UNCHANGED <<run, pc, req>>
  BY DEF Hardware, Slot, software, threadVars, readVars
<1>2. CASE UNCHANGED cmdCore
  BY <1>1, <1>2 DEF cmdCore, CommandIInv, Crossing, Answering, Awaited, ReadCommand, SizeMessage
<1>3. CASE TakeCommand
  <2>1. /\ cdc # Nothing /\ cdc.cmd # "params"
        /\ cdc' = Nothing /\ command' = cdc /\ cmdState' = "send"
        /\ UNCHANGED <<cdcOut, cmdBusy>>
    BY <1>3 DEF TakeCommand
  <2>2. Crossing' /\ Awaited'
    BY <1>1, <2>1 DEF CommandIInv, Crossing, Awaited, ReadCommand
  <2>3. Answering'
    BY <2>1 DEF CommandIInv, Crossing, Answering, SizeMessage
  <2> QED
    BY <2>2, <2>3 DEF CommandIInv
<1>4. CASE TakeParams
  <2>1. cdc' = Nothing /\ cmdState = "idle" /\ UNCHANGED <<cdcOut, cmdState, command, cmdBusy>>
    BY <1>4 DEF TakeParams
  <2> QED
    BY <1>1, <2>1 DEF CommandIInv, Crossing, Answering, Awaited, ReadCommand
<1>5. CASE CommandSent
  <2>1. /\ cmdState = "send" /\ UNCHANGED <<cdc, cdcOut, command, cmdBusy>>
        /\ cmdState' = IF "reply" \in command.flags THEN "pending" ELSE "idle"
    BY <1>5 DEF CommandSent
  <2>2. Crossing' /\ Awaited'
    BY <1>1, <2>1 DEF CommandIInv, Crossing, Awaited, ReadCommand, SizeMessage
  <2>3. Answering'
    BY <2>1 DEF CommandIInv, Answering
  <2> QED
    BY <2>2, <2>3 DEF CommandIInv
<1>6. CASE ReplyReceived \/ ReplyTimeout
  <2>1. /\ cmdState = "pending" /\ cmdState' = "idle" /\ cmdBusy' = FALSE
        /\ UNCHANGED <<cdc, cdcOut, command>>
    BY <1>6 DEF ReplyReceived, ReplyTimeout
  <2>2. cdc = Nothing
    BY <2>1 DEF CommandIInv, Answering
  <2> QED
    BY <2>1, <2>2 DEF CommandIInv, Crossing, Answering, Awaited
<1>7. CASE Receiving \/ Dma \/ SlotStep
  BY <1>2, <1>7 DEF Receiving, DataStart, DataTimeout, DataWord, DataEnd, Dma, SlotStep, Remove,
                    Insert, cmdPath, cmdCore
<1> QED
  BY <1>3, <1>4, <1>5, <1>6, <1>7 DEF Hardware, Slot, SdStep, Commanding

(* A thread that writes a command while no reply is due is the one that     *)
(* will wait for its reply.                                                 *)
LEMMA CommandStep ==
    ASSUME SdTypeOK, DriverTypeOK, CommandIInv, [Next]_vars
    PROVE  CommandIInv'
<1>0. /\ Nothing \notin Messages /\ cdc \in Messages \cup {Nothing}
      /\ pc \in [Threads -> Places] /\ run \in Threads \cup {"idle"} /\ "idle" \notin Threads
      /\ "sd" \in Threads
  BY NothingAssumption, TwoThreads DEF SdTypeOK, DriverTypeOK
<1>1. CASE UNCHANGED vars
  BY <1>1 DEF vars, sdVars, cmdPath, threadVars, readVars, CommandIInv, Crossing, Answering, Awaited,
              ReadCommand, SizeMessage
<1>2. CASE Hardware \/ Slot
  BY <1>2, CommandingStep
<1>3. ASSUME UNCHANGED cmdPath, cdc = Nothing, ~cmdBusy PROVE CommandIInv'
  BY <1>3 DEF cmdPath, CommandIInv, Crossing, Answering, Awaited
<1>4. CASE (InsertIrq \/ DataIrq \/ TimerIrq) /\ UNCHANGED <<sdVars, pc, panic, readVars, mountVars>>
  <2>1. CASE run = "idle"
    <3>1. cdc = Nothing /\ ~cmdBusy
      BY <1>0, <2>1 DEF CommandIInv, Crossing, Awaited
    <3> QED
      BY <1>3, <1>4, <3>1 DEF sdVars
  <2>2. CASE run # "idle"
    <3>1. run' = run
      BY <1>4, <2>2 DEF InsertIrq, DataIrq, TimerIrq, WakeUp
    <3> QED
      BY <1>4, <3>1 DEF sdVars, cmdPath, readVars, CommandIInv, Crossing, Answering, Awaited,
                        ReadCommand, SizeMessage
  <2> QED
    BY <2>1, <2>2
<1>5. ASSUME NEW t \in Threads, StepOf(t)
      PROVE  CommandIInv'
  <2>1. run = t
    BY <1>5, StepperRuns
  <2>2. ASSUME cdc = Nothing, pc[t] \notin Waiting
        PROVE  ~cmdBusy /\ \/ cmdState = "idle"
                           \/ /\ cmdState = "send" /\ command # Nothing
                              /\ command.cmd = "CMD0" /\ command.flags = {}
    <3>1. ~cmdBusy
      BY <2>1, <2>2 DEF CommandIInv, Awaited
    <3> QED
      BY <3>1 DEF CommandIInv, Answering
  <2>3. ASSUME NEW name, NEW arg, NEW flags, WriteCommand(name, arg, flags), pc[t] \notin Waiting
        PROVE  /\ cdc' = [cmd |-> name, arg |-> arg, flags |-> flags] /\ cdcOut' = cdc'
               /\ "reply" \in flags => cmdBusy' = TRUE
               /\ "reply" \notin flags => ~cmdBusy'
               /\ Answering'
    <3>1. /\ cdc = Nothing /\ cdc' = [cmd |-> name, arg |-> arg, flags |-> flags] /\ cdcOut' = cdc'
          /\ UNCHANGED <<cmdState, command>>
      BY <2>3 DEF WriteCommand, Accessible
    <3>2. cmdBusy' = ("reply" \in flags)
      BY <2>3, Zenon DEF WriteCommand
    <3>3. "reply" \in flags => cmdBusy' = TRUE
      BY <3>2, Zenon
    <3>4. "reply" \notin flags => ~cmdBusy'
      BY <3>2, Zenon
    <3>5. Answering'
      BY <2>2, <2>3, <3>1 DEF Answering
    <3> QED
      BY <3>1, <3>3, <3>4, <3>5
  <2>4. CASE /\ UNCHANGED cmdPath
             /\ pc[t] \in Waiting => ~cmdBusy /\ cdc = Nothing
             /\ pc[t] \notin {"cmd17", "cmd8"}
    <3>1. cdc = Nothing /\ ~cmdBusy
      BY <2>1, <2>4 DEF CommandIInv, Crossing, Awaited
    <3> QED
      BY <1>3, <2>4, <3>1
  <2>5. CASE /\ WriteCommand("CMD17", req[t], {"reply", "data"})
             /\ pc[t] = "cmd17" /\ Go(t, "cmd17?") /\ req' = req
    <3>1. "cmd17" \notin Waiting /\ "cmd17?" \in Waiting
      BY DEF Waiting
    <3>2. /\ cdc' = ReadCommand(t) /\ cdcOut' = cdc' /\ cmdBusy' = TRUE /\ Answering'
      <4>1. "reply" \in {"reply", "data"}
        OBVIOUS
      <4> QED
        BY <2>3, <2>5, <3>1, <4>1 DEF ReadCommand
    <3>3. run' = t /\ pc'[t] = "cmd17?" /\ ReadCommand(t)' = ReadCommand(t)
      BY <1>0, <2>1, <2>5 DEF Go, ReadCommand
    <3>4. ReadCommand(t) # Nothing /\ ReadCommand(t).flags = {"reply", "data"}
      <4>1. ReadCommand(t) \in Messages
        BY SdControllerAssumption DEF ReadCommand, Messages, Commands, DriverTypeOK
      <4> QED
        BY <1>0, <4>1 DEF ReadCommand
    <3> QED
      BY <1>5, <3>1, <3>2, <3>3, <3>4 DEF CommandIInv, Crossing, Awaited
  <2>6. CASE t = "sd" /\ WriteCommand("CMD0", 0, {}) /\ pc[t] = "cmd0" /\ Go(t, "cmd8")
    <3>1. "cmd0" \notin Waiting
      BY DEF Waiting
    <3>2. /\ cdc' = [cmd |-> "CMD0", arg |-> 0, flags |-> {}] /\ cdcOut' = cdc'
          /\ ~cmdBusy' /\ Answering'
      <4>1. "reply" \notin {} /\ pc[t] \notin Waiting /\ WriteCommand("CMD0", 0, {})
        BY <2>6, <3>1
      <4>2. cdc' = [cmd |-> "CMD0", arg |-> 0, flags |-> {}] /\ cdcOut' = cdc'
        BY <2>3, <4>1
      <4>3. ~cmdBusy'
        <5>1. cmdBusy' = ("reply" \in {})
          BY <4>1, Zenon DEF WriteCommand
        <5> QED
          BY <5>1, Zenon
      <4>4. Answering'
        BY <2>3, <4>1
      <4> QED
        BY <4>2, <4>3, <4>4
    <3>3. run' = "sd" /\ pc'["sd"] = "cmd8"
      BY <1>0, <2>1, <2>6 DEF Go
    <3> QED
      BY <3>2, <3>3 DEF CommandIInv, Crossing, Awaited
  <2>7. CASE /\ t = "sd" /\ pc[t] \notin Waiting
             /\ \E name \in Commands \ {"CMD17"}, arg \in Nat \cup Cards \cup {cardAddr},
                   flags \in {{"reply"}, {"reply", "long"}} : WriteCommand(name, arg, flags)
             /\ \E place \in Waiting \ {"cmd17?"} : Go(t, place)
    <3>1. PICK name \in Commands \ {"CMD17"}, arg \in Nat \cup Cards \cup {cardAddr},
               flags \in {{"reply"}, {"reply", "long"}} : WriteCommand(name, arg, flags)
      BY <2>7
    <3>2. PICK place \in Waiting \ {"cmd17?"} : Go(t, place)
      BY <2>7
    <3>3. /\ cdc' = [cmd |-> name, arg |-> arg, flags |-> flags] /\ cdcOut' = cdc'
          /\ cmdBusy' = TRUE /\ Answering'
      BY <2>3, <2>7, <3>1
    <3>4. run' = t /\ pc'[t] = place
      BY <1>0, <2>1, <3>2 DEF Go
    <3>5. cdc' # Nothing /\ cdc'.flags = flags /\ cdc'.cmd = name
      <4>1. [cmd |-> name, arg |-> arg, flags |-> flags] \in Messages
        BY DEF Messages, DriverTypeOK
      <4> QED
        BY <1>0, <3>3, <4>1
    <3>6. name \notin {"CMD17", "params"} /\ "data" \notin flags /\ "reply" \in flags
      BY DEF Commands
    <3> QED
      BY <1>5, <3>2, <3>3, <3>4, <3>5, <3>6 DEF CommandIInv, Crossing, Awaited
  <2>8. CASE Params(t)
    <3>1. /\ pc[t] = "params" /\ cdc = Nothing /\ cdc' = SizeMessage /\ cdcOut' = cdc'
          /\ UNCHANGED <<cmdState, command, cmdBusy>> /\ Go(t, "cmd17")
      BY <2>8 DEF Params, WriteParams, Accessible, At, SizeMessage
    <3>2. "params" \notin Waiting
      BY DEF Waiting
    <3>3. ~cmdBusy /\ (cmdState = "idle" \/ (/\ cmdState = "send" /\ command # Nothing
                                             /\ command.cmd = "CMD0" /\ command.flags = {}))
      BY <2>2, <3>1, <3>2
    <3>4. run' = t /\ pc'[t] = "cmd17" /\ SizeMessage' = SizeMessage /\ SizeMessage.flags = {}
      BY <1>0, <2>1, <3>1 DEF Go, SizeMessage
    <3> QED
      BY <1>5, <3>1, <3>3, <3>4 DEF CommandIInv, Crossing, Answering, Awaited
  <2> QED
    BY <1>5, <2>4, <2>5, <2>6, <2>7, <2>8, StepCommands
<1> QED
  BY <1>1, <1>2, <1>4, <1>5, StepKinds

(* The word that tells how long a reply is, is that of its command.         *)
LEMMA CommandsWhole ==
    ASSUME CommandIInv
    PROVE  RepliesWhole
  BY DEF CommandIInv, Answering, RepliesWhole


-----------------------------------------------------------------------------
(* Addresses.                                                               *)

(* A block lies in the pool with all its words. *)
LEMMA BlockInside ==
    ASSUME NEW b \in PoolOf, NEW n \in 0 .. BlockWords
    PROVE  /\ AddressOf(b) \in Nat /\ AddressOf(b) + n \in 0 .. PoolBlocks * BlockWords
           /\ n < BlockWords => AddressOf(b) + n \in Addresses
<1>1. /\ BlockWords \in Nat \ {0} /\ PoolBlocks \in Nat \ {0}
      /\ b \in Nat /\ n \in Nat /\ b + 1 <= PoolBlocks /\ n <= BlockWords
  BY SdControllerAssumption DEF PoolOf
<1>2. PoolBlocks * BlockWords \in Nat /\ b * BlockWords \in Nat
  BY <1>1
<1>3. (b + 1) * BlockWords <= PoolBlocks * BlockWords
  BY <1>1
<1>4. (b + 1) * BlockWords = b * BlockWords + BlockWords
  BY <1>1
<1> QED
  BY <1>1, <1>2, <1>3, <1>4 DEF AddressOf, Addresses

(* A word is in the block its address is computed from. *)
LEMMA BlockOfAddress ==
    ASSUME NEW b \in PoolOf, NEW i \in 0 .. BlockWords - 1
    PROVE  (AddressOf(b) + i) \div BlockWords = b
<1>1. BlockWords \in Nat \ {0} /\ b \in Nat /\ i \in Nat /\ i < BlockWords
  BY SdControllerAssumption DEF PoolOf
<1> DEFINE quotient == (b * BlockWords + i) \div BlockWords
<1>2. /\ quotient \in Int
      /\ BlockWords * quotient <= b * BlockWords + i
      /\ b * BlockWords + i < BlockWords * quotient + BlockWords
  BY <1>1
<1> HIDE DEF quotient
<1>3. CASE quotient < b
  <2>1. quotient + 1 <= b
    BY <1>1, <1>2, <1>3
  <2>2. BlockWords * (quotient + 1) <= BlockWords * b
    BY <1>1, <1>2, <2>1
  <2> QED
    BY <1>1, <1>2, <2>2
<1>4. CASE quotient > b
  <2>1. b + 1 <= quotient
    BY <1>1, <1>2, <1>4
  <2>2. BlockWords * (b + 1) <= BlockWords * quotient
    BY <1>1, <1>2, <2>1
  <2> QED
    BY <1>1, <1>2, <2>2
<1>5. quotient = b
  BY <1>1, <1>2, <1>3, <1>4
<1> QED
  BY <1>5 DEF quotient, AddressOf


-----------------------------------------------------------------------------
(* Transfers.                                                               *)

(* From the command that reads a block until the block is returned or       *)
(* freed; before the controller takes the command nothing arrives.          *)
Fetch == {"cmd17?", "idle2?", "idle2 sleep", "return", "fail"}

Taken(t) == pc[t] \in Fetch /\ (pc[t] = "cmd17?" => cdc = Nothing)

(* A read has failed, and the machine is about to stop, or has. *)
Failed == \E t \in Threads : pc[t] = "empty"

(* How many words of a block have arrived, and how many are stored. *)
Arrived ==
    CASE dataState = "wait" -> 0
      [] dataState = "recv" -> BlockWords - 1 - left
      [] OTHER -> BlockWords

Stored(b) == dmaAddress - AddressOf(b)

(* The DMA is in the block, and not beyond what has arrived.                *)
Progress(b) ==
    /\ Stored(b) \in 0 .. BlockWords
    /\ Stored(b) + Len(pipe) <= Arrived
    /\ dataState = "wait" => left = BlockWords % CounterSpan
    /\ dataState = "recv" => left < BlockWords

Quiet == dataState = "idle" /\ pipe = <<>>

Ready(t) == Quiet /\ dmaAddress = AddressOf(buf[t])

Preparing(t) ==
    /\ pc[t] = "params" => Ready(t) /\ cdc = Nothing
    /\ pc[t] = "cmd17" => Ready(t) /\ (cdc # Nothing \/ left = BlockWords % CounterSpan)
    /\ pc[t] = "cmd17?" /\ cdc # Nothing => Ready(t) /\ left = BlockWords % CounterSpan

(* Words arrive only in the block of a read, or of one that has failed.     *)
Transfers ==
    /\ \A t \in Threads : Preparing(t) /\ (Taken(t) => Progress(buf[t]))
    /\ (\A t \in Threads : ~Taken(t)) => Quiet \/ (Failed /\ \E b \in free : Progress(b))

(* readBlock waits for the data before it looks at their status.            *)
Received == \A t \in Threads : pc[t] = "return" => dataState = "idle"

(* What readers of the transfers rely on. *)
TransferPlaces == {"params", "cmd17", "empty"} \cup Fetch

(* The other thread stays where it sleeps, and so do its blocks.            *)
LEMMA OtherRests ==
    ASSUME DriverTypeOK, Turns, NEW t \in Threads, StepOf(t), NEW u \in Threads, u # t
    PROVE  /\ pc[u] \in Rests /\ pc'[u] = pc[u]
           /\ buf'[u] = buf[u] /\ kept'[u] = kept[u] /\ req'[u] = req[u]
<1>1. run = t /\ pc \in [Threads -> Places] /\ buf \in [Threads -> PoolOf \cup {Nothing}]
      /\ kept \in [Threads -> PoolOf \cup {Nothing}] /\ req \in [Threads -> Blocks]
  BY StepperRuns DEF DriverTypeOK
<1>2. pc'[u] = pc[u]
  BY <1>1, ThreadMoves DEF Sleep
<1>3. ASSUME NEW f, NEW g, NEW b, f = g \/ f = [g EXCEPT ![t] = b], NEW S, g \in [Threads -> S]
      PROVE  f[u] = g[u]
  BY <1>3
<1> DEFINE Only(f, g) == f = g \/ \E b : f = [g EXCEPT ![t] = b]
           Moved == Only(buf', buf) /\ Only(kept', kept) /\ Only(req', req)
<1>4. ASSUME ReadStep(t) PROVE Moved
  <2>1. CASE \/ ReadBlock(t) \/ Lock(t) \/ WaitDataIdle(t) \/ Params(t) \/ Cmd17(t) \/ Cmd17Done(t)
             \/ Return(t) \/ EmptyBlock(t)
    BY <2>1 DEF ReadBlock, Lock, WaitDataIdle, IdleTest, IdleSleep, Params, Cmd17, Sends, Cmd17Done,
                Return, EmptyBlock, readVars
  <2>2. CASE Alloc(t) \/ Fail(t)
    BY <2>2 DEF Alloc, Fail
  <2> QED
    BY <1>4, <2>1, <2>2 DEF ReadStep
<1>5. ASSUME t = "sd", CardThread PROVE Moved
  <2>1. CASE InitCard
    BY <2>1, InitCardMoves DEF readVars
  <2>2. CASE Top \/ AwaitCard \/ InitReturns \/ Settle \/ AwaitRemoval
    BY <1>5, <2>2 DEF Top, AwaitCard, InitReturns, Settle, AwaitRemoval, readVars
  <2>3. CASE MbrRead \/ BootRead \/ FatRead
    BY <1>5, <2>3 DEF MbrRead, BootRead, FatRead
  <2> QED
    BY <1>5, <2>1, <2>2, <2>3 DEF CardThread
<1>6. ASSUME t = "main", MainThread PROVE Moved
  BY <1>6 DEF MainThread, FsTest, UseBlock
<1>7. Moved
  BY <1>4, <1>5, <1>6 DEF StepOf
<1>8. buf'[u] = buf[u] /\ kept'[u] = kept[u] /\ req'[u] = req[u]
  BY <1>1, <1>3, <1>7
<1>9. pc[u] \in Rests
  BY <1>1 DEF Turns
<1> QED
  BY <1>2, <1>8, <1>9

(* A step of a thread that is not about a transfer. *)
Elsewhere(t) ==
    /\ pc[t] \notin TransferPlaces
    /\ \E place : /\ place \notin TransferPlaces \ {"empty"} /\ place # "got"
                  /\ pc' = [pc EXCEPT ![t] = place]
    /\ free \subseteq free' /\ UNCHANGED dmaAddress

(* A step from one place of a transfer to a later one. *)
Fetching(t) ==
    /\ Taken(t)
    /\ \E place \in Fetch \ {"cmd17?"} : /\ pc' = [pc EXCEPT ![t] = place]
                                         /\ place = "return" => dataState = "idle"
    /\ UNCHANGED <<sdVars, free, req, buf, kept>>

(* What a step of a thread is to the transfers: the card and the receiver   *)
(* it leaves alone.                                                         *)
LEMMA StepTransfers ==
    ASSUME DriverTypeOK, NEW t \in Threads, StepOf(t)
    PROVE  /\ UNCHANGED <<card, dataPath>>
           /\ \/ Elsewhere(t) \/ Fetching(t)
              \/ Alloc(t) /\ free # {}
              \/ Params(t) \/ Cmd17(t) \/ (Return(t) /\ dataError = {}) \/ Fail(t)
              \/ EmptyBlock(t)
<1>0. TransferPlaces = {"params", "cmd17", "empty", "cmd17?", "idle2?", "idle2 sleep", "return",
                        "fail"}
  BY DEF TransferPlaces, Fetch
<1>1. pc \in [Threads -> Places]
  BY DEF DriverTypeOK
<1>2. CASE ReadStep(t)
  <2>1. CASE ReadBlock(t) \/ Lock(t) \/ (Alloc(t) /\ free = {})
    <3>1. /\ pc[t] \in {"read", "lock", "alloc"}
          /\ \E place \in {"lock", "empty", "idle1?", "alloc"} : pc' = [pc EXCEPT ![t] = place]
          /\ free' = free /\ UNCHANGED <<card, dataPath, dmaAddress>>
      <4>1. CASE ReadBlock(t)
        BY <4>1 DEF ReadBlock, At, Go, sdVars, store, readVars
      <4>2. CASE Lock(t)
        BY <4>2 DEF Lock, At, Go, Sleep, sdVars, store
      <4>3. CASE Alloc(t) /\ free = {}
        <5>1. pc[t] = "alloc" /\ pc' = pc /\ free' = free /\ UNCHANGED <<card, dataPath, dmaAddress>>
          BY <4>3 DEF Alloc, At, threadVars
        <5>2. pc' = [pc EXCEPT ![t] = "alloc"]
          BY <1>1, <5>1
        <5> QED
          BY <5>1, <5>2
      <4> QED
        BY <2>1, <4>1, <4>2, <4>3
    <3> QED
      BY <1>0, <3>1 DEF Elsewhere
  <2>2. CASE WaitDataIdle(t)
    <3>1. CASE \/ IdleTest(t, "idle1?", "idle1 sleep", "alloc")
               \/ IdleSleep(t, "idle1 sleep", "idle1?")
      <4>1. /\ pc[t] \in {"idle1?", "idle1 sleep"}
            /\ \E place \in {"alloc", "idle1 sleep", "idle1?"} : pc' = [pc EXCEPT ![t] = place]
            /\ free' = free /\ UNCHANGED <<card, dataPath, dmaAddress>>
        BY <3>1 DEF IdleTest, IdleSleep, At, Sleep, sdVars, store, readVars
      <4> QED
        BY <1>0, <4>1 DEF Elsewhere
    <3>2. CASE \/ IdleTest(t, "idle2?", "idle2 sleep", "return")
               \/ IdleSleep(t, "idle2 sleep", "idle2?")
      <4>1. /\ pc[t] \in {"idle2?", "idle2 sleep"} /\ UNCHANGED <<sdVars, free, req, buf, kept>>
            /\ \E place \in {"return", "idle2 sleep", "idle2?"} :
                  pc' = [pc EXCEPT ![t] = place] /\ (place = "return" => dataState = "idle")
        BY <3>2 DEF IdleTest, IdleSleep, At, Sleep, readVars
      <4>2. Fetching(t)
        BY <4>1 DEF Fetching, Taken, Fetch
      <4> QED
        BY <4>1, <4>2 DEF sdVars
    <3> QED
      BY <2>2, <3>1, <3>2 DEF WaitDataIdle
  <2>3. CASE Cmd17Done(t) \/ (Return(t) /\ dataError # {})
    <3>1. /\ pc[t] \in {"cmd17?", "return"} /\ (pc[t] = "cmd17?" => cdc = Nothing)
          /\ UNCHANGED <<sdVars, free, req, buf, kept>>
          /\ \E place \in {"fail", "idle2?"} : pc' = [pc EXCEPT ![t] = place]
      BY <2>3 DEF Cmd17Done, Done, Accessible, Return, At, Go, readVars
    <3>2. Fetching(t)
      BY <3>1 DEF Fetching, Taken, Fetch
    <3> QED
      BY <3>1, <3>2 DEF sdVars
  <2>4. CASE \/ Alloc(t) /\ free # {}
             \/ Return(t) /\ dataError = {}
             \/ Params(t) \/ Cmd17(t) \/ Fail(t) \/ EmptyBlock(t)
    <3>1. UNCHANGED <<card, dataPath>>
      BY <2>4 DEF Alloc, Params, WriteParams, Cmd17, Sends, WriteCommand, Return, Fail, EmptyBlock,
                  sdVars
    <3> QED
      BY <2>4, <3>1
  <2> QED
    BY <1>2, <2>1, <2>2, <2>3, <2>4 DEF ReadStep
<1>3. CASE t = "sd" /\ CardThread
  <2>1. CASE InitCard
    <3>1. pc[t] \in Setup /\ (\E place \in Setup : pc' = [pc EXCEPT ![t] = place]) /\ free' = free
      <4>1. "app" \in Setup
        BY DEF Setup
      <4> QED
        BY <1>3, <2>1, <4>1, InitCardMoves DEF Go, Sleep, readVars
    <3>2. UNCHANGED <<card, dataPath, dmaAddress>>
      BY <2>1 DEF InitCard, Cmd0, Cmd8, AppCmd, AppCmdAgain, Acmd41, Cmd2, Cmd3, Cmd9, Cmd7, Sends,
                  WriteCommand, Cmd8Done, AppCmdDone, AppCmdAgainDone, Acmd41Done, Cmd2Done,
                  Cmd3Done, Cmd9Done, Cmd7Done, Asked, sdVars, store
    <3>3. \A place \in Setup : place \notin TransferPlaces /\ place # "got"
      BY <1>0 DEF Setup
    <3> QED
      BY <3>1, <3>2, <3>3 DEF Elsewhere
  <2>2. CASE Top \/ AwaitCard \/ InitReturns \/ MbrRead \/ BootRead \/ FatRead \/ Settle
             \/ AwaitRemoval
    <3>1. pc["sd"] \in {"top", "removed", "ready", "failed", "got", "settle", "settled"}
      BY <2>2 DEF Top, AwaitCard, InitReturns, MbrRead, BootRead, FatRead, Settle, AwaitRemoval, At
    <3>2. free \subseteq free' /\ UNCHANGED <<card, dataPath, dmaAddress>>
      BY <2>2 DEF Top, AwaitCard, InitReturns, MbrRead, BootRead, FatRead, Settle, AwaitRemoval,
                  sdVars, store, readVars
    <3>3. \E place \in {"top", "removed", "cmd0", "read", "settle", "settled"} :
             pc' = [pc EXCEPT !["sd"] = place]
      BY <2>2 DEF Top, AwaitCard, InitReturns, MbrRead, BootRead, FatRead, Settle, AwaitRemoval, Go,
                  Sleep
    <3> QED
      BY <1>0, <1>3, <3>1, <3>2, <3>3 DEF Elsewhere
  <2> QED
    BY <1>3, <2>1, <2>2 DEF CardThread
<1>4. CASE t = "main" /\ MainThread
  <2>1. /\ pc["main"] \in {"fs?", "got"} /\ free \subseteq free'
        /\ UNCHANGED <<card, dataPath, dmaAddress>>
        /\ \E place \in {"fs?", "read"} : pc' = [pc EXCEPT !["main"] = place]
    BY <1>4 DEF MainThread, FsTest, UseBlock, At, Go, Sleep, sdVars, store
  <2> QED
    BY <1>0, <1>4, <2>1 DEF Elsewhere
<1> QED
  BY <1>2, <1>3, <1>4 DEF StepOf


(* One thread at most is between the lock and the unlock of _dataLock.      *)
LEMMA OneFetches ==
    ASSUME LockOwned, NEW t \in Threads, pc[t] \in Locked, NEW u \in Threads, u # t
    PROVE  pc[u] \notin Locked /\ ~Taken(u)
<1>1. pc[u] \notin Locked
  BY TwoThreads DEF LockOwned
<1>2. Fetch \subseteq Locked
  BY DEF Fetch, Locked
<1> QED
  BY <1>1, <1>2 DEF Taken

(* If the DMA is nowhere, no word arrives and none waits to be stored.      *)
LEMMA IsQuiet ==
    ASSUME Transfers, \A t \in Threads : ~Taken(t) /\ pc[t] # "empty"
    PROVE  Quiet
  BY DEF Transfers, Failed

(* The threads keep to the order: the pool, the address, the size, the      *)
(* command, and not before the reply the look at the data.                  *)
LEMMA TransfersSoftware ==
    ASSUME DriverTypeOK, Turns, LockOwned, Transfers, Received, NEW t \in Threads, StepOf(t)
    PROVE  Transfers' /\ Received'
<1>0. pc \in [Threads -> Places] /\ free \subseteq PoolOf
      /\ buf \in [Threads -> PoolOf \cup {Nothing}]
      /\ Nothing \notin Messages /\ BlockWords \in Nat
  BY NothingAssumption, SdControllerAssumption DEF DriverTypeOK
<1>1. UNCHANGED <<card, dataPath>>
  BY StepTransfers
<1>2. Fetch = {"cmd17?", "idle2?", "idle2 sleep", "return", "fail"}
      /\ TransferPlaces = {"params", "cmd17", "empty", "cmd17?", "idle2?", "idle2 sleep", "return",
                           "fail"}
  BY DEF Fetch, TransferPlaces
<1>3. ASSUME NEW u \in Threads, u # t
      PROVE  /\ Preparing(u)' /\ (Taken(u)' <=> Taken(u)) /\ pc'[u] = pc[u] /\ buf'[u] = buf[u]
             /\ pc[u] \notin {"empty", "return"}
  <2>1. pc[u] \in Rests /\ pc'[u] = pc[u] /\ buf'[u] = buf[u]
    BY <1>3, OtherRests
  <2>2. pc[u] \notin {"params", "cmd17", "cmd17?", "empty", "return"}
    BY <2>1 DEF Rests
  <2> QED
    BY <2>1, <2>2 DEF Preparing, Taken
<1>4. ASSUME NEW u \in Threads, Taken(u), dmaAddress' = dmaAddress, buf'[u] = buf[u]
      PROVE  Progress(buf[u])'
  <2>1. Progress(buf[u])
    BY <1>4 DEF Transfers
  <2> QED
    BY <1>1, <1>4, <2>1 DEF Progress, Stored, Arrived, AddressOf, dataPath
<1>5. CASE Elsewhere(t)
  <2>1. PICK place : place \notin TransferPlaces \ {"empty"} /\ pc' = [pc EXCEPT ![t] = place]
    BY <1>5 DEF Elsewhere
  <2>2. pc[t] \notin TransferPlaces /\ pc'[t] = place /\ dmaAddress' = dmaAddress
    BY <1>0, <1>5, <2>1 DEF Elsewhere
  <2>3. ~Taken(t) /\ ~Taken(t)' /\ Preparing(t)' /\ pc[t] # "empty" /\ pc'[t] # "return"
    <3>1. pc'[t] \notin {"params", "cmd17", "cmd17?", "idle2?", "idle2 sleep", "return", "fail"}
      BY <1>2, <2>1, <2>2
    <3>2. pc[t] \notin Fetch /\ pc[t] # "empty"
      BY <2>2 DEF TransferPlaces
    <3>3. pc'[t] \notin Fetch
      BY <1>2, <3>1
    <3>4. Preparing(t)'
      BY <3>1 DEF Preparing
    <3> QED
      BY <3>1, <3>2, <3>3, <3>4 DEF Taken
  <2>4. (\A u \in Threads : ~Taken(u)') => Quiet'
    <3>1. (\A u \in Threads : ~Taken(u)') => Quiet
      BY <1>3, <2>3, IsQuiet
    <3> QED
      BY <1>1, <3>1 DEF Quiet, dataPath
  <2>5. \A u \in Threads : Preparing(u)' /\ (Taken(u)' => Progress(buf[u])')
    BY <1>3, <1>4, <2>2, <2>3
  <2>6. Received'
    BY <1>3, <2>3 DEF Received
  <2> QED
    BY <2>4, <2>5, <2>6 DEF Transfers
<1>6. CASE Fetching(t)
  <2>1. PICK place \in Fetch \ {"cmd17?"} : /\ pc' = [pc EXCEPT ![t] = place]
                                            /\ place = "return" => dataState = "idle"
    BY <1>6 DEF Fetching
  <2>2. Taken(t) /\ UNCHANGED <<dmaAddress, buf>> /\ pc'[t] = place
    BY <1>0, <1>6, <2>1 DEF Fetching, sdVars, store
  <2>3. Taken(t)' /\ Preparing(t)'
    BY <1>2, <2>1, <2>2 DEF Taken, Preparing
  <2>4. \A u \in Threads : Preparing(u)' /\ (Taken(u)' => Progress(buf[u])')
    BY <1>3, <1>4, <2>2, <2>3
  <2>5. Received'
    BY <1>1, <1>3, <2>1, <2>2 DEF Received, dataPath
  <2> QED
    BY <2>3, <2>4, <2>5 DEF Transfers
<1>7. CASE /\ pc[t] \in Locked /\ ~Taken(t) /\ ~Taken(t)' /\ pc[t] # "empty"
           /\ Preparing(t)' /\ pc'[t] # "return"
  <2>1. \A u \in Threads : u # t => ~Taken(u)
    BY <1>7, OneFetches
  <2>2. Quiet'
    <3>1. Quiet
      BY <1>3, <1>7, <2>1, IsQuiet
    <3> QED
      BY <1>1, <3>1 DEF Quiet, dataPath
  <2>3. \A u \in Threads : Preparing(u)' /\ ~Taken(u)'
    BY <1>3, <1>7, <2>1
  <2>4. Received'
    BY <1>3, <1>7 DEF Received
  <2> QED
    BY <2>2, <2>3, <2>4 DEF Transfers
<1>8. CASE Alloc(t) /\ free # {}
  <2>1. PICK b \in free : /\ buf' = [buf EXCEPT ![t] = b] /\ dmaAddress' = AddressOf(b)
                          /\ Go(t, "params")
    BY <1>8 DEF Alloc
  <2>2. pc[t] = "alloc" /\ pc'[t] = "params" /\ cdc' = Nothing /\ buf'[t] = b
    BY <1>0, <1>8, <2>1 DEF Alloc, At, Go, Accessible, cmdPath
  <2>3. pc[t] \in Locked /\ pc[t] \notin Fetch /\ pc'[t] \notin Fetch
    BY <2>2 DEF Fetch, Locked
  <2>4. Quiet'
    <3>1. \A u \in Threads : ~Taken(u) /\ pc[u] # "empty"
      BY <1>3, <2>2, <2>3, OneFetches DEF Taken
    <3> QED
      BY <1>1, <3>1, IsQuiet DEF Quiet, dataPath
  <2>5. Preparing(t)'
    BY <2>1, <2>2, <2>4 DEF Preparing, Ready, AddressOf
  <2> QED
    BY <1>7, <2>2, <2>3, <2>5 DEF Taken
<1>9. CASE Params(t)
  <2>1. /\ pc[t] = "params" /\ pc'[t] = "cmd17" /\ UNCHANGED <<dmaAddress, buf>>
        /\ cdc' = SizeMessage
    BY <1>0, <1>9 DEF Params, WriteParams, At, Go, SizeMessage, store, readVars
  <2>2. pc[t] \in Locked /\ pc[t] \notin Fetch /\ pc'[t] \notin Fetch
    BY <2>1 DEF Fetch, Locked
  <2>3. Ready(t) /\ SizeMessage \in Messages
    BY <1>0, <2>1 DEF Transfers, Preparing, SizeMessage, Messages
  <2>4. Preparing(t)'
    BY <1>0, <1>1, <2>1, <2>3 DEF Preparing, Ready, Quiet, AddressOf, dataPath
  <2> QED
    BY <1>7, <2>1, <2>2, <2>4 DEF Taken
<1>10. CASE Cmd17(t)
  <2>1. /\ pc[t] = "cmd17" /\ pc'[t] = "cmd17?" /\ UNCHANGED <<dmaAddress, buf>>
        /\ cdc = Nothing /\ cdc' = ReadCommand(t)
    BY <1>0, <1>10 DEF Cmd17, Sends, WriteCommand, Accessible, At, Go, Flags, ReadCommand, store,
                       readVars
  <2>2. pc[t] \in Locked /\ pc[t] \notin Fetch
    BY <2>1 DEF Fetch, Locked
  <2>3. Ready(t) /\ left = BlockWords % CounterSpan
    BY <2>1 DEF Transfers, Preparing
  <2>4. cdc' # Nothing
    <3>1. ReadCommand(t) \in Messages
      BY SdControllerAssumption DEF ReadCommand, Messages, Commands, DriverTypeOK
    <3> QED
      BY <1>0, <2>1, <3>1
  <2>5. Preparing(t)' /\ ~Taken(t)'
    BY <1>1, <2>1, <2>3, <2>4 DEF Preparing, Taken, Ready, Quiet, AddressOf, dataPath
  <2> QED
    BY <1>7, <2>1, <2>2, <2>5 DEF Taken
<1>11. CASE Return(t) /\ dataError = {}
  <2>1. pc[t] = "return" /\ pc'[t] = "got" /\ pipe = <<>>
    BY <1>0, <1>11 DEF Return, At, Unlock, Drained
  <2>2. pc[t] \in Locked
    BY <2>1 DEF Locked
  <2>3. ~Taken(t)' /\ Preparing(t)'
    BY <1>2, <2>1 DEF Taken, Preparing
  <2>4. Quiet'
    BY <1>1, <2>1 DEF Received, Quiet, dataPath
  <2>5. \A u \in Threads : Preparing(u)' /\ ~Taken(u)'
    BY <1>3, <2>2, <2>3, OneFetches
  <2>6. Received'
    BY <1>3, <2>1 DEF Received
  <2> QED
    BY <2>4, <2>5, <2>6 DEF Transfers
<1>12. CASE Fail(t)
  <2>1. /\ pc[t] = "fail" /\ pc'[t] = "empty" /\ free' = free \cup {buf[t]}
        /\ dmaAddress' = dmaAddress
    BY <1>0, <1>12 DEF Fail, At, Unlock
  <2>2. pc[t] \in Locked /\ Taken(t)
    BY <1>2, <2>1 DEF Locked, Taken
  <2>3. ~Taken(t)' /\ Preparing(t)'
    BY <1>2, <2>1 DEF Taken, Preparing
  <2>4. \A u \in Threads : Preparing(u)' /\ ~Taken(u)'
    BY <1>3, <2>2, <2>3, OneFetches
  <2>5. PICK b \in free' : b = buf[t]
    BY <2>1
  <2>6. Progress(b)'
    <3>1. Progress(b)
      BY <2>2, <2>5 DEF Transfers
    <3> QED
      BY <1>1, <2>1, <3>1 DEF Progress, Stored, Arrived, AddressOf, dataPath
  <2>7. Failed' /\ \E d \in free' : Progress(d)'
    BY <2>1, <2>6 DEF Failed
  <2>8. Received'
    BY <1>3, <2>1 DEF Received
  <2> QED
    BY <2>4, <2>7, <2>8 DEF Transfers
<1>13. CASE EmptyBlock(t)
  <2>1. UNCHANGED <<sdVars, pc, buf, free>>
    BY <1>13 DEF EmptyBlock, threadVars, readVars
  <2>2. UNCHANGED <<cdc, dmaAddress, dataState, left, pipe>>
    BY <2>1 DEF sdVars, cmdPath, dataPath, store
  <2> QED
    BY <2>1, <2>2 DEF Transfers, Preparing, Taken, Failed, Received, Progress, Ready, Quiet, Stored,
                      Arrived, AddressOf
<1> QED
  BY <1>5, <1>6, <1>8, <1>9, <1>10, <1>11, <1>12, <1>13, StepTransfers


(* sd_data_bits_counter counts down and wraps around; a block of as many    *)
(* words as it has values is counted all the same.                          *)
LEMMA Countdown ==
    /\ \A n \in 0 .. CounterSpan - 1 :
          (n + CounterSpan - 1) % CounterSpan = IF n = 0 THEN CounterSpan - 1 ELSE n - 1
    /\ BlockWords % CounterSpan \in 0 .. CounterSpan - 1
    /\ ((BlockWords % CounterSpan) + CounterSpan - 1) % CounterSpan = BlockWords - 1
<1>1. CounterSpan \in Nat \ {0} /\ BlockWords \in Nat \ {0} /\ BlockWords <= CounterSpan
  BY SdControllerAssumption
<1>2. ASSUME NEW n \in 0 .. CounterSpan - 1
      PROVE  (n + CounterSpan - 1) % CounterSpan = IF n = 0 THEN CounterSpan - 1 ELSE n - 1
  BY <1>1
<1>3. BlockWords % CounterSpan = IF BlockWords = CounterSpan THEN 0 ELSE BlockWords
  BY <1>1
<1>4. BlockWords % CounterSpan \in 0 .. CounterSpan - 1
  BY <1>1, <1>3
<1>5. ((BlockWords % CounterSpan) + CounterSpan - 1) % CounterSpan = BlockWords - 1
  BY <1>1, <1>2, <1>3, <1>4
<1> QED
  BY <1>2, <1>4, <1>5

(* What the receiver or the DMA does leaves the DMA in its block.           *)
LEMMA ProgressStep ==
    ASSUME SdTypeOK, NEW b \in PoolOf, Progress(b), Receiving \/ Dma
    PROVE  Progress(b)'
<1>0. /\ BlockWords \in Nat \ {0} /\ BlockWords <= CounterSpan /\ CounterSpan \in Nat
      /\ PipelineLength \in Nat \ {0}
      /\ AddressOf(b) \in Nat /\ dmaAddress \in Nat /\ left \in 0 .. CounterSpan - 1
      /\ pipe \in Seq(Words) /\ Len(pipe) \in Nat /\ Len(pipe) <= PipelineLength
  <2>1. PoolBlocks * BlockWords \in Nat
    BY SdControllerAssumption
  <2>2. AddressOf(b) \in Nat
    BY SdControllerAssumption DEF AddressOf, PoolOf
  <2> QED
    BY <2>1, <2>2, SdControllerAssumption DEF SdTypeOK, Addresses
<1>1. /\ Stored(b) \in 0 .. BlockWords /\ Stored(b) + Len(pipe) <= Arrived
      /\ dataState = "wait" => left = BlockWords % CounterSpan
      /\ dataState = "recv" => left < BlockWords
  BY DEF Progress
<1>2. AddressOf(b)' = AddressOf(b)
  BY DEF AddressOf
<1>3. CASE DataStart
  <2>1. /\ dataState = "wait" /\ dataState' = "recv" /\ left' = BlockWords - 1
        /\ UNCHANGED <<pipe, dmaAddress>>
    BY <1>1, <1>3, Countdown DEF DataStart, store
  <2>2. Arrived = 0 /\ Arrived' = 0
    BY <1>0, <2>1 DEF Arrived
  <2> QED
    BY <1>0, <1>1, <1>2, <2>1, <2>2 DEF Progress, Stored
<1>4. CASE DataTimeout \/ DataEnd
  <2>1. /\ dataState \in {"wait", "crc"} /\ dataState' = "idle" /\ UNCHANGED <<left, pipe, dmaAddress>>
    BY <1>4 DEF DataTimeout, DataEnd, store
  <2>2. Arrived <= BlockWords /\ Arrived' = BlockWords /\ Arrived \in Nat
    BY <1>0, <2>1 DEF Arrived
  <2> QED
    BY <1>0, <1>1, <1>2, <2>1, <2>2 DEF Progress, Stored
<1>5. CASE DataWord
  <2>1. /\ dataState = "recv" /\ dataState' = IF left = 0 THEN "crc" ELSE "recv"
        /\ left' = IF left = 0 THEN CounterSpan - 1 ELSE left - 1
        /\ UNCHANGED dmaAddress
    BY <1>0, <1>5, Countdown DEF DataWord, store
  <2>2. Len(pipe') <= Len(pipe) + 1 /\ Len(pipe') \in Nat
    <3>1. PICK word : pipe' = IF Len(pipe) < PipelineLength THEN Append(pipe, word)
                              ELSE [pipe EXCEPT ![PipelineLength] = word]
      BY <1>5 DEF DataWord
    <3>2. CASE Len(pipe) < PipelineLength
      BY <1>0, <3>1, <3>2
    <3>3. CASE ~(Len(pipe) < PipelineLength)
      <4>1. pipe' = [pipe EXCEPT ![PipelineLength] = word]
        BY <3>1, <3>3
      <4>2. pipe \in Seq(Words \cup {word}) /\ PipelineLength \in 1 .. Len(pipe)
        BY <1>0, <3>3
      <4>3. Len(pipe') = Len(pipe)
        BY <4>1, <4>2, ExceptSeq
      <4> QED
        BY <1>0, <4>3
    <3> QED
      BY <3>2, <3>3
  <2>3. Arrived \in Int /\ Arrived' = Arrived + 1
    BY <1>0, <1>1, <2>1 DEF Arrived
  <2> QED
    BY <1>0, <1>1, <1>2, <2>1, <2>2, <2>3 DEF Progress, Stored
<1>6. CASE Dma
  <2>1. /\ pipe # <<>> /\ dmaAddress' = dmaAddress + 1 /\ pipe' = Tail(pipe)
        /\ UNCHANGED <<dataState, left>>
    BY <1>6 DEF Dma
  <2>2. Len(pipe') = Len(pipe) - 1 /\ Len(pipe) >= 1
    BY <1>0, <2>1
  <2>3. Arrived' = Arrived /\ Arrived \in Int /\ Arrived <= BlockWords
    BY <1>0, <1>1, <2>1 DEF Arrived
  <2> QED
    BY <1>0, <1>1, <1>2, <2>1, <2>2, <2>3 DEF Progress, Stored
<1> QED
  BY <1>3, <1>4, <1>5, <1>6 DEF Receiving

(* A command that the controller takes reads a block for the thread that    *)
(* waits for the reply, or no thread is about to have a block read.         *)
LEMMA TakesFor ==
    ASSUME SdTypeOK, DriverTypeOK, Turns, CommandIInv, cdc # Nothing, cdc.cmd # "params"
    PROVE  \/ run \in Threads /\ pc[run] = "cmd17?" /\ cdc = ReadCommand(run) /\ cmdBusy
           \/ /\ "data" \notin cdc.flags /\ cdc.cmd # "CMD17"
              /\ \A t \in Threads : pc[t] \notin {"cmd17", "cmd17?"}
<1>1. \A t \in Threads : pc[t] \in {"cmd17", "cmd17?"} => t = run
  BY DEF Turns, Rests
<1>2. CASE cmdBusy
  <2>1. /\ cdcOut = cdc /\ run \in Threads /\ pc[run] \in Waiting
        /\ IF pc[run] = "cmd17?" THEN cdcOut = ReadCommand(run)
           ELSE cdcOut.cmd \notin {"CMD17", "params"} /\ "data" \notin cdcOut.flags
    BY <1>2 DEF CommandIInv, Crossing, Awaited
  <2>2. "cmd17" \notin Waiting
    BY DEF Waiting
  <2> QED
    BY <1>1, <1>2, <2>1, <2>2
<1>3. CASE ~cmdBusy
  <2>1. cdc # SizeMessage
    BY DEF SizeMessage
  <2>2. cdc.cmd = "CMD0" /\ cdc.flags = {} /\ run = "sd" /\ pc["sd"] = "cmd8"
    BY <1>3, <2>1 DEF CommandIInv, Crossing
  <2> QED
    BY <1>1, <2>2
<1> QED
  BY <1>2, <1>3

(* The size of a block that the controller takes is for the thread that has *)
(* written it.                                                              *)
LEMMA TakesSize ==
    ASSUME DriverTypeOK, CommandIInv, cdc # Nothing, cdc.cmd = "params"
    PROVE  cdc = SizeMessage /\ run \in Threads /\ pc[run] = "cmd17"
<1>1. ~cmdBusy
  BY DEF CommandIInv, Crossing, Awaited, ReadCommand
<1> QED
  BY <1>1 DEF CommandIInv, Crossing


(* The receiver and the DMA do nothing in the quiet, and are in the block   *)
(* of one thread otherwise.                                                 *)
LEMMA InProgress ==
    ASSUME SdTypeOK, DriverTypeOK, Buffers, Transfers, Receiving \/ Dma
    PROVE  /\ ~Quiet
           /\ \E b \in PoolOf :
                 /\ Progress(b)
                 /\ \/ \E t \in Threads : Taken(t) /\ b = buf[t]
                    \/ Failed /\ b \in free /\ \A t \in Threads : ~Taken(t)
<1>1. ~Quiet
  BY DEF Receiving, DataStart, DataTimeout, DataWord, DataEnd, Dma, Quiet
<1>2. CASE \E t \in Threads : Taken(t)
  <2>1. PICK t \in Threads : Taken(t)
    BY <1>2
  <2>2. Fetch \subseteq Holding
    BY DEF Fetch, Holding
  <2>3. buf[t] \in PoolOf
    BY <2>1, <2>2, HolderHas DEF Taken
  <2> QED
    BY <1>1, <2>1, <2>3 DEF Transfers
<1>3. CASE \A t \in Threads : ~Taken(t)
  BY <1>1, <1>3 DEF Transfers, DriverTypeOK
<1> QED
  BY <1>2, <1>3

(* The receiver and the DMA keep to the block. *)
LEMMA TransfersReceiving ==
    ASSUME SdTypeOK, DriverTypeOK, Buffers, Transfers, Received, Receiving \/ Dma,
           UNCHANGED software
    PROVE  Transfers' /\ Received'
<1>1. /\ UNCHANGED <<pc, buf, free, cdc>>
      /\ dataState = "idle" => dataState' = "idle"
  BY DEF software, threadVars, readVars, Receiving, DataStart, DataTimeout, DataWord, DataEnd, Dma,
         cmdPath
<1>2. ~Quiet
  BY InProgress
<1>3. \A t \in Threads : Preparing(t)' /\ (Taken(t)' <=> Taken(t))
  BY <1>1, <1>2 DEF Transfers, Preparing, Ready, Taken
<1>4. ASSUME NEW b \in PoolOf, Progress(b)
      PROVE  Progress(b)'
  BY <1>4, ProgressStep
<1>5. ASSUME NEW t \in Threads, Taken(t)
      PROVE  Progress(buf[t])'
  <2>1. Fetch \subseteq Holding
    BY DEF Fetch, Holding
  <2>2. PICK b \in PoolOf : b = buf[t]
    BY <1>5, <2>1, HolderHas DEF Taken
  <2>3. Progress(b)'
    BY <1>4, <1>5, <2>2 DEF Transfers
  <2> QED
    BY <1>1, <2>2, <2>3 DEF Progress, Stored, AddressOf
<1>6. (\A t \in Threads : ~Taken(t)) => Failed' /\ \E b \in free' : Progress(b)'
  <2>1. SUFFICES ASSUME \A t \in Threads : ~Taken(t)
                 PROVE  Failed' /\ \E b \in free' : Progress(b)'
    OBVIOUS
  <2>2. Failed /\ \E b \in free : Progress(b)
    BY <1>2, <2>1 DEF Transfers
  <2>3. PICK b \in free : Progress(b)
    BY <2>2
  <2>4. b \in PoolOf
    BY DEF DriverTypeOK
  <2> QED
    BY <1>1, <1>4, <2>2, <2>3, <2>4 DEF Failed
<1>7. Received'
  BY <1>1 DEF Received
<1> QED
  BY <1>3, <1>5, <1>6, <1>7 DEF Transfers

(* A command that reads finds everything prepared, and starts the transfer. *)
LEMMA TransfersCommanding ==
    ASSUME SdTypeOK, DriverTypeOK, Turns, LockOwned, CommandIInv, Transfers, Received,
           Commanding, UNCHANGED software
    PROVE  Transfers' /\ Received'
<1>0. UNCHANGED <<pc, buf, free, dmaAddress>> /\ pc \in [Threads -> Places]
      /\ left \in 0 .. CounterSpan - 1 /\ BlockWords \in Nat \ {0}
  BY SdControllerAssumption
     DEF software, threadVars, readVars, Commanding, TakeCommand, TakeParams, CommandSent,
         ReplyReceived, ReplyTimeout, store, SdTypeOK, DriverTypeOK
<1>1. ASSUME UNCHANGED <<dataPath, cdc>>
      PROVE  Transfers' /\ Received'
  BY <1>0, <1>1 DEF dataPath, Transfers, Preparing, Taken, Failed, Received, Progress, Ready, Quiet,
                    Stored, Arrived, AddressOf
<1>2. CASE CommandSent \/ ReplyReceived \/ ReplyTimeout
  BY <1>1, <1>2 DEF CommandSent, ReplyReceived, ReplyTimeout
<1>3. CASE TakeParams
  <2>1. /\ cdc = SizeMessage /\ run \in Threads /\ pc[run] = "cmd17"
        /\ cdc' = Nothing /\ left' = BlockWords % CounterSpan /\ pipe' = <<>>
        /\ dataState' = dataState
    BY <1>3, TakesSize DEF TakeParams, SizeMessage
  <2>2. Ready(run)
    BY <2>1 DEF Transfers, Preparing
  <2>3. pc[run] \in Locked /\ pc[run] \notin Fetch
    BY <2>1 DEF Locked, Fetch
  <2>4. ASSUME NEW u \in Threads
        PROVE  Preparing(u)' /\ ~Taken(u)'
    <3>1. u # run => pc[u] \notin Locked
      BY <2>1, <2>3, OneFetches
    <3>2. Fetch \cup {"params", "cmd17"} \subseteq Locked /\ "cmd17" \notin Fetch
      BY DEF Locked, Fetch
    <3>3. pc'[u] \notin Fetch /\ pc'[u] \notin {"params", "cmd17?"}
      BY <1>0, <2>1, <3>1, <3>2 DEF Fetch
    <3>4. pc'[u] = "cmd17" => u = run
      BY <1>0, <3>1, <3>2
    <3> QED
      BY <1>0, <2>1, <2>2, <3>3, <3>4 DEF Preparing, Taken, Ready, Quiet, AddressOf
  <2>5. Quiet' /\ Received'
    BY <1>0, <2>1, <2>2 DEF Ready, Quiet, Received
  <2> QED
    BY <2>4, <2>5 DEF Transfers
<1>4. CASE TakeCommand
  <2>1. cdc # Nothing /\ cdc.cmd # "params" /\ cdc' = Nothing /\ UNCHANGED <<left, pipe>>
    BY <1>4 DEF TakeCommand
  <2>2. ASSUME NEW t \in Threads, t = run, pc[t] = "cmd17?", cdc = ReadCommand(t)
        PROVE  Transfers' /\ Received'
    <3>1. Ready(t) /\ left = BlockWords % CounterSpan
      BY <2>1, <2>2 DEF Transfers, Preparing
    <3>2. dataState' = "wait"
      BY <1>4, <2>2, <3>1 DEF TakeCommand, ReadCommand, Ready, Quiet
    <3>3. Taken(t)'
      BY <1>0, <2>1, <2>2 DEF Taken, Fetch
    <3>4. Progress(buf[t])'
      <4>1. Len(<<>>) = 0 /\ AddressOf(buf[t])' = AddressOf(buf[t])
        BY <1>0, <2>2 DEF AddressOf
      <4>2. Stored(buf[t])' = 0 /\ Len(pipe') = 0 /\ Arrived' = 0
        <5>1. dmaAddress \in Nat
          <6>1. PoolBlocks * BlockWords \in Nat
            BY SdControllerAssumption
          <6> QED
            BY <6>1 DEF SdTypeOK, Addresses
        <5> QED
          BY <1>0, <2>1, <3>1, <3>2, <4>1, <5>1 DEF Stored, Arrived, Ready, Quiet
      <4> QED
        BY <1>0, <2>1, <3>1, <3>2, <4>2 DEF Progress
    <3>5. ASSUME NEW u \in Threads, u # t
          PROVE  pc[u] \notin Locked
      BY <2>2, <3>5, OneFetches DEF Locked
    <3>6. Fetch \cup {"params", "cmd17"} \subseteq Locked /\ "return" \in Fetch /\ "cmd17?" \in Fetch
      BY DEF Locked, Fetch
    <3>7. ASSUME NEW u \in Threads
          PROVE  Preparing(u)' /\ (Taken(u)' => Progress(buf[u])')
      <4>1. CASE u = t
        BY <1>0, <2>1, <2>2, <3>4, <4>1 DEF Preparing
      <4>2. CASE u # t
        BY <1>0, <3>5, <3>6, <4>2 DEF Preparing, Taken
      <4> QED
        BY <4>1, <4>2
    <3>8. Received'
      BY <1>0, <2>2, <3>5, <3>6 DEF Received
    <3> QED
      BY <2>2, <3>3, <3>7, <3>8 DEF Transfers
  <2>3. CASE "data" \notin cdc.flags /\ \A t \in Threads : pc[t] \notin {"cmd17", "cmd17?"}
    <3>1. UNCHANGED dataPath
      BY <1>4, <2>3 DEF TakeCommand, dataPath
    <3>2. \A t \in Threads : /\ Taken(t)' <=> Taken(t)
                             /\ Preparing(t) => Preparing(t)'
      BY <1>0, <2>1, <2>3, <3>1 DEF Taken, Preparing, Ready, Quiet, AddressOf, dataPath
    <3>3. \A t \in Threads : Progress(buf[t]) => Progress(buf[t])'
      BY <1>0, <3>1 DEF Progress, Stored, Arrived, AddressOf, dataPath
    <3>4. ASSUME NEW b, Progress(b)
          PROVE  Progress(b)'
      BY <1>0, <3>1, <3>4 DEF Progress, Stored, Arrived, AddressOf, dataPath
    <3>5. (Quiet <=> Quiet') /\ (Failed <=> Failed') /\ Received'
      BY <1>0, <3>1 DEF Quiet, Failed, Received, dataPath
    <3> QED
      BY <1>0, <3>2, <3>3, <3>4, <3>5 DEF Transfers
  <2> QED
    BY <2>1, <2>2, <2>3, TakesFor
<1> QED
  BY <1>2, <1>3, <1>4 DEF Commanding

(* A word of a block is stored in the block. *)
LEMMA TransfersStep ==
    ASSUME SdTypeOK, DriverTypeOK, Turns, LockOwned, Buffers, CommandIInv, Transfers, Received,
           [Next]_vars
    PROVE  Transfers' /\ Received'
<1>1. CASE UNCHANGED <<cdc, dataPath, dmaAddress, pc, buf, free>>
  BY <1>1 DEF dataPath, Transfers, Preparing, Taken, Failed, Received, Progress, Ready, Quiet, Stored,
              Arrived, AddressOf
<1>2. CASE UNCHANGED vars
  BY <1>1, <1>2 DEF vars, sdVars, cmdPath, store, threadVars, readVars
<1>3. CASE Slot
  BY <1>1, <1>3 DEF Slot, SlotStep, Insert, Remove, software, cmdPath, store, threadVars, readVars
<1>4. CASE (InsertIrq \/ DataIrq \/ TimerIrq) /\ UNCHANGED <<sdVars, pc, panic, readVars, mountVars>>
  BY <1>1, <1>4 DEF sdVars, cmdPath, store, readVars
<1>5. CASE Hardware
  BY <1>5, TransfersReceiving, TransfersCommanding DEF Hardware, SdStep
<1> QED
  BY <1>2, <1>3, <1>4, <1>5, TransfersSoftware, StepKinds


-----------------------------------------------------------------------------
(* The card sends only the block a thread has asked for, and only to a      *)
(* receiver that is armed.                                                  *)
Sending ==
    sending # Nothing =>
        /\ slot # Nothing /\ dataState # "idle"
        /\ \A t \in Threads : Taken(t) => sending = req[t]

(* The receiver is armed before the command is sent. *)
Armed == cmdState = "send" /\ command.cmd = "CMD17" => dataState = "wait" /\ sending = Nothing

(* Threads write to memory only where they free a block.                    *)
LEMMA StepErases ==
    ASSUME SdTypeOK, DriverTypeOK, NEW t \in Threads, StepOf(t)
    PROVE  /\ memory' \in [Addresses -> Words]
           /\ \A a \in Addresses :
                 memory'[a] = memory[a] \/ (memory'[a] = Junk /\ a \div BlockWords \in free')
<1>0. memory \in [Addresses -> Words] /\ Junk \in Words
  BY DEF SdTypeOK, Words
<1> DEFINE Erased == /\ memory' \in [Addresses -> Words]
                     /\ \A a \in Addresses : \/ memory'[a] = memory[a]
                                             \/ memory'[a] = Junk /\ a \div BlockWords \in free'
<1>1. ASSUME memory' = memory PROVE Erased
  BY <1>0, <1>1
<1>2. ASSUME NEW blocks, memory' = Freed(blocks), blocks \subseteq free' PROVE Erased
  BY <1>0, <1>2 DEF Freed
<1> HIDE DEF Erased
<1>3. CASE ReadStep(t)
  <2>1. CASE \/ ReadBlock(t) \/ Lock(t) \/ WaitDataIdle(t) \/ Alloc(t) \/ Params(t) \/ Cmd17(t)
             \/ Cmd17Done(t) \/ Return(t) \/ EmptyBlock(t)
    <3>1. memory' = memory
      BY <2>1 DEF ReadBlock, Lock, WaitDataIdle, IdleTest, IdleSleep, Alloc, Params, WriteParams,
                  Cmd17, Sends, WriteCommand, Cmd17Done, Return, EmptyBlock, sdVars, store
    <3> QED
      BY <1>1, <3>1 DEF Erased
  <2>2. CASE Fail(t)
    <3>1. Erased
      BY <1>2, <2>2 DEF Fail
    <3> QED
      BY <3>1 DEF Erased
  <2> QED
    BY <1>3, <2>1, <2>2 DEF ReadStep
<1>4. CASE t = "sd" /\ CardThread
  <2>1. CASE InitCard
    <3>1. memory' = memory
      BY <2>1 DEF InitCard, Cmd0, Cmd8, AppCmd, AppCmdAgain, Acmd41, Cmd2, Cmd3, Cmd9, Cmd7, Sends,
                  WriteCommand, Cmd8Done, AppCmdDone, AppCmdAgainDone, Acmd41Done, Cmd2Done,
                  Cmd3Done, Cmd9Done, Cmd7Done, Asked, sdVars, store
    <3> QED
      BY <1>1, <3>1 DEF Erased
  <2>2. CASE Top \/ AwaitCard \/ InitReturns \/ BootRead \/ Settle \/ AwaitRemoval
    <3>1. memory' = memory
      BY <2>2 DEF Top, AwaitCard, InitReturns, BootRead, Settle, AwaitRemoval, sdVars, store
    <3> QED
      BY <1>1, <3>1 DEF Erased
  <2>3. CASE MbrRead \/ FatRead
    <3>1. PICK blocks : memory' = Freed(blocks) /\ free' = free \cup blocks
      BY <2>3 DEF MbrRead, FatRead
    <3> QED
      BY <1>2, <3>1 DEF Erased
  <2> QED
    BY <1>4, <2>1, <2>2, <2>3 DEF CardThread
<1>5. CASE t = "main" /\ MainThread
  <2>1. CASE FsTest
    <3>1. memory' = memory
      BY <2>1 DEF FsTest, sdVars, store
    <3> QED
      BY <1>1, <3>1 DEF Erased
  <2>2. CASE UseBlock
    <3>1. PICK blocks : memory' = Freed(blocks) /\ free' = free \cup blocks
      BY <2>2 DEF UseBlock
    <3> QED
      BY <1>2, <3>1 DEF Erased
  <2> QED
    BY <1>5, <2>1, <2>2 DEF MainThread
<1> QED
  BY <1>3, <1>4, <1>5 DEF StepOf

(* Types of the controller's variables: those of the card and the commands, *)
CommandTypeOK ==
    /\ slot \in Cards \cup {Nothing}
    /\ cardState \in {"idle", "starting", "ready", "ident", "stby", "tran"}
    /\ appNext \in BOOLEAN
    /\ sending \in Blocks \cup {Nothing}
    /\ cdc \in Messages \cup {Nothing}
    /\ cdcOut \in Messages \cup {Nothing}
    /\ cmdState \in {"idle", "send", "pending"}
    /\ command \in Messages \cup {Nothing}
    /\ answer \in Replies \cup {Nothing}
    /\ cmdBusy \in BOOLEAN
    /\ cmdError \subseteq {"timeout", "garbled"}
    /\ lastReply \in Replies

(* of the receiver, *)
DataTypeOK ==
    /\ dataState \in {"idle", "wait", "recv", "crc"}
    /\ dataError \subseteq {"timeout", "crc", "overrun"}
    /\ crcWrong \in BOOLEAN
    /\ left \in 0 .. CounterSpan - 1
    /\ pipe \in Seq(Words) /\ Len(pipe) <= PipelineLength

(* and of the DMA. *)
StoreTypeOK ==
    /\ dmaAddress \in Addresses \cup {PoolBlocks * BlockWords}
    /\ memory \in [Addresses -> Words]

LEMMA SdTypeIs == SdTypeOK <=> CommandTypeOK /\ DataTypeOK /\ StoreTypeOK
  BY DEF SdTypeOK, CommandTypeOK, DataTypeOK, StoreTypeOK

(* A thread writes commands and sizes.                                      *)
LEMMA SdTypesSoftware ==
    ASSUME SdTypeOK, DriverTypeOK, NEW t \in Threads, StepOf(t)
    PROVE  SdTypeOK'
<1>0. CommandTypeOK /\ DataTypeOK /\ StoreTypeOK
  BY SdTypeIs
<1>1. UNCHANGED <<card, dataPath>>
  BY StepTransfers
<1>2. ASSUME NEW name \in Commands, NEW arg \in Nat \cup Cards \cup {Nothing},
             NEW flags \in SUBSET {"reply", "long", "data"}, WriteCommand(name, arg, flags)
      PROVE  CommandTypeOK'
  <2>1. [cmd |-> name, arg |-> arg, flags |-> flags] \in Messages
    BY DEF Messages
  <2>2. cmdBusy' \in BOOLEAN
    BY <1>2 DEF WriteCommand
  <2>3. /\ cdc' \in Messages /\ cdcOut' \in Messages /\ cmdError' = {}
        /\ UNCHANGED <<card, cmdState, command, answer, lastReply>>
    BY <1>2, <2>1 DEF WriteCommand
  <2> QED
    BY <1>0, <2>2, <2>3 DEF CommandTypeOK, card
<1>3. CommandTypeOK'
  <2>1. CASE UNCHANGED cmdPath
    BY <1>0, <1>1, <2>1 DEF CommandTypeOK, card, cmdPath
  <2>2. CASE WriteCommand("CMD17", req[t], {"reply", "data"})
    <3>1. "CMD17" \in Commands /\ req[t] \in Nat
      BY SdControllerAssumption DEF Commands, DriverTypeOK
    <3> QED
      BY <1>2, <2>2, <3>1
  <2>3. CASE WriteCommand("CMD0", 0, {})
    BY <1>2, <2>3 DEF Commands
  <2>4. CASE \E name \in Commands \ {"CMD17"}, arg \in Nat \cup Cards \cup {cardAddr},
                flags \in {{"reply"}, {"reply", "long"}} : WriteCommand(name, arg, flags)
    <3>1. cardAddr \in Cards \cup {Nothing}
      BY DEF DriverTypeOK
    <3>2. PICK name \in Commands \ {"CMD17"}, arg \in Nat \cup Cards \cup {cardAddr},
               flags \in {{"reply"}, {"reply", "long"}} : WriteCommand(name, arg, flags)
      BY <2>4
    <3> QED
      BY <1>2, <3>1, <3>2
  <2>5. CASE Params(t)
    <3>1. SizeMessage \in Messages
      BY SdControllerAssumption DEF SizeMessage, Messages
    <3>2. /\ cdc' = SizeMessage /\ cdcOut' = SizeMessage
          /\ UNCHANGED <<cmdState, command, answer, cmdBusy, cmdError, lastReply>>
      BY <2>5 DEF Params, WriteParams, SizeMessage
    <3> QED
      BY <1>0, <1>1, <3>1, <3>2 DEF CommandTypeOK, card
  <2> QED
    BY <2>1, <2>2, <2>3, <2>4, <2>5, StepCommands
<1>4. DataTypeOK'
  BY <1>0, <1>1 DEF DataTypeOK, dataPath
<1>5. dmaAddress' \in Addresses \cup {PoolBlocks * BlockWords}
  <2>1. CASE dmaAddress' = dmaAddress
    BY <1>0, <2>1 DEF StoreTypeOK
  <2>2. CASE Alloc(t) /\ free # {}
    <3>1. PICK b \in free : dmaAddress' = AddressOf(b)
      BY <2>2 DEF Alloc
    <3>2. b \in PoolOf /\ 0 \in 0 .. BlockWords /\ 0 < BlockWords
      BY SdControllerAssumption DEF DriverTypeOK
    <3>3. AddressOf(b) \in Nat /\ AddressOf(b) + 0 \in Addresses
      BY <3>2, BlockInside
    <3> QED
      BY <3>1, <3>3
  <2>3. CASE Params(t) \/ Cmd17(t) \/ Return(t) \/ Fail(t) \/ EmptyBlock(t) \/ Elsewhere(t)
             \/ Fetching(t)
    <3>1. dmaAddress' = dmaAddress
      BY <2>3 DEF Params, WriteParams, Cmd17, Sends, WriteCommand, Return, Fail, EmptyBlock,
                  Elsewhere, Fetching, sdVars, store
    <3> QED
      BY <2>1, <3>1
  <2> QED
    BY <2>2, <2>3, StepTransfers
<1>6. StoreTypeOK'
  BY <1>5, StepErases DEF StoreTypeOK
<1> QED
  BY <1>3, <1>4, <1>6 DEF SdTypeOK, CommandTypeOK, DataTypeOK, StoreTypeOK


(* The command to read a block that the card is about to hear is that of    *)
(* the thread that waits.                                                   *)
LEMMA SendsFor ==
    ASSUME CommandIInv, cmdState = "send", command.cmd = "CMD17"
    PROVE  run \in Threads /\ pc[run] = "cmd17?" /\ command = ReadCommand(run) /\ cdc = Nothing
  BY DEF CommandIInv, Answering, Awaited

(* What the card, its slot and its controller do.                           *)
LEMMA SdTypesHardware ==
    ASSUME SdTypeOK, DriverTypeOK, Buffers, CommandIInv, Transfers, Sending, Hardware \/ Slot
    PROVE  SdTypeOK'
<1>0. CommandTypeOK /\ DataTypeOK /\ StoreTypeOK /\ Nothing \notin Messages /\ Nothing \notin Replies
      /\ CounterSpan \in Nat \ {0} /\ BlockWords \in Nat \ {0} /\ PipelineLength \in Nat \ {0}
      /\ BlockWords <= CounterSpan
  BY SdTypeIs, NothingAssumption, SdControllerAssumption
<1>1. ASSUME CommandTypeOK', DataTypeOK', StoreTypeOK' PROVE SdTypeOK'
  BY <1>1 DEF SdTypeOK, CommandTypeOK, DataTypeOK, StoreTypeOK
<1>2. ASSUME UNCHANGED <<card, cmdPath>> PROVE CommandTypeOK'
  BY <1>0, <1>2 DEF card, cmdPath, CommandTypeOK
<1>3. ASSUME UNCHANGED dataPath PROVE DataTypeOK'
  BY <1>0, <1>3 DEF dataPath, DataTypeOK
<1>4. ASSUME UNCHANGED store PROVE StoreTypeOK'
  BY <1>0, <1>4 DEF store, StoreTypeOK
<1>5. CASE SlotStep
  <2>1. CommandTypeOK'
    BY <1>0, <1>5 DEF SlotStep, Insert, Remove, cmdPath, CommandTypeOK
  <2> QED
    BY <1>1, <1>3, <1>4, <1>5, <2>1 DEF SlotStep, Insert, Remove
<1>6. CASE TakeCommand
  <2>1. CommandTypeOK'
    BY <1>0, <1>6 DEF TakeCommand, card, CommandTypeOK
  <2>2. DataTypeOK'
    BY <1>0, <1>6 DEF TakeCommand, DataTypeOK
  <2> QED
    BY <1>1, <1>4, <1>6, <2>1, <2>2 DEF TakeCommand
<1>7. CASE TakeParams
  <2>1. CommandTypeOK'
    BY <1>0, <1>7 DEF TakeParams, card, CommandTypeOK
  <2>2. left' = BlockWords % CounterSpan /\ pipe' = <<>> /\ UNCHANGED <<dataState, dataError, crcWrong>>
    BY <1>7, TakesSize DEF TakeParams, SizeMessage
  <2>3. DataTypeOK'
    BY <1>0, <2>2, Countdown DEF DataTypeOK
  <2> QED
    BY <1>1, <1>4, <1>7, <2>1, <2>3 DEF TakeParams
<1>8. CASE CommandSent
  <2>1. /\ cmdState' \in {"idle", "send", "pending"}
        /\ UNCHANGED <<slot, cdc, cdcOut, command, cmdBusy, cmdError, lastReply>>
        /\ cmdState = "send"
    BY <1>8 DEF CommandSent
  <2>2. CASE slot = Nothing \/ command.cmd = "CMD0" \/ ~Expected
    <3>1. /\ answer' = Nothing
          /\ cardState' = IF command.cmd = "CMD0" THEN "idle" ELSE cardState
          /\ sending' = IF command.cmd = "CMD0" THEN Nothing ELSE sending
          /\ appNext' = FALSE
      BY <1>8, <2>2 DEF CommandSent, CardHears
    <3>2. CommandTypeOK'
      BY <1>0, <2>1, <3>1 DEF CommandTypeOK
    <3> QED
      BY <1>1, <1>3, <1>4, <1>8, <3>2 DEF CommandSent
  <2>3. CASE ~(slot = Nothing \/ command.cmd = "CMD0" \/ ~Expected)
    <3>1. PICK after \in Becomes :
            /\ cardState' = after
            /\ answer' = Reply(after)
            /\ sending' = IF command.cmd = "CMD17" THEN command.arg ELSE sending
            /\ appNext' = (command.cmd = "CMD55")
      BY <1>8, <2>3 DEF CommandSent, CardHears
    <3>2. after \in {"idle", "starting", "ready", "ident", "stby", "tran"}
      BY <1>0 DEF Becomes, CommandTypeOK
    <3>3. Reply(after) \in Replies
      BY <1>0 DEF Reply, Replies, CommandTypeOK
    <3>4. command.cmd = "CMD17" => command.arg \in Blocks
      BY <2>1, SendsFor DEF ReadCommand, DriverTypeOK
    <3>5. appNext' \in BOOLEAN
      BY <3>1
    <3>6. sending' \in Blocks \cup {Nothing}
      BY <1>0, <3>1, <3>4 DEF CommandTypeOK
    <3>7. CommandTypeOK'
      BY <1>0, <2>1, <3>1, <3>2, <3>3, <3>5, <3>6 DEF CommandTypeOK
    <3> QED
      BY <1>1, <1>3, <1>4, <1>8, <3>7 DEF CommandSent
  <2> QED
    BY <2>2, <2>3
<1>9. CASE ReplyReceived \/ ReplyTimeout
  <2>1. CommandTypeOK'
    BY <1>0, <1>9 DEF ReplyReceived, ReplyTimeout, card, CommandTypeOK
  <2> QED
    BY <1>1, <1>3, <1>4, <1>9, <2>1 DEF ReplyReceived, ReplyTimeout
<1>10. CASE DataStart
  <2>1. DataTypeOK'
    <3>1. /\ dataState = "wait" /\ dataState' = "recv"
          /\ left' = (left + CounterSpan - 1) % CounterSpan /\ UNCHANGED <<dataError, crcWrong, pipe>>
      BY <1>10 DEF DataStart
    <3>2. left' \in 0 .. CounterSpan - 1
      BY <1>0, <3>1, Countdown DEF DataTypeOK
    <3> QED
      BY <1>0, <3>1, <3>2 DEF DataTypeOK
  <2> QED
    BY <1>1, <1>2, <1>4, <1>10, <2>1 DEF DataStart
<1>11. CASE DataTimeout \/ DataEnd
  <2>1. CommandTypeOK'
    BY <1>0, <1>11 DEF DataTimeout, DataEnd, cmdPath, CommandTypeOK
  <2>2. DataTypeOK'
    BY <1>0, <1>11 DEF DataTimeout, DataEnd, DataTypeOK
  <2> QED
    BY <1>1, <1>4, <1>11, <2>1, <2>2 DEF DataTimeout, DataEnd
<1>12. CASE DataWord
  <2>1. left < BlockWords /\ left \in Nat
    <3>1. \E b \in PoolOf : Progress(b)
      BY <1>12, InProgress DEF Receiving
    <3> QED
      BY <1>0, <1>12, <3>1 DEF Progress, DataWord, DataTypeOK
  <2>2. PICK spoilt \in IF sending = Nothing THEN {TRUE} ELSE BOOLEAN :
          LET word == IF spoilt THEN Junk ELSE Word(slot, sending, BlockWords - 1 - left)
          IN /\ pipe' = IF Len(pipe) < PipelineLength THEN Append(pipe, word)
                        ELSE [pipe EXCEPT ![PipelineLength] = word]
             /\ crcWrong' = (crcWrong \/ spoilt)
    BY <1>12 DEF DataWord
  <2> DEFINE word == IF spoilt THEN Junk ELSE Word(slot, sending, BlockWords - 1 - left)
  <2>3. word \in Words
    <3>1. CASE spoilt
      BY <3>1 DEF Words
    <3>2. CASE ~spoilt
      <4>1. sending \in Blocks /\ slot \in Cards
        BY <1>0, <2>2, <3>2 DEF Sending, CommandTypeOK
      <4>2. BlockWords - 1 - left \in 0 .. BlockWords - 1
        BY <1>0, <2>1
      <4> QED
        BY <3>2, <4>1, <4>2 DEF Words
    <3> QED
      BY <3>1, <3>2
  <2>4. /\ pipe' = IF Len(pipe) < PipelineLength THEN Append(pipe, word)
                   ELSE [pipe EXCEPT ![PipelineLength] = word]
        /\ crcWrong' \in BOOLEAN
    BY <2>2
  <2> HIDE DEF word
  <2>5. pipe' \in Seq(Words) /\ Len(pipe') <= PipelineLength
    <3>1. pipe \in Seq(Words) /\ Len(pipe) \in Nat /\ Len(pipe) <= PipelineLength
      BY <1>0 DEF DataTypeOK
    <3>2. CASE Len(pipe) < PipelineLength
      BY <1>0, <2>3, <2>4, <3>1, <3>2
    <3>3. CASE ~(Len(pipe) < PipelineLength)
      <4>1. PipelineLength \in 1 .. Len(pipe) /\ pipe' = [pipe EXCEPT ![PipelineLength] = word]
        BY <1>0, <2>4, <3>1, <3>3
      <4> QED
        BY <2>3, <3>1, <4>1, ExceptSeq
    <3> QED
      BY <3>2, <3>3
  <2>6. left' \in 0 .. CounterSpan - 1 /\ dataState' \in {"crc", "recv"}
        /\ dataError' \subseteq {"timeout", "crc", "overrun"}
    BY <1>0, <1>12, Countdown DEF DataWord, DataTypeOK
  <2>7. DataTypeOK'
    BY <2>4, <2>5, <2>6 DEF DataTypeOK
  <2> QED
    BY <1>1, <1>2, <1>4, <1>12, <2>7 DEF DataWord
<1>13. CASE Dma
  <2>1. pipe # <<>> /\ pipe \in Seq(Words) /\ Len(pipe) \in Nat /\ Len(pipe) <= PipelineLength
    BY <1>0, <1>13 DEF Dma, DataTypeOK
  <2>2. Head(pipe) \in Words /\ Tail(pipe) \in Seq(Words) /\ Len(Tail(pipe)) = Len(pipe) - 1
        /\ Len(pipe) >= 1
    BY <2>1
  <2>3. DataTypeOK'
    BY <1>0, <1>13, <2>1, <2>2 DEF Dma, DataTypeOK
  <2>4. PICK b \in PoolOf : Progress(b)
    BY <1>13, InProgress
  <2>5. Progress(b)'
    BY <1>13, <2>4, ProgressStep
  <2>6. dmaAddress' \in Addresses \cup {PoolBlocks * BlockWords}
    <3> DEFINE n == dmaAddress' - AddressOf(b)
    <3>1. n \in 0 .. BlockWords
      BY <2>5 DEF Progress, Stored, AddressOf
    <3>2. PoolBlocks * BlockWords \in Nat
      BY SdControllerAssumption
    <3>3. dmaAddress' = dmaAddress + 1 /\ dmaAddress \in Nat
      BY <1>0, <1>13, <3>2 DEF Dma, StoreTypeOK, Addresses
    <3>4. AddressOf(b) \in Nat /\ AddressOf(b) + n \in 0 .. PoolBlocks * BlockWords
      BY <3>1, BlockInside
    <3>5. AddressOf(b) + n = dmaAddress'
      BY <3>3, <3>4
    <3> QED
      BY <3>2, <3>4, <3>5 DEF Addresses
  <2>7. StoreTypeOK'
    BY <1>0, <1>13, <2>2, <2>6 DEF Dma, StoreTypeOK
  <2> QED
    BY <1>1, <1>2, <1>13, <2>3, <2>7 DEF Dma
<1> QED
  BY <1>5, <1>6, <1>7, <1>8, <1>9, <1>10, <1>11, <1>12, <1>13
     DEF Hardware, Slot, SdStep, Commanding, Receiving

(* Every step keeps them. *)
LEMMA SdTypesStep ==
    ASSUME SdTypeOK, DriverTypeOK, Buffers, CommandIInv, Transfers, Sending, [Next]_vars
    PROVE  SdTypeOK'
<1>1. CASE UNCHANGED sdVars
  BY <1>1 DEF sdVars, card, cmdPath, dataPath, store, SdTypeOK
<1> QED
  BY <1>1, SdTypesHardware, SdTypesSoftware, StepKinds DEF vars


(* A transfer starts with the controller, not with a step of a thread.      *)
LEMMA TakenBefore ==
    ASSUME DriverTypeOK, Turns, LockOwned, NEW t \in Threads, StepOf(t), NEW u \in Threads,
           Taken(u)'
    PROVE  Taken(u) /\ buf'[u] = buf[u] /\ req'[u] = req[u] /\ UNCHANGED dmaAddress
<1>0. pc \in [Threads -> Places] /\ Nothing \notin Messages
  BY NothingAssumption DEF DriverTypeOK
<1>1. Fetch = {"cmd17?", "idle2?", "idle2 sleep", "return", "fail"}
      /\ TransferPlaces = {"params", "cmd17", "empty", "cmd17?", "idle2?", "idle2 sleep", "return",
                           "fail"}
  BY DEF Fetch, TransferPlaces
<1>2. UNCHANGED dmaAddress \/ pc[t] = "alloc"
  BY StepTransfers
     DEF Elsewhere, Fetching, Alloc, Params, WriteParams, Cmd17, Sends, WriteCommand, Return, Fail,
         EmptyBlock, At, sdVars, store
<1>3. CASE u # t
  <2>1. pc[u] \in Rests /\ pc'[u] = pc[u] /\ buf'[u] = buf[u] /\ req'[u] = req[u]
    BY <1>3, OtherRests
  <2>2. Taken(u)
    BY <2>1 DEF Taken, Rests
  <2>3. pc[t] # "alloc"
    BY <1>3, <2>2, OneFetches DEF Locked
  <2> QED
    BY <1>2, <2>1, <2>2, <2>3
<1>4. CASE u = t
  <2>1. pc'[t] \in Fetch /\ (pc'[t] = "cmd17?" => cdc' = Nothing)
    BY <1>4 DEF Taken
  <2>2. ~Elsewhere(t)
    BY <1>0, <1>1, <2>1 DEF Elsewhere
  <2>3. ~Cmd17(t)
    <3>1. ReadCommand(t) \in Messages
      BY SdControllerAssumption DEF ReadCommand, Messages, Commands, DriverTypeOK
    <3>2. Cmd17(t) => pc'[t] = "cmd17?" /\ cdc' = ReadCommand(t)
      BY <1>0 DEF Cmd17, Sends, WriteCommand, Flags, Go, ReadCommand
    <3> QED
      BY <1>0, <2>1, <3>1, <3>2
  <2>4. ~(\/ Alloc(t) /\ free # {}
          \/ Return(t) /\ dataError = {}
          \/ Params(t) \/ Fail(t) \/ EmptyBlock(t))
    <3>1. (\/ Alloc(t) /\ free # {}
           \/ Return(t) /\ dataError = {}
           \/ Params(t) \/ Fail(t) \/ EmptyBlock(t)) => pc'[t] \in {"params", "cmd17", "got", "empty"}
      BY <1>0 DEF Alloc, Params, Return, Fail, Unlock, EmptyBlock, At, Go, threadVars
    <3> QED
      BY <1>1, <2>1, <3>1
  <2>5. Fetching(t)
    BY <2>2, <2>3, <2>4, StepTransfers
  <2> QED
    BY <1>4, <2>5 DEF Fetching, sdVars, store
<1> QED
  BY <1>3, <1>4

(* Who asks for a block has waited for the end of the one before.           *)
LEMMA SendingSoftware ==
    ASSUME DriverTypeOK, Turns, LockOwned, Transfers, Sending, Armed, NEW t \in Threads, StepOf(t)
    PROVE  Sending' /\ Armed'
<1>0. pc \in [Threads -> Places] /\ UNCHANGED <<card, dataPath>>
  BY StepTransfers DEF DriverTypeOK
<1>1. UNCHANGED <<cmdState, command>>
  <2>1. UNCHANGED cmdPath \/ Params(t) \/ \E name, arg, flags : WriteCommand(name, arg, flags)
    BY StepCommands
  <2> QED
    BY <2>1 DEF cmdPath, Params, WriteParams, WriteCommand
<1>2. Armed'
  BY <1>0, <1>1 DEF Armed, card, dataPath
<1>3. \A u \in Threads : Taken(u)' => Taken(u) /\ req'[u] = req[u]
  BY TakenBefore
<1>4. Sending'
  BY <1>0, <1>3 DEF Sending, card, dataPath
<1> QED
  BY <1>2, <1>4

LEMMA SendingHardware ==
    ASSUME SdTypeOK, DriverTypeOK, Turns, LockOwned, CommandIInv, Transfers, Sending, Armed,
           Hardware \/ Slot
    PROVE  Sending' /\ Armed'
<1>0. UNCHANGED <<pc, req>> /\ Nothing \notin Cards
  BY SdControllerAssumption DEF Hardware, Slot, software, threadVars, readVars
<1>1. ASSUME NEW t \in Threads, Ready(t)
      PROVE  sending = Nothing /\ dataState = "idle"
  BY <1>1 DEF Ready, Quiet, Sending
<1>2. CASE SlotStep
  <2>1. UNCHANGED <<cdc, cmdState, command, dataState>>
    BY <1>2 DEF SlotStep, Insert, Remove, cmdPath, dataPath
  <2>2. sending' = Nothing \/ (sending' = sending /\ slot' # Nothing)
    BY <1>0, <1>2 DEF SlotStep, Insert, Remove
  <2>3. sending = Nothing => sending' = Nothing
    BY <2>2
  <2> QED
    BY <1>0, <2>1, <2>2, <2>3 DEF Sending, Armed, Taken
<1>3. CASE TakeCommand
  <2>1. /\ cdc # Nothing /\ cdc.cmd # "params" /\ cdc' = Nothing /\ command' = cdc
        /\ cmdState' = "send" /\ UNCHANGED <<slot, sending>>
    BY <1>3 DEF TakeCommand, card
  <2>2. CASE run \in Threads /\ pc[run] = "cmd17?" /\ cdc = ReadCommand(run)
    <3>1. Ready(run)
      BY <2>1, <2>2 DEF Transfers, Preparing
    <3>2. sending = Nothing /\ dataState = "idle"
      BY <1>1, <2>2, <3>1
    <3>3. dataState' = "wait"
      BY <1>3, <2>2, <3>2 DEF TakeCommand, ReadCommand
    <3> QED
      BY <2>1, <3>2, <3>3 DEF Sending, Armed
  <2>3. CASE /\ "data" \notin cdc.flags /\ cdc.cmd # "CMD17"
             /\ \A t \in Threads : pc[t] \notin {"cmd17", "cmd17?"}
    <3>1. UNCHANGED dataState
      BY <1>3, <2>3 DEF TakeCommand
    <3> QED
      BY <1>0, <2>1, <2>3, <3>1 DEF Sending, Armed, Taken
  <2> QED
    BY <2>1, <2>2, <2>3, TakesFor
<1>4. CASE TakeParams
  <2>1. /\ run \in Threads /\ pc[run] = "cmd17" /\ cmdState' = "idle" /\ UNCHANGED sending
    BY <1>4, TakesSize DEF TakeParams, card
  <2>2. Ready(run)
    BY <2>1 DEF Transfers, Preparing
  <2>3. sending = Nothing
    BY <1>1, <2>1, <2>2
  <2> QED
    BY <2>1, <2>3 DEF Sending, Armed
<1>5. CASE CommandSent
  <2>1. /\ cmdState = "send" /\ cmdState' # "send" /\ UNCHANGED <<slot, cdc, dataState, command>>
        /\ sending' \in {Nothing, sending}
              \/ (slot # Nothing /\ command.cmd = "CMD17" /\ sending' = command.arg)
    BY <1>5 DEF CommandSent, CardHears, dataPath
  <2>2. Armed'
    BY <2>1 DEF Armed
  <2>3. CASE sending' \in {Nothing, sending}
    BY <1>0, <2>1, <2>2, <2>3 DEF Sending, Taken
  <2>4. CASE slot # Nothing /\ command.cmd = "CMD17" /\ sending' = command.arg
    <3>1. run \in Threads /\ pc[run] = "cmd17?" /\ command.arg = req[run]
      BY <2>1, <2>4, SendsFor DEF ReadCommand
    <3>2. \A u \in Threads : u # run => ~Taken(u)
      BY <3>1, OneFetches DEF Locked
    <3>3. \A u \in Threads : Taken(u)' => u = run
      BY <1>0, <2>1, <3>2 DEF Taken
    <3>4. dataState = "wait"
      BY <2>1, <2>4 DEF Armed
    <3> QED
      BY <1>0, <2>1, <2>2, <2>4, <3>1, <3>3, <3>4 DEF Sending
  <2> QED
    BY <2>1, <2>3, <2>4
<1>6. CASE ReplyReceived \/ ReplyTimeout
  <2>1. cmdState' = "idle" /\ UNCHANGED <<slot, sending, cdc, dataState>>
    BY <1>6 DEF ReplyReceived, ReplyTimeout, card, dataPath
  <2> QED
    BY <1>0, <2>1 DEF Sending, Armed, Taken
<1>7. CASE Receiving
  <2>1. UNCHANGED <<slot, cdc, cmdState, command>>
    BY <1>7 DEF Receiving, DataStart, DataTimeout, DataWord, DataEnd, card, cmdPath
  <2>2. \/ sending' = Nothing /\ (cmdState = "idle" \/ dataState = "crc")
        \/ sending' = sending /\ dataState' # "idle" /\ (sending # Nothing \/ dataState # "wait")
    BY <1>7 DEF Receiving, DataStart, DataTimeout, DataWord, DataEnd, card
  <2> QED
    BY <1>0, <2>1, <2>2 DEF Sending, Armed, Taken
<1>8. CASE Dma
  BY <1>0, <1>8 DEF Dma, card, cmdPath, Sending, Armed, Taken
<1> QED
  BY <1>2, <1>3, <1>4, <1>5, <1>6, <1>7, <1>8 DEF Hardware, Slot, SdStep, Commanding

LEMMA SendingStep ==
    ASSUME SdTypeOK, DriverTypeOK, Turns, LockOwned, CommandIInv, Transfers, Sending, Armed,
           [Next]_vars
    PROVE  Sending' /\ Armed'
<1>1. CASE UNCHANGED <<sdVars, pc, readVars>>
  BY <1>1 DEF sdVars, card, cmdPath, dataPath, readVars, Sending, Armed, Taken
<1> QED
  BY <1>1, SendingSoftware, SendingHardware, StepKinds DEF vars, threadVars

-----------------------------------------------------------------------------
(* Where the DMA writes.                                                    *)

(* It stores a word inside the block of the transfer. *)
LEMMA DmaWrites ==
    ASSUME SdTypeOK, DriverTypeOK, Buffers, Transfers, Dma
    PROVE  \E b \in PoolOf :
              /\ Progress(b) /\ Stored(b) \in 0 .. BlockWords - 1
              /\ dmaAddress = AddressOf(b) + Stored(b)
              /\ dmaAddress \in Addresses /\ dmaAddress \div BlockWords = b
              /\ \/ \E t \in Threads : Taken(t) /\ b = buf[t]
                 \/ Failed /\ b \in free /\ \A t \in Threads : ~Taken(t)
<1>1. PICK b \in PoolOf : /\ Progress(b)
                          /\ \/ \E t \in Threads : Taken(t) /\ b = buf[t]
                             \/ Failed /\ b \in free /\ \A t \in Threads : ~Taken(t)
  BY InProgress
<1>2. /\ BlockWords \in Nat \ {0} /\ left \in Nat /\ PoolBlocks * BlockWords \in Nat
      /\ pipe \in Seq(Words) /\ pipe # <<>> /\ dmaAddress \in Nat
  <2>1. PoolBlocks * BlockWords \in Nat
    BY SdControllerAssumption
  <2> QED
    BY <2>1, SdControllerAssumption DEF SdTypeOK, Dma, Addresses
<1>3. Len(pipe) >= 1 /\ Len(pipe) \in Nat
  BY <1>2
<1>4. Arrived <= BlockWords /\ Arrived \in Int
  BY <1>1, <1>2 DEF Arrived, Progress
<1>5. Stored(b) \in 0 .. BlockWords - 1
  BY <1>1, <1>2, <1>3, <1>4 DEF Progress
<1>6. AddressOf(b) \in Nat
  BY SdControllerAssumption DEF AddressOf, PoolOf
<1>7. dmaAddress = AddressOf(b) + Stored(b)
  BY <1>2, <1>6 DEF Stored
<1>8. Stored(b) \in 0 .. BlockWords /\ Stored(b) < BlockWords
  BY <1>2, <1>5
<1>9. dmaAddress \in Addresses
  BY <1>7, <1>8, BlockInside
<1>10. dmaAddress \div BlockWords = b
  BY <1>5, <1>7, BlockOfAddress
<1> QED
  BY <1>1, <1>5, <1>7, <1>9, <1>10

(* Nothing else puts words into memory. *)
LEMMA OnlyDmaWrites ==
    ASSUME SdTypeOK, DriverTypeOK, [Next]_vars
    PROVE  \/ \A a \in Addresses :
                 memory'[a] = memory[a] \/ (memory'[a] = Junk /\ a \div BlockWords \in free')
           \/ Dma /\ UNCHANGED software
<1>1. CASE memory' = memory
  BY <1>1
<1>2. CASE Hardware
  BY <1>1, <1>2 DEF Hardware, SdStep, Commanding, TakeCommand, TakeParams, CommandSent,
                    ReplyReceived, ReplyTimeout, Receiving, DataStart, DataTimeout, DataWord,
                    DataEnd, store
<1>3. CASE Slot
  BY <1>1, <1>3 DEF Slot, SlotStep, Insert, Remove, store
<1>4. CASE UNCHANGED sdVars
  BY <1>1, <1>4 DEF sdVars, store
<1> QED
  BY <1>2, <1>3, <1>4, StepErases, StepKinds DEF vars

(* The DMA writes for the owner of _dataLock, or after a failed read.       *)
LEMMA DmaOwnedStep ==
    ASSUME SdTypeOK, DriverTypeOK, LockOwned, Buffers, Transfers, [Next]_vars,
           NEW a \in Addresses, memory'[a] \notin {memory[a], Junk}
    PROVE  \E t \in Threads : (lock = t /\ buf[t] = a \div BlockWords) \/ pc[t] = "empty"
<1>1. Dma
  BY OnlyDmaWrites
<1>2. PICK b \in PoolOf : /\ dmaAddress \div BlockWords = b
                          /\ \/ \E t \in Threads : Taken(t) /\ b = buf[t]
                             \/ Failed
  BY <1>1, DmaWrites
<1>3. a = dmaAddress
  BY <1>1 DEF Dma, SdTypeOK
<1>4. Fetch \subseteq Locked
  BY DEF Fetch, Locked
<1> QED
  BY <1>2, <1>3, <1>4 DEF Taken, Failed, LockOwned


-----------------------------------------------------------------------------
(* What the DMA writes.                                                     *)

(* The words of the block that have arrived, stored or in the pipeline, are *)
(* those of one card.                                                       *)
FromCard(c, b, r) ==
    /\ sending # Nothing => slot = c
    /\ \A i \in 0 .. Stored(b) - 1 : memory[AddressOf(b) + i] = Word(c, r, i)
    /\ \A j \in 1 .. Len(pipe) : pipe[j] = Word(c, r, Stored(b) + j - 1)

(* As long as no error is reported, none was lost or spoilt, unless the     *)
(* checksum will tell.                                                      *)
Clean(b, r) ==
    /\ dataState = "idle" => ~crcWrong
    /\ ~crcWrong => /\ Stored(b) + Len(pipe) = Arrived
                    /\ Arrived > 0 => \E c \in Cards : FromCard(c, b, r)

Contents == \A t \in Threads : Taken(t) /\ dataError = {} => Clean(buf[t], req[t])

(* A block that somebody holds, and that is not being read, keeps its words.*)
LEMMA WordsKept ==
    ASSUME SdTypeOK, DriverTypeOK, Buffers, Transfers, [Next]_vars, NEW b \in PoolOf,
           b \notin free', \A t \in Threads : Taken(t) => buf[t] # b
    PROVE  \A i \in 0 .. BlockWords - 1 : memory'[AddressOf(b) + i] = memory[AddressOf(b) + i]
<1> SUFFICES ASSUME NEW i \in 0 .. BlockWords - 1
             PROVE  memory'[AddressOf(b) + i] = memory[AddressOf(b) + i]
  OBVIOUS
<1>1. i \in 0 .. BlockWords /\ i < BlockWords
  BY SdControllerAssumption
<1>2. PICK a \in Addresses : a = AddressOf(b) + i
  BY <1>1, BlockInside
<1>3. a \div BlockWords = b
  BY <1>2, BlockOfAddress
<1>4. CASE \A d \in Addresses :
              memory'[d] = memory[d] \/ (memory'[d] = Junk /\ d \div BlockWords \in free')
  BY <1>2, <1>3, <1>4
<1>5. CASE Dma /\ UNCHANGED software
  <2>1. dmaAddress \div BlockWords # b
    <3>1. free' = free
      BY <1>5 DEF software, readVars
    <3> QED
      BY <1>5, <3>1, DmaWrites
  <2>2. a # dmaAddress
    BY <1>3, <2>1
  <2> QED
    BY <1>2, <1>5, <2>2 DEF Dma, SdTypeOK
<1> QED
  BY <1>4, <1>5, OnlyDmaWrites

(* No step of a thread spoils what has arrived.                             *)
LEMMA ContentsSoftware ==
    ASSUME SdTypeOK, DriverTypeOK, Turns, LockOwned, Buffers', HeldApart', DriverTypeOK',
           Transfers, Contents, NEW t \in Threads, StepOf(t)
    PROVE  Contents'
<1> SUFFICES ASSUME NEW u \in Threads, Taken(u)', dataError' = {}
             PROVE  Clean(buf[u], req[u])'
  BY DEF Contents
<1>1. Taken(u) /\ buf'[u] = buf[u] /\ req'[u] = req[u] /\ UNCHANGED <<dmaAddress, card, dataPath>>
  BY TakenBefore, StepTransfers
<1>2. Clean(buf[u], req[u])
  BY <1>1 DEF Contents, dataPath
<1>3. PICK b \in PoolOf : b = buf[u] /\ b \notin free'
  <2>1. Fetch \subseteq Holding
    BY DEF Fetch, Holding
  <2>2. buf'[u] # Nothing /\ buf'[u] \in PoolOf \cup {Nothing}
    BY <2>1 DEF Taken, Buffers, DriverTypeOK, PoolOf
  <2>3. HeldBy(u)' \cap free' = {} /\ buf'[u] \in HeldBy(u)'
    BY <2>2 DEF HeldApart, HeldBy
  <2> QED
    BY <1>1, <2>2, <2>3
<1>4. Stored(b) \in 0 .. BlockWords /\ BlockWords \in Nat
  BY <1>1, <1>3, SdControllerAssumption DEF Transfers, Progress
<1>5. \A i \in 0 .. BlockWords - 1 : memory'[AddressOf(b) + i] = memory[AddressOf(b) + i]
  <2>1. SUFFICES ASSUME NEW i \in 0 .. BlockWords - 1
                 PROVE  memory'[AddressOf(b) + i] = memory[AddressOf(b) + i]
    OBVIOUS
  <2>2. i \in 0 .. BlockWords /\ i < BlockWords
    BY <1>4
  <2>3. AddressOf(b) + i \in Addresses /\ (AddressOf(b) + i) \div BlockWords = b
    BY <2>2, BlockInside, BlockOfAddress
  <2> QED
    BY <1>3, <2>3, StepErases
<1>6. ASSUME NEW c \in Cards, FromCard(c, b, req[u])
      PROVE  FromCard(c, b, req[u])'
  <2>1. \A i \in 0 .. Stored(b) - 1 : i \in 0 .. BlockWords - 1
    BY <1>4
  <2> QED
    BY <1>1, <1>5, <1>6, <2>1 DEF FromCard, Stored, AddressOf, Word, card, dataPath
<1>7. Clean(b, req[u])
  BY <1>2, <1>3
<1>8. Stored(b)' = Stored(b) /\ Arrived' = Arrived /\ UNCHANGED <<pipe, dataState, crcWrong>>
  BY <1>1 DEF Stored, Arrived, AddressOf, dataPath
<1> QED
  BY <1>1, <1>3, <1>6, <1>7, <1>8 DEF Clean


(* What the receiver or the DMA does keeps the words of a transfer in order.*)
LEMMA CleanStep ==
    ASSUME SdTypeOK, NEW b \in PoolOf, NEW r \in Blocks, Progress(b),
           sending # Nothing => sending = r /\ slot # Nothing,
           Clean(b, r), Receiving \/ Dma, dataError' = {}
    PROVE  Clean(b, r)'
<1>0. /\ BlockWords \in Nat \ {0} /\ BlockWords <= CounterSpan /\ CounterSpan \in Nat
      /\ AddressOf(b) \in Nat /\ dmaAddress \in Nat /\ left \in 0 .. CounterSpan - 1
      /\ pipe \in Seq(Words) /\ Len(pipe) \in Nat
  <2>1. PoolBlocks * BlockWords \in Nat /\ AddressOf(b) \in Nat
    BY SdControllerAssumption DEF AddressOf, PoolOf
  <2> QED
    BY <2>1, SdControllerAssumption DEF SdTypeOK, Addresses
<1>1. /\ Stored(b) \in 0 .. BlockWords /\ Stored(b) + Len(pipe) <= Arrived
      /\ dataState = "wait" => left = BlockWords % CounterSpan
      /\ dataState = "recv" => left < BlockWords
  BY DEF Progress
<1>2. /\ dataState = "idle" => ~crcWrong
      /\ ~crcWrong => Stored(b) + Len(pipe) = Arrived
  BY DEF Clean
<1>3. AddressOf(b)' = AddressOf(b)
  BY DEF AddressOf
<1>4. CASE DataStart
  <2>1. /\ dataState = "wait" /\ dataState' = "recv" /\ left' = BlockWords - 1
        /\ UNCHANGED <<pipe, dmaAddress, crcWrong>>
    BY <1>1, <1>4, Countdown DEF DataStart, store
  <2>2. Arrived = 0 /\ Arrived' = 0 /\ Stored(b)' = Stored(b)
    BY <1>0, <1>3, <2>1 DEF Arrived, Stored
  <2> QED
    BY <1>2, <2>1, <2>2 DEF Clean
<1>5. CASE DataTimeout
  BY <1>5 DEF DataTimeout
<1>6. CASE DataEnd
  <2>1. /\ dataState = "crc" /\ dataState' = "idle" /\ ~crcWrong /\ sending' = Nothing
        /\ UNCHANGED <<pipe, dmaAddress, crcWrong, memory>>
    BY <1>6 DEF DataEnd, store
  <2>2. Arrived = BlockWords /\ Arrived' = BlockWords /\ Stored(b)' = Stored(b)
    BY <1>3, <2>1 DEF Arrived, Stored
  <2>3. PICK c \in Cards : FromCard(c, b, r)
    BY <1>0, <2>1, <2>2 DEF Clean
  <2>4. FromCard(c, b, r)'
    BY <1>3, <2>1, <2>2, <2>3 DEF FromCard, Word
  <2> QED
    BY <1>2, <2>1, <2>2, <2>4 DEF Clean
<1>7. CASE DataWord
  <2>1. PICK spoilt \in IF sending = Nothing THEN {TRUE} ELSE BOOLEAN :
          LET word == IF spoilt THEN Junk ELSE Word(slot, sending, BlockWords - 1 - left)
          IN /\ pipe' = IF Len(pipe) < PipelineLength THEN Append(pipe, word)
                        ELSE [pipe EXCEPT ![PipelineLength] = word]
             /\ crcWrong' = (crcWrong \/ spoilt)
    BY <1>7 DEF DataWord
  <2>2. /\ dataState = "recv" /\ dataState' = IF left = 0 THEN "crc" ELSE "recv"
        /\ left' = IF left = 0 THEN CounterSpan - 1 ELSE left - 1
        /\ Len(pipe) < PipelineLength
        /\ UNCHANGED <<slot, sending, dmaAddress, memory>>
    BY <1>0, <1>7, Countdown DEF DataWord, store, card
  <2>3. Arrived \in Nat /\ Arrived' = Arrived + 1 /\ Arrived = BlockWords - 1 - left
    BY <1>0, <1>1, <2>2 DEF Arrived
  <2>4. Stored(b)' = Stored(b)
    BY <1>3, <2>2 DEF Stored
  <2>5. SUFFICES ASSUME ~crcWrong'
                 PROVE  /\ Stored(b)' + Len(pipe') = Arrived'
                        /\ FromCard(slot, b, r)' /\ slot' \in Cards
    BY <2>2 DEF Clean
  <2>6. ~crcWrong /\ ~spoilt /\ sending = r /\ slot # Nothing
    BY <2>1, <2>5
  <2>7. slot \in Cards
    BY <2>6 DEF SdTypeOK
  <2> DEFINE word == Word(slot, r, Arrived)
  <2>8. pipe' = Append(pipe, word)
    BY <2>1, <2>2, <2>3, <2>6
  <2> HIDE DEF word
  <2>9. /\ Len(pipe') = Len(pipe) + 1 /\ pipe'[Len(pipe) + 1] = word
        /\ \A j \in 1 .. Len(pipe) : pipe'[j] = pipe[j]
    BY <1>0, <2>8
  <2>10. Stored(b) + Len(pipe) = Arrived
    BY <1>2, <2>6
  <2>11. FromCard(slot, b, r)
    <3>1. CASE Arrived = 0
      <4>1. Stored(b) = 0 /\ Len(pipe) = 0
        BY <1>0, <1>1, <2>10, <3>1
      <4> QED
        BY <4>1 DEF FromCard
    <3>2. CASE Arrived # 0
      <4>1. PICK c \in Cards : FromCard(c, b, r)
        BY <2>3, <2>6, <3>2 DEF Clean
      <4>2. c = slot
        BY <2>6, <4>1, SdControllerAssumption DEF FromCard, SdTypeOK
      <4> QED
        BY <4>1, <4>2
    <3> QED
      BY <3>1, <3>2
  <2>12. \A j \in 1 .. Len(pipe') : pipe'[j] = Word(slot, r, Stored(b) + j - 1)
    <3>1. SUFFICES ASSUME NEW j \in 1 .. Len(pipe')
                   PROVE  pipe'[j] = Word(slot, r, Stored(b) + j - 1)
      OBVIOUS
    <3>2. CASE j <= Len(pipe)
      BY <1>0, <2>9, <2>11, <3>2 DEF FromCard
    <3>3. CASE j = Len(pipe) + 1
      <4>1. Stored(b) + j - 1 = Arrived
        BY <1>0, <1>1, <2>10, <3>3
      <4> QED
        BY <2>9, <3>3, <4>1 DEF word
    <3> QED
      BY <1>0, <2>9, <3>2, <3>3
  <2>13. FromCard(slot, b, r)'
    BY <1>3, <2>2, <2>4, <2>11, <2>12 DEF FromCard, Word
  <2> QED
    BY <1>0, <1>1, <2>2, <2>3, <2>4, <2>7, <2>9, <2>10, <2>13
<1>8. CASE Dma
  <2>1. /\ pipe # <<>> /\ dmaAddress' = dmaAddress + 1 /\ pipe' = Tail(pipe)
        /\ memory' = [memory EXCEPT ![dmaAddress] = Head(pipe)]
        /\ UNCHANGED <<slot, sending, dataState, crcWrong, left>>
    BY <1>8 DEF Dma, card
  <2>2. /\ Len(pipe) >= 1 /\ Len(pipe') = Len(pipe) - 1 /\ Head(pipe) = pipe[1]
        /\ \A j \in 1 .. Len(pipe') : pipe'[j] = pipe[j + 1]
    BY <1>0, <2>1
  <2>3. Arrived' = Arrived /\ Arrived \in Int /\ Arrived <= BlockWords
    BY <1>0, <1>1, <2>1 DEF Arrived
  <2>4. Stored(b)' = Stored(b) + 1 /\ dmaAddress = AddressOf(b) + Stored(b)
    BY <1>0, <1>3, <2>1 DEF Stored
  <2>5. Stored(b) < BlockWords
    BY <1>0, <1>1, <2>2, <2>3
  <2>6. ASSUME NEW i \in 0 .. Stored(b)
        PROVE  AddressOf(b) + i \in Addresses
    <3>1. i \in 0 .. BlockWords /\ i < BlockWords
      BY <1>0, <1>1, <2>5
    <3> QED
      BY <3>1, BlockInside
  <2>7. ASSUME NEW c \in Cards, FromCard(c, b, r)
        PROVE  FromCard(c, b, r)'
    <3>1. ASSUME NEW i \in 0 .. Stored(b)
          PROVE  memory'[AddressOf(b) + i] = Word(c, r, i)
      <4>1. CASE i = Stored(b)
        <5>1. 1 \in 1 .. Len(pipe) /\ Stored(b) + 1 - 1 = i
          BY <1>0, <1>1, <2>2, <4>1
        <5>2. pipe[1] = Word(c, r, i)
          BY <2>7, <5>1 DEF FromCard
        <5>3. AddressOf(b) + i = dmaAddress /\ AddressOf(b) + i \in Addresses
          BY <2>4, <2>6, <4>1
        <5> QED
          BY <2>1, <2>2, <5>2, <5>3 DEF SdTypeOK
      <4>2. CASE i # Stored(b)
        <5>1. i \in 0 .. Stored(b) - 1 /\ AddressOf(b) + i # dmaAddress
          BY <1>0, <1>1, <2>4, <4>2
        <5>2. memory'[AddressOf(b) + i] = memory[AddressOf(b) + i]
          BY <2>1, <2>6, <5>1 DEF SdTypeOK
        <5> QED
          BY <2>7, <5>1, <5>2 DEF FromCard
      <4> QED
        BY <4>1, <4>2
    <3>2. ASSUME NEW j \in 1 .. Len(pipe')
          PROVE  pipe'[j] = Word(c, r, Stored(b)' + j - 1)
      <4>1. j + 1 \in 1 .. Len(pipe) /\ Stored(b) + (j + 1) - 1 = Stored(b)' + j - 1
        BY <1>0, <1>1, <2>2, <2>4
      <4> QED
        BY <2>2, <2>7, <4>1 DEF FromCard
    <3>3. \A i \in 0 .. Stored(b)' - 1 : i \in 0 .. Stored(b)
      BY <1>1, <2>4
    <3>4. \A i \in 0 .. Stored(b)' - 1 : memory'[AddressOf(b) + i] = Word(c, r, i)
      BY <3>1, <3>3
    <3>5. sending' # Nothing => slot' = c
      BY <2>1, <2>7 DEF FromCard
    <3> QED
      BY <1>3, <3>2, <3>4, <3>5 DEF FromCard, Word
  <2>8. Stored(b)' + Len(pipe') = Stored(b) + Len(pipe)
    BY <1>0, <1>1, <2>2, <2>4
  <2> QED
    BY <2>1, <2>3, <2>7, <2>8 DEF Clean
<1> QED
  BY <1>4, <1>5, <1>6, <1>7, <1>8 DEF Receiving


LEMMA ContentsHardware ==
    ASSUME SdTypeOK, DriverTypeOK, Turns, LockOwned, Buffers, CommandIInv, Transfers, Sending, Armed,
           Contents, Hardware \/ Slot
    PROVE  Contents'
<1> SUFFICES ASSUME NEW t \in Threads, Taken(t)', dataError' = {}
             PROVE  Clean(buf[t], req[t])'
  BY DEF Contents
<1>1. UNCHANGED <<pc, buf, req>> /\ pc \in [Threads -> Places]
  BY DEF Hardware, Slot, software, threadVars, readVars, DriverTypeOK
<1>2. pc[t] \in Fetch /\ Fetch \subseteq Holding /\ Fetch \subseteq Locked
  BY <1>1 DEF Taken, Fetch, Holding, Locked
<1>3. PICK b \in PoolOf : b = buf[t]
  BY <1>2, HolderHas
<1>4. PICK r \in Blocks : r = req[t]
  BY DEF DriverTypeOK
<1>5. SUFFICES Clean(b, r)'
  BY <1>1, <1>3, <1>4 DEF Clean, FromCard, Stored, AddressOf
<1>6. ASSUME Taken(t), dataError = {}
      PROVE  /\ Clean(b, r) /\ Progress(b)
             /\ sending # Nothing => sending = r /\ slot # Nothing
  BY <1>3, <1>4, <1>6 DEF Contents, Transfers, Sending
<1>7. ASSUME UNCHANGED <<cdc, dataPath, store>>, sending' = Nothing \/ UNCHANGED <<sending, slot>>
      PROVE  Clean(b, r)'
  <2>1. Taken(t) /\ dataError = {}
    BY <1>1, <1>7 DEF Taken, dataPath
  <2>2. Clean(b, r)
    BY <1>6, <2>1
  <2>3. \A c \in Cards : FromCard(c, b, r) => FromCard(c, b, r)'
    BY <1>7 DEF FromCard, Stored, AddressOf, Word, dataPath, store
  <2>4. Arrived' = Arrived /\ Stored(b)' = Stored(b)
    BY <1>7 DEF Arrived, Stored, AddressOf, dataPath, store
  <2> QED
    BY <1>7, <2>2, <2>3, <2>4 DEF Clean, dataPath
<1>8. ASSUME Ready(t), dataState' = "wait", pipe' = <<>>, dmaAddress' = dmaAddress
      PROVE  Clean(b, r)'
  <2>1. AddressOf(b) \in Nat /\ AddressOf(b)' = AddressOf(b)
    BY SdControllerAssumption DEF AddressOf, PoolOf
  <2>2. Stored(b)' = 0 /\ Len(pipe') = 0 /\ Arrived' = 0
    BY <1>3, <1>8, <2>1 DEF Ready, Stored, Arrived
  <2> QED
    BY <1>8, <2>2 DEF Clean
<1>9. CASE SlotStep
  BY <1>7, <1>9 DEF SlotStep, Insert, Remove, cmdPath, Sending
<1>10. CASE TakeCommand
  <2>1. cdc # Nothing /\ cdc.cmd # "params" /\ UNCHANGED <<pipe, dmaAddress>>
    BY <1>10 DEF TakeCommand, store
  <2>2. CASE run \in Threads /\ pc[run] = "cmd17?" /\ cdc = ReadCommand(run)
    <3>1. t = run
      BY <1>2, <2>2, OneFetches DEF Locked
    <3>2. Ready(t)
      BY <2>1, <2>2, <3>1 DEF Transfers, Preparing
    <3>3. dataState' = "wait" /\ pipe' = <<>>
      BY <1>10, <2>1, <2>2, <3>2 DEF TakeCommand, ReadCommand, Ready, Quiet
    <3> QED
      BY <1>8, <2>1, <3>2, <3>3
  <2>3. CASE "data" \notin cdc.flags /\ \A u \in Threads : pc[u] \notin {"cmd17", "cmd17?"}
    <3>1. UNCHANGED <<dataPath, store, sending, slot>>
      BY <1>10, <2>3 DEF TakeCommand, dataPath, card
    <3>2. Taken(t) /\ dataError = {}
      BY <1>2, <2>3, <3>1 DEF Taken, dataPath
    <3>3. Clean(b, r)
      BY <1>6, <3>2
    <3>4. \A c \in Cards : FromCard(c, b, r) => FromCard(c, b, r)'
      BY <3>1 DEF FromCard, Stored, AddressOf, Word, dataPath, store
    <3>5. Arrived' = Arrived /\ Stored(b)' = Stored(b)
      BY <3>1 DEF Arrived, Stored, AddressOf, dataPath, store
    <3> QED
      BY <3>1, <3>3, <3>4, <3>5 DEF Clean, dataPath
  <2> QED
    BY <2>1, <2>2, <2>3, TakesFor
<1>11. CASE TakeParams
  <2>1. run \in Threads /\ pc[run] = "cmd17"
    BY <1>11, TakesSize DEF TakeParams
  <2>2. pc[run] \in Locked /\ "cmd17" \notin Fetch
    BY <2>1 DEF Locked, Fetch
  <2> QED
    BY <1>2, <2>1, <2>2, OneFetches
<1>12. CASE CommandSent
  <2>1. /\ cmdState = "send" /\ UNCHANGED <<slot, cdc, dataPath, store>>
        /\ sending' \in {Nothing, sending} \/ command.cmd = "CMD17"
    BY <1>12 DEF CommandSent, CardHears
  <2>2. CASE sending' \in {Nothing, sending}
    BY <1>7, <2>1, <2>2
  <2>3. CASE command.cmd = "CMD17"
    <3>1. dataState = "wait"
      BY <2>1, <2>3 DEF Armed
    <3>2. Taken(t) /\ dataError = {}
      BY <1>1, <2>1 DEF Taken, dataPath
    <3>3. Clean(b, r)
      BY <1>6, <3>2
    <3>4. Arrived' = 0 /\ Arrived = 0 /\ Stored(b)' = Stored(b)
      BY <2>1, <3>1 DEF Arrived, Stored, AddressOf, dataPath, store
    <3> QED
      BY <2>1, <3>1, <3>3, <3>4 DEF Clean, dataPath
  <2> QED
    BY <2>1, <2>2, <2>3
<1>13. CASE ReplyReceived \/ ReplyTimeout
  BY <1>7, <1>13 DEF ReplyReceived, ReplyTimeout, card
<1>14. CASE Receiving \/ Dma
  <2>1. UNCHANGED cdc /\ dataError = {}
    BY <1>14 DEF Receiving, DataStart, DataTimeout, DataWord, DataEnd, Dma, cmdPath
  <2>2. Taken(t)
    BY <1>1, <2>1 DEF Taken
  <2> QED
    BY <1>6, <1>14, <2>1, <2>2, CleanStep
<1> QED
  BY <1>9, <1>10, <1>11, <1>12, <1>13, <1>14 DEF Hardware, Slot, SdStep, Commanding

LEMMA ContentsStep ==
    ASSUME SdTypeOK, DriverTypeOK, Turns, LockOwned, Buffers, CommandIInv, Transfers, Sending, Armed,
           Contents, DriverTypeOK', Buffers', HeldApart', [Next]_vars
    PROVE  Contents'
<1>1. CASE UNCHANGED <<sdVars, pc, readVars>>
  <2>1. \A c, b, r : FromCard(c, b, r) => FromCard(c, b, r)'
    BY <1>1 DEF sdVars, card, cmdPath, dataPath, store, readVars, FromCard, Stored, AddressOf, Word
  <2>2. \A b, r : Clean(b, r) => Clean(b, r)'
    BY <1>1, <2>1 DEF sdVars, cmdPath, dataPath, store, Clean, Arrived, Stored, AddressOf
  <2> QED
    BY <1>1, <2>2 DEF Contents, Taken, sdVars, cmdPath, dataPath, readVars
<1> QED
  BY <1>1, ContentsSoftware, ContentsHardware, StepKinds DEF vars, threadVars


-----------------------------------------------------------------------------
(* What a reader gets.                                                      *)

(* A thread keeps the block it has got, or what it kept before.             *)
LEMMA KeptFrom ==
    ASSUME DriverTypeOK, NEW t \in Threads, StepOf(t)
    PROVE  kept'[t] \in {kept[t], Nothing} \/ (pc[t] = "got" /\ kept'[t] = buf[t])
<1>0. "sd" \in Threads /\ "main" \in Threads /\ kept \in [Threads -> PoolOf \cup {Nothing}]
  BY DEF Threads, DriverTypeOK
<1>1. CASE kept' = kept
  BY <1>1
<1>2. CASE ReadStep(t)
  <2>1. CASE ReadBlock(t) \/ Lock(t) \/ WaitDataIdle(t) \/ Params(t) \/ Cmd17(t) \/ Cmd17Done(t)
    BY <1>1, <2>1 DEF ReadBlock, Lock, WaitDataIdle, IdleTest, IdleSleep, Params, Cmd17, Sends,
                      Cmd17Done, readVars
  <2>2. CASE Alloc(t) \/ Return(t) \/ Fail(t) \/ EmptyBlock(t)
    BY <1>1, <2>2 DEF Alloc, Return, Fail, EmptyBlock, readVars
  <2> QED
    BY <1>2, <2>1, <2>2 DEF ReadStep
<1>3. CASE t = "sd" /\ CardThread
  <2>1. CASE InitCard
    BY <1>1, <2>1, InitCardMoves DEF readVars
  <2>2. CASE Top \/ AwaitCard \/ AwaitRemoval \/ Settle \/ InitReturns \/ MbrRead
    BY <1>1, <2>2 DEF Top, AwaitCard, AwaitRemoval, Settle, InitReturns, MbrRead, readVars
  <2>3. CASE BootRead
    BY <1>0, <1>3, <2>3 DEF BootRead, At
  <2>4. CASE FatRead
    BY <1>0, <1>3, <2>4 DEF FatRead
  <2> QED
    BY <1>3, <2>1, <2>2, <2>3, <2>4 DEF CardThread
<1>4. CASE t = "main" /\ MainThread
  BY <1>0, <1>1, <1>4 DEF MainThread, FsTest, UseBlock, At
<1> QED
  BY <1>2, <1>3, <1>4 DEF StepOf

(* Only readBlock hands out a block, once the transfer is over.             *)
LEMMA GotFrom ==
    ASSUME DriverTypeOK, NEW t \in Threads, StepOf(t), pc'[t] = "got"
    PROVE  /\ pc[t] = "return" /\ dataError = {} /\ pipe = <<>>
           /\ UNCHANGED <<memory, buf, req>>
<1>0. pc \in [Threads -> Places]
  BY DEF DriverTypeOK
<1>1. ~Elsewhere(t)
  BY <1>0 DEF Elsewhere
<1>2. ~Fetching(t)
  BY <1>0 DEF Fetching, Fetch
<1>3. ~(Alloc(t) /\ free # {}) /\ ~Params(t) /\ ~Cmd17(t)
  BY <1>0 DEF Alloc, Params, Cmd17, Sends, Go
<1>4. ~Fail(t) /\ ~EmptyBlock(t)
  BY <1>0 DEF Fail, Unlock, EmptyBlock, At, threadVars
<1>5. Return(t) /\ dataError = {}
  BY <1>1, <1>2, <1>3, <1>4, StepTransfers
<1> QED
  BY <1>5 DEF Return, At, Drained, sdVars, store

LEMMA BlockIntactStep ==
    ASSUME SdTypeOK, DriverTypeOK, Turns, LockOwned, Buffers, HeldApart, Transfers, Received,
           Contents, BlockIntact, DriverTypeOK', Buffers', HeldApart', [Next]_vars
    PROVE  BlockIntact'
<1>0. /\ pc \in [Threads -> Places] /\ BlockWords \in Nat \ {0} /\ Nothing \notin PoolOf
      /\ buf \in [Threads -> PoolOf \cup {Nothing}] /\ kept \in [Threads -> PoolOf \cup {Nothing}]
      /\ buf' \in [Threads -> PoolOf \cup {Nothing}] /\ kept' \in [Threads -> PoolOf \cup {Nothing}]
  BY SdControllerAssumption, NothingAssumption DEF DriverTypeOK, PoolOf
<1>1. Fetch \subseteq Holding /\ "got" \in Holding /\ "got" \notin Fetch
  BY DEF Fetch, Holding
(* A block that a thread holds before and after, and does not read into.    *)
<1>2. ASSUME NEW u \in Threads, NEW b \in PoolOf, b \in HeldBy(u), b \in HeldBy(u)',
             Taken(u) => buf[u] # b
      PROVE  \A i \in 0 .. BlockWords - 1 : memory'[AddressOf(b) + i] = memory[AddressOf(b) + i]
  <2>1. b \notin free'
    BY <1>2 DEF HeldApart
  <2>2. ASSUME NEW v \in Threads, Taken(v), v # u
        PROVE  buf[v] # b
    <3>1. buf[v] \in HeldBy(v)
      BY <1>0, <1>1, <2>2, HolderHas DEF Taken, HeldBy
    <3>2. v = Other(u)
      BY <2>2, TwoThreads DEF Other, Threads
    <3> QED
      BY <1>2, <3>1, <3>2 DEF HeldApart
  <2> QED
    BY <1>2, <2>1, <2>2, WordsKept
<1>3. ASSUME NEW u \in Threads, pc'[u] = "got"
      PROVE  \E c \in Cards : \A i \in 0 .. BlockWords - 1 :
                 memory'[AddressOf(buf'[u]) + i] = Word(c, req'[u], i)
  <2>1. CASE \E t \in Threads : StepOf(t)
    <3>1. PICK t \in Threads : StepOf(t)
      BY <2>1
    <3>2. u = t
      BY <1>3, <3>1, OtherRests DEF Rests
    <3>3. /\ pc[u] = "return" /\ dataError = {} /\ pipe = <<>> /\ dataState = "idle"
          /\ UNCHANGED <<memory, buf, req>>
      BY <1>3, <3>1, <3>2, GotFrom DEF Received
    <3>4. Taken(u)
      BY <3>3 DEF Taken, Fetch
    <3>5. PICK b \in PoolOf : b = buf[u]
      BY <1>1, <3>4, HolderHas DEF Taken
    <3>6. Clean(b, req[u]) /\ Progress(b)
      BY <3>3, <3>4, <3>5 DEF Contents, Transfers
    <3>7. ~crcWrong /\ Arrived = BlockWords /\ Len(pipe) = 0
      BY <3>3, <3>6 DEF Clean, Arrived
    <3>8. Stored(b) = BlockWords
      BY <1>0, <3>6, <3>7 DEF Clean, Progress
    <3>9. PICK c \in Cards : FromCard(c, b, req[u])
      BY <1>0, <3>6, <3>7 DEF Clean
    <3> QED
      BY <3>3, <3>5, <3>8, <3>9 DEF FromCard
  <2>2. CASE UNCHANGED <<pc, buf, kept, req>>
    <3>1. PICK b \in PoolOf : b = buf[u]
      BY <1>1, <1>3, <2>2, HolderHas
    <3>2. b \in HeldBy(u) /\ b \in HeldBy(u)' /\ ~Taken(u)
      BY <1>0, <1>1, <1>3, <2>2, <3>1 DEF HeldBy, Taken
    <3>3. \A i \in 0 .. BlockWords - 1 : memory'[AddressOf(b) + i] = memory[AddressOf(b) + i]
      BY <1>2, <3>2
    <3>4. PICK c \in Cards : \A i \in 0 .. BlockWords - 1 :
                memory[AddressOf(b) + i] = Word(c, req[u], i)
      BY <1>3, <2>2, <3>1 DEF BlockIntact
    <3> QED
      BY <2>2, <3>1, <3>3, <3>4
  <2> QED
    BY <2>1, <2>2, StepKinds DEF Hardware, Slot, software, vars, threadVars, readVars
<1>4. ASSUME NEW u \in Threads, kept'[u] # Nothing
      PROVE  \E c \in Cards, n \in Blocks : \A i \in 0 .. BlockWords - 1 :
                 memory'[AddressOf(kept'[u]) + i] = Word(c, n, i)
  <2>1. kept'[u] = kept[u] \/ (pc[u] = "got" /\ kept'[u] = buf[u])
    <3>1. CASE \E t \in Threads : StepOf(t)
      BY <1>4, <3>1, KeptFrom, OtherRests
    <3> QED
      BY <3>1, StepKinds DEF Hardware, Slot, software, vars, readVars
  <2>2. PICK b \in PoolOf : b = kept'[u]
    BY <1>0, <1>4
  <2>3. b \in HeldBy(u) /\ b \in HeldBy(u)' /\ (Taken(u) => buf[u] # b)
    <3>1. b \in HeldBy(u) /\ b \in HeldBy(u)'
      BY <1>0, <2>1, <2>2 DEF HeldBy
    <3>2. Taken(u) => buf[u] # Nothing
      BY <1>1 DEF Taken, Buffers
    <3>3. Taken(u) => buf[u] # kept[u]
      BY <3>2 DEF HeldApart
    <3> QED
      BY <1>1, <2>1, <2>2, <3>1, <3>3 DEF Taken
  <2>4. \A i \in 0 .. BlockWords - 1 : memory'[AddressOf(b) + i] = memory[AddressOf(b) + i]
    BY <1>2, <2>3
  <2>5. \E c \in Cards, n \in Blocks : \A i \in 0 .. BlockWords - 1 :
            memory[AddressOf(b) + i] = Word(c, n, i)
    <3>1. CASE kept'[u] = kept[u]
      BY <1>4, <2>2, <3>1 DEF BlockIntact
    <3>2. CASE pc[u] = "got" /\ kept'[u] = buf[u]
      <4>1. req[u] \in Blocks
        BY DEF DriverTypeOK
      <4> QED
        BY <2>2, <3>2, <4>1 DEF BlockIntact
    <3> QED
      BY <2>1, <3>1, <3>2
  <2> QED
    BY <2>2, <2>4, <2>5
<1> QED
  BY <1>3, <1>4 DEF BlockIntact, AddressOf, Word

-----------------------------------------------------------------------------
(* The driver, its controller and the card together.                        *)

SdIInv ==
    /\ TypeOK
    /\ DriverIInv
    /\ CommandIInv
    /\ Transfers /\ Received
    /\ Sending /\ Armed
    /\ Contents
    /\ BlockIntact

LEMMA Initially == Init => SdIInv
<1> SUFFICES ASSUME Init
             PROVE  SdIInv
  OBVIOUS
<1>1. /\ BlockWords \in Nat \ {0} /\ PoolBlocks \in Nat \ {0} /\ CounterSpan \in Nat \ {0}
      /\ PipelineLength \in Nat \ {0} /\ 0 \in Blocks /\ Retries \in Nat
      /\ Nothing \notin Cards
  BY SdControllerAssumption, SdCardAssumption
<1>2. SdTypeOK
  <2>1. 0 \in 0 .. CounterSpan - 1
    BY <1>1
  <2>2. <<>> \in Seq(Words) /\ Len(<<>>) <= PipelineLength
    BY <1>1
  <2>3. Plain \in Replies /\ Junk \in Words
    BY DEF Plain, Replies, Words
  <2>4. PoolBlocks * BlockWords \in Nat \ {0}
    BY <1>1
  <2>5. 0 \in Addresses
    BY <2>4 DEF Addresses
  <2> QED
    BY <2>1, <2>2, <2>3, <2>5 DEF Init, SdInit, SdTypeOK
<1>3. DriverTypeOK
  <2>1. 0 \in 0 .. Retries
    BY <1>1
  <2>2. "top" \in Places /\ "fs?" \in Places /\ "no" \in Reasons
    BY DEF Places, Reasons
  <2> QED
    BY <1>1, <2>1, <2>2 DEF Init, DriverTypeOK, Threads
<1>4. \A t \in Threads : /\ pc[t] = (IF t = "sd" THEN "top" ELSE "fs?")
                         /\ blocked[t] = "no" /\ buf[t] = Nothing /\ kept[t] = Nothing
  BY DEF Init
<1>5. Turns
  BY <1>4 DEF Init, Turns, PlacesOf, ReadPlaces, Places, Rests, Threads
<1>6. LockOwned /\ Buffers /\ Polarised
  BY <1>4 DEF Init, LockOwned, Buffers, Polarised, Locked, Holding, ReadPlaces, Reading, Threads
<1>7. HeldApart
  <2>1. HeldBy("sd") = {} /\ HeldBy("main") = {} /\ \A t \in Threads : HeldBy(t) = {}
    BY <1>4 DEF HeldBy, Threads
  <2> QED
    BY <1>4, <2>1 DEF Init, HeldApart
<1>8. NoLostWakeup
  BY <1>4 DEF NoLostWakeup, Threads
<1>9. CommandIInv
  BY DEF Init, SdInit, CommandIInv, Crossing, Answering, Awaited
<1>10. \A t \in Threads : ~Taken(t)
  BY <1>4 DEF Taken, Fetch
<1>11. Transfers /\ Received
  BY <1>4, <1>10 DEF Init, SdInit, Transfers, Preparing, Received, Quiet
<1>12. Sending /\ Armed /\ Contents
  BY <1>10 DEF Init, SdInit, Sending, Armed, Contents
<1>13. BlockIntact
  BY <1>4 DEF BlockIntact
<1> QED
  BY <1>2, <1>3, <1>5, <1>6, <1>7, <1>8, <1>9, <1>11, <1>12, <1>13 DEF SdIInv, TypeOK, DriverIInv

LEMMA SdIInvStep ==
    ASSUME SdIInv, [Next]_vars
    PROVE  SdIInv'
<1>1. /\ SdTypeOK /\ DriverTypeOK /\ Turns /\ LockOwned /\ Buffers /\ HeldApart /\ Polarised
      /\ NoLostWakeup /\ CommandIInv /\ Transfers /\ Received /\ Sending /\ Armed /\ Contents
      /\ BlockIntact /\ TypeOK
  BY DEF SdIInv, DriverIInv, TypeOK
<1>2. DriverTypeOK'
  BY <1>1, DriverTypesStep
<1>3. Turns' /\ LockOwned' /\ Buffers'
  BY <1>1, TurnsStep, LockOwnedStep, BuffersStep
<1>4. HeldApart' /\ Polarised' /\ NoLostWakeup'
  BY <1>1, HeldApartStep, PolarisedStep, NoLostWakeupStep
<1>5. CommandIInv'
  BY <1>1, CommandStep
<1>6. Transfers' /\ Received' /\ Sending' /\ Armed'
  BY <1>1, TransfersStep, SendingStep
<1>7. SdTypeOK'
  BY <1>1, SdTypesStep
<1>8. Contents' /\ BlockIntact'
  BY <1>1, <1>2, <1>3, <1>4, ContentsStep, BlockIntactStep
<1> QED
  BY <1>2, <1>3, <1>4, <1>5, <1>6, <1>7, <1>8 DEF SdIInv, TypeOK, DriverIInv

(* In every behaviour, whatever happens to the card, the variables have     *)
(* their types, and the driver and the controller agree about the command   *)
(* that is sent, the block that is read, and how far it is (sd.cpp, sd.sv). *)
THEOREM Invariance == Spec => []SdIInv
<1>1. Init => SdIInv
  BY Initially
<1>2. SdIInv /\ [Next]_vars => SdIInv'
  BY SdIInvStep
<1> QED
  BY <1>1, <1>2, PTL DEF Spec

(* A block that readBlock returns without an error is the one asked for,    *)
(* all of it and of one card, and stays so while somebody holds it, for     *)
(* every size of block, pipeline, counter and pool (sd.cpp:180).            *)
THEOREM BlocksReadWhole == Spec => []BlockIntact
<1>1. SdIInv => BlockIntact
  BY DEF SdIInv
<1> QED
  BY <1>1, Invariance, PTL

(* No way out of a read loses a block of the pool or gives it to two        *)
(* (pool.h:105, sd.cpp:221).                                                *)
THEOREM BlocksNeverLost == Spec => []BlocksAccounted
<1>1. SdIInv => BlocksAccounted
  BY ApartAccounted DEF SdIInv, DriverIInv
<1> QED
  BY <1>1, Invariance, PTL

(* No word is written over the command whose reply is still to come         *)
(* (sd.sv:402, 450).                                                        *)
THEOREM RepliesUnspoilt == Spec => []RepliesWhole
<1>1. SdIInv => RepliesWhole
  BY CommandsWhole DEF SdIInv
<1> QED
  BY <1>1, Invariance, PTL

(* No thread sleeps for an interrupt that is masked or for a file system    *)
(* that is there, and as long as wakeOneThread has not cleared the wait     *)
(* list of _dataLock (saros.cpp:39) none sleeps for a free lock.            *)
THEOREM SleepersHear == Spec => []NoLostWakeup
<1>1. SdIInv => NoLostWakeup
  BY DEF SdIInv, DriverIInv
<1> QED
  BY <1>1, Invariance, PTL

(* The card thread falls asleep with the polarity set for a change from the *)
(* state of the slot that it has seen (sd.cpp:497, 509).                    *)
THEOREM NoChangeMissed == Spec => ChangesNoticed
<1>1. SdIInv /\ [Next]_vars =>
        (blocked["sd"] # "status" /\ blocked'["sd"] = "status" =>
           (InsertLine' <=> (slot' # Nothing) = (pc["sd"] = "removed")))
  BY ChangesNoticedStep DEF SdIInv, DriverIInv
<1>2. SdIInv /\ [Next]_vars =>
        [blocked["sd"] # "status" /\ blocked'["sd"] = "status" =>
           (InsertLine' <=> (slot' # Nothing) = (pc["sd"] = "removed"))]_vars
  BY <1>1
<1> QED
  BY <1>2, Invariance, PTL DEF Spec, ChangesNoticed

(* The DMA writes into the block of the thread that owns _dataLock, as long *)
(* as no read has failed (sd.cpp:220).                                      *)
THEOREM DmaStaysInside == Spec => DmaOwned
<1> DEFINE Owned == \A a \in Addresses :
                        memory'[a] \notin {memory[a], Junk} =>
                            \E t \in Threads :
                                \/ lock = t /\ buf[t] = a \div BlockWords
                                \/ pc[t] = "empty"
<1>1. SdIInv /\ [Next]_vars => Owned
  BY DmaOwnedStep DEF SdIInv, TypeOK, DriverIInv
<1>2. SdIInv /\ [Next]_vars => [Owned]_vars
  BY <1>1
<1> HIDE DEF Owned
<1>3. Spec => [][Owned]_vars
  BY <1>2, Invariance, PTL DEF Spec
<1> QED
  BY <1>3 DEF DmaOwned, Owned


=============================================================================
