------------------------------- MODULE SdCard -------------------------------
(***************************************************************************)
(* The SD card driver, saros/saros/sd.cpp, its thread, and a thread that    *)
(* reads the file system the driver mounts (main.cpp:77).                   *)
(*                                                                         *)
(* Both threads have one priority, so one runs until it sleeps: for the     *)
(* card, its data, a lock or time.  In between only the card, its           *)
(* controller and interrupts move: uart_send waits without sleeping.        *)
(***************************************************************************)
EXTENDS SdController, FiniteSets

CONSTANTS
    FatCards,   \* the cards with a FAT32 partition
    Retries     \* SendOpTimeoutSplit

ASSUME SdCardAssumption ==
    /\ FatCards \subseteq Cards
    /\ Retries \in Nat \ {0}
    /\ 1 \in Blocks

VARIABLES
    run,            \* the thread that has the hart, or "idle"
    blocked,        \* what each thread sleeps for, or "no"
    pc,
    mie,            \* mstatus.MIE
    panic,          \* the assertion that has stopped the machine, or "no"
    insertMasked, dataMasked,   \* two bits of irq_masked
    polarity,       \* GPO0__SD_CARD_POLARITY: interrupt when a card is in
    initialised,    \* _cardType is not Uninit
    cardAddr,       \* _cardAddr
    numBlocks,      \* _numBlocks
    tries,          \* how often the loop in initCard has asked, 0 before it
    lock,           \* who owns _dataLock, or "none"
    lockBroken,     \* the second pop of its unlock has cleared its list
    free,           \* _blocksPool
    req, buf,       \* the block each thread reads, and into which block
    kept,           \* the block a thread still holds from before
    step,           \* what the card thread reads: "mbr", "boot" or "fat"
    fs              \* the card whose file system is mounted, or Nothing

threadVars == <<run, blocked, pc, mie>>
irqVars == <<insertMasked, dataMasked, polarity>>
driverVars == <<initialised, cardAddr, numBlocks, tries>>
lockVars == <<lock, lockBroken>>
readVars == <<lockVars, free, req, buf, kept>>
mountVars == <<step, fs>>
vars == <<sdVars, threadVars, panic, irqVars, driverVars, readVars, mountVars>>

Threads == {"sd", "main"}

PoolOf == 0 .. PoolBlocks - 1

(* "lost" is asleep on a list that has lost its header.                     *)
Reasons == {"no", "timer", "status", "data", "lock", "lost", "fs"}

Reading == {"read", "lock", "idle1?", "idle1 sleep", "alloc", "params", "cmd17", "cmd17?",
            "idle2?", "idle2 sleep", "return"}

Places ==
    Reading \cup {"fail", "empty", "got"}
    \cup {"top", "cmd0", "cmd8", "cmd8?", "app", "app?", "app2", "app2?", "acmd41", "acmd41?",
          "cmd2", "cmd2?", "cmd3", "cmd3?", "cmd9", "cmd9?", "cmd7", "cmd7?", "failed",
          "ready", "settle", "settled", "removed"}
    \cup {"fs?"}

DriverTypeOK ==
    /\ run \in Threads \cup {"idle"}
    /\ blocked \in [Threads -> Reasons]
    /\ pc \in [Threads -> Places]
    /\ mie \in BOOLEAN
    /\ panic \in {"no", "EmptyPool", "ForeignFree", "NullBlock"}
    /\ insertMasked \in BOOLEAN /\ dataMasked \in BOOLEAN /\ polarity \in BOOLEAN
    /\ initialised \in BOOLEAN
    /\ cardAddr \in Cards \cup {Nothing}
    /\ numBlocks \in {0, Cardinality(Blocks)}
    /\ tries \in 0 .. Retries
    /\ lock \in Threads \cup {"none"}
    /\ lockBroken \in BOOLEAN
    /\ free \subseteq PoolOf
    /\ req \in [Threads -> Blocks]
    /\ buf \in [Threads -> PoolOf \cup {Nothing}]
    /\ kept \in [Threads -> PoolOf \cup {Nothing}]
    /\ step \in {"mbr", "boot", "fat"}
    /\ fs \in Cards \cup {Nothing}

TypeOK == SdTypeOK /\ DriverTypeOK

(* SD::init has created the card thread, and main goes on.                  *)
Init ==
    /\ SdInit
    /\ run = "main"
    /\ blocked = [t \in Threads |-> "no"]
    /\ pc = [t \in Threads |-> IF t = "sd" THEN "top" ELSE "fs?"]
    /\ mie = TRUE
    /\ panic = "no"
    /\ insertMasked = TRUE /\ dataMasked = TRUE /\ polarity = TRUE
    /\ initialised = FALSE
    /\ cardAddr = Nothing
    /\ numBlocks = 0
    /\ tries = 0
    /\ lock = "none"
    /\ lockBroken = FALSE
    /\ free = PoolOf
    /\ req = [t \in Threads |-> 0]
    /\ buf = [t \in Threads |-> Nothing]
    /\ kept = [t \in Threads |-> Nothing]
    /\ step = "mbr"
    /\ fs = Nothing

-----------------------------------------------------------------------------
(* Threads.                                                                 *)

At(t, place) == panic = "no" /\ run = t /\ pc[t] = place

Other(t) == IF t = "sd" THEN "main" ELSE "sd"

Go(t, place) == pc' = [pc EXCEPT ![t] = place] /\ UNCHANGED <<run, blocked, mie>>

(* The thread that is switched in has interrupts on.                        *)
Sleep(t, reason, place) ==
    /\ pc' = [pc EXCEPT ![t] = place]
    /\ blocked' = [blocked EXCEPT ![t] = reason]
    /\ run' = IF blocked[Other(t)] = "no" THEN Other(t) ELSE "idle"
    /\ mie' = TRUE

WakeUp(reason) ==
    LET woken == {t \in Threads : blocked[t] = reason}
    IN /\ blocked' = [t \in Threads |-> IF t \in woken THEN "no" ELSE blocked[t]]
       /\ run' = IF run = "idle" /\ woken # {} THEN CHOOSE t \in woken : TRUE ELSE run

(* The interrupt of the timer. *)
TimerIrq ==
    /\ panic = "no" /\ mie
    /\ WakeUp("timer")
    /\ blocked' # blocked
    /\ UNCHANGED <<sdVars, pc, mie, panic, irqVars, driverVars, readVars, mountVars>>

(* The line is high when the card detect differs from the polarity.         *)
InsertLine == polarity = (slot # Nothing)

(* SD::irq_handler_insert. *)
InsertIrq ==
    /\ panic = "no" /\ mie
    /\ InsertLine /\ ~insertMasked
    /\ insertMasked' = TRUE
    /\ WakeUp("status")
    /\ UNCHANGED <<sdVars, pc, mie, panic, dataMasked, polarity, driverVars, readVars, mountVars>>

(* SD::irq_handler_data. *)
DataIrq ==
    /\ panic = "no" /\ mie
    /\ dataState = "idle" /\ ~dataMasked
    /\ dataMasked' = TRUE
    /\ WakeUp("data")
    /\ UNCHANGED <<sdVars, pc, mie, panic, insertMasked, polarity, driverVars, readVars,
                   mountVars>>

-----------------------------------------------------------------------------
(* Commands.  While it waits for a reply a thread reads the status register *)
(* over and over.                                                           *)

Flags(name) ==
    CASE name = "CMD0" -> {}
      [] name \in {"CMD2", "CMD9"} -> {"reply", "long"}
      [] name = "CMD17" -> {"reply", "data"}
      [] OTHER -> {"reply"}

Sends(t, from, name, argument, to) ==
    /\ At(t, from)
    /\ WriteCommand(name, argument, Flags(name))
    /\ Go(t, to)
    /\ UNCHANGED <<panic, irqVars, driverVars, readVars, mountVars>>

Done(t, from) == At(t, from) /\ Accessible /\ ~cmdBusy

IsError == cmdError # {}

-----------------------------------------------------------------------------
(* SD::initCard.                                                            *)

Cmd0 == Sends("sd", "cmd0", "CMD0", 0, "cmd8")
Cmd8 == Sends("sd", "cmd8", "CMD8", 0, "cmd8?")
AppCmd == Sends("sd", "app", "CMD55", 0, "app?")
AppCmdAgain == Sends("sd", "app2", "CMD55", 0, "app2?")
Acmd41 == Sends("sd", "acmd41", "ACMD41", 0, "acmd41?")
Cmd2 == Sends("sd", "cmd2", "CMD2", 0, "cmd2?")
Cmd3 == Sends("sd", "cmd3", "CMD3", 0, "cmd3?")
Cmd9 == Sends("sd", "cmd9", "CMD9", cardAddr, "cmd9?")
Cmd7 == Sends("sd", "cmd7", "CMD7", cardAddr, "cmd7?")

(* A card that does not know CMD8 is the kind that is supported.            *)
Cmd8Done ==
    /\ Done("sd", "cmd8?")
    /\ IF "timeout" \in cmdError THEN Go("sd", "app") ELSE Go("sd", "failed")
    /\ tries' = 0
    /\ UNCHANGED <<sdVars, panic, irqVars, initialised, cardAddr, numBlocks, readVars, mountVars>>

AppCmdDone ==
    /\ Done("sd", "app?")
    /\ IF ~IsError /\ lastReply.app THEN Go("sd", "acmd41") ELSE Go("sd", "app2")
    /\ UNCHANGED <<sdVars, panic, irqVars, driverVars, readVars, mountVars>>

(* What follows ACMD41, of which the first call only looks for a timeout    *)
(* and the loop only at the reply.                                          *)
Asked(timeout, ready) ==
    /\ \/ /\ tries = 0 /\ timeout
          /\ Go("sd", "failed")
          /\ tries' = tries
       \/ /\ tries > 0 /\ ready
          /\ Go("sd", "cmd2")
          /\ tries' = tries
       \/ /\ tries = Retries /\ ~ready
          /\ Go("sd", "failed")
          /\ tries' = tries
       \/ /\ IF tries = 0 THEN ~timeout ELSE tries < Retries /\ ~ready
          /\ Sleep("sd", "timer", "app")
          /\ tries' = tries + 1
    /\ UNCHANGED <<sdVars, panic, irqVars, initialised, cardAddr, numBlocks, readVars, mountVars>>

(* The second attempt is judged by its reply alone, even if there was none. *)
AppCmdAgainDone ==
    /\ Done("sd", "app2?")
    /\ IF lastReply.app
       THEN /\ Go("sd", "acmd41")
            /\ UNCHANGED <<sdVars, panic, irqVars, driverVars, readVars, mountVars>>
       ELSE Asked(FALSE, FALSE)

Acmd41Done ==
    /\ Done("sd", "acmd41?")
    /\ Asked("timeout" \in cmdError, lastReply.ready)

(* Its status is not looked at. *)
Cmd2Done ==
    /\ Done("sd", "cmd2?")
    /\ Go("sd", "cmd3")
    /\ UNCHANGED <<sdVars, panic, irqVars, driverVars, readVars, mountVars>>

Cmd3Done ==
    /\ Done("sd", "cmd3?")
    /\ \/ /\ IsError
          /\ Go("sd", "failed")
          /\ cardAddr' = cardAddr
       \/ /\ ~IsError
          /\ Go("sd", "cmd9")
          /\ cardAddr' = lastReply.addr
    /\ UNCHANGED <<sdVars, panic, irqVars, initialised, numBlocks, tries, readVars, mountVars>>

(* A card with a csdStructure of 0 tells its size, and may have blocks of   *)
(* another one.  With another structure the code takes the block size it    *)
(* knows and the number of blocks of the card before, or none.              *)
Cmd9Done ==
    /\ Done("sd", "cmd9?")
    /\ \/ /\ IsError
          /\ Go("sd", "failed")
          /\ numBlocks' = numBlocks
       \/ /\ ~IsError
          /\ Go("sd", "cmd7") \/ Go("sd", "failed")
          /\ numBlocks' = Cardinality(Blocks)
       \/ /\ ~IsError
          /\ Go("sd", "cmd7")
          /\ numBlocks' = numBlocks
    /\ UNCHANGED <<sdVars, panic, irqVars, initialised, cardAddr, tries, readVars, mountVars>>

Cmd7Done ==
    /\ Done("sd", "cmd7?")
    /\ IF IsError THEN Go("sd", "failed") ELSE Go("sd", "ready")
    /\ initialised' = (initialised \/ ~IsError)
    /\ UNCHANGED <<sdVars, panic, irqVars, cardAddr, numBlocks, tries, readVars, mountVars>>

InitCard ==
    \/ Cmd0 \/ Cmd8 \/ Cmd8Done
    \/ AppCmd \/ AppCmdDone \/ AppCmdAgain \/ AppCmdAgainDone \/ Acmd41 \/ Acmd41Done
    \/ Cmd2 \/ Cmd2Done \/ Cmd3 \/ Cmd3Done \/ Cmd9 \/ Cmd9Done \/ Cmd7 \/ Cmd7Done

-----------------------------------------------------------------------------
(* SD::readBlock.                                                           *)

AddressOf(b) == b * BlockWords

(* A block on the free list holds nothing one may rely on.                  *)
Freed(blocks) ==
    [a \in Addresses |-> IF a \div BlockWords \in blocks THEN Junk ELSE memory[a]]

ReadBlock(t) ==
    /\ At(t, "read")
    /\ IF initialised /\ req[t] < numBlocks THEN Go(t, "lock") ELSE Go(t, "empty")
    /\ UNCHANGED <<sdVars, panic, irqVars, driverVars, readVars, mountVars>>

Lock(t) ==
    /\ At(t, "lock")
    /\ IF lock = "none" THEN lock' = t /\ Go(t, "idle1?")
       ELSE lock' = lock /\ Sleep(t, IF lockBroken THEN "lost" ELSE "lock", "lock")
    /\ UNCHANGED <<sdVars, panic, irqVars, driverVars, lockBroken, free, req, buf, kept,
                   mountVars>>

(* SD::waitDataIdle tests with interrupts off, and leaves them off if it is *)
(* going to sleep.                                                          *)
IdleTest(t, place, sleep, next) ==
    /\ At(t, place)
    /\ pc' = [pc EXCEPT ![t] = IF dataState = "idle" THEN next ELSE sleep]
    /\ mie' = (dataState = "idle")
    /\ UNCHANGED <<sdVars, run, blocked, panic, irqVars, driverVars, readVars, mountVars>>

(* Mutation: the interrupt stays masked. *)
IdleSleepMasked(t, sleep, place) ==
    /\ At(t, sleep)
    /\ Sleep(t, "data", place)
    /\ UNCHANGED <<sdVars, panic, irqVars, driverVars, readVars, mountVars>>

IdleSleep(t, sleep, place) ==
    /\ At(t, sleep)
    /\ dataMasked' = FALSE
    /\ Sleep(t, "data", place)
    /\ UNCHANGED <<sdVars, panic, insertMasked, polarity, driverVars, readVars, mountVars>>

WaitDataIdle(t) ==
    \/ IdleTest(t, "idle1?", "idle1 sleep", "alloc")
    \/ IdleSleep(t, "idle1 sleep", "idle1?")
    \/ IdleTest(t, "idle2?", "idle2 sleep", "return")
    \/ IdleSleep(t, "idle2 sleep", "idle2?")

(* The way here from the last look at the status takes the hart longer than *)
(* it takes the DMA to store the few words still in the pipeline.           *)
Drained == pipe = <<>>

Alloc(t) ==
    /\ At(t, "alloc")
    /\ Accessible /\ Drained
    /\ \/ /\ free = {}
          /\ panic' = "EmptyPool"
          /\ UNCHANGED <<threadVars, free, buf, dmaAddress>>
       \/ \E b \in free :
          /\ \A other \in free : b <= other
          /\ free' = free \ {b}
          /\ buf' = [buf EXCEPT ![t] = b]
          /\ dmaAddress' = AddressOf(b)
          /\ Go(t, "params")
          /\ panic' = panic
    /\ UNCHANGED <<card, cmdPath, dataPath, memory, irqVars, driverVars, lockVars, req, kept,
                   mountVars>>

Params(t) ==
    /\ At(t, "params")
    /\ WriteParams(BlockWords)
    /\ Go(t, "cmd17")
    /\ UNCHANGED <<panic, irqVars, driverVars, readVars, mountVars>>

Cmd17(t) == Sends(t, "cmd17", "CMD17", req[t], "cmd17?")

(* Mutation: the block is returned while it is read. *)
Cmd17DoneEarly(t) ==
    /\ Done(t, "cmd17?")
    /\ IF IsError THEN Go(t, "fail") ELSE Go(t, "return")
    /\ UNCHANGED <<sdVars, panic, irqVars, driverVars, readVars, mountVars>>

Cmd17Done(t) ==
    /\ Done(t, "cmd17?")
    /\ IF IsError THEN Go(t, "fail") ELSE Go(t, "idle2?")
    /\ UNCHANGED <<sdVars, panic, irqVars, driverVars, readVars, mountVars>>

(* Mutex::unlock wakes the only waiter there can be, and wakeOneThread then *)
(* pops the list it has left empty, which may clear its header.             *)
Unlock(t, place) ==
    /\ lock' = "none"
    /\ WakeUp("lock")
    /\ lockBroken' \in {lockBroken, lockBroken \/ \E u \in Threads : blocked[u] = "lock"}
    /\ pc' = [pc EXCEPT ![t] = place]
    /\ mie' = mie

Return(t) ==
    /\ At(t, "return")
    /\ Drained
    /\ IF dataError = {} THEN Unlock(t, "got")
       ELSE UNCHANGED lockVars /\ Go(t, "fail")
    /\ UNCHANGED <<sdVars, panic, irqVars, driverVars, free, req, buf, kept, mountVars>>

(* Mutation: the block is not given back. *)
FailLeaks(t) ==
    /\ At(t, "fail")
    /\ buf' = [buf EXCEPT ![t] = Nothing]
    /\ Unlock(t, "empty")
    /\ UNCHANGED <<sdVars, panic, irqVars, driverVars, free, req, kept, mountVars>>

(* An empty pointer is returned, and the block is freed.                    *)
Fail(t) ==
    /\ At(t, "fail")
    /\ free' = free \cup {buf[t]}
    /\ buf' = [buf EXCEPT ![t] = Nothing]
    /\ memory' = Freed({buf[t]})
    /\ Unlock(t, "empty")
    /\ UNCHANGED <<card, cmdPath, dataPath, dmaAddress, panic, irqVars, driverVars, req, kept,
                   mountVars>>

(* PartitionTable lets the pointer go, and ~Ptr frees a null pointer, which *)
(* PoolAllocator::free takes for another pool's.  Everybody else looks into *)
(* the block at once.                                                       *)
EmptyBlock(t) ==
    /\ At(t, "empty")
    /\ panic' = IF t = "sd" /\ step = "mbr" THEN "ForeignFree" ELSE "NullBlock"
    /\ UNCHANGED <<sdVars, threadVars, irqVars, driverVars, readVars, mountVars>>

ReadStep(t) ==
    \/ ReadBlock(t) \/ Lock(t) \/ WaitDataIdle(t) \/ Alloc(t) \/ Params(t) \/ Cmd17(t)
    \/ Cmd17Done(t) \/ Return(t) \/ Fail(t) \/ EmptyBlock(t)

-----------------------------------------------------------------------------
(* SD::threadMain.                                                          *)

(* Mutation: the polarity is forgotten. *)
TopUnpolarised ==
    /\ At("sd", "top")
    /\ IF slot # Nothing
       THEN insertMasked' = TRUE /\ Go("sd", "cmd0")
       ELSE insertMasked' = insertMasked /\ Go("sd", "removed")
    /\ UNCHANGED <<sdVars, panic, dataMasked, polarity, driverVars, readVars, mountVars>>

Top ==
    /\ At("sd", "top")
    /\ IF slot # Nothing
       THEN /\ insertMasked' = TRUE
            /\ polarity' = FALSE
            /\ Go("sd", "cmd0")
       ELSE /\ UNCHANGED <<insertMasked, polarity>>
            /\ Go("sd", "removed")
    /\ UNCHANGED <<sdVars, panic, dataMasked, driverVars, readVars, mountVars>>

(* With interrupts off. *)
AwaitCard ==
    /\ At("sd", "removed")
    /\ polarity' = TRUE
    /\ insertMasked' = FALSE
    /\ Sleep("sd", "status", "top")
    /\ UNCHANGED <<sdVars, panic, dataMasked, driverVars, readVars, mountVars>>

(* The operator bool of sd tells whether a card has ever been initialised.  *)
InitReturns ==
    /\ At("sd", "ready") \/ At("sd", "failed")
    /\ \/ ~initialised /\ Sleep("sd", "timer", "top") /\ UNCHANGED <<req, step>>
       \/ initialised /\ slot = Nothing /\ Go("sd", "top") /\ UNCHANGED <<req, step>>
       \/ /\ initialised /\ slot # Nothing
          /\ req' = [req EXCEPT !["sd"] = 0]
          /\ step' = "mbr"
          /\ Go("sd", "read")
    /\ UNCHANGED <<sdVars, panic, irqVars, driverVars, lockVars, free, buf, kept, fs>>

ReadFrom(b) == {c \in Cards : \E n \in Blocks : memory[AddressOf(b)] = Word(c, n, 0)}

(* PartitionTable frees its block before the partitions are looked at.      *)
MbrRead ==
    /\ At("sd", "got") /\ step = "mbr"
    /\ free' = free \cup {buf["sd"]}
    /\ buf' = [buf EXCEPT !["sd"] = Nothing]
    /\ memory' = Freed({buf["sd"]})
    /\ IF fs = Nothing /\ ReadFrom(buf["sd"]) \cap FatCards # {}
       THEN /\ req' = [req EXCEPT !["sd"] = 1]
            /\ step' = "boot"
            /\ Go("sd", "read")
       ELSE /\ UNCHANGED <<req, step>>
            /\ Go("sd", "settle")
    /\ UNCHANGED <<card, cmdPath, dataPath, dmaAddress, panic, irqVars, driverVars, lockVars, kept,
                   fs>>

(* FAT::FAT keeps the boot sector while it reads the first FAT sector.      *)
BootRead ==
    /\ At("sd", "got") /\ step = "boot"
    /\ kept' = [kept EXCEPT !["sd"] = buf["sd"]]
    /\ buf' = [buf EXCEPT !["sd"] = Nothing]
    /\ step' = "fat"
    /\ Go("sd", "read")
    /\ UNCHANGED <<sdVars, panic, irqVars, driverVars, lockVars, free, req, fs>>

FatRead ==
    /\ At("sd", "got") /\ step = "fat"
    /\ fs' \in ReadFrom(kept["sd"])
    /\ LET done == {buf["sd"], kept["sd"]}
       IN free' = free \cup done /\ memory' = Freed(done)
    /\ buf' = [buf EXCEPT !["sd"] = Nothing]
    /\ kept' = [kept EXCEPT !["sd"] = Nothing]
    /\ WakeUp("fs")
    /\ pc' = [pc EXCEPT !["sd"] = "settle"]
    /\ UNCHANGED <<card, cmdPath, dataPath, dmaAddress, mie, panic, irqVars, driverVars,
                   lockVars, req, step>>

(* The last test for a removed card is made with interrupts off.            *)
Settle ==
    /\ At("sd", "settle")
    /\ pc' = [pc EXCEPT !["sd"] = IF slot = Nothing THEN "top" ELSE "settled"]
    /\ mie' = (slot = Nothing)
    /\ UNCHANGED <<sdVars, run, blocked, panic, irqVars, driverVars, readVars, mountVars>>

AwaitRemoval ==
    /\ At("sd", "settled")
    /\ insertMasked' = FALSE
    /\ Sleep("sd", "status", "top")
    /\ UNCHANGED <<sdVars, panic, dataMasked, polarity, driverVars, readVars, mountVars>>

CardThread ==
    \/ Top \/ AwaitCard \/ InitCard \/ InitReturns
    \/ MbrRead \/ BootRead \/ FatRead \/ Settle \/ AwaitRemoval

-----------------------------------------------------------------------------
(* main.cpp: wait for a file system, then read it block by block.           *)

FsTest ==
    /\ At("main", "fs?")
    /\ \/ /\ fs = Nothing
          /\ Sleep("main", "fs", "fs?")
          /\ req' = req
       \/ /\ fs # Nothing
          /\ \E b \in Blocks \ {0} : req' = [req EXCEPT !["main"] = b]
          /\ Go("main", "read")
    /\ UNCHANGED <<sdVars, panic, irqVars, driverVars, lockVars, free, buf, kept, mountVars>>

(* The pointer to the block before is overwritten, which frees it.          *)
UseBlock ==
    /\ At("main", "got")
    /\ LET before == {kept["main"]} \ {Nothing}
       IN free' = free \cup before /\ memory' = Freed(before)
    /\ kept' = [kept EXCEPT !["main"] = buf["main"]]
    /\ buf' = [buf EXCEPT !["main"] = Nothing]
    /\ Go("main", "fs?")
    /\ UNCHANGED <<card, cmdPath, dataPath, dmaAddress, panic, irqVars, driverVars, lockVars, req,
                   mountVars>>

MainThread == FsTest \/ UseBlock

-----------------------------------------------------------------------------
software == <<threadVars, panic, irqVars, driverVars, readVars, mountVars>>

Hardware == SdStep /\ UNCHANGED software

Slot ==
    /\ panic = "no"
    /\ SlotStep
    /\ UNCHANGED software

Halted == panic # "no" /\ UNCHANGED vars

Next ==
    \/ Hardware \/ Slot \/ Halted
    \/ InsertIrq \/ DataIrq \/ TimerIrq
    \/ CardThread \/ MainThread \/ \E t \in Threads : ReadStep(t)

Spec == Init /\ [][Next]_vars

-----------------------------------------------------------------------------
(* Whatever happened to the card meanwhile, a block that readBlock returns  *)
(* without an error is the block asked for, all of it and of one card, and  *)
(* stays so as long as somebody holds it (sd.cpp:180).                      *)
BlockIntact ==
    \A t \in Threads :
        /\ pc[t] = "got" =>
              \E c \in Cards : \A i \in 0 .. BlockWords - 1 :
                  memory[AddressOf(buf[t]) + i] = Word(c, req[t], i)
        /\ kept[t] # Nothing =>
              \E c \in Cards, b \in Blocks : \A i \in 0 .. BlockWords - 1 :
                  memory[AddressOf(kept[t]) + i] = Word(c, b, i)

(* The DMA stores words only in the block of the thread that owns           *)
(* _dataLock, until a read has failed: then the receiver may still be armed *)
(* (sd.cpp:220).                                                            *)
DmaOwned ==
    [][\A a \in Addresses :
          memory'[a] \notin {memory[a], Junk} =>
              \E t \in Threads :
                  \/ lock = t /\ buf[t] = a \div BlockWords
                  \/ pc[t] = "empty"]_vars

(* A block of the pool is free or has one holder, on every way out of a     *)
(* read, the failing ones included (pool.h:105, sd.cpp:221).                *)
BlocksAccounted ==
    LET held == [t \in Threads |-> {buf[t], kept[t]} \ {Nothing}]
    IN /\ free \cup held["sd"] \cup held["main"] = PoolOf
       /\ Cardinality(free) + Cardinality(held["sd"]) + Cardinality(held["main"])
            = PoolBlocks
       /\ \A t \in Threads : buf[t] # Nothing => buf[t] # kept[t]

(* While a reply arrives, the word that tells how long it is (sd.sv:402,    *)
(* 450) is still that of its command: neither thread has written another.   *)
RepliesWhole == cmdState = "pending" => cdcOut = command

(* Who sleeps will be heard: the interrupt he waits for is not masked, the  *)
(* file system is not there yet, and the lock has an owner who will find    *)
(* him on its list (sd.cpp:293), unless wakeOneThread has cleared that list *)
(* (saros.cpp:39): then he may sleep beside a free lock.                    *)
NoLostWakeup ==
    /\ blocked["sd"] = "status" => ~insertMasked
    /\ \A t \in Threads :
          /\ blocked[t] = "data" => ~dataMasked
          /\ blocked[t] = "lock" => lock = Other(t)
          /\ blocked[t] = "lost" => lockBroken
          /\ blocked[t] = "fs" => fs = Nothing

(* The card thread goes to sleep for a change from what it last found: a    *)
(* card moved while it was busy wakes it at once, and one that was not does *)
(* not (sd.cpp:497, 509).                                                   *)
ChangesNoticed ==
    [][blocked["sd"] # "status" /\ blocked'["sd"] = "status" =>
          (InsertLine' <=> (slot' # Nothing) = (pc["sd"] = "removed"))]_vars

(* "Attempt at freeing pointer from another pool" (pool.h:159): nobody      *)
(* makes one.                                                               *)
OwnPointersFreed == panic # "ForeignFree"

=============================================================================
