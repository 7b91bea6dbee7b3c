# CompuSAR in TLA+

CompuSAR is a system on an FPGA: a VexRiscv hart, its caches, a DDR memory and a
handful of I/O controllers written in SystemVerilog (`CompuSar.srcs/sources_1`),
and SAROS, the small preemptive kernel and its drivers that run on the hart
(`CompuSar.srcs/saros`). This directory models the parts of both whose
correctness depends on the order in which things happen, checks the models with
TLC and proves what matters most about them with TLAPS.

Paths below are relative to `src/CompuSar.srcs/`.

## 1. Inventory

### 1.1 Components, state, operations, interactions

| Component | State it keeps | Operations | Talks to |
|---|---|---|---|
| Scheduler and threads (`saros/saros/kernel/{scheduler,thread,thread_queue}`, `context.s`, `saros/saros/saros.cpp`) | three ready queues, every wait queue, `_state` and `_priority` of each thread, the free stack slots, `tp`, `mstatus.MIE/MPIE` | `init`, `run`, `createThread`, `stopThread`, `sleepOn`, `schedule`, `wakeOneThread`, `wakeAllThreads`, `reschedule`, `switchIn/Out` | called by threads and interrupt handlers; owns every `ThreadQueue` |
| Interrupt dispatch (`saros/saros/irq.cpp`) | the mask and active-interrupt registers, the wait and timer registers of `timer_int_ctrl.sv` | `trap_handler`, mask and unmask, `wfi`, `halt` | calls the driver handlers, ends in `reschedule` |
| Aborts (`saros/abort.cpp`) | none | `assertWithMessage`, `checkWithMessage` (always compiled in) | every component |
| Pools (`saros/include/ds/pool.h`) | the free list | `alloc`, `free`, `Ptr` | thread stacks, timers, SD blocks |
| Synchronisation (`saros/include/saros/sync`, `saros/saros/mutex.cpp`) | `Event::_active`, `Mutex::_locked`, one wait queue each | `wait/set/clear`, `lock/try_lock/unlock`, `wait/signal` | the scheduler; used by timers, UART, SD, display, main |
| Timers (`saros/saros/kernel/timer.cpp`) | a queue of events ordered by expiry, the pool of events, the compare register | `registerTimer`, `registerTimerNs`, `TimerHandle::clear`, `handleTimerInterrupt`, `Saros::sleep_ns` | the timer interrupt, events, pools |
| UART (`saros/saros/uart.cpp`, `saros/include/p1c1.h`, `uart_ctrl.sv`) | two single-producer single-consumer rings, an event | `uart_send`, `uart_recv_char`, two handlers | events, interrupt mask |
| SD card driver (`saros/saros/sd.cpp`) and controller (`sd.sv`) | card state, the pool of blocks, command and data state machines, a DMA | insertion thread, `readBlock`, `select`, two handlers | events, mutex, timers, cache port, FAT |
| Partitions and FAT (`saros/saros/fs`) | the mounted file system `fs`, cached sectors | mount, iteration over a directory, cluster chains | SD driver; `fsChanged` wakes `main.cpp` |
| Main and display (`saros/saros/main.cpp`, `display.cpp`) | `vsyncSignal` | start-up, logo thread, dump of text files | signals, FAT, UART |
| Caches and memory arbiter (`cache.sv`, instances in `top.sv`) | line and metadata RAMs, one active command, write-forwarding registers | lookup, evict, fetch, arbitration between six ports | hart, DMA engines, DDR |
| SPI master and flash driver (`spi.sv`, `saros/common/spi*.cpp`) | a half on each clock, two handshakes, the registers; `last_op_dest`, `last_op_size` | transactions, flash mode, reads | cache port, boot loader |
| Timer and interrupt controller (`timer_int_ctrl.sv`) | cycle count, compare, wait count, interrupt mask | register accesses, halt of the bus | hart |
| Buses (`io_block.sv`, `bus_width_adjust.sv`, `freq_div_bus.sv`, `clk_converter.sv`) | one pending request and where its answer comes from | request, acknowledge, respond | hart, memory and devices |
| Small blocks (`gpio.sv`, `debouncer.sv`, `crc.sv`, `seg_display.sv`) | counters, shift registers | | |
| Video (`display*.sv`) | the fetch of a picture, a pipeline over two clocks, the raster | a picture per frame, the vertical blank interrupt | cache port, `display.cpp` |
| Debug logger (`dbglogger.sv`) | a trace ring | | cache port |
| Boot loader (`saros/bl1`) | the buffers of the headers | ELF loading (`ddr_init` does nothing: its body is under `#if 0`) | flash, memory |

### 1.2 What is hard

* **Interleaving.** Threads preempt each other only through interrupts, and an
  interrupt can arrive wherever `MIE` is set: between a check and a sleep,
  between marking a thread Ready and queueing it, in the boot flow itself.
* **One hook per thread.** A thread is linked into ready and wait queues by the
  same intrusive hook; every operation must leave it on exactly the right list.
* **Flags that survive a switch.** `MIE` is restored from `MPIE`, which belongs
  to whoever trapped or switched last.
* **Failure.** A pool runs dry, a card disappears in the middle of a transfer, an
  assertion stops the hart.
* **Clocked concurrency.** The cache accepts a command in the cycle in which it
  answers the previous one, reads a RAM that is being written, and serves six
  ports in a fixed order; the data bus takes a command in the cycle of the answer
  before.
* **Two clocks.** The SPI master, the SD controller and the display hand words
  from one clock to another, and a driver writes registers which the other clock
  has yet to read.
* **Data from outside.** The contents of a card and of an ELF image decide what
  is read next, and in what arithmetic.

PROJECT.json lists the hazards one by one, each at its line with the properties
that cover it.

## 2. Modules and the code

| Module | What it is | Extends / composes |
|---|---|---|
| `Scheduler` | the kernel scheduler on one hart | - |
| `Threads` | abstract: what a scheduler promises its threads | refined by `Scheduler` |
| `Sync` | Event, Mutex, and the Signal `fsChanged` with its flag | `Scheduler` |
| `SyncHistory` | `Sync` with two variables of history: whose test a high-priority thread has made untrue, and whom `wakeOneThread` has dropped | `Sync` |
| `Timers` | timers, their interrupt and `sleep_ns` | `Scheduler` |
| `Uart` | UART driver, rings, handlers, controller | - |
| `Pipe` | abstract: a lossless first-in first-out pipe | refined by `Uart`, once in each direction |
| `SdController` | `sd.sv` and the card in its slot | - |
| `SdCard` | the SD card driver, its thread, and a thread that reads files | `SdController` |
| `Cache` | `cache.sv` with its arbiter and block RAMs | - |
| `Memory` | abstract: one memory that serves one request at a time | refined by `Cache` |
| `Card` | what is on an SD card, and what the FAT32 format says it means | - |
| `Files` | partition table, FAT, directory, and the files sent to the UART | `Card` |
| `Bus` | data bus, clock and interrupt registers, and the code that uses them | - |
| `Spi` | `spi.sv` and the flash behind it | - |
| `Boot` | the boot loader and the flash driver | `Spi` |
| `Display` | the fetch of the picture, the raster, `logoCrawl` | - |
| `Frames` | the command line of the SD card, bit by bit, with its CRC | - |
| `MC*` | instances for TLC | the module named after `MC`; `MCSync`: `SyncHistory`; `MCKernel`: `MCSync` and `Uart`; `MCBoard`: `MCFiles`, `Bus`, `MCBoot`, `Display` and `Frames` |
| `*Proofs` | theorems and their proofs | the module named before `Proofs`; `BoardProofs`: `Bus`, `Display`, `Frames` and `Files` |

### 2.1 Scheduler

A thread control block lies at the top of its stack slot, so a thread *is* its
slot. `readyQ`, `waitQ`, `state`, `prio`, `free` and `tp` are the fields and
registers the code has under those names; `making` is a thread that
`createThread` has constructed and not queued yet, `waking` and `prevMie` the
queue and the saved flag of a `wakeAllThreads` in progress, `mode` what the hart
executes (the five stages of the boot flow, a thread, or a handler). The current
thread stays at the front of its ready queue while it runs, as in the code.

An action ends where an interrupt can be taken. `createThread` is three actions:
`ReadFree`, the load of the head of the free list and of its successor in
`PoolAllocator::alloc`; `AllocThread`, the store of the successor and the
construction of the thread; and `PushThread`, because the SpinLock of
`createThread` starts only after the thread is Ready. Between the first two the
creator holds in `taking` and `behind` what it has read, and the store makes it
the free list again whatever happened meanwhile: a slot that a thread has freed
in between is lost, and one that another creator has taken in between is handed
out twice. The latter needs a creator that preempts another, of high priority
therefore; `createThread` allows one, but in the repository all creators have
the normal priority. `Spec` and `CoreSpec` let only threads of normal priority
begin (`BeginCreate`); `AnyCreatorSpec` lets all, and `sched_alloc` shows what
comes of it. `sleepOn` and `stopThread` are one each; the loop of `wakeAllThreads`
runs with interrupts off and is one action per turn. `switchIn` ends in `mret`:
`MIE` takes `MPIE`, and `MPIE` becomes 1.

`wakeOneThread` schedules the front waiter, which takes it off the list, and
pops the list once more. The second pop drops the next waiter. On a list left
empty it unlinks the list's own header; whether the list is then still usable is
decided by the build, so both outcomes are in the model (`broken`).

`PoolFails` stands for any `alloc` from an empty pool, which aborts; `Sync` and
`Timers` use it for their own pools.

### 2.2 Sync

Every action is a step of `Scheduler` or leaves the scheduler alone, so
`SyncSpec => Spec` (proved). A call is as many actions as it has places where an
interrupt may come: `Mutex::lock` tests with interrupts on, then sleeps or
claims; `Event::wait` tests, then tests again with interrupts off and sleeps;
`Event::set` sets the flag and then wakes. The startup thread's loop over
`fsChanged` and the mounting thread are part of the same module.

`SyncHistory` adds what the two ways of losing a wakeup leave behind, thread by
thread. `outrun` holds a thread from the moment a high-priority thread unlocks,
or mounts, what it has found locked, or not mounted, until it has slept;
`dropped` holds a waiter that the second pop of `wakeOneThread` has taken off
the list of the mutex, and one that goes to sleep on the list when that pop has
spoilt it.

### 2.3 Timers

A slot of the timer pool is named by the wait queue of its event. `timerQ`,
`due`, `repeat` and `fired` are `timerQueue`, `wakeupTime`, `repeatTime` and
`_active`; `now` and `compare` are the registers of `timer_int_ctrl.sv`;
`serving` is the local variable in which the handler keeps the time it has read.
`Cycles` is the conversion of `registerTimerNs` from nanoseconds: a product of
64 bits (`Word`), which wraps, and a quotient rounded down. `asked` is history:
how many nanoseconds a thread has asked `sleep_ns` for, and when. Register,
sleep, fire and rearm are actions; the loop of the handler is one
action per timer, each followed by the turns of `wakeAllThreads`.

### 2.4 Uart

One action per access that a handler or the device can see: test, store, advance
of a ring, unmask, the halt of the bus that `wfi` causes, the two handlers byte
by byte. The controller holds one byte being shifted out and one received; it
acknowledges no access to its data register while it shifts, so the receive
handler waits for the transmitter.

### 2.5 SdController and SdCard

`SdController` has the registers, the word that crosses to the clock of the card
(`cdc`; `cdcOut` is what stays on the other side), the two state machines, the
counter of a block, in words and with its wrap, the pipeline and the DMA into
the pool of blocks. A reply or a word may be spoilt, the reply or the data may
not come, and a word may find the pipeline full. The card is external: it
answers what is in order, needs a while to become ready, and can be pulled at
any time. `slot` is the card in the slot, told apart from others so that a block
made of two of them shows.

`SdCard` has the card thread (`threadMain`, `initCard` command by command) and
the startup thread, which reads blocks of a mounted file system and keeps the
one before (`main.cpp`). Both are in `readBlock` step by step (`pc`). They have
one priority, and `uart_send` waits without sleeping, so the hart changes hands
only where a thread sleeps for a card, data, the lock or time; the controller,
the interrupts and the card move at any point in between. The scheduler is
reduced to that. `Mutex::unlock` wakes through `wakeOneThread`: the one waiter
that there can be is woken, and the second pop, on the list it has left, may
spoil the list for good (`lockBroken`): from then on who sleeps for the lock is
`lost`. A card whose CSD has another structure than version 1 leaves the number
of blocks as it was (`Cmd9Done`). A failed assertion stops the machine (`panic`), the hardware
goes on. `Drained` is an assumption about speed: between the status that says
data is idle and the next step of the driver, the DMA stores the few words still
in the pipeline.

### 2.6 Cache

A step is a clock edge at which something changes, or a port raising a request.
The states are those of `command_state`; `mdMem`, `cmMem` are the block RAMs and
`mdRead`, `cmRead`, `prevRd`, `prevWr`, `prevMd`, `prevCm` the registers that
give the reader of a line the data written to it in the same cycle. The backend
answers after any delay.

### 2.7 Card and Files

`Card` says what a block is (one field for each way the code looks at it) and,
by the rules of the format, which files a sound card holds: the FAT as one
array, a chain as a sequence, a directory as numbered entries, of which some are
listed. That is the reference. `Files` is the code: `PartitionTable`, the constructor of `FAT` with
its sums modulo 2^32, the loop of `SD::threadMain` that mounts the first line it
can, the directory iterator (`Visit`, `Advance`, `Link`, `Load`),
`nextCluster`, `File::readBlock` and the loop of `start_8bit` that sends the
text files. Every read can fail (`CardFails`), every assertion can be hit
(`Asserts`). How a block is read and who owns it is in `SdCard`.

### 2.8 Bus

`Cycle` is a cycle of the CPU clock: `io_block` decodes the command of the hart,
remembers where the answer will come from (`pending`, `port`), and may take the
next command in the cycle of that answer; `bus_width_adjust` chooses a word of a
cache line by the segment of the last command (`segment`); `timer_int_ctrl`
answers registers one cycle later and holds the answer to a read of its halt
register back until an interrupt is there. The other actions are the code that
uses these registers, an access at a time: `wfi`, `sleep_ns` up to the sleep,
`get_cycles_count` and `set_timer_cycles` from a thread and from the handler,
`trap_handler` with the two handlers. Between those sequences a thread makes any
access there is. The two halves of the clock count to `Low` and `High`.

### 2.9 Spi and Boot

`Spi` has one action per state of the two halves of `spi.sv`, with the
handshakes between them; a frame on the wire is one step, as is a line of the
DMA. A byte of memory is the address in flash that it came from, so that it
tells where it should be. The flash is external: its mode, dummy cycles, write
enable, and how far the sequence that rescues it from quad mode has come.
`Boot` has `bl1_main`: the script of `SPI_FLASH::init`, `start_transaction` as two
steps (counts, then addresses and trigger), `load_os` with a read that goes on
while the loop looks at the next header, `postprocess_buffer`, and the script of
`SPI_FLASH::deinit`.

Two assumptions about speed stand in the guards. `Begun`: the driver writes the
counts of a transaction only after the SPI clock, 50 MHz against 75.78 MHz, has
sampled those of the one before. And the command, which lies on the stack of
`spi_flash.cpp`'s functions, is read by the DMA before the stack is used again.

### 2.10 Display

`CpuCycle` is the fetch of `display_32bit.sv`, burst by burst, with its reset in
the blanking; `CrossBlank` brings the two blanking bits over, each on its own;
`PixelCycle` has the stages on the pixel clock, the buffer of
`display_aggregator.sv` and the raster. `Crawl` and `HandleVsyncIrq` are the
software. `Settled` and `Noticed` are assumptions about speed: the memory has
delivered the picture by the time the blanking begins, and the blanking and the
sync are long enough to be seen. `DisplayAssumption` says what the sizes in the
code (bursts of 16, a logo of 128 by 128, a screen of 640 by 480) satisfy.

### 2.11 Frames

`SdController` has a command or a reply as a step that may spoil it. `Frames` is
the same state machine cycle by cycle: the bits on the line, `crc.sv` as a shift
register, the seed of a long reply, the header, the timeout. `Remainder` and
`CommandFrame` are the reference: polynomial division and the frame of the
standard. A fault spoils up to `MaxBurst` bits of a reply in a row.

## 3. Runs and bounds

| Run | Instance | What it shows |
|---|---|---|
| `sched` | idle, startup, 2 slots, 2 wait queues, without `wakeOneThread` | `IInv` (lists follow states, runner at front, no assertion fails, free slots unused, no two creators in `alloc` or in one slot); `PriorityDispatch`, `FirstComeFirstServed`, `SwitchEnablesIrq`; `KeepsPromises` (implements `Threads`); `HighRuns`, `NormalRuns` |
| `sched_wakeone` | finding, 1 queue | `wakeOneThread` takes two waiters off |
| `sched_alloc` | finding, 1 queue, creators of both priorities | two creators get one slot: the assertion of `schedule` fails |
| `kernel` | two parts that share no state, one in each behaviour (`block`): `SyncHistory` with idle, startup, 2 slots, both priorities, and `Uart` with rings of 6, one sender, slow line | `MutualExclusion`, `EventHeard`; `LockHeard` and `MountHeard`: only a thread that was outrun or dropped sleeps on a free mutex, and only one that was outrun through a mount; `SendReturns`, `CrashFlushes` |
| `sync_lostlock` | finding, 1 slot, both priorities | `MutexHeard` fails when a preemption comes between test and sleep |
| `timers` | idle, startup, 2 slots, 2 timers, time 0..1, 2 cycles in 4 ns, products below 9 | `TimersIInv`, `NotEarly`, `SleepersWake` |
| `uart` | rings of 3, 2 bytes, one thread that sends and receives | `TxNotForgotten`, `RxNotDeaf`, `SendsInOrder`, `ReceivesInOrder` |
| `sd` | 2 cards, one supported, 2 blocks of 2 words, pipeline of 1, pool of 3, 2 attempts | `BlockIntact`, `BlocksAccounted`, `RepliesWhole`, `NoLostWakeup`; `DmaOwned`, `ChangesNoticed` |
| `sd_pool` | finding, 1 card | a read of the boot record that fails ends in an assertion |
| `cache` | 2 ports, 2 lines x 2 tags x 2 bytes | `CacheIInv`, `IsMemory`, `Served` |
| `board` | five parts that share no state, one in each behaviour (`block`) | `DumpsFiles`, `DumpEnds`; `OwnAnswers`, `WholeClock`, `Attended`; `FramesAreCommands`, `HeadersHeld`, `OsLoaded`, `BootEnds`; `PictureIntact`; `FramesChecked` |
| `boot_realign` | finding, a segment with 12 bytes in its last line | `OsLoaded` fails |

Why the bounds are enough. Idle, startup and two more threads are the least with
which two threads of one priority wait behind each other while a third of
another preempts; two wait queues are the least that show a thread on the wrong
one. The proofs then lift every safety property of the scheduler, of the mutex,
the event, the timers, the UART, the SD card, the cache and the parts of `board` to
any number. In `timers`, three threads for two slots let the pool run dry, and two instants let a timer be registered
before, at and after the time of another; of the three delays one is shorter than
a cycle, one is rounded down, and the product of one wraps. `Never` only has to be later than any
of them. A ring of 3 holds two bytes, so it is empty, partly full, full and
wrapped. With two lines, two tags and two bytes the cache hits, misses, evicts
dirty and clean lines, and writes a line in part and as a whole; `Requests`
leaves out what differs only by symmetry between the lines.

In `sd`, a block of two words and a pipeline of one let the pipeline be empty,
full and overrun, and a word be lost at either end; three blocks are what both
threads hold together at most. Two cards show an exchange. The counter has as
many values as a block has words, as in the hardware (4096 bits, 12 bits).

`board` has, part by part:

* Files: 552 cards of 14 blocks, 2 directory entries in a sector, 6 clusters in a
  FAT sector. 432 of them are every FAT of a list (chains that run backwards,
  meet, form a circle, leave the volume, end in a bad cluster or cross into the
  second FAT sector) with a choice of root directories (deleted, long-name, empty
  and non-text entries; files of no, part of, one, and several blocks); 120 are
  every partition table with every boot sector (unused and foreign lines,
  volumes that are too small, refused, wrap at 2^32 - here `Word` = 64 - or reach
  over the end). `wanted.sound` picks the cards `DumpsFiles` speaks of; `DumpEnds`
  speaks of all whose directory ends. The proof lifts `DumpsFiles` to any cards.
* Bus: one interrupt line, one cache line of two words, `Low` = 1 and `High` = 2:
  the high half of the clock changes in every cycle, the hardest case for a clock
  read in two halves. The proofs lift `OwnAnswers` and `WholeClock` to any size.
* Boot: lines of 16 bytes, six images: several segments, ones that are not
  loaded, or have nothing in the file, or more in memory than in the file; section
  headers that clear; an image refused for its header, for its program headers and
  for its sections; one with nothing in it.
* Display: bursts of 3 pixels, a picture of 3 by 4 on a screen of 4 by 5 in a
  frame of 5 by 8. Four bursts are more than the pipeline holds; the picture has
  two places in each direction, so it turns at every edge.
* Frames: arguments of 3 bits and payloads of 4, one request with each kind of
  reply, faults of up to 7 bits, which is what a CRC of 7 bits must detect. The
  assumption `SampleCrcs` checks the reference on full-size frames with the values of
  the simulation in `crc_sim`; that the shift register computes the same for frames of
  any size is proved (section 5).

`Symmetry` (of the bytes) is used only in `uart`, which has no liveness properties. Deadlock is checked in every run but `board`
and `boot_realign`: a halted hart stutters by an action of its own (`Halted`). In
`board` the listing ends and the boot loader halts or jumps away: those are ends
of the part modelled. There `DumpEnds` and `BootEnds` say that every end is one of those.

## 4. Fairness, and why the code justifies it

* `Scheduler` - weak for the boot flow and for the loop of `wakeAllThreads`,
  which is straight-line code; strong for `IrqReturn`, since handlers end and
  others may come after; and, for each thread but idle, strong for the tail of
  `createThread` and for giving up the hart: the kernel has no time slice, so
  that threads sleep or end some day is what it asks of them. Fairness is stated
  per thread, never for a thread that is not running.
* `Timers` - time passes (weak), the boot flow and the handler go on (weak), the
  hart takes an interrupt that stays pending while interrupts are enabled again
  and again (strong), and the handler returns (strong). That a woken thread also
  gets the hart is the scheduler's matter.
* `Uart` - weak for every step of a sender, the handlers, the flush and the line,
  strong for taking a pending interrupt. Nobody has to call and no byte has to
  arrive.
* `Cache` - the clock ticks and the backend answers: weak for `Clock`.
* `Files` - weak for the whole step: the code goes on, or the card fails.
* `Bus` - weak for a cycle in which the slaves are ready; for the code, once it has
  begun one of its sequences; and for taking a pending interrupt, which the hart
  does as soon as its pipeline is empty. Nothing makes a thread access anything.
* `Boot` - weak for the loader and for the two clocks together.
* `Display`, `Frames` - none: only safety is stated.

The UART part of `kernel` assumes `Slow`: a byte needs 87 us on the line, any code
between two rests of the hart less. Without it `uart_send` has a window between
its test for a full ring and `wfi` in which the whole ring can drain: then no
interrupt is left to end `wfi`. The ring has 4096 slots (`uart.cpp:33`), so the window
would have to last 350 ms; the model's assumption, one byte each way between two rests
besides those the receive handler itself waits for, is the weaker form of that.

## 5. What is proved

Every theorem holds for every value of the constants that satisfies the named
assumptions; nothing is assumed beyond them.

**Scheduler** (`SchedulerProofs`, from `ThreadAssumption`). `Safety`: `Spec =>
[]IInv`. The properties one cares about (`QueueDiscipline`, `CurrentAtFront`,
`NoAssertionFails`, `FreeSlotsUnused`) are not inductive. `CreatorsApart` is
needed because a thread that is Ready and on no ready queue must be in the hands
of exactly one creator; `AllocsApart` because what a creator has read in `alloc`
must still be so when it stores: it is a thread of normal priority, Ready and at
the front of its queue, so none but a high-priority thread can run before it goes
on, and none of these creates; slots may have been freed meanwhile, not taken;
`IdleListed` because `reschedule` asserts that it finds
a thread, and only the idle thread, which can neither sleep nor stop, is always
there; `BootShape` because the first thread is switched in from the boot stack,
and interrupts arrive before that; `HartState` because `MPIE` is what enables
interrupts again. There is one lemma per operation. Corollaries: `TypeCorrect`,
`ListsFollowStates`, `RunnerIsFront`, `AssertionsHold`, `StacksNotShared`, and
the action property `SleepEnablesIrq`. Two more are about who runs next.
`MoreUrgentFirst` needs to know that nothing more urgent than the current thread
is ready until the next interrupt or wakeup (`NothingUrgentYet`); `QueuesAreFair`
follows step by step from what the operations do to a queue. Without
`wakeOneThread` (`CoreSpec`), `PromisesKept` shows that the scheduler implements
`Threads`, a step at a time, and `NobodyLost` that a sleeping thread is always on
a wait queue.

**Sync** (`SyncProofs`, from `SyncAssumption`). `UsesScheduler`: `SyncSpec =>
Spec`, step by step, so `IInv` and all of the above hold under it. With `IInv`
at hand `SyncIInv` is inductive: the only step that adds a waiter is `sleepOn`
by the current thread (`WaitersOfStep`). Corollaries: `OneOwner`,
`NoEventMissed`. `SyncHistory` adds `HistIInv` (`HistSafety`), from which
`NoUnlockMissed` and `NoMountMissed` follow: unless a high-priority thread has
outrun it, a thread that was preempted between its test and its sleep is
still to run before whoever changes what it has tested (`TestsHold`), because a
thread of its own priority that was preempted keeps its place in the queue
(`Resumable`). And a thread that sleeps in `Mutex::lock` is on the list of the mutex,
or about to be woken, or `dropped` (`SleepersFound`), so that `NoUnlockMissed` speaks of
all sleepers and not only of those still listed.

**Timers** (`TimersProofs`, from `TimersAssumption`). Here the two invariants
need each other: that a step of the timers is one of the scheduler holds only
where the handle of a waiting thread is a timer, and that only the holder waits
for a timer holds only because the current thread is on no list. So `IInv /\
TimersIInv` is proved inductive at once (`TimersInduction`), from which
`TimersSafety`, `UsesScheduler` (`TimersSpec => Spec`) and the action property
`NobodyEarly` follow. `TimersIInv` is the conjunction of `QueueOrdered`,
`SlotsApart`, `Armed`, `NobodyForgotten`, `HandlerShape`, `CallShape` and `DueAsAsked`,
which ties the time a timer is due to the nanoseconds that were asked for; the
insertion of a timer (`PlacedOrdered`) is proved for sequences of any length.
`NobodyEarly` says that no sleeper is woken a cycle or more before its time, if the product
of nanoseconds and frequency has no more than 64 bits; a cycle is what rounding down takes
(`CyclesOfSleep`). `TimersAssumption` says that the times the program can reach, a repeat included,
are below the value that disarms the compare register.

**Cache** (`CacheProofs`, from `CacheAssumption`). `CacheSafety`: `Spec =>
[]CacheIInv`, which says what forwarding relies on: the block RAM outputs are
what the RAMs held when the command was accepted, unless the line has been
written since, and then the `prev_` registers hold it. `CacheIsMemory`: `Spec =>
M!Spec`, with the refinement mapping that an address is worth its cache line if
the line is valid, has its tag and is not being replaced, and else what the DDR
memory holds. The image that the boot bitstream loads into the cache is clean
and differs from the DDR memory, so an address may lose that content once before
anything is written to it: that is the `unsettled` set of `Memory`. The
assumption `~BootState[NotFirst].dirty` is needed because `prev_wr_addr` and
`prev_rd_addr` power up equal, to the last line, and the first lookup of that
line would see cleared forwarding registers: `boot_loader_state.mem` marks 296
of 1024 lines, not the last.

**Uart** (`UartProofs`, from `UartAssumption`: one reader, who sends nothing,
and rings of at least two slots). `Invariance`: `Spec => []IInv`. No thread loses the
hart within a call but asleep (`OneInside`), since threads are not preempted here; who
stores a byte has room for it, and who takes one has one, whatever the handlers do
in between (`SenderReady`, `ReaderReady`), for a handler only ever makes room in
one ring and adds to the other. `NoByteForgotten` and `NeverDeaf` say that no
interrupt stays masked over work to do. `SentInOrder` and `ReceivedInOrder` are the
two refinements of `Pipe`: the mapping puts the contents of the ring and the byte
in the shift register into one sequence, and the lemmas on rings say what each
move of an index does to that sequence, across the wrap.

**SD card** (`SdProofs`, from `SdControllerAssumption`, `NothingAssumption` and
`SdCardAssumption`: a block has words, the pool has blocks, block 1 is one). The
invariant `SdIInv` (`Invariance`) is built in layers, each from the ones before.
`DriverIInv`: whose turn it is, who holds the lock, which block of the pool is
whose, and that a sleeper will be woken, one for the lock as long as `wakeOneThread` has not
spoilt its list. `CommandIInv`: the word that crosses to
the clock of the card is the last one written, and whoever must hear the answer
has the hart until it comes (`Crossing`, `Answering`, `Awaited`); hence a reply is
read before the next command can spoil it. `Transfers`: words arrive only in the
block of the read that is going on, or of one that has failed and released its
block; how many have arrived, how many are on their way and where the next one
goes fit together. `Sending` and `Armed`: the card sends only what was asked for,
to a receiver that has been told. `Contents`: as long as no error is reported, the
words that have come are those of one card, in order. `BlockIntact` is inductive
with all of that: a block is whole when the status says so, and stays whole while
somebody holds it. Corollaries: `BlocksReadWhole`, `BlocksNeverLost`,
`RepliesUnspoilt`, `SleepersHear`, and the action properties `NoChangeMissed` and
`DmaStaysInside`.

**Bus** (`BoardProofs`, from `BusAssumption`: the halves of the clock have at least
one value, and no cache line is called "idle"). `BusSafety`: `BusSpec =>
[]BusInv`. `OwnAnswers` is not inductive: that an answer is for the load that
waits for it needs that a slave works on something exactly when `io_block` has
sent it there, that `segment` is the word of the load in the memory stage, and
that what the interrupt controller answers next is what that load asked for
(`Waits`). `WholeClock` needs in addition that interrupts are off in every
sequence of the code (`Flow`), and where the code and its accesses are between
the two halves of a read (`Halves`) or of a write (`Compare`): from the read of
the low half to that of the high one, no answer on its way latches another. Corollaries
`OwnAnswersAlways` and `WholeClockAlways`, for any number of interrupt lines, cache
lines and words, and any width of the clock.

**Boot** (`BootProofs`, from `SpiAssumption`, `BootAssumption` and
`BufferAssumption`: a line has 16 bytes, the buffers begin on lines, and the two of
`bl1.ld` adjoin). `CommandsArrive` holds for any images, and with any speeds of the
two clocks that `Begun` allows: its invariant `Handed` says that the registers hold
the command on its way until the frame has begun, and that the frame is that command
until the next is written. The other two take three more layers. `Awaiting`: the
count of lines of the CPU side is the number of lines that the SPI side is still to
deliver. `FlashReady`: the command on the wire, and those on their way to it, take the
flash from whichever state it was left in to the one in which a quad read is
understood. `Fetch`: of the read that `load_os` waits for, or has not waited for yet,
so many bytes are in memory, they are the first ones, and the next line goes behind
them (`Progress`); when the wait is over all have arrived, and `postprocess_buffer`
puts the last line in its place, if it has at most half a line (`RealignedIs`). Then
`Held` says what is being read where, and `Loaded` which segments are in place and
which sections are cleared. `HeadersStay` and `SystemLoaded` are about images for
which the code can keep its promise, and say so: `Placeable(Image)`, the segments begin
on lines (the DMA writes whole ones) and keep clear of the loader's buffers, which no
code verifies; `Plain(Image)`, no segment overlaps another or a cleared section,
and none has more than half a line in its last line (the finding `boot_realign`). An
image that is refused need not be either. `MCBoot` assumes both of the accepted images
of `board` (`ImagesFit`).

**Display** (`BoardProofs`, from `DisplayAssumption`: a row is whole bursts of at
least three pixels, a picture has four of them, and the screen and the frame leave
room). `DisplaySafety`: `DisplaySpec => []DisplayInv`, and from it
`PictureIntactAlways` and `DisplayTypes`. `PictureIntact` says only that nothing has
gone wrong; the invariant says why nothing can. `Line` and `Hands`: the pixel due
next, those of the output stage, the burst behind it, the one that crosses between
the clocks and the one that waits to cross are consecutive pixels, each at its place
(`Shows`). `Place`: where the fetch is in the picture is how many pixels it has handed
on. `Follow`: the pixel in the buffer is the one before those of the output stage, and
after the second pixel of a burst the raster has come to it, so that the last one
leaves in the cycle in which the next burst takes its place without looking
(`display_32bit.sv:172`). `Bits`, `Begins` and `Early`: the bits of the blanking are
up for the first two pixels of the screen at most, in which only the first burst can
be shown, and so the fetch of a frame never ends before it has seen that the frame
has begun; that is what the four bursts are for.

**Frames** (`BoardProofs`, from `FramesAssumption`: requests and payloads are bits, a
command has six, a payload one at least, and a burst is not longer than the CRC).
`RegisterDivides`: clocked through a message of any length, the register of `crc.sv`
ends with the remainder of the division of polynomials that the standard asks for.
That is an induction over the message. The library's induction theorems take an operator
as a parameter and are of no use here, but the one about well-founded relations, `WFMin`,
takes sets; `NatsIn` says from it that a set of numbers with 0 and all successors has
them all, and `Iterates` that a definition by recursion has a value. `FramesSafety`:
`FramesSpec => []FramesInv`. While a command goes out, the bits on the line and those in
the buffer are the command, and the register is that of the bits driven (`SendsCommand`,
`SendsCheck`). While a reply comes in, the bits received and those to come are the reply
with its burst (`Hears`). The register is linear (`Linear`), so it differs from the one
that the reply would give without the fault by what the burst alone would do (`Differs`,
`Marks`): nothing before it; within it, one of seven values, none of which a CRC spoilt by the
rest of the burst can match (`BurstSeen`); after it, not zero, and no good bit makes it so
(`SpoiltStays`). For a long reply, the seed is gone when the header is (`LongSeedIs`), so
that what is left is the division of the payload. Corollaries `FramesCheckedAlways` and
`FramesTypes`.

**Files** (`BoardProofs`, from `FilesAssumption`: sizes are positive, the marks of an end
lie above the clusters of one FAT sector, and what is on a card has the widths of the
structures of the code; nothing is assumed of what the cards hold). `FilesSafety`:
`FilesSpec => []FilesInv`, and from it `DumpsFilesAlways`: of every sound card, with any
clusters, chains, directories and files, `start_8bit` sends the text files whole and in order,
and no assertion stops it. It is where the code's way through the FAT and the format's, which
are defined apart, are shown to be the same. The chain of the format is a recursive function; it
is `Linked` (`ChainLinked`, by the same induction over `NatsIn` as in `Frames`), and one with an
end has every cluster in reach of `nextCluster` (`EndedChain`). There the code reads the blocks
that the format means, on the card, and its assertions hold (`Reads`): that needs a sound
volume to have a reserved sector, without which the last cluster could lie at the edge and fail
`fat.cpp:187`; the proof found that the first statement of `SoundVolume` had left it out. The
entries of the directory are counted through its chain (`SlotAt`), so the iterator is always at
the n-th (`AtSlot`), and what has been sent is what the n - 1 entries before it give and the
blocks before this one (`Within`); `DumpsIs` adds one entry to that, and `DumpsGrow`,
`UpTo` and `UpToBlock` say that it is the beginning of the whole. `Mounted` says that no line
of the partition table before the one at hand could have been mounted, so that the loop of
`SD::threadMain` comes to the volume the format means (`LineAtHand`).

**Only model-checked.** All liveness, `DumpEnds`, `BootEnds` and `Attended` of `board` among
it: the prover has no rule for fairness and `ENABLED`. And what `Files` does with a card that
is not sound, beyond that it goes on or halts: in a FAT sector that is not the first, the code
reads where it should not (section 6).

## 6. Findings, and other deviations

* `sched_wakeone` - `Saros::wakeOneThread` (`saros/saros/saros.cpp`) says "Wake
  one thread"; it takes two off the list and wakes the first. The second is
  Sleeping on no list for ever. What that does to a mutex is in `LockHeard` and
  `NoLostWakeup`: the threads it may leave asleep on a free lock are excepted there
  by name (`dropped`, `lost`), and no others are.
* `sched_alloc` - `PoolAllocator::alloc` (`ds/pool.h:150-151`) loads and stores the
  head of the free list without a lock, and `createThread` calls it before its
  SpinLock (`scheduler.cpp:52`, 63). A high-priority creator that comes in between
  gets the same stack; the creator it has preempted then builds its thread over
  the other, and the next wakeup fails the assertion "Trying to schedule a thread
  that is already Ready" (`scheduler.cpp:99`). `saros.h:26` offers the priority to
  any caller; today's callers all run at normal priority, which is what `Spec` and
  all that is proved of it assume.
* `sd_pool` - when the read of the boot record fails, `partition.cpp` prints "E:
  Failed to read MBR" and returns, to go on without a partition table. The empty
  pointer it got still knows its pool, so its destructor frees a null pointer and
  fails the assertion "Attempt at freeing pointer from another pool" (`pool.h`):
  pulling a card at the wrong moment halts the machine.
* `sync_lostlock` - the loop in `Mutex::lock` is there for "a preemption between
  its test and its action"; a preemption between the test and the sleep loses
  the wakeup: the thread sleeps on a mutex that nobody holds.
* `boot_realign` - `postprocess_buffer` (`saros/common/spi.cpp`) is to "realign the
  response to the beginning of the cacheline". It copies the bytes of the last
  line downwards, from the last one to the first; with more than half a line of
  them, 9 to 15, some are overwritten before they are copied. A segment of such a
  size is loaded wrong, and so are the 31 bytes of a flash id, which is only
  printed. The images of `board` have no such segment, and there everything is in
  its place.

What the code does and the models show, but no statement of the repository speaks
of, or only a comment, so that no run is about it:

* `scheduler.cpp:13-14` says of MPIE that "with no nested traps, we effectively don't
  use the MPIE bit in mstatus (will always be 0)". It is 1 whenever a thread runs, and
  must be: `VexRiscv.v:3547-3561` copies MIE to MPIE on a trap, and `mret` copies MPIE
  to MIE and sets MPIE. `switchIn` ends in `mret` for the cooperative switch as well;
  with MPIE 0 a thread that sleeps would hand the hart over with interrupts off, and
  no preemption and no timer would come again. `SwitchEnablesIrq` holds because of what
  the hart does, not what the comment says, which should go: the mutant
  `SwitchInOnce`, an `mret` that leaves MPIE clear, is caught by it.
* Timers: `registerTimerNs` rounds down (`timer.cpp:87`), so a sleep may end up to a
  cycle early, and its product wraps for more than 2^64 / 75.78 MHz, 243 s: a longer
  sleep ends after the remainder. `NotEarly` allows the one and excepts the other.
* Pools: a slot that a thread frees while another is between the load and the store
  of `alloc` is lost to the pool (`AllocThread`).
* SD: the switch over `csdStructure` (`sd.cpp:413`) knows version 1 only. Of another
  card `_numBlocks` stays 0, or what the card before had.
* Files: `nextCluster` takes the remainder by the number of the FAT sector where
  the number of entries per sector seems meant (`fs/fat.cpp:192`). In the first
  sector that divides by 0, which on this hart (rv32i, libgcc) gives the dividend,
  and so the right entry; beyond it the entry is wrong. `wanted.sound` asks for
  chains within the first sector. The iterator gives the first entry of a
  directory without a look at its name, so a deleted one is shown; a directory
  whose chain is a circle is listed for ever; sums of a boot sector and of a
  partition wrap (`fs/fat.cpp:145`, `fs/partition.cpp:88`); a debugging `halt()`
  stands before the message about a line out of range (`fs/partition.cpp:71`);
  `fs` keeps a reference to a `Partition` that is gone (`sd.cpp:487`).
* Boot: the program headers are read with the size of an ELF header each
  (`bl1/elf_reader.cpp:94`); a segment whose address is not at the beginning of a
  line would be misplaced, the DMA writes whole lines; `get_cycles_count` of `bl1`, which nothing
  calls, reads the second half one byte after the first.
* Display: when the memory is late by a frame the picture is cut, and when the end
  of the sync is seen before that of the blanking one frame is blank (`cut`).
* SD: `_cardType` is never reset (`sd.cpp:463`), and the loop over ACMD41 looks at
  the reply and not at the status (`sd.cpp:360`).
* UART: the controller does not acknowledge a read while it sends
  (`uart_ctrl.sv:36`).
* Cache: `prev_rd` and `prev_wr` power up equal (see `CacheAssumption`).

## 7. What is not modelled, and why

* The contents of the saved register contexts: `switchIn` is taken to restore
  what `switchOut` saved.
* A thread that locks a mutex it owns, unlocks one it does not, or stops with
  one: nothing in the repository does it.
* `TimerHandle::clear` on a timer that is still queued: it frees the slot and
  leaves the event in the queue; nothing in the repository does it.
* The links of the free list of a pool: the slots that are free are a set, and a
  creator that has read the head of the list and its successor holds the rest of
  the set. Timers are allocated under a SpinLock, and blocks by threads of one
  priority that `readBlock` keeps apart, so that there `alloc` is a single step.
* The reset of the display (`reset32_i`): the model begins when it is released.
* Faults of a reply other than a run of inverted bits: `Frames` has bursts of up to
  `MaxBurst` of them, not every pattern within that width.
* The four reserved top bits of a FAT entry: the code does not mask them, so neither
  does `FatEntry`.
* In `SdCard`, scheduling by more than sleep and wake, the logo thread (it does not
  touch the card), and a second life of a card: `_cardType` and `fs` stay what they
  are when a card goes, as in the code. The CRC of the data line; the transfer over
  four wires, which `sd.sv` leaves to be written.
* `Directory::dir`, which only prints and which nothing calls; `erase_all` and
  transactions longer than a line, which nothing calls; waiting for a point in
  time in `timer_int_ctrl.sv`, which no code uses.
* The instruction cache on a port of the data cache, and the `ctrl_` port, which is
  connected to nothing.
* `freq_div_bus.sv`, which is not instantiated; `clk_converter.sv` and
  `hdmi_wrapper.sv`, which wrap cores that are not in the repository;
  `display_8bit.sv`, a stub; `top.sv`, which only connects; `ddr.cpp`, all of which
  but an empty function is disabled by the preprocessor.
* `dbglogger.sv`, a trace that nobody reads back; `debouncer.sv`,
  `input_delay.sv`, `seg_display.sv`, `byte_selector.sv`, a counter or less each;
  formatting, strings and register access helpers; colours and blending of the
  display: data without interaction.
* Vendored and generated code: the simulation model of the flash
  (`sim_1/MT25QL256ABA8E0_VG13`), the table of constants `elf.h`, the VexRiscv core
  and its wrapper. They are most of the lines of the repository; `Spi` and
  `Scheduler` have of them what the other code relies on.

## 8. Plan

What is left, each with its instance for TLC, and proofs where they pay.

1. `SdCard`: every read ends (liveness); an abstract card that the driver implements.
2. `Pool`: the free list and its owners.
3. `SdController` with the command line of `Frames` in place of its single steps.
4. The instruction cache behind the data cache: two instances of `Cache`.
