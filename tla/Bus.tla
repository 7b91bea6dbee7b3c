-------------------------------- MODULE Bus --------------------------------
(***************************************************************************)
(* The hart's data bus: io_block.sv between the VexRiscv, the memory port   *)
(* (bus_width_adjust.sv, which takes a word out of a cache line) and the    *)
(* devices; the clock, interrupt and halt registers of timer_int_ctrl.sv;   *)
(* and the code that uses them from a thread and from the handlers          *)
(* (irq.cpp).  Cycle is one cycle of the CPU clock.                         *)
(*                                                                         *)
(* What a load returns is the register it was read from; only the clock     *)
(* has a value, with Low times High states.  When the compare register is   *)
(* reached is left open here (Timers has it).                               *)
(***************************************************************************)
EXTENDS Naturals

CONSTANTS
    Irqs,       \* the external interrupt lines
    MemLines,   \* cache lines
    Words,      \* words of a line: cmd_segment
    Low, High   \* values of the two halves of cycles_counter

ASSUME BusAssumption ==
    /\ Low \in Nat \ {0} /\ High \in Nat \ {0}
    /\ "idle" \notin MemLines

VARIABLES
    (* the hart *)
    pc, back,       \* the next access, and where the handler returns to
    mie,
    cmd, load,      \* the access in the execute stage, the load waiting in the memory stage
    clock,          \* the time at which thread and handler read the low half of the clock
    seen,           \* what a handler has read from ACTIVE_IRQS
    wrong,          \* what has gone wrong so far: a history variable
    (* io_block and bus_width_adjust *)
    pending, port, segment,
    (* the memory and a slow device: the request they are working on *)
    ddr, slow, gpio,
    (* timer_int_ctrl *)
    prevValid, pendingAddr, counter, saved, irqActive, masked,
    armed, compareHigh, timer, waitReset    \* armed: the compare register is not TIMER_INT_DISABLED64

hartVars == <<pc, back, mie, cmd, load, clock, seen, wrong>>
ctrlVars == <<prevValid, pendingAddr, counter, saved, irqActive, masked,
              armed, compareHigh, timer, waitReset>>
busVars == <<hartVars, pending, port, segment, ddr, slow, gpio, ctrlVars>>

Who == {"thread", "handler"}

Now == IF back = "none" THEN "thread" ELSE "handler"

Access(to, reg, write, data) ==
    [port |-> to, reg |-> reg, write |-> write, data |-> data,
     who |-> Now]

NoCmd == [port |-> "no", reg |-> "no", write |-> FALSE, data |-> {}, who |-> "thread"]

Answer(from, reg) == [port |-> from, reg |-> reg]

NoAnswer == Answer("no", "no")

Garbage == Answer("garbage", "garbage")

BusInit ==
    /\ pc = "run" /\ back = "none" /\ mie = TRUE
    /\ cmd = NoCmd /\ load = NoCmd
    /\ clock = [w \in Who |-> 0]
    /\ seen = {} /\ wrong = {}
    /\ pending = FALSE /\ port = "no" /\ segment \in Words
    /\ ddr = "idle" /\ slow = "idle" /\ gpio = FALSE
    /\ prevValid = FALSE /\ pendingAddr = "no"
    /\ counter = 0 /\ saved \in 0..(High - 1)
    /\ irqActive = {} /\ masked = Irqs
    /\ armed = FALSE /\ compareHigh = {} /\ timer = FALSE /\ waitReset = FALSE

-----------------------------------------------------------------------------
(* timer_int_ctrl: interrupts and responses. *)

ExtInterrupt == irqActive \ masked # {}

(* Mutation: only the timer ends a halt. *)
HaltEndsTimer(expired) == expired \/ timer

(* The halt register answers when there is an interrupt, enabled in the     *)
(* hart or not, or when the wait is over, which no code here waits for.     *)
HaltEnds(expired) == expired \/ timer \/ ExtInterrupt

IntAnswers(expired) ==
    /\ prevValid
    /\ pendingAddr = "halt" => HaltEnds(expired)

SavesHigh(expired) == IntAnswers(expired) /\ pendingAddr \in {"halt", "lo"}

(* io_block: rsp_valid and rsp_data, which are undefined without a pending  *)
(* request.  ready says whether the memory and the slow device respond.     *)
Responses(ready, expired) ==
    IF ~pending THEN {NoAnswer, Garbage}
    ELSE IF port = "none" THEN {Answer("none", "none")}
    ELSE IF port = "ddr" /\ ready /\ ddr # "idle" THEN {Answer("ddr", <<ddr, segment>>)}
    ELSE IF port = "slow" /\ ready /\ slow # "idle" THEN {Answer("slow", slow)}
    ELSE IF port = "gpio" /\ gpio THEN {Answer("gpio", "in")}
    ELSE IF port = "int" /\ ~prevValid THEN {NoAnswer, Garbage}
    ELSE IF port = "int" /\ IntAnswers(expired) THEN {Answer("int", pendingAddr)}
    ELSE {NoAnswer}

(* The next command may be taken in the cycle of the response.              *)
Taken(rsp, acks) ==
    /\ cmd # NoCmd
    /\ load # NoCmd => rsp # NoAnswer
    /\ pending => rsp # NoAnswer
    /\ rsp.port # "none"       \* the fault flushes the execute stage
    /\ cmd.port \in {"ddr", "slow"} => acks

(* Mutation: the end of a request wins over the command of the same cycle.  *)
IoBlockLate(rsp, taken) ==
    /\ pending' = IF pending /\ rsp # NoAnswer THEN FALSE ELSE IF taken THEN ~cmd.write ELSE pending
    /\ port' = IF taken THEN cmd.port ELSE port

IoBlock(rsp, taken) ==
    /\ pending' = IF taken THEN ~cmd.write ELSE pending /\ rsp = NoAnswer
    /\ port' = IF taken THEN cmd.port ELSE port

(* A slave that works on one read: the word of the line is chosen when the  *)
(* answer comes, by the segment of the last command that went through.      *)
Slaves(rsp, taken) ==
    LET takes(p) == taken /\ cmd.port = p
        reads(p) == takes(p) /\ ~cmd.write
    IN  /\ segment' = IF takes("ddr") THEN cmd.reg[2] ELSE segment
        /\ ddr' = IF reads("ddr") THEN cmd.reg[1] ELSE IF rsp.port = "ddr" THEN "idle" ELSE ddr
        /\ slow' = IF reads("slow") THEN cmd.reg ELSE IF rsp.port = "slow" THEN "idle" ELSE slow
        /\ gpio' = reads("gpio")

(* A write leaves prevValid as it is, even when the response was just given.*)
IntCtrl(taken, expired) ==
    LET valid == taken /\ cmd.port = "int"
        writes(reg) == valid /\ cmd.write /\ cmd.reg = reg
    IN  /\ prevValid' = IF valid THEN ~cmd.write \/ prevValid ELSE prevValid /\ ~IntAnswers(expired)
        /\ pendingAddr' = IF valid /\ ~cmd.write THEN cmd.reg ELSE IF prevValid' THEN pendingAddr ELSE "no"
        /\ counter' = (counter + 1) % (Low * High)
        /\ saved' = IF SavesHigh(expired) THEN counter \div Low ELSE saved
        /\ irqActive' \in SUBSET Irqs
        /\ masked' = IF writes("maskSet") THEN masked \cup cmd.data
                     ELSE IF writes("maskClear") THEN masked \ cmd.data ELSE masked
        /\ compareHigh' = IF writes("compareHigh") THEN cmd.data ELSE compareHigh
        /\ armed' = (writes("compareLow") \/ (armed /\ ~writes("compareReset")))
        /\ timer' \in {FALSE, armed}
        /\ waitReset' = (waitReset \/ writes("waitReset"))

(* The memory stage gets its answer; a load that is refused is a trap, and  *)
(* handle_trap ends in halt().                                              *)
Hart(rsp, taken) ==
    LET got == load # NoCmd /\ rsp # NoAnswer
        reads(reg) == got /\ rsp = Answer("int", reg)
        fault == got /\ rsp.port = "none"
        w == load.who
    IN  /\ cmd' = IF taken \/ fault THEN NoCmd ELSE cmd
        /\ load' = IF taken /\ ~cmd.write THEN cmd ELSE IF got THEN NoCmd ELSE load
        /\ clock' = IF reads("lo") THEN [clock EXCEPT ![w] = counter]
                    ELSE IF reads("hi") THEN [clock EXCEPT ![w] = 0] ELSE clock
        /\ seen' = IF reads("active") THEN irqActive \ masked ELSE seen
        /\ wrong' = wrong \cup
                (IF got /\ rsp # Answer(load.port, load.reg) THEN {"answer"} ELSE {}) \cup
                (IF reads("hi") /\ saved # clock[w] \div Low THEN {"clock"} ELSE {}) \cup
                (IF taken /\ cmd.port = "int" /\ cmd.reg = "compareLow" /\ cmd.data # compareHigh
                 THEN {"compare"} ELSE {})
        /\ pc' = IF fault THEN "trapped" ELSE pc
        /\ UNCHANGED <<back, mie>>

Cycle(acks, ready) ==
    \E expired \in IF waitReset \/ pendingAddr # "halt" THEN {FALSE} ELSE BOOLEAN :
        \E rsp \in Responses(ready, expired) :
            LET taken == Taken(rsp, acks) IN
            /\ IoBlock(rsp, taken)
            /\ Slaves(rsp, taken)
            /\ IntCtrl(taken, expired)
            /\ Hart(rsp, taken)

-----------------------------------------------------------------------------
(* The code: pc is the next access.  An access enters the execute stage     *)
(* when the one before has left it, and none does while the pipeline drains *)
(* for an interrupt.                                                        *)

Interrupt == mie /\ (timer \/ ExtInterrupt)

Issue(c, next) ==
    /\ cmd = NoCmd
    /\ pc # "trapped"
    /\ ~Interrupt
    /\ cmd' = c
    /\ pc' = next
    /\ UNCHANGED <<back, mie, load, clock, seen, wrong, pending, port, segment, ddr, slow, gpio, ctrlVars>>

Ctrl(reg, write, data) == Access("int", reg, write, data)

(* Whatever a thread may do with memory and devices, unmapped addresses     *)
(* included: a store to one is lost, a load from one traps.                 *)
AnyAccess ==
    /\ pc = "run"
    /\ \/ \E l \in MemLines, s \in Words, w \in BOOLEAN : Issue(Access("ddr", <<l, s>>, w, {}), "run")
       \/ \E p \in {"slow", "none"}, w \in BOOLEAN : Issue(Access(p, p, w, {}), "run")
       \/ \E w \in BOOLEAN : Issue(Access("gpio", "in", w, {}), "run")
       \/ \E i \in Irqs : Issue(Ctrl("maskClear", TRUE, {i}), "run")

(* wfi. *)
Wfi ==
    \/ pc = "run" /\ Issue(Ctrl("waitReset", TRUE, {}), "halt")
    \/ pc = "halt" /\ Issue(Ctrl("halt", FALSE, {}), "run")

(* Mutation: sleep_ns leaves interrupts enabled. *)
SleepOpen ==
    /\ pc = "run" /\ load = NoCmd /\ cmd = NoCmd /\ ~Interrupt
    /\ pc' = "lo"
    /\ UNCHANGED <<back, mie, cmd, load, clock, seen, wrong, pending, port, segment, ddr, slow, gpio, ctrlVars>>

(* Saros::sleep_ns disables interrupts before it reads the clock.           *)
Sleep ==
    /\ pc = "run" /\ load = NoCmd /\ cmd = NoCmd /\ ~Interrupt
    /\ pc' = "lo"
    /\ mie' = FALSE
    /\ UNCHANGED <<back, cmd, load, clock, seen, wrong, pending, port, segment, ddr, slow, gpio, ctrlVars>>

(* get_cycles_count, then set_timer_cycles; a handler that finds no timer   *)
(* left resets the register.                                                *)
ClockAndTimer ==
    \/ pc = "lo" /\ Issue(Ctrl("lo", FALSE, {}), "hi")
    \/ pc = "hi" /\ Issue(Ctrl("hi", FALSE, {}), "setHigh")
    \/ pc = "setHigh" /\ Issue(Ctrl("compareHigh", TRUE, {Now}), "setLow")
    \/ pc = "setLow" /\ Issue(Ctrl("compareLow", TRUE, {Now}), "leave")
    \/ pc = "setHigh" /\ back # "none" /\ Issue(Ctrl("compareReset", TRUE, {}), "leave")

(* The end of a handler, and of sleep_ns, which sleeps and so enables       *)
(* interrupts.                                                              *)
Leave ==
    /\ pc = "leave" /\ cmd = NoCmd /\ load = NoCmd
    /\ seen' = {}
    /\ pc' = IF back = "none" THEN "run" ELSE back
    /\ back' = "none"
    /\ mie' = TRUE
    /\ UNCHANGED <<cmd, load, clock, wrong, pending, port, segment, ddr, slow, gpio, ctrlVars>>

(* trap_handler, with handleExternalInterrupt or handleTimerInterrupt; the  *)
(* external interrupt has the higher priority.                              *)
Trap ==
    /\ Interrupt
    /\ pc # "trapped" /\ load = NoCmd /\ cmd = NoCmd
    /\ pc' = IF ExtInterrupt THEN "active" ELSE "lo"
    /\ back' = pc
    /\ mie' = FALSE
    /\ UNCHANGED <<cmd, load, clock, seen, wrong, pending, port, segment, ddr, slow, gpio, ctrlVars>>

(* handleExternalInterrupt serves what one read of ACTIVE_IRQS shows: the   *)
(* handlers mask the line, or take its cause away, which it may lose at any *)
(* time here.                                                               *)
Serve ==
    \/ pc = "active" /\ Issue(Ctrl("active", FALSE, {}), "serve")
    \/ pc = "serve" /\ load = NoCmd /\ Issue(Ctrl("maskSet", TRUE, seen), "leave")

BusNext ==
    \/ \E acks \in {TRUE, cmd.port \notin {"ddr", "slow"}}, ready \in {TRUE, port \notin {"ddr", "slow"}} :
            Cycle(acks, ready)
    \/ AnyAccess \/ Wfi \/ Sleep \/ ClockAndTimer \/ Leave \/ Trap \/ Serve

(* The clock ticks and the slaves are ready now and then; code that has     *)
(* begun one of the sequences above goes on, and a pending interrupt is     *)
(* taken when the pipeline is empty.                                        *)
BusFairness ==
    /\ WF_busVars(Cycle(TRUE, TRUE))
    /\ WF_busVars(Wfi \/ ClockAndTimer \/ Leave \/ Serve)
    /\ WF_busVars(Trap)

BusSpec == BusInit /\ [][BusNext]_busVars /\ BusFairness

-----------------------------------------------------------------------------
BusTypeOK ==
    /\ pc \in {"run", "halt", "lo", "hi", "setHigh", "setLow", "leave", "active", "serve", "trapped"}
    /\ back \in {"none", "run", "halt"}
    /\ pending \in BOOLEAN /\ mie \in BOOLEAN /\ gpio \in BOOLEAN
    /\ segment \in Words
    /\ ddr \in MemLines \cup {"idle"} /\ slow \in {"slow", "idle"}
    /\ counter \in 0..(Low * High - 1) /\ saved \in 0..(High - 1)
    /\ irqActive \subseteq Irqs /\ masked \subseteq Irqs

(* Every load gets the answer to its own address, from the device it names, *)
(* and the word of the line it asked for, although a command is taken in    *)
(* the cycle of the answer before, the interrupt controller may give an     *)
(* answer nobody waits for, and an answer is undefined when nothing is      *)
(* pending (io_block.sv:66, 132, timer_int_ctrl.sv:96).                     *)
OwnAnswers == "answer" \notin wrong /\ (pending <=> load # NoCmd)

(* The two halves of the clock that get_cycles_count reads belong together, *)
(* and so do those of the compare register, though handlers read and write  *)
(* the same latches (irq.cpp:48, 62; timer_int_ctrl.sv:31, 41).             *)
WholeClock == wrong \cap {"clock", "compare"} = {}

(* An interrupt line that is active and unmasked does not stay so: whatever *)
(* access or halt the hart waits in ends, and the handler sees the line     *)
(* (irq.cpp:70, 89).                                                        *)
Attended == \A i \in Irqs : []<>(i \notin irqActive \ masked \/ pc = "trapped")

=============================================================================
