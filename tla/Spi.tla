-------------------------------- MODULE Spi --------------------------------
(***************************************************************************)
(* spi_ctrl (spi.sv), which reads a command from memory, sends it to the    *)
(* flash and writes the answer to memory, a line at a time; and the flash   *)
(* as spi_flash.cpp relies on it.                                           *)
(*                                                                         *)
(* One half runs on the clock of the CPU and one on that of the flash, at   *)
(* any relative speed.  They share two four-phase handshakes, one for each  *)
(* direction, and the counts in regs, which the second half samples when a  *)
(* frame begins.  A frame is one step; no command here is longer than a     *)
(* line.  A byte of memory is the address in flash that it came from.       *)
(***************************************************************************)
EXTENDS Integers, Sequences, TLC

CONSTANTS
    LineBytes       \* MEM_DATA_WIDTH_BYTES

(* The longest command, the last but one of the rescue, fits into a line.   *)
ASSUME SpiAssumption == LineBytes \in Nat /\ LineBytes * 8 >= 33

VARIABLES
    mem,                        \* the bytes of memory that have been written
    (* CPU clock *)
    regs, from, to,             \* the registers; from is the command itself
    active, sendLeft, recvLeft, \* cpu_transaction_active, cpu_{send,recv}_counter
    outLine,                    \* cpu_data_buffer
    readValid, writeAck,
    (* SPI clock *)
    spi, frame, left, shift,    \* spi_state, what it sampled, spi_recv_cycles, spi_shift_buffer
    readAck, writeValid,
    (* the flash *)
    flash,
    (* history: transactions started whose frame has not begun, and whether *)
    (* a frame was not the transaction it should have been                  *)
    owed, misframed

cpuSide == <<mem, regs, from, to, active, sendLeft, recvLeft, outLine, readValid, writeAck>>
spiSide == <<spi, frame, left, shift, readAck, writeValid, flash>>
spiVars == <<cpuSide, spiSide, owed, misframed>>

Junk == -1
Zero == -2

NoCommand == [op |-> "none", arg |-> 0]

Counts(quad, dummy, send, recv) == [quad |-> quad, dummy |-> dummy, send |-> send, recv |-> recv]

(* A flash that has just been powered up, or one that the last boot left    *)
(* in quad mode.                                                            *)
PowerUp == [quad |-> FALSE, dummy |-> 15, enabled |-> FALSE, rescued |-> 0]

Left == [quad |-> TRUE, dummy |-> 3, enabled |-> FALSE, rescued |-> 0]

SpiInit ==
    /\ mem = <<>>
    /\ regs = Counts(FALSE, 0, 0, 0) /\ from = NoCommand /\ to = 0
    /\ active = FALSE /\ sendLeft = 0 /\ recvLeft = 0
    /\ outLine = NoCommand /\ readValid = FALSE /\ writeAck = FALSE
    /\ spi = "IDLE" /\ frame = [count |-> regs, cmd |-> NoCommand]
    /\ left = 0 /\ shift = [at |-> Junk, n |-> 0]
    /\ readAck = FALSE /\ writeValid = FALSE
    /\ flash \in {PowerUp, Left}
    /\ owed = <<>> /\ misframed = FALSE

-----------------------------------------------------------------------------
(* The registers.  Every access waits for the transaction to end.           *)

CtrlAck == ~active

Bytes(cycles, quad) == IF quad THEN cycles \div 2 ELSE cycles \div 8

(* Mutation: the size is rounded down to lines. *)
FullLines(cycles, quad) == (IF quad THEN cycles * 4 ELSE cycles) \div (LineBytes * 8)

LinesOf(cycles, quad) ==
    ((IF quad THEN cycles * 4 ELSE cycles) + LineBytes * 8 - 1) \div (LineBytes * 8)

WriteCounts(c) ==
    /\ CtrlAck
    /\ regs' = c
    /\ UNCHANGED <<mem, from, to, active, sendLeft, recvLeft, outLine, readValid, writeAck,
                   spiSide, owed, misframed>>

Trigger(command, address) ==
    /\ CtrlAck
    /\ from' = command /\ to' = address
    /\ active' = TRUE
    /\ sendLeft' = LinesOf(regs.send, regs.quad)
    /\ recvLeft' = LinesOf(regs.recv, regs.quad)
    /\ owed' = Append(owed, [count |-> regs, cmd |-> command])
    /\ UNCHANGED <<mem, regs, outLine, readValid, writeAck, spiSide, misframed>>

(* The SPI side has sampled the counts of the transaction the hart has been *)
(* told is over; see the README for why this is an assumption.              *)
Begun == readValid => readAck

-----------------------------------------------------------------------------
(* CPU clock. *)

FetchLine ==
    /\ active /\ sendLeft > 0
    /\ ~readValid /\ ~readAck
    /\ outLine' = from
    /\ sendLeft' = sendLeft - 1
    /\ readValid' = TRUE
    /\ UNCHANGED <<mem, regs, from, to, active, recvLeft, writeAck, spiSide, owed, misframed>>

(* Memory m after the bytes f have been written over it.                    *)
Written(f, m) == [a \in DOMAIN f \cup DOMAIN m |-> IF a \in DOMAIN f THEN f[a] ELSE m[a]]

(* A line that is not full has its bytes at the end.  The line goes where   *)
(* the address points to, less its low bits.                                *)
StoreLineThenAt(next) ==
    /\ active /\ sendLeft = 0
    /\ writeValid /\ ~writeAck
    /\ LET base == to - (to % LineBytes) IN
       mem' = Written([a \in base..(base + LineBytes - 1) |->
                          LET i == a - base - (LineBytes - shift.n) IN
                          IF i < 0 \/ shift.at = Junk THEN Junk ELSE shift.at + i], mem)
    /\ to' = next
    /\ recvLeft' = recvLeft - 1
    /\ writeAck' = TRUE
    /\ UNCHANGED <<regs, from, active, sendLeft, outLine, readValid, spiSide, owed, misframed>>

(* Mutation: the address stays at the first line. *)
StoreLineAgain == StoreLineThenAt(to)

StoreLine == StoreLineThenAt(to + LineBytes)

EndTransaction ==
    /\ active /\ sendLeft = 0 /\ recvLeft = 0
    /\ active' = FALSE
    /\ UNCHANGED <<mem, regs, from, to, sendLeft, recvLeft, outLine, readValid, writeAck,
                   spiSide, owed, misframed>>

CpuHandshake ==
    /\ \/ readValid /\ readAck /\ readValid' = FALSE /\ UNCHANGED writeAck
       \/ writeAck /\ ~writeValid /\ writeAck' = FALSE /\ UNCHANGED readValid
    /\ UNCHANGED <<mem, regs, from, to, active, sendLeft, recvLeft, outLine, spiSide, owed, misframed>>

-----------------------------------------------------------------------------
(* The flash.  It understands a frame sent in the mode it is in, and the    *)
(* sequence of short frames that takes it out of any mode.                  *)

Rescue == <<7, 9, 13, 17, 25, 33, 16>>

Understood(f, c) == c.count.quad = f.quad

FlashAfter(f, c) ==
    IF c.cmd.op = "rescue" THEN
        IF f.rescued + 1 = Len(Rescue) /\ c.count.send = Rescue[f.rescued + 1] THEN PowerUp
        ELSE [f EXCEPT !.rescued = IF c.count.send = Rescue[@ + 1] THEN @ + 1 ELSE 0]
    ELSE IF ~Understood(f, c) THEN f
    ELSE CASE c.cmd.op = "enable" -> [f EXCEPT !.enabled = TRUE]
           [] c.cmd.op = "dummy" /\ f.enabled -> [f EXCEPT !.dummy = c.cmd.arg, !.enabled = FALSE]
           [] c.cmd.op = "quad" /\ f.enabled -> [f EXCEPT !.quad = c.cmd.arg = 1, !.enabled = FALSE]
           [] OTHER -> f

FlashData == IF Understood(flash, frame) /\ frame.cmd.op = "read" /\ frame.count.dummy = flash.dummy
             THEN frame.cmd.arg ELSE Junk

-----------------------------------------------------------------------------
(* SPI clock. *)

(* SEND_STARTING. *)
BeginFrame ==
    /\ spi = "IDLE" /\ readValid
    /\ frame' = [count |-> regs, cmd |-> outLine]
    /\ spi' = "SEND"
    /\ readAck' = TRUE
    /\ owed' = IF owed = <<>> THEN owed ELSE Tail(owed)
    /\ misframed' = (misframed \/ owed = <<>> \/ Head(owed) # frame')
    /\ UNCHANGED <<cpuSide, left, shift, writeValid, flash>>

(* Mutation: the end of the handshake before is not waited for. *)
BeginAtOnce == BeginFrame

Begin == ~readAck /\ BeginFrame

(* SEND_ACTIVE and DUMMY. *)
Send ==
    /\ spi = "SEND"
    /\ spi' = IF frame.count.recv = 0 THEN "IDLE" ELSE "RECV_ACTIVE"
    /\ left' = Bytes(frame.count.recv, frame.count.quad)
    /\ shift' = [at |-> FlashData, n |-> 0]
    /\ flash' = FlashAfter(flash, frame)
    /\ UNCHANGED <<cpuSide, frame, readAck, writeValid, owed, misframed>>

Receive ==
    /\ spi = "RECV_ACTIVE"
    /\ LET n == IF left < LineBytes THEN left ELSE LineBytes IN
       /\ left' = left - n
       /\ shift' = [at |-> IF shift.at = Junk THEN Junk ELSE shift.at + shift.n, n |-> n]
       /\ spi' = IF left = n THEN "IDLE_PENDING" ELSE "RECV_PENDING"
    /\ UNCHANGED <<cpuSide, frame, readAck, writeValid, flash, owed, misframed>>

OfferLine ==
    /\ spi \in {"RECV_PENDING", "IDLE_PENDING"}
    /\ ~writeValid /\ ~writeAck
    /\ writeValid' = TRUE
    /\ UNCHANGED <<cpuSide, spi, frame, left, shift, readAck, flash, owed, misframed>>

LineTaken ==
    /\ writeValid /\ writeAck
    /\ writeValid' = FALSE
    /\ spi' = IF spi = "RECV_PENDING" THEN "RECV_ACTIVE" ELSE "IDLE"
    /\ UNCHANGED <<cpuSide, frame, left, shift, readAck, flash, owed, misframed>>

DropReadAck ==
    /\ readAck /\ ~readValid
    /\ readAck' = FALSE
    /\ UNCHANGED <<cpuSide, spi, frame, left, shift, writeValid, flash, owed, misframed>>

Clocks ==
    \/ FetchLine \/ StoreLine \/ EndTransaction \/ CpuHandshake
    \/ Begin \/ Send \/ Receive \/ OfferLine \/ LineTaken \/ DropReadAck

=============================================================================
