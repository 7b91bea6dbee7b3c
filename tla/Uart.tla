-------------------------------- MODULE Uart --------------------------------
(***************************************************************************)
(* The UART: saros/uart.cpp, its two P1C1 rings and uart_ctrl.sv.           *)
(*                                                                         *)
(* All threads have one priority, so another thread gets the hart only      *)
(* while the current one is outside these calls or asleep in one; the two   *)
(* handlers may come between any two steps.  A step of a thread makes one   *)
(* access that a handler or the device can see.                            *)
(***************************************************************************)
EXTENDS Naturals, Sequences

CONSTANTS
    Senders,        \* the threads that call uart_send
    Receivers,      \* the thread that calls uart_recv_char: one or none
    Bytes,
    Outgoing,       \* the bytes threads send
    Incoming,       \* the bytes that may arrive on the line
    Nothing,
    BufferSize,     \* slots of a P1C1
    Slow            \* bytes are slow on the line (see Moves)

Callers == Senders \cup Receivers

ASSUME UartAssumption ==
    /\ Senders \cap Receivers = {}
    /\ \A r, s \in Receivers : r = s
    /\ Outgoing \subseteq Bytes
    /\ Incoming \subseteq Bytes
    /\ Nothing \notin Bytes
    /\ BufferSize \in Nat /\ BufferSize > 1
    /\ Slow \in BOOLEAN

VARIABLES
    txRing, rxRing,     \* uartTxBuffer, uartRxBuffer
    txMasked, rxMasked, \* the two bits of irq_masked in timer_int_ctrl.sv
    event,              \* uartRxReady._active
    current,            \* the thread that has the hart
    stage, reg,         \* where each thread is, and the byte in its hands
    handling,           \* the handlers the interrupt being served still owes
    isRunning,          \* saros.isRunning()
    crashed,            \* an abort or a trap has stopped the threads
    txShift,            \* the byte uart_send is shifting out
    txWire, rxTaken,    \* the last byte sent; the last uart_recv_char returned
    rxData, rxFull,     \* uart_recv_data_latched, intr_recv_ready_o
    acted               \* the directions in which the line has moved a byte
                        \* since the hart last rested (if Slow)

rings == <<txRing, rxRing>>
masks == <<txMasked, rxMasked>>
threads == <<current, stage, reg>>
lines == <<txShift, txWire, rxData, rxFull, acted>>
hart == <<handling, isRunning, crashed>>
uartVars == <<rings, masks, event, threads, hart, lines, rxTaken>>

Sending == {"test", "wfi", "halted", "store", "advance"}

Stages == {"idle", "unmask", "raw"} \cup Sending
          \cup {"empty?", "clear", "wait", "asleep", "read", "consume", "rx unmask"}

Indexes == 0 .. BufferSize - 1

Rings == [slot : [Indexes -> Bytes \cup {Nothing}], prod : Indexes, cons : Indexes]

UartTypeOK ==
    /\ txRing \in Rings /\ rxRing \in Rings
    /\ txMasked \in BOOLEAN /\ rxMasked \in BOOLEAN
    /\ event \in BOOLEAN
    /\ current \in Callers
    /\ stage \in [Callers -> Stages]
    /\ reg \in [Callers -> Bytes \cup {Nothing}]
    /\ handling \subseteq {"tx", "rx"}
    /\ isRunning \in BOOLEAN
    /\ crashed \in BOOLEAN
    /\ txShift \in Bytes \cup {Nothing}
    /\ txWire \in Bytes \cup {Nothing}
    /\ rxTaken \in Bytes \cup {Nothing}
    /\ rxData \in Bytes \cup {Nothing}
    /\ rxFull \in BOOLEAN
    /\ acted \subseteq {"tx", "rx"}

(* After uartInit.  If an interrupt cut Saros::run short, _running is never *)
(* set.                                                                     *)
UartInit ==
    /\ txRing = [slot |-> [i \in Indexes |-> Nothing], prod |-> 0, cons |-> 0]
    /\ rxRing = txRing
    /\ txMasked = TRUE
    /\ rxMasked = FALSE
    /\ event = TRUE
    /\ current \in Callers
    /\ stage = [t \in Callers |-> "idle"]
    /\ reg = [t \in Callers |-> Nothing]
    /\ handling = {}
    /\ isRunning \in BOOLEAN
    /\ crashed = FALSE
    /\ txShift = Nothing
    /\ txWire = Nothing
    /\ rxTaken = Nothing
    /\ rxData = Nothing
    /\ rxFull = FALSE
    /\ acted = {}

-----------------------------------------------------------------------------
(* P1C1.                                                                    *)

NextIndex(i) == (i + 1) % BufferSize

IsEmpty(ring) == ring.prod = ring.cons

(* Mutation (so is every definition said to be one: of the next): a full    *)
(* ring is not told from one with room.                                     *)
IsFullNever(ring) == FALSE

IsFull(ring) == NextIndex(ring.prod) = ring.cons

Stored(ring, b) == [ring EXCEPT !.slot[ring.prod] = b]

Produced(ring) == [ring EXCEPT !.prod = NextIndex(@)]

Oldest(ring) == ring.slot[ring.cons]

Consumed(ring) == [ring EXCEPT !.cons = NextIndex(@)]

-----------------------------------------------------------------------------
(* Threads.                                                                 *)

AtStage(t, place) ==
    /\ ~crashed
    /\ handling = {}
    /\ current = t
    /\ stage[t] = place

GotoStage(t, place) == stage' = [stage EXCEPT ![t] = place]

Switch(t) ==
    /\ ~crashed
    /\ handling = {}
    /\ stage[current] \in {"idle", "asleep"}
    /\ stage[t] # "asleep"
    /\ current' = t
    /\ UNCHANGED <<rings, masks, event, stage, reg, hart, lines, rxTaken>>

(* uart_send. *)
Send(t, c) ==
    /\ AtStage(t, "idle")
    /\ GotoStage(t, IF isRunning THEN "test" ELSE "raw")
    /\ reg' = [reg EXCEPT ![t] = c]
    /\ UNCHANGED <<rings, masks, event, current, hart, lines, rxTaken>>

(* The bus does not acknowledge the write while the UART is busy. *)
SendRaw(t) ==
    /\ AtStage(t, "raw")
    /\ txShift = Nothing
    /\ txShift' = reg[t]
    /\ GotoStage(t, "idle")
    /\ UNCHANGED <<rings, masks, event, current, reg, hart, txWire, rxData, rxFull,
                   acted, rxTaken>>

SendTest(t) ==
    /\ AtStage(t, "test")
    /\ GotoStage(t, IF IsFull(txRing) THEN "wfi" ELSE "store")
    /\ UNCHANGED <<rings, masks, event, current, reg, hart, lines, rxTaken>>

(* The read of REG_HALT stalls the hart: no interrupt is taken meanwhile. *)
SendWait(t) ==
    /\ AtStage(t, "wfi")
    /\ GotoStage(t, "halted")
    /\ UNCHANGED <<rings, masks, event, current, reg, hart, lines, rxTaken>>

Pending ==
    {h \in {"tx", "rx"} :
        IF h = "tx" THEN txShift = Nothing /\ ~txMasked ELSE rxFull /\ ~rxMasked}

SendResume(t) ==
    /\ AtStage(t, "halted")
    /\ Pending # {}
    /\ GotoStage(t, "test")
    /\ UNCHANGED <<rings, masks, event, current, reg, hart, lines, rxTaken>>

(* Mutation: the byte is stored after its slot is published. *)
SendAdvanceFirst(t) ==
    /\ AtStage(t, "store")
    /\ txRing' = Produced(txRing)
    /\ GotoStage(t, "unmask")
    /\ UNCHANGED <<rxRing, masks, event, current, reg, hart, lines, rxTaken>>

SendStore(t) ==
    /\ AtStage(t, "store")
    /\ txRing' = Stored(txRing, reg[t])
    /\ GotoStage(t, "advance")
    /\ UNCHANGED <<rxRing, masks, event, current, reg, hart, lines, rxTaken>>

SendAdvance(t) ==
    /\ AtStage(t, "advance")
    /\ txRing' = Produced(txRing)
    /\ GotoStage(t, "unmask")
    /\ UNCHANGED <<rxRing, masks, event, current, reg, hart, lines, rxTaken>>

(* Mutation: no unmask. *)
SendForget(t) ==
    /\ AtStage(t, "unmask")
    /\ GotoStage(t, "idle")
    /\ UNCHANGED <<rings, masks, event, current, reg, hart, lines, rxTaken>>

SendUnmask(t) ==
    /\ AtStage(t, "unmask")
    /\ txMasked' = FALSE
    /\ GotoStage(t, "idle")
    /\ UNCHANGED <<rings, rxMasked, event, current, reg, hart, lines, rxTaken>>

(* uart_recv_char. *)
RecvTest(t) ==
    /\ AtStage(t, "idle") \/ AtStage(t, "empty?")
    /\ GotoStage(t, IF IsEmpty(rxRing) THEN "clear" ELSE "read")
    /\ UNCHANGED <<rings, masks, event, current, reg, hart, lines, rxTaken>>

RecvClear(t) ==
    /\ AtStage(t, "clear")
    /\ event' = FALSE
    /\ GotoStage(t, "wait")
    /\ UNCHANGED <<rings, masks, current, reg, hart, lines, rxTaken>>

(* Event::wait, whose last test and sleep no interrupt separates. *)
RecvWait(t) ==
    /\ AtStage(t, "wait")
    /\ GotoStage(t, IF event THEN "empty?" ELSE "asleep")
    /\ UNCHANGED <<rings, masks, event, current, reg, hart, lines, rxTaken>>

RecvRead(t) ==
    /\ AtStage(t, "read")
    /\ reg' = [reg EXCEPT ![t] = Oldest(rxRing)]
    /\ GotoStage(t, "consume")
    /\ UNCHANGED <<rings, masks, event, current, hart, lines, rxTaken>>

RecvConsume(t) ==
    /\ AtStage(t, "consume")
    /\ rxRing' = Consumed(rxRing)
    /\ rxTaken' = reg[t]
    /\ GotoStage(t, "rx unmask")
    /\ UNCHANGED <<txRing, masks, event, current, reg, hart, lines>>

(* Mutation: no unmask. *)
RecvForget(t) ==
    /\ AtStage(t, "rx unmask")
    /\ GotoStage(t, "idle")
    /\ UNCHANGED <<rings, masks, event, current, reg, hart, lines, rxTaken>>

RecvUnmask(t) ==
    /\ AtStage(t, "rx unmask")
    /\ rxMasked' = FALSE
    /\ GotoStage(t, "idle")
    /\ UNCHANGED <<rings, txMasked, event, current, reg, hart, lines, rxTaken>>

-----------------------------------------------------------------------------
(* Interrupts.                                                              *)

(* handleExternalInterrupt reads the active interrupts once. *)
UartIrq ==
    /\ ~crashed
    /\ handling = {}
    /\ stage[current] # "halted"
    /\ Pending # {}
    /\ handling' = Pending
    /\ UNCHANGED <<rings, masks, event, threads, isRunning, crashed, lines, rxTaken>>

Serving(h) == ~crashed /\ h \in handling /\ (h = "rx" => "tx" \notin handling)

FeedTx ==
    /\ txShift = Nothing
    /\ ~IsEmpty(txRing)
    /\ txShift' = Oldest(txRing)
    /\ txRing' = Consumed(txRing)

TxHandlerSend ==
    /\ Serving("tx")
    /\ FeedTx
    /\ UNCHANGED <<rxRing, masks, event, threads, hart, txWire, rxData, rxFull, acted,
                   rxTaken>>

(* Mutation: the interrupt is masked whatever is left. *)
TxHandlerMask ==
    /\ Serving("tx")
    /\ txShift # Nothing \/ IsEmpty(txRing)
    /\ txMasked' = TRUE
    /\ handling' = handling \ {"tx"}
    /\ UNCHANGED <<rings, rxMasked, event, threads, isRunning, crashed, lines, rxTaken>>

TxHandlerEnd ==
    /\ Serving("tx")
    /\ txShift # Nothing \/ IsEmpty(txRing)
    /\ txMasked' = (txMasked \/ IsEmpty(txRing))
    /\ handling' = handling \ {"tx"}
    /\ UNCHANGED <<rings, rxMasked, event, threads, isRunning, crashed, lines, rxTaken>>

RxReadable == rxFull /\ ~IsFull(rxRing)

(* uart_ctrl acknowledges no access to its data register, not even a read,  *)
(* while it is sending: the handler waits on the bus.                       *)
RxHandlerTake ==
    /\ Serving("rx")
    /\ RxReadable
    /\ txShift = Nothing
    /\ rxRing' = Produced(Stored(rxRing, rxData))
    /\ rxFull' = FALSE
    /\ UNCHANGED <<txRing, masks, event, threads, hart, txShift, txWire, rxData, acted,
                   rxTaken>>

(* The event is set, which wakes the reader. *)
RxHandlerEnd ==
    /\ Serving("rx")
    /\ ~RxReadable
    /\ event' = TRUE
    /\ stage' = [t \in Callers |-> IF stage[t] = "asleep" THEN "empty?" ELSE stage[t]]
    /\ rxMasked' = (rxMasked \/ IsFull(rxRing))
    /\ handling' = handling \ {"rx"}
    /\ UNCHANGED <<rings, txMasked, current, reg, isRunning, crashed, lines, rxTaken>>

-----------------------------------------------------------------------------
(* An abort or a trap sends what is left without interrupts.                *)

Crash ==
    /\ ~crashed
    /\ stage[current] # "halted"
    /\ crashed' = TRUE
    /\ UNCHANGED <<rings, masks, event, threads, handling, isRunning, lines, rxTaken>>

(* Mutation: only what can be sent at once is. *)
FlushOnce ==
    /\ crashed
    /\ FeedTx
    /\ txRing'.cons = txRing.prod
    /\ UNCHANGED <<rxRing, masks, event, threads, hart, txWire, rxData, rxFull, acted,
                   rxTaken>>

(* uart_sync_flush_buffer; each write waits on the bus. *)
Flush ==
    /\ crashed
    /\ FeedTx
    /\ UNCHANGED <<rxRing, masks, event, threads, hart, txWire, rxData, rxFull, acted,
                   rxTaken>>

UartHalted == crashed /\ IsEmpty(txRing) /\ UNCHANGED uartVars

-----------------------------------------------------------------------------
(* The line.                                                                *)

(* The hart waits for work, for an interrupt, or on the bus to send. *)
AtRest == crashed \/ (handling = {} /\ stage[current] \in {"idle", "asleep", "halted", "raw"})

(* The receive handler waits on the bus. *)
Stalled == Serving("rx") /\ RxReadable /\ txShift # Nothing

(* A byte takes longer on the line than any code that does not wait.  If    *)
(* that is assumed, one at most gets through each way between two rests of  *)
(* the hart, besides the one the receive handler waits for.                 *)
Moves(direction) ==
    CASE ~Slow \/ AtRest -> acted' = {}
      [] Slow /\ ~AtRest /\ direction = "tx" /\ Stalled -> acted' = acted
      [] OTHER -> direction \notin acted /\ acted' = acted \cup {direction}

LineOut ==
    /\ txShift # Nothing
    /\ txWire' = txShift
    /\ txShift' = Nothing
    /\ Moves("tx")
    /\ UNCHANGED <<rings, masks, event, threads, hart, rxData, rxFull, rxTaken>>

(* A byte the handler has not fetched yet is overwritten. *)
LineIn(c) ==
    /\ rxData' = c
    /\ rxFull' = TRUE
    /\ Moves("rx")
    /\ UNCHANGED <<rings, masks, event, threads, hart, txShift, txWire, rxTaken>>

-----------------------------------------------------------------------------
SendStep(t) == SendRaw(t) \/ SendTest(t) \/ SendWait(t) \/ SendResume(t)
               \/ SendStore(t) \/ SendAdvance(t) \/ SendUnmask(t)

RecvStep(t) == RecvTest(t) \/ RecvClear(t) \/ RecvWait(t) \/ RecvRead(t)
               \/ RecvConsume(t) \/ RecvUnmask(t)

Handler == TxHandlerSend \/ TxHandlerEnd \/ RxHandlerTake \/ RxHandlerEnd

UartNext ==
    \/ \E t \in Callers : Switch(t)
    \/ \E t \in Callers, c \in Outgoing : Send(t, c)
    \/ \E t \in Callers : SendStep(t)
    \/ \E t \in Receivers : RecvStep(t)
    \/ UartIrq
    \/ Handler
    \/ Crash \/ Flush \/ UartHalted
    \/ LineOut
    \/ \E c \in Incoming : LineIn(c)

UartSpec == UartInit /\ [][UartNext]_uartVars

(* The hart and the line do not stop; nobody has to call. *)
UartFairness ==
    /\ \A t \in Callers : WF_uartVars(SendStep(t))
    /\ SF_uartVars(UartIrq)
    /\ WF_uartVars(Handler)
    /\ WF_uartVars(Flush)
    /\ WF_uartVars(LineOut)

UartLiveSpec == UartSpec /\ UartFairness

-----------------------------------------------------------------------------
(* Safety.                                                                  *)

(* The transmit interrupt is never left masked over a byte in the buffer,   *)
(* but for the moment before the thread that put it there unmasks it:       *)
(* handler and thread race for the mask (uart.cpp:40, 77).                  *)
TxNotForgotten ==
    ~crashed /\ ~IsEmpty(txRing) => ~txMasked \/ \E t \in Callers : stage[t] = "unmask"

(* The receive interrupt is masked only while the buffer is full or the     *)
(* reader that made room is about to unmask it (uart.cpp:51, 97).           *)
RxNotDeaf ==
    rxMasked => IsFull(rxRing) \/ \E t \in Receivers : stage[t] = "rx unmask"

-----------------------------------------------------------------------------
(* Each direction is a pipe.                                                *)

Contents(ring) ==
    [i \in 1 .. (ring.prod - ring.cons + BufferSize) % BufferSize |->
        ring.slot[(ring.cons + i - 1) % BufferSize]]

Held(b) == IF b = Nothing THEN <<>> ELSE <<b>>

Offerers == {t \in Callers : stage[t] \in Sending \cup {"raw"}}

Tx == INSTANCE Pipe WITH
        Capacity <- BufferSize,
        offered <- IF Offerers = {} THEN Nothing ELSE reg[CHOOSE t \in Offerers : TRUE],
        pipe <- Held(txShift) \o Contents(txRing),
        taken <- txWire

(* What is sent goes out once each and in order, through the ring, past it  *)
(* before the kernel runs, and out of a ring left by a crash.               *)
SendsInOrder == Tx!Spec

Rx == INSTANCE Pipe WITH
        Capacity <- BufferSize - 1,
        offered <- IF rxFull THEN rxData ELSE Nothing,
        pipe <- Contents(rxRing),
        taken <- rxTaken

(* uart_recv_char returns what the handler fetched, once each and in order; *)
(* only what the handler does not fetch in time is lost.                    *)
ReceivesInOrder == Rx!Spec

-----------------------------------------------------------------------------
(* Liveness.                                                                *)

(* A full buffer does not hang its sender: wfi, which follows a test that   *)
(* an interrupt may have outdated, is always ended by another interrupt.    *)
SendReturns ==
    \A t \in Callers : stage[t] \in Sending ~> stage[t] = "idle" \/ crashed

(* Whatever a crash finds in the buffer is sent. *)
CrashFlushes == crashed ~> IsEmpty(txRing) /\ txShift = Nothing

=============================================================================
