----------------------------- MODULE UartProofs -----------------------------
(***************************************************************************)
(* For rings of any size, any threads and any bytes: each direction of the  *)
(* UART is a pipe, and no interrupt stays masked over work to do.           *)
(***************************************************************************)
EXTENDS Uart, SequenceTheorems, TLAPS

-----------------------------------------------------------------------------
(* Indexes of a ring.                                                       *)

(* The bytes in a ring, counted without a division. *)
Fill(ring) == IF ring.prod >= ring.cons THEN ring.prod - ring.cons
              ELSE ring.prod - ring.cons + BufferSize

(* The slot of the i-th of them. *)
SlotOf(ring, i) == IF ring.cons + i - 1 < BufferSize THEN ring.cons + i - 1
                  ELSE ring.cons + i - 1 - BufferSize

(* What is at most once around the ring is brought back by one subtraction. *)
LEMMA Around ==
    ASSUME NEW i \in 0 .. 2 * BufferSize - 1
    PROVE  i % BufferSize = IF i < BufferSize THEN i ELSE i - BufferSize
<1>1. BufferSize \in Nat /\ BufferSize > 1
  BY UartAssumption
<1>2. CASE i < BufferSize
  BY <1>1, <1>2
<1>3. CASE i >= BufferSize
  BY <1>1, <1>3
<1> QED
  BY <1>1, <1>2, <1>3

(* The successor of an index is one. *)
LEMMA NextIndexIs ==
    ASSUME NEW i \in Indexes
    PROVE  /\ NextIndex(i) = IF i = BufferSize - 1 THEN 0 ELSE i + 1
           /\ NextIndex(i) \in Indexes
<1>1. BufferSize \in Nat /\ BufferSize > 1 /\ i + 1 \in 0 .. 2 * BufferSize - 1
  BY UartAssumption DEF Indexes
<1> QED
  BY <1>1, Around DEF NextIndex, Indexes

(* A ring is a sequence of as many slots as it is filled. *)
LEMMA ContentsIs ==
    ASSUME NEW ring \in Rings
    PROVE  /\ Fill(ring) \in 0 .. BufferSize - 1
           /\ Contents(ring) \in Seq(Bytes \cup {Nothing})
           /\ Len(Contents(ring)) = Fill(ring)
           /\ \A i \in 1 .. Fill(ring) : Contents(ring)[i] = ring.slot[SlotOf(ring, i)]
           /\ IsEmpty(ring) <=> Fill(ring) = 0
           /\ IsFull(ring) <=> Fill(ring) = BufferSize - 1
<1>1. /\ BufferSize \in Nat /\ BufferSize > 1
      /\ ring.prod \in 0 .. BufferSize - 1 /\ ring.cons \in 0 .. BufferSize - 1
      /\ ring.slot \in [Indexes -> Bytes \cup {Nothing}]
  BY UartAssumption DEF Rings, Indexes
<1>2. Fill(ring) \in 0 .. BufferSize - 1
  BY <1>1 DEF Fill
<1>3. (ring.prod - ring.cons + BufferSize) % BufferSize = Fill(ring)
  <2>1. ring.prod - ring.cons + BufferSize \in 0 .. 2 * BufferSize - 1
    BY <1>1
  <2> QED
    BY <1>1, <2>1, Around DEF Fill
<1>4. ASSUME NEW i \in 1 .. Fill(ring)
      PROVE  /\ (ring.cons + i - 1) % BufferSize = SlotOf(ring, i)
             /\ (ring.cons + i - 1) % BufferSize \in Indexes
  <2>1. PICK k \in 0 .. 2 * BufferSize - 1 : k = ring.cons + i - 1
    BY <1>1, <1>2
  <2>2. k % BufferSize = IF k < BufferSize THEN k ELSE k - BufferSize
    BY <2>1, Around
  <2>3. k % BufferSize \in Indexes
    BY <1>1, <2>1, <2>2 DEF Indexes
  <2> QED
    BY <1>1, <1>2, <2>1, <2>2, <2>3 DEF SlotOf
<1>5. Contents(ring) = [i \in 1 .. Fill(ring) |-> ring.slot[(ring.cons + i - 1) % BufferSize]]
  BY <1>3 DEF Contents
<1>6. Contents(ring) \in [1 .. Fill(ring) -> Bytes \cup {Nothing}]
  BY <1>1, <1>4, <1>5
<1>7. Contents(ring) \in Seq(Bytes \cup {Nothing}) /\ Len(Contents(ring)) = Fill(ring)
  BY <1>2, <1>6, SeqDef
<1>8. /\ IsEmpty(ring) <=> Fill(ring) = 0
      /\ IsFull(ring) <=> Fill(ring) = BufferSize - 1
  <2>1. NextIndex(ring.prod) = IF ring.prod = BufferSize - 1 THEN 0 ELSE ring.prod + 1
    BY <1>1, NextIndexIs DEF Indexes
  <2> QED
    BY <1>1, <2>1 DEF IsEmpty, IsFull, Fill
<1> QED
  BY <1>2, <1>4, <1>5, <1>7, <1>8

(* A sequence is known by its length and its elements. *)
LEMMA SameSequence ==
    ASSUME NEW S, NEW s \in Seq(S), NEW t \in Seq(S), Len(s) = Len(t),
           \A i \in 1 .. Len(s) : s[i] = t[i]
    PROVE  s = t
  BY SeqEqual

(* Storing a byte in the free slot changes no byte of the ring. *)
LEMMA StoredKeeps ==
    ASSUME NEW ring \in Rings, NEW b \in Bytes \cup {Nothing}
    PROVE  /\ Stored(ring, b) \in Rings
           /\ Stored(ring, b).slot[ring.prod] = b
           /\ Stored(ring, b).prod = ring.prod
           /\ Stored(ring, b).cons = ring.cons
           /\ Contents(Stored(ring, b)) = Contents(ring)
<1> DEFINE new == Stored(ring, b)
<1>1. /\ new \in Rings
      /\ new.prod = ring.prod /\ new.cons = ring.cons
      /\ new.slot = [ring.slot EXCEPT ![ring.prod] = b]
      /\ ring.prod \in Indexes /\ ring.cons \in Indexes
      /\ ring.slot \in [Indexes -> Bytes \cup {Nothing}]
  BY DEF Stored, Rings
<1> HIDE DEF new
<1>2. Fill(new) = Fill(ring) /\ Fill(ring) \in 0 .. BufferSize - 1
  BY <1>1, ContentsIs DEF Fill
<1>3. ASSUME NEW i \in 1 .. Fill(ring)
      PROVE  Contents(new)[i] = Contents(ring)[i]
  <2>1. SlotOf(ring, i) \in Indexes /\ SlotOf(ring, i) # ring.prod /\ SlotOf(new,
        i) = SlotOf(ring, i)
    BY <1>1, <1>2, UartAssumption DEF SlotOf, Fill, Indexes
  <2>2. new.slot[SlotOf(ring, i)] = ring.slot[SlotOf(ring, i)]
    BY <1>1, <2>1
  <2> QED
    BY <1>1, <1>2, <2>1, <2>2, ContentsIs
<1>4. Contents(new) = Contents(ring)
  <2>1. /\ Contents(new) \in Seq(Bytes \cup {Nothing}) /\ Len(Contents(new)) = Fill(ring)
        /\ Contents(ring) \in Seq(Bytes \cup {Nothing}) /\ Len(Contents(ring)) = Fill(ring)
    BY <1>1, <1>2, ContentsIs
  <2> QED
    BY <1>3, <2>1, SameSequence
<1> QED
  BY <1>1, <1>4 DEF new

(* Publishing the stored byte puts it at the end of the ring. *)
LEMMA ProducedAppends ==
    ASSUME NEW ring \in Rings, ~IsFull(ring)
    PROVE  /\ Produced(ring) \in Rings
           /\ ~IsEmpty(Produced(ring))
           /\ Len(Contents(ring)) < BufferSize - 1
           /\ Contents(Produced(ring)) = Append(Contents(ring), ring.slot[ring.prod])
<1> DEFINE new == Produced(ring)
<1>1. /\ new \in Rings
      /\ new.prod = (IF ring.prod = BufferSize - 1 THEN 0 ELSE ring.prod + 1)
      /\ new.cons = ring.cons /\ new.slot = ring.slot
      /\ ring.prod \in Indexes /\ ring.cons \in Indexes
      /\ ring.slot \in [Indexes -> Bytes \cup {Nothing}]
  BY NextIndexIs DEF Produced, Rings
<1> HIDE DEF new
<1>2. BufferSize \in Nat /\ BufferSize > 1
  BY UartAssumption
<1>3. Fill(ring) \in 0 .. BufferSize - 2 /\ Fill(new) = Fill(ring) + 1
  <2>1. Fill(ring) \in 0 .. BufferSize - 1 /\ Fill(ring) # BufferSize - 1
    BY <1>2, ContentsIs
  <2>2. CASE ring.prod = BufferSize - 1
    <3>1. new.prod = 0
      BY <1>1, <2>2
    <3> QED
      BY <1>1, <1>2, <2>1, <2>2, <3>1 DEF Fill, Indexes
  <2>3. CASE ring.prod # BufferSize - 1
    <3>1. /\ new.prod = ring.prod + 1 /\ ring.prod \in 0 .. BufferSize - 2
          /\ new.cons = ring.cons /\ ring.cons \in 0 .. BufferSize - 1
      BY <1>1, <1>2, <2>3 DEF Indexes
    <3>2. CASE ring.prod >= ring.cons
      BY <1>2, <3>1, <3>2 DEF Fill
    <3>3. CASE ring.prod + 1 < ring.cons
      BY <1>2, <3>1, <3>3 DEF Fill
    <3>4. ring.prod + 1 # ring.cons
      BY <1>2, <2>1, <3>1 DEF Fill
    <3> QED
      BY <3>1, <3>2, <3>3, <3>4
  <2> QED
    BY <2>2, <2>3
<1>4. ASSUME NEW i \in 1 .. Fill(ring) + 1
      PROVE  Contents(new)[i] = IF i <= Fill(ring) THEN Contents(ring)[i]
                                ELSE ring.slot[ring.prod]
  <2>1. SlotOf(new, i) = SlotOf(ring, i)
    BY <1>1 DEF SlotOf
  <2>2. ASSUME i = Fill(ring) + 1 PROVE SlotOf(ring, i) = ring.prod
    <3>1. SlotOf(ring, i) = IF ring.cons + Fill(ring) < BufferSize
                           THEN ring.cons + Fill(ring)
                           ELSE ring.cons + Fill(ring) - BufferSize
      BY <1>1, <1>2, <1>3, <2>2 DEF SlotOf, Indexes
    <3> QED
      BY <1>1, <1>2, <3>1 DEF Fill, Indexes
  <2>3. Contents(new)[i] = ring.slot[SlotOf(ring, i)]
    BY <1>1, <1>3, <2>1, ContentsIs
  <2>4. i <= Fill(ring) => Contents(ring)[i] = ring.slot[SlotOf(ring, i)]
    BY <1>3, ContentsIs
  <2> QED
    BY <1>3, <2>2, <2>3, <2>4
<1>5. Contents(new) = Append(Contents(ring), ring.slot[ring.prod])
  <2>1. /\ Contents(new) \in Seq(Bytes \cup {Nothing}) /\ Len(Contents(new)) = Fill(ring) + 1
        /\ Contents(ring) \in Seq(Bytes \cup {Nothing}) /\ Len(Contents(ring)) = Fill(ring)
        /\ ring.slot[ring.prod] \in Bytes \cup {Nothing}
    BY <1>1, <1>3, ContentsIs
  <2>2. /\ Append(Contents(ring), ring.slot[ring.prod]) \in Seq(Bytes \cup {Nothing})
        /\ Len(Append(Contents(ring), ring.slot[ring.prod])) = Fill(ring) + 1
        /\ \A i \in 1 .. Fill(ring) + 1 :
              Append(Contents(ring), ring.slot[ring.prod])[i] =
                  IF i <= Fill(ring) THEN Contents(ring)[i] ELSE ring.slot[ring.prod]
    BY <1>3, <2>1, AppendProperties
  <2> QED
    BY <1>4, <2>1, <2>2, SameSequence
<1>6. ~IsEmpty(new)
  BY <1>1, <1>3, ContentsIs
<1> QED
  BY <1>1, <1>2, <1>3, <1>5, <1>6, ContentsIs DEF new

(* Storing and publishing a byte puts it behind what the ring holds. *)
LEMMA DeliveredAppends ==
    ASSUME NEW ring \in Rings, ~IsFull(ring), NEW b \in Bytes \cup {Nothing}
    PROVE  /\ Produced(Stored(ring, b)) \in Rings
           /\ ~IsEmpty(Produced(Stored(ring, b)))
           /\ Len(Contents(ring)) < BufferSize - 1
           /\ Contents(Produced(Stored(ring, b))) = Append(Contents(ring), b)
           /\ ~IsEmpty(ring) => Oldest(Produced(Stored(ring, b))) = Oldest(ring)
<1> DEFINE mid == Stored(ring, b)
<1>1. /\ mid \in Rings /\ mid.slot[ring.prod] = b
      /\ mid.prod = ring.prod /\ mid.cons = ring.cons
      /\ Contents(mid) = Contents(ring)
  BY StoredKeeps
<1>2. mid.slot = [ring.slot EXCEPT ![ring.prod] = b]
  BY DEF Stored, Rings
<1> HIDE DEF mid
<1>3. ~IsFull(mid)
  BY <1>1 DEF IsFull
<1>4. /\ Produced(mid) \in Rings
      /\ ~IsEmpty(Produced(mid))
      /\ Len(Contents(ring)) < BufferSize - 1
      /\ Contents(Produced(mid)) = Append(Contents(ring), b)
  BY <1>1, <1>3, ProducedAppends
<1>5. ASSUME ~IsEmpty(ring) PROVE Oldest(Produced(mid)) = Oldest(ring)
  <2>1. Produced(mid).slot = mid.slot /\ Produced(mid).cons = mid.cons
    BY <1>1 DEF Produced, Rings
  <2>2. ring.cons \in Indexes /\ ring.cons # ring.prod
        /\ ring.slot \in [Indexes -> Bytes \cup {Nothing}]
    BY <1>5 DEF IsEmpty, Rings
  <2> QED
    BY <1>1, <1>2, <2>1, <2>2 DEF Oldest
<1> QED
  BY <1>4, <1>5 DEF mid

(* Consuming a byte takes it from the front of the ring. *)
LEMMA ConsumedTails ==
    ASSUME NEW ring \in Rings, ~IsEmpty(ring)
    PROVE  /\ Consumed(ring) \in Rings
           /\ ~IsFull(Consumed(ring))
           /\ Contents(ring) # <<>>
           /\ Head(Contents(ring)) = Oldest(ring)
           /\ Contents(Consumed(ring)) = Tail(Contents(ring))
<1> DEFINE new == Consumed(ring)
<1>1. /\ new \in Rings
      /\ new.cons = (IF ring.cons = BufferSize - 1 THEN 0 ELSE ring.cons + 1)
      /\ new.prod = ring.prod /\ new.slot = ring.slot
      /\ ring.prod \in Indexes /\ ring.cons \in Indexes
      /\ ring.slot \in [Indexes -> Bytes \cup {Nothing}]
  BY NextIndexIs DEF Consumed, Rings
<1> HIDE DEF new
<1>2. BufferSize \in Nat /\ BufferSize > 1
  BY UartAssumption
<1>3. Fill(ring) \in 1 .. BufferSize - 1 /\ Fill(new) = Fill(ring) - 1
  <2>1. Fill(ring) \in 0 .. BufferSize - 1 /\ Fill(ring) # 0
    BY <1>2, ContentsIs
  <2> QED
    BY <1>1, <1>2, <2>1 DEF Fill, Indexes
<1>4. /\ Contents(new) \in Seq(Bytes \cup {Nothing}) /\ Len(Contents(new)) = Fill(ring) - 1
      /\ Contents(ring) \in Seq(Bytes \cup {Nothing}) /\ Len(Contents(ring)) = Fill(ring)
  BY <1>1, <1>3, ContentsIs
<1>5. Contents(ring) # <<>> /\ Head(Contents(ring)) = Oldest(ring)
  <2>1. SlotOf(ring, 1) = ring.cons
    BY <1>1, <1>2 DEF SlotOf, Indexes
  <2>2. Contents(ring)[1] = ring.slot[ring.cons]
    BY <1>3, <2>1, ContentsIs
  <2>3. Contents(ring) # <<>>
    BY <1>3, <1>4, EmptySeq
  <2> QED
    BY <1>4, <2>2, <2>3, HeadTailProperties DEF Oldest
<1>6. ASSUME NEW i \in 1 .. Fill(ring) - 1
      PROVE  Contents(new)[i] = Contents(ring)[i + 1]
  <2>1. SlotOf(new, i) = SlotOf(ring, i + 1)
    BY <1>1, <1>2, <1>3 DEF SlotOf, Indexes
  <2>2. Contents(new)[i] = ring.slot[SlotOf(ring, i + 1)]
    BY <1>1, <1>3, <2>1, ContentsIs
  <2>3. i + 1 \in 1 .. Fill(ring)
    BY <1>3
  <2> QED
    BY <2>2, <2>3, ContentsIs
<1>7. Contents(new) = Tail(Contents(ring))
  <2>1. /\ Tail(Contents(ring)) \in Seq(Bytes \cup {Nothing})
        /\ Len(Tail(Contents(ring))) = Fill(ring) - 1
        /\ \A i \in 1 .. Fill(ring) - 1 : Tail(Contents(ring))[i] = Contents(ring)[i + 1]
    BY <1>3, <1>4, <1>5, HeadTailProperties
  <2> QED
    BY <1>4, <1>6, <2>1, SameSequence
<1>8. ~IsFull(new)
  BY <1>1, <1>2, <1>3, ContentsIs
<1> QED
  BY <1>1, <1>5, <1>7, <1>8 DEF new

-----------------------------------------------------------------------------
(* The invariant.                                                           *)

(* No thread loses the hart within a call but asleep.                       *)
OneInside ==
    \A t \in Callers : t # current => stage[t] \in {"idle", "asleep", "empty?"}

(* The sender of the moment has a byte, and room for it once it has tested. *)
SenderReady ==
    /\ stage[current] \in Sending \cup {"raw"} => reg[current] \in Bytes
    /\ stage[current] \in {"store", "advance"} => ~IsFull(txRing)
    /\ stage[current] = "advance" => txRing.slot[txRing.prod] = reg[current]

(* Before the kernel runs every byte goes past the ring. *)
RawWhileEmpty ==
    /\ stage[current] = "raw" => ~isRunning
    /\ ~isRunning => IsEmpty(txRing) /\ stage[current] \notin Sending

(* The reader of the moment has the byte at the front. *)
ReaderReady ==
    /\ stage[current] \in {"read", "consume"} => ~IsEmpty(rxRing)
    /\ stage[current] = "consume" => reg[current] = Oldest(rxRing)

(* What the rings and the receiver hold was sent. *)
RealBytes ==
    /\ Contents(txRing) \in Seq(Bytes)
    /\ Contents(rxRing) \in Seq(Bytes)
    /\ rxFull => rxData \in Bytes

IInv == UartTypeOK /\ OneInside /\ SenderReady /\ RawWhileEmpty /\ ReaderReady /\ RealBytes

-----------------------------------------------------------------------------
(* Every step takes variables of their types to variables of their types. *)
LEMMA TypeStep ==
    ASSUME UartTypeOK, [UartNext]_uartVars
    PROVE  UartTypeOK'
<1> USE UartAssumption DEF UartTypeOK, uartVars, rings, masks, threads, hart, lines
<1>1. ASSUME NEW t \in Callers, Switch(t) PROVE UartTypeOK'
  BY <1>1 DEF Switch
<1>2. ASSUME NEW t \in Callers, NEW c \in Outgoing, Send(t, c) PROVE UartTypeOK'
  BY <1>2 DEF Send, AtStage, GotoStage, Stages, Sending
<1>3. ASSUME NEW t \in Callers, SendRaw(t) PROVE UartTypeOK'
  BY <1>3 DEF SendRaw, AtStage, GotoStage, Stages, Sending
<1>4. ASSUME NEW t \in Callers, SendTest(t) PROVE UartTypeOK'
  BY <1>4 DEF SendTest, AtStage, GotoStage, Stages, Sending
<1>5. ASSUME NEW t \in Callers, SendWait(t) PROVE UartTypeOK'
  BY <1>5 DEF SendWait, AtStage, GotoStage, Stages, Sending
<1>6. ASSUME NEW t \in Callers, SendResume(t) PROVE UartTypeOK'
  BY <1>6 DEF SendResume, AtStage, GotoStage, Stages, Sending
<1>7. ASSUME NEW t \in Callers, SendStore(t) PROVE UartTypeOK'
  BY StoredKeeps, <1>7 DEF SendStore, AtStage, GotoStage, Stages, Sending, Stored, Rings
<1>8. ASSUME NEW t \in Callers, SendAdvance(t) PROVE UartTypeOK'
  BY NextIndexIs, <1>8 DEF SendAdvance, AtStage, GotoStage, Stages, Sending, Produced, Rings
<1>9. ASSUME NEW t \in Callers, SendUnmask(t) PROVE UartTypeOK'
  BY <1>9 DEF SendUnmask, AtStage, GotoStage, Stages, Sending
<1>10. ASSUME NEW t \in Receivers, RecvTest(t) PROVE UartTypeOK'
  BY <1>10 DEF RecvTest, AtStage, GotoStage, Stages, Sending
<1>11. ASSUME NEW t \in Receivers, RecvClear(t) PROVE UartTypeOK'
  BY <1>11 DEF RecvClear, AtStage, GotoStage, Stages, Sending
<1>12. ASSUME NEW t \in Receivers, RecvWait(t) PROVE UartTypeOK'
  BY <1>12 DEF RecvWait, AtStage, GotoStage, Stages, Sending
<1>13. ASSUME NEW t \in Receivers, RecvRead(t) PROVE UartTypeOK'
  BY <1>13 DEF RecvRead, AtStage, GotoStage, Stages, Sending, Oldest, Rings
<1>14. ASSUME NEW t \in Receivers, RecvConsume(t) PROVE UartTypeOK'
  BY NextIndexIs, <1>14 DEF RecvConsume, AtStage, GotoStage, Stages, Sending, Consumed, Rings
<1>15. ASSUME NEW t \in Receivers, RecvUnmask(t) PROVE UartTypeOK'
  BY <1>15 DEF RecvUnmask, AtStage, GotoStage, Stages, Sending
<1>16. ASSUME UartIrq PROVE UartTypeOK'
  BY <1>16 DEF UartIrq, Pending
<1>17. ASSUME TxHandlerSend PROVE UartTypeOK'
  BY ConsumedTails, NextIndexIs, <1>17 DEF TxHandlerSend, FeedTx, Consumed, Oldest, Rings
<1>18. ASSUME TxHandlerEnd PROVE UartTypeOK'
  BY <1>18 DEF TxHandlerEnd
<1>19. ASSUME RxHandlerTake PROVE UartTypeOK'
  BY StoredKeeps, NextIndexIs, <1>19 DEF RxHandlerTake, Produced, Stored, Rings
<1>20. ASSUME RxHandlerEnd PROVE UartTypeOK'
  BY <1>20 DEF RxHandlerEnd, Stages
<1>21. ASSUME Crash PROVE UartTypeOK'
  BY <1>21 DEF Crash
<1>22. ASSUME Flush PROVE UartTypeOK'
  BY ConsumedTails, NextIndexIs, <1>22 DEF Flush, FeedTx, Consumed, Oldest, Rings
<1>23. ASSUME LineOut PROVE UartTypeOK'
  BY <1>23 DEF LineOut, Moves
<1>24. ASSUME NEW c \in Incoming, LineIn(c) PROVE UartTypeOK'
  BY <1>24 DEF LineIn, Moves
<1>25. CASE UNCHANGED uartVars
  BY <1>25
<1> QED
  BY <1>1, <1>2, <1>3, <1>4, <1>5, <1>6, <1>7, <1>8, <1>9, <1>10, <1>11, <1>12, <1>13, <1>14,
     <1>15, <1>16, <1>17, <1>18, <1>19, <1>20, <1>21, <1>22, <1>23, <1>24, <1>25
           DEF UartNext, SendStep, RecvStep, Handler, UartHalted, Callers

-----------------------------------------------------------------------------
(* No interrupt stays masked over work to do.                               *)

(* Every step that puts a byte in the buffer is on its way to the unmask, and  *)
(* the interrupt is masked only over an empty buffer.                          *)
LEMMA TxNotForgottenStep ==
    ASSUME UartTypeOK, TxNotForgotten, [UartNext]_uartVars
    PROVE  TxNotForgotten'
<1> USE DEF UartTypeOK, TxNotForgotten, rings, masks, threads, hart, lines, uartVars
<1>1. ASSUME NEW t \in Callers, Switch(t) PROVE TxNotForgotten'
  BY <1>1 DEF Switch
<1>2. ASSUME NEW t \in Callers, NEW c \in Outgoing, Send(t, c) PROVE TxNotForgotten'
  BY <1>2 DEF Send, AtStage, GotoStage
<1>3. ASSUME NEW t \in Callers, SendRaw(t) PROVE TxNotForgotten'
  BY <1>3 DEF SendRaw, AtStage, GotoStage
<1>4. ASSUME NEW t \in Callers, SendTest(t) PROVE TxNotForgotten'
  BY <1>4 DEF SendTest, AtStage, GotoStage
<1>5. ASSUME NEW t \in Callers, SendWait(t) PROVE TxNotForgotten'
  BY <1>5 DEF SendWait, AtStage, GotoStage
<1>6. ASSUME NEW t \in Callers, SendResume(t) PROVE TxNotForgotten'
  BY <1>6 DEF SendResume, AtStage, GotoStage
<1>7. ASSUME NEW t \in Callers, SendStore(t) PROVE TxNotForgotten'
  BY StoredKeeps, <1>7 DEF SendStore, AtStage, GotoStage, IsEmpty, Stored
<1>8. ASSUME NEW t \in Callers, SendAdvance(t) PROVE TxNotForgotten'
  BY <1>8 DEF SendAdvance, AtStage, GotoStage
<1>9. ASSUME NEW t \in Callers, SendUnmask(t) PROVE TxNotForgotten'
  BY <1>9 DEF SendUnmask, AtStage, GotoStage
<1>10. ASSUME NEW t \in Receivers, RecvTest(t) PROVE TxNotForgotten'
  BY <1>10 DEF RecvTest, AtStage, GotoStage
<1>11. ASSUME NEW t \in Receivers, RecvClear(t) PROVE TxNotForgotten'
  BY <1>11 DEF RecvClear, AtStage, GotoStage
<1>12. ASSUME NEW t \in Receivers, RecvWait(t) PROVE TxNotForgotten'
  BY <1>12 DEF RecvWait, AtStage, GotoStage
<1>13. ASSUME NEW t \in Receivers, RecvRead(t) PROVE TxNotForgotten'
  BY <1>13 DEF RecvRead, AtStage, GotoStage
<1>14. ASSUME NEW t \in Receivers, RecvConsume(t) PROVE TxNotForgotten'
  BY <1>14 DEF RecvConsume, AtStage, GotoStage
<1>15. ASSUME NEW t \in Receivers, RecvUnmask(t) PROVE TxNotForgotten'
  BY <1>15 DEF RecvUnmask, AtStage, GotoStage
<1>16. ASSUME UartIrq PROVE TxNotForgotten'
  BY <1>16 DEF UartIrq
<1>17. ASSUME TxHandlerSend PROVE TxNotForgotten'
  BY <1>17 DEF TxHandlerSend, FeedTx
<1>18. ASSUME TxHandlerEnd PROVE TxNotForgotten'
  BY <1>18 DEF TxHandlerEnd
<1>19. ASSUME RxHandlerTake PROVE TxNotForgotten'
  BY <1>19 DEF RxHandlerTake
<1>20. ASSUME RxHandlerEnd PROVE TxNotForgotten'
  BY <1>20 DEF RxHandlerEnd
<1>21. ASSUME Crash PROVE TxNotForgotten'
  BY <1>21 DEF Crash
<1>22. ASSUME Flush PROVE TxNotForgotten'
  BY <1>22 DEF Flush, FeedTx
<1>23. ASSUME LineOut PROVE TxNotForgotten'
  BY <1>23 DEF LineOut
<1>24. ASSUME NEW c \in Incoming, LineIn(c) PROVE TxNotForgotten'
  BY <1>24 DEF LineIn
<1>25. CASE UNCHANGED uartVars
  BY <1>25
<1> QED
  BY <1>1, <1>2, <1>3, <1>4, <1>5, <1>6, <1>7, <1>8, <1>9, <1>10, <1>11, <1>12, <1>13, <1>14,
     <1>15, <1>16, <1>17, <1>18, <1>19, <1>20, <1>21, <1>22, <1>23, <1>24, <1>25
           DEF UartNext, SendStep, RecvStep, Handler, UartHalted, Callers

(* Every step that makes room in a full buffer is on its way to the unmask, and *)
(* the interrupt is masked only over a full buffer.                             *)
LEMMA RxNotDeafStep ==
    ASSUME UartTypeOK, RxNotDeaf, [UartNext]_uartVars
    PROVE  RxNotDeaf'
<1> USE DEF UartTypeOK, RxNotDeaf, Callers, rings, masks, threads, hart, lines, uartVars
<1>1. ASSUME NEW t \in Callers, Switch(t) PROVE RxNotDeaf'
  BY <1>1 DEF Switch
<1>2. ASSUME NEW t \in Callers, NEW c \in Outgoing, Send(t, c) PROVE RxNotDeaf'
  BY <1>2 DEF Send, AtStage, GotoStage
<1>3. ASSUME NEW t \in Callers, SendRaw(t) PROVE RxNotDeaf'
  BY <1>3 DEF SendRaw, AtStage, GotoStage
<1>4. ASSUME NEW t \in Callers, SendTest(t) PROVE RxNotDeaf'
  BY <1>4 DEF SendTest, AtStage, GotoStage
<1>5. ASSUME NEW t \in Callers, SendWait(t) PROVE RxNotDeaf'
  BY <1>5 DEF SendWait, AtStage, GotoStage
<1>6. ASSUME NEW t \in Callers, SendResume(t) PROVE RxNotDeaf'
  BY <1>6 DEF SendResume, AtStage, GotoStage
<1>7. ASSUME NEW t \in Callers, SendStore(t) PROVE RxNotDeaf'
  BY <1>7 DEF SendStore, AtStage, GotoStage
<1>8. ASSUME NEW t \in Callers, SendAdvance(t) PROVE RxNotDeaf'
  BY <1>8 DEF SendAdvance, AtStage, GotoStage
<1>9. ASSUME NEW t \in Callers, SendUnmask(t) PROVE RxNotDeaf'
  BY <1>9 DEF SendUnmask, AtStage, GotoStage
<1>10. ASSUME NEW t \in Receivers, RecvTest(t) PROVE RxNotDeaf'
  BY <1>10 DEF RecvTest, AtStage, GotoStage
<1>11. ASSUME NEW t \in Receivers, RecvClear(t) PROVE RxNotDeaf'
  BY <1>11 DEF RecvClear, AtStage, GotoStage
<1>12. ASSUME NEW t \in Receivers, RecvWait(t) PROVE RxNotDeaf'
  BY <1>12 DEF RecvWait, AtStage, GotoStage
<1>13. ASSUME NEW t \in Receivers, RecvRead(t) PROVE RxNotDeaf'
  BY <1>13 DEF RecvRead, AtStage, GotoStage
<1>14. ASSUME NEW t \in Receivers, RecvConsume(t) PROVE RxNotDeaf'
  BY <1>14 DEF RecvConsume, AtStage, GotoStage
<1>15. ASSUME NEW t \in Receivers, RecvUnmask(t) PROVE RxNotDeaf'
  BY <1>15 DEF RecvUnmask, AtStage, GotoStage
<1>16. ASSUME UartIrq PROVE RxNotDeaf'
  BY <1>16 DEF UartIrq
<1>17. ASSUME TxHandlerSend PROVE RxNotDeaf'
  BY <1>17 DEF TxHandlerSend
<1>18. ASSUME TxHandlerEnd PROVE RxNotDeaf'
  BY <1>18 DEF TxHandlerEnd
<1>19. ASSUME RxHandlerTake PROVE RxNotDeaf'
  BY <1>19 DEF RxHandlerTake, RxReadable
<1>20. ASSUME RxHandlerEnd PROVE RxNotDeaf'
  BY <1>20 DEF RxHandlerEnd
<1>21. ASSUME Crash PROVE RxNotDeaf'
  BY <1>21 DEF Crash
<1>22. ASSUME Flush PROVE RxNotDeaf'
  BY <1>22 DEF Flush
<1>23. ASSUME LineOut PROVE RxNotDeaf'
  BY <1>23 DEF LineOut
<1>24. ASSUME NEW c \in Incoming, LineIn(c) PROVE RxNotDeaf'
  BY <1>24 DEF LineIn
<1>25. CASE UNCHANGED uartVars
  BY <1>25
<1> QED
  BY <1>1, <1>2, <1>3, <1>4, <1>5, <1>6, <1>7, <1>8, <1>9, <1>10, <1>11, <1>12, <1>13, <1>14,
     <1>15, <1>16, <1>17, <1>18, <1>19, <1>20, <1>21, <1>22, <1>23, <1>24, <1>25
           DEF UartNext, SendStep, RecvStep, Handler, UartHalted, Callers

-----------------------------------------------------------------------------
(* Every step keeps the rest of the invariant.                              *)

(* The hart leaves a thread only outside the calls or asleep in one, and only *)
(* the handler that wakes a sleeping thread moves one that has no hart.        *)
LEMMA OneInsideStep ==
    ASSUME UartTypeOK, OneInside, [UartNext]_uartVars
    PROVE  OneInside'
<1> USE DEF UartTypeOK, OneInside, Callers, rings, masks, threads, hart, lines, uartVars
<1>1. ASSUME NEW t \in Callers, Switch(t) PROVE OneInside'
  BY <1>1 DEF Switch
<1>2. ASSUME NEW t \in Callers, NEW c \in Outgoing, Send(t, c) PROVE OneInside'
  BY <1>2 DEF Send, AtStage, GotoStage
<1>3. ASSUME NEW t \in Callers, SendRaw(t) PROVE OneInside'
  BY <1>3 DEF SendRaw, AtStage, GotoStage
<1>4. ASSUME NEW t \in Callers, SendTest(t) PROVE OneInside'
  BY <1>4 DEF SendTest, AtStage, GotoStage
<1>5. ASSUME NEW t \in Callers, SendWait(t) PROVE OneInside'
  BY <1>5 DEF SendWait, AtStage, GotoStage
<1>6. ASSUME NEW t \in Callers, SendResume(t) PROVE OneInside'
  BY <1>6 DEF SendResume, AtStage, GotoStage
<1>7. ASSUME NEW t \in Callers, SendStore(t) PROVE OneInside'
  BY <1>7 DEF SendStore, AtStage, GotoStage
<1>8. ASSUME NEW t \in Callers, SendAdvance(t) PROVE OneInside'
  BY <1>8 DEF SendAdvance, AtStage, GotoStage
<1>9. ASSUME NEW t \in Callers, SendUnmask(t) PROVE OneInside'
  BY <1>9 DEF SendUnmask, AtStage, GotoStage
<1>10. ASSUME NEW t \in Receivers, RecvTest(t) PROVE OneInside'
  BY <1>10 DEF RecvTest, AtStage, GotoStage
<1>11. ASSUME NEW t \in Receivers, RecvClear(t) PROVE OneInside'
  BY <1>11 DEF RecvClear, AtStage, GotoStage
<1>12. ASSUME NEW t \in Receivers, RecvWait(t) PROVE OneInside'
  BY <1>12 DEF RecvWait, AtStage, GotoStage
<1>13. ASSUME NEW t \in Receivers, RecvRead(t) PROVE OneInside'
  BY <1>13 DEF RecvRead, AtStage, GotoStage
<1>14. ASSUME NEW t \in Receivers, RecvConsume(t) PROVE OneInside'
  BY <1>14 DEF RecvConsume, AtStage, GotoStage
<1>15. ASSUME NEW t \in Receivers, RecvUnmask(t) PROVE OneInside'
  BY <1>15 DEF RecvUnmask, AtStage, GotoStage
<1>16. ASSUME UartIrq PROVE OneInside'
  BY <1>16 DEF UartIrq
<1>17. ASSUME TxHandlerSend PROVE OneInside'
  BY <1>17 DEF TxHandlerSend, FeedTx
<1>18. ASSUME TxHandlerEnd PROVE OneInside'
  BY <1>18 DEF TxHandlerEnd
<1>19. ASSUME RxHandlerTake PROVE OneInside'
  BY <1>19 DEF RxHandlerTake
<1>20. ASSUME RxHandlerEnd PROVE OneInside'
  BY <1>20 DEF RxHandlerEnd
<1>21. ASSUME Crash PROVE OneInside'
  BY <1>21 DEF Crash
<1>22. ASSUME Flush PROVE OneInside'
  BY <1>22 DEF Flush, FeedTx
<1>23. ASSUME LineOut PROVE OneInside'
  BY <1>23 DEF LineOut
<1>24. ASSUME NEW c \in Incoming, LineIn(c) PROVE OneInside'
  BY <1>24 DEF LineIn
<1>25. CASE UNCHANGED uartVars
  BY <1>25
<1> QED
  BY <1>1, <1>2, <1>3, <1>4, <1>5, <1>6, <1>7, <1>8, <1>9, <1>10, <1>11, <1>12, <1>13, <1>14,
     <1>15, <1>16, <1>17, <1>18, <1>19, <1>20, <1>21, <1>22, <1>23, <1>24, <1>25
           DEF UartNext, SendStep, RecvStep, Handler, UartHalted, Callers

(* Between the test for room and the store only the handler touches the ring, *)
(* and it only makes more room.                                                *)
LEMMA SenderReadyStep ==
    ASSUME UartTypeOK, OneInside, SenderReady, [UartNext]_uartVars
    PROVE  SenderReady'
<1> USE UartAssumption
      DEF UartTypeOK, OneInside, SenderReady, Sending, Callers, rings, masks, threads, hart, lines,
      uartVars
<1>1. ASSUME NEW t \in Callers, Switch(t) PROVE SenderReady'
  BY <1>1 DEF Switch
<1>2. ASSUME NEW t \in Callers, NEW c \in Outgoing, Send(t, c) PROVE SenderReady'
  BY <1>2 DEF Send, AtStage, GotoStage
<1>3. ASSUME NEW t \in Callers, SendRaw(t) PROVE SenderReady'
  BY <1>3 DEF SendRaw, AtStage, GotoStage
<1>4. ASSUME NEW t \in Callers, SendTest(t) PROVE SenderReady'
  BY <1>4 DEF SendTest, AtStage, GotoStage
<1>5. ASSUME NEW t \in Callers, SendWait(t) PROVE SenderReady'
  BY <1>5 DEF SendWait, AtStage, GotoStage
<1>6. ASSUME NEW t \in Callers, SendResume(t) PROVE SenderReady'
  BY <1>6 DEF SendResume, AtStage, GotoStage
<1>7. ASSUME NEW t \in Callers, SendStore(t) PROVE SenderReady'
  <2>1. /\ stage[current] = "store" /\ stage' = [stage EXCEPT ![current] = "advance"]
        /\ txRing' = Stored(txRing, reg[current])
        /\ UNCHANGED <<current, reg>>
    BY <1>7 DEF SendStore, AtStage, GotoStage
  <2>2. /\ txRing'.slot[txRing'.prod] = reg[current]
        /\ IsFull(txRing') <=> IsFull(txRing)
    <3>1. txRing \in Rings /\ reg[current] \in Bytes \cup {Nothing}
      OBVIOUS
    <3>2. /\ txRing'.prod = txRing.prod /\ txRing'.cons = txRing.cons
          /\ txRing'.slot[txRing.prod] = reg[current]
      BY <2>1, <3>1, StoredKeeps
    <3> QED
      BY <3>2 DEF IsFull
  <2> QED
    BY <2>1, <2>2
<1>8. ASSUME NEW t \in Callers, SendAdvance(t) PROVE SenderReady'
  BY <1>8 DEF SendAdvance, AtStage, GotoStage, Sending
<1>9. ASSUME NEW t \in Callers, SendUnmask(t) PROVE SenderReady'
  BY <1>9 DEF SendUnmask, AtStage, GotoStage
<1>10. ASSUME NEW t \in Receivers, RecvTest(t) PROVE SenderReady'
  BY <1>10 DEF RecvTest, AtStage, GotoStage
<1>11. ASSUME NEW t \in Receivers, RecvClear(t) PROVE SenderReady'
  BY <1>11 DEF RecvClear, AtStage, GotoStage
<1>12. ASSUME NEW t \in Receivers, RecvWait(t) PROVE SenderReady'
  BY <1>12 DEF RecvWait, AtStage, GotoStage
<1>13. ASSUME NEW t \in Receivers, RecvRead(t) PROVE SenderReady'
  BY <1>13 DEF RecvRead, AtStage, GotoStage
<1>14. ASSUME NEW t \in Receivers, RecvConsume(t) PROVE SenderReady'
  BY <1>14 DEF RecvConsume, AtStage, GotoStage
<1>15. ASSUME NEW t \in Receivers, RecvUnmask(t) PROVE SenderReady'
  BY <1>15 DEF RecvUnmask, AtStage, GotoStage
<1>16. ASSUME UartIrq PROVE SenderReady'
  BY <1>16 DEF UartIrq
<1>17. ASSUME TxHandlerSend PROVE SenderReady'
  BY ConsumedTails, <1>17 DEF TxHandlerSend, FeedTx, Consumed, Rings, IsFull
<1>18. ASSUME TxHandlerEnd PROVE SenderReady'
  BY <1>18 DEF TxHandlerEnd
<1>19. ASSUME RxHandlerTake PROVE SenderReady'
  BY <1>19 DEF RxHandlerTake
<1>20. ASSUME RxHandlerEnd PROVE SenderReady'
  BY <1>20 DEF RxHandlerEnd
<1>21. ASSUME Crash PROVE SenderReady'
  BY <1>21 DEF Crash
<1>22. ASSUME Flush PROVE SenderReady'
  BY ConsumedTails, <1>22 DEF Flush, FeedTx, Consumed, Rings, IsFull
<1>23. ASSUME LineOut PROVE SenderReady'
  BY <1>23 DEF LineOut
<1>24. ASSUME NEW c \in Incoming, LineIn(c) PROVE SenderReady'
  BY <1>24 DEF LineIn
<1>25. CASE UNCHANGED uartVars
  BY <1>25
<1> QED
  BY <1>1, <1>2, <1>3, <1>4, <1>5, <1>6, <1>7, <1>8, <1>9, <1>10, <1>11, <1>12, <1>13, <1>14,
     <1>15, <1>16, <1>17, <1>18, <1>19, <1>20, <1>21, <1>22, <1>23, <1>24, <1>25
           DEF UartNext, SendStep, RecvStep, Handler, UartHalted, Callers

(* A sender takes the ring or the way past it for good when it calls, by        *)
(* whether the kernel runs, and that is settled before.                         *)
LEMMA RawWhileEmptyStep ==
    ASSUME UartTypeOK, OneInside, RawWhileEmpty, [UartNext]_uartVars
    PROVE  RawWhileEmpty'
<1> USE UartAssumption
      DEF UartTypeOK, OneInside, RawWhileEmpty, Sending, Callers, rings, masks, threads, hart,
      lines, uartVars
<1>1. ASSUME NEW t \in Callers, Switch(t) PROVE RawWhileEmpty'
  BY <1>1 DEF Switch
<1>2. ASSUME NEW t \in Callers, NEW c \in Outgoing, Send(t, c) PROVE RawWhileEmpty'
  BY <1>2 DEF Send, AtStage, GotoStage
<1>3. ASSUME NEW t \in Callers, SendRaw(t) PROVE RawWhileEmpty'
  BY <1>3 DEF SendRaw, AtStage, GotoStage
<1>4. ASSUME NEW t \in Callers, SendTest(t) PROVE RawWhileEmpty'
  BY <1>4 DEF SendTest, AtStage, GotoStage
<1>5. ASSUME NEW t \in Callers, SendWait(t) PROVE RawWhileEmpty'
  BY <1>5 DEF SendWait, AtStage, GotoStage
<1>6. ASSUME NEW t \in Callers, SendResume(t) PROVE RawWhileEmpty'
  BY <1>6 DEF SendResume, AtStage, GotoStage
<1>7. ASSUME NEW t \in Callers, SendStore(t) PROVE RawWhileEmpty'
  BY StoredKeeps, <1>7 DEF SendStore, AtStage, GotoStage, IsEmpty
<1>8. ASSUME NEW t \in Callers, SendAdvance(t) PROVE RawWhileEmpty'
  BY <1>8 DEF SendAdvance, AtStage, GotoStage
<1>9. ASSUME NEW t \in Callers, SendUnmask(t) PROVE RawWhileEmpty'
  BY <1>9 DEF SendUnmask, AtStage, GotoStage
<1>10. ASSUME NEW t \in Receivers, RecvTest(t) PROVE RawWhileEmpty'
  BY <1>10 DEF RecvTest, AtStage, GotoStage
<1>11. ASSUME NEW t \in Receivers, RecvClear(t) PROVE RawWhileEmpty'
  BY <1>11 DEF RecvClear, AtStage, GotoStage
<1>12. ASSUME NEW t \in Receivers, RecvWait(t) PROVE RawWhileEmpty'
  BY <1>12 DEF RecvWait, AtStage, GotoStage
<1>13. ASSUME NEW t \in Receivers, RecvRead(t) PROVE RawWhileEmpty'
  BY <1>13 DEF RecvRead, AtStage, GotoStage
<1>14. ASSUME NEW t \in Receivers, RecvConsume(t) PROVE RawWhileEmpty'
  BY <1>14 DEF RecvConsume, AtStage, GotoStage
<1>15. ASSUME NEW t \in Receivers, RecvUnmask(t) PROVE RawWhileEmpty'
  BY <1>15 DEF RecvUnmask, AtStage, GotoStage
<1>16. ASSUME UartIrq PROVE RawWhileEmpty'
  BY <1>16 DEF UartIrq
<1>17. ASSUME TxHandlerSend PROVE RawWhileEmpty'
  BY <1>17 DEF TxHandlerSend, FeedTx
<1>18. ASSUME TxHandlerEnd PROVE RawWhileEmpty'
  BY <1>18 DEF TxHandlerEnd
<1>19. ASSUME RxHandlerTake PROVE RawWhileEmpty'
  BY <1>19 DEF RxHandlerTake
<1>20. ASSUME RxHandlerEnd PROVE RawWhileEmpty'
  BY <1>20 DEF RxHandlerEnd
<1>21. ASSUME Crash PROVE RawWhileEmpty'
  BY <1>21 DEF Crash
<1>22. ASSUME Flush PROVE RawWhileEmpty'
  BY <1>22 DEF Flush, FeedTx
<1>23. ASSUME LineOut PROVE RawWhileEmpty'
  BY <1>23 DEF LineOut
<1>24. ASSUME NEW c \in Incoming, LineIn(c) PROVE RawWhileEmpty'
  BY <1>24 DEF LineIn
<1>25. CASE UNCHANGED uartVars
  BY <1>25
<1> QED
  BY <1>1, <1>2, <1>3, <1>4, <1>5, <1>6, <1>7, <1>8, <1>9, <1>10, <1>11, <1>12, <1>13, <1>14,
     <1>15, <1>16, <1>17, <1>18, <1>19, <1>20, <1>21, <1>22, <1>23, <1>24, <1>25
           DEF UartNext, SendStep, RecvStep, Handler, UartHalted, Callers

(* Between the test for a byte and its consumption only the handler touches the *)
(* ring, and it only adds bytes behind the front.                               *)
LEMMA ReaderReadyStep ==
    ASSUME UartTypeOK, OneInside, ReaderReady, [UartNext]_uartVars
    PROVE  ReaderReady'
<1> USE UartAssumption
      DEF UartTypeOK, OneInside, ReaderReady, Callers, rings, masks, threads, hart, lines, uartVars
<1>1. ASSUME NEW t \in Callers, Switch(t) PROVE ReaderReady'
  BY <1>1 DEF Switch
<1>2. ASSUME NEW t \in Callers, NEW c \in Outgoing, Send(t, c) PROVE ReaderReady'
  BY <1>2 DEF Send, AtStage, GotoStage
<1>3. ASSUME NEW t \in Callers, SendRaw(t) PROVE ReaderReady'
  BY <1>3 DEF SendRaw, AtStage, GotoStage
<1>4. ASSUME NEW t \in Callers, SendTest(t) PROVE ReaderReady'
  BY <1>4 DEF SendTest, AtStage, GotoStage
<1>5. ASSUME NEW t \in Callers, SendWait(t) PROVE ReaderReady'
  BY <1>5 DEF SendWait, AtStage, GotoStage
<1>6. ASSUME NEW t \in Callers, SendResume(t) PROVE ReaderReady'
  BY <1>6 DEF SendResume, AtStage, GotoStage
<1>7. ASSUME NEW t \in Callers, SendStore(t) PROVE ReaderReady'
  BY <1>7 DEF SendStore, AtStage, GotoStage
<1>8. ASSUME NEW t \in Callers, SendAdvance(t) PROVE ReaderReady'
  BY <1>8 DEF SendAdvance, AtStage, GotoStage
<1>9. ASSUME NEW t \in Callers, SendUnmask(t) PROVE ReaderReady'
  BY <1>9 DEF SendUnmask, AtStage, GotoStage
<1>10. ASSUME NEW t \in Receivers, RecvTest(t) PROVE ReaderReady'
  BY <1>10 DEF RecvTest, AtStage, GotoStage
<1>11. ASSUME NEW t \in Receivers, RecvClear(t) PROVE ReaderReady'
  BY <1>11 DEF RecvClear, AtStage, GotoStage
<1>12. ASSUME NEW t \in Receivers, RecvWait(t) PROVE ReaderReady'
  BY <1>12 DEF RecvWait, AtStage, GotoStage
<1>13. ASSUME NEW t \in Receivers, RecvRead(t) PROVE ReaderReady'
  BY <1>13 DEF RecvRead, AtStage, GotoStage
<1>14. ASSUME NEW t \in Receivers, RecvConsume(t) PROVE ReaderReady'
  BY <1>14 DEF RecvConsume, AtStage, GotoStage
<1>15. ASSUME NEW t \in Receivers, RecvUnmask(t) PROVE ReaderReady'
  BY <1>15 DEF RecvUnmask, AtStage, GotoStage
<1>16. ASSUME UartIrq PROVE ReaderReady'
  BY <1>16 DEF UartIrq
<1>17. ASSUME TxHandlerSend PROVE ReaderReady'
  BY <1>17 DEF TxHandlerSend, FeedTx
<1>18. ASSUME TxHandlerEnd PROVE ReaderReady'
  BY <1>18 DEF TxHandlerEnd
<1>19. ASSUME RxHandlerTake PROVE ReaderReady'
  <2>1. /\ ~IsFull(rxRing) /\ rxRing' = Produced(Stored(rxRing, rxData))
        /\ UNCHANGED <<current, stage, reg>>
    BY <1>19 DEF RxHandlerTake, RxReadable
  <2>2. ~IsEmpty(rxRing') /\ (~IsEmpty(rxRing) => Oldest(rxRing') = Oldest(rxRing))
    BY <2>1, DeliveredAppends
  <2> QED
    BY <2>1, <2>2
<1>20. ASSUME RxHandlerEnd PROVE ReaderReady'
  BY <1>20 DEF RxHandlerEnd
<1>21. ASSUME Crash PROVE ReaderReady'
  BY <1>21 DEF Crash
<1>22. ASSUME Flush PROVE ReaderReady'
  BY <1>22 DEF Flush, FeedTx
<1>23. ASSUME LineOut PROVE ReaderReady'
  BY <1>23 DEF LineOut
<1>24. ASSUME NEW c \in Incoming, LineIn(c) PROVE ReaderReady'
  BY <1>24 DEF LineIn
<1>25. CASE UNCHANGED uartVars
  BY <1>25
<1> QED
  BY <1>1, <1>2, <1>3, <1>4, <1>5, <1>6, <1>7, <1>8, <1>9, <1>10, <1>11, <1>12, <1>13, <1>14,
     <1>15, <1>16, <1>17, <1>18, <1>19, <1>20, <1>21, <1>22, <1>23, <1>24, <1>25
           DEF UartNext, SendStep, RecvStep, Handler, UartHalted, Callers

(* Only a sender with a byte stores into the one ring, and only a byte from the *)
(* line gets into the other.                                                     *)
LEMMA RealBytesStep ==
    ASSUME UartTypeOK, OneInside, SenderReady, ReaderReady, RealBytes, [UartNext]_uartVars
    PROVE  RealBytes'
<1> USE UartAssumption
      DEF UartTypeOK, RealBytes, Callers, rings, masks, threads, hart, lines, uartVars
<1>1. ASSUME NEW t \in Callers, Switch(t) PROVE RealBytes'
  BY <1>1 DEF Switch
<1>2. ASSUME NEW t \in Callers, NEW c \in Outgoing, Send(t, c) PROVE RealBytes'
  BY <1>2 DEF Send, AtStage, GotoStage
<1>3. ASSUME NEW t \in Callers, SendRaw(t) PROVE RealBytes'
  BY <1>3 DEF SendRaw, AtStage, GotoStage
<1>4. ASSUME NEW t \in Callers, SendTest(t) PROVE RealBytes'
  BY <1>4 DEF SendTest, AtStage, GotoStage
<1>5. ASSUME NEW t \in Callers, SendWait(t) PROVE RealBytes'
  BY <1>5 DEF SendWait, AtStage, GotoStage
<1>6. ASSUME NEW t \in Callers, SendResume(t) PROVE RealBytes'
  BY <1>6 DEF SendResume, AtStage, GotoStage
<1>7. ASSUME NEW t \in Callers, SendStore(t) PROVE RealBytes'
  <2>1. txRing' = Stored(txRing, reg[t]) /\ UNCHANGED <<rxRing, rxData, rxFull>>
    BY <1>7 DEF SendStore
  <2>2. Contents(txRing') = Contents(txRing)
    BY <2>1, StoredKeeps
  <2> QED
    BY <2>1, <2>2
<1>8. ASSUME NEW t \in Callers, SendAdvance(t) PROVE RealBytes'
  <2>1. /\ txRing' = Produced(txRing) /\ ~IsFull(txRing) /\ txRing.slot[txRing.prod] \in Bytes
        /\ UNCHANGED <<rxRing, rxData, rxFull>>
    BY <1>8 DEF SendAdvance, AtStage, SenderReady, Sending
  <2>2. Contents(txRing') = Append(Contents(txRing), txRing.slot[txRing.prod])
    BY <2>1, ProducedAppends
  <2> QED
    BY <2>1, <2>2, AppendProperties
<1>9. ASSUME NEW t \in Callers, SendUnmask(t) PROVE RealBytes'
  BY <1>9 DEF SendUnmask, AtStage, GotoStage
<1>10. ASSUME NEW t \in Receivers, RecvTest(t) PROVE RealBytes'
  BY <1>10 DEF RecvTest, AtStage, GotoStage
<1>11. ASSUME NEW t \in Receivers, RecvClear(t) PROVE RealBytes'
  BY <1>11 DEF RecvClear, AtStage, GotoStage
<1>12. ASSUME NEW t \in Receivers, RecvWait(t) PROVE RealBytes'
  BY <1>12 DEF RecvWait, AtStage, GotoStage
<1>13. ASSUME NEW t \in Receivers, RecvRead(t) PROVE RealBytes'
  BY <1>13 DEF RecvRead, AtStage, GotoStage
<1>14. ASSUME NEW t \in Receivers, RecvConsume(t) PROVE RealBytes'
  <2>1. ~IsEmpty(rxRing) /\ rxRing' = Consumed(rxRing) /\ UNCHANGED <<txRing, rxData, rxFull>>
    BY <1>14 DEF RecvConsume, AtStage, ReaderReady
  <2>2. Contents(rxRing) # <<>> /\ Contents(rxRing') = Tail(Contents(rxRing))
    BY <2>1, ConsumedTails
  <2> QED
    BY <2>1, <2>2, HeadTailProperties
<1>15. ASSUME NEW t \in Receivers, RecvUnmask(t) PROVE RealBytes'
  BY <1>15 DEF RecvUnmask, AtStage, GotoStage
<1>16. ASSUME UartIrq PROVE RealBytes'
  BY <1>16 DEF UartIrq
<1>17. ASSUME TxHandlerSend PROVE RealBytes'
  <2>1. ~IsEmpty(txRing) /\ txRing' = Consumed(txRing) /\ UNCHANGED <<rxRing, rxData, rxFull>>
    BY <1>17 DEF TxHandlerSend, FeedTx
  <2>2. Contents(txRing) # <<>> /\ Contents(txRing') = Tail(Contents(txRing))
    BY <2>1, ConsumedTails
  <2> QED
    BY <2>1, <2>2, HeadTailProperties
<1>18. ASSUME TxHandlerEnd PROVE RealBytes'
  BY <1>18 DEF TxHandlerEnd
<1>19. ASSUME RxHandlerTake PROVE RealBytes'
  <2>1. /\ ~IsFull(rxRing) /\ rxRing' = Produced(Stored(rxRing, rxData)) /\ rxData \in Bytes
        /\ ~rxFull' /\ UNCHANGED txRing
    BY <1>19 DEF RxHandlerTake, RxReadable
  <2>2. Contents(rxRing') = Append(Contents(rxRing), rxData)
    BY <2>1, DeliveredAppends
  <2> QED
    BY <2>1, <2>2, AppendProperties
<1>20. ASSUME RxHandlerEnd PROVE RealBytes'
  BY <1>20 DEF RxHandlerEnd
<1>21. ASSUME Crash PROVE RealBytes'
  BY <1>21 DEF Crash
<1>22. ASSUME Flush PROVE RealBytes'
  <2>1. ~IsEmpty(txRing) /\ txRing' = Consumed(txRing) /\ UNCHANGED <<rxRing, rxData, rxFull>>
    BY <1>22 DEF Flush, FeedTx
  <2>2. Contents(txRing) # <<>> /\ Contents(txRing') = Tail(Contents(txRing))
    BY <2>1, ConsumedTails
  <2> QED
    BY <2>1, <2>2, HeadTailProperties
<1>23. ASSUME LineOut PROVE RealBytes'
  BY <1>23 DEF LineOut
<1>24. ASSUME NEW c \in Incoming, LineIn(c) PROVE RealBytes'
  BY <1>24 DEF LineIn
<1>25. CASE UNCHANGED uartVars
  BY <1>25
<1> QED
  BY <1>1, <1>2, <1>3, <1>4, <1>5, <1>6, <1>7, <1>8, <1>9, <1>10, <1>11, <1>12, <1>13, <1>14,
     <1>15, <1>16, <1>17, <1>18, <1>19, <1>20, <1>21, <1>22, <1>23, <1>24, <1>25
           DEF UartNext, SendStep, RecvStep, Handler, UartHalted, Callers

(* The driver starts with empty rings, no thread in it and nothing on the line. *)
LEMMA InitIInv ==
    ASSUME UartInit
    PROVE  IInv /\ TxNotForgotten /\ RxNotDeaf
<1>1. UartTypeOK
  <2>1. 0 \in Indexes
    BY UartAssumption DEF Indexes
  <2>2. txRing \in Rings /\ rxRing \in Rings
    BY <2>1 DEF UartInit, Rings
  <2> QED
    BY <2>2 DEF UartInit, UartTypeOK, Stages
<1>2. IsEmpty(txRing) /\ IsEmpty(rxRing) /\ ~rxFull /\ stage[current] = "idle"
  BY DEF UartInit, IsEmpty
<1>3. Contents(txRing) = <<>> /\ Contents(rxRing) = <<>>
  BY <1>1, <1>2, ContentsIs, EmptySeq DEF UartTypeOK
<1>4. OneInside /\ SenderReady /\ RawWhileEmpty /\ ReaderReady
  BY <1>1, <1>2 DEF UartInit, OneInside, SenderReady, RawWhileEmpty, ReaderReady, Sending, UartTypeOK
<1>5. RealBytes
  BY <1>2, <1>3, EmptySeq DEF RealBytes
<1> QED
  BY <1>1, <1>2, <1>4, <1>5 DEF UartInit, IInv, TxNotForgotten, RxNotDeaf

(* Every step keeps the invariant. *)
LEMMA NextIInv ==
    ASSUME IInv, [UartNext]_uartVars
    PROVE  IInv'
  BY TypeStep, OneInsideStep, SenderReadyStep, RawWhileEmptyStep, ReaderReadyStep, RealBytesStep
     DEF IInv

(* The invariant holds of every run of the driver. *)
THEOREM Invariance == UartSpec => []IInv
<1>1. UartInit => IInv
  BY InitIInv
<1>2. IInv /\ [UartNext]_uartVars => IInv'
  BY NextIInv
<1> QED
  BY <1>1, <1>2, PTL DEF UartSpec

(* A byte in the transmit buffer never waits behind a masked interrupt, whatever *)
(* the order in which uart_send and the handler touch the mask: uart.cpp:40, 77. *)
THEOREM NoByteForgotten == UartSpec => []TxNotForgotten
<1>1. UartInit => TxNotForgotten
  BY InitIInv
<1>2. UartTypeOK /\ TxNotForgotten /\ [UartNext]_uartVars => TxNotForgotten'
  BY TxNotForgottenStep
<1>3. IInv => UartTypeOK
  BY DEF IInv
<1> QED
  BY <1>1, <1>2, <1>3, Invariance, PTL DEF UartSpec

(* The receive interrupt is masked only while the buffer is full or its reader is *)
(* about to unmask it: uart.cpp:51, 97.                                            *)
THEOREM NeverDeaf == UartSpec => []RxNotDeaf
<1>1. UartInit => RxNotDeaf
  BY InitIInv
<1>2. UartTypeOK /\ RxNotDeaf /\ [UartNext]_uartVars => RxNotDeaf'
  BY RxNotDeafStep
<1>3. IInv => UartTypeOK
  BY DEF IInv
<1> QED
  BY <1>1, <1>2, <1>3, Invariance, PTL DEF UartSpec

-----------------------------------------------------------------------------
(* Each direction is a pipe.                                                *)

(* The elements of a concatenation. *)
LEMMA Concatenation ==
    ASSUME NEW s \in Seq(Bytes), NEW t \in Seq(Bytes)
    PROVE  /\ s \o t \in Seq(Bytes)
           /\ Len(s \o t) = Len(s) + Len(t)
           /\ Len(s) \in Nat /\ Len(t) \in Nat
           /\ \A i \in 1 .. Len(s) + Len(t) :
                 (s \o t)[i] = IF i <= Len(s) THEN s[i] ELSE t[i - Len(s)]
<1>1. /\ s \o t \in Seq(Bytes)
      /\ Len(s \o t) = Len(s) + Len(t)
      /\ \A i \in 1 .. Len(s) + Len(t) :
                 (s \o t)[i] = IF i <= Len(s) THEN s[i] ELSE t[i - Len(s)]
  BY ConcatProperties, Zenon
<1>2. Len(s) \in Nat /\ Len(t) \in Nat
  BY LenProperties
<1> QED
  BY <1>1, <1>2

(* The byte being shifted out is in front of those in the ring. *)
LEMMA HeldThen ==
    ASSUME NEW b \in Bytes \cup {Nothing}, NEW s \in Seq(Bytes)
    PROVE  /\ Held(b) \o s \in Seq(Bytes)
           /\ Len(Held(b) \o s) <= Len(s) + 1
           /\ \A x \in Bytes : Append(Held(b) \o s, x) = Held(b) \o Append(s, x)
           /\ b = Nothing => Held(b) \o s = s
           /\ b = Nothing /\ s # <<>> => Held(Head(s)) \o Tail(s) = s
           /\ b \in Bytes => Held(b) \o s # <<>> /\ Head(Held(b) \o s) = b /\ Tail(Held(b) \o s) = s
<1>1. Nothing \notin Bytes
  BY UartAssumption
<1>2. ASSUME NEW c \in Bytes
      PROVE  /\ Held(c) = <<c>> /\ Held(c) \in Seq(Bytes)
             /\ Len(Held(c)) = 1 /\ Held(c)[1] = c
  <2>1. Held(c) = <<c>>
    BY <1>1 DEF Held
  <2> QED
    BY <2>1
<1>3. Held(Nothing) = <<>> /\ Held(Nothing) \o s = s
  BY ConcatEmptySeq DEF Held
<1>4. Held(b) \in Seq(Bytes) /\ Len(Held(b)) \in 0 .. 1
  <2>1. CASE b \in Bytes
    BY <1>2, <2>1
  <2>2. CASE b = Nothing
    <3>1. Held(b) = <<>>
      BY <1>3, <2>2
    <3> QED
      BY <3>1, EmptySeq
  <2> QED
    BY <2>1, <2>2
<1>5. Held(b) \o s \in Seq(Bytes) /\ Len(Held(b) \o s) <= Len(s) + 1
  BY <1>4, Concatenation
<1>6. ASSUME NEW x \in Bytes PROVE Append(Held(b) \o s, x) = Held(b) \o Append(s, x)
  BY <1>4, <1>5, AppendIsConcat, ConcatAssociative
<1>7. ASSUME NEW c \in Bytes
      PROVE  Held(c) \o s # <<>> /\ Head(Held(c) \o s) = c /\ Tail(Held(c) \o s) = s
  <2> DEFINE all == Held(c) \o s
  <2>1. /\ all \in Seq(Bytes) /\ Len(all) = Len(s) + 1 /\ Len(s) \in Nat
        /\ \A i \in 1 .. Len(s) + 1 : all[i] = IF i <= 1 THEN c ELSE s[i - 1]
    <3>1. Held(c) \in Seq(Bytes) /\ Len(Held(c)) = 1 /\ Held(c)[1] = c
      BY <1>2
    <3>2. /\ all \in Seq(Bytes) /\ Len(all) = Len(Held(c)) + Len(s)
          /\ \A i \in 1 .. Len(Held(c)) + Len(s) :
                all[i] = IF i <= Len(Held(c)) THEN Held(c)[i] ELSE s[i - Len(Held(c))]
      BY <3>1, Concatenation, Zenon
    <3> HIDE DEF all
    <3>3. Len(s) \in Nat /\ \A i \in 1 .. 1 + Len(s) : i <= 1 => i = 1
      BY LenProperties
    <3> QED
      BY <3>1, <3>2, <3>3
  <2> HIDE DEF all
  <2>2. all # <<>>
    BY <2>1, EmptySeq
  <2>3. /\ Head(all) = c /\ Tail(all) \in Seq(Bytes) /\ Len(Tail(all)) = Len(s)
        /\ \A i \in 1 .. Len(s) : Tail(all)[i] = all[i + 1]
    BY <2>1, <2>2, HeadTailProperties
  <2>4. \A i \in 1 .. Len(s) : Tail(all)[i] = s[i]
    BY <2>1, <2>3
  <2> QED
    BY <2>2, <2>3, <2>4, SameSequence DEF all
<1>8. ASSUME s # <<>> PROVE Held(Head(s)) \o Tail(s) = s
  <2> DEFINE all == Held(Head(s)) \o Tail(s)
  <2>1. /\ Head(s) \in Bytes /\ Head(s) = s[1] /\ Tail(s) \in Seq(Bytes)
        /\ Len(s) \in Nat \ {0} /\ Len(Tail(s)) = Len(s) - 1
        /\ \A i \in 1 .. Len(s) - 1 : Tail(s)[i] = s[i + 1]
    BY <1>8, HeadTailProperties, EmptySeq
  <2>2. /\ Held(Head(s)) \in Seq(Bytes) /\ Len(Held(Head(s))) = 1
        /\ Held(Head(s))[1] = Head(s)
    BY <1>2, <2>1
  <2>3. /\ all \in Seq(Bytes) /\ Len(all) = 1 + Len(Tail(s))
        /\ \A i \in 1 .. 1 + Len(Tail(s)) :
              all[i] = IF i <= 1 THEN Held(Head(s))[i] ELSE Tail(s)[i - 1]
    BY <2>1, <2>2, Concatenation
  <2> HIDE DEF all
  <2>4. ASSUME NEW i \in 1 .. Len(s) PROVE all[i] = s[i]
    <3>1. CASE i = 1
      BY <2>1, <2>2, <2>3, <3>1
    <3>2. CASE i # 1
      <4>1. i - 1 \in 1 .. Len(s) - 1 /\ ~(i <= 1) /\ i - 1 + 1 = i
        BY <2>1, <3>2
      <4> QED
        BY <2>1, <2>3, <4>1
    <3> QED
      BY <3>1, <3>2
  <2>5. Len(all) = Len(s)
    BY <2>1, <2>3
  <2> QED
    BY <2>3, <2>4, <2>5, SameSequence DEF all
<1> QED
  BY <1>3, <1>5, <1>6, <1>7, <1>8

(* A byte behind the ring is behind the byte being shifted out too. *)
LEMMA HeldAppend ==
    ASSUME NEW b \in Bytes \cup {Nothing}, NEW s \in Seq(Bytes), NEW x \in Bytes
    PROVE  Append(Held(b) \o s, x) = Held(b) \o Append(s, x)
  BY HeldThen

Offering == Sending \cup {"raw"}

(* The byte in the hands of the thread that has the hart. *)
OfferedNow == IF stage[current] \in Offering THEN reg[current] ELSE Nothing

TxPipe == Held(txShift) \o Contents(txRing)

(* The pipe out, with the byte on offer told from who has the hart. *)
TxNow == INSTANCE Pipe WITH
            Capacity <- BufferSize,
            offered <- OfferedNow,
            pipe <- TxPipe,
            taken <- txWire

(* Every step is a step of the pipe out or none: a call offers a byte, the way *)
(* past the ring and the ring's index put it in, the line takes it out.          *)
LEMMA TxStep ==
    ASSUME IInv, [UartNext]_uartVars
    PROVE  [TxNow!Next]_(TxNow!vars)
<1> USE UartAssumption
      DEF IInv, UartTypeOK, OneInside, RealBytes, Offering, Sending, Callers, rings, masks,
      threads, hart, lines, uartVars, TxNow!vars
<1>1. ASSUME NEW t \in Callers, Switch(t) PROVE [TxNow!Next]_(TxNow!vars)
  <2>1. UNCHANGED <<txRing, txShift, txWire>> /\ OfferedNow' = OfferedNow
    BY <1>1 DEF Switch, OfferedNow
  <2> QED
    BY <2>1 DEF TxPipe
<1>2. ASSUME NEW t \in Callers, NEW c \in Outgoing, Send(t, c) PROVE [TxNow!Next]_(TxNow!vars)
  <2>1. c \in Bytes /\ OfferedNow' = c /\ UNCHANGED <<txRing, txShift, txWire>>
    BY <1>2 DEF Send, AtStage, GotoStage, OfferedNow
  <2> QED
    BY <2>1 DEF TxPipe, TxNow!Next, TxNow!Offer, TxNow!Put, TxNow!Take
<1>3. ASSUME NEW t \in Callers, SendRaw(t) PROVE [TxNow!Next]_(TxNow!vars)
  <2>1. /\ OfferedNow = reg[t] /\ reg[t] \in Bytes /\ OfferedNow' = Nothing
        /\ IsEmpty(txRing) /\ txShift = Nothing /\ txShift' = reg[t]
        /\ UNCHANGED <<txRing, txWire>>
    BY <1>3 DEF SendRaw, AtStage, GotoStage, OfferedNow, SenderReady, RawWhileEmpty
  <2>2. Contents(txRing) = <<>> /\ Len(Contents(txRing)) = 0
    BY <2>1, ContentsIs, EmptySeq
  <2>3. TxPipe = <<>> /\ TxPipe' = <<reg[t]>>
    BY <2>1, <2>2, HeldThen, ConcatEmptySeq DEF TxPipe, Held
  <2> QED
    BY <2>1, <2>3, EmptySeq, AppendIsConcat, ConcatEmptySeq
       DEF TxNow!Next, TxNow!Offer, TxNow!Put, TxNow!Take
<1>4. ASSUME NEW t \in Callers, SendTest(t) PROVE [TxNow!Next]_(TxNow!vars)
  <2>1. UNCHANGED <<txRing, txShift, txWire>> /\ OfferedNow' = OfferedNow
    BY <1>4 DEF SendTest, AtStage, GotoStage, OfferedNow
  <2> QED
    BY <2>1 DEF TxPipe
<1>5. ASSUME NEW t \in Callers, SendWait(t) PROVE [TxNow!Next]_(TxNow!vars)
  <2>1. UNCHANGED <<txRing, txShift, txWire>> /\ OfferedNow' = OfferedNow
    BY <1>5 DEF SendWait, AtStage, GotoStage, OfferedNow
  <2> QED
    BY <2>1 DEF TxPipe
<1>6. ASSUME NEW t \in Callers, SendResume(t) PROVE [TxNow!Next]_(TxNow!vars)
  <2>1. UNCHANGED <<txRing, txShift, txWire>> /\ OfferedNow' = OfferedNow
    BY <1>6 DEF SendResume, AtStage, GotoStage, OfferedNow
  <2> QED
    BY <2>1 DEF TxPipe
<1>7. ASSUME NEW t \in Callers, SendStore(t) PROVE [TxNow!Next]_(TxNow!vars)
  <2>1. /\ txRing' = Stored(txRing, reg[t]) /\ UNCHANGED <<txShift, txWire>>
        /\ OfferedNow' = OfferedNow
    BY <1>7 DEF SendStore, AtStage, GotoStage, OfferedNow
  <2>2. Contents(txRing') = Contents(txRing)
    BY <2>1, StoredKeeps
  <2> QED
    BY <2>1, <2>2 DEF TxPipe
<1>8. ASSUME NEW t \in Callers, SendAdvance(t) PROVE [TxNow!Next]_(TxNow!vars)
  <2>1. /\ OfferedNow = reg[t] /\ reg[t] \in Bytes /\ OfferedNow' = Nothing
        /\ ~IsFull(txRing) /\ txRing.slot[txRing.prod] = reg[t]
        /\ txRing' = Produced(txRing) /\ UNCHANGED <<txShift, txWire>>
    BY <1>8 DEF SendAdvance, AtStage, GotoStage, OfferedNow, SenderReady
  <2>2. /\ Contents(txRing') = Append(Contents(txRing), reg[t])
        /\ Len(Contents(txRing)) < BufferSize - 1
    BY <2>1, ProducedAppends
  <2>3. /\ Len(TxPipe) <= Len(Contents(txRing)) + 1 /\ TxPipe \in Seq(Bytes)
        /\ Append(TxPipe, reg[t]) = Held(txShift) \o Append(Contents(txRing), reg[t])
    <3>1. txShift \in Bytes \cup {Nothing} /\ Contents(txRing) \in Seq(Bytes)
      OBVIOUS
    <3>2. Len(TxPipe) <= Len(Contents(txRing)) + 1 /\ TxPipe \in Seq(Bytes)
      BY <3>1, HeldThen DEF TxPipe
    <3>3. reg[t] \in Bytes
      BY <2>1
    <3>4. Append(Held(txShift) \o Contents(txRing),
          reg[t]) = Held(txShift) \o Append(Contents(txRing), reg[t])
      BY <3>1, <3>3, HeldAppend
    <3> QED
      BY <3>2, <3>4 DEF TxPipe
  <2>4. TxPipe' = Append(TxPipe, reg[t]) /\ Len(TxPipe) < BufferSize
    BY <2>1, <2>2, <2>3, LenProperties DEF TxPipe
  <2> QED
    BY <2>1, <2>4 DEF TxNow!Next, TxNow!Offer, TxNow!Put, TxNow!Take
<1>9. ASSUME NEW t \in Callers, SendUnmask(t) PROVE [TxNow!Next]_(TxNow!vars)
  <2>1. UNCHANGED <<txRing, txShift, txWire>> /\ OfferedNow' = OfferedNow
    BY <1>9 DEF SendUnmask, AtStage, GotoStage, OfferedNow
  <2> QED
    BY <2>1 DEF TxPipe
<1>10. ASSUME NEW t \in Receivers, RecvTest(t) PROVE [TxNow!Next]_(TxNow!vars)
  <2>1. UNCHANGED <<txRing, txShift, txWire>> /\ OfferedNow' = OfferedNow
    BY <1>10 DEF RecvTest, AtStage, GotoStage, OfferedNow
  <2> QED
    BY <2>1 DEF TxPipe
<1>11. ASSUME NEW t \in Receivers, RecvClear(t) PROVE [TxNow!Next]_(TxNow!vars)
  <2>1. UNCHANGED <<txRing, txShift, txWire>> /\ OfferedNow' = OfferedNow
    BY <1>11 DEF RecvClear, AtStage, GotoStage, OfferedNow
  <2> QED
    BY <2>1 DEF TxPipe
<1>12. ASSUME NEW t \in Receivers, RecvWait(t) PROVE [TxNow!Next]_(TxNow!vars)
  <2>1. UNCHANGED <<txRing, txShift, txWire>> /\ OfferedNow' = OfferedNow
    BY <1>12 DEF RecvWait, AtStage, GotoStage, OfferedNow
  <2> QED
    BY <2>1 DEF TxPipe
<1>13. ASSUME NEW t \in Receivers, RecvRead(t) PROVE [TxNow!Next]_(TxNow!vars)
  <2>1. UNCHANGED <<txRing, txShift, txWire>> /\ OfferedNow' = OfferedNow
    BY <1>13 DEF RecvRead, AtStage, GotoStage, OfferedNow
  <2> QED
    BY <2>1 DEF TxPipe
<1>14. ASSUME NEW t \in Receivers, RecvConsume(t) PROVE [TxNow!Next]_(TxNow!vars)
  <2>1. UNCHANGED <<txRing, txShift, txWire>> /\ OfferedNow' = OfferedNow
    BY <1>14 DEF RecvConsume, AtStage, GotoStage, OfferedNow
  <2> QED
    BY <2>1 DEF TxPipe
<1>15. ASSUME NEW t \in Receivers, RecvUnmask(t) PROVE [TxNow!Next]_(TxNow!vars)
  <2>1. UNCHANGED <<txRing, txShift, txWire>> /\ OfferedNow' = OfferedNow
    BY <1>15 DEF RecvUnmask, AtStage, GotoStage, OfferedNow
  <2> QED
    BY <2>1 DEF TxPipe
<1>16. ASSUME UartIrq PROVE [TxNow!Next]_(TxNow!vars)
  <2>1. UNCHANGED <<txRing, txShift, txWire>> /\ OfferedNow' = OfferedNow
    BY <1>16 DEF UartIrq, OfferedNow
  <2> QED
    BY <2>1 DEF TxPipe
<1>17. ASSUME TxHandlerSend PROVE [TxNow!Next]_(TxNow!vars)
  <2>1. /\ ~IsEmpty(txRing) /\ txRing' = Consumed(txRing)
        /\ txShift = Nothing /\ txShift' = Oldest(txRing)
        /\ UNCHANGED txWire /\ OfferedNow' = OfferedNow
    BY <1>17 DEF TxHandlerSend, FeedTx, OfferedNow
  <2>2. /\ Contents(txRing) # <<>> /\ Head(Contents(txRing)) = Oldest(txRing)
        /\ Contents(txRing') = Tail(Contents(txRing))
    BY <2>1, ConsumedTails
  <2>3. /\ TxPipe = Contents(txRing)
        /\ Held(Head(Contents(txRing))) \o Tail(Contents(txRing)) = Contents(txRing)
    BY <2>1, <2>2, HeldThen DEF TxPipe
  <2>4. TxPipe' = TxPipe
    BY <2>1, <2>2, <2>3 DEF TxPipe
  <2> QED
    BY <2>1, <2>4
<1>18. ASSUME TxHandlerEnd PROVE [TxNow!Next]_(TxNow!vars)
  <2>1. UNCHANGED <<txRing, txShift, txWire>> /\ OfferedNow' = OfferedNow
    BY <1>18 DEF TxHandlerEnd, OfferedNow
  <2> QED
    BY <2>1 DEF TxPipe
<1>19. ASSUME RxHandlerTake PROVE [TxNow!Next]_(TxNow!vars)
  <2>1. UNCHANGED <<txRing, txShift, txWire>> /\ OfferedNow' = OfferedNow
    BY <1>19 DEF RxHandlerTake, OfferedNow
  <2> QED
    BY <2>1 DEF TxPipe
<1>20. ASSUME RxHandlerEnd PROVE [TxNow!Next]_(TxNow!vars)
  <2>1. UNCHANGED <<txRing, txShift, txWire>> /\ OfferedNow' = OfferedNow
    BY <1>20 DEF RxHandlerEnd, OfferedNow
  <2> QED
    BY <2>1 DEF TxPipe
<1>21. ASSUME Crash PROVE [TxNow!Next]_(TxNow!vars)
  <2>1. UNCHANGED <<txRing, txShift, txWire>> /\ OfferedNow' = OfferedNow
    BY <1>21 DEF Crash, OfferedNow
  <2> QED
    BY <2>1 DEF TxPipe
<1>22. ASSUME Flush PROVE [TxNow!Next]_(TxNow!vars)
  <2>1. /\ ~IsEmpty(txRing) /\ txRing' = Consumed(txRing)
        /\ txShift = Nothing /\ txShift' = Oldest(txRing)
        /\ UNCHANGED txWire /\ OfferedNow' = OfferedNow
    BY <1>22 DEF Flush, FeedTx, OfferedNow
  <2>2. /\ Contents(txRing) # <<>> /\ Head(Contents(txRing)) = Oldest(txRing)
        /\ Contents(txRing') = Tail(Contents(txRing))
    BY <2>1, ConsumedTails
  <2>3. /\ TxPipe = Contents(txRing)
        /\ Held(Head(Contents(txRing))) \o Tail(Contents(txRing)) = Contents(txRing)
    BY <2>1, <2>2, HeldThen DEF TxPipe
  <2>4. TxPipe' = TxPipe
    BY <2>1, <2>2, <2>3 DEF TxPipe
  <2> QED
    BY <2>1, <2>4
<1>23. ASSUME LineOut PROVE [TxNow!Next]_(TxNow!vars)
  <2>1. /\ txShift \in Bytes /\ txShift' = Nothing /\ txWire' = txShift
        /\ UNCHANGED txRing /\ OfferedNow' = OfferedNow
    BY <1>23 DEF LineOut, OfferedNow
  <2>2. TxPipe # <<>> /\ Head(TxPipe) = txShift /\ Tail(TxPipe) = Contents(txRing)
    BY <2>1, HeldThen DEF TxPipe
  <2>3. TxPipe' = Contents(txRing)
    BY <2>1, HeldThen DEF TxPipe
  <2> QED
    BY <2>1, <2>2, <2>3 DEF TxNow!Next, TxNow!Offer, TxNow!Put, TxNow!Take
<1>24. ASSUME NEW c \in Incoming, LineIn(c) PROVE [TxNow!Next]_(TxNow!vars)
  <2>1. UNCHANGED <<txRing, txShift, txWire>> /\ OfferedNow' = OfferedNow
    BY <1>24 DEF LineIn, OfferedNow
  <2> QED
    BY <2>1 DEF TxPipe
<1>25. CASE UNCHANGED uartVars
  BY <1>25 DEF OfferedNow, TxPipe
<1> QED
  BY <1>1, <1>2, <1>3, <1>4, <1>5, <1>6, <1>7, <1>8, <1>9, <1>10, <1>11, <1>12, <1>13, <1>14,
     <1>15, <1>16, <1>17, <1>18, <1>19, <1>20, <1>21, <1>22, <1>23, <1>24, <1>25
           DEF UartNext, SendStep, RecvStep, Handler, UartHalted, Callers

(* Every step is a step of the pipe in or none: the line offers a byte, the      *)
(* handler puts it in, the reader takes it out.                                  *)
LEMMA RxStep ==
    ASSUME IInv, [UartNext]_uartVars
    PROVE  [Rx!Next]_(Rx!vars)
<1> USE UartAssumption
      DEF IInv, UartTypeOK, OneInside, RealBytes, Callers, rings, masks, threads, hart, lines,
      uartVars, Rx!vars
<1>1. ASSUME NEW t \in Callers, Switch(t) PROVE [Rx!Next]_(Rx!vars)
  BY <1>1 DEF Switch
<1>2. ASSUME NEW t \in Callers, NEW c \in Outgoing, Send(t, c) PROVE [Rx!Next]_(Rx!vars)
  BY <1>2 DEF Send, AtStage, GotoStage
<1>3. ASSUME NEW t \in Callers, SendRaw(t) PROVE [Rx!Next]_(Rx!vars)
  BY <1>3 DEF SendRaw, AtStage, GotoStage
<1>4. ASSUME NEW t \in Callers, SendTest(t) PROVE [Rx!Next]_(Rx!vars)
  BY <1>4 DEF SendTest, AtStage, GotoStage
<1>5. ASSUME NEW t \in Callers, SendWait(t) PROVE [Rx!Next]_(Rx!vars)
  BY <1>5 DEF SendWait, AtStage, GotoStage
<1>6. ASSUME NEW t \in Callers, SendResume(t) PROVE [Rx!Next]_(Rx!vars)
  BY <1>6 DEF SendResume, AtStage, GotoStage
<1>7. ASSUME NEW t \in Callers, SendStore(t) PROVE [Rx!Next]_(Rx!vars)
  BY <1>7 DEF SendStore, AtStage, GotoStage
<1>8. ASSUME NEW t \in Callers, SendAdvance(t) PROVE [Rx!Next]_(Rx!vars)
  BY <1>8 DEF SendAdvance, AtStage, GotoStage
<1>9. ASSUME NEW t \in Callers, SendUnmask(t) PROVE [Rx!Next]_(Rx!vars)
  BY <1>9 DEF SendUnmask, AtStage, GotoStage
<1>10. ASSUME NEW t \in Receivers, RecvTest(t) PROVE [Rx!Next]_(Rx!vars)
  BY <1>10 DEF RecvTest, AtStage, GotoStage
<1>11. ASSUME NEW t \in Receivers, RecvClear(t) PROVE [Rx!Next]_(Rx!vars)
  BY <1>11 DEF RecvClear, AtStage, GotoStage
<1>12. ASSUME NEW t \in Receivers, RecvWait(t) PROVE [Rx!Next]_(Rx!vars)
  BY <1>12 DEF RecvWait, AtStage, GotoStage
<1>13. ASSUME NEW t \in Receivers, RecvRead(t) PROVE [Rx!Next]_(Rx!vars)
  BY <1>13 DEF RecvRead, AtStage, GotoStage
<1>14. ASSUME NEW t \in Receivers, RecvConsume(t) PROVE [Rx!Next]_(Rx!vars)
  <2>1. /\ ~IsEmpty(rxRing) /\ rxRing' = Consumed(rxRing) /\ rxTaken' = Oldest(rxRing)
        /\ UNCHANGED <<rxFull, rxData>>
    BY <1>14 DEF RecvConsume, AtStage, ReaderReady
  <2> QED
    BY <2>1, ConsumedTails DEF Rx!Next, Rx!Offer, Rx!Put, Rx!Take
<1>15. ASSUME NEW t \in Receivers, RecvUnmask(t) PROVE [Rx!Next]_(Rx!vars)
  BY <1>15 DEF RecvUnmask, AtStage, GotoStage
<1>16. ASSUME UartIrq PROVE [Rx!Next]_(Rx!vars)
  BY <1>16 DEF UartIrq
<1>17. ASSUME TxHandlerSend PROVE [Rx!Next]_(Rx!vars)
  BY <1>17 DEF TxHandlerSend, FeedTx
<1>18. ASSUME TxHandlerEnd PROVE [Rx!Next]_(Rx!vars)
  BY <1>18 DEF TxHandlerEnd
<1>19. ASSUME RxHandlerTake PROVE [Rx!Next]_(Rx!vars)
  <2>1. /\ rxFull /\ ~rxFull' /\ rxData \in Bytes /\ ~IsFull(rxRing)
        /\ rxRing' = Produced(Stored(rxRing, rxData)) /\ UNCHANGED <<rxTaken, rxData>>
    BY <1>19 DEF RxHandlerTake, RxReadable
  <2>2. /\ Contents(rxRing') = Append(Contents(rxRing), rxData)
        /\ Len(Contents(rxRing)) < BufferSize - 1
    BY <2>1, DeliveredAppends
  <2> QED
    BY <2>1, <2>2 DEF Rx!Next, Rx!Offer, Rx!Put, Rx!Take
<1>20. ASSUME RxHandlerEnd PROVE [Rx!Next]_(Rx!vars)
  BY <1>20 DEF RxHandlerEnd
<1>21. ASSUME Crash PROVE [Rx!Next]_(Rx!vars)
  BY <1>21 DEF Crash
<1>22. ASSUME Flush PROVE [Rx!Next]_(Rx!vars)
  BY <1>22 DEF Flush, FeedTx
<1>23. ASSUME LineOut PROVE [Rx!Next]_(Rx!vars)
  BY <1>23 DEF LineOut
<1>24. ASSUME NEW c \in Incoming, LineIn(c) PROVE [Rx!Next]_(Rx!vars)
  <2>1. c \in Bytes /\ rxFull' /\ rxData' = c /\ UNCHANGED <<rxRing, rxTaken>>
    BY <1>24 DEF LineIn
  <2> QED
    BY <2>1 DEF Rx!Next, Rx!Offer, Rx!Put, Rx!Take
<1>25. CASE UNCHANGED uartVars
  BY <1>25
<1> QED
  BY <1>1, <1>2, <1>3, <1>4, <1>5, <1>6, <1>7, <1>8, <1>9, <1>10, <1>11, <1>12, <1>13, <1>14,
     <1>15, <1>16, <1>17, <1>18, <1>19, <1>20, <1>21, <1>22, <1>23, <1>24, <1>25
           DEF UartNext, SendStep, RecvStep, Handler, UartHalted, Callers

(* What offers a byte is what has the hart. *)
LEMMA OfferedIs ==
    ASSUME NEW p \in [Callers -> Stages], NEW r, NEW c \in Callers,
           \A t \in Callers : t # c => p[t] \in {"idle", "asleep", "empty?"}
    PROVE  (IF {t \in Callers : p[t] \in Sending \cup {"raw"}} = {} THEN Nothing
            ELSE r[CHOOSE t \in {t \in Callers : p[t] \in Sending \cup {"raw"}} : TRUE])
           = (IF p[c] \in Offering THEN r[c] ELSE Nothing)
<1> DEFINE offerers == {t \in Callers : p[t] \in Sending \cup {"raw"}}
<1>1. offerers \subseteq {c} /\ (c \in offerers <=> p[c] \in Offering)
  BY DEF Offering, Sending
<1> HIDE DEF offerers
<1>2. CASE p[c] \in Offering
  <2>1. offerers = {c} /\ (CHOOSE t \in offerers : TRUE) = c
    BY <1>1, <1>2
  <2> QED
    BY <1>2, <2>1 DEF offerers
<1>3. CASE p[c] \notin Offering
  <2>1. offerers = {}
    BY <1>1, <1>3
  <2> QED
    BY <1>3, <2>1 DEF offerers
<1> QED
  BY <1>2, <1>3

(* Out of uart_send, through the ring or past it, each byte goes once and in     *)
(* order, whoever sends and wherever the handler or a crash comes in between.    *)
THEOREM SentInOrder == UartSpec => SendsInOrder
<1>1. UartInit => Tx!Init
  <2> SUFFICES ASSUME UartInit PROVE Tx!Init
    OBVIOUS
  <2>1. IInv /\ IsEmpty(txRing) /\ txShift = Nothing /\ txWire = Nothing /\ Offerers = {}
    BY InitIInv DEF UartInit, IsEmpty, Offerers, Sending
  <2>2. Contents(txRing) = <<>>
    BY <2>1, ContentsIs, EmptySeq DEF IInv, UartTypeOK
  <2> QED
    BY <2>1, <2>2, ConcatEmptySeq, EmptySeq DEF Tx!Init, Held
<1>2. IInv /\ IInv' /\ [UartNext]_uartVars => [Tx!Next]_(Tx!vars)
  <2> SUFFICES ASSUME IInv, IInv', [UartNext]_uartVars PROVE [Tx!Next]_(Tx!vars)
    OBVIOUS
  <2> DEFINE offered == IF Offerers = {} THEN Nothing
                        ELSE reg[CHOOSE t \in Offerers : TRUE]
  <2>1. offered = OfferedNow
    BY OfferedIs DEF IInv, UartTypeOK, OneInside, Offerers, OfferedNow
  <2>2. offered' = OfferedNow'
    BY OfferedIs DEF IInv, UartTypeOK, OneInside, Offerers, OfferedNow
  <2>3. [TxNow!Next]_(TxNow!vars)
    BY TxStep
  <2> QED
    BY <2>1, <2>2, <2>3
       DEF TxPipe, TxNow!vars, TxNow!Next, TxNow!Offer, TxNow!Put, TxNow!Take,
           Tx!vars, Tx!Next, Tx!Offer, Tx!Put, Tx!Take
<1> QED
  BY <1>1, <1>2, Invariance, PTL DEF UartSpec, SendsInOrder, Tx!Spec

(* Out of the receive handler, through the ring, uart_recv_char returns each byte *)
(* once and in order, and a full ring is never written over.                      *)
THEOREM ReceivedInOrder == UartSpec => ReceivesInOrder
<1>1. UartInit => Rx!Init
  <2> SUFFICES ASSUME UartInit PROVE Rx!Init
    OBVIOUS
  <2>1. IInv /\ IsEmpty(rxRing) /\ ~rxFull /\ rxTaken = Nothing
    BY InitIInv DEF UartInit, IsEmpty
  <2>2. Contents(rxRing) = <<>>
    BY <2>1, ContentsIs, EmptySeq DEF IInv, UartTypeOK
  <2> QED
    BY <2>1, <2>2 DEF Rx!Init
<1>2. IInv /\ [UartNext]_uartVars => [Rx!Next]_(Rx!vars)
  BY RxStep
<1> QED
  BY <1>1, <1>2, Invariance, PTL DEF UartSpec, ReceivesInOrder, Rx!Spec

=============================================================================
