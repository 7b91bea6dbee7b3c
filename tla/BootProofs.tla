----------------------------- MODULE BootProofs -----------------------------
(***************************************************************************)
(* For any image that fits, and however the two clocks of the SPI master    *)
(* run: the flash gets the commands of the boot loader, each once and whole *)
(* (CommandsArrive); the headers that load_os goes by stay in its buffers   *)
(* (HeadersStay); and the operating system is in its place when the boot    *)
(* loader jumps to it (SystemLoaded).                                       *)
(***************************************************************************)
EXTENDS Boot, SequenceTheorems, TLAPS

-----------------------------------------------------------------------------
(* The transactions of the driver.                                          *)

(* One that fits into a line, and whose answer is whole bytes.              *)
Proper(t) ==
    /\ t.count.quad \in BOOLEAN
    /\ LinesOf(t.count.send, t.count.quad) = 1
    /\ \E n \in Nat : t.count.recv = IF t.count.quad THEN 2 * n ELSE 8 * n

(* Up to 33 cycles fit into a line. *)
LEMMA OneLine ==
    ASSUME NEW cycles \in 1 .. 33, NEW quad \in BOOLEAN, quad => cycles <= 8
    PROVE  LinesOf(cycles, quad) = 1
<1> DEFINE n == IF quad THEN cycles * 4 ELSE cycles
           w == LineBytes * 8
<1>1. n \in 1 .. w /\ w \in Nat /\ w > 0
  BY SpiAssumption
<1>2. ASSUME NEW a \in Nat, NEW b \in Nat, a \in 1 .. b
      PROVE  (a + b - 1) \div b = 1
  BY <1>2
<1> HIDE DEF n, w
<1>3. (n + w - 1) \div w = 1
  BY <1>1, <1>2
<1> QED
  BY <1>3 DEF LinesOf, n, w

(* A command of up to four bytes.                                           *)
LEMMA TransactionIs ==
    ASSUME NEW op, NEW arg, NEW quad \in BOOLEAN, NEW size \in 1 .. 4,
           NEW dummy, NEW address, NEW recv \in Nat
    PROVE  /\ Proper(Transaction(op, arg, quad, size, dummy, address, recv))
           /\ Transaction(op, arg, quad, size, dummy, address, recv) =
                [cmd |-> [op |-> op, arg |-> arg], to |-> address,
                 count |-> [quad |-> quad, dummy |-> dummy,
                            send |-> IF quad THEN 2 * size ELSE 8 * size,
                            recv |-> IF quad THEN 2 * recv ELSE 8 * recv]]
<1> DEFINE t == [cmd |-> [op |-> op, arg |-> arg], to |-> address,
                 count |-> [quad |-> quad, dummy |-> dummy,
                            send |-> IF quad THEN 2 * size ELSE 8 * size,
                            recv |-> IF quad THEN 2 * recv ELSE 8 * recv]]
<1>1. /\ size * (IF quad THEN 2 ELSE 8) = (IF quad THEN 2 * size ELSE 8 * size)
      /\ recv * (IF quad THEN 2 ELSE 8) = (IF quad THEN 2 * recv ELSE 8 * recv)
  OBVIOUS
<1>2. Transaction(op, arg, quad, size, dummy, address, recv) = t
  BY <1>1 DEF Transaction, Counts
<1>3. LinesOf(t.count.send, t.count.quad) = 1
  BY OneLine
<1> QED
  BY <1>2, <1>3 DEF Proper

(* A step of the rescue sequence.                                           *)
LEMMA RecoveryIs ==
    ASSUME NEW cycles \in 1 .. 33
    PROVE  Proper(RecoveryHelper(cycles))
<1>1. LinesOf(cycles, FALSE) = 1
  BY OneLine
<1>2. \E n \in Nat : 0 = 8 * n
  <2> WITNESS 0 \in Nat
  <2> QED
    OBVIOUS
<1>3. RecoveryHelper(cycles).count = [quad |-> FALSE, dummy |-> 0, send |-> cycles, recv |-> 0]
  BY DEF RecoveryHelper, Counts
<1>4. /\ RecoveryHelper(cycles).count.quad = FALSE
      /\ RecoveryHelper(cycles).count.send = cycles
      /\ RecoveryHelper(cycles).count.recv = 0
  BY <1>3
<1> QED
  BY <1>1, <1>2, <1>4 DEF Proper

(* A command that asks for nothing back.                                    *)
LEMMA CommandIs ==
    ASSUME NEW op, NEW arg, NEW quad \in BOOLEAN
    PROVE  /\ Proper(Command(op, arg, quad))
           /\ Command(op, arg, quad).cmd = [op |-> op, arg |-> arg]
           /\ Command(op, arg, quad).count.quad = quad
           /\ Command(op, arg, quad).count.recv = 0
<1> DEFINE size == IF op = "enable" THEN 1 ELSE 2
<1>1. size \in 1 .. 4
  OBVIOUS
<1>2. Command(op, arg, quad) = Transaction(op, arg, quad, size, 0, 0, 0)
  BY DEF Command
<1> HIDE DEF size
<1> QED
  BY <1>1, <1>2, TransactionIs

(* The one that asks for the identification.                                *)
LEMMA ReadIdIs ==
    ASSUME NEW quad \in BOOLEAN
    PROVE  /\ Proper(ReadId(quad))
           /\ ReadId(quad).cmd = [op |-> "id", arg |-> 0]
  BY TransactionIs DEF ReadId, FlashId

(* No real transaction is the empty one. *)
LEMMA NoTxnIsNone == ~Proper(NoTxn)
<1>1. NoTxn.count.send = 0 /\ NoTxn.count.quad = FALSE
  BY DEF NoTxn, Transaction, Counts
<1>2. LinesOf(0, FALSE) = 0
  <2>1. ASSUME NEW w \in Nat, w > 0 PROVE (0 + w - 1) \div w = 0
    BY <2>1
  <2>2. LineBytes * 8 \in Nat /\ LineBytes * 8 > 0
    BY SpiAssumption
  <2> QED
    BY <2>1, <2>2 DEF LinesOf
<1>3. LinesOf(NoTxn.count.send, NoTxn.count.quad) = 0
  BY <1>1, <1>2
<1> QED
  BY <1>3 DEF Proper

Scripted == {InitScript[i] : i \in 1 .. 13} \cup {DeinitScript[i] : i \in 1 .. 4}

(* A sequence, seen as a function.                                          *)
LEMMA SeqOf ==
    ASSUME NEW S, NEW n \in Nat, NEW f \in [1 .. n -> S]
    PROVE  f \in Seq(S) /\ Len(f) = n
<1>1. f \in Seq(S)
  BY SeqDef
<1>2. Len(f) \in Nat /\ DOMAIN f = 1 .. Len(f) /\ DOMAIN f = 1 .. n
  BY <1>1, LenProperties
<1>3. Len(f) <= n
  <2>1. CASE Len(f) = 0
    BY <2>1
  <2>2. CASE Len(f) > 0
    <3>1. Len(f) \in 1 .. n
      BY <1>2, <2>2
    <3> QED
      BY <3>1
  <2> QED
    BY <1>2, <2>1, <2>2
<1>4. Len(f) >= n
  <2>1. CASE n > 0
    <3>1. n \in 1 .. Len(f)
      BY <1>2, <2>1
    <3> QED
      BY <3>1
  <2> QED
    BY <1>2, <2>1
<1> QED
  BY <1>1, <1>2, <1>3, <1>4

(* What a script of six commands holds.                                     *)
LEMMA SixInSequence ==
    ASSUME NEW S, NEW a \in S, NEW b \in S, NEW c \in S, NEW d \in S, NEW e \in S
    PROVE  /\ <<a, b, c, b, d, e>> \in Seq(S) /\ Len(<<a, b, c, b, d, e>>) = 6
           /\ <<a, b, c, b, d, e>>[1] = a /\ <<a, b, c, b, d, e>>[2] = b
           /\ <<a, b, c, b, d, e>>[3] = c /\ <<a, b, c, b, d, e>>[4] = b
           /\ <<a, b, c, b, d, e>>[5] = d /\ <<a, b, c, b, d, e>>[6] = e
  OBVIOUS

(* The script of init, command by command. *)
LEMMA InitScriptIs ==
    /\ InitScript \in Seq(Scripted) /\ Len(InitScript) = 13
    /\ \A i \in 1 .. 7 : InitScript[i] = RecoveryHelper(Rescue[i])
    /\ InitScript[8] = ReadId(FALSE)
    /\ InitScript[9] = Command("enable", 0, FALSE)
    /\ InitScript[10] = Command("dummy", NumDummyCycles, FALSE)
    /\ InitScript[11] = Command("enable", 0, FALSE)
    /\ InitScript[12] = Command("quad", 1, FALSE)
    /\ InitScript[13] = ReadId(TRUE)
<1> DEFINE rescue == [n \in DOMAIN Rescue |-> RecoveryHelper(Rescue[n])]
           id == ReadId(FALSE)
           enable == Command("enable", 0, FALSE)
           dummy == Command("dummy", NumDummyCycles, FALSE)
           quad == Command("quad", 1, FALSE)
           quadId == ReadId(TRUE)
           rest == <<id, enable, dummy, enable, quad, quadId>>
           all == {RecoveryHelper(Rescue[i]) : i \in 1 .. 7} \cup {id, enable, dummy, quad, quadId}
<1>1. InitScript = rescue \o rest
  BY DEF InitScript
<1>2. rescue \in [1 .. 7 -> all] /\ \A i \in 1 .. 7 : rescue[i] = RecoveryHelper(Rescue[i])
  BY DEF Rescue
<1>3. id \in all /\ enable \in all /\ dummy \in all /\ quad \in all /\ quadId \in all
  OBVIOUS
<1> HIDE DEF rescue, id, enable, dummy, quad, quadId, all
<1>4. rescue \in Seq(all) /\ Len(rescue) = 7
  <2>1. rescue \in [1 .. 7 -> all] /\ 7 \in Nat
    BY <1>2
  <2> QED
    BY <2>1, SeqOf, Zenon
<1>5. /\ rest \in Seq(all) /\ Len(rest) = 6
      /\ rest[1] = id /\ rest[2] = enable /\ rest[3] = dummy /\ rest[4] = enable
      /\ rest[5] = quad /\ rest[6] = quadId
  BY <1>3, SixInSequence
<1> HIDE DEF rest
<1>6. /\ InitScript \in Seq(all) /\ Len(InitScript) = 13
      /\ \A i \in 1 .. 13 : InitScript[i] = IF i <= 7 THEN rescue[i] ELSE rest[i - 7]
  <2>1. /\ rescue \o rest \in Seq(all) /\ Len(rescue \o rest) = Len(rescue) + Len(rest)
        /\ \A i \in 1 .. Len(rescue) + Len(rest) :
              (rescue \o rest)[i] = IF i <= Len(rescue) THEN rescue[i] ELSE rest[i - Len(rescue)]
    BY <1>4, <1>5, ConcatProperties, Zenon
  <2>2. Len(rescue) = 7 /\ Len(rest) = 6
    BY <1>4, <1>5
  <2>3. InitScript \in Seq(all) /\ Len(InitScript) = 13
    BY <1>1, <2>1, <2>2
  <2>4. ASSUME NEW i \in 1 .. 13
        PROVE  InitScript[i] = IF i <= 7 THEN rescue[i] ELSE rest[i - 7]
    <3>1. i \in 1 .. Len(rescue) + Len(rest)
      BY <2>2
    <3> QED
      BY <1>1, <2>1, <2>2, <3>1
  <2> QED
    BY <2>3, <2>4
<1>7. InitScript \in Seq(Scripted)
  <2>1. InitScript = [i \in 1 .. 13 |-> InitScript[i]]
    BY <1>6
  <2>2. \A i \in 1 .. 13 : InitScript[i] \in Scripted
    BY DEF Scripted
  <2>3. InitScript \in [1 .. 13 -> Scripted]
    BY <2>1, <2>2
  <2> QED
    BY <2>3, SeqOf
<1>8. \A i \in 1 .. 7 : InitScript[i] = RecoveryHelper(Rescue[i])
  BY <1>2, <1>6
<1>9. /\ InitScript[8] = id /\ InitScript[9] = enable /\ InitScript[10] = dummy
      /\ InitScript[11] = enable /\ InitScript[12] = quad /\ InitScript[13] = quadId
  BY <1>5, <1>6
<1> QED
  BY <1>6, <1>7, <1>8, <1>9 DEF id, enable, dummy, quad, quadId

(* That of deinit. *)
LEMMA DeinitScriptIs ==
    /\ DeinitScript \in Seq(Scripted) /\ Len(DeinitScript) = 4
    /\ \A i \in 1 .. 4 : /\ Proper(DeinitScript[i])
                         /\ DeinitScript[i].count.recv = 0
<1> DEFINE first == Command("enable", 0, TRUE)
           second == Command("dummy", 15, TRUE)
           fourth == Command("quad", 0, TRUE)
<1>1. /\ DeinitScript = <<first, second, first, fourth>>
  BY DEF DeinitScript
<1>2. /\ Proper(first) /\ Proper(second) /\ Proper(fourth)
      /\ first.count.recv = 0 /\ second.count.recv = 0 /\ fourth.count.recv = 0
  BY CommandIs
<1> HIDE DEF first, second, fourth
<1>3. /\ DeinitScript[1] = first /\ DeinitScript[2] = second /\ DeinitScript[3] = first
      /\ DeinitScript[4] = fourth /\ Len(DeinitScript) = 4
  BY <1>1
<1>4. first \in Scripted /\ second \in Scripted /\ fourth \in Scripted
  BY <1>3 DEF Scripted
<1> QED
  BY <1>1, <1>2, <1>3, <1>4

(* Every command of a script is a proper one. *)
LEMMA ScriptedProper == \A t \in Scripted : Proper(t) /\ t # NoTxn
<1>1. ASSUME NEW i \in 1 .. 7
      PROVE  Proper(InitScript[i])
  <2>1. Rescue[i] \in 1 .. 33
    BY <1>1 DEF Rescue
  <2> QED
    BY <2>1, InitScriptIs, RecoveryIs
<1>2. ASSUME NEW i \in 8 .. 13
      PROVE  Proper(InitScript[i])
  <2>1. Proper(ReadId(FALSE)) /\ Proper(ReadId(TRUE))
    BY ReadIdIs
  <2>2. /\ Proper(Command("enable", 0, FALSE)) /\ Proper(Command("quad", 1, FALSE))
        /\ Proper(Command("dummy", NumDummyCycles, FALSE))
    BY CommandIs
  <2>3. i = 8 \/ i = 9 \/ i = 10 \/ i = 11 \/ i = 12 \/ i = 13
    OBVIOUS
  <2> QED
    BY <2>1, <2>2, <2>3, InitScriptIs
<1>3. \A i \in 1 .. 13 : Proper(InitScript[i])
  BY <1>1, <1>2
<1> QED
  BY <1>3, DeinitScriptIs, NoTxnIsNone DEF Scripted

-----------------------------------------------------------------------------
(* The two handshakes.                                                      *)

(* A command is on its way from the registers to the wire.                  *)
Pending == sendLeft = 1 \/ (readValid /\ ~readAck)

Command1 == [count |-> regs, cmd |-> from]

(* The registers hold what the SPI clock has yet to sample: the command is  *)
(* on its way until a frame has begun, and then the frame is that command.  *)
Handed ==
    /\ readValid \in BOOLEAN /\ readAck \in BOOLEAN /\ active \in BOOLEAN /\ counted \in BOOLEAN
    /\ sendLeft \in {0, 1}
    /\ sendLeft = 1 => active /\ (readValid => readAck)
    /\ readValid /\ ~readAck => outLine = from
    /\ owed = IF Pending THEN <<Command1>> ELSE <<>>
    /\ ~Pending /\ ~counted => frame = Command1
    /\ counted => ~active /\ ~Pending /\ txn # NoTxn /\ regs = txn.count
    /\ txn # NoTxn => Proper(txn)
    /\ script \in Seq(Scripted)
    /\ ~misframed

handVars == <<readValid, readAck, active, counted, sendLeft, outLine, owed, regs, from, frame,
              txn, script, misframed>>

(* It speaks of these variables alone.                                      *)
LEMMA HandedStill ==
    ASSUME Handed, UNCHANGED handVars
    PROVE  Handed'
  BY DEF Handed, handVars, Pending, Command1

(* The steps of the clocks.                                                 *)
LEMMA HandedClocks ==
    ASSUME Handed, Clocks, UNCHANGED loaderVars
    PROVE  Handed'
<1> USE DEF Handed, Pending, Command1, loaderVars, cpuSide, spiSide
<1>1. CASE FetchLine
  BY <1>1 DEF FetchLine
<1>2. CASE StoreLine
  BY <1>2 DEF StoreLine, StoreLineThenAt
<1>3. CASE EndTransaction
  <2>1. /\ active' = FALSE /\ sendLeft = 0
        /\ UNCHANGED <<readValid, readAck, counted, sendLeft, outLine, owed, regs, from, frame,
                       txn, script, misframed>>
    BY <1>3 DEF EndTransaction
  <2>2. owed' = IF Pending' THEN <<Command1'>> ELSE <<>>
    BY <2>1
  <2>3. ~Pending' /\ ~counted' => frame' = Command1'
    BY <2>1
  <2>4. counted' => ~active' /\ ~Pending' /\ txn' # NoTxn /\ regs' = txn'.count
    BY <2>1
  <2> HIDE DEF Pending, Command1
  <2>5. readValid' \in BOOLEAN /\ readAck' \in BOOLEAN /\ active' \in BOOLEAN /\ counted' \in BOOLEAN
    BY <2>1
  <2>6. sendLeft' \in {0, 1}
    BY <2>1
  <2>7. sendLeft' = 1 => active' /\ (readValid' => readAck')
    BY <2>1
  <2>8. readValid' /\ ~readAck' => outLine' = from'
    BY <2>1
  <2>9. txn' # NoTxn => Proper(txn)'
    BY <2>1
  <2>10. script' \in Seq(Scripted) /\ ~misframed'
    BY <2>1
  <2> QED
    BY <2>2, <2>3, <2>4, <2>5, <2>6, <2>7, <2>8, <2>9, <2>10
<1>4. CASE CpuHandshake
  <2>1. /\ UNCHANGED <<readAck, active, counted, sendLeft, outLine, owed, regs, from, frame,
                       txn, script, misframed>>
        /\ readValid' = readValid \/ (readValid /\ readAck /\ readValid' = FALSE)
    BY <1>4 DEF CpuHandshake
  <2>2. owed' = IF Pending' THEN <<Command1'>> ELSE <<>>
    BY <2>1
  <2>3. ~Pending' /\ ~counted' => frame' = Command1'
    BY <2>1
  <2>4. counted' => ~active' /\ ~Pending' /\ txn' # NoTxn /\ regs' = txn'.count
    BY <2>1
  <2>5. /\ readValid' \in BOOLEAN
        /\ readValid' /\ ~readAck' => readValid /\ ~readAck
        /\ sendLeft = 1 => (readValid' => readAck')
    <3>1. CASE readValid' = FALSE
      BY <3>1
    <3>2. CASE readValid' = readValid
      BY <2>1, <3>2
    <3> QED
      BY <2>1, <3>1, <3>2
  <2> HIDE DEF Pending, Command1
  <2> QED
    BY <2>1, <2>2, <2>3, <2>4, <2>5
<1>5. CASE Begin
  BY <1>5 DEF Begin, BeginFrame
<1>6. CASE Send
  BY <1>6 DEF Send
<1>7. CASE Receive
  BY <1>7 DEF Receive
<1>8. CASE OfferLine
  BY <1>8 DEF OfferLine
<1>9. CASE LineTaken
  BY <1>9 DEF LineTaken
<1>10. CASE DropReadAck
  BY <1>10 DEF DropReadAck
<1> QED
  BY <1>1, <1>2, <1>3, <1>4, <1>5, <1>6, <1>7, <1>8, <1>9, <1>10 DEF Clocks

(* The steps of start_transaction.                                          *)
LEMMA HandedStart ==
    ASSUME Handed, StartTransaction
    PROVE  Handed'
<1> USE DEF Handed, Pending, Command1, cpuSide, spiSide
<1>1. ASSUME ~counted, Begun, WriteCounts(txn.count), counted' = TRUE,
             UNCHANGED <<txn, image, step, after, script, lastOp, index>>
      PROVE  Handed'
  BY <1>1 DEF StartTransaction, WriteCounts, Begun, CtrlAck
<1>2. ASSUME counted, Trigger(txn.cmd, txn.to), counted' = FALSE, txn' = NoTxn,
             UNCHANGED <<image, step, after, script, lastOp, index>>
      PROVE  Handed'
  <2>1. sendLeft' = 1
    <3>1. regs = txn.count /\ Proper(txn)
      BY <1>2
    <3>2. LinesOf(regs.send, regs.quad) = 1
      BY <3>1 DEF Proper
    <3> QED
      BY <1>2, <3>2 DEF Trigger
  <2>2. owed' = <<[count |-> regs, cmd |-> txn.cmd]>>
    BY <1>2 DEF Trigger
  <2>3. regs' = regs /\ from' = txn.cmd
    BY <1>2 DEF Trigger
  <2>4. owed' = <<Command1'>>
    BY <2>2, <2>3
  <2>5. /\ active' /\ active' \in BOOLEAN
        /\ UNCHANGED <<readValid, readAck, script, misframed, outLine>>
        /\ counted' = FALSE /\ txn' = NoTxn
    BY <1>2 DEF Trigger
  <2>6. readValid => readAck
    BY <1>2
  <2> QED
    BY <2>1, <2>4, <2>5, <2>6
<1> QED
  BY <1>1, <1>2 DEF StartTransaction

(* What the loader may begin next.                                          *)
LEMMA HandedTxn ==
    ASSUME Handed, UNCHANGED <<readValid, readAck, active, counted, sendLeft, outLine, owed, regs,
                               from, frame, misframed>>,
           txn = NoTxn, txn' = NoTxn \/ Proper(txn'), script' \in Seq(Scripted)
    PROVE  Handed'
  BY DEF Handed, Pending, Command1

(* Whatever the loader asks to be read is a proper transaction.             *)
LEMMA ReadIs ==
    ASSUME NEW address, NEW size \in Nat, NEW dest
    PROVE  Proper(Transaction("read", address, TRUE, 4, NumDummyCycles, dest, size))
<1>1. 4 \in 1 .. 4 /\ TRUE \in BOOLEAN
  OBVIOUS
<1> QED
  BY <1>1, TransactionIs, Zenon

(* Where the loader can be.                                                 *)
Loading == {"start", "header", "phdrs", "segments", "shdrs", "sections"}

Placed ==
    /\ image \in DOMAIN Images
    /\ index \in Nat \ {0}
    /\ step \in {"init", "deinit", "os", "halted"} \cup Loading
    /\ after \in {"os", "halted"}

(* The headers of the image that was chosen.                                *)
LEMMA ImageIs ==
    ASSUME Placed
    PROVE  /\ Image.valid \in BOOLEAN
           /\ Image.phdrs \in Seq([load : BOOLEAN, offset : Nat, filesz : Nat, vaddr : Nat, memsz : Nat])
           /\ Image.shdrs \in Seq([nobits : BOOLEAN, addr : Nat, size : Nat])
           /\ Len(Image.phdrs) \in Nat /\ Len(Image.shdrs) \in Nat
           /\ \A i \in 1 .. Len(Image.phdrs) :
                 Image.phdrs[i] \in [load : BOOLEAN, offset : Nat, filesz : Nat, vaddr : Nat, memsz : Nat]
           /\ \A i \in 1 .. Len(Image.shdrs) : Image.shdrs[i] \in [nobits : BOOLEAN, addr : Nat, size : Nat]
           /\ DOMAIN Image.phdrs = 1 .. Len(Image.phdrs) /\ DOMAIN Image.shdrs = 1 .. Len(Image.shdrs)
<1> DEFINE P == [load : BOOLEAN, offset : Nat, filesz : Nat, vaddr : Nat, memsz : Nat]
           S == [nobits : BOOLEAN, addr : Nat, size : Nat]
<1>1. Image.valid \in BOOLEAN /\ Image.phdrs \in Seq(P) /\ Image.shdrs \in Seq(S)
  BY BootAssumption DEF Placed, Image
<1> HIDE DEF P, S
<1>2. /\ Len(Image.phdrs) \in Nat /\ Image.phdrs \in [1 .. Len(Image.phdrs) -> P]
      /\ Len(Image.shdrs) \in Nat /\ Image.shdrs \in [1 .. Len(Image.shdrs) -> S]
  BY <1>1, LenProperties
<1> QED
  BY <1>1, <1>2 DEF P, S

(* The loader's own steps leave the master alone, but for what they write   *)
(* to memory, and begin a transaction only when the one before has.         *)
masterVars == <<regs, from, to, active, sendLeft, recvLeft, outLine, readValid, writeAck,
                spi, frame, left, shift, readAck, writeValid, flash, owed, misframed, counted>>

LEMMA LoaderStep ==
    ASSUME Placed, script \in Seq(Scripted), Loader
    PROVE  \/ StartTransaction
           \/ /\ UNCHANGED masterVars /\ txn = NoTxn
              /\ txn' = NoTxn \/ Proper(txn')
              /\ script' \in Seq(Scripted)
              /\ Placed'
<1> USE DEF Untouched, masterVars, cpuSide, spiSide, spiVars, Placed, Loading, Free, Idle, WaitDone
<1> DEFINE Goal == /\ UNCHANGED masterVars /\ txn = NoTxn
                   /\ txn' = NoTxn \/ Proper(txn')
                   /\ script' \in Seq(Scripted)
                   /\ Placed'
<1>1. CASE NextInScript
  <2>1. txn' \in Scripted /\ script' \in Seq(Scripted)
    BY <1>1, HeadTailProperties DEF NextInScript
  <2>2. Proper(txn')
    BY <2>1, ScriptedProper
  <2> QED
    BY <1>1, <2>1, <2>2 DEF NextInScript
<1>2. CASE EndOfScript
  BY <1>2 DEF EndOfScript
<1>3. ASSUME NEW address, NEW size \in Nat, NEW dest, InitiateRead(address, size, dest)
      PROVE  Proper(txn')
  BY <1>3, ReadIs DEF InitiateRead
<1>4. CASE ReadHeader
  <2>1. Ehdr \in Nat
    BY DEF Ehdr
  <2>2. Proper(txn')
    BY <1>3, <1>4, <2>1 DEF ReadHeader
  <2> QED
    BY <1>4, <2>2 DEF ReadHeader
<1>5. CASE CheckHeader
  <2>1. CASE Refused
    BY <1>5, <2>1, DeinitScriptIs DEF CheckHeader, Deinit
  <2>2. CASE ~Refused
    <3>1. Ehdr * Len(Image.phdrs) \in Nat
      BY ImageIs DEF Ehdr
    <3>2. Proper(txn')
      BY <1>3, <1>5, <2>2, <3>1 DEF CheckHeader
    <3> QED
      BY <1>5, <2>2, <3>2 DEF CheckHeader
  <2> QED
    BY <2>1, <2>2
<1>6. CASE PhdrsRead
  BY <1>6 DEF PhdrsRead
<1>7. CASE SkipSegment
  BY <1>7 DEF SkipSegment
<1>8. CASE LoadSegment
  <2>1. Image.phdrs[index].filesz \in Nat
    BY <1>8, ImageIs DEF LoadSegment, More
  <2>2. Proper(txn')
    BY <1>3, <1>8, <2>1 DEF LoadSegment
  <2> QED
    BY <1>8, <2>2 DEF LoadSegment
<1>9. CASE ReadSections
  <2>1. Shdr * Len(Image.shdrs) \in Nat
    BY ImageIs DEF Shdr
  <2>2. Proper(txn')
    BY <1>3, <1>9, <2>1 DEF ReadSections
  <2> QED
    BY <1>9, <2>2 DEF ReadSections
<1>10. CASE SectionsRead
  BY <1>10 DEF SectionsRead
<1>11. CASE Section
  BY <1>11 DEF Section
<1>12. CASE OsIsLoaded
  BY <1>12, DeinitScriptIs DEF OsIsLoaded, Deinit
<1> HIDE DEF Goal
<1> QED
  BY <1>1, <1>2, <1>4, <1>5, <1>6, <1>7, <1>8, <1>9, <1>10, <1>11, <1>12 DEF Loader, Goal

(* The invariant of the handshakes, under every step of the boot loader.    *)
LEMMA HandedNext ==
    ASSUME Handed, Placed, [BootNext]_bootVars
    PROVE  Handed' /\ Placed'
<1>1. CASE Loader
  <2>1. CASE StartTransaction
    <3>1. Placed'
      BY <2>1 DEF StartTransaction, Placed
    <3> QED
      BY <2>1, <3>1, HandedStart
  <2>2. CASE ~StartTransaction
    <3>1. /\ UNCHANGED masterVars /\ txn = NoTxn
          /\ txn' = NoTxn \/ Proper(txn')
          /\ script' \in Seq(Scripted)
          /\ Placed'
      BY <1>1, <2>2, LoaderStep DEF Handed
    <3> QED
      BY <3>1, HandedTxn DEF masterVars
  <2> QED
    BY <2>1, <2>2
<1>2. CASE Clocks /\ UNCHANGED loaderVars
  <2>1. Placed'
    BY <1>2 DEF loaderVars, Placed
  <2> QED
    BY <1>2, <2>1, HandedClocks
<1>3. CASE UNCHANGED bootVars
  <2>1. Placed' /\ UNCHANGED handVars
    BY <1>3 DEF bootVars, loaderVars, spiVars, cpuSide, spiSide, handVars, Placed
  <2> QED
    BY <2>1, HandedStill
<1> QED
  BY <1>1, <1>2, <1>3 DEF BootNext

(* At power up, or after a reset that left the flash in quad mode.          *)
LEMMA HandedInit ==
    ASSUME BootInit
    PROVE  Handed /\ Placed
<1>1. owed = <<>> /\ sendLeft = 0 /\ readValid = FALSE /\ readAck = FALSE /\ active = FALSE
      /\ misframed = FALSE /\ counted = FALSE /\ txn = NoTxn /\ script = InitScript
      /\ frame = [count |-> regs, cmd |-> from]
  BY DEF BootInit, SpiInit, LoaderInit
<1>2. ~Pending /\ frame = Command1
  BY <1>1 DEF Pending, Command1
<1>3. Handed
  <2>1. owed = IF Pending THEN <<Command1>> ELSE <<>>
    BY <1>1, <1>2
  <2>2. script \in Seq(Scripted) /\ ~misframed
    BY <1>1, InitScriptIs
  <2>3. readValid \in BOOLEAN /\ readAck \in BOOLEAN /\ active \in BOOLEAN /\ counted \in BOOLEAN
    BY <1>1
  <2>4. sendLeft \in {0, 1} /\ sendLeft # 1 /\ ~(readValid /\ ~readAck)
    BY <1>1
  <2>5. ~counted /\ ~(txn # NoTxn)
    BY <1>1
  <2> QED
    BY <1>2, <2>1, <2>2, <2>3, <2>4, <2>5 DEF Handed
<1>4. Placed
  BY DEF BootInit, LoaderInit, Placed
<1> QED
  BY <1>3, <1>4

(* Whatever the image and however the two clocks run, no transaction of the *)
(* boot loader is lost on its way to the wire, and none is sent that was    *)
(* not begun (spi.sv:167, 358; spi.cpp:43).                                 *)
THEOREM Invariance == BootSpec => [](Handed /\ Placed)
<1>1. BootInit => Handed /\ Placed
  BY HandedInit
<1>2. (Handed /\ Placed) /\ [BootNext]_bootVars => (Handed /\ Placed)'
  BY HandedNext
<1> QED
  BY <1>1, <1>2, PTL DEF BootSpec

(* Every frame on the wire is the transaction whose turn it is, with its    *)
(* command, its length, its mode and the number of bytes to receive         *)
(* (spi.sv:167, 358; spi.cpp:43).                                           *)
THEOREM CommandsArrive == BootSpec => []FramesAreCommands
<1>1. Handed => FramesAreCommands
  BY DEF Handed, FramesAreCommands
<1> QED
  BY <1>1, Invariance, PTL

-----------------------------------------------------------------------------
(* The lines of an answer.                                                  *)

Chunks(n) == (n + 15) \div 16

WholeBytes(c) ==
    /\ c.quad \in BOOLEAN
    /\ \E n \in Nat : c.recv = IF c.quad THEN 2 * n ELSE 8 * n

(* Lines that n bytes take.                                                 *)
LEMMA ChunksAre ==
    ASSUME NEW n \in Nat
    PROVE  /\ Chunks(n) \in Nat /\ (Chunks(n) = 0 <=> n = 0)
           /\ n > 0 => /\ n <= 16 => Chunks(n) = 1
                       /\ n > 16 => Chunks(n) = Chunks(n - 16) + 1
  BY DEF Chunks

(* The count of bits that the driver writes, in bytes and in lines.         *)
LEMMA CountIs ==
    ASSUME NEW c, WholeBytes(c)
    PROVE  /\ Bytes(c.recv, c.quad) \in Nat
           /\ LinesOf(c.recv, c.quad) = Chunks(Bytes(c.recv, c.quad))
           /\ c.recv = 0 <=> Bytes(c.recv, c.quad) = 0
<1>1. PICK n \in Nat : c.recv = IF c.quad THEN 2 * n ELSE 8 * n
  BY DEF WholeBytes
<1>2. CASE c.quad
  <2>1. c.recv = 2 * n
    BY <1>1, <1>2
  <2>2. Bytes(c.recv, c.quad) = n
    BY <1>2, <2>1 DEF Bytes
  <2>3. LinesOf(c.recv, c.quad) = (n * 8 + 127) \div 128
    BY <1>2, <2>1, BufferAssumption DEF LinesOf
  <2> QED
    BY <2>1, <2>2, <2>3 DEF Chunks
<1>3. CASE ~c.quad
  <2>1. c.recv = 8 * n
    BY <1>1, <1>3
  <2>2. Bytes(c.recv, c.quad) = n
    BY <1>3, <2>1 DEF Bytes
  <2>3. LinesOf(c.recv, c.quad) = (n * 8 + 127) \div 128
    BY <1>3, <2>1, BufferAssumption DEF LinesOf
  <2> QED
    BY <2>1, <2>2, <2>3 DEF Chunks
<1> QED
  BY <1>2, <1>3 DEF WholeBytes

(* The line at hand is in memory, and the SPI side has not noticed yet.     *)
Stored == writeValid /\ writeAck

Offering == {"RECV_PENDING", "IDLE_PENDING"}

(* The lines of the frame at hand that are not in memory.                   *)
Unsaved ==
    IF spi = "SEND" THEN Chunks(Bytes(frame.count.recv, frame.count.quad))
    ELSE IF spi = "RECV_ACTIVE" THEN Chunks(left)
    ELSE IF spi \in Offering THEN Chunks(left) + (IF Stored THEN 0 ELSE 1)
    ELSE 0

Asked == IF Pending THEN Chunks(Bytes(regs.recv, regs.quad)) ELSE 0

(* The CPU side waits for as many lines as will come, and for none when the *)
(* transaction is over.                                                     *)
Awaiting ==
    /\ spi \in {"IDLE", "SEND", "RECV_ACTIVE"} \cup Offering
    /\ left \in Nat /\ recvLeft \in Nat /\ writeValid \in BOOLEAN /\ writeAck \in BOOLEAN
    /\ spi \in {"RECV_ACTIVE", "RECV_PENDING"} => left > 0
    /\ spi = "IDLE_PENDING" => left = 0
    /\ writeValid => spi \in Offering
    /\ spi = "SEND" => WholeBytes(frame.count)
    /\ Pending => WholeBytes(regs) /\ Unsaved = 0
    /\ recvLeft = Unsaved + Asked
    /\ ~active => recvLeft = 0

awaitVars == <<spi, left, recvLeft, writeValid, writeAck, frame, active, regs,
               readValid, readAck, sendLeft>>

(* It speaks of these variables alone.                                      *)
LEMMA AwaitingStill ==
    ASSUME Awaiting, UNCHANGED awaitVars
    PROVE  Awaiting'
<1>1. Stored' <=> Stored
  BY DEF Stored, awaitVars
<1>2. Pending' <=> Pending
  BY DEF Pending, awaitVars
<1>3. Unsaved' = Unsaved
  BY <1>1 DEF Unsaved, awaitVars
<1>4. Asked' = Asked
  BY <1>2 DEF Asked, awaitVars
<1> QED
  BY <1>2, <1>3, <1>4 DEF Awaiting, awaitVars

(* What is still to be stored is never negative.                            *)
LEMMA UnsavedIs ==
    ASSUME Awaiting
    PROVE  Unsaved \in Nat /\ Asked \in Nat
<1>1. Chunks(left) \in Nat
  BY ChunksAre DEF Awaiting
<1>2. spi = "SEND" => Chunks(Bytes(frame.count.recv, frame.count.quad)) \in Nat
  BY CountIs, ChunksAre DEF Awaiting
<1>3. Pending => Chunks(Bytes(regs.recv, regs.quad)) \in Nat
  BY CountIs, ChunksAre DEF Awaiting
<1> QED
  BY <1>1, <1>2, <1>3 DEF Unsaved, Asked

(* When a transaction is over, nothing of it is left to store.              *)
LEMMA NothingComes ==
    ASSUME Handed, Awaiting, ~active \/ recvLeft = 0
    PROVE  Unsaved = 0 /\ Asked = 0 /\ (writeValid => writeAck)
<1>1. Unsaved = 0 /\ Asked = 0
  BY UnsavedIs DEF Awaiting
<1>2. writeValid /\ ~writeAck => Unsaved >= 1
  BY ChunksAre DEF Awaiting, Unsaved, Offering, Stored
<1> QED
  BY <1>1, <1>2

(* The steps of the clocks: a line that comes is counted until it is        *)
(* stored.                                                                  *)
LEMMA AwaitingClocks ==
    ASSUME Handed, Awaiting, Clocks, UNCHANGED loaderVars
    PROVE  Awaiting'
<1> USE DEF loaderVars, cpuSide, spiSide
<1>1. CASE FetchLine
  <2>1. sendLeft = 1 /\ sendLeft' = 0 /\ readValid' = TRUE /\ readAck' = readAck /\ ~readAck
    BY <1>1 DEF FetchLine, Handed
  <2>2. Pending /\ Pending'
    BY <2>1 DEF Pending
  <2>3. UNCHANGED <<spi, left, recvLeft, writeValid, writeAck, frame, active, regs>>
    BY <1>1 DEF FetchLine
  <2>4. Unsaved' = Unsaved /\ Asked' = Asked
    BY <2>2, <2>3 DEF Unsaved, Stored, Asked
  <2> QED
    BY <2>2, <2>3, <2>4 DEF Awaiting
<1>2. CASE StoreLine
  <2>1. /\ writeValid /\ ~writeAck /\ writeAck' = TRUE /\ recvLeft' = recvLeft - 1
        /\ UNCHANGED <<spi, left, writeValid, frame, active, regs, readValid, readAck, sendLeft>>
    BY <1>2 DEF StoreLine, StoreLineThenAt
  <2>2. spi \in Offering /\ ~Stored /\ Stored'
    BY <2>1 DEF Awaiting, Stored
  <2>3. Unsaved = Chunks(left) + 1 /\ Unsaved' = Chunks(left) /\ Chunks(left) \in Nat
    BY <2>1, <2>2, ChunksAre DEF Unsaved, Offering, Awaiting
  <2>4. ~Pending
    BY <2>3 DEF Awaiting
  <2>5. ~Pending'
    BY <2>1, <2>4 DEF Pending
  <2>6. Asked = 0 /\ Asked' = 0
    BY <2>4, <2>5 DEF Asked
  <2>7. active /\ active'
    BY <1>2, <2>1 DEF StoreLine, StoreLineThenAt
  <2> QED
    BY <2>1, <2>2, <2>3, <2>5, <2>6, <2>7 DEF Awaiting
<1>3. CASE EndTransaction
  <2>1. /\ recvLeft = 0 /\ active' = FALSE
        /\ UNCHANGED <<spi, left, recvLeft, writeValid, writeAck, frame, regs, readValid, readAck, sendLeft>>
    BY <1>3 DEF EndTransaction
  <2>2. Pending' <=> Pending
    BY <2>1 DEF Pending
  <2>3. Unsaved' = Unsaved /\ Asked' = Asked
    BY <2>1, <2>2 DEF Unsaved, Stored, Asked
  <2> QED
    BY <2>1, <2>2, <2>3 DEF Awaiting
<1>4. CASE CpuHandshake
  <2>1. UNCHANGED <<spi, left, recvLeft, writeValid, frame, active, regs, readAck, sendLeft>>
    BY <1>4 DEF CpuHandshake
  <2>2. \/ readValid /\ readAck /\ readValid' = FALSE /\ writeAck' = writeAck
        \/ writeAck /\ ~writeValid /\ writeAck' = FALSE /\ readValid' = readValid
    BY <1>4 DEF CpuHandshake
  <2>3. (Pending' <=> Pending) /\ (Stored' <=> Stored) /\ writeAck' \in BOOLEAN
    <3>1. CASE readValid /\ readAck /\ readValid' = FALSE /\ writeAck' = writeAck
      BY <2>1, <3>1 DEF Pending, Stored, Awaiting
    <3>2. CASE writeAck /\ ~writeValid /\ writeAck' = FALSE /\ readValid' = readValid
      BY <2>1, <3>2 DEF Pending, Stored
    <3> QED
      BY <2>2, <3>1, <3>2
  <2>4. Unsaved' = Unsaved /\ Asked' = Asked
    BY <2>1, <2>3 DEF Unsaved, Asked
  <2> QED
    BY <2>1, <2>3, <2>4 DEF Awaiting
<1>5. CASE Begin
  <2>1. /\ spi = "IDLE" /\ readValid /\ ~readAck /\ frame'.count = regs /\ spi' = "SEND" /\ readAck' = TRUE
        /\ UNCHANGED <<left, recvLeft, writeValid, writeAck, active, regs, readValid, sendLeft>>
    BY <1>5 DEF Begin, BeginFrame
  <2>2. Pending /\ sendLeft = 0
    BY <2>1 DEF Handed, Pending
  <2>3. ~Pending'
    BY <2>1, <2>2 DEF Pending
  <2>4. Unsaved = 0 /\ Unsaved' = Chunks(Bytes(regs.recv, regs.quad))
    BY <2>1, <2>2 DEF Unsaved, Awaiting
  <2>5. Asked = Chunks(Bytes(regs.recv, regs.quad)) /\ Asked' = 0 /\ Asked \in Nat
    BY <2>2, <2>3, UnsavedIs DEF Asked
  <2>6. ~writeValid
    BY <2>1 DEF Awaiting, Offering
  <2> QED
    BY <2>1, <2>2, <2>3, <2>4, <2>5, <2>6 DEF Awaiting
<1>6. CASE Send
  <2>1. /\ spi = "SEND" /\ spi' = IF frame.count.recv = 0 THEN "IDLE" ELSE "RECV_ACTIVE"
        /\ left' = Bytes(frame.count.recv, frame.count.quad)
        /\ UNCHANGED <<recvLeft, writeValid, writeAck, frame, active, regs, readValid, readAck, sendLeft>>
    BY <1>6 DEF Send
  <2>2. WholeBytes(frame.count)
    BY <2>1 DEF Awaiting
  <2>3. left' \in Nat /\ (frame.count.recv = 0 <=> left' = 0)
    BY <2>1, <2>2, CountIs
  <2>4. Pending' <=> Pending
    BY <2>1 DEF Pending
  <2>5. Asked' = Asked
    BY <2>1, <2>4 DEF Asked
  <2>6. Unsaved' = Unsaved
    <3>1. Unsaved = Chunks(left')
      BY <2>1 DEF Unsaved
    <3>2. CASE frame.count.recv = 0
      <4>1. left' = 0 /\ spi' = "IDLE"
        BY <2>1, <2>3, <3>2
      <4>2. Unsaved' = 0
        BY <4>1 DEF Unsaved, Offering
      <4> QED
        BY <3>1, <4>1, <4>2, ChunksAre
    <3>3. CASE frame.count.recv # 0
      <4>1. spi' = "RECV_ACTIVE"
        BY <2>1, <3>3
      <4> QED
        BY <3>1, <4>1 DEF Unsaved
    <3> QED
      BY <3>2, <3>3
  <2>7. ~writeValid
    BY <2>1 DEF Awaiting, Offering
  <2> QED
    BY <2>1, <2>3, <2>4, <2>5, <2>6, <2>7 DEF Awaiting
<1>7. CASE Receive
  <2> DEFINE n == IF left < LineBytes THEN left ELSE LineBytes
  <2>1. /\ spi = "RECV_ACTIVE" /\ left' = left - n
        /\ spi' = IF left = n THEN "IDLE_PENDING" ELSE "RECV_PENDING"
        /\ UNCHANGED <<recvLeft, writeValid, writeAck, frame, active, regs, readValid, readAck, sendLeft>>
    BY <1>7 DEF Receive
  <2>2. left \in Nat /\ left > 0 /\ ~writeValid
    BY <2>1 DEF Awaiting, Offering
  <2>3. n = (IF left < 16 THEN left ELSE 16)
    BY BufferAssumption
  <2>4. left' \in Nat /\ Chunks(left) = Chunks(left') + 1 /\ (spi' = "IDLE_PENDING" <=> left' = 0)
    <3> HIDE DEF n
    <3>1. CASE left <= 16
      <4>1. n = left /\ left' = 0
        BY <2>1, <2>2, <2>3, <3>1
      <4>2. Chunks(left) = 1 /\ Chunks(0) = 0
        BY <2>2, <3>1, ChunksAre
      <4> QED
        BY <2>1, <4>1, <4>2
    <3>2. CASE left > 16
      <4>1. n = 16 /\ left' = left - 16 /\ left' > 0 /\ left' \in Nat
        BY <2>1, <2>2, <2>3, <3>2
      <4>2. Chunks(left) = Chunks(left - 16) + 1
        BY <2>2, <3>2, ChunksAre
      <4> QED
        BY <2>1, <4>1, <4>2, <3>2
    <3> QED
      BY <2>2, <3>1, <3>2
  <2>5. Unsaved' = Unsaved
    BY <2>1, <2>2, <2>4 DEF Unsaved, Offering, Stored
  <2>6. Pending' <=> Pending
    BY <2>1 DEF Pending
  <2>7. Asked' = Asked
    BY <2>1, <2>6 DEF Asked
  <2> HIDE DEF n
  <2> QED
    BY <2>1, <2>2, <2>4, <2>5, <2>6, <2>7 DEF Awaiting, Offering
<1>8. CASE OfferLine
  <2>1. /\ spi \in Offering /\ ~writeValid /\ ~writeAck /\ writeValid' = TRUE
        /\ UNCHANGED <<spi, left, recvLeft, writeAck, frame, active, regs, readValid, readAck, sendLeft>>
    BY <1>8 DEF OfferLine, Offering
  <2>2. (Pending' <=> Pending) /\ ~Stored /\ ~Stored'
    BY <2>1 DEF Pending, Stored
  <2>3. Unsaved' = Unsaved /\ Asked' = Asked
    BY <2>1, <2>2 DEF Unsaved, Asked
  <2> QED
    BY <2>1, <2>2, <2>3 DEF Awaiting
<1>9. CASE LineTaken
  <2>1. /\ writeValid /\ writeAck /\ writeValid' = FALSE
        /\ spi' = IF spi = "RECV_PENDING" THEN "RECV_ACTIVE" ELSE "IDLE"
        /\ UNCHANGED <<left, recvLeft, writeAck, frame, active, regs, readValid, readAck, sendLeft>>
    BY <1>9 DEF LineTaken
  <2>2. spi \in Offering /\ Stored
    BY <2>1 DEF Awaiting, Stored
  <2>3. Unsaved = Chunks(left) + 0 /\ Chunks(left) \in Nat
    BY <2>2, ChunksAre DEF Unsaved, Offering, Awaiting
  <2>4. Unsaved' = Unsaved
    <3>1. CASE spi = "RECV_PENDING"
      BY <2>1, <2>3, <3>1 DEF Unsaved
    <3>2. CASE spi = "IDLE_PENDING"
      BY <2>1, <2>3, <3>2, ChunksAre DEF Unsaved, Awaiting, Offering
    <3> QED
      BY <2>2, <3>1, <3>2 DEF Offering
  <2>5. Pending' <=> Pending
    BY <2>1 DEF Pending
  <2>6. Asked' = Asked
    BY <2>1, <2>5 DEF Asked
  <2> QED
    BY <2>1, <2>2, <2>4, <2>5, <2>6 DEF Awaiting, Offering
<1>10. CASE DropReadAck
  <2>1. /\ readAck /\ ~readValid /\ readAck' = FALSE
        /\ UNCHANGED <<spi, left, recvLeft, writeValid, writeAck, frame, active, regs, readValid, sendLeft>>
    BY <1>10 DEF DropReadAck
  <2>2. (Pending' <=> Pending) /\ (Stored' <=> Stored)
    BY <2>1 DEF Pending, Stored
  <2>3. Unsaved' = Unsaved /\ Asked' = Asked
    BY <2>1, <2>2 DEF Unsaved, Asked
  <2> QED
    BY <2>1, <2>2, <2>3 DEF Awaiting
<1> QED
  BY <1>1, <1>2, <1>3, <1>4, <1>5, <1>6, <1>7, <1>8, <1>9, <1>10 DEF Clocks

(* The trigger counts the lines that the command will bring.                *)
LEMMA AwaitingStart ==
    ASSUME Handed, Awaiting, StartTransaction
    PROVE  Awaiting'
<1> USE DEF cpuSide, spiSide
<1>1. ASSUME ~counted, Begun, WriteCounts(txn.count), counted' = TRUE, UNCHANGED txn
      PROVE  Awaiting'
  <2>1. ~active /\ UNCHANGED <<spi, left, recvLeft, writeValid, writeAck, frame, active,
                               readValid, readAck, sendLeft>>
    BY <1>1 DEF WriteCounts, CtrlAck
  <2>2. ~Pending
    BY <1>1, <2>1 DEF Begun, Handed, Pending
  <2>3. ~Pending'
    BY <2>1, <2>2 DEF Pending
  <2>4. Unsaved' = Unsaved /\ Asked' = Asked
    BY <2>1, <2>2, <2>3 DEF Unsaved, Stored, Asked
  <2> QED
    BY <2>1, <2>3, <2>4 DEF Awaiting
<1>2. ASSUME counted, Trigger(txn.cmd, txn.to)
      PROVE  Awaiting'
  <2>1. /\ active' = TRUE /\ recvLeft' = LinesOf(regs.recv, regs.quad)
        /\ sendLeft' = LinesOf(regs.send, regs.quad)
        /\ UNCHANGED <<spi, left, writeValid, writeAck, frame, regs, readValid, readAck>>
    BY <1>2 DEF Trigger
  <2>2. ~active /\ ~Pending /\ regs = txn.count /\ Proper(txn)
    BY <1>2 DEF Handed
  <2>3. WholeBytes(regs)
    BY <2>2 DEF Proper, WholeBytes
  <2>4. Pending'
    BY <2>1, <2>2 DEF Pending, Proper
  <2>5. recvLeft' = Chunks(Bytes(regs.recv, regs.quad)) /\ recvLeft' \in Nat
    BY <2>1, <2>3, CountIs, ChunksAre
  <2>6. Unsaved' = 0
    <3>1. Unsaved = 0
      BY <2>2, NothingComes
    <3>2. Unsaved' = Unsaved
      BY <2>1 DEF Unsaved, Stored
    <3> QED
      BY <3>1, <3>2
  <2>7. Asked' = recvLeft'
    BY <2>1, <2>4, <2>5 DEF Asked
  <2> QED
    BY <2>1, <2>3, <2>4, <2>5, <2>6, <2>7 DEF Awaiting
<1> QED
  BY <1>1, <1>2 DEF StartTransaction

(* Every step.                                                              *)
LEMMA AwaitingNext ==
    ASSUME Handed, Awaiting, Placed, [BootNext]_bootVars
    PROVE  Awaiting'
<1>1. CASE Loader
  <2>1. CASE ~StartTransaction
    <3>1. UNCHANGED awaitVars
      BY <1>1, <2>1, LoaderStep DEF Handed, masterVars, awaitVars
    <3> QED
      BY <3>1, AwaitingStill
  <2> QED
    BY <2>1, AwaitingStart
<1>2. CASE UNCHANGED bootVars
  <2>1. UNCHANGED awaitVars
    BY <1>2 DEF bootVars, spiVars, cpuSide, spiSide, awaitVars
  <2> QED
    BY <2>1, AwaitingStill
<1> QED
  BY <1>1, <1>2, AwaitingClocks DEF BootNext

(* Nothing is on its way at first.                                          *)
LEMMA AwaitingInit ==
    ASSUME BootInit
    PROVE  Awaiting
<1>1. /\ spi = "IDLE" /\ left = 0 /\ recvLeft = 0 /\ writeValid = FALSE /\ writeAck = FALSE
      /\ active = FALSE /\ sendLeft = 0 /\ readValid = FALSE
  BY DEF BootInit, SpiInit
<1>2. ~Pending /\ Unsaved = 0
  BY <1>1 DEF Pending, Unsaved, Offering
<1>3. Asked = 0
  BY <1>2 DEF Asked
<1>4. /\ spi \in {"IDLE", "SEND", "RECV_ACTIVE"} \cup Offering
      /\ spi \notin {"RECV_ACTIVE", "RECV_PENDING"} /\ spi # "IDLE_PENDING" /\ spi # "SEND"
  BY <1>1
<1>5. recvLeft = Unsaved + Asked /\ left \in Nat /\ recvLeft \in Nat
  BY <1>1, <1>2, <1>3
<1>6. writeValid \in BOOLEAN /\ writeAck \in BOOLEAN /\ ~writeValid
  BY <1>1
<1> QED
  BY <1>1, <1>2, <1>4, <1>5, <1>6 DEF Awaiting

-----------------------------------------------------------------------------
(* The mode of the flash.                                                   *)

Order(t) == [count |-> t.count, cmd |-> t.cmd]

(* The flash when all that has been begun has reached it.                   *)
OnWire == IF spi = "SEND" THEN FlashAfter(flash, frame) ELSE flash

Sent == IF Pending THEN FlashAfter(OnWire, Command1) ELSE OnWire

Final == IF txn # NoTxn THEN FlashAfter(Sent, Order(txn)) ELSE Sent

FlashStates == [quad : BOOLEAN, dummy : Int, enabled : BOOLEAN, rescued : Int]

(* What n commands of init leave it in, wherever it began.                  *)
Reached(f, n) ==
    /\ f \in FlashStates
    /\ f.rescued = IF n < 7 THEN n ELSE 0
    /\ f.enabled <=> n \in {9, 11}
    /\ 7 <= n /\ n < 10 => f.dummy = 15
    /\ 10 <= n => f.dummy = 3
    /\ 7 <= n /\ n < 12 => ~f.quad
    /\ 12 <= n => f.quad

(* The parts of a frame.                                                    *)
LEMMA OrderIs ==
    ASSUME NEW t
    PROVE  Order(t).cmd = t.cmd /\ Order(t).count = t.count
  BY DEF Order

(* A read leaves the mode of the flash as it is.                            *)
LEMMA ReadsChangeNothing ==
    ASSUME NEW f, NEW t, t.cmd.op \in {"read", "id"}
    PROVE  FlashAfter(f, Order(t)) = f
<1>1. Order(t).cmd.op \in {"read", "id"}
  BY DEF Order
<1> QED
  BY <1>1 DEF FlashAfter

(* Each command of init takes the flash one state further.                  *)
LEMMA ReachedStep ==
    ASSUME NEW n \in 0 .. 12, NEW f, Reached(f, n)
    PROVE  Reached(FlashAfter(f, Order(InitScript[n + 1])), n + 1)
<1> DEFINE c == Order(InitScript[n + 1])
<1>0. f \in FlashStates
  BY DEF Reached
<1>1. CASE n < 7
  <2>1. /\ InitScript[n + 1] = RecoveryHelper(Rescue[n + 1])
        /\ Len(Rescue) = 7
    BY <1>1, InitScriptIs DEF Rescue
  <2>2. c.cmd.op = "rescue" /\ c.count.send = Rescue[n + 1]
    BY <2>1 DEF RecoveryHelper, Order, Counts
  <2>3. f.rescued = n /\ ~f.enabled
    BY <1>1 DEF Reached
  <2> HIDE DEF c
  <2>4. CASE n = 6
    <3>1. FlashAfter(f, c) = PowerUp
      BY <2>1, <2>2, <2>3, <2>4 DEF FlashAfter
    <3>2. PowerUp \in FlashStates
      BY DEF PowerUp, FlashStates
    <3>3. Reached(PowerUp, 7)
      BY <3>2 DEF Reached, PowerUp
    <3> QED
      BY <2>4, <3>1, <3>3 DEF c
  <2>5. CASE n # 6
    <3>1. FlashAfter(f, c) = [f EXCEPT !.rescued = n + 1]
      BY <2>1, <2>2, <2>3, <2>5 DEF FlashAfter
    <3>2. n + 1 < 7
      BY <1>1, <2>5
    <3>3. /\ [f EXCEPT !.rescued = n + 1] \in FlashStates
          /\ [f EXCEPT !.rescued = n + 1].rescued = n + 1
          /\ [f EXCEPT !.rescued = n + 1].enabled = f.enabled
      BY <1>0 DEF FlashStates
    <3>4. Reached([f EXCEPT !.rescued = n + 1], n + 1)
      BY <2>3, <3>2, <3>3 DEF Reached
    <3> QED
      BY <3>1, <3>4 DEF c
  <2> QED
    BY <2>4, <2>5
<1>2. CASE n = 7 \/ n = 12
  <2>1. InitScript[8].cmd.op = "id" /\ InitScript[13].cmd.op = "id"
    <3>1. InitScript[8] = ReadId(FALSE) /\ InitScript[13] = ReadId(TRUE)
      BY InitScriptIs
    <3>2. ReadId(FALSE).cmd = [op |-> "id", arg |-> 0] /\ ReadId(TRUE).cmd = [op |-> "id", arg |-> 0]
      BY ReadIdIs
    <3>3. /\ InitScript[8].cmd = [op |-> "id", arg |-> 0]
          /\ InitScript[13].cmd = [op |-> "id", arg |-> 0]
      BY <3>1, <3>2, Zenon
    <3> QED
      BY <3>3
  <2>2. InitScript[n + 1].cmd.op = "id"
    <3>1. n + 1 = 8 \/ n + 1 = 13
      BY <1>2
    <3> QED
      BY <2>1, <3>1
  <2>3. FlashAfter(f, c) = f
    BY <2>2, ReadsChangeNothing
  <2>4. Reached(f, n + 1)
    BY <1>2 DEF Reached
  <2> HIDE DEF c
  <2> QED
    BY <2>3, <2>4 DEF c
<1>3. CASE n = 8 \/ n = 10
  <2>1. n + 1 = 9 \/ n + 1 = 11
    BY <1>3
  <2>2. InitScript[9] = Command("enable", 0, FALSE) /\ InitScript[11] = Command("enable", 0, FALSE)
    BY InitScriptIs
  <2>3. InitScript[n + 1] = Command("enable", 0, FALSE)
    BY <2>1, <2>2
  <2>4. /\ Command("enable", 0, FALSE).cmd = [op |-> "enable", arg |-> 0]
        /\ Command("enable", 0, FALSE).count.quad = FALSE
    BY CommandIs
  <2>5. c.cmd.op = "enable" /\ c.count.quad = FALSE
    <3>1. c.cmd = InitScript[n + 1].cmd /\ c.count = InitScript[n + 1].count
      BY OrderIs, Zenon
    <3> HIDE DEF c
    <3>2. c.cmd = [op |-> "enable", arg |-> 0] /\ c.count.quad = FALSE
      BY <2>3, <2>4, <3>1, Zenon
    <3> QED
      BY <3>2
  <2> HIDE DEF c
  <2>6. f.quad = FALSE
    BY <1>0, <1>3 DEF Reached, FlashStates
  <2>7. FlashAfter(f, c) = [f EXCEPT !.enabled = TRUE]
    BY <2>5, <2>6 DEF FlashAfter, Understood
  <2>8. /\ [f EXCEPT !.enabled = TRUE] \in FlashStates
        /\ [f EXCEPT !.enabled = TRUE].enabled = TRUE
        /\ [f EXCEPT !.enabled = TRUE].rescued = f.rescued
        /\ [f EXCEPT !.enabled = TRUE].quad = f.quad
        /\ [f EXCEPT !.enabled = TRUE].dummy = f.dummy
    BY <1>0 DEF FlashStates
  <2>9. Reached([f EXCEPT !.enabled = TRUE], n + 1)
    BY <1>3, <2>8 DEF Reached
  <2> QED
    BY <2>7, <2>9 DEF c
<1>4. CASE n = 9
  <2>1. InitScript[10] = Command("dummy", 3, FALSE)
    BY InitScriptIs DEF NumDummyCycles
  <2>2. n + 1 = 10
    BY <1>4
  <2>3. /\ Command("dummy", 3, FALSE).cmd = [op |-> "dummy", arg |-> 3]
        /\ Command("dummy", 3, FALSE).count.quad = FALSE
    BY CommandIs
  <2>4. c.cmd.op = "dummy" /\ c.cmd.arg = 3 /\ c.count.quad = FALSE
    <3>1. c.cmd = InitScript[n + 1].cmd /\ c.count = InitScript[n + 1].count
      BY OrderIs, Zenon
    <3>2. InitScript[n + 1] = Command("dummy", 3, FALSE)
      BY <2>1, <2>2
    <3> HIDE DEF c
    <3>3. c.cmd = [op |-> "dummy", arg |-> 3] /\ c.count.quad = FALSE
      BY <2>3, <3>1, <3>2, Zenon
    <3> QED
      BY <3>3
  <2> HIDE DEF c
  <2>5. f.quad = FALSE /\ f.enabled
    BY <1>0, <1>4 DEF Reached, FlashStates
  <2> DEFINE g == [f EXCEPT !.dummy = 3, !.enabled = FALSE]
  <2>6. FlashAfter(f, c) = g
    BY <2>4, <2>5 DEF FlashAfter, Understood
  <2>7. g \in FlashStates /\ g.enabled = FALSE /\ g.rescued = f.rescued /\ g.quad = f.quad /\ g.dummy = 3
    <3> DEFINE h == [f EXCEPT !.dummy = 3]
    <3>1. h \in FlashStates /\ h.rescued = f.rescued /\ h.quad = f.quad /\ h.dummy = 3
      BY <1>0 DEF FlashStates
    <3>2. g = [h EXCEPT !.enabled = FALSE]
      OBVIOUS
    <3> HIDE DEF h
    <3> QED
      BY <3>1, <3>2 DEF FlashStates
  <2> HIDE DEF g
  <2>8. Reached(g, 10)
    BY <1>4, <2>7 DEF Reached
  <2> QED
    BY <2>2, <2>6, <2>8 DEF c
<1>5. CASE n = 11
  <2>1. InitScript[12] = Command("quad", 1, FALSE)
    BY InitScriptIs
  <2>2. n + 1 = 12
    BY <1>5
  <2>3. /\ Command("quad", 1, FALSE).cmd = [op |-> "quad", arg |-> 1]
        /\ Command("quad", 1, FALSE).count.quad = FALSE
    BY CommandIs
  <2>4. c.cmd.op = "quad" /\ c.cmd.arg = 1 /\ c.count.quad = FALSE
    <3>1. c.cmd = InitScript[n + 1].cmd /\ c.count = InitScript[n + 1].count
      BY OrderIs, Zenon
    <3>2. InitScript[n + 1] = Command("quad", 1, FALSE)
      BY <2>1, <2>2
    <3> HIDE DEF c
    <3>3. c.cmd = [op |-> "quad", arg |-> 1] /\ c.count.quad = FALSE
      BY <2>3, <3>1, <3>2, Zenon
    <3> QED
      BY <3>3
  <2> HIDE DEF c
  <2>5. f.quad = FALSE /\ f.enabled
    BY <1>0, <1>5 DEF Reached, FlashStates
  <2> DEFINE g == [f EXCEPT !.quad = TRUE, !.enabled = FALSE]
  <2>6. FlashAfter(f, c) = g
    BY <2>4, <2>5 DEF FlashAfter, Understood
  <2>7. g \in FlashStates /\ g.enabled = FALSE /\ g.rescued = f.rescued /\ g.quad = TRUE /\ g.dummy = f.dummy
    BY <1>0 DEF FlashStates
  <2> HIDE DEF g
  <2>8. Reached(g, 12)
    BY <1>5, <2>7 DEF Reached
  <2> QED
    BY <2>2, <2>6, <2>8 DEF c
<1>6. n < 7 \/ n = 7 \/ n = 8 \/ n = 9 \/ n = 10 \/ n = 11 \/ n = 12
  OBVIOUS
<1> HIDE DEF c
<1> QED
  BY <1>1, <1>2, <1>3, <1>4, <1>5, <1>6 DEF c

(* After init the flash is in the mode of the reads, and stays in it until  *)
(* deinit.                                                                  *)
FlashReady ==
    /\ step = "init" =>
        /\ Len(script) <= 13
        /\ \A i \in 1 .. Len(script) : script[i] = InitScript[13 - Len(script) + i]
        /\ Reached(Final, 13 - Len(script))
    /\ step \in Loading => Reached(Final, 13)

(* The clocks only carry commands on.                                       *)
LEMMA FinalClocks ==
    ASSUME Handed, Awaiting, Clocks, UNCHANGED loaderVars
    PROVE  Final' = Final
<1> USE DEF loaderVars, cpuSide, spiSide
<1>1. CASE FetchLine
  <2>1. sendLeft = 1 /\ readValid' = TRUE /\ readAck' = readAck /\ ~readAck
    BY <1>1 DEF FetchLine, Handed
  <2>2. Pending /\ Pending'
    BY <2>1 DEF Pending
  <2>3. UNCHANGED <<spi, flash, frame, regs, from, txn>>
    BY <1>1 DEF FetchLine
  <2> QED
    BY <2>2, <2>3 DEF Final, Sent, OnWire, Command1
<1>2. CASE Begin
  <2>1. /\ spi = "IDLE" /\ readValid /\ ~readAck /\ spi' = "SEND" /\ readAck' = TRUE
        /\ frame' = [count |-> regs, cmd |-> outLine]
        /\ UNCHANGED <<flash, regs, from, txn, readValid, sendLeft>>
    BY <1>2 DEF Begin, BeginFrame
  <2>2. Pending /\ sendLeft = 0 /\ outLine = from
    BY <2>1 DEF Handed, Pending
  <2>3. ~Pending'
    BY <2>1, <2>2 DEF Pending
  <2>4. Sent = FlashAfter(flash, Command1)
    BY <2>1, <2>2 DEF Sent, OnWire
  <2>5. Sent' = FlashAfter(flash, frame')
    BY <2>1, <2>3 DEF Sent, OnWire
  <2>6. Sent' = Sent
    BY <2>1, <2>2, <2>4, <2>5 DEF Command1
  <2> QED
    BY <2>1, <2>6 DEF Final
<1>3. CASE Send
  <2>1. /\ spi = "SEND" /\ spi' # "SEND" /\ flash' = FlashAfter(flash, frame)
        /\ UNCHANGED <<frame, regs, from, txn, readValid, readAck, sendLeft>>
    BY <1>3 DEF Send
  <2>2. OnWire' = OnWire
    BY <2>1 DEF OnWire
  <2>3. Pending' <=> Pending
    BY <2>1 DEF Pending
  <2> QED
    BY <2>1, <2>2, <2>3 DEF Final, Sent, Command1
<1>4. ASSUME UNCHANGED <<flash, frame, regs, from, txn>>, (spi = "SEND") <=> (spi' = "SEND"),
             Pending' <=> Pending
      PROVE  Final' = Final
  <2>1. OnWire' = OnWire
    BY <1>4 DEF OnWire
  <2> QED
    BY <1>4, <2>1 DEF Final, Sent, Command1
<1>5. CASE StoreLine
  BY <1>4, <1>5 DEF StoreLine, StoreLineThenAt, Pending
<1>6. CASE EndTransaction
  BY <1>4, <1>6 DEF EndTransaction, Pending
<1>7. CASE CpuHandshake
  <2>1. Pending' <=> Pending
    BY <1>7 DEF CpuHandshake, Pending
  <2>2. UNCHANGED <<flash, frame, regs, from, txn, spi>>
    BY <1>7 DEF CpuHandshake
  <2> QED
    BY <1>4, <2>1, <2>2
<1>8. CASE Receive
  <2>1. /\ spi = "RECV_ACTIVE" /\ spi' # "SEND"
        /\ UNCHANGED <<flash, frame, regs, from, txn, readValid, readAck, sendLeft>>
    BY <1>8 DEF Receive
  <2> QED
    BY <1>4, <2>1 DEF Pending
<1>9. CASE OfferLine
  BY <1>4, <1>9 DEF OfferLine, Pending
<1>10. CASE LineTaken
  <2>1. spi # "SEND"
    BY <1>10 DEF LineTaken, Awaiting, Offering
  <2>2. /\ spi' # "SEND"
        /\ UNCHANGED <<flash, frame, regs, from, txn, readValid, readAck, sendLeft>>
    BY <1>10 DEF LineTaken
  <2> QED
    BY <1>4, <2>1, <2>2 DEF Pending
<1>11. CASE DropReadAck
  <2>1. /\ readAck /\ ~readValid /\ readAck' = FALSE
        /\ UNCHANGED <<flash, frame, regs, from, txn, spi, readValid, sendLeft>>
    BY <1>11 DEF DropReadAck
  <2> QED
    BY <1>4, <2>1 DEF Pending
<1> QED
  BY <1>1, <1>2, <1>3, <1>5, <1>6, <1>7, <1>8, <1>9, <1>10, <1>11 DEF Clocks

(* A transaction that the loader's own step asks for comes after the rest.  *)
LEMMA LoaderFinal ==
    ASSUME UNCHANGED masterVars, txn = NoTxn
    PROVE  Final' = IF txn' # NoTxn THEN FlashAfter(Final, Order(txn')) ELSE Final
<1>1. Pending' <=> Pending
  BY DEF masterVars, Pending
<1>2. OnWire' = OnWire /\ Command1' = Command1
  BY DEF masterVars, OnWire, Command1
<1>3. Sent' = Sent
  BY <1>1, <1>2 DEF Sent
<1> QED
  BY <1>3 DEF Final, Order

(* The steps of load_os read, or leave the flash alone.                     *)
LEMMA LoadingStep ==
    ASSUME Placed, Loader, ~StartTransaction, ~NextInScript, ~EndOfScript
    PROVE  /\ step \in Loading /\ step' \in Loading \cup {"deinit"}
           /\ txn' = NoTxn \/ txn'.cmd.op = "read"
<1>1. ASSUME NEW address, NEW size, NEW dest, InitiateRead(address, size, dest)
      PROVE  txn'.cmd.op = "read"
  BY <1>1 DEF InitiateRead, Transaction
<1> USE DEF Placed, Loading, Free, Idle, WaitDone
<1>2. CASE ReadHeader
  BY <1>1, <1>2 DEF ReadHeader
<1>3. CASE CheckHeader
  BY <1>1, <1>3 DEF CheckHeader, Deinit
<1>4. CASE PhdrsRead
  BY <1>4 DEF PhdrsRead
<1>5. CASE SkipSegment
  BY <1>5 DEF SkipSegment
<1>6. CASE LoadSegment
  BY <1>1, <1>6 DEF LoadSegment
<1>7. CASE ReadSections
  BY <1>1, <1>7 DEF ReadSections
<1>8. CASE SectionsRead
  BY <1>8 DEF SectionsRead
<1>9. CASE Section
  BY <1>9 DEF Section
<1>10. CASE OsIsLoaded
  BY <1>10 DEF OsIsLoaded, Deinit
<1> QED
  BY <1>2, <1>3, <1>4, <1>5, <1>6, <1>7, <1>8, <1>9, <1>10 DEF Loader

(* The steps of start_transaction.                                          *)
LEMMA FlashReadyStart ==
    ASSUME Handed, FlashReady, StartTransaction
    PROVE  FlashReady'
<1> USE DEF cpuSide, spiSide
<1>1. step' = step /\ script' = script
  BY DEF StartTransaction
<1>2. Final' = Final
  <2>1. ASSUME ~counted, Begun, WriteCounts(txn.count), counted' = TRUE, UNCHANGED txn
        PROVE  Final' = Final
    <3>1. ~active /\ UNCHANGED <<spi, flash, frame, from, readValid, readAck, sendLeft>>
      BY <2>1 DEF WriteCounts, CtrlAck
    <3>2. ~Pending /\ ~Pending'
      BY <2>1, <3>1 DEF Begun, Handed, Pending
    <3> QED
      BY <2>1, <3>1, <3>2 DEF Final, Sent, OnWire
  <2>2. ASSUME counted, Trigger(txn.cmd, txn.to), txn' = NoTxn
        PROVE  Final' = Final
    <3>1. /\ regs' = regs /\ from' = txn.cmd /\ sendLeft' = LinesOf(regs.send, regs.quad)
          /\ UNCHANGED <<spi, flash, frame, readValid, readAck>>
      BY <2>2 DEF Trigger
    <3>2. ~Pending /\ regs = txn.count /\ Proper(txn) /\ txn # NoTxn
      BY <2>2 DEF Handed
    <3>3. Pending'
      BY <3>1, <3>2 DEF Pending, Proper
    <3>4. OnWire' = OnWire /\ Command1' = Order(txn)
      BY <3>1, <3>2 DEF OnWire, Command1, Order
    <3> QED
      BY <2>2, <3>2, <3>3, <3>4 DEF Final, Sent
  <2> QED
    BY <2>1, <2>2 DEF StartTransaction
<1> QED
  BY <1>1, <1>2 DEF FlashReady

(* The steps of the scripts.                                                *)
LEMMA FlashReadyScript ==
    ASSUME Handed, FlashReady, NextInScript
    PROVE  FlashReady'
<1>1. /\ step' = step /\ step \in {"init", "deinit"} /\ script # <<>> /\ txn = NoTxn
      /\ txn' = Head(script) /\ script' = Tail(script) /\ UNCHANGED masterVars
  BY DEF NextInScript, Free, spiVars, cpuSide, spiSide, masterVars
<1>2. CASE step = "deinit"
  BY <1>1, <1>2 DEF FlashReady, Loading
<1>3. CASE step = "init"
  <2> DEFINE n == 13 - Len(script)
  <2>1. /\ Len(script) \in 1 .. 13 /\ Len(script') = Len(script) - 1
        /\ \A i \in 1 .. Len(script') : script'[i] = script[i + 1]
        /\ Head(script) = script[1] /\ Head(script) \in Scripted
    <3>1. script \in Seq(Scripted) /\ script # <<>> /\ Len(script) <= 13
      BY <1>1, <1>3 DEF Handed, FlashReady
    <3>2. Len(script) \in Nat /\ Len(script) # 0
      BY <3>1, EmptySeq, LenProperties
    <3>3. /\ Head(script) = script[1] /\ Head(script) \in Scripted
          /\ Len(Tail(script)) = Len(script) - 1
          /\ \A i \in 1 .. Len(Tail(script)) : Tail(script)[i] = script[i + 1]
      BY <3>1, HeadTailProperties
    <3>4. Len(script) \in 1 .. 13
      <4>1. ASSUME NEW k \in Nat, k # 0, k <= 13 PROVE k \in 1 .. 13
        BY <4>1
      <4> QED
        BY <3>1, <3>2, <4>1, Zenon
    <3>5. script' = Tail(script)
      BY <1>1
    <3>6. /\ Len(script') = Len(script) - 1
          /\ \A i \in 1 .. Len(script') : script'[i] = script[i + 1]
      BY <3>3, <3>5, Zenon
    <3> QED
      BY <3>3, <3>4, <3>6, Zenon
  <2>2. \A i \in 1 .. Len(script) : script[i] = InitScript[13 - Len(script) + i]
    BY <1>3 DEF FlashReady
  <2>3. txn' = InitScript[n + 1]
    <3>1. 1 \in 1 .. Len(script)
      BY <2>1
    <3>2. script[1] = InitScript[13 - Len(script) + 1]
      BY <2>2, <3>1
    <3> QED
      BY <1>1, <2>1, <3>2
  <2>4. n \in 0 .. 12 /\ 13 - Len(script') = n + 1
    <3>1. ASSUME NEW k \in 1 .. 13, NEW j, j = k - 1
          PROVE  13 - k \in 0 .. 12 /\ 13 - j = 13 - k + 1
      BY <3>1
    <3> QED
      BY <2>1, <3>1, Zenon
  <2>5. \A i \in 1 .. Len(script') : script'[i] = InitScript[13 - Len(script') + i]
    <3> SUFFICES ASSUME NEW i \in 1 .. Len(script')
                 PROVE  script'[i] = InitScript[13 - Len(script') + i]
      OBVIOUS
    <3>1. i + 1 \in 1 .. Len(script) /\ 13 - Len(script) + (i + 1) = 13 - Len(script') + i
      BY <2>1
    <3>2. script[i + 1] = InitScript[13 - Len(script) + (i + 1)]
      BY <2>2, <3>1
    <3> QED
      BY <2>1, <3>1, <3>2
  <2>6. txn' # NoTxn
    BY <1>1, <2>1, ScriptedProper
  <2>7. Final' = FlashAfter(Final, Order(InitScript[n + 1]))
    BY <1>1, <2>3, <2>6, LoaderFinal
  <2>8. Reached(Final, n)
    BY <1>3 DEF FlashReady
  <2> HIDE DEF n
  <2>9. Reached(Final', n + 1)
    BY <2>4, <2>7, <2>8, ReachedStep
  <2>10. Reached(Final, 13 - Len(script))'
    BY <2>4, <2>9 DEF Reached
  <2> QED
    BY <1>1, <1>3, <2>1, <2>5, <2>10 DEF FlashReady, Loading
<1> QED
  BY <1>1, <1>2, <1>3

(* Every step.                                                              *)
LEMMA FlashReadyNext ==
    ASSUME Handed, Awaiting, Placed, FlashReady, [BootNext]_bootVars
    PROVE  FlashReady'
<1>1. CASE Loader
  <2>1. CASE EndOfScript
    <3>1. /\ UNCHANGED masterVars /\ txn = NoTxn /\ txn' = txn /\ script' = script /\ script = <<>>
          /\ step' = IF step = "init" THEN "start" ELSE after
          /\ step \in {"init", "deinit"}
      BY <2>1 DEF EndOfScript, Idle, Free, spiVars, cpuSide, spiSide, masterVars
    <3>2. Final' = Final
      BY <3>1, LoaderFinal
    <3>3. CASE step = "init"
      <4>1. Reached(Final, 13) /\ step' = "start"
        BY <3>1, <3>3, EmptySeq DEF FlashReady
      <4>2. Reached(Final, 13)'
        BY <3>2, <4>1 DEF Reached
      <4> QED
        BY <4>1, <4>2 DEF FlashReady
    <3>4. CASE step = "deinit"
      <4>1. step' \in {"os", "halted"}
        BY <3>1, <3>4 DEF Placed
      <4> QED
        BY <4>1 DEF FlashReady, Loading
    <3> QED
      BY <3>1, <3>3, <3>4
  <2>2. CASE ~StartTransaction /\ ~NextInScript /\ ~EndOfScript
    <3>1. UNCHANGED masterVars /\ txn = NoTxn
      BY <1>1, <2>2, LoaderStep DEF Handed
    <3>2. /\ step \in Loading /\ step' \in Loading \cup {"deinit"}
          /\ txn' = NoTxn \/ txn'.cmd.op = "read"
      BY <1>1, <2>2, LoadingStep
    <3>3. Final' = Final
      BY <3>1, <3>2, LoaderFinal, ReadsChangeNothing
    <3>4. Reached(Final, 13)'
      BY <3>2, <3>3 DEF FlashReady, Reached
    <3>5. step' # "init"
      BY <3>2 DEF Loading
    <3> QED
      BY <3>4, <3>5 DEF FlashReady
  <2> QED
    BY <2>1, <2>2, FlashReadyStart, FlashReadyScript
<1>2. CASE Clocks /\ UNCHANGED loaderVars
  <2>1. Final' = Final /\ step' = step /\ script' = script
    BY <1>2, FinalClocks DEF loaderVars
  <2> QED
    BY <2>1 DEF FlashReady, Reached
<1>3. CASE UNCHANGED bootVars
  <2>1. UNCHANGED <<spi, flash, frame, regs, from, txn, readValid, readAck, sendLeft, step, script>>
    BY <1>3 DEF bootVars, loaderVars, spiVars, cpuSide, spiSide
  <2>2. Pending' <=> Pending
    BY <2>1 DEF Pending
  <2>3. Final' = Final
    BY <2>1, <2>2 DEF Final, Sent, OnWire, Command1
  <2> QED
    BY <2>1, <2>3 DEF FlashReady, Reached
<1> QED
  BY <1>1, <1>2, <1>3 DEF BootNext

(* At first, in whichever mode the flash was left.                          *)
LEMMA FlashReadyInit ==
    ASSUME BootInit
    PROVE  FlashReady
<1>1. /\ spi = "IDLE" /\ sendLeft = 0 /\ readValid = FALSE /\ txn = NoTxn /\ script = InitScript
      /\ step = "init" /\ flash \in {PowerUp, Left}
  BY DEF BootInit, SpiInit, LoaderInit
<1>2. Final = flash
  BY <1>1 DEF Final, Sent, OnWire, Pending
<1>3. PowerUp \in FlashStates /\ Left \in FlashStates
  BY DEF PowerUp, Left, FlashStates
<1>4. Reached(flash, 0)
  <2>1. flash.rescued = 0 /\ ~flash.enabled
    BY <1>1 DEF PowerUp, Left
  <2> QED
    BY <1>1, <1>3, <2>1 DEF Reached
<1>5. Len(script) = 13 /\ 13 - Len(script) = 0
  BY <1>1, InitScriptIs
<1>6. \A i \in 1 .. Len(script) : script[i] = InitScript[13 - Len(script) + i]
  BY <1>1, <1>5
<1> QED
  BY <1>1, <1>2, <1>4, <1>5, <1>6 DEF FlashReady, Loading

-----------------------------------------------------------------------------
(* Bytes of memory.                                                         *)

(* A byte of memory after some bytes of it have been written.               *)
LEMMA ByteOver ==
    ASSUME NEW f, NEW m, NEW a
    PROVE  Byte(Written(f, m), a) = IF a \in DOMAIN f THEN f[a] ELSE Byte(m, a)
  BY DEF Byte, Written

(* Where byte b of an answer is until its last line has been moved: at the  *)
(* end of its line, if it is in one that is not full.                       *)
PlaceOf(op, b) ==
    op.to + b + (IF b >= op.size - (op.size % 16) THEN 16 - (op.size % 16) ELSE 0)

(* postprocess_buffer touches only the place of the last bytes, ...         *)
LEMMA RealignedKeeps ==
    ASSUME NEW m, NEW op \in [to : Nat, size : Nat], NEW a,
           a \notin (op.to + op.size - (op.size % 16)) .. (op.to + op.size - 1)
    PROVE  Byte(Realigned(m, op), a) = Byte(m, a)
<1> DEFINE n == op.size % 16
           base == op.to + op.size - n
<1>1. base + n - 1 = op.to + op.size - 1 /\ LineBytes = 16
  BY BufferAssumption
<1>2. DOMAIN Moved(m, base, n) = base .. (base + n - 1)
  BY DEF Moved
<1>3. Realigned(m, op) = Written(Moved(m, base, n), m)
  BY <1>1 DEF Realigned
<1>4. a \notin DOMAIN Moved(m, base, n)
  BY <1>1, <1>2
<1> HIDE DEF base, n
<1> QED
  BY <1>3, <1>4, ByteOver

(* ... and moves them there when they are no more than half a line.         *)
LEMMA MovedIs ==
    ASSUME NEW m, NEW base \in Nat, NEW n \in 0 .. 8, NEW i \in 0 .. (n - 1)
    PROVE  base + i \in DOMAIN Moved(m, base, n) /\ Moved(m, base, n)[base + i] = Byte(m, base + i + (16 - n))
<1> DEFINE d == 16 - n
           P(c) == c = [k \in 0 .. 16 |-> IF k + d < n THEN c[k + d] ELSE Byte(m, base + k + d)]
           plain == [k \in 0 .. 16 |-> Byte(m, base + k + d)]
           copied == CHOOSE c : P(c)
<1>1. P(plain)
  OBVIOUS
<1>2. P(copied)
  BY <1>1
<1>3. copied[i] = Byte(m, base + i + d)
  <2>1. i \in 0 .. 16 /\ ~(i + d < n)
    OBVIOUS
  <2> HIDE DEF copied
  <2>2. copied[i] = IF i + d < n THEN copied[i + d] ELSE Byte(m, base + i + d)
    BY <1>2, <2>1
  <2> QED
    BY <2>1, <2>2
<1>4. Moved(m, base, n) = [a \in base .. (base + n - 1) |-> copied[a - base]]
  BY BufferAssumption DEF Moved
<1> HIDE DEF copied
<1> QED
  BY <1>3, <1>4

(* The answer of a read, as the SPI side leaves it and as it should be.     *)
Arrived(m, op, source, n) == \A b \in 0 .. (n - 1) : Byte(m, PlaceOf(op, b)) = source + b

(* A read whose last line has been realigned is all in its place.           *)
LEMMA RealignedIs ==
    ASSUME NEW m, NEW op \in [to : Nat, size : Nat], NEW source \in Nat,
           Arrived(m, op, source, op.size), NEW b \in 0 .. (op.size - 1),
           b < op.size - (op.size % 16) \/ 2 * (op.size % 16) <= 16
    PROVE  Byte(Realigned(m, op), op.to + b) = source + b
<1> DEFINE n == op.size % 16
           base == op.to + op.size - n
<1>1. n \in 0 .. 15 /\ n <= op.size /\ base \in Nat
  OBVIOUS
<1>2. Byte(m, PlaceOf(op, b)) = source + b
  BY DEF Arrived
<1>3. CASE b < op.size - n
  <2>1. PlaceOf(op, b) = op.to + b
    BY <1>1, <1>3 DEF PlaceOf
  <2>2. op.to + b \notin (op.to + op.size - n) .. (op.to + op.size - 1)
    BY <1>1, <1>3
  <2> QED
    BY <1>2, <2>1, <2>2, RealignedKeeps
<1>4. CASE b >= op.size - n
  <2> DEFINE i == b - (op.size - n)
  <2>1. n \in 0 .. 8 /\ i \in 0 .. (n - 1) /\ op.to + b = base + i
    BY <1>1, <1>4
  <2>2. PlaceOf(op, b) = base + i + (16 - n)
    BY <1>1, <1>4 DEF PlaceOf
  <2>3. Realigned(m, op) = Written(Moved(m, base, n), m)
    BY BufferAssumption DEF Realigned
  <2> HIDE DEF base, n, i
  <2>4. /\ base + i \in DOMAIN Moved(m, base, n)
        /\ Moved(m, base, n)[base + i] = Byte(m, base + i + (16 - n))
    BY <1>1, <2>1, MovedIs
  <2> QED
    BY <1>2, <2>1, <2>2, <2>3, <2>4, ByteOver
<1> QED
  BY <1>1, <1>3, <1>4

(* A line that is stored: the bytes of the answer at its end, and nothing   *)
(* else changes.                                                            *)
LEMMA StoredIs ==
    ASSUME StoreLine, to \in Nat, to % 16 = 0
    PROVE  /\ \A a : a \notin to .. (to + 15) => Byte(mem', a) = Byte(mem, a)
           /\ \A i \in 0 .. (shift.n - 1) :
                 shift.n \in 1 .. 16 /\ shift.at # Junk
                    => Byte(mem', to + (16 - shift.n) + i) = shift.at + i
<1> DEFINE line == [a \in to .. (to + 15) |->
                      LET i == a - to - (16 - shift.n) IN
                      IF i < 0 \/ shift.at = Junk THEN Junk ELSE shift.at + i]
<1>1. mem' = Written(line, mem)
  <2>1. to - (to % LineBytes) = to /\ LineBytes = 16 /\ to + LineBytes - 1 = to + 15
    BY BufferAssumption
  <2> QED
    BY <2>1 DEF StoreLine, StoreLineThenAt
<1>2. ASSUME NEW a, a \notin to .. (to + 15)
      PROVE  Byte(mem', a) = Byte(mem, a)
  BY <1>1, <1>2, ByteOver
<1>3. ASSUME NEW i \in 0 .. (shift.n - 1), shift.n \in 1 .. 16, shift.at # Junk
      PROVE  Byte(mem', to + (16 - shift.n) + i) = shift.at + i
  <2> DEFINE a == to + (16 - shift.n) + i
  <2>1. a \in to .. (to + 15) /\ a - to - (16 - shift.n) = i
    BY <1>3
  <2>2. line[a] = shift.at + i
    BY <1>3, <2>1
  <2> HIDE DEF line, a
  <2>3. a \in DOMAIN line
    BY <2>1 DEF line
  <2>4. Byte(mem', a) = shift.at + i
    BY <1>1, <2>2, <2>3, ByteOver
  <2> QED
    BY <2>4 DEF a
<1> QED
  BY <1>2, <1>3

-----------------------------------------------------------------------------
(* The read at hand.                                                        *)

ReadOf(source, op) == Transaction("read", source, TRUE, 4, NumDummyCycles, op.to, op.size)

(* The transaction of a read.                                               *)
LEMMA ReadOfIs ==
    ASSUME NEW source, NEW op \in [to : Nat, size : Nat]
    PROVE  /\ ReadOf(source, op) # NoTxn
           /\ ReadOf(source, op).cmd = [op |-> "read", arg |-> source]
           /\ ReadOf(source, op).to = op.to
           /\ ReadOf(source, op).count.quad = TRUE
           /\ ReadOf(source, op).count.dummy = 3
           /\ ReadOf(source, op).count.recv = 2 * op.size
           /\ Bytes(2 * op.size, TRUE) = op.size
<1>1. op.size \in Nat
  OBVIOUS
<1>2. ReadOf(source, op) # NoTxn
  <2>1. Proper(ReadOf(source, op))
    BY <1>1, ReadIs, Zenon DEF ReadOf
  <2> QED
    BY <2>1, NoTxnIsNone, Zenon
<1>3. op.size * 2 = 2 * op.size /\ Bytes(2 * op.size, TRUE) = op.size
  BY <1>1 DEF Bytes
<1> QED
  BY <1>2, <1>3 DEF ReadOf, Transaction, Counts, NumDummyCycles

(* load_os waits, or is about to wait, for an answer.                       *)
Fetching == step \in {"header", "phdrs", "shdrs"} \/ (step = "segments" /\ lastOp.size # 0)

Source == IF txn # NoTxn THEN txn.cmd.arg ELSE from.arg

(* How many of its bytes are in memory.                                     *)
Got ==
    IF Pending \/ spi = "SEND" THEN 0
    ELSE IF spi = "RECV_ACTIVE" THEN lastOp.size - left
    ELSE IF spi \in Offering THEN lastOp.size - left - (IF Stored THEN 0 ELSE shift.n)
    ELSE lastOp.size

(* They are the first ones, the next line goes behind them, and the line at *)
(* hand is the next.                                                        *)
Progress ==
    /\ Got < lastOp.size => to = lastOp.to + Got /\ Got % 16 = 0
    /\ Arrived(mem, lastOp, Source, Got)
    /\ spi = "RECV_ACTIVE" =>
          /\ left <= lastOp.size /\ shift.at \in Nat /\ shift.n \in Nat
          /\ shift.at + shift.n = Source + lastOp.size - left
    /\ ~Pending /\ spi \in Offering =>
          /\ shift.n \in 1 .. 16 /\ left + shift.n <= lastOp.size
          /\ shift.at = Source + lastOp.size - left - shift.n
          /\ (lastOp.size - left - shift.n) % 16 = 0
          /\ left > 0 => shift.n = 16

(* The hart has started it.                                                 *)
Started ==
    /\ lastOp \in [to : Nat, size : Nat] /\ lastOp.to % 16 = 0
    /\ txn = NoTxn /\ Source \in Nat
    /\ from = [op |-> "read", arg |-> Source]
    /\ regs = ReadOf(Source, lastOp).count
    /\ step \in Loading

(* It speaks of these variables alone.                                      *)
LEMMA ProgressStill ==
    ASSUME Progress, Got' = Got, lastOp' = lastOp, Source' = Source,
           UNCHANGED <<to, mem>>,
           spi' = spi \/ spi' \notin {"RECV_ACTIVE"} \cup Offering,
           left' = left, shift' = shift, Pending' <=> Pending
    PROVE  Progress'
<1>1. Arrived(mem, lastOp, Source, Got)'
  BY DEF Progress, Arrived, PlaceOf
<1>2. (Got < lastOp.size => to = lastOp.to + Got /\ Got % 16 = 0)'
  BY DEF Progress
<1>3. CASE spi' = spi
  BY <1>1, <1>2, <1>3 DEF Progress
<1>4. CASE spi' \notin {"RECV_ACTIVE"} \cup Offering
  BY <1>1, <1>2, <1>4 DEF Progress
<1> QED
  BY <1>3, <1>4

(* The answer begins at the address the command names.                      *)
LEMMA ProgressSend ==
    ASSUME Handed, Awaiting, FlashReady, Started, Progress, Send, UNCHANGED loaderVars
    PROVE  Progress'
<1>1. /\ spi = "SEND" /\ spi' = IF frame.count.recv = 0 THEN "IDLE" ELSE "RECV_ACTIVE"
      /\ left' = Bytes(frame.count.recv, frame.count.quad)
      /\ shift' = [at |-> FlashData, n |-> 0]
      /\ UNCHANGED <<to, mem, frame, from, regs, readValid, readAck, sendLeft, txn, lastOp>>
  BY DEF Send, cpuSide, loaderVars
<1>2. (Pending' <=> Pending) /\ Source' = Source
  BY <1>1 DEF Pending, Source
<1>3. Got = 0
  BY <1>1 DEF Got
<1>4. CASE Pending
  <2>1. Got' = 0
    BY <1>2, <1>4 DEF Got
  <2>2. spi' = "IDLE"
    <3>1. Unsaved = 0 /\ WholeBytes(frame.count)
      BY <1>1, <1>4 DEF Awaiting
    <3>2. Chunks(Bytes(frame.count.recv, frame.count.quad)) = 0
      BY <1>1, <3>1 DEF Unsaved
    <3>3. frame.count.recv = 0
      BY <3>1, <3>2, CountIs, ChunksAre
    <3> QED
      BY <1>1, <3>3
  <2>3. Arrived(mem, lastOp, Source, Got)'
    BY <2>1 DEF Arrived
  <2>4. (Got < lastOp.size => to = lastOp.to + Got /\ Got % 16 = 0)'
    BY <1>1, <1>3, <2>1 DEF Progress
  <2> QED
    BY <1>2, <1>4, <2>2, <2>3, <2>4 DEF Progress, Offering
<1>5. CASE ~Pending
  <2> DEFINE t == ReadOf(Source, lastOp)
  <2>1. frame = [count |-> t.count, cmd |-> [op |-> "read", arg |-> Source]]
    <3>1. ~counted
      BY DEF Handed, Started
    <3> QED
      BY <1>5, <3>1 DEF Handed, Started, Command1
  <2>2. /\ frame.count.quad = TRUE /\ frame.count.dummy = 3 /\ frame.count.recv = 2 * lastOp.size
        /\ frame.cmd = [op |-> "read", arg |-> Source]
        /\ Bytes(2 * lastOp.size, TRUE) = lastOp.size
    BY <2>1, ReadOfIs DEF Started
  <2> HIDE DEF t
  <2>3. FlashData = Source
    <3>1. Final = FlashAfter(flash, frame)
      BY <1>1, <1>5 DEF Final, Sent, OnWire, Started
    <3>2. FlashAfter(flash, frame) = flash
      BY <2>2 DEF FlashAfter
    <3>3. Reached(flash, 13)
      BY <3>1, <3>2 DEF FlashReady, Started
    <3>4. flash.quad = TRUE /\ flash.dummy = 3
      BY <3>3 DEF Reached, FlashStates
    <3>5. frame.cmd.op = "read" /\ frame.cmd.arg = Source
      BY <2>2
    <3> QED
      BY <2>2, <3>4, <3>5, Zenon DEF FlashData, Understood
  <2>4. left' = lastOp.size /\ shift' = [at |-> Source, n |-> 0] /\ lastOp.size \in Nat /\ Source \in Nat
    BY <1>1, <2>2, <2>3 DEF Started
  <2>5. Got' = 0 /\ spi' \in {"IDLE", "RECV_ACTIVE"}
    <3>1. CASE lastOp.size = 0
      <4>1. frame.count.recv = 0
        BY <2>2, <3>1
      <4>2. spi' = "IDLE"
        BY <1>1, <4>1
      <4> QED
        BY <1>1, <1>2, <1>5, <3>1, <4>2 DEF Got, Offering
    <3>2. CASE lastOp.size # 0
      <4>1. frame.count.recv # 0
        BY <2>2, <2>4, <3>2
      <4>2. spi' = "RECV_ACTIVE"
        BY <1>1, <4>1
      <4> QED
        BY <1>1, <1>2, <1>5, <2>4, <4>2 DEF Got, Offering
    <3> QED
      BY <3>1, <3>2
  <2>6. Arrived(mem, lastOp, Source, Got)'
    BY <2>5 DEF Arrived
  <2>7. (Got < lastOp.size => to = lastOp.to + Got /\ Got % 16 = 0)'
    BY <1>1, <1>3, <2>5 DEF Progress
  <2>8. left' <= lastOp'.size /\ shift'.at \in Nat /\ shift'.n \in Nat
        /\ shift'.at + shift'.n = Source' + lastOp'.size - left'
    BY <1>1, <1>2, <2>4
  <2>9. spi' \notin Offering
    BY <2>5 DEF Offering
  <2> QED
    BY <2>6, <2>7, <2>8, <2>9 DEF Progress
<1> QED
  BY <1>4, <1>5

(* The next line of it.                                                     *)
LEMMA ProgressReceive ==
    ASSUME Awaiting, Started, Progress, Receive, UNCHANGED loaderVars
    PROVE  Progress'
<1> DEFINE n == IF left < 16 THEN left ELSE 16
<1>1. /\ spi = "RECV_ACTIVE" /\ left' = left - n
      /\ shift' = [at |-> IF shift.at = Junk THEN Junk ELSE shift.at + shift.n, n |-> n]
      /\ spi' = IF left = n THEN "IDLE_PENDING" ELSE "RECV_PENDING"
      /\ UNCHANGED <<to, mem, writeValid, writeAck, from, readValid, readAck, sendLeft, txn, lastOp>>
  BY BufferAssumption DEF Receive, cpuSide, loaderVars
<1>2. left \in Nat /\ left > 0 /\ ~writeValid
  BY <1>1 DEF Awaiting, Offering
<1>3. ~Pending
  <2>1. Unsaved # 0
    BY <1>1, <1>2, ChunksAre DEF Unsaved
  <2> QED
    BY <2>1 DEF Awaiting
<1>4. ~Pending' /\ ~Stored' /\ Source' = Source /\ spi' \in Offering
  BY <1>1, <1>2, <1>3 DEF Pending, Stored, Source, Offering
<1>5. /\ left <= lastOp.size /\ shift.at \in Nat /\ shift.n \in Nat
      /\ shift.at + shift.n = Source + lastOp.size - left
      /\ Source \in Nat /\ lastOp.size \in Nat
  BY <1>1 DEF Progress, Started
<1>6. n \in 1 .. 16 /\ n <= left /\ (left - n > 0 => n = 16)
  BY <1>2
<1> HIDE DEF n
<1>7. shift'.at = Source + lastOp.size - left /\ shift'.n = n /\ left' \in Nat
  BY <1>1, <1>2, <1>5, <1>6 DEF Junk
<1>8. Got = lastOp.size - left /\ Got < lastOp.size
  BY <1>1, <1>2, <1>3, <1>5 DEF Got
<1>9. Got' = Got
  <2>1. Got' = lastOp.size - left' - shift'.n
    BY <1>1, <1>4 DEF Got, Offering
  <2> QED
    BY <1>1, <1>2, <1>5, <1>6, <1>7, <1>8, <2>1
<1>10. Got % 16 = 0
  BY <1>8 DEF Progress
<1>11. Arrived(mem, lastOp, Source, Got)'
  BY <1>1, <1>4, <1>9 DEF Progress, Arrived, PlaceOf
<1>12. (Got < lastOp.size => to = lastOp.to + Got /\ Got % 16 = 0)'
  BY <1>1, <1>9 DEF Progress
<1>13. /\ shift'.n \in 1 .. 16 /\ left' + shift'.n <= lastOp.size
       /\ shift'.at = Source + lastOp.size - left' - shift'.n
       /\ lastOp.size - left' - shift'.n = Got
       /\ left' > 0 => shift'.n = 16
  BY <1>1, <1>2, <1>5, <1>6, <1>7, <1>8
<1>14. spi' # "RECV_ACTIVE"
  BY <1>4 DEF Offering
<1>15. (lastOp.size - left' - shift'.n) % 16 = 0
  BY <1>10, <1>13
<1> QED
  BY <1>1, <1>4, <1>11, <1>12, <1>13, <1>14, <1>15 DEF Progress

(* What a line that is being stored is, and where it goes.                  *)
LEMMA LineAtHand ==
    ASSUME Awaiting, Started, Progress, StoreLine
    PROVE  /\ spi \in Offering /\ ~Pending
           /\ shift.n \in 1 .. 16 /\ Got \in Nat /\ Got + shift.n <= lastOp.size
           /\ lastOp.to \in Nat /\ lastOp.to % 16 = 0 /\ lastOp.size \in Nat
           /\ Got + shift.n = lastOp.size - left /\ left \in Nat
           /\ shift.at = Source + Got /\ Source \in Nat
           /\ left > 0 => shift.n = 16
           /\ to = lastOp.to + Got /\ Got % 16 = 0
<1>1. writeValid /\ ~writeAck
  BY DEF StoreLine, StoreLineThenAt
<1>2. spi \in Offering /\ ~Stored /\ left \in Nat
  BY <1>1 DEF Awaiting, Stored
<1>3. ~Pending
  <2>1. Unsaved # 0
    BY <1>2, ChunksAre DEF Unsaved, Offering
  <2> QED
    BY <2>1 DEF Awaiting
<1>4. /\ shift.n \in 1 .. 16 /\ left + shift.n <= lastOp.size
      /\ shift.at = Source + lastOp.size - left - shift.n
      /\ left > 0 => shift.n = 16
  BY <1>2, <1>3 DEF Progress
<1>5. Got = lastOp.size - left - shift.n
  BY <1>2, <1>3 DEF Got, Offering
<1>6. lastOp.size \in Nat /\ lastOp.to \in Nat /\ lastOp.to % 16 = 0 /\ Source \in Nat
  BY DEF Started
<1>7. Got \in Nat /\ Got < lastOp.size
  BY <1>2, <1>4, <1>5, <1>6
<1> HIDE DEF Got
<1>8. to = lastOp.to + Got /\ Got % 16 = 0
  BY <1>7 DEF Progress
<1>9. /\ Got + shift.n = lastOp.size - left /\ Got + shift.n <= lastOp.size
      /\ shift.at = Source + Got
  BY <1>2, <1>4, <1>5, <1>6
<1> QED
  BY <1>2, <1>3, <1>4, <1>6, <1>7, <1>8, <1>9

(* The line at hand is stored after those before it.                        *)
LEMMA ProgressStore ==
    ASSUME Awaiting, Started, Progress, StoreLine, UNCHANGED loaderVars
    PROVE  Progress'
<1> DEFINE n == shift.n
           g == Got
<1>1. /\ spi \in Offering /\ ~Pending
      /\ n \in 1 .. 16 /\ g \in Nat /\ g + n <= lastOp.size
      /\ lastOp.to \in Nat /\ lastOp.to % 16 = 0 /\ lastOp.size \in Nat
      /\ g + n = lastOp.size - left /\ left \in Nat
      /\ shift.at = Source + g /\ Source \in Nat
      /\ left > 0 => n = 16
      /\ to = lastOp.to + g /\ g % 16 = 0
  BY LineAtHand
<1>2. /\ writeValid /\ writeAck' = TRUE /\ to' = to + 16
      /\ UNCHANGED <<spi, left, shift, writeValid, from, readValid, readAck, sendLeft, txn, lastOp>>
  BY BufferAssumption DEF StoreLine, StoreLineThenAt, spiSide, loaderVars
<1>3. ~Pending' /\ Stored' /\ Source' = Source
  BY <1>1, <1>2 DEF Pending, Stored, Source
<1>4. Got' = lastOp.size - left
  BY <1>1, <1>2, <1>3 DEF Got, Offering
<1>5. Got' = g + n
  BY <1>1, <1>4
<1>6. to \in Nat /\ to % 16 = 0
  BY <1>1
<1>7. /\ \A a : a \notin to .. (to + 15) => Byte(mem', a) = Byte(mem, a)
      /\ \A i \in 0 .. (n - 1) : Byte(mem', to + (16 - n) + i) = shift.at + i
  <2>1. shift.at # Junk
    BY <1>1 DEF Junk
  <2> QED
    BY <1>1, <1>6, <2>1, StoredIs
<1>8. \A b \in 0 .. (g - 1) : Byte(mem, PlaceOf(lastOp, b)) = Source + b
  BY DEF Progress, Arrived
<1> HIDE DEF g, n
<1>9. ASSUME NEW b \in 0 .. (g + n - 1)
      PROVE  Byte(mem', PlaceOf(lastOp, b)) = Source + b
  <2>1. CASE b < g
    <3>1. PlaceOf(lastOp, b) = lastOp.to + b
      BY <1>1, <2>1 DEF PlaceOf
    <3>2. PlaceOf(lastOp, b) \notin to .. (to + 15)
      BY <1>1, <2>1, <3>1
    <3> QED
      BY <1>1, <1>7, <1>8, <2>1, <3>2
  <2>2. CASE b >= g
    <3>1. PlaceOf(lastOp, b) = to + (16 - n) + (b - g)
      <4>1. CASE n = 16
        <5>1. b < lastOp.size - (lastOp.size % 16)
          BY <1>1, <4>1
        <5>2. PlaceOf(lastOp, b) = lastOp.to + b
          BY <1>1, <5>1 DEF PlaceOf
        <5>3. to = lastOp.to + g /\ lastOp.to \in Nat /\ g \in Nat
          BY <1>1
        <5> QED
          BY <4>1, <5>2, <5>3
      <4>2. CASE n # 16
        <5>1. lastOp.size = g + n /\ lastOp.size % 16 = n
          BY <1>1, <4>2
        <5>2. b >= lastOp.size - (lastOp.size % 16)
          BY <1>1, <2>2, <5>1
        <5>3. PlaceOf(lastOp, b) = lastOp.to + b + (16 - n)
          BY <5>1, <5>2 DEF PlaceOf
        <5> QED
          BY <1>1, <5>3
      <4> QED
        BY <4>1, <4>2
    <3>2. b - g \in 0 .. (n - 1)
      BY <1>1, <2>2
    <3>3. Byte(mem', to + (16 - n) + (b - g)) = shift.at + (b - g)
      BY <1>7, <3>2
    <3> QED
      BY <1>1, <3>1, <3>3
  <2> QED
    BY <1>1, <2>1, <2>2
<1>10. Arrived(mem, lastOp, Source, Got)'
  <2>1. \A b \in 0 .. (Got' - 1) : Byte(mem', PlaceOf(lastOp, b)) = Source + b
    <3> SUFFICES ASSUME NEW b \in 0 .. (Got' - 1)
                 PROVE  Byte(mem', PlaceOf(lastOp, b)) = Source + b
      OBVIOUS
    <3>1. b \in 0 .. (g + n - 1)
      BY <1>1, <1>5
    <3> QED
      BY <1>9, <3>1, Zenon
  <2> QED
    BY <1>2, <1>3, <2>1 DEF Arrived, PlaceOf
<1>11. (Got < lastOp.size => to = lastOp.to + Got /\ Got % 16 = 0)'
  BY <1>1, <1>2, <1>5
<1>12. spi' # "RECV_ACTIVE"
  BY <1>1, <1>2 DEF Offering
<1>13. /\ shift'.n \in 1 .. 16 /\ left' + shift'.n <= lastOp'.size
       /\ shift'.at = Source' + lastOp'.size - left' - shift'.n
       /\ (lastOp'.size - left' - shift'.n) % 16 = 0
       /\ left' > 0 => shift'.n = 16
  BY <1>1, <1>2, <1>3 DEF Progress
<1> QED
  BY <1>10, <1>11, <1>12, <1>13 DEF Progress

(* A line that has been stored is not offered again.                        *)
LEMMA ProgressTaken ==
    ASSUME Awaiting, Started, Progress, LineTaken, UNCHANGED loaderVars
    PROVE  Progress'
<1>1. /\ writeValid /\ writeAck /\ writeValid' = FALSE
      /\ spi' = IF spi = "RECV_PENDING" THEN "RECV_ACTIVE" ELSE "IDLE"
      /\ UNCHANGED <<to, mem, left, shift, from, readValid, readAck, sendLeft, txn, lastOp>>
  BY DEF LineTaken, cpuSide, loaderVars
<1>2. spi \in Offering /\ Stored /\ left \in Nat /\ (spi = "IDLE_PENDING" => left = 0)
      /\ (spi = "RECV_PENDING" => left > 0)
  BY <1>1 DEF Awaiting, Stored
<1>3. (Pending' <=> Pending) /\ Source' = Source /\ lastOp.size \in Nat /\ Source \in Nat
  BY <1>1 DEF Pending, Source, Started
<1>4. CASE Pending
  <2>1. spi = "IDLE_PENDING"
    <3>1. spi = "RECV_PENDING" => Unsaved # 0
      BY <1>2, ChunksAre DEF Unsaved, Offering
    <3> QED
      BY <1>2, <1>4, <3>1 DEF Awaiting, Offering
  <2>2. Got = 0 /\ Got' = 0 /\ spi' = "IDLE"
    BY <1>1, <1>3, <1>4, <2>1 DEF Got
  <2> QED
    BY <1>1, <1>3, <2>2, ProgressStill, Zenon DEF Offering
<1>5. CASE ~Pending
  <2>1. Got = lastOp.size - left
    BY <1>2, <1>3, <1>5 DEF Got, Offering
  <2>2. Got' = Got
    BY <1>1, <1>2, <1>3, <1>5, <2>1 DEF Got, Offering
  <2>3. CASE spi = "IDLE_PENDING"
    <3>1. spi' \notin {"RECV_ACTIVE"} \cup Offering
      BY <1>1, <2>3 DEF Offering
    <3> QED
      BY <1>1, <1>3, <2>2, <3>1, ProgressStill, Zenon
  <2>4. CASE spi = "RECV_PENDING"
    <3>1. spi' = "RECV_ACTIVE" /\ spi' \notin Offering
      BY <1>1, <2>4 DEF Offering
    <3>2. /\ shift.n \in 1 .. 16 /\ left + shift.n <= lastOp.size
          /\ shift.at = Source + lastOp.size - left - shift.n
      BY <1>2, <1>5 DEF Progress
    <3>3. /\ left <= lastOp.size /\ shift.at \in Nat /\ shift.n \in Nat
          /\ shift.at + shift.n = Source + lastOp.size - left
      BY <1>2, <1>3, <3>2
    <3>4. Arrived(mem, lastOp, Source, Got)'
      BY <1>1, <1>3, <2>2 DEF Progress, Arrived, PlaceOf
    <3>5. (Got < lastOp.size => to = lastOp.to + Got /\ Got % 16 = 0)'
      BY <1>1, <2>2 DEF Progress
    <3> QED
      BY <1>1, <1>3, <3>1, <3>3, <3>4, <3>5 DEF Progress
  <2> QED
    BY <1>2, <2>3, <2>4 DEF Offering
<1> QED
  BY <1>4, <1>5

(* The steps of the clocks.                                                 *)
LEMMA ProgressClocks ==
    ASSUME Handed, Awaiting, FlashReady, Started, Progress, Clocks, UNCHANGED loaderVars
    PROVE  Progress'
<1> USE DEF loaderVars, cpuSide, spiSide
<1>1. CASE FetchLine
  <2>1. sendLeft = 1 /\ readValid' = TRUE /\ readAck' = readAck /\ ~readAck
    BY <1>1 DEF FetchLine, Handed
  <2>2. Pending /\ Pending' /\ Got = 0 /\ Got' = 0
    BY <2>1 DEF Pending, Got
  <2>3. UNCHANGED <<to, mem, spi, left, shift, lastOp, txn, from>>
    BY <1>1 DEF FetchLine
  <2>4. Source' = Source
    BY <2>3 DEF Source
  <2> QED
    BY <2>2, <2>3, <2>4, ProgressStill, Zenon
<1>2. CASE EndTransaction
  <2>1. /\ UNCHANGED <<to, mem, spi, left, shift, lastOp, txn, from, readValid, readAck, sendLeft,
                       writeValid, writeAck>>
    BY <1>2 DEF EndTransaction
  <2>2. (Pending' <=> Pending) /\ (Stored' <=> Stored) /\ Source' = Source
    BY <2>1 DEF Pending, Stored, Source
  <2>3. Got' = Got
    BY <2>1, <2>2 DEF Got
  <2> QED
    BY <2>1, <2>2, <2>3, ProgressStill, Zenon
<1>3. CASE CpuHandshake
  <2>1. UNCHANGED <<to, mem, spi, left, shift, lastOp, txn, from, readAck, sendLeft, writeValid>>
    BY <1>3 DEF CpuHandshake
  <2>2. \/ readValid /\ readAck /\ readValid' = FALSE /\ writeAck' = writeAck
        \/ writeAck /\ ~writeValid /\ writeAck' = FALSE /\ readValid' = readValid
    BY <1>3 DEF CpuHandshake
  <2>3. (Pending' <=> Pending) /\ (Stored' <=> Stored)
    <3>1. CASE readValid /\ readAck /\ readValid' = FALSE /\ writeAck' = writeAck
      BY <2>1, <3>1 DEF Pending, Stored
    <3>2. CASE writeAck /\ ~writeValid /\ writeAck' = FALSE /\ readValid' = readValid
      BY <2>1, <3>2 DEF Pending, Stored
    <3> QED
      BY <2>2, <3>1, <3>2
  <2>4. Source' = Source
    BY <2>1 DEF Source
  <2>5. Got' = Got
    BY <2>1, <2>3 DEF Got
  <2> QED
    BY <2>1, <2>3, <2>4, <2>5, ProgressStill, Zenon
<1>4. CASE Begin
  <2>1. /\ spi = "IDLE" /\ readValid /\ ~readAck /\ spi' = "SEND" /\ readAck' = TRUE
        /\ UNCHANGED <<to, mem, left, shift, lastOp, txn, from, readValid, sendLeft>>
    BY <1>4 DEF Begin, BeginFrame
  <2>2. Got = 0 /\ Got' = 0 /\ Source' = Source
    BY <2>1 DEF Got, Pending, Source
  <2>3. Arrived(mem, lastOp, Source, Got)'
    BY <2>2 DEF Arrived
  <2>4. (Got < lastOp.size => to = lastOp.to + Got /\ Got % 16 = 0)'
    BY <2>1, <2>2 DEF Progress
  <2> QED
    BY <2>1, <2>3, <2>4 DEF Progress, Offering
<1>5. CASE OfferLine
  <2>1. /\ ~writeAck
        /\ UNCHANGED <<to, mem, spi, left, shift, lastOp, txn, from, readValid, readAck, sendLeft, writeAck>>
    BY <1>5 DEF OfferLine
  <2>2. (Pending' <=> Pending) /\ ~Stored /\ ~Stored' /\ Source' = Source
    BY <2>1 DEF Pending, Stored, Source
  <2>3. Got' = Got
    BY <2>1, <2>2 DEF Got
  <2> QED
    BY <2>1, <2>2, <2>3, ProgressStill, Zenon
<1>6. CASE DropReadAck
  <2>1. /\ readAck /\ ~readValid /\ readAck' = FALSE
        /\ UNCHANGED <<to, mem, spi, left, shift, lastOp, txn, from, readValid, sendLeft, writeValid, writeAck>>
    BY <1>6 DEF DropReadAck
  <2>2. (Pending' <=> Pending) /\ (Stored' <=> Stored) /\ Source' = Source
    BY <2>1 DEF Pending, Stored, Source
  <2>3. Got' = Got
    BY <2>1, <2>2 DEF Got
  <2> QED
    BY <2>1, <2>2, <2>3, ProgressStill, Zenon
<1> QED
  BY <1>1, <1>2, <1>3, <1>4, <1>5, <1>6,
     ProgressSend, ProgressReceive, ProgressStore, ProgressTaken DEF Clocks

-----------------------------------------------------------------------------
(* What load_os waits for, from one step of it to the next.                 *)

Fetch ==
    /\ lastOp \in [to : Nat, size : Nat]
    /\ Fetching =>
          /\ lastOp.to % 16 = 0 /\ Source \in Nat
          /\ txn # NoTxn => ~active /\ txn = ReadOf(Source, lastOp)
          /\ txn = NoTxn => Started /\ Progress
    /\ ~Fetching /\ step # "init" => recvLeft = 0 /\ (txn # NoTxn => txn.count.recv = 0)
    /\ step = "deinit" => \A i \in 1 .. Len(script) : script[i].count.recv = 0

(* Without a read at hand nothing is stored.                                *)
LEMMA NothingStored ==
    ASSUME Handed, Awaiting, recvLeft = 0
    PROVE  ~StoreLine
  BY NothingComes DEF StoreLine, StoreLineThenAt

(* What no clock changes, and what only a store does.                       *)
LEMMA ClocksKeep ==
    ASSUME Clocks
    PROVE  /\ UNCHANGED <<regs, from>> /\ (active' => active)
           /\ ~StoreLine => UNCHANGED <<mem, to, recvLeft>>
<1> USE DEF cpuSide, spiSide
<1>1. CASE FetchLine
  BY <1>1 DEF FetchLine
<1>2. CASE StoreLine
  BY <1>2 DEF StoreLine, StoreLineThenAt
<1>3. CASE EndTransaction
  BY <1>3 DEF EndTransaction
<1>4. CASE CpuHandshake
  BY <1>4 DEF CpuHandshake
<1>5. CASE Begin
  BY <1>5 DEF Begin, BeginFrame
<1>6. CASE Send
  BY <1>6 DEF Send
<1>7. CASE Receive
  BY <1>7 DEF Receive
<1>8. CASE OfferLine
  BY <1>8 DEF OfferLine
<1>9. CASE LineTaken
  BY <1>9 DEF LineTaken
<1>10. CASE DropReadAck
  BY <1>10 DEF DropReadAck
<1> QED
  BY <1>1, <1>2, <1>3, <1>4, <1>5, <1>6, <1>7, <1>8, <1>9, <1>10 DEF Clocks

(* The steps of the clocks.                                                 *)
LEMMA FetchClocks ==
    ASSUME Handed, Awaiting, FlashReady, Fetch, Clocks, UNCHANGED loaderVars
    PROVE  Fetch'
<1>1. UNCHANGED <<step, lastOp, txn, script>>
  BY DEF loaderVars
<1>2. /\ UNCHANGED <<regs, from>> /\ (active' => active)
      /\ ~StoreLine => UNCHANGED <<mem, to, recvLeft>>
  BY ClocksKeep
<1>3. (Fetching' <=> Fetching) /\ Source' = Source
  BY <1>1, <1>2 DEF Fetching, Source
<1>4. CASE ~Fetching
  <2>1. step # "init" => recvLeft' = recvLeft
    BY <1>2, <1>4, NothingStored DEF Fetch
  <2> QED
    BY <1>1, <1>3, <1>4, <2>1 DEF Fetch
<1>5. CASE Fetching /\ txn # NoTxn
  BY <1>1, <1>2, <1>3, <1>5 DEF Fetch, ReadOf
<1>6. CASE Fetching /\ txn = NoTxn
  <2>1. Started /\ Progress
    BY <1>6 DEF Fetch
  <2>2. Progress'
    BY <2>1, ProgressClocks
  <2>3. Started'
    BY <1>1, <1>2, <1>3, <2>1 DEF Started, ReadOf
  <2> QED
    BY <1>1, <1>3, <1>6, <2>2, <2>3 DEF Fetch
<1> QED
  BY <1>4, <1>5, <1>6

(* The steps of start_transaction: the read goes to the flash as it was     *)
(* asked for.                                                               *)
LEMMA FetchStart ==
    ASSUME Handed, Awaiting, Fetch, StartTransaction
    PROVE  Fetch'
<1>1. UNCHANGED <<step, lastOp, script>> /\ txn # NoTxn
  BY DEF StartTransaction
<1>2. Fetching' <=> Fetching
  BY <1>1 DEF Fetching
<1>3. ASSUME ~counted, WriteCounts(txn.count), UNCHANGED txn
      PROVE  Fetch'
  <2>1. UNCHANGED <<from, active, recvLeft>>
    BY <1>3 DEF WriteCounts
  <2>2. Source' = Source
    BY <1>3, <2>1 DEF Source
  <2> QED
    BY <1>1, <1>2, <1>3, <2>1, <2>2 DEF Fetch, ReadOf
<1>4. ASSUME counted, Trigger(txn.cmd, txn.to), txn' = NoTxn
      PROVE  Fetch'
  <2>1. /\ regs' = regs /\ from' = txn.cmd /\ to' = txn.to
        /\ sendLeft' = LinesOf(regs.send, regs.quad) /\ recvLeft' = LinesOf(regs.recv, regs.quad)
        /\ UNCHANGED <<readValid, readAck>>
    BY <1>4 DEF Trigger, spiSide
  <2>2. ~Pending /\ regs = txn.count /\ Proper(txn)
    BY <1>4 DEF Handed
  <2>3. Pending'
    BY <2>1, <2>2 DEF Pending, Proper
  <2>4. Source' = Source
    BY <1>1, <1>4, <2>1 DEF Source
  <2>5. CASE Fetching
    <3>1. /\ lastOp \in [to : Nat, size : Nat] /\ lastOp.to % 16 = 0 /\ Source \in Nat
          /\ txn = ReadOf(Source, lastOp)
      BY <1>1, <2>5 DEF Fetch
    <3>2. txn.cmd = [op |-> "read", arg |-> Source] /\ txn.to = lastOp.to
      BY <3>1, ReadOfIs
    <3>3. step' \in Loading
      BY <1>1, <2>5 DEF Fetching, Loading
    <3>4. Started'
      BY <1>1, <1>4, <2>1, <2>2, <2>4, <3>1, <3>2, <3>3 DEF Started, ReadOf
    <3>5. Progress'
      <4>1. Got' = 0
        BY <2>3 DEF Got
      <4>2. Arrived(mem, lastOp, Source, Got)'
        BY <4>1 DEF Arrived
      <4>3. (Got < lastOp.size => to = lastOp.to + Got /\ Got % 16 = 0)'
        BY <1>1, <2>1, <3>1, <3>2, <4>1
      <4>4. spi' # "RECV_ACTIVE"
        <5>1. Awaiting'
          BY AwaitingStart
        <5>2. spi' = "RECV_ACTIVE" => Unsaved' # 0
          BY <5>1, ChunksAre DEF Awaiting, Unsaved
        <5> QED
          BY <2>3, <5>1, <5>2 DEF Awaiting
      <4> QED
        BY <2>3, <4>2, <4>3, <4>4 DEF Progress
    <3> QED
      BY <1>1, <1>2, <1>4, <2>4, <2>5, <3>1, <3>4, <3>5 DEF Fetch
  <2>6. CASE ~Fetching
    <3>1. step # "init" => regs.recv = 0
      BY <1>1, <2>2, <2>6 DEF Fetch
    <3>2. step # "init" => recvLeft' = 0
      <4>1. WholeBytes(regs)
        BY <2>2 DEF Proper, WholeBytes
      <4>2. regs.recv = 0 => LinesOf(regs.recv, regs.quad) = 0
        BY <4>1, CountIs, ChunksAre
      <4> QED
        BY <2>1, <3>1, <4>2
    <3> QED
      BY <1>1, <1>2, <1>4, <2>6, <3>2 DEF Fetch
  <2> QED
    BY <2>5, <2>6
<1> QED
  BY <1>3, <1>4 DEF StartTransaction

(* A read of load_os, once it has been asked for.                           *)
LEMMA FetchAsked ==
    ASSUME Fetch, active' = FALSE, NEW source \in Nat, NEW op \in [to : Nat, size : Nat],
           op.to % 16 = 0, lastOp' = op, txn' = ReadOf(source, op), Fetching',
           step' # "deinit"
    PROVE  Fetch' /\ Source' = source
<1>1. txn' # NoTxn /\ txn'.cmd = [op |-> "read", arg |-> source]
  BY ReadOfIs
<1>2. Source' = source
  BY <1>1 DEF Source
<1>3. txn' = ReadOf(Source', lastOp')
  BY <1>2
<1>4. txn' = ReadOf(Source, lastOp)'
  BY <1>3 DEF ReadOf
<1> QED
  BY <1>1, <1>2, <1>4 DEF Fetch

(* The hart waits for nothing.                                              *)
LEMMA FetchOver ==
    ASSUME Handed, Awaiting, CtrlAck, recvLeft' = recvLeft, lastOp' = NoOp, txn' = NoTxn,
           step' \in {"start", "segments", "sections", "os", "halted"}
              \/ (step' = "deinit" /\ script' = DeinitScript)
    PROVE  Fetch'
<1>1. recvLeft' = 0
  BY DEF CtrlAck, Awaiting
<1>2. lastOp' \in [to : Nat, size : Nat] /\ lastOp'.size = 0
  BY DEF NoOp
<1>3. ~Fetching'
  BY <1>2 DEF Fetching
<1>4. (step = "deinit" => \A i \in 1 .. Len(script) : script[i].count.recv = 0)'
  BY DeinitScriptIs
<1> QED
  BY <1>1, <1>2, <1>3, <1>4 DEF Fetch

(* The steps of load_os.                                                    *)
LEMMA FetchLoading ==
    ASSUME Handed, Awaiting, Placed, Placeable(Image), Fetch, Loader,
           ~StartTransaction, ~NextInScript, ~EndOfScript
    PROVE  Fetch'
<1>1. UNCHANGED masterVars /\ txn = NoTxn
  BY LoaderStep DEF Handed
<1>2. active' = active /\ recvLeft' = recvLeft
  BY <1>1 DEF masterVars
<1>3. /\ HeaderBuffer \in Nat /\ PhdrBuffer \in Nat /\ SectBuffer \in Nat
      /\ HeaderBuffer % 16 = 0 /\ PhdrBuffer % 16 = 0 /\ SectBuffer % 16 = 0
      /\ OsFlashAddress \in Nat /\ PhOffset \in Nat /\ ShOffset \in Nat
  <2>1. /\ HeaderBuffer \in Nat /\ PhdrBuffer \in Nat /\ SectBuffer \in Nat /\ BufferSize \in Nat
        /\ OsFlashAddress \in Nat /\ PhOffset \in Nat /\ ShOffset \in Nat
    BY BootAssumption
  <2>2. HeaderBuffer % 16 = 0 /\ PhdrBuffer % 16 = 0 /\ BufferSize % 16 = 0
    BY BufferAssumption
  <2>3. SectBuffer % 16 = 0
    BY <2>1, <2>2, BufferAssumption
  <2> QED
    BY <2>1, <2>2, <2>3
<1>4. ASSUME NEW source \in Nat, NEW size \in Nat, NEW dest \in Nat, dest % 16 = 0, CtrlAck,
             InitiateRead(source, size, dest),
             step' \in {"header", "phdrs", "shdrs"} \/ (step' = "segments" /\ size # 0)
      PROVE  Fetch'
  <2> DEFINE op == [to |-> dest, size |-> size]
  <2>1. /\ lastOp' = op /\ op \in [to : Nat, size : Nat] /\ op.to % 16 = 0 /\ op.size = size
        /\ op.to = dest
    BY <1>4 DEF InitiateRead
  <2> HIDE DEF op
  <2>2. txn' = ReadOf(source, op)
    BY <1>4, <2>1 DEF InitiateRead, ReadOf
  <2>3. Fetching' /\ step' # "deinit"
    BY <1>4, <2>1 DEF Fetching
  <2>4. active' = FALSE
    BY <1>2, <1>4 DEF CtrlAck, Handed
  <2> QED
    BY <2>1, <2>2, <2>3, <2>4, FetchAsked
<1> USE DEF Free, Idle, WaitDone
<1>5. CASE ReadHeader
  <2>1. Ehdr \in Nat
    BY DEF Ehdr
  <2> QED
    BY <1>3, <1>4, <1>5, <2>1 DEF ReadHeader
<1>6. CASE CheckHeader
  <2>1. CASE Refused
    BY <1>2, <1>6, <2>1, FetchOver DEF CheckHeader, Deinit
  <2>2. CASE ~Refused
    <3>1. Ehdr * Len(Image.phdrs) \in Nat /\ OsFlashAddress + PhOffset \in Nat
      BY <1>3, ImageIs DEF Ehdr
    <3> QED
      BY <1>3, <1>4, <1>6, <2>2, <3>1 DEF CheckHeader
  <2> QED
    BY <2>1, <2>2
<1>7. CASE PhdrsRead
  BY <1>2, <1>7, FetchOver DEF PhdrsRead
<1>8. CASE SkipSegment
  <2>1. UNCHANGED <<step, script, txn, lastOp, spiVars>>
    BY <1>8 DEF SkipSegment
  <2>2. (Fetching' <=> Fetching) /\ Source' = Source
    BY <2>1 DEF Fetching, Source, spiVars, cpuSide
  <2>3. Fetching => Started' /\ Progress'
    <3>1. Fetching => Started /\ Progress
      BY <1>1 DEF Fetch
    <3>2. UNCHANGED <<to, mem, spi, left, shift, readValid, readAck, sendLeft, writeValid, writeAck, from, regs>>
      BY <2>1 DEF spiVars, cpuSide, spiSide
    <3>3. (Pending' <=> Pending) /\ (Stored' <=> Stored)
      BY <3>2 DEF Pending, Stored
    <3>4. Got' = Got
      BY <2>1, <3>2, <3>3 DEF Got
    <3>5. Started => Started'
      BY <2>1, <2>2, <3>2 DEF Started, ReadOf
    <3>6. Progress => Progress'
      BY <2>1, <2>2, <3>2, <3>3, <3>4, ProgressStill, Zenon
    <3> QED
      BY <3>1, <3>5, <3>6
  <2> QED
    BY <1>1, <1>2, <2>1, <2>2, <2>3 DEF Fetch
<1>9. CASE LoadSegment
  <2> DEFINE p == Image.phdrs[index]
  <2>1. /\ p \in [load : BOOLEAN, offset : Nat, filesz : Nat, vaddr : Nat, memsz : Nat]
        /\ index \in DOMAIN Image.phdrs /\ Loads(p)
    BY <1>9, ImageIs DEF LoadSegment, More, Placed
  <2>2. p.vaddr % 16 = 0
    BY <2>1, BufferAssumption DEF Placeable
  <2>3. p.filesz \in Nat /\ p.filesz # 0 /\ p.vaddr \in Nat /\ OsFlashAddress + p.offset \in Nat
    BY <1>3, <2>1 DEF Loads
  <2>4. CtrlAck /\ InitiateRead(OsFlashAddress + p.offset, p.filesz, p.vaddr) /\ step' = "segments"
    BY <1>9 DEF LoadSegment
  <2> HIDE DEF p
  <2> QED
    BY <1>4, <2>2, <2>3, <2>4
<1>10. CASE ReadSections
  <2>1. Shdr * Len(Image.shdrs) \in Nat /\ OsFlashAddress + ShOffset \in Nat
    BY <1>3, ImageIs DEF Shdr
  <2> QED
    BY <1>3, <1>4, <1>10, <2>1 DEF ReadSections
<1>11. CASE SectionsRead
  BY <1>2, <1>11, FetchOver DEF SectionsRead
<1>12. CASE Section
  <2>1. UNCHANGED <<step, script, txn, lastOp>> /\ step = "sections"
    BY <1>12 DEF Section
  <2>2. ~Fetching /\ ~Fetching'
    BY <2>1 DEF Fetching
  <2> QED
    BY <1>1, <1>2, <2>1, <2>2 DEF Fetch
<1>13. CASE OsIsLoaded
  BY <1>1, <1>2, <1>13, FetchOver DEF OsIsLoaded, Deinit
<1> QED
  BY <1>5, <1>6, <1>7, <1>8, <1>9, <1>10, <1>11, <1>12, <1>13 DEF Loader

(* Every step.                                                              *)
LEMMA FetchNext ==
    ASSUME Handed, Awaiting, Placed, FlashReady, Placeable(Image), Fetch, [BootNext]_bootVars
    PROVE  Fetch'
<1>1. CASE NextInScript
  <2>1. /\ step' = step /\ step \in {"init", "deinit"} /\ script # <<>> /\ txn = NoTxn
        /\ txn' = Head(script) /\ script' = Tail(script) /\ UNCHANGED <<lastOp, recvLeft>>
    BY <1>1 DEF NextInScript, Free, spiVars, cpuSide
  <2>2. ~Fetching /\ ~Fetching'
    BY <2>1 DEF Fetching
  <2>3. CASE step = "init"
    BY <2>1, <2>2, <2>3 DEF Fetch
  <2>4. CASE step = "deinit"
    <3>1. script \in Seq(Scripted) /\ script # <<>>
      BY <2>1 DEF Handed
    <3>2. Len(script) \in Nat /\ Len(script) # 0
      BY <3>1, EmptySeq, LenProperties
    <3>3. /\ Head(script) = script[1] /\ Len(Tail(script)) = Len(script) - 1
          /\ \A i \in 1 .. Len(Tail(script)) : Tail(script)[i] = script[i + 1]
      BY <3>1, HeadTailProperties
    <3>4. \A i \in 1 .. Len(script) : script[i].count.recv = 0
      BY <2>4 DEF Fetch
    <3>5. \A i \in 1 .. Len(Tail(script)) : Tail(script)[i].count.recv = 0
      BY <3>2, <3>3, <3>4
    <3>6. Head(script).count.recv = 0
      BY <3>2, <3>3, <3>4
    <3>7. txn'.count.recv = 0 /\ \A i \in 1 .. Len(script') : script'[i].count.recv = 0
      BY <2>1, <3>5, <3>6, Zenon
    <3> QED
      BY <2>1, <2>2, <2>4, <3>7 DEF Fetch
  <2> QED
    BY <2>1, <2>3, <2>4
<1>2. CASE EndOfScript
  <2>1. /\ UNCHANGED <<lastOp, recvLeft, txn, script>> /\ txn = NoTxn /\ CtrlAck
        /\ step' \in {"start", "os", "halted"}
    BY <1>2 DEF EndOfScript, Idle, Free, spiVars, cpuSide, Placed
  <2>2. ~Fetching'
    BY <2>1 DEF Fetching
  <2>3. recvLeft = 0
    BY <2>1 DEF CtrlAck, Awaiting
  <2> QED
    BY <2>1, <2>2, <2>3 DEF Fetch
<1>3. CASE UNCHANGED bootVars
  <2>1. /\ UNCHANGED <<step, script, txn, lastOp, active, recvLeft>>
        /\ UNCHANGED <<to, mem, spi, left, shift, readValid, readAck, sendLeft, writeValid, writeAck, from, regs>>
    BY <1>3 DEF bootVars, loaderVars, spiVars, cpuSide, spiSide
  <2>2. (Fetching' <=> Fetching) /\ Source' = Source
    BY <2>1 DEF Fetching, Source
  <2>3. (Pending' <=> Pending) /\ (Stored' <=> Stored)
    BY <2>1 DEF Pending, Stored
  <2>4. Got' = Got
    BY <2>1, <2>3 DEF Got
  <2>5. Started => Started'
    BY <2>1, <2>2 DEF Started, ReadOf
  <2>6. Progress => Progress'
    BY <2>1, <2>2, <2>3, <2>4, ProgressStill, Zenon
  <2> QED
    BY <2>1, <2>2, <2>5, <2>6 DEF Fetch, ReadOf
<1> QED
  BY <1>1, <1>2, <1>3, FetchClocks, FetchStart, FetchLoading DEF BootNext

(* init reads nothing but the identification.                               *)
LEMMA FetchInit ==
    ASSUME BootInit
    PROVE  Fetch
<1>1. step = "init" /\ lastOp = NoOp
  BY DEF BootInit, LoaderInit
<1>2. ~Fetching /\ lastOp \in [to : Nat, size : Nat]
  BY <1>1 DEF Fetching, NoOp
<1> QED
  BY <1>1, <1>2 DEF Fetch

-----------------------------------------------------------------------------
(* What a read can change of memory, and what it brings.                    *)

(* Whole lines, counted in bytes.                                           *)
LEMMA WholeLinesIs ==
    ASSUME NEW n \in Nat
    PROVE  /\ WholeLines(n) \in Nat /\ n <= WholeLines(n) /\ WholeLines(n) % 16 = 0
           /\ n = 0 => WholeLines(n) = 0
           /\ \A m \in Nat : m % 16 = 0 /\ n <= m => WholeLines(n) <= m
           /\ \A g \in Nat : g % 16 = 0 /\ g < n => g + 16 <= WholeLines(n)
<1>1. WholeLines(n) = ((n + 15) \div 16) * 16
  BY BufferAssumption DEF WholeLines
<1> QED
  BY <1>1

(* Where it writes.                                                         *)
Window == lastOp.to .. (lastOp.to + WholeLines(lastOp.size) - 1)

(* A line is stored in the lines of the read at hand, ...                   *)
LEMMA StoreInWindow ==
    ASSUME Handed, Awaiting, Fetch, step # "init", StoreLine, NEW a, a \notin Window
    PROVE  Byte(mem', a) = Byte(mem, a)
<1>1. recvLeft # 0 /\ active
  BY NothingStored DEF StoreLine, StoreLineThenAt
<1>2. Fetching
  BY <1>1 DEF Fetch
<1>3. Started /\ Progress
  BY <1>1, <1>2 DEF Fetch
<1>4. /\ shift.n \in 1 .. 16 /\ Got \in Nat /\ Got + shift.n <= lastOp.size
      /\ lastOp.to \in Nat /\ lastOp.to % 16 = 0 /\ lastOp.size \in Nat
      /\ to = lastOp.to + Got /\ Got % 16 = 0
  BY <1>3, LineAtHand
<1>5. Got + 16 <= WholeLines(lastOp.size) /\ WholeLines(lastOp.size) \in Nat
  <2>1. Got < lastOp.size
    BY <1>4
  <2> QED
    BY <1>4, <2>1, WholeLinesIs
<1>6. to .. (to + 15) \subseteq Window
  BY <1>4, <1>5 DEF Window
<1>7. to \in Nat /\ to % 16 = 0
  BY <1>4
<1> QED
  BY <1>6, <1>7, StoredIs

(* ... and realigned in them.                                               *)
LEMMA RealignInWindow ==
    ASSUME lastOp \in [to : Nat, size : Nat], mem' = Realigned(mem, lastOp),
           NEW a, a \notin Window
    PROVE  Byte(mem', a) = Byte(mem, a)
<1>1. lastOp.size <= WholeLines(lastOp.size) /\ WholeLines(lastOp.size) \in Nat
  BY WholeLinesIs
<1>2. a \notin (lastOp.to + lastOp.size - (lastOp.size % 16)) .. (lastOp.to + lastOp.size - 1)
  BY <1>1 DEF Window
<1> QED
  BY <1>2, RealignedKeeps

(* Only load_os itself, when it clears a section, and the reads it makes    *)
(* change memory.                                                           *)
LEMMA MemoryKept ==
    ASSUME Handed, Awaiting, Placed, Fetch, step # "init", [BootNext]_bootVars, ~Section,
           NEW a, a \notin Window
    PROVE  Byte(mem', a) = Byte(mem, a)
<1>1. lastOp \in [to : Nat, size : Nat]
  BY DEF Fetch
<1>2. CASE mem' = mem
  BY <1>2
<1>3. CASE mem' = Realigned(mem, lastOp)
  BY <1>1, <1>3, RealignInWindow
<1>4. CASE Clocks /\ UNCHANGED loaderVars
  <2>1. CASE StoreLine
    BY <2>1, StoreInWindow
  <2>2. CASE ~StoreLine
    BY <1>2, <1>4, <2>2, ClocksKeep
  <2> QED
    BY <2>1, <2>2
<1>5. CASE Loader
  <2>1. mem' = mem \/ mem' = Realigned(mem, lastOp)
    <3>1. CASE StartTransaction
      BY <3>1 DEF StartTransaction, WriteCounts, Trigger
    <3>2. CASE NextInScript \/ EndOfScript \/ ReadHeader \/ SkipSegment
      BY <3>2 DEF NextInScript, EndOfScript, ReadHeader, SkipSegment, spiVars, cpuSide
    <3> QED
      BY <1>5, <3>1, <3>2 DEF Loader, CheckHeader, PhdrsRead, LoadSegment, ReadSections,
         SectionsRead, OsIsLoaded, WaitDone
  <2> QED
    BY <1>2, <1>3, <2>1
<1>6. CASE UNCHANGED bootVars
  BY <1>2, <1>6 DEF bootVars, spiVars, cpuSide
<1> QED
  BY <1>4, <1>5, <1>6 DEF BootNext

(* When the wait for a read returns, all of it is in memory, ...            *)
LEMMA AllArrived ==
    ASSUME Handed, Awaiting, Fetch, Fetching, Idle
    PROVE  Arrived(mem, lastOp, Source, lastOp.size)
<1>1. Started /\ Progress /\ txn = NoTxn
  BY DEF Fetch, Idle, Free
<1>2. lastOp \in [to : Nat, size : Nat] /\ lastOp.size \in Nat
  BY <1>1 DEF Started
<1>3. Unsaved = 0 /\ Asked = 0
  BY NothingComes DEF Idle, CtrlAck
<1>4. CASE lastOp.size = 0
  BY <1>4 DEF Arrived
<1>5. CASE lastOp.size # 0
  <2>1. /\ regs.quad = TRUE /\ regs.recv = 2 * lastOp.size
        /\ Bytes(2 * lastOp.size, TRUE) = lastOp.size
    BY <1>1, <1>2, ReadOfIs DEF Started
  <2>2. Chunks(Bytes(regs.recv, regs.quad)) # 0
    BY <1>2, <1>5, <2>1, ChunksAre
  <2>3. ~Pending
    BY <1>3, <2>2 DEF Asked
  <2>4. spi # "SEND"
    <3>1. frame.count = regs
      BY <1>1, <2>3 DEF Handed, Command1
    <3> QED
      BY <1>3, <2>2, <3>1 DEF Unsaved
  <2>5. Got = lastOp.size
    <3>1. left \in Nat /\ spi # "RECV_ACTIVE"
      BY <1>3, ChunksAre DEF Unsaved, Awaiting
    <3>2. spi \in Offering => Stored /\ left = 0
      BY <1>3, ChunksAre DEF Unsaved, Awaiting, Offering
    <3>3. CASE spi \in Offering
      BY <1>2, <2>3, <3>2, <3>3 DEF Got, Offering
    <3>4. CASE spi \notin Offering
      BY <2>3, <2>4, <3>1, <3>4 DEF Got
    <3> QED
      BY <3>3, <3>4
  <2> QED
    BY <1>1, <2>5 DEF Progress
<1> QED
  BY <1>4, <1>5

(* ... and in its place once it has been realigned.                         *)
LEMMA ReadDone ==
    ASSUME Handed, Awaiting, Fetch, Fetching, WaitDone, NEW b \in 0 .. (lastOp.size - 1),
           b < lastOp.size - (lastOp.size % 16) \/ 2 * (lastOp.size % 16) <= 16
    PROVE  Byte(mem', lastOp.to + b) = Source + b
<1>1. /\ lastOp \in [to : Nat, size : Nat] /\ Source \in Nat
      /\ mem' = Realigned(mem, lastOp) /\ Arrived(mem, lastOp, Source, lastOp.size)
  BY AllArrived DEF Fetch, WaitDone
<1> QED
  BY <1>1, RealignedIs

(* A part of memory that the read at hand is not for.                       *)
LEMMA HoldsOn ==
    ASSUME Handed, Awaiting, Placed, Fetch, step # "init", [BootNext]_bootVars, ~Section,
           NEW buffer \in Nat, NEW address, NEW n \in Nat,
           Apart(lastOp.to, WholeLines(lastOp.size), buffer, n), Holds(buffer, address, n)
    PROVE  \A b \in 0 .. (n - 1) : Byte(mem', buffer + b) = OsFlashAddress + address + b
<1>1. lastOp.to \in Nat /\ WholeLines(lastOp.size) \in Nat
  BY WholeLinesIs DEF Fetch
<1>2. ASSUME NEW b \in 0 .. (n - 1)
      PROVE  Byte(mem', buffer + b) = OsFlashAddress + address + b
  <2>1. buffer + b \notin Window
    BY <1>1 DEF Window, Apart
  <2>2. Byte(mem', buffer + b) = Byte(mem, buffer + b)
    BY <2>1, MemoryKept
  <2> QED
    BY <2>2 DEF Holds
<1> QED
  BY <1>2

(* A section that is cleared.                                               *)
LEMMA ClearedIs ==
    ASSUME Placed, Section
    PROVE  LET s == Image.shdrs[index] IN
           /\ s \in [nobits : BOOLEAN, addr : Nat, size : Nat] /\ index \in DOMAIN Image.shdrs
           /\ \A a : a \notin s.addr .. (s.addr + WholeWords(s) - 1) => Byte(mem', a) = Byte(mem, a)
           /\ ~s.nobits => mem' = mem
           /\ Clears(s) => \A a \in s.addr .. (s.addr + WholeWords(s) - 1) : Byte(mem', a) = Zero
           /\ \A a : Byte(mem', a) = Byte(mem, a) \/ Byte(mem', a) = Zero
<1> DEFINE s == Image.shdrs[index]
           f == [a \in s.addr .. (s.addr + WholeWords(s) - 1) |-> Zero]
<1>1. s \in [nobits : BOOLEAN, addr : Nat, size : Nat] /\ index \in DOMAIN Image.shdrs
  BY ImageIs DEF Section, More, Placed
<1>2. mem' = IF ~Clears(s) THEN mem ELSE Written(f, mem)
  BY DEF Section
<1>3. \A a : Byte(Written(f, mem), a) =
                IF a \in s.addr .. (s.addr + WholeWords(s) - 1) THEN Zero ELSE Byte(mem, a)
  <2> DEFINE cleared == s.addr .. (s.addr + WholeWords(s) - 1)
  <2>1. DOMAIN f = cleared /\ \A a \in cleared : f[a] = Zero
    OBVIOUS
  <2> HIDE DEF f, cleared
  <2>2. \A a : Byte(Written(f, mem), a) = IF a \in cleared THEN Zero ELSE Byte(mem, a)
    BY <2>1, ByteOver
  <2> QED
    BY <2>2 DEF cleared
<1> HIDE DEF f
<1>4. CASE Clears(s)
  <2>1. mem' = Written(f, mem) /\ s.nobits
    BY <1>2, <1>4 DEF Clears
  <2> HIDE DEF s
  <2> QED
    BY <1>1, <1>3, <2>1 DEF s
<1>5. CASE ~Clears(s)
  <2>1. mem' = mem
    BY <1>2, <1>5
  <2> QED
    BY <1>1, <1>5, <2>1
<1> QED
  BY <1>4, <1>5

(* A part of memory that the section at hand does not cover.                *)
LEMMA HoldsOnCleared ==
    ASSUME Placed, Section, NEW buffer \in Nat, NEW address, NEW n \in Nat,
           Image.shdrs[index].nobits =>
              Apart(Image.shdrs[index].addr, WholeWords(Image.shdrs[index]), buffer, n),
           Holds(buffer, address, n)
    PROVE  \A b \in 0 .. (n - 1) : Byte(mem', buffer + b) = OsFlashAddress + address + b
<1> DEFINE s == Image.shdrs[index]
<1>1. /\ s.addr \in Nat /\ s.size \in Nat
      /\ \A a : a \notin s.addr .. (s.addr + WholeWords(s) - 1) => Byte(mem', a) = Byte(mem, a)
      /\ ~s.nobits => mem' = mem
  BY ClearedIs
<1>2. s.nobits => Apart(s.addr, WholeWords(s), buffer, n)
  OBVIOUS
<1>3. WholeWords(s) \in Nat
  BY <1>1 DEF WholeWords
<1> HIDE DEF s
<1>4. ASSUME NEW b \in 0 .. (n - 1)
      PROVE  Byte(mem', buffer + b) = OsFlashAddress + address + b
  <2>1. Byte(mem', buffer + b) = Byte(mem, buffer + b)
    <3>1. CASE s.nobits
      <4>1. buffer + b \notin s.addr .. (s.addr + WholeWords(s) - 1)
        BY <1>1, <1>2, <1>3, <3>1 DEF Apart
      <4> QED
        BY <1>1, <4>1
    <3>2. CASE ~s.nobits
      BY <1>1, <3>2
    <3> QED
      BY <3>1, <3>2
  <2> QED
    BY <2>1 DEF Holds
<1> QED
  BY <1>4

-----------------------------------------------------------------------------
(* The buffers of the loader.                                               *)

(* A part of what is apart is apart.                                        *)
LEMMA ApartWithin ==
    ASSUME NEW a \in Nat, NEW n \in Nat, NEW b \in Nat, NEW m \in Nat, Apart(a, n, b, m),
           NEW c \in Nat, NEW k \in Nat, b <= c, c + k <= b + m
    PROVE  Apart(a, n, c, k) /\ Apart(c, k, a, n)
  BY DEF Apart

Reads(buffer, size, offset) ==
    lastOp = [to |-> buffer, size |-> size] /\ Source = OsFlashAddress + offset

Reading(p) == Reads(p.vaddr, p.filesz, p.offset)

Checked == {"phdrs", "segments", "shdrs", "sections"}

(* What load_os reads where, and the headers it has read.                   *)
Held ==
    /\ step \in Checked => GoodImage(Image)
    /\ step = "header" => Reads(HeaderBuffer, Ehdr, 0)
    /\ step = "phdrs" => Reads(PhdrBuffer, Ehdr * Len(Image.phdrs), PhOffset)
    /\ step = "segments" =>
          \/ lastOp = NoOp
          \/ \E i \in DOMAIN Image.phdrs :
                i < index /\ Loads(Image.phdrs[i]) /\ Reading(Image.phdrs[i])
    /\ step = "shdrs" => Reads(SectBuffer, Shdr * Len(Image.shdrs), ShOffset)
    /\ step = "sections" => lastOp = NoOp
    /\ HeadersHeld

(* Where they are.                                                          *)
LEMMA BuffersAre ==
    /\ HeaderBuffer \in Nat /\ PhdrBuffer \in Nat /\ SectBuffer \in Nat /\ BufferSize \in Nat
    /\ OsFlashAddress \in Nat /\ PhOffset \in Nat /\ ShOffset \in Nat
    /\ BufferSize % 16 = 0 /\ SectBuffer = PhdrBuffer + BufferSize
    /\ WholeLines(Ehdr) \in Nat /\ Ehdr = 52 /\ Ehdr <= WholeLines(Ehdr)
    /\ Apart(HeaderBuffer, WholeLines(Ehdr), PhdrBuffer, 2 * BufferSize)
<1>1. Ehdr \in Nat /\ Ehdr = 52
  BY DEF Ehdr
<1>2. WholeLines(Ehdr) \in Nat /\ Ehdr <= WholeLines(Ehdr)
  BY <1>1, WholeLinesIs
<1>3. /\ HeaderBuffer \in Nat /\ PhdrBuffer \in Nat /\ SectBuffer \in Nat /\ BufferSize \in Nat
      /\ OsFlashAddress \in Nat /\ PhOffset \in Nat /\ ShOffset \in Nat
  BY BootAssumption
<1>4. BufferSize % 16 = 0
  BY BufferAssumption
<1> QED
  BY <1>1, <1>2, <1>3, <1>4, BufferAssumption

(* How much of the two buffers the headers take.                            *)
LEMMA HeadersFit ==
    ASSUME Placed, GoodImage(Image)
    PROVE  LET L == Len(Image.phdrs)
               K == Len(Image.shdrs)
           IN  /\ L \in Nat /\ K \in Nat
               /\ Phdr * L \in Nat /\ Phdr * L <= BufferSize
               /\ Ehdr * L \in Nat /\ WholeLines(Ehdr * L) \in Nat
               /\ WholeLines(Ehdr * L) <= 2 * BufferSize
               /\ Shdr * K \in Nat /\ WholeLines(Shdr * K) \in Nat
               /\ WholeLines(Shdr * K) <= BufferSize
<1> DEFINE L == Len(Image.phdrs)
           K == Len(Image.shdrs)
<1>1. L \in Nat /\ K \in Nat
  BY ImageIs
<1>2. L * 32 <= BufferSize /\ K * 40 <= BufferSize /\ BufferSize \in Nat /\ BufferSize % 16 = 0
  BY BuffersAre DEF GoodImage, Phdr, Shdr
<1> HIDE DEF L, K
<1>3. Phdr * L = 32 * L /\ Ehdr * L = 52 * L /\ Shdr * K = 40 * K
  BY DEF Phdr, Ehdr, Shdr
<1>4. 52 * L \in Nat /\ 52 * L <= 2 * BufferSize /\ 2 * BufferSize \in Nat /\ (2 * BufferSize) % 16 = 0
  BY <1>1, <1>2
<1>5. 40 * K \in Nat /\ 40 * K <= BufferSize
  BY <1>1, <1>2
<1>6. WholeLines(52 * L) \in Nat /\ WholeLines(52 * L) <= 2 * BufferSize
  BY <1>4, WholeLinesIs
<1>7. WholeLines(40 * K) \in Nat /\ WholeLines(40 * K) <= BufferSize
  BY <1>2, <1>5, WholeLinesIs
<1>8. Phdr * L \in Nat /\ Phdr * L <= BufferSize
  BY <1>1, <1>2, <1>3
<1>9. /\ Ehdr * L \in Nat /\ WholeLines(Ehdr * L) \in Nat
      /\ WholeLines(Ehdr * L) <= 2 * BufferSize
  BY <1>3, <1>4, <1>6, Zenon
<1>10. Shdr * K \in Nat /\ WholeLines(Shdr * K) \in Nat /\ WholeLines(Shdr * K) <= BufferSize
  BY <1>3, <1>5, <1>7, Zenon
<1> QED
  BY <1>1, <1>8, <1>9, <1>10, Zenon DEF L, K

(* A segment or a section that is clear of the loader is clear of whatever  *)
(* it holds.                                                                *)
LEMMA ClearIs ==
    ASSUME Placed, GoodImage(Image), NEW a \in Nat, NEW n \in Nat, ClearOfLoader(a, n)
    PROVE  /\ Apart(a, n, HeaderBuffer, Ehdr)
           /\ Apart(a, n, PhdrBuffer, Phdr * Len(Image.phdrs))
           /\ Apart(a, n, SectBuffer, Shdr * Len(Image.shdrs))
           /\ \A m \in Nat : m <= BufferSize => Apart(SectBuffer, m, a, n)
<1>1. Apart(a, n, HeaderBuffer, WholeLines(Ehdr)) /\ Apart(a, n, PhdrBuffer, 2 * BufferSize)
  BY DEF ClearOfLoader
<1>2. Apart(a, n, HeaderBuffer, Ehdr)
  <2>1. HeaderBuffer <= HeaderBuffer /\ HeaderBuffer + Ehdr <= HeaderBuffer + WholeLines(Ehdr) /\ Ehdr \in Nat
    BY BuffersAre
  <2> QED
    BY <1>1, <2>1, BuffersAre, ApartWithin
<1>3. ASSUME NEW c \in Nat, NEW k \in Nat, PhdrBuffer <= c, c + k <= PhdrBuffer + 2 * BufferSize
      PROVE  Apart(a, n, c, k) /\ Apart(c, k, a, n)
  <2>1. 2 * BufferSize \in Nat
    BY BuffersAre
  <2> QED
    BY <1>1, <1>3, <2>1, BuffersAre, ApartWithin
<1>4. Phdr * Len(Image.phdrs) \in Nat /\ Phdr * Len(Image.phdrs) <= BufferSize
  BY HeadersFit
<1>5. Apart(a, n, PhdrBuffer, Phdr * Len(Image.phdrs))
  <2> DEFINE k == Phdr * Len(Image.phdrs)
  <2>1. k \in Nat /\ k <= BufferSize
    BY <1>4
  <2> HIDE DEF k
  <2>2. PhdrBuffer <= PhdrBuffer /\ PhdrBuffer + k <= PhdrBuffer + 2 * BufferSize /\ PhdrBuffer \in Nat
    BY <2>1, BuffersAre
  <2>3. Apart(a, n, PhdrBuffer, k)
    BY <1>3, <2>1, <2>2
  <2> QED
    BY <2>3 DEF k
<1>6. ASSUME NEW k \in Nat, k <= BufferSize
      PROVE  Apart(a, n, SectBuffer, k) /\ Apart(SectBuffer, k, a, n)
  <2>1. PhdrBuffer <= SectBuffer /\ SectBuffer + k <= PhdrBuffer + 2 * BufferSize /\ SectBuffer \in Nat
    BY <1>6, BuffersAre
  <2> QED
    BY <1>3, <2>1
<1>7. Shdr * Len(Image.shdrs) \in Nat /\ Shdr * Len(Image.shdrs) <= BufferSize
  <2> DEFINE k == Shdr * Len(Image.shdrs)
  <2>1. k \in Nat /\ WholeLines(k) <= BufferSize
    BY HeadersFit
  <2> HIDE DEF k
  <2>2. k <= WholeLines(k) /\ WholeLines(k) \in Nat
    BY <2>1, WholeLinesIs
  <2>3. k <= BufferSize
    BY <2>1, <2>2, BuffersAre
  <2> QED
    BY <2>1, <2>3 DEF k
<1> QED
  BY <1>2, <1>5, <1>6, <1>7

(* A read never writes to the headers that load_os still goes by.           *)
LEMMA BuffersApart ==
    ASSUME Placed, Placeable(Image), Held
    PROVE  LET a == lastOp.to
               n == WholeLines(lastOp.size)
           IN  /\ step \in Checked => Apart(a, n, HeaderBuffer, Ehdr)
               /\ step \in Checked \ {"phdrs"} => Apart(a, n, PhdrBuffer, Phdr * Len(Image.phdrs))
               /\ step = "sections" => Apart(a, n, SectBuffer, Shdr * Len(Image.shdrs))
<1> DEFINE a == lastOp.to
           n == WholeLines(lastOp.size)
           L == Len(Image.phdrs)
           K == Len(Image.shdrs)
           Goal == /\ step \in Checked => Apart(a, n, HeaderBuffer, Ehdr)
                   /\ step \in Checked \ {"phdrs"} => Apart(a, n, PhdrBuffer, Phdr * L)
                   /\ step = "sections" => Apart(a, n, SectBuffer, Shdr * K)
<1>1. ASSUME lastOp = NoOp PROVE Goal
  <2>1. n = 0
    BY <1>1, WholeLinesIs DEF NoOp
  <2> QED
    BY <2>1 DEF Apart, Goal
<1> HIDE DEF Goal
<1>2. ASSUME step = "phdrs" PROVE Goal
  <2>1. GoodImage(Image) /\ lastOp = [to |-> PhdrBuffer, size |-> Ehdr * L]
    BY <1>2 DEF Held, Checked, Reads
  <2>2. a = PhdrBuffer /\ n \in Nat /\ n <= 2 * BufferSize
    BY <2>1, HeadersFit
  <2> HIDE DEF a, n
  <2>3. Apart(a, n, HeaderBuffer, WholeLines(Ehdr))
    <3>1. PhdrBuffer <= a /\ a + n <= PhdrBuffer + 2 * BufferSize /\ 2 * BufferSize \in Nat /\ a \in Nat
      BY <2>2, BuffersAre
    <3> QED
      BY <2>2, <3>1, BuffersAre, ApartWithin
  <2>4. Apart(a, n, HeaderBuffer, Ehdr)
    <3>1. HeaderBuffer <= HeaderBuffer /\ HeaderBuffer + Ehdr <= HeaderBuffer + WholeLines(Ehdr)
          /\ Ehdr \in Nat /\ a \in Nat
      BY <2>2, BuffersAre
    <3> QED
      BY <2>2, <2>3, <3>1, BuffersAre, ApartWithin
  <2> QED
    BY <1>2, <2>4 DEF Checked, Goal
<1>3. ASSUME step = "segments" /\ lastOp # NoOp PROVE Goal
  <2>1. PICK i \in DOMAIN Image.phdrs : Loads(Image.phdrs[i]) /\ Reading(Image.phdrs[i])
    BY <1>3 DEF Held
  <2> DEFINE p == Image.phdrs[i]
  <2>2. p.vaddr \in Nat /\ p.filesz \in Nat
    BY ImageIs
  <2>3. a = p.vaddr /\ n = WholeLines(p.filesz) /\ a \in Nat /\ n \in Nat
    BY <2>1, <2>2, WholeLinesIs DEF Reading, Reads
  <2>4. ClearOfLoader(a, n)
    BY <2>1, <2>3 DEF Placeable
  <2>5. GoodImage(Image)
    BY <1>3 DEF Held, Checked
  <2> HIDE DEF a, n
  <2> QED
    <3>1. Apart(a, n, HeaderBuffer, Ehdr) /\ Apart(a, n, PhdrBuffer, Phdr * L)
      BY <2>3, <2>4, <2>5, ClearIs
    <3> QED
      BY <1>3, <3>1 DEF Goal
<1>4. ASSUME step = "shdrs" PROVE Goal
  <2>1. GoodImage(Image) /\ lastOp = [to |-> SectBuffer, size |-> Shdr * K]
    BY <1>4 DEF Held, Checked, Reads
  <2>2. a = SectBuffer /\ n \in Nat /\ n <= BufferSize /\ Phdr * L \in Nat /\ Phdr * L <= BufferSize
    BY <2>1, HeadersFit
  <2> HIDE DEF a, n
  <2>3. Apart(a, n, HeaderBuffer, WholeLines(Ehdr))
    <3>1. PhdrBuffer <= a /\ a + n <= PhdrBuffer + 2 * BufferSize /\ 2 * BufferSize \in Nat /\ a \in Nat
      BY <2>2, BuffersAre
    <3> QED
      BY <2>2, <3>1, BuffersAre, ApartWithin
  <2>4. Apart(a, n, HeaderBuffer, Ehdr)
    <3>1. HeaderBuffer <= HeaderBuffer /\ HeaderBuffer + Ehdr <= HeaderBuffer + WholeLines(Ehdr)
          /\ Ehdr \in Nat /\ a \in Nat
      BY <2>2, BuffersAre
    <3> QED
      BY <2>2, <2>3, <3>1, BuffersAre, ApartWithin
  <2>5. Apart(a, n, PhdrBuffer, Phdr * L)
    BY <2>2, BuffersAre DEF Apart
  <2> QED
    BY <1>4, <2>4, <2>5 DEF Goal
<1>5. ASSUME step = "sections" PROVE Goal
  BY <1>1, <1>5 DEF Held
<1>6. ASSUME step \notin Checked PROVE Goal
  BY <1>6 DEF Checked, Goal
<1> QED
  <2>1. Goal
    BY <1>1, <1>2, <1>3, <1>4, <1>5, <1>6 DEF Checked
  <2> QED
    BY <2>1 DEF Goal

(* The headers stay where they are.                                         *)
LEMMA HeadersOn ==
    ASSUME Handed, Awaiting, Placed, Fetch, Placeable(Image), Held, [BootNext]_bootVars, ~Section,
           image' = image
    PROVE  /\ step \in Checked => Holds(HeaderBuffer, 0, Ehdr)'
           /\ step \in Checked \ {"phdrs"} => Holds(PhdrBuffer, PhOffset, Phdr * Len(Image.phdrs))'
           /\ step = "sections" => Holds(SectBuffer, ShOffset, Shdr * Len(Image.shdrs))'
<1>1. ASSUME NEW buffer \in Nat, NEW address, NEW n \in Nat, step \in Checked,
             Apart(lastOp.to, WholeLines(lastOp.size), buffer, n), Holds(buffer, address, n)
      PROVE  \A b \in 0 .. (n - 1) : Byte(mem', buffer + b) = OsFlashAddress + address + b
  <2>1. step # "init"
    BY <1>1 DEF Checked
  <2> QED
    BY <1>1, <2>1, HoldsOn
<1>2. ASSUME step \in Checked
      PROVE  Holds(HeaderBuffer, 0, Ehdr)'
  <2>1. Apart(lastOp.to, WholeLines(lastOp.size), HeaderBuffer, Ehdr) /\ Holds(HeaderBuffer, 0, Ehdr)
        /\ Ehdr \in Nat /\ HeaderBuffer \in Nat
    BY <1>2, BuffersApart, BuffersAre DEF Held, HeadersHeld, Checked
  <2>2. \A b \in 0 .. (Ehdr - 1) : Byte(mem', HeaderBuffer + b) = OsFlashAddress + 0 + b
    BY <1>1, <1>2, <2>1
  <2> QED
    BY <2>2 DEF Holds
<1>3. ASSUME step \in Checked \ {"phdrs"}
      PROVE  Holds(PhdrBuffer, PhOffset, Phdr * Len(Image.phdrs))'
  <2> DEFINE n == Phdr * Len(Image.phdrs)
  <2>1. /\ Apart(lastOp.to, WholeLines(lastOp.size), PhdrBuffer, n) /\ Holds(PhdrBuffer, PhOffset, n)
        /\ n \in Nat /\ PhdrBuffer \in Nat
    <3>1. GoodImage(Image)
      BY <1>3 DEF Held
    <3> QED
      BY <1>3, <3>1, BuffersApart, BuffersAre, HeadersFit DEF Held, HeadersHeld, Checked
  <2> HIDE DEF n
  <2>2. \A b \in 0 .. (n - 1) : Byte(mem', PhdrBuffer + b) = OsFlashAddress + PhOffset + b
    BY <1>1, <1>3, <2>1
  <2>3. n' = n
    BY DEF n, Image
  <2>4. Holds(PhdrBuffer, PhOffset, n)'
    BY <2>2, <2>3 DEF Holds
  <2> QED
    BY <2>4 DEF n
<1>4. ASSUME step = "sections"
      PROVE  Holds(SectBuffer, ShOffset, Shdr * Len(Image.shdrs))'
  <2> DEFINE n == Shdr * Len(Image.shdrs)
  <2>1. /\ Apart(lastOp.to, WholeLines(lastOp.size), SectBuffer, n) /\ Holds(SectBuffer, ShOffset, n)
        /\ n \in Nat /\ SectBuffer \in Nat /\ step \in Checked
    <3>1. GoodImage(Image)
      BY <1>4 DEF Held, Checked
    <3> QED
      BY <1>4, <3>1, BuffersApart, BuffersAre, HeadersFit DEF Held, HeadersHeld, Checked
  <2> HIDE DEF n
  <2>2. \A b \in 0 .. (n - 1) : Byte(mem', SectBuffer + b) = OsFlashAddress + ShOffset + b
    BY <1>1, <2>1
  <2>3. n' = n
    BY DEF n, Image
  <2>4. Holds(SectBuffer, ShOffset, n)'
    BY <2>2, <2>3 DEF Holds
  <2> QED
    BY <2>4 DEF n
<1> QED
  BY <1>2, <1>3, <1>4

(* Between two steps of load_os.                                            *)
LEMMA SourceKept ==
    ASSUME \/ StartTransaction
           \/ Clocks /\ UNCHANGED loaderVars
           \/ UNCHANGED bootVars
    PROVE  UNCHANGED <<step, after, image, index, lastOp>> /\ Source' = Source
<1>1. CASE StartTransaction
  <2>1. UNCHANGED <<step, after, image, index, lastOp>> /\ txn # NoTxn
    BY <1>1 DEF StartTransaction
  <2>2. (txn' = txn) \/ (txn' = NoTxn /\ from' = txn.cmd)
    BY <1>1 DEF StartTransaction, Trigger
  <2> QED
    BY <2>1, <2>2 DEF Source
<1>2. CASE Clocks /\ UNCHANGED loaderVars
  <2>1. from' = from
    BY <1>2, ClocksKeep
  <2> QED
    BY <1>2, <2>1 DEF loaderVars, Source
<1>3. CASE UNCHANGED bootVars
  BY <1>3 DEF bootVars, loaderVars, spiVars, cpuSide, Source
<1> QED
  BY <1>1, <1>2, <1>3

(* Between the steps of load_os nothing that it reads or has read moves.    *)
LEMMA HeldBetween ==
    ASSUME Handed, Awaiting, Placed, Fetch, Placeable(Image), Held, [BootNext]_bootVars,
           \/ StartTransaction
           \/ Clocks /\ UNCHANGED loaderVars
           \/ UNCHANGED bootVars
    PROVE  Held'
<1>1. UNCHANGED <<step, image, index, lastOp>> /\ Source' = Source
  BY SourceKept
<1>2. ~Section
  <2>1. Section => index' # index
    BY DEF Section, Placed
  <2> QED
    BY <1>1, <2>1
<1>3. HeadersHeld'
  BY <1>1, <1>2, HeadersOn DEF HeadersHeld, Checked
<1>4. Image' = Image
  BY <1>1 DEF Image
<1> QED
  BY <1>1, <1>3, <1>4 DEF Held, Reads, Reading

(* What a read is for.                                                      *)
LEMMA ReadsAsked ==
    ASSUME NEW buffer \in Nat, NEW size \in Nat, NEW source,
           InitiateRead(source, size, buffer)
    PROVE  lastOp' = [to |-> buffer, size |-> size] /\ Source' = source
<1>1. /\ lastOp' = [to |-> buffer, size |-> size]
      /\ txn' = Transaction("read", source, TRUE, 4, NumDummyCycles, buffer, size)
  BY DEF InitiateRead
<1>2. txn' # NoTxn
  <2>1. Proper(txn')
    BY <1>1, ReadIs
  <2> QED
    BY <2>1, NoTxnIsNone
<1> QED
  BY <1>1, <1>2 DEF Source, Transaction

(* The steps of load_os.                                                    *)
LEMMA HeldLoading ==
    ASSUME Handed, Awaiting, Placed, Fetch, Placeable(Image), Held, [BootNext]_bootVars,
           Loader, ~StartTransaction, ~NextInScript, ~EndOfScript
    PROVE  Held'
<1> USE DEF Free, Idle
<1>1. image' = image
  BY DEF Loader, ReadHeader, CheckHeader, PhdrsRead, SkipSegment, LoadSegment, ReadSections, SectionsRead,
         Section, OsIsLoaded
<1>2. Image' = Image /\ (GoodImage(Image))' = GoodImage(Image)
  BY <1>1 DEF Image, GoodImage
<1>3. /\ HeaderBuffer \in Nat /\ PhdrBuffer \in Nat /\ SectBuffer \in Nat
      /\ OsFlashAddress \in Nat /\ PhOffset \in Nat /\ ShOffset \in Nat /\ Ehdr = 52
  BY BuffersAre
<1>4. CASE ReadHeader
  <2>1. step' = "header" /\ InitiateRead(OsFlashAddress, 52, HeaderBuffer)
    BY <1>3, <1>4 DEF ReadHeader
  <2>2. lastOp' = [to |-> HeaderBuffer, size |-> 52] /\ Source' = OsFlashAddress
    <3>1. 52 \in Nat
      OBVIOUS
    <3> QED
      BY <1>3, <2>1, <3>1, ReadsAsked
  <2>3. Reads(HeaderBuffer, Ehdr, 0)'
    BY <1>3, <2>2 DEF Reads
  <2>4. HeadersHeld'
    BY <2>1 DEF HeadersHeld
  <2> QED
    BY <2>1, <2>3, <2>4 DEF Held, Checked
<1>5. CASE CheckHeader
  <2>1. CASE Refused
    <3>1. step' = "deinit"
      BY <1>5, <2>1 DEF CheckHeader, Deinit
    <3> QED
      BY <3>1 DEF Held, Checked, HeadersHeld
  <2>2. CASE ~Refused
    <3> DEFINE n == Ehdr * Len(Image.phdrs)
    <3>1. step = "header" /\ step' = "phdrs" /\ WaitDone
          /\ InitiateRead(OsFlashAddress + PhOffset, n, PhdrBuffer)
      BY <1>5, <2>2 DEF CheckHeader
    <3>2. GoodImage(Image) /\ n \in Nat
      BY <2>2, HeadersFit DEF Refused
    <3> HIDE DEF n
    <3>3. lastOp' = [to |-> PhdrBuffer, size |-> n] /\ Source' = OsFlashAddress + PhOffset
      BY <1>3, <3>1, <3>2, ReadsAsked
    <3>4. Reads(PhdrBuffer, Ehdr * Len(Image.phdrs), PhOffset)'
      BY <1>2, <3>3 DEF Reads, n
    <3>5. Holds(HeaderBuffer, 0, Ehdr)'
      <4>1. lastOp.to = HeaderBuffer /\ lastOp.size = 52 /\ Source = OsFlashAddress + 0
        BY <1>3, <3>1 DEF Held, Reads
      <4>2. Fetching
        BY <3>1 DEF Fetching
      <4>3. 2 * (lastOp.size % 16) <= 16
        BY <4>1
      <4>4. \A b \in 0 .. (lastOp.size - 1) : Byte(mem', lastOp.to + b) = Source + b
        BY <3>1, <4>2, <4>3, ReadDone
      <4> QED
        BY <1>3, <4>1, <4>4 DEF Holds
    <3>6. HeadersHeld'
      BY <3>1, <3>5 DEF HeadersHeld
    <3> QED
      BY <1>2, <3>1, <3>2, <3>4, <3>6 DEF Held, Checked
  <2> QED
    BY <2>1, <2>2
<1>6. CASE PhdrsRead
  <2>1. step = "phdrs" /\ step' = "segments" /\ lastOp' = NoOp /\ WaitDone /\ ~Section
    BY <1>6 DEF PhdrsRead, Section
  <2>2. GoodImage(Image)
    BY <2>1 DEF Held, Checked
  <2>3. Holds(HeaderBuffer, 0, Ehdr)'
    BY <1>1, <2>1, HeadersOn DEF Checked
  <2>4. Holds(PhdrBuffer, PhOffset, Phdr * Len(Image.phdrs))'
    <3> DEFINE L == Len(Image.phdrs)
    <3>1. L \in Nat
      BY ImageIs
    <3>2. /\ lastOp = [to |-> PhdrBuffer, size |-> Ehdr * L] /\ Source = OsFlashAddress + PhOffset
      BY <2>1 DEF Held, Reads
    <3>3. Fetching
      BY <2>1 DEF Fetching
    <3>4. \A b \in 0 .. (lastOp.size - 1) : b < lastOp.size - (lastOp.size % 16)
              => Byte(mem', lastOp.to + b) = Source + b
      BY <2>1, <3>3, ReadDone
    <3> HIDE DEF L
    <3>5. lastOp.size = 52 * L /\ lastOp.to = PhdrBuffer /\ Phdr * L = 32 * L
      BY <1>3, <3>2 DEF Phdr
    <3>6. ASSUME NEW b \in 0 .. (32 * L - 1)
          PROVE  Byte(mem', PhdrBuffer + b) = OsFlashAddress + PhOffset + b
      <4>1. b \in 0 .. (52 * L - 1) /\ b < 52 * L - ((52 * L) % 16)
        BY <3>1, <3>6
      <4> QED
        BY <3>2, <3>4, <3>5, <4>1
    <3>7. L' = L
      BY <1>2 DEF L
    <3>8. Holds(PhdrBuffer, PhOffset, Phdr * L)'
      BY <3>5, <3>6, <3>7 DEF Holds
    <3> QED
      BY <3>8 DEF L
  <2>5. HeadersHeld'
    BY <2>1, <2>3, <2>4 DEF HeadersHeld
  <2> QED
    BY <1>2, <2>1, <2>2, <2>5 DEF Held, Checked
<1>7. CASE SkipSegment
  <2>1. step = "segments" /\ step' = step /\ lastOp' = lastOp /\ index' = index + 1 /\ ~Section
        /\ txn' = txn /\ from' = from
    BY <1>7 DEF SkipSegment, Section, spiVars, cpuSide
  <2>2. Source' = Source
    BY <2>1 DEF Source
  <2>3. HeadersHeld'
    BY <1>1, <2>1, HeadersOn DEF HeadersHeld, Checked
  <2>4. index \in Nat
    BY DEF Placed
  <2>5. lastOp = NoOp \/ \E i \in DOMAIN Image.phdrs :
                i < index /\ Loads(Image.phdrs[i]) /\ Reading(Image.phdrs[i])
    BY <2>1 DEF Held
  <2>6. lastOp' = NoOp \/ \E i \in DOMAIN Image'.phdrs :
                i < index' /\ Loads(Image'.phdrs[i]) /\ (Reading(Image.phdrs[i]))'
    <3>1. CASE lastOp = NoOp
      BY <2>1, <3>1
    <3>2. CASE lastOp # NoOp
      <4>1. PICK i \in DOMAIN Image.phdrs : i < index /\ Loads(Image.phdrs[i]) /\ Reading(Image.phdrs[i])
        BY <2>5, <3>2
      <4>2. i \in Nat
        BY ImageIs
      <4>3. i < index'
        BY <2>1, <2>4, <4>1, <4>2
      <4>4. Reading(Image.phdrs[i])'
        BY <1>2, <2>1, <2>2, <4>1 DEF Reading, Reads
      <4> QED
        BY <1>2, <4>1, <4>3, <4>4
    <3> QED
      BY <3>1, <3>2
  <2> QED
    BY <1>2, <2>1, <2>3, <2>6 DEF Held, Checked
<1>8. CASE LoadSegment
  <2> DEFINE p == Image.phdrs[index]
  <2>1. step = "segments" /\ step' = step /\ index' = index + 1 /\ ~Section
        /\ InitiateRead(OsFlashAddress + p.offset, p.filesz, p.vaddr)
    BY <1>8 DEF LoadSegment, Section
  <2>2. /\ p.vaddr \in Nat /\ p.filesz \in Nat
        /\ index \in DOMAIN Image.phdrs /\ Loads(p) /\ index \in Nat
    <3>1. index \in Nat /\ index \in DOMAIN Image.phdrs
      BY <1>8, ImageIs DEF LoadSegment, More, Placed
    <3>2. p \in [load : BOOLEAN, offset : Nat, filesz : Nat, vaddr : Nat, memsz : Nat]
      BY <3>1, ImageIs
    <3>3. p.vaddr \in Nat /\ p.filesz \in Nat
      BY <3>2
    <3>4. Loads(p)
      BY <1>8 DEF LoadSegment
    <3> QED
      BY <3>1, <3>3, <3>4
  <2>3. lastOp' = [to |-> p.vaddr, size |-> p.filesz] /\ Source' = OsFlashAddress + p.offset
    BY <2>1, <2>2, ReadsAsked
  <2>4. HeadersHeld'
    BY <1>1, <2>1, HeadersOn DEF HeadersHeld, Checked
  <2>5. index < index'
    BY <2>1, <2>2
  <2>6. \E i \in DOMAIN Image'.phdrs :
            i < index' /\ Loads(Image'.phdrs[i]) /\ (Reading(Image.phdrs[i]))'
    <3>1. /\ index \in DOMAIN Image'.phdrs /\ Loads(Image'.phdrs[index])
          /\ lastOp' = [to |-> Image'.phdrs[index].vaddr, size |-> Image'.phdrs[index].filesz]
          /\ Source' = OsFlashAddress + Image'.phdrs[index].offset
      BY <1>2, <2>2, <2>3
    <3> QED
      BY <2>5, <3>1 DEF Reading, Reads
  <2>7. GoodImage(Image)
    BY <2>1 DEF Held, Checked
  <2> QED
    BY <1>2, <2>1, <2>4, <2>6, <2>7 DEF Held, Checked
<1>9. CASE ReadSections
  <2> DEFINE n == Shdr * Len(Image.shdrs)
  <2>1. step = "segments" /\ step' = "shdrs" /\ ~Section
        /\ InitiateRead(OsFlashAddress + ShOffset, n, SectBuffer)
    BY <1>9 DEF ReadSections, Section
  <2>2. GoodImage(Image)
    BY <2>1 DEF Held, Checked
  <2>3. n \in Nat
    BY <2>2, HeadersFit
  <2> HIDE DEF n
  <2>4. lastOp' = [to |-> SectBuffer, size |-> n] /\ Source' = OsFlashAddress + ShOffset
    BY <1>3, <2>1, <2>3, ReadsAsked
  <2>5. Reads(SectBuffer, Shdr * Len(Image.shdrs), ShOffset)'
    BY <1>2, <2>4 DEF Reads, n
  <2>6. HeadersHeld'
    BY <1>1, <2>1, HeadersOn DEF HeadersHeld, Checked
  <2> QED
    BY <1>2, <2>1, <2>2, <2>5, <2>6 DEF Held, Checked
<1>10. CASE SectionsRead
  <2>1. step = "shdrs" /\ step' = "sections" /\ lastOp' = NoOp /\ WaitDone /\ ~Section
    BY <1>10 DEF SectionsRead, Section
  <2>2. GoodImage(Image)
    BY <2>1 DEF Held, Checked
  <2>3. Holds(HeaderBuffer, 0, Ehdr)' /\ Holds(PhdrBuffer, PhOffset, Phdr * Len(Image.phdrs))'
    BY <1>1, <2>1, HeadersOn DEF Checked
  <2>4. Holds(SectBuffer, ShOffset, Shdr * Len(Image.shdrs))'
    <3> DEFINE K == Len(Image.shdrs)
    <3>1. K \in Nat
      BY ImageIs
    <3>2. /\ lastOp = [to |-> SectBuffer, size |-> Shdr * K] /\ Source = OsFlashAddress + ShOffset
      BY <2>1 DEF Held, Reads
    <3>3. Fetching
      BY <2>1 DEF Fetching
    <3> HIDE DEF K
    <3>4. lastOp.size = 40 * K /\ lastOp.to = SectBuffer /\ Shdr * K = 40 * K
      BY <3>2 DEF Shdr
    <3>5. 2 * (lastOp.size % 16) <= 16
      BY <3>1, <3>4
    <3>6. \A b \in 0 .. (lastOp.size - 1) : Byte(mem', lastOp.to + b) = Source + b
      BY <2>1, <3>3, <3>5, ReadDone
    <3>7. K' = K
      BY <1>2 DEF K
    <3>8. Holds(SectBuffer, ShOffset, Shdr * K)'
      BY <3>2, <3>4, <3>6, <3>7 DEF Holds
    <3> QED
      BY <3>8 DEF K
  <2>5. HeadersHeld'
    BY <2>1, <2>3, <2>4 DEF HeadersHeld
  <2> QED
    BY <1>2, <2>1, <2>2, <2>5 DEF Held, Checked
<1>11. CASE Section
  <2> DEFINE s == Image.shdrs[index]
  <2>1. step = "sections" /\ step' = step /\ lastOp' = lastOp /\ lastOp = NoOp
    BY <1>11 DEF Section, Held
  <2>2. GoodImage(Image)
    BY <2>1 DEF Held, Checked
  <2>3. s.addr \in Nat /\ WholeWords(s) \in Nat /\ index \in DOMAIN Image.shdrs
    <3>1. s.addr \in Nat /\ s.size \in Nat /\ index \in DOMAIN Image.shdrs
      BY <1>11, ClearedIs
    <3> HIDE DEF s
    <3> QED
      BY <3>1 DEF WholeWords
  <2>4. s.nobits => ClearOfLoader(s.addr, WholeWords(s))
    BY <2>3 DEF Placeable
  <2> DEFINE a == s.addr
             w == WholeWords(s)
             L == Phdr * Len(Image.phdrs)
             K == Shdr * Len(Image.shdrs)
  <2>5. s.nobits => Apart(a, w, HeaderBuffer, Ehdr) /\ Apart(a, w, PhdrBuffer, L) /\ Apart(a, w, SectBuffer, K)
    <3> HIDE DEF a, w
    <3>1. ASSUME ClearOfLoader(a, w)
          PROVE  Apart(a, w, HeaderBuffer, Ehdr) /\ Apart(a, w, PhdrBuffer, L) /\ Apart(a, w, SectBuffer, K)
      <4>1. a \in Nat /\ w \in Nat
        BY <2>3 DEF a, w
      <4> QED
        BY <2>2, <3>1, <4>1, ClearIs
    <3> QED
      BY <2>4, <3>1 DEF a, w
  <2>6. L \in Nat /\ K \in Nat
    BY <2>2, HeadersFit
  <2>7. Holds(HeaderBuffer, 0, Ehdr) /\ Holds(PhdrBuffer, PhOffset, L) /\ Holds(SectBuffer, ShOffset, K)
    BY <2>1 DEF Held, HeadersHeld
  <2>8. L' = L /\ K' = K
    BY <1>2
  <2>9. Ehdr \in Nat
    BY <1>3
  <2> HIDE DEF L, K, a, w, s
  <2>10. /\ \A b \in 0 .. (Ehdr - 1) : Byte(mem', HeaderBuffer + b) = OsFlashAddress + 0 + b
         /\ \A b \in 0 .. (L - 1) : Byte(mem', PhdrBuffer + b) = OsFlashAddress + PhOffset + b
         /\ \A b \in 0 .. (K - 1) : Byte(mem', SectBuffer + b) = OsFlashAddress + ShOffset + b
    <3>1. /\ Image.shdrs[index].nobits =>
                Apart(Image.shdrs[index].addr, WholeWords(Image.shdrs[index]), HeaderBuffer, Ehdr)
          /\ Image.shdrs[index].nobits =>
                Apart(Image.shdrs[index].addr, WholeWords(Image.shdrs[index]), PhdrBuffer, L)
          /\ Image.shdrs[index].nobits =>
                Apart(Image.shdrs[index].addr, WholeWords(Image.shdrs[index]), SectBuffer, K)
      BY <2>5 DEF s, a, w
    <3>2. Holds(HeaderBuffer, 0, Ehdr)
      BY <2>7
    <3>3. Holds(PhdrBuffer, PhOffset, L)
      BY <2>7
    <3>4. Holds(SectBuffer, ShOffset, K)
      BY <2>7
    <3>5. \A b \in 0 .. (Ehdr - 1) : Byte(mem', HeaderBuffer + b) = OsFlashAddress + 0 + b
      BY <1>3, <1>11, <2>9, <3>1, <3>2, HoldsOnCleared
    <3>6. \A b \in 0 .. (L - 1) : Byte(mem', PhdrBuffer + b) = OsFlashAddress + PhOffset + b
      <4>1. PhdrBuffer \in Nat /\ L \in Nat
        BY <1>3, <2>6
      <4>2. Image.shdrs[index].nobits =>
                Apart(Image.shdrs[index].addr, WholeWords(Image.shdrs[index]), PhdrBuffer, L)
        BY <3>1
      <4> QED
        BY <1>11, <3>3, <4>1, <4>2, HoldsOnCleared
    <3>7. \A b \in 0 .. (K - 1) : Byte(mem', SectBuffer + b) = OsFlashAddress + ShOffset + b
      BY <1>3, <1>11, <2>6, <3>1, <3>4, HoldsOnCleared
    <3> QED
      BY <3>5, <3>6, <3>7
  <2>11. Holds(HeaderBuffer, 0, Ehdr)' /\ Holds(PhdrBuffer, PhOffset, L)' /\ Holds(SectBuffer, ShOffset, K)'
    BY <2>8, <2>10 DEF Holds
  <2>12. HeadersHeld'
    BY <2>11 DEF HeadersHeld, L, K
  <2> QED
    BY <1>2, <2>1, <2>2, <2>12 DEF Held, Checked
<1>12. CASE OsIsLoaded
  <2>1. step' = "deinit"
    BY <1>12 DEF OsIsLoaded, Deinit
  <2> QED
    BY <2>1 DEF Held, Checked, HeadersHeld
<1> QED
  BY <1>4, <1>5, <1>6, <1>7, <1>8, <1>9, <1>10, <1>11, <1>12 DEF Loader

(* Every step.                                                              *)
LEMMA HeldNext ==
    ASSUME Handed, Awaiting, Placed, Fetch, Placeable(Image), Held, [BootNext]_bootVars
    PROVE  Held'
<1>1. CASE NextInScript \/ EndOfScript
  <2>1. step' \notin Checked \cup {"header"}
    BY <1>1 DEF NextInScript, EndOfScript, Checked, Placed
  <2> QED
    BY <2>1 DEF Held, Checked, HeadersHeld
<1> QED
  BY <1>1, HeldBetween, HeldLoading DEF BootNext

(* At first there is nothing to hold.                                       *)
LEMMA HeldInit ==
    ASSUME BootInit
    PROVE  Held
<1>1. step = "init"
  BY DEF BootInit, LoaderInit
<1> QED
  BY <1>1 DEF Held, Checked, HeadersHeld

(* What is in the flash stays there.                                        *)
LEMMA ImageKept ==
    ASSUME [BootNext]_bootVars
    PROVE  image' = image
<1>1. CASE Loader
  BY <1>1 DEF Loader, StartTransaction, NextInScript, EndOfScript, ReadHeader, CheckHeader, PhdrsRead,
     SkipSegment, LoadSegment, ReadSections, SectionsRead, Section, OsIsLoaded
<1>2. CASE Clocks /\ UNCHANGED loaderVars
  BY <1>2 DEF loaderVars
<1>3. CASE UNCHANGED bootVars
  BY <1>3 DEF bootVars, loaderVars
<1> QED
  BY <1>1, <1>2, <1>3 DEF BootNext

(* What holds of any image, and of one that is clear of the loader.         *)
Driven == Handed /\ Placed /\ Awaiting /\ FlashReady

(* It holds at first, ...                                                   *)
LEMMA DrivenInit ==
    ASSUME BootInit
    PROVE  Driven
  BY HandedInit, AwaitingInit, FlashReadyInit DEF Driven

(* ... and every step preserves it.                                         *)
LEMMA DrivenNext ==
    ASSUME Driven, [BootNext]_bootVars
    PROVE  Driven'
  BY HandedNext, AwaitingNext, FlashReadyNext DEF Driven

(* While load_os goes by the headers it has read, they are in its buffers,  *)
(* although it reads more than it has checked there is room for, and loads  *)
(* segments meanwhile (elf_reader.cpp:98, 107, 154): for every image that   *)
(* keeps clear of the loader's own memory.                                  *)
THEOREM HeadersStay == BootSpec => [](Placeable(Image) => HeadersHeld)
<1> DEFINE Inv == Driven /\ (Placeable(Image) => Fetch /\ Held)
<1>1. BootInit => Inv
  BY DrivenInit, FetchInit, HeldInit
<1>2. Inv /\ [BootNext]_bootVars => Inv'
  <2> SUFFICES ASSUME Inv, [BootNext]_bootVars PROVE Inv'
    OBVIOUS
  <2>1. Driven'
    BY DrivenNext
  <2>2. image' = image
    BY ImageKept
  <2>3. Placeable(Image)' <=> Placeable(Image)
    BY <2>2 DEF Placeable, Image
  <2>4. ASSUME Placeable(Image) PROVE Fetch' /\ Held'
    BY <2>4, FetchNext, HeldNext DEF Driven
  <2> QED
    BY <2>1, <2>3, <2>4
<1>3. Inv => (Placeable(Image) => HeadersHeld)
  BY DEF Held
<1> HIDE DEF Inv
<1> QED
  BY <1>1, <1>2, <1>3, PTL DEF BootSpec

-----------------------------------------------------------------------------
(* The segments and the sections.                                           *)

(* load_os has come to its end. *)
Done == step = "os" \/ (step = "deinit" /\ after = "os")

SegmentHolds(p) == Holds(p.vaddr, p.offset, p.filesz)

Zeroed(s) == Clears(s) => \A a \in s.addr .. (s.addr + s.size - 1) : Byte(mem, a) = Zero

(* Each segment is there, or the read at hand is for it; then all of them   *)
(* are, and the sections up to the one at hand are cleared; then all are.   *)
Loaded ==
    /\ step = "segments" => \A i \in DOMAIN Image.phdrs :
          i < index /\ Loads(Image.phdrs[i]) => SegmentHolds(Image.phdrs[i]) \/ Reading(Image.phdrs[i])
    /\ step \in {"shdrs", "sections"} \/ Done => \A i \in DOMAIN Image.phdrs :
          Loads(Image.phdrs[i]) => SegmentHolds(Image.phdrs[i])
    /\ step = "sections" => \A k \in DOMAIN Image.shdrs : k < index => Zeroed(Image.shdrs[k])
    /\ Done => lastOp = NoOp /\ \A k \in DOMAIN Image.shdrs : Zeroed(Image.shdrs[k])

(* At first nothing is loaded.                                              *)
LEMMA LoadedInit ==
    ASSUME BootInit
    PROVE  Loaded
<1>1. step = "init"
  BY DEF BootInit, LoaderInit
<1> QED
  BY <1>1 DEF Loaded, Done

(* What load_os does of the image.                                          *)
LEMMA SegmentIs ==
    ASSUME Placed, NEW i \in DOMAIN Image.phdrs
    PROVE  /\ i \in Nat
           /\ Image.phdrs[i] \in [load : BOOLEAN, offset : Nat, filesz : Nat, vaddr : Nat, memsz : Nat]
           /\ Image.phdrs[i].vaddr \in Nat /\ Image.phdrs[i].filesz \in Nat
           /\ WholeLines(Image.phdrs[i].filesz) \in Nat
           /\ Image.phdrs[i].filesz <= WholeLines(Image.phdrs[i].filesz)
<1> DEFINE p == Image.phdrs[i]
<1>1. /\ i \in Nat
      /\ p \in [load : BOOLEAN, offset : Nat, filesz : Nat, vaddr : Nat, memsz : Nat]
  <2>1. i \in Nat
    BY ImageIs
  <2>2. p \in [load : BOOLEAN, offset : Nat, filesz : Nat, vaddr : Nat, memsz : Nat]
    BY ImageIs
  <2> QED
    BY <2>1, <2>2
<1>2. p.vaddr \in Nat /\ p.filesz \in Nat
  BY <1>1
<1> HIDE DEF p
<1>3. WholeLines(p.filesz) \in Nat /\ p.filesz <= WholeLines(p.filesz)
  BY <1>2, WholeLinesIs
<1> QED
  BY <1>1, <1>2, <1>3 DEF p

(* The bytes of a segment, in the next state.                               *)
LEMMA SegmentThere ==
    ASSUME NEW i \in DOMAIN Image.phdrs, image' = image,
           \A b \in 0 .. (Image.phdrs[i].filesz - 1) :
              Byte(mem', Image.phdrs[i].vaddr + b) = OsFlashAddress + Image.phdrs[i].offset + b
    PROVE  SegmentHolds(Image.phdrs[i])'
<1>1. Image'.phdrs[i] = Image.phdrs[i]
  BY DEF Image
<1> DEFINE p == Image.phdrs[i]
<1>2. p' = p
  BY <1>1
<1>3. \A b \in 0 .. (p.filesz - 1) : Byte(mem', p.vaddr + b) = OsFlashAddress + p.offset + b
  OBVIOUS
<1> HIDE DEF p
<1>4. (SegmentHolds(p))'
  BY <1>2, <1>3 DEF SegmentHolds, Holds
<1> QED
  BY <1>4 DEF p

(* A read of another segment leaves a segment alone, ...                    *)
LEMMA SegmentOn ==
    ASSUME Driven, Fetch, Held, Placeable(Image), Plain(Image), [BootNext]_bootVars, ~Section,
           NEW i \in DOMAIN Image.phdrs, Loads(Image.phdrs[i]), SegmentHolds(Image.phdrs[i]),
           step \in {"segments", "shdrs", "sections"} \/ Done, Done => lastOp = NoOp,
           step = "segments" => ~Reading(Image.phdrs[i])
    PROVE  SegmentHolds(Image.phdrs[i])'
<1> DEFINE p == Image.phdrs[i]
<1>1. p.vaddr \in Nat /\ p.filesz \in Nat /\ WholeLines(p.filesz) \in Nat /\ p.filesz <= WholeLines(p.filesz)
  BY SegmentIs DEF Driven
<1>2. Apart(lastOp.to, WholeLines(lastOp.size), p.vaddr, p.filesz)
  <2>1. ASSUME lastOp = NoOp
        PROVE  Apart(lastOp.to, WholeLines(lastOp.size), p.vaddr, p.filesz)
    <3>1. WholeLines(lastOp.size) = 0
      BY <2>1, WholeLinesIs DEF NoOp
    <3> QED
      BY <3>1 DEF Apart
  <2>2. ASSUME step = "segments", lastOp # NoOp
        PROVE  Apart(lastOp.to, WholeLines(lastOp.size), p.vaddr, p.filesz)
    <3>1. PICK j \in DOMAIN Image.phdrs : Loads(Image.phdrs[j]) /\ Reading(Image.phdrs[j])
      BY <2>2 DEF Held
    <3>2. j # i
      BY <2>2, <3>1
    <3>3. Apart(Image.phdrs[j].vaddr, WholeLines(Image.phdrs[j].filesz), p.vaddr, p.filesz)
      BY <3>1, <3>2 DEF Plain
    <3> QED
      BY <3>1, <3>3 DEF Reading, Reads
  <2>3. ASSUME step = "shdrs"
        PROVE  Apart(lastOp.to, WholeLines(lastOp.size), p.vaddr, p.filesz)
    <3> DEFINE m == WholeLines(Shdr * Len(Image.shdrs))
    <3>1. lastOp.to = SectBuffer /\ WholeLines(lastOp.size) = m /\ GoodImage(Image)
      BY <2>3 DEF Held, Reads, Checked
    <3>2. m \in Nat /\ m <= BufferSize
      BY <3>1, HeadersFit DEF Driven
    <3>3. ClearOfLoader(p.vaddr, WholeLines(p.filesz))
      BY DEF Placeable
    <3> HIDE DEF m, p
    <3>4. Apart(SectBuffer, m, p.vaddr, WholeLines(p.filesz))
      BY <1>1, <3>1, <3>2, <3>3, ClearIs DEF Driven
    <3>5. Apart(SectBuffer, m, p.vaddr, p.filesz)
      BY <1>1, <3>2, <3>4, BuffersAre, ApartWithin
    <3> QED
      BY <3>1, <3>5
  <2> QED
    BY <2>1, <2>2, <2>3 DEF Held
<1>3. step # "init"
  BY DEF Done
<1>4. Holds(p.vaddr, p.offset, p.filesz)
  BY DEF SegmentHolds
<1> HIDE DEF p
<1>5. \A b \in 0 .. (p.filesz - 1) : Byte(mem', p.vaddr + b) = OsFlashAddress + p.offset + b
  BY <1>1, <1>2, <1>3, <1>4, HoldsOn DEF Driven
<1> QED
  BY <1>5, ImageKept, SegmentThere DEF p

(* ... and when the wait for its own read is over, it is there.             *)
LEMMA SegmentRead ==
    ASSUME Driven, Fetch, Plain(Image), [BootNext]_bootVars, WaitDone, step = "segments",
           NEW i \in DOMAIN Image.phdrs, Loads(Image.phdrs[i]), Reading(Image.phdrs[i])
    PROVE  SegmentHolds(Image.phdrs[i])'
<1> DEFINE p == Image.phdrs[i]
<1>1. /\ lastOp = [to |-> p.vaddr, size |-> p.filesz] /\ Source = OsFlashAddress + p.offset
      /\ p.filesz # 0
  BY DEF Reading, Reads, Loads
<1>2. 2 * (p.filesz % 16) <= 16
  BY BufferAssumption DEF Plain
<1> HIDE DEF p
<1>3. Fetching
  BY <1>1 DEF Fetching
<1>4. lastOp.size = p.filesz /\ lastOp.to = p.vaddr
  BY <1>1
<1>5. \A b \in 0 .. (lastOp.size - 1) : Byte(mem', lastOp.to + b) = Source + b
  BY <1>2, <1>3, <1>4, ReadDone DEF Driven
<1>6. \A b \in 0 .. (p.filesz - 1) : Byte(mem', p.vaddr + b) = OsFlashAddress + p.offset + b
  BY <1>1, <1>4, <1>5
<1> QED
  BY <1>6, ImageKept, SegmentThere DEF p

(* A cleared section stays clear.                                           *)
LEMMA ZeroedOn ==
    ASSUME Driven, Fetch, [BootNext]_bootVars, ~Section, lastOp = NoOp, step # "init",
           NEW k \in DOMAIN Image.shdrs, Zeroed(Image.shdrs[k])
    PROVE  Zeroed(Image.shdrs[k])'
<1> DEFINE s == Image.shdrs[k]
<1>1. Image' = Image
  BY ImageKept DEF Image
<1>2. Window = {}
  <2>1. WholeLines(lastOp.size) = 0 /\ lastOp.to = 0
    BY WholeLinesIs DEF NoOp
  <2> QED
    BY <2>1 DEF Window
<1>3. \A a : Byte(mem', a) = Byte(mem, a)
  BY <1>2, MemoryKept DEF Driven
<1>4. s' = s /\ (Clears(s))' = Clears(s)
  BY <1>1 DEF Clears
<1>5. Zeroed(s)
  OBVIOUS
<1> HIDE DEF s
<1>6. (Zeroed(s))'
  BY <1>3, <1>4, <1>5 DEF Zeroed
<1> QED
  BY <1>6 DEF s

(* Between the steps of load_os.                                            *)
LEMMA LoadedBetween ==
    ASSUME Driven, Fetch, Held, Loaded, Placeable(Image), Plain(Image), [BootNext]_bootVars,
           \/ StartTransaction
           \/ Clocks /\ UNCHANGED loaderVars
           \/ UNCHANGED bootVars
    PROVE  Loaded'
<1>1. UNCHANGED <<step, after, image, index, lastOp>> /\ Source' = Source
  BY SourceKept
<1>2. ~Section
  <2>1. Section => index' # index
    BY DEF Section, Driven, Placed
  <2> QED
    BY <1>1, <2>1
<1>3. Image' = Image /\ (Done' <=> Done)
  BY <1>1 DEF Image, Done
<1>4. ASSUME NEW i \in DOMAIN Image.phdrs, Loads(Image.phdrs[i]), SegmentHolds(Image.phdrs[i]),
             step \in {"segments", "shdrs", "sections"} \/ Done,
             step = "segments" => ~Reading(Image.phdrs[i])
      PROVE  SegmentHolds(Image.phdrs[i])'
  <2>1. Done => lastOp = NoOp
    BY DEF Loaded
  <2> QED
    BY <1>2, <1>4, <2>1, SegmentOn
<1>5. ASSUME NEW i \in DOMAIN Image.phdrs, Reading(Image.phdrs[i])
      PROVE  Reading(Image.phdrs[i])'
  BY <1>1, <1>3, <1>5 DEF Reading, Reads
<1>6. (step = "segments" => \A i \in DOMAIN Image.phdrs :
          i < index /\ Loads(Image.phdrs[i]) => SegmentHolds(Image.phdrs[i]) \/ Reading(Image.phdrs[i]))'
  <2> SUFFICES ASSUME step = "segments", NEW i \in DOMAIN Image.phdrs, i < index, Loads(Image.phdrs[i])
               PROVE  (SegmentHolds(Image.phdrs[i]))' \/ (Reading(Image.phdrs[i]))'
    BY <1>1, <1>3
  <2>1. SegmentHolds(Image.phdrs[i]) \/ Reading(Image.phdrs[i])
    BY DEF Loaded
  <2> QED
    BY <1>4, <1>5, <2>1
<1>7. (step \in {"shdrs", "sections"} \/ Done => \A i \in DOMAIN Image.phdrs :
          Loads(Image.phdrs[i]) => SegmentHolds(Image.phdrs[i]))'
  <2> SUFFICES ASSUME step \in {"shdrs", "sections"} \/ Done, NEW i \in DOMAIN Image.phdrs, Loads(Image.phdrs[i])
               PROVE  (SegmentHolds(Image.phdrs[i]))'
    BY <1>1, <1>3
  <2>1. SegmentHolds(Image.phdrs[i]) /\ step # "segments"
    BY DEF Loaded, Done
  <2> QED
    BY <1>4, <2>1
<1>8. ASSUME NEW k \in DOMAIN Image.shdrs, Zeroed(Image.shdrs[k]), step = "sections" \/ Done
      PROVE  Zeroed(Image.shdrs[k])'
  <2>1. lastOp = NoOp /\ step # "init"
    BY <1>8 DEF Held, Loaded, Done
  <2> QED
    BY <1>2, <1>8, <2>1, ZeroedOn
<1>9. (step = "sections" => \A k \in DOMAIN Image.shdrs : k < index => Zeroed(Image.shdrs[k]))'
  BY <1>1, <1>3, <1>8 DEF Loaded
<1>10. (Done => lastOp = NoOp /\ \A k \in DOMAIN Image.shdrs : Zeroed(Image.shdrs[k]))'
  BY <1>1, <1>3, <1>8 DEF Loaded
<1> QED
  BY <1>6, <1>7, <1>9, <1>10 DEF Loaded

(* The steps of init and deinit.                                            *)
LEMMA LoadedScript ==
    ASSUME Driven, Fetch, Held, Loaded, Placeable(Image), Plain(Image), [BootNext]_bootVars,
           NextInScript \/ EndOfScript
    PROVE  Loaded'
<1>1. /\ step \in {"init", "deinit"} /\ step' \in {"init", "start", "deinit", "os", "halted"}
      /\ UNCHANGED <<mem, lastOp, after>> /\ ~Section /\ Image' = Image
      /\ Done' => Done
  <2>1. CASE NextInScript
    BY <2>1 DEF NextInScript, Section, spiVars, cpuSide, Image, Done
  <2>2. CASE EndOfScript
    BY <2>2 DEF EndOfScript, Section, spiVars, cpuSide, Image, Done, Driven, Placed
  <2> QED
    BY <2>1, <2>2
<1>2. ASSUME Done PROVE \A i \in DOMAIN Image.phdrs : Loads(Image.phdrs[i]) => SegmentHolds(Image.phdrs[i])'
  BY <1>1, <1>2 DEF Loaded, SegmentHolds, Holds
<1>3. ASSUME Done PROVE \A k \in DOMAIN Image.shdrs : Zeroed(Image.shdrs[k])'
  <2> SUFFICES ASSUME NEW k \in DOMAIN Image.shdrs PROVE Zeroed(Image.shdrs[k])'
    OBVIOUS
  <2>1. Zeroed(Image.shdrs[k])
    BY <1>3 DEF Loaded
  <2>2. (Clears(Image.shdrs[k]))' = Clears(Image.shdrs[k])
    BY <1>1 DEF Clears
  <2> QED
    BY <1>1, <2>1, <2>2 DEF Zeroed
<1> QED
  BY <1>1, <1>2, <1>3 DEF Loaded

(* The steps of load_os.                                                    *)
LEMMA LoadedLoading ==
    ASSUME Driven, Fetch, Held, Loaded, Placeable(Image), Plain(Image), [BootNext]_bootVars,
           Loader, ~StartTransaction, ~NextInScript, ~EndOfScript
    PROVE  Loaded'
<1>1. Image' = Image
  BY ImageKept DEF Image
<1>2. /\ index \in Nat \ {0}
      /\ DOMAIN Image.phdrs = 1 .. Len(Image.phdrs) /\ Len(Image.phdrs) \in Nat
      /\ DOMAIN Image.shdrs = 1 .. Len(Image.shdrs) /\ Len(Image.shdrs) \in Nat
  <2>1. Placed
    BY DEF Driven
  <2> QED
    BY <2>1, ImageIs DEF Placed
<1>3. ASSUME NEW i \in DOMAIN Image.phdrs, Loads(Image.phdrs[i]), SegmentHolds(Image.phdrs[i]), ~Section,
             step \in {"segments", "shdrs", "sections"},
             step = "segments" => ~Reading(Image.phdrs[i])
      PROVE  SegmentHolds(Image.phdrs[i])'
  <2>1. Done => lastOp = NoOp
    BY DEF Loaded
  <2> QED
    BY <1>3, <2>1, SegmentOn
<1>4. ASSUME NEW i \in DOMAIN Image.phdrs, i < index, Loads(Image.phdrs[i]), ~Section, WaitDone, step = "segments"
      PROVE  SegmentHolds(Image.phdrs[i])'
  <2>1. SegmentHolds(Image.phdrs[i]) \/ Reading(Image.phdrs[i])
    BY <1>4 DEF Loaded
  <2>2. CASE Reading(Image.phdrs[i])
    BY <1>4, <2>2, SegmentRead
  <2>3. CASE ~Reading(Image.phdrs[i])
    BY <1>3, <1>4, <2>1, <2>3
  <2> QED
    BY <2>2, <2>3
<1>5. ASSUME NEW i \in DOMAIN Image.phdrs, Loads(Image.phdrs[i]), ~Section, step \in {"shdrs", "sections"}
      PROVE  SegmentHolds(Image.phdrs[i])'
  <2>1. SegmentHolds(Image.phdrs[i]) /\ step # "segments"
    BY <1>5 DEF Loaded
  <2> QED
    BY <1>3, <1>5, <2>1
<1> USE DEF Free, Idle
<1>6. CASE ReadHeader \/ CheckHeader
  <2>1. step' \in {"header", "phdrs"} \/ (step' = "deinit" /\ after' = "halted")
    BY <1>6 DEF ReadHeader, CheckHeader, Deinit
  <2> QED
    BY <2>1 DEF Loaded, Done
<1>7. CASE PhdrsRead
  <2>1. step' = "segments" /\ index' = 1
    BY <1>7 DEF PhdrsRead
  <2>2. ~Done'
    BY <2>1 DEF Done
  <2>3. \A i \in DOMAIN Image'.phdrs : ~(i < index')
    BY <1>1, <1>2, <2>1
  <2> QED
    BY <2>1, <2>2, <2>3 DEF Loaded
<1>8. CASE SkipSegment
  <2>1. step = "segments" /\ step' = step /\ index' = index + 1 /\ ~Loads(Image.phdrs[index]) /\ ~Section
        /\ UNCHANGED <<lastOp, txn, from>>
    BY <1>8 DEF SkipSegment, Section, spiVars, cpuSide
  <2>2. ASSUME NEW i \in DOMAIN Image.phdrs, i < index', Loads(Image.phdrs[i])
        PROVE  (SegmentHolds(Image.phdrs[i]))' \/ (Reading(Image.phdrs[i]))'
    <3>1. i < index
      <4>1. i # index
        BY <2>1, <2>2
      <4> QED
        BY <1>2, <2>1, <2>2, <4>1
    <3>2. CASE Reading(Image.phdrs[i])
      <4>1. Reading(Image.phdrs[i])'
        BY <1>1, <2>1, <3>2 DEF Reading, Reads, Source
      <4> QED
        BY <4>1
    <3>3. CASE ~Reading(Image.phdrs[i])
      <4>1. SegmentHolds(Image.phdrs[i])
        BY <2>1, <2>2, <3>1, <3>3 DEF Loaded
      <4> QED
        BY <1>3, <2>1, <2>2, <3>3, <4>1
    <3> QED
      BY <3>2, <3>3
  <2>3. ~Done'
    BY <2>1 DEF Done
  <2> QED
    BY <1>1, <2>1, <2>2, <2>3 DEF Loaded
<1>9. CASE LoadSegment
  <2>1. step = "segments" /\ step' = step /\ index' = index + 1 /\ ~Section /\ WaitDone
        /\ InitiateRead(OsFlashAddress + Image.phdrs[index].offset, Image.phdrs[index].filesz,
                        Image.phdrs[index].vaddr)
        /\ More(Image.phdrs)
    BY <1>9 DEF LoadSegment, Section
  <2>2. \A i : i = index => Reading(Image.phdrs[i])'
    <3>1. index \in DOMAIN Image.phdrs
      BY <1>2, <2>1 DEF More
    <3>2. Image.phdrs[index].filesz \in Nat /\ Image.phdrs[index].vaddr \in Nat
      BY <3>1, SegmentIs DEF Driven
    <3>3. /\ lastOp' = [to |-> Image.phdrs[index].vaddr, size |-> Image.phdrs[index].filesz]
          /\ Source' = OsFlashAddress + Image.phdrs[index].offset
      BY <2>1, <3>2, ReadsAsked
    <3> QED
      BY <1>1, <3>3 DEF Reading, Reads
  <2>3. ASSUME NEW i \in DOMAIN Image.phdrs, i < index', Loads(Image.phdrs[i])
        PROVE  (SegmentHolds(Image.phdrs[i]))' \/ (Reading(Image.phdrs[i]))'
    <3>1. CASE i = index
      BY <2>2, <3>1
    <3>2. CASE i # index
      <4>1. i < index
        BY <1>2, <2>1, <2>3, <3>2
      <4> QED
        BY <1>4, <2>1, <2>3, <4>1
    <3> QED
      BY <3>1, <3>2
  <2>4. ~Done'
    BY <2>1 DEF Done
  <2> QED
    BY <1>1, <2>1, <2>3, <2>4 DEF Loaded
<1>10. CASE ReadSections
  <2>1. step = "segments" /\ step' = "shdrs" /\ ~Section /\ WaitDone /\ ~More(Image.phdrs)
    BY <1>10 DEF ReadSections, Section
  <2>2. ASSUME NEW i \in DOMAIN Image.phdrs, Loads(Image.phdrs[i])
        PROVE  SegmentHolds(Image.phdrs[i])'
    <3>1. i < index
      BY <1>2, <2>1 DEF More
    <3> QED
      BY <1>4, <2>1, <2>2, <3>1
  <2>3. ~Done'
    BY <2>1 DEF Done
  <2> QED
    BY <1>1, <2>1, <2>2, <2>3 DEF Loaded
<1>11. CASE SectionsRead
  <2>1. step = "shdrs" /\ step' = "sections" /\ index' = 1 /\ ~Section
    BY <1>11 DEF SectionsRead, Section
  <2>2. ~Done'
    BY <2>1 DEF Done
  <2>3. \A k \in DOMAIN Image'.shdrs : ~(k < index')
    BY <1>1, <1>2, <2>1
  <2>4. \A i \in DOMAIN Image.phdrs : Loads(Image.phdrs[i]) => SegmentHolds(Image.phdrs[i])'
    BY <1>5, <2>1
  <2> QED
    BY <1>1, <2>1, <2>2, <2>3, <2>4 DEF Loaded
<1>12. CASE Section
  <2> DEFINE s == Image.shdrs[index]
  <2>1. step = "sections" /\ step' = step /\ index' = index + 1
    BY <1>12 DEF Section
  <2>2. ~Done'
    BY <2>1 DEF Done
  <2>3. /\ s.addr \in Nat /\ s.size \in Nat /\ index \in DOMAIN Image.shdrs
        /\ Clears(s) => \A a \in s.addr .. (s.addr + WholeWords(s) - 1) : Byte(mem', a) = Zero
        /\ \A a : Byte(mem', a) = Byte(mem, a) \/ Byte(mem', a) = Zero
    BY <1>12, ClearedIs DEF Driven
  <2>4. ASSUME NEW i \in DOMAIN Image.phdrs, Loads(Image.phdrs[i])
        PROVE  SegmentHolds(Image.phdrs[i])'
    <3> DEFINE p == Image.phdrs[i]
    <3>1. p.vaddr \in Nat /\ p.filesz \in Nat
      BY SegmentIs DEF Driven
    <3>2. Image.shdrs[index].nobits =>
              Apart(Image.shdrs[index].addr, WholeWords(Image.shdrs[index]), p.vaddr, p.filesz)
      BY <2>3, <2>4 DEF Plain
    <3>3. Holds(p.vaddr, p.offset, p.filesz)
      BY <2>1, <2>4 DEF Loaded, SegmentHolds
    <3> HIDE DEF p
    <3>4. \A b \in 0 .. (p.filesz - 1) : Byte(mem', p.vaddr + b) = OsFlashAddress + p.offset + b
      BY <1>12, <3>1, <3>2, <3>3, HoldsOnCleared DEF Driven
    <3> QED
      BY <3>4, ImageKept, SegmentThere DEF p
  <2>5. ASSUME NEW k \in DOMAIN Image.shdrs, k < index'
        PROVE  Zeroed(Image.shdrs[k])'
    <3> DEFINE t == Image.shdrs[k]
    <3>1. (Clears(t))' = Clears(t) /\ t' = t
      BY <1>1 DEF Clears
    <3>2. ASSUME Clears(t), NEW a \in t.addr .. (t.addr + t.size - 1)
          PROVE  Byte(mem', a) = Zero
      <4>1. CASE k = index
        <5>1. a \in s.addr .. (s.addr + s.size - 1) /\ Clears(s)
          BY <3>2, <4>1
        <5> HIDE DEF s
        <5>2. a \in s.addr .. (s.addr + WholeWords(s) - 1)
          BY <2>3, <5>1 DEF WholeWords
        <5> QED
          BY <2>3, <5>1, <5>2
      <4>2. CASE k # index
        <5>1. k < index
          BY <1>2, <2>1, <2>5, <4>2
        <5>2. Byte(mem, a) = Zero
          BY <2>1, <3>2, <5>1 DEF Loaded, Zeroed
        <5> QED
          BY <2>3, <5>2
      <4> QED
        BY <4>1, <4>2
    <3> HIDE DEF t
    <3>3. (Zeroed(t))'
      BY <3>1, <3>2 DEF Zeroed
    <3> QED
      BY <3>3 DEF t
  <2> QED
    BY <1>1, <2>1, <2>2, <2>4, <2>5 DEF Loaded
<1>13. CASE OsIsLoaded
  <2>1. step = "sections" /\ step' = "deinit" /\ lastOp' = NoOp /\ ~Section /\ ~More(Image.shdrs)
    BY <1>13 DEF OsIsLoaded, Deinit, Section
  <2>2. ASSUME NEW k \in DOMAIN Image.shdrs
        PROVE  Zeroed(Image.shdrs[k])'
    <3>1. k < index
      BY <1>2, <2>1 DEF More
    <3>2. Zeroed(Image.shdrs[k])
      BY <2>1, <3>1 DEF Loaded
    <3>3. lastOp = NoOp /\ step # "init"
      BY <2>1 DEF Held
    <3> QED
      BY <2>1, <3>2, <3>3, ZeroedOn
  <2>3. \A i \in DOMAIN Image.phdrs : Loads(Image.phdrs[i]) => SegmentHolds(Image.phdrs[i])'
    BY <1>5, <2>1
  <2> QED
    BY <1>1, <2>1, <2>2, <2>3 DEF Loaded
<1> QED
  BY <1>6, <1>7, <1>8, <1>9, <1>10, <1>11, <1>12, <1>13 DEF Loader

(* What there is when the boot loader jumps.                                *)
LEMMA LoadedIsThere ==
    ASSUME Driven, Loaded
    PROVE  OsLoaded
<1> SUFFICES ASSUME step = "os", NEW j \in DOMAIN Image.phdrs, Image.phdrs[j].load
             PROVE  LET p == Image.phdrs[j] IN
                    /\ Holds(p.vaddr, p.offset, p.filesz)
                    /\ \A b \in p.filesz .. (p.memsz - 1) :
                        (\E k \in DOMAIN Image.shdrs :
                            LET s == Image.shdrs[k] IN
                            s.nobits /\ Within(s, p) /\ p.vaddr + b \in s.addr .. (s.addr + s.size - 1))
                        => Byte(mem, p.vaddr + b) = Zero
  BY DEF OsLoaded
<1> DEFINE p == Image.phdrs[j]
<1>1. Done
  BY DEF Done
<1>2. Holds(p.vaddr, p.offset, p.filesz)
  <2>1. CASE p.filesz = 0
    BY <2>1 DEF Holds
  <2>2. CASE p.filesz # 0
    <3>1. Loads(p)
      BY <2>2 DEF Loads
    <3> QED
      BY <1>1, <3>1 DEF Loaded, SegmentHolds
  <2> QED
    BY <2>1, <2>2
<1>3. ASSUME NEW b \in p.filesz .. (p.memsz - 1), NEW k \in DOMAIN Image.shdrs,
             Image.shdrs[k].nobits, Within(Image.shdrs[k], p),
             p.vaddr + b \in Image.shdrs[k].addr .. (Image.shdrs[k].addr + Image.shdrs[k].size - 1)
      PROVE  Byte(mem, p.vaddr + b) = Zero
  <2>1. Clears(Image.shdrs[k])
    BY <1>3 DEF Clears
  <2> QED
    BY <1>1, <1>3, <2>1 DEF Loaded, Zeroed
<1> QED
  BY <1>2, <1>3

(* When the boot loader jumps to the operating system, every byte of a      *)
(* segment that the file has is in its place, and every byte that only the  *)
(* memory has, and that a NOBITS section covers, is zero                    *)
(* (elf_reader.cpp:108, 140; spi.cpp:29): for every image that keeps clear  *)
(* of the loader's own memory, and whose segments overlap nothing and end   *)
(* with at most half a line.                                                *)
THEOREM SystemLoaded == BootSpec => [](Placeable(Image) /\ Plain(Image) => OsLoaded)
<1> DEFINE Inv == /\ Driven
                  /\ Placeable(Image) => Fetch /\ Held
                  /\ Placeable(Image) /\ Plain(Image) => Loaded
<1>1. BootInit => Inv
  BY DrivenInit, FetchInit, HeldInit, LoadedInit
<1>2. Inv /\ [BootNext]_bootVars => Inv'
  <2> SUFFICES ASSUME Inv, [BootNext]_bootVars PROVE Inv'
    OBVIOUS
  <2>1. Driven'
    BY DrivenNext
  <2>2. image' = image
    BY ImageKept
  <2>3. (Placeable(Image)' <=> Placeable(Image)) /\ (Plain(Image)' <=> Plain(Image))
    BY <2>2 DEF Placeable, Plain, Image
  <2>4. ASSUME Placeable(Image) PROVE Fetch' /\ Held'
    BY <2>4, FetchNext, HeldNext DEF Driven
  <2>5. ASSUME Placeable(Image), Plain(Image) PROVE Loaded'
    <3>1. Fetch /\ Held /\ Loaded
      BY <2>5
    <3> QED
      BY <2>5, <3>1, LoadedBetween, LoadedScript, LoadedLoading DEF BootNext
  <2> QED
    BY <2>1, <2>3, <2>4, <2>5
<1>3. Inv => (Placeable(Image) /\ Plain(Image) => OsLoaded)
  BY LoadedIsThere
<1> HIDE DEF Inv
<1> QED
  BY <1>1, <1>2, <1>3, PTL DEF BootSpec

=============================================================================
