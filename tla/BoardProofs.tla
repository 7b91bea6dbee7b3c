---------------------------- MODULE BoardProofs ----------------------------
(***************************************************************************)
(* Four parts of the board, which share nothing.  The data bus (Bus): every *)
(* load gets its own answer, and the halves of the clock belong together,   *)
(* for any interrupt lines, cache lines, words and clock.  The display      *)
(* (Display): the picture is shown whole and at its place, for any picture, *)
(* screen and burst.  The command line of the SD card (Frames): crc.sv      *)
(* divides, and finds every burst, for any command and any reply.  The      *)
(* files (Files): the text files of a sound card are sent whole and in      *)
(* order, for any cards and any sizes of their clusters.                    *)
(***************************************************************************)
EXTENDS Bus, Display, Frames, Files, SequenceTheorems, FiniteSetTheorems, WellFoundedInduction, TLAPS

-----------------------------------------------------------------------------
(* The invariant.  What the memory stage waits for is what io_block, the    *)
(* memory, the devices and the interrupt controller are about to answer.    *)

WellFormed(c) ==
    /\ c.write \in BOOLEAN
    /\ c.who \in Who
    /\ \/ c.port = "ddr" /\ c.reg \in MemLines \X Words
       \/ c.port = "slow" /\ c.reg = "slow"
       \/ c.port = "none" /\ c.reg = "none"
       \/ c.port = "gpio" /\ c.reg = "in"
       \/ c.port = "int"

Commands ==
    /\ cmd = NoCmd \/ WellFormed(cmd)
    /\ load = NoCmd \/ (WellFormed(load) /\ ~load.write)

Waits ==
    /\ pending = (load # NoCmd)
    /\ load # NoCmd => load.port = port
    /\ load.port = "ddr" => load.reg = <<ddr, segment>> /\ ddr # "idle"
    /\ load.port = "slow" => slow = "slow"
    /\ load.port = "gpio" => gpio
    /\ load.port = "int" => prevValid /\ pendingAddr = load.reg

Flow ==
    /\ pc \in {"run", "halt", "lo", "hi", "setHigh", "setLow", "leave", "active", "serve", "trapped"}
    /\ back \in {"none", "run", "halt"}
    /\ pc \notin {"run", "halt", "trapped"} => mie = FALSE
    /\ DOMAIN clock = Who /\ clock = [w \in Who |-> clock[w]]

(* The high half that goes with what w has read of the clock is latched,    *)
(* and no answer on its way latches another.                                *)
Fresh(w) == saved = clock[w] \div Low /\ (prevValid => pendingAddr \notin {"halt", "lo"})

Is(c, reg) == c.port = "int" /\ c.reg = reg

Halves ==
    /\ pc = "lo" => cmd = NoCmd /\ load = NoCmd
    /\ pc = "hi" => \/ Is(cmd, "lo") /\ load = NoCmd /\ cmd.who = Now
                    \/ cmd = NoCmd /\ Is(load, "lo") /\ load.who = Now
                    \/ cmd = NoCmd /\ load = NoCmd /\ Fresh(Now)
    /\ Is(cmd, "lo") => pc = "hi" /\ ~cmd.write
    /\ Is(load, "lo") => pc = "hi" \/ (Is(cmd, "hi") /\ cmd.who = load.who)
    /\ Is(cmd, "hi") => ~cmd.write /\ \/ Is(load, "lo") /\ load.who = cmd.who
                                      \/ load = NoCmd /\ Fresh(cmd.who)
    /\ Is(load, "hi") => Fresh(load.who)

Compare ==
    /\ pc = "setLow" => \/ Is(cmd, "compareHigh") /\ cmd.write /\ cmd.data = {Now}
                        \/ ~Is(cmd, "compareHigh") /\ compareHigh = {Now}
    /\ Is(cmd, "compareLow") => cmd.data = compareHigh

BusInv == Commands /\ Waits /\ Flow /\ Halves /\ Compare /\ wrong = {}

-----------------------------------------------------------------------------
(* The initial states. *)
LEMMA BusStarts == BusInit => BusInv
<1> SUFFICES ASSUME BusInit PROVE BusInv
  OBVIOUS
<1>1. Commands /\ Waits
  BY DEF BusInit, Commands, Waits, NoCmd
<1>2. Flow
  BY DEF BusInit, Flow
<1>3. Halves /\ Compare
  BY DEF BusInit, Halves, Compare, Is, NoCmd
<1> QED
  BY <1>1, <1>2, <1>3 DEF BusInv, BusInit

-----------------------------------------------------------------------------
(* An answer that a load waits for is its own (io_block.sv:66, 132). *)
LEMMA Own ==
    ASSUME BusInv, NEW ready, NEW expired, NEW rsp \in Responses(ready, expired),
           load # NoCmd, rsp # NoAnswer
    PROVE  rsp = Answer(load.port, load.reg)
<1>1. pending /\ load.port = port /\ WellFormed(load)
  BY DEF BusInv, Waits, Commands
<1>2. CASE port = "none"
  BY <1>1, <1>2 DEF Responses, WellFormed
<1>3. CASE port = "ddr"
  BY <1>1, <1>3 DEF Responses, BusInv, Waits
<1>4. CASE port = "slow"
  BY <1>1, <1>4 DEF Responses, BusInv, Waits, WellFormed
<1>5. CASE port = "gpio"
  BY <1>1, <1>5 DEF Responses, BusInv, Waits, WellFormed
<1>6. CASE port = "int"
  BY <1>1, <1>6 DEF Responses, BusInv, Waits
<1> QED
  BY <1>1, <1>2, <1>3, <1>4, <1>5, <1>6 DEF WellFormed

(* A load that is not answered keeps what it waits for. *)
LEMMA StillWaits ==
    ASSUME BusInv, NEW ready, NEW expired, NEW rsp \in Responses(ready, expired),
           load # NoCmd, rsp = NoAnswer,
           Slaves(rsp, FALSE), IntCtrl(FALSE, expired)
    PROVE  /\ load.port = "ddr" => load.reg = <<ddr', segment'>> /\ ddr' # "idle"
           /\ load.port = "slow" => slow' = "slow"
           /\ load.port # "gpio" /\ load.port # "none"
           /\ load.port = "int" => prevValid' /\ pendingAddr' = load.reg
           /\ load.port = "int" => ~IntAnswers(expired)
<1>1. pending /\ load.port = port /\ rsp.port = "no"
  BY DEF BusInv, Waits, NoAnswer, Answer
<1>2. load.port = "ddr" => load.reg = <<ddr', segment'>> /\ ddr' # "idle"
  BY <1>1 DEF BusInv, Waits, Slaves
<1>3. load.port = "slow" => slow' = "slow"
  BY <1>1 DEF BusInv, Waits, Slaves
<1>4. load.port # "gpio" /\ load.port # "none"
  BY <1>1 DEF BusInv, Waits, Responses, NoAnswer, Answer
<1>5. load.port = "int" => ~IntAnswers(expired)
  BY <1>1 DEF BusInv, Waits, Responses, NoAnswer, Answer
<1>6. load.port = "int" => prevValid' /\ pendingAddr' = load.reg
  BY <1>5 DEF BusInv, Waits, IntCtrl
<1> QED
  BY <1>2, <1>3, <1>4, <1>5, <1>6

-----------------------------------------------------------------------------
(* A cycle of the clock.  The hypotheses of the lemmas are one cycle with    *)
(* its choices made.                                                        *)
LEMMA CycleWaits ==
    ASSUME BusInv, NEW ready, NEW expired, NEW acks, NEW rsp \in Responses(ready, expired),
           IoBlock(rsp, Taken(rsp, acks)), Slaves(rsp, Taken(rsp, acks)),
           IntCtrl(Taken(rsp, acks), expired), Hart(rsp, Taken(rsp, acks))
    PROVE  Commands' /\ Waits'
<1> DEFINE taken == Taken(rsp, acks)
<1>1. Commands'
  <2>1. cmd' = NoCmd \/ cmd' = cmd
    BY DEF Hart
  <2>2. \/ load' = NoCmd
        \/ load' = load
        \/ load' = cmd /\ cmd # NoCmd /\ ~cmd.write
    BY DEF Hart, Taken
  <2> QED
    BY <2>1, <2>2 DEF BusInv, Commands, WellFormed
<1>2. CASE taken /\ ~cmd.write
  <2>1. WellFormed(cmd) /\ cmd # NoCmd
    BY <1>2 DEF Taken, BusInv, Commands
  <2>2. load' = cmd /\ pending' = TRUE /\ port' = cmd.port
    BY <1>2, <2>1 DEF Hart, IoBlock
  <2>3. cmd.port = "ddr" => cmd.reg = <<ddr', segment'>> /\ ddr' # "idle"
    BY <1>2, <2>1, BusAssumption DEF Slaves, WellFormed
  <2>4. cmd.port = "slow" => slow' = "slow"
    BY <1>2, <2>1 DEF Slaves, WellFormed
  <2>5. cmd.port = "gpio" => gpio'
    BY <1>2, <2>1 DEF Slaves
  <2>6. cmd.port = "int" => prevValid' /\ pendingAddr' = cmd.reg
    BY <1>2, <2>1 DEF IntCtrl
  <2>7. Waits'
    BY <2>1, <2>2, <2>3, <2>4, <2>5, <2>6 DEF Waits
  <2> QED
    BY <1>1, <2>7
<1>3. CASE taken /\ cmd.write
  <2>1. WellFormed(cmd) /\ (load # NoCmd => rsp # NoAnswer)
    BY <1>3 DEF Taken, BusInv, Commands
  <2>2. load' = NoCmd /\ pending' = FALSE
    BY <1>3, <2>1 DEF Hart, IoBlock, WellFormed
  <2> QED
    BY <1>1, <2>2 DEF Waits, NoCmd
<1>4. CASE ~taken /\ load # NoCmd /\ rsp # NoAnswer
  <2>1. load' = NoCmd /\ pending' = FALSE
    BY <1>4 DEF Hart, IoBlock
  <2> QED
    BY <1>1, <2>1 DEF Waits, NoCmd
<1>5. CASE ~taken /\ load # NoCmd /\ rsp = NoAnswer
  <2>1. taken = FALSE
    BY <1>5 DEF Taken
  <2>2. load' = load /\ pending' = TRUE /\ port' = port
    BY <1>5 DEF Hart, IoBlock, BusInv, Waits
  <2>3. Slaves(rsp, FALSE) /\ IntCtrl(FALSE, expired)
    BY <2>1
  <2>4. /\ load.port = "ddr" => load.reg = <<ddr', segment'>> /\ ddr' # "idle"
        /\ load.port = "slow" => slow' = "slow"
        /\ load.port # "gpio"
        /\ load.port = "int" => prevValid' /\ pendingAddr' = load.reg
    BY <1>5, <2>3, StillWaits
  <2>5. load.port = port
    BY <1>5 DEF BusInv, Waits
  <2>6. Waits'
    BY <1>5, <2>2, <2>4, <2>5 DEF Waits
  <2> QED
    BY <1>1, <2>6
<1>6. CASE ~taken /\ load = NoCmd
  <2>1. load' = NoCmd /\ pending' = FALSE
    BY <1>6 DEF Hart, IoBlock, BusInv, Waits
  <2> QED
    BY <1>1, <2>1 DEF Waits, NoCmd
<1> QED
  BY <1>2, <1>3, <1>4, <1>5, <1>6

(* A cycle of the bus does not move the program.                            *)
LEMMA CycleFlow ==
    ASSUME BusInv, NEW rsp, NEW taken \in BOOLEAN, Hart(rsp, taken)
    PROVE  Flow'
<1>1. DOMAIN clock' = Who /\ clock' = [w \in Who |-> clock'[w]]
  <2>1. DOMAIN clock = Who /\ clock = [w \in Who |-> clock[w]]
    BY DEF BusInv, Flow
  <2>2. clock' = clock \/ \E w, v : clock' = [clock EXCEPT ![w] = v]
    BY DEF Hart
  <2> QED
    BY <2>1, <2>2
<1> QED
  BY <1>1 DEF BusInv, Flow, Hart

(* A load of the low half latches the high half that goes with it, and no   *)
(* other answer to a load of the clock does (timer_int_ctrl.sv:31).         *)
LEMMA LowLatches ==
    ASSUME BusInv, NEW ready, NEW expired, NEW acks, NEW rsp \in Responses(ready, expired),
           IntCtrl(Taken(rsp, acks), expired), Hart(rsp, Taken(rsp, acks)),
           Is(load, "lo"), rsp # NoAnswer
    PROVE  saved' = clock'[load.who] \div Low
<1>1. load # NoCmd /\ load.who \in Who /\ load.port = "int" /\ load.reg = "lo"
  BY DEF BusInv, Commands, WellFormed, Is, NoCmd
<1>2. rsp = Answer("int", "lo")
  BY <1>1, Own
<1>3. port = "int" /\ pending /\ prevValid /\ pendingAddr = "lo"
  BY <1>1 DEF BusInv, Waits
<1>4. SavesHigh(expired)
  BY <1>3 DEF SavesHigh, IntAnswers
<1>5. saved' = counter \div Low
  BY <1>4 DEF IntCtrl
<1>6. clock'[load.who] = counter
  BY <1>1, <1>2 DEF Hart, BusInv, Flow
<1> QED
  BY <1>5, <1>6

(* While no load waits, or one for the high half does, nothing is latched.  *)
LEMMA NothingLatched ==
    ASSUME BusInv, NEW ready, NEW expired, NEW acks, NEW rsp \in Responses(ready, expired),
           IntCtrl(Taken(rsp, acks), expired), Hart(rsp, Taken(rsp, acks)),
           NEW w \in Who, Fresh(w),
           load = NoCmd \/ rsp = NoAnswer
    PROVE  saved' = clock'[w] \div Low
<1>1. clock' = clock
  BY DEF Hart
<1>2. ~SavesHigh(expired)
  BY DEF SavesHigh, IntAnswers, Fresh
<1>3. saved' = saved
  BY <1>2 DEF IntCtrl
<1> QED
  BY <1>1, <1>3 DEF Fresh

(* No answer of a cycle latches another half of the clock.                  *)
LEMMA CycleHalves ==
    ASSUME BusInv, NEW ready, NEW expired, NEW acks, NEW rsp \in Responses(ready, expired),
           IntCtrl(Taken(rsp, acks), expired), Hart(rsp, Taken(rsp, acks))
    PROVE  Halves'
<1> DEFINE taken == Taken(rsp, acks)
           got == load # NoCmd /\ rsp # NoAnswer
           FreshNow(w) == saved' = clock'[w] \div Low /\ (prevValid' => pendingAddr' \notin {"halt", "lo"})
<1>1. Now' = Now /\ Now \in Who
  BY DEF Hart, Now, Who
<1>2. /\ cmd' = NoCmd \/ (cmd' = cmd /\ ~taken)
      /\ taken => cmd # NoCmd /\ cmd' = NoCmd /\ (load # NoCmd => got)
      /\ load' = IF taken /\ ~cmd.write THEN cmd ELSE IF got THEN NoCmd ELSE load
      /\ pc' \in {pc, "trapped"}
      /\ ~got => pc' = pc
      /\ ~taken /\ (~got \/ pc' # "trapped") => cmd' = cmd
  BY DEF Hart, Taken
<1>3. ~got => load = NoCmd \/ rsp = NoAnswer
  OBVIOUS
<1>4. ~Is(NoCmd, "lo") /\ ~Is(NoCmd, "hi")
  BY DEF Is, NoCmd
<1>5. \A c : ~(Is(c, "lo") /\ Is(c, "hi"))
  BY DEF Is
<1>6. cmd # NoCmd => WellFormed(cmd)
  BY DEF BusInv, Commands
<1>7. load # NoCmd => WellFormed(load)
  BY DEF BusInv, Commands
<1>8. ASSUME ~(taken /\ cmd.port = "int"), ~(prevValid /\ ~IntAnswers(expired) /\ pendingAddr \in {"halt", "lo"})
      PROVE  prevValid' => pendingAddr' \notin {"halt", "lo"}
  BY <1>8 DEF IntCtrl
<1>9. ASSUME Is(load, "lo"), got
      PROVE  prevValid /\ IntAnswers(expired)
  BY <1>9 DEF BusInv, Waits, Is, IntAnswers
<1>10. ASSUME taken, Is(cmd, "hi")
       PROVE  pendingAddr' = "hi"
  BY <1>10, <1>6, <1>2 DEF IntCtrl, Is, BusInv, Halves
<1>11. ASSUME NEW w \in Who, Fresh(w), ~taken, ~got
       PROVE  FreshNow(w)
  <2>1. saved' = clock'[w] \div Low
    BY <1>3, <1>11, NothingLatched
  <2>2. prevValid' => pendingAddr' \notin {"halt", "lo"}
    BY <1>8, <1>11 DEF Fresh
  <2> QED
    BY <2>1, <2>2 DEF Fresh
<1>12. ASSUME Is(load, "lo"), got, ~taken
       PROVE  FreshNow(load.who)
  <2>1. saved' = clock'[load.who] \div Low
    BY <1>12, LowLatches
  <2>2. prevValid' => pendingAddr' \notin {"halt", "lo"}
    BY <1>8, <1>9, <1>12
  <2>3. load.who \in Who
    BY <1>7, <1>12 DEF WellFormed
  <2> QED
    BY <2>1, <2>2 DEF Fresh
<1>13. pc' = "lo" => cmd' = NoCmd /\ load' = NoCmd
  BY <1>2 DEF BusInv, Halves
<1>14. pc' = "hi" => \/ Is(cmd', "lo") /\ load' = NoCmd /\ cmd'.who = Now
                     \/ cmd' = NoCmd /\ Is(load', "lo") /\ load'.who = Now
                     \/ cmd' = NoCmd /\ load' = NoCmd /\ FreshNow(Now)
  <2> SUFFICES ASSUME pc' = "hi"
               PROVE  \/ Is(cmd', "lo") /\ load' = NoCmd /\ cmd'.who = Now
                      \/ cmd' = NoCmd /\ Is(load', "lo") /\ load'.who = Now
                      \/ cmd' = NoCmd /\ load' = NoCmd /\ FreshNow(Now)
    OBVIOUS
  <2>0. pc = "hi" /\ pc' = pc
    BY <1>2
  <2>1. CASE Is(cmd, "lo") /\ load = NoCmd /\ cmd.who = Now
    <3>1. ~cmd.write
      BY <2>1 DEF BusInv, Halves
    <3> QED
      BY <1>2, <2>0, <2>1, <3>1
  <2>2. CASE cmd = NoCmd /\ Is(load, "lo") /\ load.who = Now
    BY <1>1, <1>2, <1>12, <2>0, <2>2
  <2>3. CASE cmd = NoCmd /\ load = NoCmd /\ Fresh(Now)
    <3>1. ~taken /\ ~got
      BY <1>2, <2>3
    <3>2. FreshNow(Now)
      BY <1>1, <1>11, <2>3, <3>1 DEF Fresh
    <3> QED
      BY <1>2, <2>3, <3>1, <3>2
  <2> QED
    BY <2>0, <2>1, <2>2, <2>3 DEF BusInv, Halves
<1>15. Is(cmd', "lo") => pc' = "hi" /\ ~cmd'.write
  <2> SUFFICES ASSUME Is(cmd', "lo") PROVE pc' = "hi" /\ ~cmd'.write
    OBVIOUS
  <2>1. cmd' = cmd /\ pc = "hi" /\ ~cmd.write
    BY <1>2, <1>4 DEF BusInv, Halves
  <2>2. load = NoCmd
    BY <1>2, <1>4, <2>1 DEF BusInv, Halves
  <2> QED
    BY <1>2, <2>1, <2>2
<1>16. Is(load', "lo") => pc' = "hi" \/ (Is(cmd', "hi") /\ cmd'.who = load'.who)
  <2> SUFFICES ASSUME Is(load', "lo")
               PROVE  pc' = "hi" \/ (Is(cmd', "hi") /\ cmd'.who = load'.who)
    OBVIOUS
  <2>1. CASE taken /\ ~cmd.write
    <3>1. Is(cmd, "lo") /\ cmd # NoCmd
      BY <1>2, <2>1
    <3>2. pc = "hi" /\ load = NoCmd
      BY <1>4, <3>1 DEF BusInv, Halves
    <3> QED
      BY <1>2, <3>2
  <2>2. CASE ~(taken /\ ~cmd.write)
    <3>1. load' = load /\ ~got /\ load # NoCmd /\ ~taken /\ pc' = pc /\ cmd' = cmd
      BY <1>2, <1>4, <2>2
    <3> QED
      BY <3>1 DEF BusInv, Halves
  <2> QED
    BY <2>1, <2>2
<1>17. Is(cmd', "hi") => /\ ~cmd'.write
                         /\ \/ Is(load', "lo") /\ load'.who = cmd'.who
                            \/ load' = NoCmd /\ FreshNow(cmd'.who)
  <2> SUFFICES ASSUME Is(cmd', "hi")
               PROVE  /\ ~cmd'.write
                      /\ \/ Is(load', "lo") /\ load'.who = cmd'.who
                         \/ load' = NoCmd /\ FreshNow(cmd'.who)
    OBVIOUS
  <2>1. cmd' = cmd /\ ~taken /\ cmd # NoCmd /\ ~cmd.write /\ cmd.who \in Who
    BY <1>2, <1>4, <1>6 DEF BusInv, Halves, WellFormed
  <2>2. CASE Is(load, "lo") /\ load.who = cmd.who
    <3>1. CASE got
      <4>1. FreshNow(load.who)
        BY <1>12, <2>1, <2>2, <3>1
      <4>2. load' = NoCmd
        BY <1>2, <2>1, <3>1
      <4>3. saved' = clock'[cmd.who] \div Low /\ (prevValid' => pendingAddr' \notin {"halt", "lo"})
        BY <1>8, <1>9, <2>1, <2>2, <3>1, LowLatches
      <4> QED
        BY <2>1, <4>2, <4>3 DEF Fresh
    <3>2. CASE ~got
      BY <1>2, <2>1, <2>2, <3>2
    <3> QED
      BY <3>1, <3>2
  <2>3. CASE load = NoCmd /\ Fresh(cmd.who)
    <3>1. load' = NoCmd
      BY <1>2, <2>1, <2>3
    <3>2. saved' = clock'[cmd.who] \div Low
      BY <2>1, <2>3, NothingLatched
    <3>3. prevValid' => pendingAddr' \notin {"halt", "lo"}
      BY <1>8, <2>1, <2>3 DEF Fresh
    <3> QED
      BY <2>1, <3>1, <3>2, <3>3 DEF Fresh
  <2> QED
    BY <2>1, <2>2, <2>3 DEF BusInv, Halves
<1>18. Is(load', "hi") => FreshNow(load'.who)
  <2> SUFFICES ASSUME Is(load', "hi") PROVE FreshNow(load'.who)
    OBVIOUS
  <2>1. CASE taken /\ ~cmd.write
    <3>1. load' = cmd /\ Is(cmd, "hi") /\ cmd.who \in Who
      BY <1>2, <1>6, <2>1 DEF WellFormed
    <3>2. saved' = clock'[cmd.who] \div Low
      <4>1. CASE Is(load, "lo") /\ load.who = cmd.who
        BY <1>2, <1>4, <2>1, <4>1, LowLatches
      <4>2. CASE load = NoCmd /\ Fresh(cmd.who)
        BY <3>1, <4>2, NothingLatched
      <4> QED
        BY <3>1, <4>1, <4>2 DEF BusInv, Halves
    <3>3. pendingAddr' = "hi"
      BY <1>10, <2>1, <3>1
    <3> QED
      BY <3>1, <3>2, <3>3 DEF Fresh
  <2>2. CASE ~(taken /\ ~cmd.write)
    <3>1. load' = load /\ ~got /\ load # NoCmd /\ ~taken
      BY <1>2, <1>4, <2>2
    <3>2. Fresh(load.who) /\ load.who \in Who
      BY <1>7, <3>1 DEF BusInv, Halves, WellFormed
    <3>3. saved' = clock'[load.who] \div Low
      BY <1>3, <3>1, <3>2, NothingLatched
    <3>4. prevValid' => pendingAddr' \notin {"halt", "lo"}
      BY <1>8, <3>1, <3>2 DEF Fresh
    <3> QED
      BY <3>1, <3>3, <3>4 DEF Fresh
  <2> QED
    BY <2>1, <2>2
<1> QED
  BY <1>1, <1>13, <1>14, <1>15, <1>16, <1>17, <1>18 DEF Halves, Is, Fresh

(* The high half of the compare register is the writer's own when the low   *)
(* half is written (irq.cpp:48).                                            *)
LEMMA CycleCompare ==
    ASSUME BusInv, NEW expired, NEW rsp, NEW taken \in BOOLEAN, taken => cmd # NoCmd,
           IntCtrl(taken, expired), Hart(rsp, taken)
    PROVE  Compare'
<1>1. Now' = Now
  BY DEF Hart, Now
<1>2. cmd' = NoCmd \/ (cmd' = cmd /\ ~taken)
  BY DEF Hart
<1>3. ~Is(NoCmd, "compareHigh") /\ ~Is(NoCmd, "compareLow")
  BY DEF Is, NoCmd
<1>4. pc' = "setLow" => pc = "setLow" /\ (taken \/ cmd' = cmd)
  BY DEF Hart
<1>5. compareHigh' = IF taken /\ cmd.port = "int" /\ cmd.write /\ cmd.reg = "compareHigh"
                     THEN cmd.data ELSE compareHigh
  BY DEF IntCtrl
<1>6. pc' = "setLow" => \/ Is(cmd', "compareHigh") /\ cmd'.write /\ cmd'.data = {Now}
                        \/ ~Is(cmd', "compareHigh") /\ compareHigh' = {Now}
  BY <1>2, <1>3, <1>4, <1>5 DEF BusInv, Compare, Is
<1>7. Is(cmd', "compareLow") => cmd'.data = compareHigh'
  BY <1>2, <1>3, <1>5 DEF BusInv, Compare, Is
<1> QED
  BY <1>1, <1>6, <1>7 DEF Compare, Is

(* Nothing goes wrong in a cycle. *)
LEMMA CycleRight ==
    ASSUME BusInv, NEW ready, NEW expired, NEW acks, NEW rsp \in Responses(ready, expired),
           IntCtrl(Taken(rsp, acks), expired), Hart(rsp, Taken(rsp, acks))
    PROVE  wrong' = {}
<1> DEFINE taken == Taken(rsp, acks)
           got == load # NoCmd /\ rsp # NoAnswer
<1>1. got => rsp = Answer(load.port, load.reg)
  BY Own
<1>2. got /\ rsp = Answer("int", "hi") => saved = clock[load.who] \div Low
  BY <1>1 DEF Answer, BusInv, Halves, Is, Fresh
<1>3. taken /\ cmd.port = "int" /\ cmd.reg = "compareLow" => cmd.data = compareHigh
  BY DEF BusInv, Compare, Is
<1>4. wrong = {}
  BY DEF BusInv
<1> HIDE DEF taken
<1> QED
  BY <1>1, <1>2, <1>3, <1>4 DEF Hart, taken

(* All of a cycle of the bus.                                               *)
LEMMA CycleInv ==
    ASSUME BusInv, NEW acks, NEW ready, Cycle(acks, ready)
    PROVE  BusInv'
<1>1. PICK expired : \E rsp \in Responses(ready, expired) :
            /\ IoBlock(rsp, Taken(rsp, acks))
            /\ Slaves(rsp, Taken(rsp, acks))
            /\ IntCtrl(Taken(rsp, acks), expired)
            /\ Hart(rsp, Taken(rsp, acks))
  BY DEF Cycle
<1>2. PICK rsp \in Responses(ready, expired) :
            /\ IoBlock(rsp, Taken(rsp, acks))
            /\ Slaves(rsp, Taken(rsp, acks))
            /\ IntCtrl(Taken(rsp, acks), expired)
            /\ Hart(rsp, Taken(rsp, acks))
  BY <1>1
<1>3. Taken(rsp, acks) \in BOOLEAN /\ (Taken(rsp, acks) => cmd # NoCmd)
  BY DEF Taken
<1>4. Commands' /\ Waits'
  BY <1>2, CycleWaits
<1>5. Flow'
  BY <1>2, <1>3, CycleFlow
<1>6. Halves'
  BY <1>2, CycleHalves
<1>7. Compare'
  BY <1>2, <1>3, CycleCompare
<1>8. wrong' = {}
  BY <1>2, CycleRight
<1> QED
  BY <1>4, <1>5, <1>6, <1>7, <1>8 DEF BusInv

-----------------------------------------------------------------------------
(* The steps of the code. *)

(* What keeps the invariant when c enters the execute stage: only the       *)
(* sequences above touch the clock and the compare register.                *)
LEMMA IssueInv ==
    ASSUME BusInv, NEW c, NEW target, Issue(c, target), WellFormed(c), c # NoCmd,
           target \in {"run", "halt", "hi", "setHigh", "setLow", "leave", "serve"},
           target \notin {"run", "halt"} => pc \notin {"run", "halt"},
           target = "hi" <=> Is(c, "lo"),
           Is(c, "lo") => pc = "lo" /\ ~c.write /\ c.who = Now,
           pc = "hi" <=> Is(c, "hi"),
           Is(c, "hi") => ~c.write /\ c.who = Now,
           target = "setLow" => Is(c, "compareHigh") /\ c.write /\ c.data = {Now},
           Is(c, "compareLow") => pc = "setLow" /\ c.data = {Now}
    PROVE  BusInv'
<1>1. cmd = NoCmd /\ cmd' = c /\ pc' = target /\ pc # "trapped" /\ Now' = Now
  BY DEF Issue, Now
<1>2. UNCHANGED <<back, mie, load, clock, wrong, pending, port, segment, ddr, slow, gpio, ctrlVars>>
  BY DEF Issue
<1>3. Commands' /\ Waits'
  BY <1>1, <1>2 DEF BusInv, Commands, Waits, WellFormed, ctrlVars
<1>4. Flow'
  BY <1>1, <1>2 DEF BusInv, Flow
<1>5. Halves'
  <2>1. ~Is(NoCmd, "lo") /\ ~Is(NoCmd, "hi")
    BY DEF Is, NoCmd
  <2>2. UNCHANGED <<load, saved, clock, prevValid, pendingAddr>>
    BY <1>2 DEF ctrlVars
  <2>3. pc = "lo" => load = NoCmd
    BY DEF BusInv, Halves
  <2>4. pc = "hi" => \/ Is(load, "lo") /\ load.who = Now
                     \/ load = NoCmd /\ Fresh(Now)
    BY <1>1, <2>1 DEF BusInv, Halves
  <2>5. Is(load, "lo") => pc = "hi"
    BY <1>1, <2>1 DEF BusInv, Halves
  <2>6. Is(load, "hi") => Fresh(load.who)
    BY DEF BusInv, Halves
  <2>7. ~(Is(c, "lo") /\ Is(c, "hi"))
    BY DEF Is
  <2> QED
    BY <1>1, <2>1, <2>2, <2>3, <2>4, <2>5, <2>6, <2>7 DEF Halves, Fresh, Is
<1>6. Compare'
  <2>1. ~Is(NoCmd, "compareHigh")
    BY DEF Is, NoCmd
  <2>2. pc = "setLow" => compareHigh = {Now}
    BY <1>1, <2>1 DEF BusInv, Compare
  <2>3. compareHigh' = compareHigh
    BY <1>2 DEF ctrlVars
  <2> QED
    BY <1>1, <2>2, <2>3 DEF Compare, Is
<1>7. wrong' = {}
  BY <1>2 DEF BusInv
<1> QED
  BY <1>3, <1>4, <1>5, <1>6, <1>7 DEF BusInv

(* The accesses of a thread, of wfi and of the handlers. *)
LEMMA AccessInv ==
    ASSUME BusInv, AnyAccess \/ Wfi
    PROVE  BusInv'
<1>1. Now \in Who
  BY DEF Now, Who
<1>2. CASE AnyAccess
  <2>1. ASSUME NEW l \in MemLines, NEW s \in Words, NEW w \in BOOLEAN,
               pc = "run", Issue(Access("ddr", <<l, s>>, w, {}), "run")
        PROVE  BusInv'
    BY <1>1, <2>1, IssueInv DEF WellFormed, Is, Access, NoCmd
  <2>2. ASSUME NEW p \in {"slow", "none"}, NEW w \in BOOLEAN,
               pc = "run", Issue(Access(p, p, w, {}), "run")
        PROVE  BusInv'
    BY <1>1, <2>2, IssueInv DEF WellFormed, Is, Access, NoCmd
  <2>3. ASSUME NEW w \in BOOLEAN,
               pc = "run", Issue(Access("gpio", "in", w, {}), "run")
        PROVE  BusInv'
    BY <1>1, <2>3, IssueInv DEF WellFormed, Is, Access, NoCmd
  <2>4. ASSUME NEW i \in Irqs,
               pc = "run", Issue(Ctrl("maskClear", TRUE, {i}), "run")
        PROVE  BusInv'
    BY <1>1, <2>4, IssueInv DEF WellFormed, Is, Access, Ctrl, NoCmd
  <2> QED
    BY <1>2, <2>1, <2>2, <2>3, <2>4 DEF AnyAccess
<1>3. CASE pc = "run" /\ Issue(Ctrl("waitReset", TRUE, {}), "halt")
  BY <1>1, <1>3, IssueInv DEF WellFormed, Is, Access, Ctrl, NoCmd
<1>4. CASE pc = "halt" /\ Issue(Ctrl("halt", FALSE, {}), "run")
  BY <1>1, <1>4, IssueInv DEF WellFormed, Is, Access, Ctrl, NoCmd
<1> QED
  BY <1>2, <1>3, <1>4 DEF Wfi

(* The steps of the handler.                                                *)
LEMMA HandlerInv ==
    ASSUME BusInv, ClockAndTimer \/ Serve
    PROVE  BusInv'
<1>1. Now \in Who
  BY DEF Now, Who
<1>2. CASE pc = "lo" /\ Issue(Ctrl("lo", FALSE, {}), "hi")
  BY <1>1, <1>2, IssueInv DEF WellFormed, Is, Access, Ctrl, NoCmd
<1>3. CASE pc = "hi" /\ Issue(Ctrl("hi", FALSE, {}), "setHigh")
  BY <1>1, <1>3, IssueInv DEF WellFormed, Is, Access, Ctrl, NoCmd
<1>4. CASE pc = "setHigh" /\ Issue(Ctrl("compareHigh", TRUE, {Now}), "setLow")
  BY <1>1, <1>4, IssueInv DEF WellFormed, Is, Access, Ctrl, NoCmd
<1>5. CASE pc = "setLow" /\ Issue(Ctrl("compareLow", TRUE, {Now}), "leave")
  BY <1>1, <1>5, IssueInv DEF WellFormed, Is, Access, Ctrl, NoCmd
<1>6. CASE pc = "setHigh" /\ back # "none" /\ Issue(Ctrl("compareReset", TRUE, {}), "leave")
  BY <1>1, <1>6, IssueInv DEF WellFormed, Is, Access, Ctrl, NoCmd
<1>7. CASE pc = "active" /\ Issue(Ctrl("active", FALSE, {}), "serve")
  BY <1>1, <1>7, IssueInv DEF WellFormed, Is, Access, Ctrl, NoCmd
<1>8. CASE pc = "serve" /\ load = NoCmd /\ Issue(Ctrl("maskSet", TRUE, seen), "leave")
  BY <1>1, <1>8, IssueInv DEF WellFormed, Is, Access, Ctrl, NoCmd
<1> QED
  BY <1>2, <1>3, <1>4, <1>5, <1>6, <1>7, <1>8 DEF ClockAndTimer, Serve

(* The clock is read from its beginning, with the pipeline empty and        *)
(* interrupts disabled, both in sleep_ns and in a handler.                  *)
LEMMA TurnInv ==
    ASSUME BusInv, Sleep \/ Leave \/ Trap
    PROVE  BusInv'
<1>1. /\ cmd = NoCmd /\ load = NoCmd
      /\ UNCHANGED <<cmd, load, clock, wrong, pending, port, segment, ddr, slow, gpio, ctrlVars>>
  BY DEF Sleep, Leave, Trap
<1>2. Commands' /\ Waits'
  BY <1>1 DEF BusInv, Commands, Waits, WellFormed, ctrlVars
<1>3. /\ pc' \in {"run", "halt", "active", "lo"}
      /\ back' \in {"none", "run", "halt"}
      /\ pc' \notin {"run", "halt"} => mie' = FALSE
  <2>1. CASE Sleep
    BY <2>1 DEF Sleep, BusInv, Flow
  <2>2. CASE Leave
    BY <2>2 DEF Leave, BusInv, Flow
  <2>3. CASE Trap
    BY <2>3 DEF Trap, Interrupt, BusInv, Flow
  <2> QED
    BY <2>1, <2>2, <2>3
<1>4. Flow'
  BY <1>1, <1>3 DEF BusInv, Flow
<1>5. Halves' /\ Compare'
  BY <1>1, <1>3 DEF Halves, Compare, Is, NoCmd
<1> QED
  BY <1>1, <1>2, <1>4, <1>5 DEF BusInv

-----------------------------------------------------------------------------
(* BusInv is inductive. *)
LEMMA BusStepInv == BusInv /\ [BusNext]_busVars => BusInv'
<1> SUFFICES ASSUME BusInv, [BusNext]_busVars PROVE BusInv'
  OBVIOUS
<1>1. CASE \E acks \in {TRUE, cmd.port \notin {"ddr", "slow"}},
             ready \in {TRUE, port \notin {"ddr", "slow"}} : Cycle(acks, ready)
  BY <1>1, CycleInv
<1>2. CASE UNCHANGED busVars
  <2>1. UNCHANGED <<pc, back, mie, cmd, load, clock, wrong, pending, port, segment, ddr, slow, gpio,
                    prevValid, pendingAddr, saved, compareHigh>>
    BY <1>2 DEF busVars, hartVars, ctrlVars
  <2>2. Commands' /\ Waits'
    BY <2>1 DEF BusInv, Commands, Waits, WellFormed
  <2>3. Flow' /\ Halves' /\ Compare'
    BY <2>1 DEF BusInv, Flow, Halves, Compare, Is, Fresh, Now
  <2> QED
    BY <2>1, <2>2, <2>3 DEF BusInv
<1> QED
  BY <1>1, <1>2, AccessInv, HandlerInv, TurnInv DEF BusNext

(* The invariant of the bus holds in every state (io_block.sv,              *)
(* bus_width_adjust.sv, timer_int_ctrl.sv, irq.cpp).                        *)
THEOREM BusSafety == BusSpec => []BusInv
<1> QED
  BY BusStarts, BusStepInv, PTL DEF BusSpec

(* Every load gets the answer to its own address (io_block.sv:66, 132,      *)
(* timer_int_ctrl.sv:96).                                                   *)
THEOREM OwnAnswersAlways == BusSpec => []OwnAnswers
<1>1. BusInv => OwnAnswers
  BY DEF BusInv, Waits, OwnAnswers
<1> QED
  BY <1>1, BusSafety, PTL

(* The two halves of a clock that is read, and of a compare register that   *)
(* is set, belong together (irq.cpp:48, 62; timer_int_ctrl.sv:31, 41).      *)
THEOREM WholeClockAlways == BusSpec => []WholeClock
<1>1. BusInv => WholeClock
  BY DEF BusInv, WholeClock
<1> QED
  BY <1>1, BusSafety, PTL

-----------------------------------------------------------------------------
(* The picture.                                                             *)

Pixels == Width * Height

(* A stage holds k pixels, from number n of the picture on, with the place  *)
(* of the first, when the corner of the picture is at f.                    *)
Shows(f, s, n, k) ==
    /\ n \in Nat /\ s.n = n
    /\ s.x \in Int /\ s.y \in Int
    /\ s.n = (s.y - f.y) * Width + s.x - f.x
    /\ f.x <= s.x /\ s.x + k <= f.x + Width
    /\ f.y <= s.y /\ s.y < f.y + Height

OnScreen(p) == p.x \in 0 .. (ScreenWidth - Width) /\ p.y \in 0 .. (ScreenHeight - Height)

(* The numbers that the display is built with.                              *)
LEMMA NumbersAre ==
    /\ Burst \in Nat /\ Width \in Nat /\ Height \in Nat /\ ScreenWidth \in Nat /\ ScreenHeight \in Nat
    /\ FrameWidth \in Nat /\ FrameHeight \in Nat
    /\ Burst > 2 /\ ScreenWidth > Width /\ ScreenHeight > Height
    /\ FrameWidth > ScreenWidth /\ FrameHeight > ScreenHeight + 2
  BY DisplayAssumption

(* A row is whole bursts, and there are four of them at least.              *)
LEMMA BurstsAre ==
    \E m \in Nat : Width = m * Burst /\ m * Height >= 4 /\ m >= 1
<1>1. /\ Burst \in Nat /\ Width \in Nat /\ Height \in Nat /\ Burst > 2
      /\ Width % Burst = 0 /\ (Width \div Burst) * Height >= 4
  BY DisplayAssumption
<1> DEFINE m == Width \div Burst
<1>2. m \in Nat /\ Width = m * Burst
  <2>1. ASSUME NEW a \in Nat, NEW b \in Nat, b > 0, a % b = 0
        PROVE  a \div b \in Nat /\ a = (a \div b) * b
    BY <2>1
  <2> QED
    BY <1>1, <2>1
<1>3. m * Height >= 4
  BY <1>1
<1> HIDE DEF m
<1>4. m >= 1
  BY <1>1, <1>2, <1>3
<1> QED
  BY <1>2, <1>3, <1>4

(* Products grow with their factors.                                        *)
LEMMA Grows ==
    ASSUME NEW a \in Nat, NEW b \in Nat, NEW c \in Nat, a <= b
    PROVE  a * c <= b * c
  OBVIOUS

(* A picture is a row and four bursts at least.                             *)
LEMMA PictureIs ==
    /\ Pixels \in Nat /\ Burst <= Width /\ 1 <= Height /\ Burst * 4 <= Pixels
<1>1. PICK m \in Nat : Width = m * Burst /\ m * Height >= 4 /\ m >= 1
  BY BurstsAre
<1>2. Burst \in Nat /\ Height \in Nat /\ Width \in Nat
  BY NumbersAre
<1>3. Pixels = (m * Height) * Burst
  BY <1>1, <1>2 DEF Pixels
<1>4. m * Height \in Nat
  BY <1>2
<1>5. 4 * Burst <= (m * Height) * Burst
  BY <1>1, <1>2, <1>4, Grows
<1>6. 1 * Burst <= m * Burst
  BY <1>1, <1>2, Grows
<1>7. Pixels \in Nat /\ Burst * 4 <= Pixels
  BY <1>2, <1>3, <1>4, <1>5
<1>8. 1 <= Height
  BY <1>1, <1>2
<1> QED
  BY <1>1, <1>2, <1>6, <1>7, <1>8

(* The next burst of a row.                                                 *)
LEMMA NextBurst ==
    ASSUME NEW p \in 0 .. (Width - Burst), \E k \in Nat : p = k * Burst, p < Width - Burst
    PROVE  /\ p + Burst \in 0 .. (Width - Burst)
           /\ \E k \in Nat : p + Burst = k * Burst
<1>1. PICK m \in Nat : Width = m * Burst /\ m >= 1
  BY BurstsAre
<1>2. PICK k \in Nat : p = k * Burst
  OBVIOUS
<1>3. Burst \in Nat /\ Burst > 2 /\ Width \in Nat
  BY NumbersAre
<1>4. p + Burst = (k + 1) * Burst
  BY <1>2, <1>3
<1>5. k + 2 <= m
  <2>1. Width - Burst = (m - 1) * Burst /\ m - 1 \in Nat
    BY <1>1, <1>3
  <2>2. ~(m - 1 <= k)
    <3>1. m - 1 <= k => (m - 1) * Burst <= k * Burst
      BY <1>3, <2>1, Grows
    <3> QED
      BY <1>2, <1>3, <2>1, <3>1
  <2> QED
    BY <1>1, <2>2
<1>6. (k + 2) * Burst <= m * Burst
  BY <1>3, <1>5, Grows
<1>7. (k + 2) * Burst = (k + 1) * Burst + Burst
  BY <1>3
<1>8. p + Burst \in 0 .. (Width - Burst)
  BY <1>1, <1>3, <1>4, <1>6, <1>7
<1> QED
  BY <1>4, <1>8

(* One pixel of a stage, and the stage without it.                          *)
LEMMA OneShown ==
    ASSUME NEW f, NEW s, NEW n, NEW k \in Nat, f.x \in Int, f.y \in Int, Shows(f, s, n, k), k >= 1
    PROVE  Shows(f, s, n, 1)
  BY NumbersAre DEF Shows

(* What is left of a stage is the pixels that follow.                       *)
LEMMA RestShown ==
    ASSUME NEW f, NEW s, NEW n, NEW k \in Nat, f.x \in Int, f.y \in Int, Shows(f, s, n, k)
    PROVE  Shows(f, [x |-> s.x + 1, y |-> s.y, n |-> s.n + 1], n + 1, k - 1)
<1> DEFINE t == [x |-> s.x + 1, y |-> s.y, n |-> s.n + 1]
           v == (s.y - f.y) * Width
<1>1. t.x = s.x + 1 /\ t.y = s.y /\ t.n = s.n + 1
  OBVIOUS
<1>2. n \in Nat /\ s.n = n /\ s.x \in Int /\ s.y \in Int /\ s.n = v + s.x - f.x
      /\ f.x <= s.x /\ s.x + k <= f.x + Width
      /\ f.y <= s.y /\ s.y < f.y + Height
  BY DEF Shows
<1>3. v \in Int /\ v = (t.y - f.y) * Width /\ Width \in Nat /\ Height \in Nat
  BY <1>1, <1>2, NumbersAre
<1> HIDE DEF t, v
<1>4. /\ n + 1 \in Nat /\ t.n = n + 1 /\ t.x \in Int /\ t.y \in Int
      /\ t.n = v + t.x - f.x
      /\ f.x <= t.x /\ t.x + (k - 1) <= f.x + Width
      /\ f.y <= t.y /\ t.y < f.y + Height
  BY <1>1, <1>2, <1>3
<1>5. Shows(f, t, n + 1, k - 1)
  BY <1>3, <1>4 DEF Shows
<1> QED
  BY <1>5 DEF t

-----------------------------------------------------------------------------
(* The invariant.                                                           *)

Crawls ==
    /\ OnScreen(place) /\ OnScreen(start) /\ OnScreen(at) /\ OnScreen(framed)
    /\ heading.x \in {-1, 1} /\ heading.y \in {-1, 1}

(* Nothing is on its way to the raster.                                     *)
Quiet ==
    /\ done /\ ~sent /\ ~request /\ asked = <<>>
    /\ ~Full(dma) /\ ~Full(cdc) /\ ~send /\ ~ack
    /\ ~Full(hdmi) /\ ~Full(outp) /\ ~Full(buffered)

(* What the two bits say where the raster is, and what the fetch has made   *)
(* of them.  They are up for the first two pixels of the screen at most.    *)
Bits ==
    /\ vblank \in BOOLEAN /\ vsync \in BOOLEAN /\ prevVblank \in BOOLEAN
    /\ cx \in 0 .. (FrameWidth - 1) /\ cy \in 0 .. (FrameHeight - 1)
    /\ ~RasterBlank /\ (vblank \/ vsync) => cy = 0 /\ cx <= 1
    /\ RasterBlank /\ ~RasterSync => ~vsync
    /\ RasterSync => vblank /\ prevVblank

Begins ==
    /\ done \in BOOLEAN /\ cut \in BOOLEAN /\ sent \in BOOLEAN
    /\ RasterBlank /\ ~vsync => done
    /\ RasterBlank /\ done => Quiet
    /\ done /\ prevVblank => next = 0 /\ x = 0 /\ y = 0
    /\ ~RasterBlank /\ vblank /\ vsync => ~done
    /\ ~RasterBlank /\ vblank /\ done => cut
    /\ cut => done

(* While both bits are up, only the first burst has come to the pixels, so  *)
(* that the fetch does not end before it sees that the frame has begun.     *)
Early ==
    vblank /\ vsync /\ ~done =>
        /\ due + fill \in {0, Burst} /\ due <= 2
        /\ cx # 1 \/ RasterBlank => due <= 1

(* The pixel in the buffer is the one before those of the output stage, and *)
(* after the second of a burst the raster has come to it.                   *)
Follow ==
    /\ Full(outp) /\ fill < Burst =>
        Full(buffered) /\ buffered.x = outp.x - 1 /\ buffered.y = outp.y
    /\ Full(outp) /\ fill < Burst - 1 =>
        ~RasterBlank /\ (buffered.y < cy \/ (buffered.y = cy /\ buffered.x <= cx))

(* The pixels that have come to the pixel clock, and those that the fetch   *)
(* has handed on.                                                           *)
Arrived == due + fill + (IF Full(hdmi) THEN Burst ELSE 0)

Handed == Arrived + (IF Full(cdc) /\ ~(send /\ ack) THEN Burst ELSE 0)

(* The stages hold consecutive pixels.                                      *)
Line ==
    /\ due \in Nat /\ fill \in 0 .. Burst /\ (Full(outp) <=> fill # 0)
    /\ send \in BOOLEAN /\ ack \in BOOLEAN
    /\ Full(buffered) => Shows(framed, buffered, buffered.n, 1)
    /\ Full(outp) => Shows(framed, outp, due, fill)
    /\ Full(hdmi) => Shows(framed, hdmi, due + fill, Burst)
    /\ send /\ ~ack => Shows(framed, crossing, Arrived, Burst)

(* Where the fetch is in the picture.                                       *)
Place ==
    /\ x \in 0 .. (Width - Burst) /\ (\E k \in Nat : x = k * Burst) /\ y \in 0 .. (Height - 1)
    /\ next \in Nat
    /\ ~done => at = framed /\ next = Handed /\ next = y * Width + x

(* The burst that the fetch has asked for, has got or hands over; of one    *)
(* that was cut only what has crossed is left.                              *)
Fetch ==
    /\ sent => ~done
    /\ cut => ~Full(dma) /\ ~Full(cdc) /\ ~sent
    /\ ~cut =>
        /\ request => sent /\ asked = <<>>
        /\ asked # <<>> => asked = <<next>> /\ sent /\ ~request
        /\ sent => ~Full(dma)
        /\ Full(dma) => dma.n = next /\ ~done

Hands ==
    ~cut =>
        /\ send => Full(cdc) /\ crossing = cdc
        /\ Full(cdc) => Shows(framed, cdc, IF send /\ ack THEN Arrived - Burst ELSE Arrived, Burst)
        /\ done => Handed = Pixels

DisplayInv == Crawls /\ Bits /\ Begins /\ Early /\ Follow /\ Line /\ Place /\ Fetch /\ Hands /\ ~garbled

(* At first the whole picture has been shown.                               *)
LEMMA DisplayStarts == DisplayInit => DisplayInv
<1> SUFFICES ASSUME DisplayInit PROVE DisplayInv
  OBVIOUS
<1>1. ~Full(Empty)
  BY DEF Full, Empty
<1>2. Crawls
  BY NumbersAre DEF DisplayInit, Crawls, OnScreen
<1>3. ~RasterBlank /\ ~RasterSync
  BY NumbersAre DEF DisplayInit, RasterBlank, RasterSync
<1>4. Bits
  <2>1. vblank = FALSE /\ vsync = FALSE /\ prevVblank = FALSE
    BY DEF DisplayInit
  <2>2. cx \in 0 .. (FrameWidth - 1) /\ cy \in 0 .. (FrameHeight - 1)
    BY NumbersAre DEF DisplayInit
  <2> QED
    BY <1>3, <2>1, <2>2 DEF Bits
<1>5. Begins /\ Early
  BY <1>3 DEF DisplayInit, Begins, Early
<1>6. Pixels \in Nat /\ Burst \in Nat /\ Burst <= Width /\ Width \in Nat /\ 1 <= Height /\ Height \in Nat
  BY PictureIs, NumbersAre
<1>7. Follow /\ Fetch
  BY <1>1 DEF DisplayInit, Follow, Fetch
<1>8. Line
  <2>1. due \in Nat
    BY <1>6 DEF DisplayInit, Pixels
  <2>2. fill = 0 /\ fill \in 0 .. Burst
    BY <1>6 DEF DisplayInit
  <2>3. send = FALSE /\ ack = FALSE /\ ~Full(hdmi) /\ ~Full(outp) /\ ~Full(buffered)
    BY <1>1 DEF DisplayInit
  <2> QED
    BY <2>1, <2>2, <2>3 DEF Line
<1>9. Place
  <2>1. x = 0 /\ y = 0 /\ next = 0 /\ done
    BY DEF DisplayInit
  <2>2. 0 = 0 * Burst /\ 0 \in Nat
    BY <1>6
  <2>3. \E k \in Nat : x = k * Burst
    BY <2>1, <2>2
  <2> QED
    BY <1>6, <2>1, <2>3 DEF Place
<1>10. Hands
  <2>1. Handed = Pixels
    BY <1>1, <1>6 DEF DisplayInit, Handed, Arrived, Pixels
  <2> QED
    BY <1>1, <2>1 DEF DisplayInit, Hands
<1> QED
  BY <1>2, <1>4, <1>5, <1>7, <1>8, <1>9, <1>10 DEF DisplayInit, DisplayInv

-----------------------------------------------------------------------------
(* The program and the two bits.                                            *)

(* logoCrawl turns at the edges, so that the picture stays on the screen.   *)
LEMMA StaysOn ==
    ASSUME NEW d \in {-1, 1}, NEW last \in Nat, last >= 1, NEW p \in 0 .. last
    PROVE  Turned(d, p, last) \in {-1, 1} /\ p + Turned(d, p, last) \in 0 .. last
  BY DEF Turned

(* The parts of the invariant that are not about logoCrawl.                 *)
LEMMA SameParts ==
    ASSUME DisplayInv,
           UNCHANGED <<vblank, vsync, prevVblank, done, sent, request, asked, at, next, x, y, dma, cdc>>,
           UNCHANGED <<send, crossing, ack, hdmi, outp, fill, buffered, cx, cy, garbled, framed, due, cut>>
    PROVE  Bits' /\ Begins' /\ Early' /\ Follow' /\ Line' /\ Place' /\ Fetch' /\ Hands' /\ ~garbled'
<1>1. Bits' /\ Begins' /\ ~garbled'
  BY DEF DisplayInv, Bits, Begins, Quiet, RasterBlank, RasterSync
<1>2. Early' /\ Follow'
  BY DEF DisplayInv, Early, Follow, RasterBlank
<1>3. Line' /\ Place'
  BY DEF DisplayInv, Line, Place, Arrived, Handed
<1>4. Fetch' /\ Hands'
  BY DEF DisplayInv, Fetch, Hands, Arrived, Handed
<1> QED
  BY <1>1, <1>2, <1>3, <1>4

(* A step of logoCrawl.                                                     *)
LEMMA CrawlInv == DisplayInv /\ Crawl => DisplayInv'
<1> SUFFICES ASSUME DisplayInv, Crawl PROVE DisplayInv'
  OBVIOUS
<1>1. UNCHANGED <<irq, vblank, vsync, prevVblank, fetchVars, pixelVars, historyVars>>
  BY DEF Crawl
<1>2. Crawls'
  <2> DEFINE lx == ScreenWidth - Width
             ly == ScreenHeight - Height
             dx == Turned(heading.x, place.x, lx)
             dy == Turned(heading.y, place.y, ly)
  <2>1. lx \in Nat /\ lx >= 1 /\ ly \in Nat /\ ly >= 1
    BY NumbersAre
  <2>2. place.x \in 0 .. lx /\ place.y \in 0 .. ly /\ heading.x \in {-1, 1} /\ heading.y \in {-1, 1}
    BY DEF DisplayInv, Crawls, OnScreen
  <2>3. dx \in {-1, 1} /\ place.x + dx \in 0 .. lx
    BY <2>1, <2>2, StaysOn
  <2>4. dy \in {-1, 1} /\ place.y + dy \in 0 .. ly
    BY <2>1, <2>2, StaysOn
  <2>5. /\ heading' = [x |-> dx, y |-> dy] /\ place' = [x |-> place.x + dx, y |-> place.y + dy]
        /\ start' = place
    BY DEF Crawl
  <2>6. heading'.x = dx /\ heading'.y = dy /\ place'.x = place.x + dx /\ place'.y = place.y + dy
    BY <2>5
  <2>7. OnScreen(place) /\ OnScreen(at)' /\ OnScreen(framed)'
    BY <1>1 DEF DisplayInv, Crawls, fetchVars, historyVars, OnScreen
  <2>8. OnScreen(place)' /\ OnScreen(start)'
    BY <2>3, <2>4, <2>5, <2>6, <2>7 DEF OnScreen
  <2> QED
    BY <2>3, <2>4, <2>6, <2>7, <2>8 DEF Crawls
<1>3. UNCHANGED <<vblank, vsync, prevVblank, done, sent, request, asked, at, next, x, y, dma, cdc>>
  BY <1>1 DEF fetchVars
<1>4. UNCHANGED <<send, crossing, ack, hdmi, outp, fill, buffered, cx, cy, garbled, framed, due, cut>>
  BY <1>1 DEF fetchVars, pixelVars, historyVars
<1>5. Bits' /\ Begins' /\ Early' /\ Follow' /\ Line' /\ Place' /\ Fetch' /\ Hands' /\ ~garbled'
  BY <1>3, <1>4, SameParts DEF DisplayInv
<1> QED
  BY <1>2, <1>5 DEF DisplayInv

(* The interrupt handler only sets the signal.                              *)
LEMMA HandleVsyncIrqInv == DisplayInv /\ HandleVsyncIrq => DisplayInv'
<1> SUFFICES ASSUME DisplayInv, HandleVsyncIrq PROVE DisplayInv'
  OBVIOUS
<1>1. UNCHANGED <<place, heading, start, vblank, vsync, prevVblank, fetchVars, pixelVars, historyVars>>
  BY DEF HandleVsyncIrq
<1>2. Crawls'
  BY <1>1 DEF DisplayInv, Crawls, OnScreen, fetchVars, historyVars
<1>3. UNCHANGED <<vblank, vsync, prevVblank, done, sent, request, asked, at, next, x, y, dma, cdc>>
  BY <1>1 DEF fetchVars
<1>4. UNCHANGED <<send, crossing, ack, hdmi, outp, fill, buffered, cx, cy, garbled, framed, due, cut>>
  BY <1>1 DEF fetchVars, pixelVars, historyVars
<1>5. Bits' /\ Begins' /\ Early' /\ Follow' /\ Line' /\ Place' /\ Fetch' /\ Hands' /\ ~garbled'
  BY <1>3, <1>4, SameParts DEF DisplayInv
<1> QED
  BY <1>2, <1>5 DEF DisplayInv

(* The lines before the sync end the screen.                                *)
LEMMA SyncIsBlank ==
    ASSUME cy \in 0 .. (FrameHeight - 1), RasterSync
    PROVE  RasterBlank
  BY NumbersAre DEF RasterSync, RasterBlank

(* Each bit may cross first.                                                *)
LEMMA CrossBlankInv == DisplayInv /\ CrossBlank => DisplayInv'
<1> SUFFICES ASSUME DisplayInv, CrossBlank PROVE DisplayInv'
  OBVIOUS
<1>1. UNCHANGED <<crawlVars, prevVblank, fetchVars, pixelVars, historyVars>>
  BY DEF CrossBlank
<1>2. Crawls'
  BY <1>1 DEF DisplayInv, Crawls, OnScreen, crawlVars, fetchVars, historyVars
<1>3. UNCHANGED <<prevVblank, done, sent, request, asked, at, next, x, y, dma, cdc>>
  BY <1>1 DEF fetchVars
<1>4. UNCHANGED <<send, crossing, ack, hdmi, outp, fill, buffered, cx, cy, garbled, framed, due, cut>>
  BY <1>1 DEF fetchVars, pixelVars, historyVars
<1>5. (RasterBlank' <=> RasterBlank) /\ (RasterSync' <=> RasterSync)
  BY <1>4 DEF RasterBlank, RasterSync
<1>6. Follow' /\ ~garbled'
  BY <1>4, <1>5 DEF DisplayInv, Follow
<1>7. Line' /\ Place'
  BY <1>3, <1>4 DEF DisplayInv, Line, Place, Arrived, Handed
<1>8. Fetch' /\ Hands'
  BY <1>3, <1>4 DEF DisplayInv, Fetch, Hands, Arrived, Handed
<1>9. RasterSync => RasterBlank
  BY SyncIsBlank DEF DisplayInv, Bits
<1>10. \/ vblank # RasterBlank /\ vblank' = RasterBlank /\ UNCHANGED vsync
       \/ vsync # RasterSync /\ vsync' = RasterSync /\ UNCHANGED vblank
  BY DEF CrossBlank
<1>11. (RasterBlank \in BOOLEAN) /\ (RasterSync \in BOOLEAN)
  BY DEF RasterBlank, RasterSync
<1>12. Bits'
  BY <1>3, <1>4, <1>5, <1>9, <1>10, <1>11 DEF DisplayInv, Bits
<1>13. Begins'
  BY <1>3, <1>4, <1>5, <1>9, <1>10, <1>11 DEF DisplayInv, Bits, Begins, Quiet
<1>14. Early'
  <2>1. ~(vblank' /\ vsync' /\ ~done) \/ (vblank /\ vsync)
    BY <1>9, <1>10, <1>11 DEF DisplayInv, Bits, Begins
  <2> QED
    BY <1>3, <1>4, <1>5, <2>1 DEF DisplayInv, Early
<1> QED
  BY <1>2, <1>6, <1>7, <1>8, <1>12, <1>13, <1>14 DEF DisplayInv

-----------------------------------------------------------------------------
(* A cycle of the CPU clock.                                                *)

(* The pixels that have arrived are counted.                                *)
LEMMA ArrivedIs ==
    ASSUME Line
    PROVE  due + fill \in Nat /\ Arrived \in Nat
  BY NumbersAre DEF Line, Arrived

(* What a cycle of the CPU clock leaves alone.                              *)
LEMMA CpuLeaves ==
    ASSUME NEW answered \in BOOLEAN, CpuCycle(answered)
    PROVE  /\ UNCHANGED <<place, heading, start, vblank, vsync>>
           /\ UNCHANGED <<ack, hdmi, outp, fill, buffered, cx, cy, garbled>>
           /\ prevVblank' = vblank
           /\ (RasterBlank' <=> RasterBlank) /\ (RasterSync' <=> RasterSync)
<1>1. UNCHANGED <<place, heading, start, vblank, vsync, pixelVars>> /\ prevVblank' = vblank
  BY DEF CpuCycle
<1>2. UNCHANGED <<ack, hdmi, outp, fill, buffered, cx, cy, garbled>>
  BY <1>1 DEF pixelVars
<1> QED
  BY <1>1, <1>2 DEF RasterBlank, RasterSync

(* The parts about the raster and its buffer, whatever the fetch does.      *)
LEMMA CpuBits ==
    ASSUME DisplayInv, NEW answered \in BOOLEAN, CpuCycle(answered)
    PROVE  Bits' /\ Follow' /\ ~garbled'
<1>1. /\ UNCHANGED <<place, heading, start, vblank, vsync>>
      /\ UNCHANGED <<ack, hdmi, outp, fill, buffered, cx, cy, garbled>>
      /\ prevVblank' = vblank
      /\ (RasterBlank' <=> RasterBlank) /\ (RasterSync' <=> RasterSync)
  BY CpuLeaves
<1>2. Bits'
  BY <1>1 DEF DisplayInv, Bits
<1>3. Follow' /\ ~garbled'
  BY <1>1 DEF DisplayInv, Follow
<1> QED
  BY <1>2, <1>3

(* The end of the sync is seen before that of the blanking: the fetch stops. *)
LEMMA ResetInv ==
    ASSUME DisplayInv, NEW answered \in BOOLEAN, CpuCycle(answered), vblank, ~vsync
    PROVE  DisplayInv'
<1>1. /\ UNCHANGED <<place, heading, start, vblank, vsync>>
      /\ UNCHANGED <<ack, hdmi, outp, fill, buffered, cx, cy, garbled>>
      /\ prevVblank' = vblank
      /\ (RasterBlank' <=> RasterBlank) /\ (RasterSync' <=> RasterSync)
  BY CpuLeaves
<1>2. PICK taken \in IF request /\ asked = <<>> THEN BOOLEAN ELSE {FALSE} :
        /\ asked' = (IF answered THEN Tail(asked) ELSE asked) \o (IF taken THEN <<next>> ELSE <<>>)
        /\ DoReset
  BY DEF CpuCycle
<1>3. /\ done' = TRUE /\ dma' = Empty /\ cdc' = Empty /\ sent' = FALSE
      /\ at' = start /\ next' = 0 /\ x' = 0 /\ y' = 0
      /\ cut' = (cut \/ ~done)
      /\ UNCHANGED <<request, send, crossing, framed, due>>
  BY <1>2 DEF DoReset, ResetTo
<1>4. ~Full(Empty)
  BY DEF Full, Empty
<1>5. ~Full(dma') /\ ~Full(cdc')
  BY <1>3, <1>4
<1>6. RasterBlank => Quiet
  BY DEF DisplayInv, Begins
<1>7. ~cut' => ~cut /\ done /\ Quiet
  BY <1>3, <1>6 DEF DisplayInv, Begins
<1>8. Quiet => asked' = <<>>
  <2> SUFFICES ASSUME Quiet PROVE asked' = <<>>
    OBVIOUS
  <2>1. taken = FALSE /\ asked = <<>>
    BY DEF Quiet
  <2>2. ~answered
    BY <2>1 DEF CpuCycle
  <2> QED
    BY <1>2, <2>1, <2>2
<1>9. Quiet => Quiet'
  BY <1>1, <1>3, <1>5, <1>8 DEF Quiet, Full
<1>10. Bits' /\ Follow' /\ ~garbled'
  BY CpuBits
<1>11. Crawls'
  BY <1>1, <1>3 DEF DisplayInv, Crawls, OnScreen
<1>12. Begins'
  BY <1>1, <1>3, <1>6, <1>9 DEF DisplayInv, Bits, Begins
<1>13. Early'
  BY <1>3 DEF Early
<1>14. Arrived' = Arrived
  BY <1>1, <1>3 DEF Arrived
<1>15. Line'
  BY <1>1, <1>3, <1>14 DEF DisplayInv, Line
<1>16. Place'
  <2>1. Burst \in Nat /\ Width - Burst \in Nat /\ Height - 1 \in Nat
    BY PictureIs, NumbersAre
  <2>2. 0 = 0 * Burst /\ 0 \in Nat
    BY <2>1
  <2>3. \E k \in Nat : x' = k * Burst
    BY <1>3, <2>2
  <2> QED
    BY <1>3, <2>1, <2>3 DEF Place
<1>17. Fetch'
  BY <1>3, <1>5, <1>7, <1>8 DEF Fetch, Quiet
<1>18. Hands'
  <2> SUFFICES ASSUME ~cut' PROVE Hands'
    BY DEF Hands
  <2>1. ~cut /\ done /\ Quiet /\ Handed = Pixels
    BY <1>7 DEF DisplayInv, Hands
  <2>2. Arrived \in Nat
    BY ArrivedIs DEF DisplayInv
  <2>3. Handed = Arrived
    BY <2>1, <2>2 DEF Quiet, Handed
  <2>4. ~send' /\ Handed' = Arrived
    BY <1>3, <1>5, <1>14, <2>1, <2>2 DEF Quiet, Handed
  <2> QED
    BY <1>5, <2>1, <2>3, <2>4 DEF Hands
<1> QED
  BY <1>10, <1>11, <1>12, <1>13, <1>15, <1>16, <1>17, <1>18 DEF DisplayInv

(* The cycle of the fetch: a burst moves to the stage that is handed over,  *)
(* one comes from the memory, and one is asked for.                         *)
Moves == ~Full(cdc) /\ Full(dma)

Gets(answered) == answered /\ sent

Asks == ~Full(dma) /\ ~sent /\ ~done

Row == x >= Width - Burst

LastMove == Moves /\ Row /\ y = Height - 1

Works(taken, answered) ==
    /\ answered => asked # <<>>
    /\ taken => request /\ asked = <<>>
    /\ asked' = (IF answered THEN Tail(asked) ELSE asked) \o (IF taken THEN <<next>> ELSE <<>>)
    /\ send' = IF send /\ ack THEN FALSE ELSE send \/ (Full(cdc) /\ ~ack)
    /\ crossing' = IF ~send /\ send' THEN cdc ELSE crossing
    /\ cdc' = IF Moves THEN [x |-> at.x + x, y |-> at.y + y, n |-> dma.n]
              ELSE IF send /\ ack THEN Empty ELSE cdc
    /\ dma' = IF Gets(answered) THEN [x |-> 0, y |-> 0, n |-> Head(asked)]
              ELSE IF Moves THEN Empty ELSE dma
    /\ sent' = ((sent /\ ~Gets(answered)) \/ Asks)
    /\ request' = ((request /\ ~taken) \/ Asks)

Advances ==
    /\ next' = IF Moves THEN next + Burst ELSE next
    /\ x' = IF ~Moves \/ (Row /\ y = Height - 1) THEN x ELSE IF Row THEN 0 ELSE x + Burst
    /\ y' = IF Moves /\ Row /\ y < Height - 1 THEN y + 1 ELSE y
    /\ done' = ((done \/ LastMove) /\ ~(vblank /\ vsync))
    /\ framed' = IF done /\ ~done' THEN at ELSE framed
    /\ due' = IF done /\ ~done' THEN 0 ELSE due
    /\ cut' = (cut /\ ~(done /\ ~done'))
    /\ at' = at

(* A cycle of the CPU clock, when the fetch is not reset, in these words.   *)
LEMMA CycleIs ==
    ASSUME NEW answered \in BOOLEAN, CpuCycle(answered), ~(vblank /\ ~vsync)
    PROVE  Advances /\ \E taken \in BOOLEAN : Works(taken, answered)
<1>1. PICK taken \in IF request /\ asked = <<>> THEN BOOLEAN ELSE {FALSE} :
        /\ asked' = (IF answered THEN Tail(asked) ELSE asked) \o (IF taken THEN <<next>> ELSE <<>>)
        /\ DoCpuCycle(taken, answered)
  BY DEF CpuCycle
<1>2. taken \in BOOLEAN /\ (taken => request /\ asked = <<>>) /\ (answered => asked # <<>>)
  BY DEF CpuCycle
<1>3. Advances
  BY <1>1, Zenon DEF DoCpuCycle, Advances, LastMove, Moves, Row
<1>4. Works(taken, answered)
  BY <1>1, <1>2, Zenon DEF DoCpuCycle, Works, Moves, Gets, Asks
<1> QED
  BY <1>2, <1>3, <1>4

(* The frame begins, with nothing on its way.                               *)
LEMMA BeginsInv ==
    ASSUME DisplayInv, NEW answered \in BOOLEAN, CpuCycle(answered), vblank, vsync, done
    PROVE  DisplayInv'
<1>1. /\ UNCHANGED <<place, heading, start, vblank, vsync>>
      /\ UNCHANGED <<ack, hdmi, outp, fill, buffered, cx, cy, garbled>>
      /\ prevVblank' = vblank
      /\ (RasterBlank' <=> RasterBlank) /\ (RasterSync' <=> RasterSync)
  BY CpuLeaves
<1>2. Advances
  BY CycleIs
<1>3. PICK taken \in BOOLEAN : Works(taken, answered)
  BY CycleIs
<1>4. RasterBlank /\ Quiet
  BY DEF DisplayInv, Begins
<1>5. RasterSync /\ prevVblank
  BY <1>4 DEF DisplayInv, Bits
<1>6. next = 0 /\ x = 0 /\ y = 0
  BY <1>5 DEF DisplayInv, Begins
<1>7. ~Moves /\ ~Gets(answered) /\ ~Asks
  BY <1>4 DEF Quiet, Moves, Gets, Asks
<1>8. /\ done' = FALSE /\ cut' = FALSE /\ framed' = at /\ at' = at /\ due' = 0
      /\ next' = 0 /\ x' = 0 /\ y' = 0
  BY <1>2, <1>6, <1>7 DEF Advances, LastMove
<1>9. /\ sent' = FALSE /\ request' = FALSE /\ asked' = <<>> /\ send' = FALSE
      /\ ~Full(cdc)' /\ ~Full(dma)'
  <2>1. ~answered /\ ~taken /\ asked = <<>>
    BY <1>3, <1>4 DEF Works, Quiet
  <2>2. asked' = <<>>
    BY <1>3, <2>1 DEF Works
  <2>3. sent' = FALSE /\ request' = FALSE /\ send' = FALSE
    BY <1>3, <1>4, <1>7 DEF Works, Quiet
  <2>4. cdc' = cdc /\ dma' = dma
    BY <1>3, <1>4, <1>7 DEF Works, Quiet
  <2> QED
    BY <1>4, <2>2, <2>3, <2>4 DEF Quiet, Full
<1>10. ~Full(hdmi)' /\ ~Full(outp)' /\ ~Full(buffered)' /\ fill' = 0
  BY <1>1, <1>4 DEF Quiet, Full, DisplayInv, Line
<1>11. Bits' /\ Follow' /\ ~garbled'
  BY CpuBits
<1>12. Crawls'
  BY <1>1, <1>8 DEF DisplayInv, Crawls, OnScreen
<1>13. Begins'
  BY <1>1, <1>8, <1>9 DEF Begins, DisplayInv
<1>14. Early'
  BY <1>8, <1>10 DEF Early
<1>15. Line'
  BY <1>1, <1>8, <1>9, <1>10, NumbersAre DEF Line, DisplayInv
<1>16. Arrived' = 0 /\ Handed' = 0
  BY <1>8, <1>9, <1>10 DEF Arrived, Handed
<1>17. Place'
  <2>1. Burst \in Nat /\ Width \in Nat /\ Width - Burst \in Nat /\ Height - 1 \in Nat
    BY PictureIs, NumbersAre
  <2>2. 0 = 0 * Burst /\ 0 \in Nat /\ 0 = 0 * Width + 0
    BY <2>1
  <2>3. \E k \in Nat : x' = k * Burst
    BY <1>8, <2>2
  <2> QED
    BY <1>8, <1>16, <2>1, <2>2, <2>3 DEF Place
<1>18. Fetch' /\ Hands'
  BY <1>8, <1>9 DEF Fetch, Hands
<1> QED
  BY <1>11, <1>12, <1>13, <1>14, <1>15, <1>17, <1>18 DEF DisplayInv

(* The handshake latches the burst that follows those that have arrived.    *)
LEMMA Crosses ==
    ASSUME DisplayInv, UNCHANGED <<ack, framed>>, Arrived' = Arrived,
           send' = IF send /\ ack THEN FALSE ELSE send \/ (Full(cdc) /\ ~ack),
           crossing' = IF ~send /\ send' THEN cdc ELSE crossing
    PROVE  /\ send' \in BOOLEAN
           /\ send' /\ ~ack' => Shows(framed', crossing', Arrived', Burst)
<1>1. send \in BOOLEAN /\ ack \in BOOLEAN /\ send' \in BOOLEAN
  BY Zenon DEF DisplayInv, Line
<1>2. cut => ~Full(cdc)
  BY DEF DisplayInv, Fetch
<1>3. CASE send
  BY <1>1, <1>3 DEF DisplayInv, Line
<1>4. CASE ~send
  BY <1>1, <1>2, <1>4 DEF DisplayInv, Hands
<1> QED
  BY <1>3, <1>4

(* A burst that is handed over counts until it has arrived.                 *)
LEMMA HandsOver ==
    ASSUME DisplayInv, UNCHANGED <<ack, framed>>, Arrived' = Arrived, ~cut,
           send' = IF send /\ ack THEN FALSE ELSE send \/ (Full(cdc) /\ ~ack),
           crossing' = IF ~send /\ send' THEN cdc ELSE crossing,
           cdc' = IF send /\ ack THEN Empty ELSE cdc
    PROVE  /\ Handed' = Handed
           /\ send' => Full(cdc') /\ crossing' = cdc'
           /\ Full(cdc') => Shows(framed', cdc', IF send' /\ ack' THEN Arrived' - Burst ELSE Arrived', Burst)
<1>1. send \in BOOLEAN /\ ack \in BOOLEAN
  BY DEF DisplayInv, Line
<1>2. ~Full(Empty)
  BY DEF Full, Empty
<1>3. /\ send => Full(cdc) /\ crossing = cdc
      /\ Full(cdc) => Shows(framed, cdc, IF send /\ ack THEN Arrived - Burst ELSE Arrived, Burst)
  BY DEF DisplayInv, Hands
<1>4. CASE send /\ ack
  <2>1. send' = FALSE /\ ~Full(cdc') /\ ack' = ack
    BY <1>2, <1>4
  <2> QED
    BY <1>4, <2>1 DEF Handed
<1>5. CASE ~(send /\ ack)
  <2>1. cdc' = cdc /\ ~(send' /\ ack') /\ ack' = ack /\ send' = (send \/ (Full(cdc) /\ ~ack))
    BY <1>1, <1>5
  <2>2. send' => Full(cdc') /\ crossing' = cdc'
    BY <1>1, <1>3, <2>1
  <2>3. Full(cdc') => Shows(framed', cdc', Arrived', Burst)
    BY <1>3, <1>5, <2>1
  <2> QED
    BY <1>5, <2>1, <2>2, <2>3 DEF Handed
<1> QED
  BY <1>4, <1>5

(* Between the frames the last burst is handed over, and nothing is fetched. *)
LEMMA RestsInv ==
    ASSUME DisplayInv, NEW answered \in BOOLEAN, CpuCycle(answered), ~vblank, done
    PROVE  DisplayInv'
<1>1. /\ UNCHANGED <<place, heading, start, vblank, vsync>>
      /\ UNCHANGED <<ack, hdmi, outp, fill, buffered, cx, cy, garbled>>
      /\ prevVblank' = vblank
      /\ (RasterBlank' <=> RasterBlank) /\ (RasterSync' <=> RasterSync)
  BY CpuLeaves
<1>2. Advances
  BY CycleIs
<1>3. PICK taken \in BOOLEAN : Works(taken, answered)
  BY CycleIs
<1>4. ~sent /\ ~Moves /\ ~Gets(answered) /\ ~Asks
  BY DEF DisplayInv, Fetch, Moves, Gets, Asks
<1>5. /\ done' = TRUE /\ cut' = cut /\ framed' = framed /\ at' = at /\ due' = due
      /\ next' = next /\ x' = x /\ y' = y
  BY <1>2, <1>4 DEF Advances, LastMove, DisplayInv, Begins
<1>6. /\ send' = IF send /\ ack THEN FALSE ELSE send \/ (Full(cdc) /\ ~ack)
      /\ crossing' = IF ~send /\ send' THEN cdc ELSE crossing
      /\ cdc' = IF send /\ ack THEN Empty ELSE cdc
      /\ dma' = dma /\ sent' = FALSE /\ request' = (request /\ ~taken)
  BY <1>3, <1>4 DEF Works
<1>7. asked = <<>> /\ ~request => asked' = <<>> /\ ~request'
  BY <1>3, <1>6 DEF Works
<1>8. ~cut => asked = <<>> /\ ~request
  BY <1>4 DEF DisplayInv, Fetch
<1>9. ~Full(Empty)
  BY DEF Full, Empty
<1>10. Quiet => Quiet'
  BY <1>1, <1>5, <1>6, <1>7 DEF Quiet, Full
<1>11. Bits' /\ Follow' /\ ~garbled'
  BY CpuBits
<1>12. Crawls'
  BY <1>1, <1>5 DEF DisplayInv, Crawls, OnScreen
<1>13. Begins'
  BY <1>1, <1>5, <1>6, <1>10 DEF DisplayInv, Bits, Begins
<1>14. Early'
  BY <1>5 DEF Early
<1>15. Arrived' = Arrived
  BY <1>1, <1>5 DEF Arrived
<1>16. Line'
  <2>1. send' \in BOOLEAN /\ (send' /\ ~ack' => Shows(framed', crossing', Arrived', Burst))
    BY <1>1, <1>5, <1>6, <1>15, Crosses
  <2> QED
    BY <1>1, <1>5, <1>15, <2>1 DEF DisplayInv, Line
<1>17. Place'
  BY <1>5 DEF DisplayInv, Place
<1>18. Fetch'
  BY <1>5, <1>6, <1>7, <1>8, <1>9 DEF DisplayInv, Fetch
<1>19. Hands'
  <2> SUFFICES ASSUME ~cut PROVE Hands'
    BY <1>5 DEF Hands
  <2>1. /\ Handed' = Handed
        /\ send' => Full(cdc') /\ crossing' = cdc'
        /\ Full(cdc') => Shows(framed', cdc', IF send' /\ ack' THEN Arrived' - Burst ELSE Arrived', Burst)
    BY <1>1, <1>5, <1>6, <1>15, HandsOver
  <2>2. Handed = Pixels
    BY DEF DisplayInv, Hands
  <2> QED
    BY <2>1, <2>2 DEF Hands
<1> QED
  BY <1>11, <1>12, <1>13, <1>14, <1>16, <1>17, <1>18, <1>19 DEF DisplayInv

(* The last burst of the picture.                                           *)
LEMMA LastBurst == (Height - 1) * Width + (Width - Burst) + Burst = Pixels
<1>1. Height \in Nat /\ Width \in Nat /\ Burst \in Nat
  BY NumbersAre
<1>2. \A h \in Nat, w \in Nat : (h - 1) * w + w = w * h
  OBVIOUS
<1>3. (Height - 1) * Width \in Int
  BY <1>1
<1> QED
  BY <1>1, <1>2, <1>3 DEF Pixels

(* The fetch does not end while both bits are up.                           *)
LEMMA NotYet ==
    ASSUME DisplayInv, ~done, vblank, vsync
    PROVE  ~LastMove
<1> SUFFICES ASSUME LastMove PROVE FALSE
  OBVIOUS
<1>1. due + fill \in {0, Burst}
  BY DEF DisplayInv, Early
<1>2. Handed = Arrived
  <2>1. Arrived \in Nat /\ ~Full(cdc)
    BY ArrivedIs DEF DisplayInv, LastMove, Moves
  <2> QED
    BY <2>1 DEF Handed
<1>3. Burst \in Nat /\ Width \in Nat /\ Burst > 2 /\ Burst * 4 <= Pixels /\ Pixels \in Nat
  BY PictureIs, NumbersAre
<1>4. Arrived <= Burst + Burst /\ Arrived \in Nat
  BY <1>1, <1>3, ArrivedIs DEF DisplayInv, Arrived
<1>5. x = Width - Burst /\ y = Height - 1
  BY <1>3 DEF DisplayInv, Place, LastMove, Row
<1>6. next = Arrived /\ next = (Height - 1) * Width + (Width - Burst) /\ next \in Nat
  BY <1>2, <1>5 DEF DisplayInv, Place
<1>7. next + Burst = Pixels
  BY <1>6, LastBurst
<1> QED
  BY <1>3, <1>4, <1>6, <1>7

(* A burst that comes from the memory is given its place in the picture.    *)
LEMMA TakesPlace ==
    ASSUME DisplayInv, ~done, Moves,
           cdc' = [x |-> at.x + x, y |-> at.y + y, n |-> dma.n], UNCHANGED framed
    PROVE  Shows(framed', cdc', Arrived, Burst) /\ next = Arrived
<1>1. Arrived \in Nat /\ Handed = Arrived
  BY ArrivedIs DEF DisplayInv, Moves, Handed
<1>2. at = framed /\ next = Arrived /\ next = y * Width + x
  BY <1>1 DEF DisplayInv, Place
<1>3. dma.n = next
  BY DEF DisplayInv, Begins, Fetch, Moves
<1>4. cdc'.n = Arrived /\ cdc'.x = framed.x + x /\ cdc'.y = framed.y + y
  BY <1>2, <1>3
<1>5. framed.x \in Int /\ framed.y \in Int
  BY NumbersAre DEF DisplayInv, Crawls, OnScreen
<1>6. /\ x \in 0 .. (Width - Burst) /\ y \in 0 .. (Height - 1)
      /\ Width \in Nat /\ Burst \in Nat /\ Height \in Nat
  BY NumbersAre DEF DisplayInv, Place
<1>7. cdc'.y - framed.y = y /\ cdc'.x - framed.x = x
  BY <1>4, <1>5, <1>6
<1>8. cdc'.n = (cdc'.y - framed.y) * Width + cdc'.x - framed.x
  <2>1. y * Width \in Int
    BY <1>6
  <2>2. y * Width + cdc'.x - framed.x = y * Width + x
    BY <1>4, <1>5, <1>6, <2>1
  <2> QED
    BY <1>2, <1>4, <1>7, <2>2
<1>9. /\ cdc'.x \in Int /\ cdc'.y \in Int
      /\ framed.x <= cdc'.x /\ cdc'.x + Burst <= framed.x + Width
      /\ framed.y <= cdc'.y /\ cdc'.y < framed.y + Height
  BY <1>4, <1>5, <1>6
<1>10. Shows(framed, cdc', Arrived, Burst)
  BY <1>1, <1>4, <1>8, <1>9 DEF Shows
<1> QED
  BY <1>2, <1>10

(* The next place of the fetch.                                             *)
LEMMA NextPlace ==
    ASSUME DisplayInv, ~done, Moves, Advances
    PROVE  /\ x' \in 0 .. (Width - Burst) /\ (\E k \in Nat : x' = k * Burst) /\ y' \in 0 .. (Height - 1)
           /\ next' = next + Burst /\ next' \in Nat
           /\ ~LastMove => next' = y' * Width + x'
           /\ LastMove => next' = Pixels
<1>1. /\ x \in 0 .. (Width - Burst) /\ (\E k \in Nat : x = k * Burst) /\ y \in 0 .. (Height - 1)
      /\ next \in Nat /\ next = y * Width + x
  BY DEF DisplayInv, Place
<1>2. /\ Width \in Nat /\ Burst \in Nat /\ Height \in Nat /\ Width - Burst \in Nat /\ Height - 1 \in Nat
  BY PictureIs, NumbersAre
<1>3. next' = next + Burst /\ next' \in Nat
  BY <1>1, <1>2 DEF Advances
<1>4. CASE LastMove
  <2>1. x' = x /\ y' = y
    BY <1>1, <1>2, <1>4 DEF Advances, LastMove
  <2>2. x = Width - Burst /\ y = Height - 1
    BY <1>1, <1>2, <1>4 DEF LastMove, Row
  <2>3. next = (Height - 1) * Width + (Width - Burst)
    BY <1>1, <2>2
  <2>4. next' = Pixels
    BY <1>3, <2>3, LastBurst
  <2> QED
    BY <1>1, <1>3, <1>4, <2>1, <2>4
<1>5. CASE ~Row
  <2>1. ~LastMove /\ x' = x + Burst /\ y' = y
    BY <1>5 DEF Advances, LastMove
  <2>2. x < Width - Burst
    BY <1>1, <1>2, <1>5 DEF Row
  <2>3. x' \in 0 .. (Width - Burst) /\ \E k \in Nat : x' = k * Burst
    BY <1>1, <2>1, <2>2, NextBurst
  <2>4. y * Width \in Int
    BY <1>1, <1>2
  <2>5. next' = y' * Width + x'
    BY <1>1, <1>2, <1>3, <2>1, <2>4
  <2> QED
    BY <1>1, <1>3, <2>1, <2>3, <2>5
<1>6. CASE Row /\ ~LastMove
  <2>1. y # Height - 1 /\ y < Height - 1
    BY <1>1, <1>2, <1>6 DEF LastMove
  <2>2. x' = 0 /\ y' = y + 1
    BY <1>6, <2>1 DEF Advances
  <2>3. x = Width - Burst
    BY <1>1, <1>2, <1>6 DEF Row
  <2>4. y' \in 0 .. (Height - 1) /\ x' \in 0 .. (Width - Burst)
    BY <1>1, <1>2, <2>1, <2>2
  <2>5. x' = 0 * Burst /\ 0 \in Nat
    BY <1>2, <2>2
  <2>6. y * Width \in Int /\ (y + 1) * Width = y * Width + Width
    BY <1>1, <1>2
  <2>7. next' = y' * Width + x'
    BY <1>1, <1>2, <1>3, <2>2, <2>3, <2>6
  <2> QED
    BY <1>3, <1>6, <2>4, <2>5, <2>7
<1> QED
  BY <1>4, <1>5, <1>6

(* What the fetch waits for, whether a burst moves or not.                  *)
LEMMA WorksFetch ==
    ASSUME DisplayInv, ~done, NEW answered \in BOOLEAN, NEW taken \in BOOLEAN,
           Works(taken, answered), Advances, done' = LastMove, cut' = FALSE
    PROVE  Fetch'
<1>1. /\ request => sent /\ asked = <<>>
      /\ asked # <<>> => asked = <<next>> /\ sent /\ ~request
      /\ sent => ~Full(dma)
      /\ Full(dma) => dma.n = next
  BY DEF DisplayInv, Begins, Fetch
<1>2. sent \in BOOLEAN
  BY DEF DisplayInv, Begins
<1>3. /\ answered => asked # <<>>
      /\ taken => request /\ asked = <<>>
      /\ asked' = (IF answered THEN Tail(asked) ELSE asked) \o (IF taken THEN <<next>> ELSE <<>>)
      /\ dma' = IF Gets(answered) THEN [x |-> 0, y |-> 0, n |-> Head(asked)]
                ELSE IF Moves THEN Empty ELSE dma
      /\ sent' = ((sent /\ ~Gets(answered)) \/ Asks)
      /\ request' = ((request /\ ~taken) \/ Asks)
  BY Zenon DEF Works
<1>4. ~Moves => next' = next /\ ~LastMove
  BY DEF Advances, LastMove
<1>5. sent => ~Moves
  BY <1>1 DEF Moves
<1>6. ~Full(Empty)
  BY DEF Full, Empty
<1>7. CASE answered
  <2>1. asked = <<next>> /\ sent /\ ~request /\ ~taken /\ ~Moves /\ ~Asks /\ Gets(answered)
    BY <1>1, <1>3, <1>5, <1>7 DEF Asks, Gets
  <2>2. asked' = <<>>
    BY <1>3, <1>7, <2>1
  <2>3. sent' = FALSE /\ request' = FALSE
    BY <1>3, <2>1
  <2>4. dma'.n = next' /\ ~LastMove
    BY <1>3, <1>4, <2>1
  <2> QED
    BY <2>2, <2>3, <2>4 DEF Fetch
<1>8. CASE ~answered /\ sent
  <2>1. ~Moves /\ ~Asks /\ ~Gets(answered) /\ dma' = dma /\ sent' = TRUE /\ next' = next /\ ~LastMove
    BY <1>3, <1>4, <1>5, <1>8 DEF Asks, Gets
  <2>2. ~Full(dma')
    BY <1>1, <1>8, <2>1
  <2>3. CASE taken
    <3>1. asked' = <<next>> /\ request' = FALSE
      BY <1>3, <1>8, <2>1, <2>3
    <3> QED
      BY <2>1, <2>2, <3>1 DEF Fetch
  <2>4. CASE ~taken
    <3>1. asked' = asked /\ (request' <=> request)
      BY <1>1, <1>3, <1>8, <2>1, <2>4
    <3> QED
      BY <1>1, <2>1, <2>2, <3>1 DEF Fetch
  <2> QED
    BY <2>3, <2>4
<1>9. CASE ~sent
  <2>1. ~request /\ asked = <<>> /\ ~taken /\ ~answered /\ ~Gets(answered)
    BY <1>1, <1>3, <1>9 DEF Gets
  <2>2. asked' = <<>> /\ (sent' <=> Asks) /\ (request' <=> Asks)
    <3>1. asked' = <<>>
      BY <1>3, <2>1
    <3>2. sent' = ((sent /\ ~Gets(answered)) \/ Asks) /\ request' = ((request /\ ~taken) \/ Asks)
      BY <1>3
    <3>3. sent' <=> Asks
      BY <1>9, <3>2
    <3>4. request' <=> Asks
      BY <2>1, <3>2
    <3> QED
      BY <3>1, <3>3, <3>4
  <2>3. CASE Asks
    <3>1. ~Moves /\ dma' = dma /\ ~Full(dma') /\ ~LastMove
      BY <1>3, <1>4, <2>1, <2>3 DEF Asks, Moves
    <3> QED
      BY <2>2, <2>3, <3>1 DEF Fetch
  <2>4. CASE ~Asks /\ Moves
    <3>1. dma' = Empty /\ ~Full(dma')
      BY <1>3, <1>6, <2>1, <2>4
    <3> QED
      BY <2>2, <2>4, <3>1 DEF Fetch
  <2>5. CASE ~Asks /\ ~Moves
    <3>1. dma' = dma /\ next' = next /\ ~LastMove
      BY <1>3, <1>4, <2>1, <2>5
    <3> QED
      BY <1>1, <2>2, <2>5, <3>1 DEF Fetch
  <2> QED
    BY <2>3, <2>4, <2>5
<1> QED
  BY <1>7, <1>8, <1>9

(* The fetch within a frame.                                                *)
LEMMA WorksInv ==
    ASSUME DisplayInv, NEW answered \in BOOLEAN, CpuCycle(answered), ~done, ~(vblank /\ ~vsync)
    PROVE  DisplayInv'
<1>1. /\ UNCHANGED <<place, heading, start, vblank, vsync>>
      /\ UNCHANGED <<ack, hdmi, outp, fill, buffered, cx, cy, garbled>>
      /\ prevVblank' = vblank
      /\ (RasterBlank' <=> RasterBlank) /\ (RasterSync' <=> RasterSync)
  BY CpuLeaves
<1>2. Advances
  BY CycleIs
<1>3. PICK taken \in BOOLEAN : Works(taken, answered)
  BY CycleIs
<1>4. ~cut
  BY DEF DisplayInv, Begins
<1>5. vblank /\ vsync => ~LastMove
  BY NotYet
<1>6. /\ done' = LastMove /\ cut' = FALSE /\ framed' = framed /\ at' = at /\ due' = due
      /\ LastMove \in BOOLEAN
  BY <1>2, <1>4, <1>5 DEF Advances, LastMove, DisplayInv, Begins
<1>7. /\ send' = IF send /\ ack THEN FALSE ELSE send \/ (Full(cdc) /\ ~ack)
      /\ crossing' = IF ~send /\ send' THEN cdc ELSE crossing
      /\ cdc' = IF Moves THEN [x |-> at.x + x, y |-> at.y + y, n |-> dma.n]
                ELSE IF send /\ ack THEN Empty ELSE cdc
  BY <1>3, Zenon DEF Works
<1>8. Fetch'
  BY <1>2, <1>3, <1>6, WorksFetch
<1>9. Bits' /\ Follow' /\ ~garbled'
  BY CpuBits
<1>10. Crawls'
  BY <1>1, <1>6 DEF DisplayInv, Crawls, OnScreen
<1>11. LastMove => ~vblank /\ ~RasterBlank
  <2>1. LastMove => ~vblank
    BY <1>5
  <2>2. ~vblank => ~RasterSync
    BY DEF DisplayInv, Bits
  <2>3. RasterBlank /\ ~RasterSync => done
    BY DEF DisplayInv, Bits, Begins
  <2> QED
    BY <2>1, <2>2, <2>3
<1>12. sent' \in BOOLEAN
  BY <1>3 DEF Works
<1>13. Begins'
  BY <1>1, <1>5, <1>6, <1>11, <1>12 DEF DisplayInv, Begins
<1>14. Early'
  BY <1>1, <1>6 DEF DisplayInv, Early
<1>15. Arrived' = Arrived /\ Arrived \in Nat
  BY <1>1, <1>6, ArrivedIs DEF DisplayInv, Arrived
<1>16. Line'
  <2>1. send' \in BOOLEAN /\ (send' /\ ~ack' => Shows(framed', crossing', Arrived', Burst))
    BY <1>1, <1>6, <1>7, <1>15, Crosses
  <2> QED
    BY <1>1, <1>6, <1>15, <2>1 DEF DisplayInv, Line
<1>17. CASE Moves
  <2>1. ~send
    BY <1>4, <1>17 DEF DisplayInv, Hands, Moves
  <2>2. send' = FALSE /\ cdc' = [x |-> at.x + x, y |-> at.y + y, n |-> dma.n]
    BY <1>7, <1>17, <2>1 DEF Moves, DisplayInv, Line
  <2>3. Shows(framed', cdc', Arrived, Burst) /\ next = Arrived
    BY <1>6, <1>17, <2>2, TakesPlace
  <2>4. Full(cdc')
    BY <2>3 DEF Shows, Full
  <2>5. Handed' = Arrived + Burst
    BY <1>15, <2>2, <2>4 DEF Handed
  <2>6. /\ x' \in 0 .. (Width - Burst) /\ (\E k \in Nat : x' = k * Burst) /\ y' \in 0 .. (Height - 1)
        /\ next' = next + Burst /\ next' \in Nat
        /\ ~LastMove => next' = y' * Width + x'
        /\ LastMove => next' = Pixels
    BY <1>2, <1>17, NextPlace
  <2>7. Place'
    <3>1. at' = framed'
      BY <1>6 DEF DisplayInv, Place
    <3> QED
      BY <1>6, <2>3, <2>5, <2>6, <3>1 DEF Place
  <2>8. Hands'
    BY <1>6, <1>15, <2>2, <2>3, <2>5, <2>6 DEF Hands
  <2> QED
    BY <1>6, <1>8, <1>9, <1>10, <1>13, <1>14, <1>16, <2>7, <2>8 DEF DisplayInv
<1>18. CASE ~Moves
  <2>1. cdc' = IF send /\ ack THEN Empty ELSE cdc
    BY <1>7, <1>18
  <2>2. /\ Handed' = Handed
        /\ send' => Full(cdc') /\ crossing' = cdc'
        /\ Full(cdc') => Shows(framed', cdc', IF send' /\ ack' THEN Arrived' - Burst ELSE Arrived', Burst)
    BY <1>1, <1>4, <1>6, <1>7, <1>15, <2>1, HandsOver
  <2>3. x' = x /\ y' = y /\ next' = next /\ done' = FALSE
    BY <1>2, <1>6, <1>18 DEF Advances, LastMove
  <2>4. Place'
    BY <1>6, <2>2, <2>3 DEF DisplayInv, Place
  <2>5. Hands'
    BY <2>2, <2>3 DEF Hands
  <2> QED
    BY <1>8, <1>9, <1>10, <1>13, <1>14, <1>16, <2>4, <2>5 DEF DisplayInv
<1> QED
  BY <1>17, <1>18

(* A cycle of the CPU clock is one of those four.                           *)
LEMMA CpuCycleInv ==
    ASSUME DisplayInv, NEW answered \in BOOLEAN, CpuCycle(answered)
    PROVE  DisplayInv'
<1>1. vblank \in BOOLEAN /\ vsync \in BOOLEAN /\ done \in BOOLEAN
  BY DEF DisplayInv, Bits, Begins
<1>2. CASE vblank /\ ~vsync
  BY <1>2, ResetInv
<1>3. CASE ~(vblank /\ ~vsync) /\ ~done
  BY <1>3, WorksInv
<1>4. CASE vblank /\ vsync /\ done
  BY <1>4, BeginsInv
<1>5. CASE ~vblank /\ done
  BY <1>5, RestsInv
<1> QED
  BY <1>1, <1>2, <1>3, <1>4, <1>5

-----------------------------------------------------------------------------
(* A cycle of the pixel clock.                                              *)

(* Where a counter goes that starts over at n.                              *)
LEMMA Around ==
    ASSUME NEW n \in Nat, n > 0, NEW a \in 0 .. (n - 1)
    PROVE  (a + 1) % n = IF a = n - 1 THEN 0 ELSE a + 1
  OBVIOUS

(* The raster goes on, and passes from the screen to the blanking, to the   *)
(* sync and back to the first pixel.                                        *)
LEMMA RasterMoves ==
    ASSUME Bits, Raster
    PROVE  /\ cx' \in 0 .. (FrameWidth - 1) /\ cy' \in 0 .. (FrameHeight - 1)
           /\ cx' = (IF cx = FrameWidth - 1 THEN 0 ELSE cx + 1)
           /\ cy' = (IF cx # FrameWidth - 1 THEN cy ELSE IF cy = FrameHeight - 1 THEN 0 ELSE cy + 1)
<1>1. cx \in 0 .. (FrameWidth - 1) /\ cy \in 0 .. (FrameHeight - 1)
  BY DEF Bits
<1>2. FrameWidth \in Nat /\ FrameWidth > 0 /\ FrameHeight \in Nat /\ FrameHeight > 0
  BY NumbersAre
<1>3. cx' = (IF cx = FrameWidth - 1 THEN 0 ELSE cx + 1)
  BY <1>1, <1>2, Around DEF Raster
<1>4. (cy + 1) % FrameHeight = IF cy = FrameHeight - 1 THEN 0 ELSE cy + 1
  BY <1>1, <1>2, Around
<1>5. cy' = (IF cx # FrameWidth - 1 THEN cy ELSE IF cy = FrameHeight - 1 THEN 0 ELSE cy + 1)
  BY <1>4 DEF Raster
<1> QED
  BY <1>1, <1>2, <1>3, <1>5

(* What the turns of the raster mean for the blanking and the sync.         *)
LEMMA RasterTurns ==
    ASSUME Bits, Raster
    PROVE  /\ ~RasterBlank /\ RasterBlank' => cy # 0
           /\ RasterBlank /\ ~RasterBlank' => RasterSync /\ cx' = 0 /\ cy' = 0
           /\ RasterSync /\ RasterBlank' => RasterSync'
           /\ RasterSync' => RasterBlank' /\ RasterBlank
           /\ RasterSync => RasterBlank
           /\ ~RasterBlank /\ cy = 0 /\ cx = 0 => cy' = 0 /\ cx' = 1
<1>1. cx \in 0 .. (FrameWidth - 1) /\ cy \in 0 .. (FrameHeight - 1)
  BY DEF Bits
<1>2. /\ cx' \in 0 .. (FrameWidth - 1) /\ cy' \in 0 .. (FrameHeight - 1)
      /\ cx' = (IF cx = FrameWidth - 1 THEN 0 ELSE cx + 1)
      /\ cy' = (IF cx # FrameWidth - 1 THEN cy ELSE IF cy = FrameHeight - 1 THEN 0 ELSE cy + 1)
  BY RasterMoves
<1>3. /\ ScreenWidth \in Nat /\ ScreenHeight \in Nat /\ FrameWidth \in Nat /\ FrameHeight \in Nat
      /\ FrameWidth > ScreenWidth /\ FrameHeight > ScreenHeight + 2 /\ ScreenHeight > 0 /\ ScreenWidth > 1
  BY PictureIs, NumbersAre
<1>4. ~RasterBlank /\ RasterBlank' => cy # 0
  BY <1>1, <1>2, <1>3 DEF RasterBlank
<1>5. RasterBlank /\ ~RasterBlank' => RasterSync /\ cx' = 0 /\ cy' = 0
  BY <1>1, <1>2, <1>3 DEF RasterBlank, RasterSync
<1>6. RasterSync /\ RasterBlank' => RasterSync'
  BY <1>1, <1>2, <1>3 DEF RasterBlank, RasterSync
<1>7. RasterSync' => RasterBlank' /\ RasterBlank
  BY <1>1, <1>2, <1>3 DEF RasterBlank, RasterSync
<1>8. RasterSync => RasterBlank
  BY <1>1, <1>3 DEF RasterBlank, RasterSync
<1>9. cy = 0 /\ cx = 0 => cy' = 0 /\ cx' = 1
  BY <1>2, <1>3
<1> QED
  BY <1>4, <1>5, <1>6, <1>7, <1>8, <1>9

(* The stages of the pixel clock.  A burst comes over the handshake, and    *)
(* goes to the output when that is empty or holds its last pixel.           *)
Refills == Full(hdmi) /\ (~Full(outp) \/ fill = 1)

Receives == ~Full(hdmi) /\ send /\ ~ack

Shifts ==
    /\ buffered' = IF Pops THEN outp ELSE IF Acks THEN Empty ELSE buffered
    /\ outp' = IF Refills THEN hdmi
               ELSE IF Pops /\ fill = 1 THEN Empty
               ELSE IF Pops THEN [x |-> outp.x + 1, y |-> outp.y, n |-> outp.n + 1] ELSE outp
    /\ fill' = IF Refills THEN Burst ELSE IF Pops THEN fill - 1 ELSE fill
    /\ hdmi' = IF Receives THEN crossing ELSE IF Refills THEN Empty ELSE hdmi
    /\ ack' = IF Receives THEN TRUE ELSE ack /\ send
    /\ due' = IF Pops THEN due + 1 ELSE due

(* A cycle of the pixel clock, in these words.                              *)
LEMMA PixelLeaves ==
    ASSUME PixelCycle
    PROVE  /\ UNCHANGED <<place, heading, start, vblank, vsync, prevVblank>>
           /\ UNCHANGED <<done, sent, request, asked, at, next, x, y, dma, cdc, send, crossing, framed, cut>>
           /\ Raster /\ Shifts
<1>1. UNCHANGED <<crawlVars, vblank, vsync, prevVblank, fetchVars, framed, cut>>
  BY DEF PixelCycle
<1>2. Stages /\ Raster /\ due' = IF Pops THEN due + 1 ELSE due
  BY DEF PixelCycle
<1>3. Shifts
  BY <1>2, Zenon DEF Stages, Shifts, Refills, Receives
<1> QED
  BY <1>1, <1>2, <1>3 DEF crawlVars, fetchVars

(* The two bits still say where the raster is.                              *)
LEMMA PixelBits ==
    ASSUME DisplayInv, PixelCycle
    PROVE  Bits' /\ Begins'
<1>1. /\ UNCHANGED <<vblank, vsync, prevVblank>>
      /\ UNCHANGED <<done, sent, request, asked, next, x, y, dma, cdc, send, cut>>
      /\ Raster /\ Shifts
  BY PixelLeaves
<1>2. Bits /\ Begins
  BY DEF DisplayInv
<1>3. /\ ~RasterBlank /\ RasterBlank' => cy # 0
      /\ RasterBlank /\ ~RasterBlank' => RasterSync /\ cx' = 0 /\ cy' = 0
      /\ RasterSync /\ RasterBlank' => RasterSync'
      /\ RasterSync' => RasterBlank' /\ RasterBlank
      /\ RasterSync => RasterBlank
      /\ ~RasterBlank /\ cy = 0 /\ cx = 0 => cy' = 0 /\ cx' = 1
  BY <1>1, <1>2, RasterTurns
<1>4. cx' \in 0 .. (FrameWidth - 1) /\ cy' \in 0 .. (FrameHeight - 1)
  BY <1>1, <1>2, RasterMoves
<1>5. /\ RasterBlank' /\ ~RasterBlank => Settled
      /\ RasterBlank /\ (~RasterBlank' \/ RasterSync' # RasterSync) => Noticed
      /\ cx = 1 /\ cy = 0 => ~vblank /\ ~vsync
  BY DEF PixelCycle
<1>6. ~RasterBlank /\ (vblank \/ vsync) => cx = 0 /\ cy = 0
  <2>1. ~RasterBlank /\ (vblank \/ vsync) => cy = 0 /\ cx <= 1
    BY <1>2 DEF Bits
  <2>2. cx \in Nat
    BY <1>2, NumbersAre DEF Bits
  <2> QED
    BY <1>5, <2>1, <2>2
<1>7. Noticed => vblank = RasterBlank /\ vsync = RasterSync /\ prevVblank = vblank /\ (vblank /\ vsync => ~done)
  BY DEF Noticed
<1>8. (~RasterBlank /\ (vblank \/ vsync) => cy = 0 /\ cx <= 1)'
  <2> SUFFICES ASSUME ~RasterBlank', vblank \/ vsync PROVE cy' = 0 /\ cx' <= 1
    BY <1>1
  <2>1. CASE RasterBlank
    BY <1>3, <2>1
  <2>2. CASE ~RasterBlank
    BY <1>3, <1>6, <2>2
  <2> QED
    BY <2>1, <2>2
<1>9. RasterBlank' /\ ~RasterSync' => ~vsync
  <2> SUFFICES ASSUME RasterBlank', ~RasterSync' PROVE ~vsync
    OBVIOUS
  <2>1. CASE RasterBlank
    BY <1>2, <1>3, <2>1 DEF Bits
  <2>2. CASE ~RasterBlank
    BY <1>3, <1>6, <2>2
  <2> QED
    BY <2>1, <2>2
<1>10. RasterSync' => vblank /\ prevVblank
  <2> SUFFICES ASSUME RasterSync' PROVE vblank /\ prevVblank
    OBVIOUS
  <2>1. CASE RasterSync
    BY <1>2, <2>1 DEF Bits
  <2>2. CASE ~RasterSync
    <3>1. RasterBlank /\ Noticed
      BY <1>3, <1>5, <2>2
    <3> QED
      BY <1>7, <3>1
  <2> QED
    BY <2>1, <2>2
<1>11. Bits'
  BY <1>1, <1>2, <1>4, <1>8, <1>9, <1>10 DEF Bits
<1>12. Settled <=> Quiet
  BY DEF Settled, Quiet
<1>13. RasterBlank' /\ ~vsync => done
  <2>1. CASE RasterBlank
    BY <1>2, <2>1 DEF Begins
  <2>2. CASE ~RasterBlank
    BY <1>5, <2>2 DEF Settled
  <2> QED
    BY <2>1, <2>2
<1>14. RasterBlank' /\ done => Quiet
  <2>1. CASE RasterBlank
    BY <1>2, <2>1 DEF Begins
  <2>2. CASE ~RasterBlank
    BY <1>5, <1>12, <2>2
  <2> QED
    BY <2>1, <2>2
<1>15. Quiet => Quiet'
  <2> SUFFICES ASSUME Quiet PROVE Quiet'
    OBVIOUS
  <2>1. ~Pops /\ Acks /\ ~Refills /\ ~Receives
    BY DEF Quiet, Pops, Acks, Refills, Receives
  <2>2. buffered' = Empty /\ outp' = outp /\ hdmi' = hdmi /\ ~ack'
    BY <1>1, <2>1 DEF Shifts, Quiet
  <2>3. ~Full(Empty)
    BY DEF Full, Empty
  <2> QED
    BY <1>1, <2>2, <2>3 DEF Quiet, Full
<1>16. ~RasterBlank' /\ vblank /\ vsync => ~done
  <2>1. CASE RasterBlank
    BY <1>5, <1>7, <2>1
  <2>2. CASE ~RasterBlank
    BY <1>2, <2>2 DEF Begins
  <2> QED
    BY <2>1, <2>2
<1>17. ~RasterBlank' /\ vblank /\ done => cut
  <2> SUFFICES ASSUME ~RasterBlank', vblank, done PROVE cut
    OBVIOUS
  <2>1. CASE RasterBlank
    <3>1. RasterSync /\ Noticed
      BY <1>3, <1>5, <2>1
    <3>2. vsync
      BY <1>7, <3>1
    <3> QED
      BY <1>7, <3>1, <3>2
  <2>2. CASE ~RasterBlank
    BY <1>2, <2>2 DEF Begins
  <2> QED
    BY <2>1, <2>2
<1>18. Begins'
  BY <1>1, <1>2, <1>13, <1>14, <1>15, <1>16, <1>17 DEF Begins
<1> QED
  BY <1>11, <1>18

(* Where the stages are in a step of the pixel clock.                       *)
LEMMA StagesHold ==
    ASSUME DisplayInv
    PROVE  /\ due \in Nat /\ fill \in 0 .. Burst /\ Burst \in Nat /\ Burst > 2
           /\ Full(outp) <=> fill # 0
           /\ Pops => Full(outp)
           /\ Full(outp) /\ fill < Burst - 1 => Pops
           /\ Refills /\ fill # 0 => Pops /\ fill = 1
<1>1. due \in Nat /\ fill \in 0 .. Burst /\ Burst \in Nat /\ Burst > 2 /\ (Full(outp) <=> fill # 0)
  BY NumbersAre DEF DisplayInv, Line
<1>2. Pops => Full(outp)
  BY DEF Pops
<1>3. Full(outp) /\ fill < Burst - 1 => Pops
  <2> SUFFICES ASSUME Full(outp), fill < Burst - 1 PROVE Pops
    OBVIOUS
  <2>1. ~RasterBlank /\ (buffered.y < cy \/ (buffered.y = cy /\ buffered.x <= cx)) /\ Full(buffered)
    BY <1>1 DEF DisplayInv, Follow
  <2>2. buffered.x \in Int /\ cx \in Int
    BY <2>1, NumbersAre DEF DisplayInv, Line, Shows, Bits
  <2>3. Matches \/ Late
    BY <2>1, <2>2 DEF Matches, Late
  <2> QED
    BY <2>3 DEF Pops, Acks
<1>4. Refills /\ fill # 0 => Pops /\ fill = 1
  BY <1>1, <1>3 DEF Refills
<1> QED
  BY <1>1, <1>2, <1>3, <1>4

(* The picture is on the screen, and so is the pixel in the buffer.         *)
LEMMA InPicture ==
    ASSUME DisplayInv, NEW s, NEW n, NEW k \in Nat, k >= 1, Shows(framed, s, n, k)
    PROVE  s.x \in 0 .. (ScreenWidth - 1) /\ s.x + k <= ScreenWidth /\ s.y \in 0 .. (ScreenHeight - 1)
<1>1. framed.x \in 0 .. (ScreenWidth - Width) /\ framed.y \in 0 .. (ScreenHeight - Height)
  BY DEF DisplayInv, Crawls, OnScreen
<1>2. /\ s.x \in Int /\ s.y \in Int
      /\ framed.x <= s.x /\ s.x + k <= framed.x + Width
      /\ framed.y <= s.y /\ s.y < framed.y + Height
  BY DEF Shows
<1> QED
  BY <1>1, <1>2, NumbersAre

(* A pixel leaves the buffer when the raster is at its place or after it.   *)
LEMMA LeavesBuffer ==
    ASSUME DisplayInv, Acks, Full(buffered)
    PROVE  /\ ~RasterBlank
           /\ buffered.y < cy \/ (buffered.y = cy /\ buffered.x <= cx)
<1>1. Shows(framed, buffered, buffered.n, 1)
  BY DEF DisplayInv, Line
<1>2. buffered.x \in 0 .. (ScreenWidth - 1) /\ buffered.y \in 0 .. (ScreenHeight - 1)
  BY <1>1, InPicture
<1>3. cx \in Int /\ cy \in Int /\ ScreenHeight \in Nat
  BY NumbersAre DEF DisplayInv, Bits
<1>4. CASE Matches
  <2>1. buffered.x = cx /\ buffered.y = cy
    BY <1>4 DEF Matches
  <2>2. ~RasterBlank
    BY <1>2, <1>3, <2>1, NumbersAre DEF RasterBlank
  <2> QED
    BY <1>2, <1>3, <2>1, <2>2
<1>5. CASE Late
  BY <1>2, <1>3, <1>5 DEF Late
<1> QED
  BY <1>4, <1>5 DEF Acks

(* Only the first burst is shown before the CPU clock knows of the frame.   *)
LEMMA PixelEarly ==
    ASSUME DisplayInv, PixelCycle
    PROVE  Early'
<1>1. UNCHANGED <<vblank, vsync, done>> /\ Raster /\ Shifts
  BY PixelLeaves
<1> SUFFICES ASSUME vblank, vsync, ~done
             PROVE  /\ due' + fill' \in {0, Burst} /\ due' <= 2
                    /\ cx' # 1 \/ RasterBlank' => due' <= 1
  BY <1>1 DEF Early
<1>2. /\ due \in Nat /\ fill \in 0 .. Burst /\ Burst \in Nat /\ Burst > 2
      /\ Full(outp) <=> fill # 0
      /\ Pops => Full(outp)
      /\ Refills /\ fill # 0 => Pops /\ fill = 1
  BY StagesHold
<1>3. /\ due + fill \in {0, Burst} /\ due <= 2
      /\ cx # 1 \/ RasterBlank => due <= 1
  BY DEF DisplayInv, Early
<1>4. ~RasterBlank => cx = 0 /\ cy = 0
  <2> SUFFICES ASSUME ~RasterBlank PROVE cx = 0 /\ cy = 0
    OBVIOUS
  <2>1. cy = 0 /\ cx <= 1 /\ cx \in Nat
    BY NumbersAre DEF DisplayInv, Bits
  <2>2. ~(cx = 1 /\ cy = 0)
    BY DEF PixelCycle
  <2> QED
    BY <2>1, <2>2
<1>5. due <= 1
  BY <1>3, <1>4
<1>6. /\ fill' = IF Refills THEN Burst ELSE IF Pops THEN fill - 1 ELSE fill
      /\ due' = IF Pops THEN due + 1 ELSE due
  BY <1>1 DEF Shifts
<1>7. Refills => due = 0 /\ fill = 0 /\ ~Pops
  BY <1>2, <1>3, <1>5
<1>8. due' + fill' \in {0, Burst} /\ due' <= 2
  BY <1>2, <1>3, <1>5, <1>6, <1>7
<1>9. Pops /\ due = 1 => cx' = 1 /\ ~RasterBlank'
  <2> SUFFICES ASSUME Pops, due = 1 PROVE cx' = 1 /\ ~RasterBlank'
    OBVIOUS
  <2>1. fill < Burst /\ Full(outp)
    BY <1>2, <1>3
  <2>2. Full(buffered) /\ Acks
    BY <2>1 DEF DisplayInv, Follow, Pops
  <2>3. ~RasterBlank
    BY <2>2, LeavesBuffer
  <2>4. cy' = 0 /\ cx' = 1
    BY <1>1, <1>4, <2>3, RasterTurns DEF DisplayInv
  <2>5. ScreenHeight \in Nat /\ ScreenHeight > 0
    BY NumbersAre
  <2> QED
    BY <2>4, <2>5 DEF RasterBlank
<1>10. cx' # 1 \/ RasterBlank' => due' <= 1
  BY <1>2, <1>5, <1>6, <1>9
<1> QED
  BY <1>8, <1>10

(* The buffer follows the raster.                                           *)
LEMMA PixelFollow ==
    ASSUME DisplayInv, PixelCycle
    PROVE  Follow'
<1>1. Raster /\ Shifts
  BY PixelLeaves
<1>2. /\ fill \in 0 .. Burst /\ Burst \in Nat /\ Burst > 2
      /\ Full(outp) <=> fill # 0
      /\ Pops => Full(outp)
      /\ Full(outp) /\ fill < Burst - 1 => Pops
      /\ Refills /\ fill # 0 => Pops /\ fill = 1
  BY StagesHold
<1>3. /\ buffered' = IF Pops THEN outp ELSE IF Acks THEN Empty ELSE buffered
      /\ outp' = IF Refills THEN hdmi
                 ELSE IF Pops /\ fill = 1 THEN Empty
                 ELSE IF Pops THEN [x |-> outp.x + 1, y |-> outp.y, n |-> outp.n + 1] ELSE outp
      /\ fill' = IF Refills THEN Burst ELSE IF Pops THEN fill - 1 ELSE fill
  BY <1>1 DEF Shifts
<1>4. ~Full(Empty)
  BY DEF Full, Empty
<1>5. CASE Refills
  BY <1>2, <1>3, <1>5 DEF Follow
<1>6. CASE ~Refills /\ ~Pops
  <2>1. outp' = outp /\ fill' = fill
    BY <1>3, <1>6
  <2>2. Full(outp) => ~Acks /\ ~(fill < Burst - 1)
    BY <1>2, <1>6 DEF Pops
  <2>3. Full(outp) => buffered' = buffered
    BY <1>3, <1>6, <2>2
  <2> QED
    BY <2>1, <2>2, <2>3 DEF DisplayInv, Follow, Full
<1>7. CASE ~Refills /\ Pops /\ fill = 1
  <2>1. ~Full(outp')
    BY <1>3, <1>4, <1>7
  <2> QED
    BY <2>1 DEF Follow, Full
<1>8. CASE ~Refills /\ Pops /\ fill # 1
  <2>1. /\ outp' = [x |-> outp.x + 1, y |-> outp.y, n |-> outp.n + 1]
        /\ buffered' = outp /\ fill' = fill - 1 /\ Full(outp) /\ Acks
    BY <1>2, <1>3, <1>8 DEF Pops
  <2>2. Shows(framed, outp, due, fill) /\ fill \in Nat /\ fill >= 1
    BY <1>2, <2>1 DEF DisplayInv, Line
  <2>3. outp.x \in 0 .. (ScreenWidth - 1) /\ outp.x + fill <= ScreenWidth /\ outp.y \in 0 .. (ScreenHeight - 1)
    BY <2>2, InPicture
  <2>4. /\ outp'.x = outp.x + 1 /\ outp'.y = outp.y
        /\ Full(buffered') /\ buffered'.x = outp'.x - 1 /\ buffered'.y = outp'.y
    BY <2>1, <2>3 DEF Full
  <2>5. fill' < Burst - 1 => ~RasterBlank' /\ (outp.y < cy' \/ (outp.y = cy' /\ outp.x <= cx'))
    <3> SUFFICES ASSUME fill' < Burst - 1
                 PROVE  ~RasterBlank' /\ (outp.y < cy' \/ (outp.y = cy' /\ outp.x <= cx'))
      OBVIOUS
    <3>1. Full(buffered) /\ buffered.x = outp.x - 1 /\ buffered.y = outp.y
      BY <1>2, <2>1 DEF DisplayInv, Follow
    <3>2. ~RasterBlank /\ (outp.y < cy \/ (outp.y = cy /\ outp.x - 1 <= cx))
      BY <2>1, <3>1, LeavesBuffer
    <3>3. ~RasterBlank'
      BY <2>1, <3>2 DEF PixelCycle, Settled
    <3>4. cx \in 0 .. (FrameWidth - 1) /\ cy \in 0 .. (FrameHeight - 1)
      BY DEF DisplayInv, Bits
    <3>5. /\ cx' = (IF cx = FrameWidth - 1 THEN 0 ELSE cx + 1)
          /\ cy' = (IF cx # FrameWidth - 1 THEN cy ELSE IF cy = FrameHeight - 1 THEN 0 ELSE cy + 1)
      BY <1>1, RasterMoves DEF DisplayInv
    <3>6. cy <= ScreenHeight /\ ScreenHeight \in Nat /\ FrameHeight \in Nat /\ FrameHeight > ScreenHeight + 2
      BY <3>2, <3>4, NumbersAre DEF RasterBlank
    <3>7. outp.y < cy' \/ (outp.y = cy' /\ outp.x <= cx')
      BY <2>3, <3>2, <3>4, <3>5, <3>6, NumbersAre
    <3> QED
      BY <3>3, <3>7
  <2> QED
    BY <2>1, <2>4, <2>5 DEF Follow
<1> QED
  BY <1>5, <1>6, <1>7, <1>8

(* The pixels that have arrived: none is lost or doubled on the way.        *)
LEMMA PixelArrives ==
    ASSUME DisplayInv, PixelCycle
    PROVE  /\ due' \in Nat /\ fill' \in 0 .. Burst
           /\ Refills => due' = due + fill /\ fill' = Burst
           /\ ~Refills => due' + fill' = due + fill
           /\ Arrived' = IF Receives THEN Arrived + Burst ELSE Arrived
<1>1. Raster /\ Shifts
  BY PixelLeaves
<1>2. /\ due \in Nat /\ fill \in 0 .. Burst /\ Burst \in Nat /\ Burst > 2
      /\ Full(outp) <=> fill # 0
      /\ Pops => Full(outp)
      /\ Refills /\ fill # 0 => Pops /\ fill = 1
  BY StagesHold
<1>3. /\ due' = IF Pops THEN due + 1 ELSE due
      /\ fill' = IF Refills THEN Burst ELSE IF Pops THEN fill - 1 ELSE fill
      /\ hdmi' = IF Receives THEN crossing ELSE IF Refills THEN Empty ELSE hdmi
  BY <1>1 DEF Shifts
<1>4. due' \in Nat /\ fill' \in 0 .. Burst
  BY <1>2, <1>3
<1>5. Refills => due' = due + fill /\ fill' = Burst
  BY <1>2, <1>3
<1>6. ~Refills => due' + fill' = due + fill
  BY <1>2, <1>3
<1>7. ~Full(Empty)
  BY DEF Full, Empty
<1>8. CASE Receives
  <2>1. ~Full(hdmi) /\ ~Refills /\ hdmi' = crossing /\ send /\ ~ack
    BY <1>3, <1>8 DEF Receives, Refills
  <2>2. Shows(framed, crossing, Arrived, Burst)
    BY <2>1 DEF DisplayInv, Line
  <2>3. Full(hdmi')
    BY <2>1, <2>2 DEF Shows, Full
  <2>4. Arrived' = due' + fill' + Burst /\ Arrived = due + fill
    BY <1>2, <2>1, <2>3 DEF Arrived
  <2> QED
    BY <1>2, <1>4, <1>5, <1>6, <1>8, <2>1, <2>4
<1>9. CASE Refills
  <2>1. ~Receives /\ hdmi' = Empty /\ Full(hdmi)
    BY <1>3, <1>9 DEF Receives, Refills
  <2>2. Arrived' = due' + fill' /\ Arrived = due + fill + Burst
    BY <1>2, <1>4, <1>7, <2>1 DEF Arrived
  <2> QED
    BY <1>2, <1>4, <1>5, <1>6, <1>9, <2>1, <2>2
<1>10. CASE ~Receives /\ ~Refills
  <2>1. hdmi' = hdmi
    BY <1>3, <1>10
  <2>2. Arrived' = Arrived
    BY <1>6, <1>10, <2>1 DEF Arrived
  <2> QED
    BY <1>4, <1>6, <1>10, <2>2
<1> QED
  BY <1>8, <1>9, <1>10

(* The stages still hold consecutive pixels.                                *)
LEMMA PixelLine ==
    ASSUME DisplayInv, PixelCycle
    PROVE  Line'
<1>1. Raster /\ Shifts /\ UNCHANGED <<send, crossing, framed>>
  BY PixelLeaves
<1>2. /\ due \in Nat /\ fill \in 0 .. Burst /\ Burst \in Nat /\ Burst > 2
      /\ Full(outp) <=> fill # 0
      /\ Pops => Full(outp)
      /\ Refills /\ fill # 0 => Pops /\ fill = 1
  BY StagesHold
<1>3. /\ due' \in Nat /\ fill' \in 0 .. Burst
      /\ Refills => due' = due + fill /\ fill' = Burst
      /\ ~Refills => due' + fill' = due + fill
      /\ Arrived' = IF Receives THEN Arrived + Burst ELSE Arrived
  BY PixelArrives
<1>4. /\ buffered' = IF Pops THEN outp ELSE IF Acks THEN Empty ELSE buffered
      /\ outp' = IF Refills THEN hdmi
                 ELSE IF Pops /\ fill = 1 THEN Empty
                 ELSE IF Pops THEN [x |-> outp.x + 1, y |-> outp.y, n |-> outp.n + 1] ELSE outp
      /\ fill' = IF Refills THEN Burst ELSE IF Pops THEN fill - 1 ELSE fill
      /\ hdmi' = IF Receives THEN crossing ELSE IF Refills THEN Empty ELSE hdmi
      /\ ack' = IF Receives THEN TRUE ELSE ack /\ send
      /\ due' = IF Pops THEN due + 1 ELSE due
  BY <1>1 DEF Shifts
<1>5. /\ send \in BOOLEAN /\ ack \in BOOLEAN
      /\ Full(buffered) => Shows(framed, buffered, buffered.n, 1)
      /\ Full(outp) => Shows(framed, outp, due, fill)
      /\ Full(hdmi) => Shows(framed, hdmi, due + fill, Burst)
      /\ send /\ ~ack => Shows(framed, crossing, Arrived, Burst)
  BY DEF DisplayInv, Line
<1>6. ~Full(Empty)
  BY DEF Full, Empty
<1>7. framed.x \in Int /\ framed.y \in Int
  BY NumbersAre DEF DisplayInv, Crawls, OnScreen
<1>8. Full(buffered') => Shows(framed, buffered', buffered'.n, 1)
  <2>1. CASE Pops
    <3>1. Full(outp) /\ Shows(framed, outp, due, fill) /\ fill \in Nat /\ fill >= 1 /\ buffered' = outp
      BY <1>2, <1>4, <1>5, <2>1
    <3>2. Shows(framed, outp, due, 1)
      BY <1>7, <3>1, OneShown
    <3>3. outp.n = due
      BY <3>1 DEF Shows
    <3> QED
      BY <3>1, <3>2, <3>3
  <2>2. CASE ~Pops
    BY <1>4, <1>5, <1>6, <2>2
  <2> QED
    BY <2>1, <2>2
<1>9. (Full(outp') <=> fill' # 0) /\ (Full(outp') => Shows(framed, outp', due', fill'))
  <2>1. CASE Refills
    BY <1>2, <1>3, <1>4, <1>5, <2>1 DEF Refills
  <2>2. CASE ~Refills /\ Pops /\ fill = 1
    BY <1>4, <1>6, <2>2
  <2>3. CASE ~Refills /\ Pops /\ fill # 1
    <3>1. /\ outp' = [x |-> outp.x + 1, y |-> outp.y, n |-> outp.n + 1]
          /\ fill' = fill - 1 /\ due' = due + 1 /\ Full(outp) /\ fill \in Nat /\ fill > 1
      BY <1>2, <1>4, <2>3
    <3>2. Shows(framed, outp', due', fill')
      BY <1>5, <1>7, <3>1, RestShown
    <3>3. Full(outp')
      BY <3>2 DEF Shows, Full
    <3> QED
      BY <3>1, <3>2, <3>3
  <2>4. CASE ~Refills /\ ~Pops
    BY <1>2, <1>4, <1>5, <2>4
  <2> QED
    BY <2>1, <2>2, <2>3, <2>4
<1>10. Full(hdmi') => Shows(framed, hdmi', due' + fill', Burst)
  <2>1. CASE Receives
    <3>1. hdmi' = crossing /\ ~Refills /\ Arrived = due + fill /\ due' + fill' = due + fill
      BY <1>2, <1>3, <1>4, <2>1 DEF Receives, Refills, Arrived
    <3> QED
      BY <1>5, <2>1, <3>1 DEF Receives
  <2>2. CASE Refills
    BY <1>4, <1>6, <2>2 DEF Receives, Refills
  <2>3. CASE ~Receives /\ ~Refills
    BY <1>3, <1>4, <1>5, <2>3
  <2> QED
    BY <2>1, <2>2, <2>3
<1>11. ack' \in BOOLEAN /\ (send /\ ~ack' => Shows(framed, crossing, Arrived', Burst))
  BY <1>3, <1>4, <1>5
<1> QED
  BY <1>1, <1>3, <1>5, <1>8, <1>9, <1>10, <1>11 DEF Line

(* The fetch loses nothing when a burst arrives.                            *)
LEMMA PixelHands ==
    ASSUME DisplayInv, PixelCycle
    PROVE  Place' /\ Fetch' /\ Hands'
<1>1. /\ UNCHANGED <<done, sent, request, asked, at, next, x, y, dma, cdc, send, crossing, framed, cut>>
      /\ Raster /\ Shifts
  BY PixelLeaves
<1>2. ack' = IF Receives THEN TRUE ELSE ack /\ send
  BY <1>1 DEF Shifts
<1>3. Arrived' = (IF Receives THEN Arrived + Burst ELSE Arrived) /\ Arrived \in Nat /\ Burst \in Nat
  BY PixelArrives, ArrivedIs, NumbersAre DEF DisplayInv
<1>4. send \in BOOLEAN /\ ack \in BOOLEAN
  BY DEF DisplayInv, Line
<1>5. /\ ~cut => (send => Full(cdc) /\ crossing = cdc)
      /\ ~cut => (Full(cdc) => Shows(framed, cdc, IF send /\ ack THEN Arrived - Burst ELSE Arrived, Burst))
      /\ ~cut => (done => Handed = Pixels)
  BY DEF DisplayInv, Hands
<1>6. ~cut => Handed' = Handed
  <2> SUFFICES ASSUME ~cut PROVE Handed' = Handed
    OBVIOUS
  <2>1. CASE Receives
    <3>1. send /\ ~ack /\ ack' /\ Full(cdc)
      BY <1>2, <1>5, <2>1 DEF Receives
    <3>2. Handed = Arrived + Burst
      BY <3>1 DEF Handed
    <3>3. Handed' = Arrived'
      BY <1>1, <1>3, <3>1 DEF Handed
    <3> QED
      BY <1>3, <2>1, <3>2, <3>3
  <2>2. CASE ~Receives
    <3>1. (send' /\ ack') <=> (send /\ ack)
      BY <1>1, <1>2, <1>4, <2>2
    <3> QED
      BY <1>1, <1>3, <2>2, <3>1 DEF Handed
  <2> QED
    BY <2>1, <2>2
<1>7. ~cut => (Full(cdc) => Shows(framed, cdc, IF send /\ ack' THEN Arrived' - Burst ELSE Arrived', Burst))
  <2> SUFFICES ASSUME ~cut, Full(cdc)
               PROVE  Shows(framed, cdc, IF send /\ ack' THEN Arrived' - Burst ELSE Arrived', Burst)
    OBVIOUS
  <2>1. CASE Receives
    <3>1. send /\ ~ack /\ ack' /\ Arrived' - Burst = Arrived
      BY <1>2, <1>3, <2>1 DEF Receives
    <3> QED
      BY <1>5, <3>1
  <2>2. CASE ~Receives
    <3>1. ((send /\ ack') <=> (send /\ ack)) /\ Arrived' = Arrived
      BY <1>2, <1>3, <1>4, <2>2
    <3> QED
      BY <1>5, <3>1
  <2> QED
    BY <2>1, <2>2
<1>8. Place'
  BY <1>1, <1>6 DEF DisplayInv, Begins, Place
<1>9. Fetch'
  BY <1>1 DEF DisplayInv, Fetch
<1>10. Hands'
  BY <1>1, <1>5, <1>6, <1>7 DEF Hands
<1> QED
  BY <1>8, <1>9, <1>10

(* Every pixel comes in its turn and is shown at its place.                 *)
LEMMA PixelRight ==
    ASSUME DisplayInv, PixelCycle
    PROVE  ~garbled'
<1>1. garbled' = (\/ garbled
                  \/ Pops /\ outp.n # due
                  \/ Matches /\ buffered.n # (cy - framed.y) * Width + cx - framed.x
                  \/ RasterBlank' /\ ~RasterBlank /\ ~cut /\ due # Width * Height)
  BY DEF PixelCycle
<1>2. ~(Pops /\ outp.n # due)
  BY DEF DisplayInv, Line, Shows, Pops
<1>3. ~(Matches /\ buffered.n # (cy - framed.y) * Width + cx - framed.x)
  <2> SUFFICES ASSUME Matches PROVE buffered.n = (cy - framed.y) * Width + cx - framed.x
    OBVIOUS
  <2>1. Full(buffered) /\ buffered.x = cx /\ buffered.y = cy
    BY DEF Matches
  <2>2. buffered.n = (buffered.y - framed.y) * Width + buffered.x - framed.x
    BY <2>1 DEF DisplayInv, Line, Shows
  <2> QED
    BY <2>1, <2>2
<1>4. ~(RasterBlank' /\ ~RasterBlank /\ ~cut /\ due # Width * Height)
  <2> SUFFICES ASSUME RasterBlank', ~RasterBlank, ~cut PROVE due = Width * Height
    OBVIOUS
  <2>1. Settled
    BY DEF PixelCycle
  <2>2. Handed = Pixels
    BY <2>1 DEF DisplayInv, Hands, Settled
  <2>3. fill = 0 /\ due \in Nat
    BY <2>1 DEF DisplayInv, Line, Settled
  <2>4. Handed = due
    BY <2>1, <2>3 DEF Handed, Arrived, Settled
  <2> QED
    BY <2>2, <2>4 DEF Pixels
<1>5. ~garbled
  BY DEF DisplayInv
<1> QED
  BY <1>1, <1>2, <1>3, <1>4, <1>5

(* A cycle of the pixel clock keeps every part.                             *)
LEMMA PixelCycleInv == DisplayInv /\ PixelCycle => DisplayInv'
<1> SUFFICES ASSUME DisplayInv, PixelCycle PROVE DisplayInv'
  OBVIOUS
<1>1. /\ UNCHANGED <<place, heading, start, vblank, vsync, prevVblank>>
      /\ UNCHANGED <<done, sent, request, asked, at, next, x, y, dma, cdc, send, crossing, framed, cut>>
  BY PixelLeaves
<1>2. Crawls'
  BY <1>1 DEF DisplayInv, Crawls, OnScreen
<1> QED
  BY <1>2, PixelBits, PixelEarly, PixelFollow, PixelLine, PixelHands, PixelRight DEF DisplayInv

-----------------------------------------------------------------------------
(* Every step of the display keeps the invariant.                           *)
LEMMA DisplayStepInv == DisplayInv /\ [DisplayNext]_displayVars => DisplayInv'
<1> SUFFICES ASSUME DisplayInv, [DisplayNext]_displayVars PROVE DisplayInv'
  OBVIOUS
<1>1. CASE Crawl
  BY <1>1, CrawlInv
<1>2. CASE HandleVsyncIrq
  BY <1>2, HandleVsyncIrqInv
<1>3. CASE CrossBlank
  BY <1>3, CrossBlankInv
<1>4. CASE \E answered \in BOOLEAN : CpuCycle(answered)
  BY <1>4, CpuCycleInv
<1>5. CASE PixelCycle
  BY <1>5, PixelCycleInv
<1>6. CASE UNCHANGED displayVars
  <2>1. UNCHANGED <<crawlVars, vblank, vsync, prevVblank, fetchVars, pixelVars, historyVars>>
    BY <1>6 DEF displayVars
  <2>2. UNCHANGED <<vblank, vsync, prevVblank, done, sent, request, asked, at, next, x, y, dma, cdc>>
    BY <2>1 DEF fetchVars
  <2>3. UNCHANGED <<send, crossing, ack, hdmi, outp, fill, buffered, cx, cy, garbled, framed, due, cut>>
    BY <2>1 DEF fetchVars, pixelVars, historyVars
  <2>4. Crawls'
    BY <2>1, <2>2, <2>3 DEF DisplayInv, Crawls, OnScreen, crawlVars
  <2> QED
    BY <2>2, <2>3, <2>4, SameParts DEF DisplayInv
<1> QED
  BY <1>1, <1>2, <1>3, <1>4, <1>5, <1>6 DEF DisplayNext

(* The invariant holds of every behaviour of the display: the fetch stays   *)
(* in the picture, and what the stages hold are consecutive pixels of it.   *)
THEOREM DisplaySafety == DisplaySpec => []DisplayInv
<1>1. DisplayInit => DisplayInv
  BY DisplayStarts
<1>2. DisplayInv /\ [DisplayNext]_displayVars => DisplayInv'
  BY DisplayStepInv
<1> QED
  BY <1>1, <1>2, PTL DEF DisplaySpec

(* The memory has been asked for one burst at most, even when the fetch was *)
(* stopped and began again.                                                 *)
AskedOne == asked = <<>> \/ \E a \in Nat : asked = <<a>>

(* A request is taken only when none waits.                                 *)
LEMMA AskedStep == AskedOne /\ DisplayInv /\ [DisplayNext]_displayVars => AskedOne'
<1> SUFFICES ASSUME AskedOne, DisplayInv, [DisplayNext]_displayVars PROVE AskedOne'
  OBVIOUS
<1>1. CASE UNCHANGED asked
  BY <1>1 DEF AskedOne
<1>2. CASE \E answered \in BOOLEAN : CpuCycle(answered)
  <2>1. PICK answered \in BOOLEAN : CpuCycle(answered)
    BY <1>2
  <2>2. PICK taken \in IF request /\ asked = <<>> THEN BOOLEAN ELSE {FALSE} :
          asked' = (IF answered THEN Tail(asked) ELSE asked) \o (IF taken THEN <<next>> ELSE <<>>)
    BY <2>1 DEF CpuCycle
  <2>3. answered => asked # <<>>
    BY <2>1 DEF CpuCycle
  <2>4. next \in Nat
    BY DEF DisplayInv, Place
  <2>5. CASE asked = <<>>
    <3>1. asked' = <<>> \/ asked' = <<next>>
      BY <2>2, <2>3, <2>5
    <3> QED
      BY <2>4, <3>1 DEF AskedOne
  <2>6. ASSUME NEW a \in Nat, asked = <<a>> PROVE AskedOne'
    <3>1. ~taken
      BY <2>2, <2>6
    <3>2. asked' = asked \/ asked' = <<>>
      BY <2>2, <2>6, <3>1
    <3> QED
      BY <2>6, <3>2 DEF AskedOne
  <2> QED
    BY <2>5, <2>6 DEF AskedOne
<1>3. Crawl \/ HandleVsyncIrq \/ CrossBlank \/ PixelCycle \/ UNCHANGED displayVars => UNCHANGED asked
  BY DEF Crawl, HandleVsyncIrq, CrossBlank, PixelCycle, displayVars, fetchVars
<1> QED
  BY <1>1, <1>2, <1>3 DEF DisplayNext

(* The types: logoCrawl keeps the picture on the screen, and the fetch asks *)
(* the memory for one burst at a time.                                      *)
THEOREM DisplayTypes == DisplaySpec => []DisplayTypeOK
<1>1. DisplayInit => AskedOne
  BY DEF DisplayInit, AskedOne
<1>2. DisplayInv /\ AskedOne => DisplayTypeOK
  <2> SUFFICES ASSUME DisplayInv, AskedOne PROVE DisplayTypeOK
    OBVIOUS
  <2>1. place.x \in 0 .. (ScreenWidth - Width) /\ place.y \in 0 .. (ScreenHeight - Height)
    BY DEF DisplayInv, Crawls, OnScreen
  <2>2. next \in Nat /\ x \in 0 .. (Width - 1) /\ y \in 0 .. (Height - 1)
    BY NumbersAre, PictureIs DEF DisplayInv, Place
  <2>3. fill \in 0 .. Burst /\ cx \in 0 .. (FrameWidth - 1) /\ cy \in 0 .. (FrameHeight - 1)
    BY DEF DisplayInv, Line, Bits
  <2>4. Len(asked) <= 1
    <3>1. CASE asked = <<>>
      BY <3>1
    <3>2. ASSUME NEW a \in Nat, asked = <<a>> PROVE Len(asked) <= 1
      <4>1. Len(<<a>>) = 1
        OBVIOUS
      <4> QED
        BY <3>2, <4>1
    <3> QED
      BY <3>1, <3>2 DEF AskedOne
  <2> QED
    BY <2>1, <2>2, <2>3, <2>4 DEF DisplayTypeOK
<1> QED
  BY <1>1, <1>2, AskedStep, DisplaySafety, PTL DEF DisplaySpec

(* Each pixel of the picture comes to the raster once and in order, and is  *)
(* shown at its place, whenever logoCrawl moves the picture and in whatever *)
(* order the two bits of the blanking cross, for any picture and screen.    *)
THEOREM PictureIntactAlways == DisplaySpec => []PictureIntact
<1>1. DisplayInv => PictureIntact
  BY DEF DisplayInv, PictureIntact
<1> QED
  BY <1>1, DisplaySafety, PTL

-----------------------------------------------------------------------------
(* Induction, for sets, and definitions by it.                              *)

(* A set of numbers that has 0, and with each number the next, has them all. *)
LEMMA NatsIn ==
    ASSUME NEW S, 0 \in S, \A n \in Nat : n \in S => n + 1 \in S
    PROVE  Nat \subseteq S
<1> SUFFICES ASSUME ~(Nat \subseteq S) PROVE FALSE
  OBVIOUS
<1> DEFINE T == Nat \ S
           R == {p \in Nat \X Nat : p[1] < p[2]}
<1>1. T \subseteq Nat /\ T # {}
  OBVIOUS
<1>2. IsWellFoundedOn(R, Nat)
  BY NatLessThanWellFounded DEF OpToRel
<1> HIDE DEF R
<1>3. PICK m \in T : \A k \in T : ~(<<k, m>> \in R)
  BY <1>1, <1>2, WFMin
<1>4. m \in Nat /\ m \notin S /\ m # 0
  OBVIOUS
<1>5. m - 1 \in Nat /\ m - 1 \notin S
  BY <1>4
<1>6. <<m - 1, m>> \in R
  BY <1>4, <1>5 DEF R
<1> QED
  BY <1>3, <1>5, <1>6

(* From a value on, a step leads to the next value, for ever.               *)
Leads(D, d0, T, g, n) ==
    g \in [0 .. n -> D] /\ g[0] = d0 /\ \A k \in 0 .. (n - 1) : g[k + 1] = T[<<k, g[k]>>]

(* It can be led one step further.                                          *)
LEMMA LeadsOn ==
    ASSUME NEW D, NEW d0 \in D, NEW T, \A k \in Nat, d \in D : T[<<k, d>>] \in D,
           NEW n \in Nat, NEW g, Leads(D, d0, T, g, n)
    PROVE  \E h : Leads(D, d0, T, h, n + 1)
<1> DEFINE h == [k \in 0 .. (n + 1) |-> IF k = n + 1 THEN T[<<n, g[n]>>] ELSE g[k]]
<1>1. g \in [0 .. n -> D] /\ g[0] = d0 /\ \A k \in 0 .. (n - 1) : g[k + 1] = T[<<k, g[k]>>]
  BY DEF Leads
<1>2. g[n] \in D /\ T[<<n, g[n]>>] \in D
  BY <1>1
<1>3. h \in [0 .. (n + 1) -> D]
  BY <1>1, <1>2
<1>4. h[n + 1] = T[<<n, g[n]>>] /\ \A k \in 0 .. n : h[k] = g[k]
  OBVIOUS
<1> HIDE DEF h
<1>5. h[0] = d0
  BY <1>1, <1>4
<1>6. ASSUME NEW k \in 0 .. n PROVE h[k + 1] = T[<<k, h[k]>>]
  <2>1. CASE k = n
    BY <1>4, <2>1
  <2>2. CASE k # n
    BY <1>1, <1>4, <2>2
  <2> QED
    BY <2>1, <2>2
<1>7. Leads(D, d0, T, h, n + 1)
  BY <1>3, <1>5, <1>6 DEF Leads
<1> QED
  BY <1>7

(* Two that are led alike agree.                                            *)
LEMMA LeadsAlike ==
    ASSUME NEW D, NEW d0, NEW T, NEW n \in Nat,
           NEW g, Leads(D, d0, T, g, n), NEW h, Leads(D, d0, T, h, n + 1)
    PROVE  h[n] = g[n]
<1> DEFINE W == {k \in Nat : k <= n => h[k] = g[k]}
<1>1. 0 \in W
  BY DEF Leads
<1>2. ASSUME NEW k \in Nat, k \in W PROVE k + 1 \in W
  <2> SUFFICES ASSUME k + 1 <= n PROVE h[k + 1] = g[k + 1]
    OBVIOUS
  <2>1. h[k] = g[k]
    BY <1>2
  <2>2. h[k + 1] = T[<<k, h[k]>>] /\ g[k + 1] = T[<<k, g[k]>>]
    BY DEF Leads
  <2> QED
    BY <2>1, <2>2
<1>3. n \in W
  BY <1>1, <1>2, NatsIn
<1> QED
  BY <1>3

(* The steps stay among the values. *)
Steps(D, d0, T) == d0 \in D /\ \A k \in Nat, d \in D : T[<<k, d>>] \in D

(* Then there is a function that is led for ever.                           *)
LEMMA Iterates ==
    ASSUME NEW D, NEW d0, NEW T, Steps(D, d0, T)
    PROVE  \E f \in [Nat -> D] : f[0] = d0 /\ \A n \in Nat : f[n + 1] = T[<<n, f[n]>>]
<1>0. d0 \in D /\ \A k \in Nat, d \in D : T[<<k, d>>] \in D
  BY DEF Steps
<1> DEFINE S == {n \in Nat : \E g : Leads(D, d0, T, g, n)}
<1>1. 0 \in S
  <2>1. Leads(D, d0, T, [k \in 0 .. 0 |-> d0], 0)
    BY <1>0 DEF Leads
  <2> QED
    BY <2>1
<1>2. ASSUME NEW n \in Nat, n \in S PROVE n + 1 \in S
  <2>1. PICK g : Leads(D, d0, T, g, n)
    BY <1>2
  <2>2. \E h : Leads(D, d0, T, h, n + 1)
    BY <1>0, <2>1, LeadsOn
  <2> QED
    BY <2>2
<1>3. \A n \in Nat : \E g : Leads(D, d0, T, g, n)
  BY <1>1, <1>2, NatsIn
<1> DEFINE G(n) == CHOOSE g : Leads(D, d0, T, g, n)
<1>4. \A n \in Nat : Leads(D, d0, T, G(n), n)
  BY <1>3
<1> HIDE DEF G
<1>5. ASSUME NEW n \in Nat PROVE G(n + 1)[n] = G(n)[n]
  <2>1. Leads(D, d0, T, G(n), n) /\ Leads(D, d0, T, G(n + 1), n + 1)
    BY <1>4
  <2>2. \A g, h : Leads(D, d0, T, g, n) /\ Leads(D, d0, T, h, n + 1) => h[n] = g[n]
    BY LeadsAlike
  <2> QED
    BY <2>1, <2>2
<1> DEFINE f == [n \in Nat |-> G(n)[n]]
<1>6. ASSUME NEW n \in Nat PROVE G(n)[n] \in D
  <2>1. G(n) \in [0 .. n -> D]
    BY <1>4 DEF Leads
  <2> QED
    BY <2>1
<1>7. f \in [Nat -> D]
  BY <1>6
<1>8. f[0] = d0
  BY <1>4 DEF Leads
<1>9. ASSUME NEW n \in Nat PROVE f[n + 1] = T[<<n, f[n]>>]
  <2>1. G(n + 1)[n + 1] = T[<<n, G(n + 1)[n]>>]
    <3>1. Leads(D, d0, T, G(n + 1), n + 1)
      BY <1>4
    <3> QED
      BY <3>1 DEF Leads
  <2> QED
    BY <1>5, <2>1
<1> QED
  BY <1>7, <1>8, <1>9

(* Such a function is there as a recursive definition asks for it.          *)
LEMMA Recurs ==
    ASSUME NEW D, NEW d0, NEW T, Steps(D, d0, T)
    PROVE  \E f \in [Nat -> D] : \A n \in Nat : f[n] = IF n = 0 THEN d0 ELSE T[<<n - 1, f[n - 1]>>]
<1>1. PICK f \in [Nat -> D] : f[0] = d0 /\ \A n \in Nat : f[n + 1] = T[<<n, f[n]>>]
  BY Iterates
<1>2. ASSUME NEW n \in Nat PROVE f[n] = IF n = 0 THEN d0 ELSE T[<<n - 1, f[n - 1]>>]
  <2>1. CASE n = 0
    BY <1>1, <2>1
  <2>2. CASE n # 0
    <3>1. n - 1 \in Nat /\ (n - 1) + 1 = n
      BY <2>2
    <3>2. f[(n - 1) + 1] = T[<<n - 1, f[n - 1]>>]
      BY <1>1, <3>1
    <3> QED
      BY <2>2, <3>1, <3>2
  <2> QED
    BY <2>1, <2>2
<1> QED
  BY <1>1, <1>2

-----------------------------------------------------------------------------
(* The division of the standard, and the register that does it.             *)

Regs == [1 .. 7 -> Bit]

Plus(a, b) == IF a = b THEN 0 ELSE 1

(* The sum of two bits, and what is known of it.                            *)
LEMMA PlusIs ==
    ASSUME NEW a \in Bit, NEW b \in Bit
    PROVE  (a + b) % 2 = Plus(a, b) /\ Plus(a, b) \in Bit
BY DEF Bit, Plus

(* Two rows of bits, one after the other.                                   *)
LEMMA Glued ==
    ASSUME NEW s \in Seq(Bit), NEW t \in Seq(Bit)
    PROVE  /\ s \o t \in Seq(Bit)
           /\ Len(s \o t) = Len(s) + Len(t)
           /\ \A i \in 1 .. (Len(s) + Len(t)) : (s \o t)[i] = IF i <= Len(s) THEN s[i] ELSE t[i - Len(s)]
BY ConcatProperties, Zenon

(* The divisor is x^7 + x^3 + 1.                                            *)
LEMMA DivisorIs ==
    \A k \in 1 .. 8 : Divisor[k] = IF k \in {1, 5, 8} THEN 1 ELSE 0
<1>1. <<1>> \in Seq(Bit) /\ Polynom \in Seq(Bit) /\ Len(<<1>>) = 1 /\ Len(Polynom) = 7
  BY DEF Polynom, Bit
<1>2. /\ Divisor \in Seq(Bit) /\ Len(Divisor) = 8
      /\ \A k \in 1 .. 8 : Divisor[k] = IF k <= 1 THEN <<1>>[k] ELSE Polynom[k - 1]
  <2>1. Divisor \in Seq(Bit)
    BY <1>1, Glued, Zenon DEF Divisor
  <2>2. Len(Divisor) = Len(<<1>>) + Len(Polynom)
    BY <1>1, Glued, Zenon DEF Divisor
  <2>3. \A i \in 1 .. (Len(<<1>>) + Len(Polynom)) :
            Divisor[i] = IF i <= Len(<<1>>) THEN <<1>>[i] ELSE Polynom[i - Len(<<1>>)]
    BY <1>1, Glued, Zenon DEF Divisor
  <2> QED
    BY <1>1, <2>1, <2>2, <2>3
<1>3. ASSUME NEW k \in 1 .. 8 PROVE Divisor[k] = IF k \in {1, 5, 8} THEN 1 ELSE 0
  <2>1. CASE k = 1
    BY <1>2, <2>1
  <2>2. CASE k # 1
    <3>1. k - 1 \in 1 .. 7 /\ Divisor[k] = Polynom[k - 1]
      BY <1>2, <2>2
    <3> QED
      BY <2>2, <3>1 DEF Polynom
  <2> QED
    BY <2>1, <2>2
<1> QED
  BY <1>3

(* A row of bits stays one when the divisor is taken off.                   *)
LEMMA DividedIn ==
    ASSUME NEW n \in Nat, NEW d \in [1 .. (n + 7) -> Bit], NEW i \in Nat \ {0}
    PROVE  Divided(d, i) \in [1 .. (n + 7) -> Bit]
<1>1. ASSUME NEW j \in 1 .. (n + 7), j \in i .. (i + 7) PROVE (d[j] + Divisor[j - i + 1]) % 2 \in Bit
  <2>1. j - i + 1 \in 1 .. 8
    BY <1>1
  <2>2. Divisor[j - i + 1] \in Bit
    BY <2>1, DivisorIs DEF Bit
  <2> QED
    BY <2>2, PlusIs
<1> QED
  BY <1>1 DEF Divided, CrcBits

(* The last seven bits of the division are a function of what came before.  *)
LEMMA RemainderIs ==
    ASSUME NEW m \in Seq(Bit)
    PROVE  \E F \in [0 .. Len(m) -> [1 .. (Len(m) + 7) -> Bit]] :
              /\ F[0] = m \o Zeros(CrcBits)
              /\ \A i \in 1 .. Len(m) : F[i] = Divided(F[i - 1], i)
              /\ Remainder(m) = SubSeq(F[Len(m)], Len(m) + 1, Len(m) + CrcBits)
<1> DEFINE n == Len(m)
           d0 == m \o Zeros(CrcBits)
           F == CHOOSE g : g = [i \in 0 .. n |-> IF i = 0 THEN d0 ELSE Divided(g[i - 1], i)]
           D == [1 .. (n + 7) -> Bit]
           T == [p \in Nat \X D |-> Divided(p[2], p[1] + 1)]
<1>1. Remainder(m) = SubSeq(F[n], n + 1, n + CrcBits)
  BY Zenon DEF Remainder
<1>2. n \in Nat /\ d0 \in D
  <2>1. Zeros(CrcBits) \in Seq(Bit) /\ Len(Zeros(CrcBits)) = 7
    BY DEF Zeros, CrcBits, Bit
  <2> HIDE DEF d0
  <2>2. m \o Zeros(CrcBits) \in Seq(Bit) /\ Len(m \o Zeros(CrcBits)) = n + Len(Zeros(CrcBits))
    BY <2>1, Glued, Zenon
  <2> QED
    BY <2>1, <2>2, LenProperties DEF d0
<1> HIDE DEF n, d0
<1>3. \A k \in Nat, d \in D : T[<<k, d>>] = Divided(d, k + 1) /\ Divided(d, k + 1) \in D
  BY <1>2, DividedIn
<1>4. Steps(D, d0, T)
  BY <1>2, <1>3 DEF Steps
<1> HIDE DEF D, T
<1>5. PICK f \in [Nat -> D] : f[0] = d0 /\ \A k \in Nat : f[k + 1] = T[<<k, f[k]>>]
  BY <1>4, Iterates
<1> DEFINE h == [i \in 0 .. n |-> f[i]]
<1>6. ASSUME NEW i \in 0 .. n PROVE h[i] = IF i = 0 THEN d0 ELSE Divided(h[i - 1], i)
  <2>1. CASE i = 0
    BY <1>5, <2>1
  <2>2. CASE i # 0
    <3>1. i - 1 \in Nat /\ i - 1 \in 0 .. n /\ (i - 1) + 1 = i
      BY <1>2, <2>2
    <3>2. f[(i - 1) + 1] = T[<<i - 1, f[i - 1]>>] /\ f[i - 1] \in D
      BY <1>5, <3>1
    <3>3. T[<<i - 1, f[i - 1]>>] = Divided(f[i - 1], i)
      BY <1>3, <3>1, <3>2
    <3> QED
      BY <2>2, <3>1, <3>2, <3>3
  <2> QED
    BY <2>1, <2>2
<1>7. h = [i \in 0 .. n |-> IF i = 0 THEN d0 ELSE Divided(h[i - 1], i)]
  BY <1>6
<1>8. F = [i \in 0 .. n |-> IF i = 0 THEN d0 ELSE Divided(F[i - 1], i)]
  BY <1>7
<1> HIDE DEF F, h
<1>9. F[0] = d0 /\ \A i \in 1 .. n : F[i] = Divided(F[i - 1], i)
  <2>1. \A i \in 0 .. n : F[i] = IF i = 0 THEN d0 ELSE Divided(F[i - 1], i)
    BY <1>8, Zenon
  <2>2. 0 \in 0 .. n /\ \A i \in 1 .. n : i \in 0 .. n /\ i # 0
    BY <1>2
  <2> QED
    BY <2>1, <2>2, Zenon
<1> DEFINE W == {k \in Nat : k <= n => F[k] \in D}
<1>10. 0 \in W
  BY <1>2, <1>9
<1>11. ASSUME NEW k \in Nat, k \in W PROVE k + 1 \in W
  <2> SUFFICES ASSUME k + 1 <= n PROVE F[k + 1] \in D
    OBVIOUS
  <2>1. F[k] \in D
    BY <1>2, <1>11
  <2>2. k + 1 \in 1 .. n /\ (k + 1) - 1 = k
    BY <1>2
  <2>3. F[k + 1] = Divided(F[k], k + 1)
    BY <1>9, <2>2
  <2> QED
    BY <1>3, <2>1, <2>3
<1>12. \A k \in 0 .. n : F[k] \in D
  <2>1. Nat \subseteq W
    BY <1>10, <1>11, NatsIn
  <2> QED
    BY <2>1
<1>13. F \in [0 .. n -> D]
  BY <1>8, <1>12
<1> QED
  BY <1>1, <1>9, <1>13 DEF n, d0, D

(* The register after one bit: it moves by one, and where the divisor has a *)
(* term the bit fed back is added.                                          *)
Fed(c, b) ==
    [j \in 1 .. 7 |-> IF j = 7 THEN Plus(c[1], b)
                      ELSE IF j = 4 THEN Plus(c[5], Plus(c[1], b)) ELSE c[j + 1]]

(* A register is a row of seven bits.                                       *)
LEMMA RegIsSeq ==
    ASSUME NEW c \in Regs
    PROVE  c \in Seq(Bit) /\ Len(c) = 7
<1>1. c \in Seq(Bit)
  BY SeqDef DEF Regs
<1>2. DOMAIN c = 1 .. 7 /\ DOMAIN c = 1 .. Len(c) /\ Len(c) \in Nat
  BY <1>1, LenProperties DEF Regs
<1> QED
  BY <1>1, <1>2

(* A row of seven bits is a register.                                       *)
LEMMA SeqIsReg ==
    ASSUME NEW c \in Seq(Bit), Len(c) = 7
    PROVE  c \in Regs
BY LenProperties DEF Regs

(* The register after one bit is a register.                                *)
LEMMA FedIn ==
    ASSUME NEW c \in Regs, NEW b \in Bit
    PROVE  Fed(c, b) \in Regs
<1>1. ASSUME NEW a \in Bit, NEW d \in Bit PROVE Plus(a, d) \in Bit
  BY PlusIs
<1>2. \A j \in 1 .. 7 : c[j] \in Bit
  BY DEF Regs
<1>3. ASSUME NEW j \in 1 .. 7
      PROVE  (IF j = 7 THEN Plus(c[1], b) ELSE IF j = 4 THEN Plus(c[5], Plus(c[1], b)) ELSE c[j + 1]) \in Bit
  BY <1>1, <1>2
<1> QED
  BY <1>3 DEF Fed, Regs

(* What crc.sv does in a cycle is that.                                     *)
LEMMA ClockedIs ==
    ASSUME NEW c \in Regs, NEW b \in Bit
    PROVE  Clocked(c, b) = Fed(c, b) /\ Clocked(c, b) \in Regs
<1> DEFINE rest == Tail(c)
           zero == <<0>>
           shifted == Tail(c) \o <<0>>
<1>1. c \in Seq(Bit) /\ Len(c) = 7 /\ c # <<>>
  BY RegIsSeq, EmptySeq
<1>2. rest \in Seq(Bit) /\ Len(rest) = 6 /\ \A i \in 1 .. 6 : rest[i] = c[i + 1]
  <2>1. rest \in Seq(Bit)
    BY <1>1, HeadTailProperties, Zenon
  <2>2. Len(rest) = Len(c) - 1
    BY <1>1, HeadTailProperties, Zenon
  <2>3. \A i \in 1 .. Len(rest) : rest[i] = c[i + 1]
    BY <1>1, HeadTailProperties, Zenon
  <2> HIDE DEF rest
  <2> QED
    BY <1>1, <2>1, <2>2, <2>3
<1>3. zero \in Seq(Bit) /\ Len(zero) = 1 /\ zero[1] = 0
  BY DEF Bit
<1>4. shifted \in Seq(Bit) /\ Len(shifted) = Len(rest) + Len(zero)
      /\ \A i \in 1 .. (Len(rest) + Len(zero)) :
            shifted[i] = IF i <= Len(rest) THEN rest[i] ELSE zero[i - Len(rest)]
  BY <1>2, <1>3, Glued, Zenon
<1> HIDE DEF rest, zero
<1>5. shifted \in Seq(Bit) /\ Len(shifted) = 7 /\ \A i \in 1 .. 7 : shifted[i] = IF i = 7 THEN 0 ELSE c[i + 1]
  <2> HIDE DEF shifted
  <2>1. \A i \in 1 .. 7 : shifted[i] = IF i <= 6 THEN rest[i] ELSE zero[i - 6]
    BY <1>2, <1>3, <1>4
  <2>2. ASSUME NEW i \in 1 .. 7 PROVE shifted[i] = IF i = 7 THEN 0 ELSE c[i + 1]
    <3>1. CASE i = 7
      BY <1>3, <2>1, <3>1
    <3>2. CASE i # 7
      <4>1. i \in 1 .. 6
        BY <3>2
      <4> QED
        BY <1>2, <2>1, <3>2, <4>1
    <3> QED
      BY <3>1, <3>2
  <2> QED
    BY <1>2, <1>3, <1>4, <2>2
<1> HIDE DEF shifted
<1>6. Head(c) = c[1] /\ c[1] \in Bit
  BY <1>1 DEF Regs
<1>7. Clocked(c, b) = IF c[1] # b THEN Xor(shifted, Polynom) ELSE shifted
  BY <1>6 DEF Clocked, shifted
<1>8. DOMAIN shifted = 1 .. 7 /\ shifted = [i \in 1 .. 7 |-> shifted[i]]
  BY <1>5, LenProperties
<1>9. CASE c[1] = b
  <2>1. \A a \in Bit : Plus(a, 0) = a
    BY DEF Plus, Bit
  <2>2. Plus(c[1], b) = 0 /\ c[5] \in Bit
    BY <1>9 DEF Plus, Regs
  <2>3. Fed(c, b) = shifted
    BY <1>5, <1>8, <2>1, <2>2 DEF Fed
  <2> QED
    BY <1>7, <1>9, <2>3, FedIn
<1>10. CASE c[1] # b
  <2>1. Plus(c[1], b) = 1 /\ c[5] \in Bit
    BY <1>10 DEF Plus, Regs
  <2>2. ASSUME NEW i \in 1 .. 7 PROVE (shifted[i] + Polynom[i]) % 2 = Fed(c, b)[i]
    <3>1. c[5] \in Bit /\ \A j \in 1 .. 6 : c[j + 1] \in {0, 1}
      BY DEF Regs, Bit
    <3>2. CASE i = 7
      BY <1>5, <2>1, <3>2 DEF Fed, Polynom
    <3>3. CASE i = 4
      <4>1. shifted[i] = c[5] /\ Polynom[i] = 1 /\ Fed(c, b)[i] = Plus(c[5], 1)
        BY <1>5, <2>1, <3>3 DEF Fed, Polynom
      <4>2. (c[5] + 1) % 2 = Plus(c[5], 1)
        BY <3>1 DEF Plus, Bit
      <4> QED
        BY <4>1, <4>2
    <3>4. CASE i # 4 /\ i # 7
      <4>1. Polynom[i] = 0
        BY <3>4 DEF Polynom
      <4>2. shifted[i] = c[i + 1] /\ Fed(c, b)[i] = c[i + 1] /\ i \in 1 .. 6
        BY <1>5, <3>4 DEF Fed
      <4>3. c[i + 1] \in {0, 1}
        BY <3>1, <4>2
      <4> QED
        BY <4>1, <4>2, <4>3
    <3> QED
      BY <3>2, <3>3, <3>4
  <2>3. Xor(shifted, Polynom) = Fed(c, b)
    BY <1>8, <2>2 DEF Xor, Fed
  <2> QED
    BY <1>7, <1>10, <2>3, FedIn
<1> QED
  BY <1>9, <1>10

(* What the division has done to the bits that follow the first i of them:  *)
(* the register holds it.                                                   *)
Window(d0, d, i) == [j \in 1 .. 7 |-> Plus(d[i + j], d0[i + j])]

(* The divisor taken off, bit by bit.                                       *)
LEMMA DividedIs ==
    ASSUME NEW n \in Nat, NEW d \in [1 .. (n + 7) -> Bit], NEW i \in 1 .. n, NEW j \in 1 .. (n + 7)
    PROVE  Divided(d, i)[j] = IF j - i \in {0, 4, 7} THEN Plus(d[j], d[i]) ELSE d[j]
<1>1. d[i] \in Bit /\ d[j] \in Bit
  OBVIOUS
<1>2. CASE d[i] = 0
  <2>1. Divided(d, i) = d
    BY <1>2 DEF Divided
  <2>2. Plus(d[j], 0) = d[j]
    BY <1>1 DEF Plus, Bit
  <2> QED
    BY <1>2, <2>1, <2>2
<1>3. CASE d[i] = 1
  <2>1. Divided(d, i)[j] = IF j \in i .. (i + 7) THEN (d[j] + Divisor[j - i + 1]) % 2 ELSE d[j]
    BY <1>3 DEF Divided, CrcBits
  <2>2. CASE j \in i .. (i + 7)
    <3>1. j - i + 1 \in 1 .. 8
      BY <2>2
    <3>2. Divisor[j - i + 1] = IF j - i + 1 \in {1, 5, 8} THEN 1 ELSE 0
      BY <3>1, DivisorIs
    <3>3. CASE j - i \in {0, 4, 7}
      <4>1. Divisor[j - i + 1] = 1 /\ 1 \in Bit
        BY <3>2, <3>3 DEF Bit
      <4> QED
        BY <1>1, <1>3, <2>1, <2>2, <3>3, <4>1, PlusIs
    <3>4. CASE j - i \notin {0, 4, 7}
      <4>1. Divisor[j - i + 1] = 0 /\ (d[j] + 0) % 2 = d[j]
        BY <1>1, <3>2, <3>4, <3>1 DEF Bit
      <4> QED
        BY <2>1, <2>2, <3>4, <4>1
    <3> QED
      BY <3>3, <3>4
  <2>3. CASE j \notin i .. (i + 7)
    <3>1. j - i \notin {0, 4, 7}
      BY <2>3
    <3> QED
      BY <2>1, <2>3, <3>1
  <2> QED
    BY <2>2, <2>3
<1> QED
  BY <1>1, <1>2, <1>3 DEF Bit

(* The window is a register.                                                *)
LEMMA WindowIn ==
    ASSUME NEW n \in Nat, NEW d0 \in [1 .. (n + 7) -> Bit], NEW d \in [1 .. (n + 7) -> Bit], NEW i \in 0 .. n
    PROVE  Window(d0, d, i) \in Regs
<1>1. ASSUME NEW j \in 1 .. 7 PROVE Plus(d[i + j], d0[i + j]) \in Bit
  <2>1. d[i + j] \in Bit /\ d0[i + j] \in Bit
    OBVIOUS
  <2> QED
    BY <2>1, PlusIs
<1> QED
  BY <1>1 DEF Window, Regs

(* One step of the division is one cycle of the register.                   *)
LEMMA DivisionStep ==
    ASSUME NEW n \in Nat, NEW d0 \in [1 .. (n + 7) -> Bit], NEW d \in [1 .. (n + 7) -> Bit], NEW k \in 0 .. (n - 1),
           \A j \in 1 .. (n + 7) : j > k + 7 => d[j] = d0[j]
    PROVE  /\ \A j \in 1 .. (n + 7) : j > k + 8 => Divided(d, k + 1)[j] = d0[j]
           /\ Window(d0, Divided(d, k + 1), k + 1) = Clocked(Window(d0, d, k), d0[k + 1])
<1> DEFINE i == k + 1
           e == Divided(d, i)
           c == Window(d0, d, k)
<1>1. i \in 1 .. n /\ k \in 0 .. n /\ i \in Int
  OBVIOUS
<1>2. \A j \in 1 .. (n + 7) : e[j] = IF j - i \in {0, 4, 7} THEN Plus(d[j], d[i]) ELSE d[j]
  BY <1>1, DividedIs
<1>3. ASSUME NEW j \in 1 .. (n + 7), j > k + 8 PROVE e[j] = d0[j]
  <2>1. j - i \notin {0, 4, 7} /\ j > k + 7
    BY <1>3
  <2> QED
    BY <1>2, <2>1
<1>4. \A a \in Bit, b \in Bit : Plus(Plus(a, b), b) = a /\ Plus(Plus(a, b), a) = b
  BY DEF Plus, Bit
<1>5. d[i] \in Bit /\ d0[i] \in Bit
  BY <1>1
<1>6. c[1] = Plus(d[i], d0[i]) /\ Plus(c[1], d0[i]) = d[i]
  BY <1>4, <1>5 DEF Window
<1>7. c \in Regs
  BY <1>1, WindowIn
<1>8. Clocked(c, d0[i]) = Fed(c, d0[i])
  BY <1>5, <1>7, ClockedIs
<1> HIDE DEF e
<1>9. ASSUME NEW j \in 1 .. 7 PROVE Plus(e[i + j], d0[i + j]) = Fed(c, d0[i])[j]
  <2>1. i + j \in 1 .. (n + 7) /\ (i + j) - i = j
    BY <1>1
  <2>2. d[i + j] \in Bit /\ d0[i + j] \in Bit
    BY <2>1
  <2>3. e[i + j] = IF j \in {0, 4, 7} THEN Plus(d[i + j], d[i]) ELSE d[i + j]
    BY <1>2, <2>1
  <2>4. Fed(c, d0[i])[j] = IF j = 7 THEN d[i] ELSE IF j = 4 THEN Plus(c[5], d[i]) ELSE c[j + 1]
    BY <1>6 DEF Fed
  <2>5. CASE j = 7
    <3>1. d[i + j] = d0[i + j]
      BY <2>1, <2>5
    <3>2. Plus(Plus(d[i + j], d[i]), d[i + j]) = d[i]
      BY <1>4, <1>5, <2>2
    <3> QED
      BY <2>3, <2>4, <2>5, <3>1, <3>2
  <2>6. CASE j = 4
    <3>1. c[5] = Plus(d[i + j], d0[i + j])
      BY <2>6 DEF Window
    <3>2. \A a \in Bit, b \in Bit, f \in Bit : Plus(Plus(a, f), b) = Plus(Plus(a, b), f)
      BY DEF Plus, Bit
    <3>3. Plus(Plus(d[i + j], d[i]), d0[i + j]) = Plus(Plus(d[i + j], d0[i + j]), d[i])
      BY <1>5, <2>2, <3>2
    <3> QED
      BY <2>3, <2>4, <2>6, <3>1, <3>3
  <2>7. CASE j # 7 /\ j # 4
    <3>1. j + 1 \in 1 .. 7 /\ k + (j + 1) = i + j
      BY <2>7
    <3>2. c[j + 1] = Plus(d[i + j], d0[i + j])
      BY <3>1 DEF Window
    <3> QED
      BY <2>3, <2>4, <2>7, <3>2
  <2> QED
    BY <2>5, <2>6, <2>7
<1>10. Window(d0, e, i) = Fed(c, d0[i])
  <2>1. Fed(c, d0[i]) = [j \in 1 .. 7 |-> Fed(c, d0[i])[j]]
    BY DEF Fed
  <2> QED
    BY <1>9, <2>1 DEF Window
<1> QED
  BY <1>3, <1>8, <1>10 DEF e

(* A part of a row of bits.                                                 *)
LEMMA Cut ==
    ASSUME NEW s, NEW a \in Int, NEW b \in Int, a <= b, \A i \in a .. b : s[i] \in Bit
    PROVE  /\ SubSeq(s, a, b) \in Seq(Bit) /\ Len(SubSeq(s, a, b)) = b - a + 1
           /\ \A i \in 1 .. (b - a + 1) : SubSeq(s, a, b)[i] = s[a + i - 1]
BY SubSeqProperties

(* R holds the registers of a message, from before its first bit on.         *)
Divides(R, m) ==
    /\ R \in [0 .. Len(m) -> Regs]
    /\ R[0] = Zeros(CrcBits)
    /\ \A i \in 1 .. Len(m) : R[i] = Clocked(R[i - 1], m[i])
    /\ R[Len(m)] = Remainder(m)

(* The register clocked through a message ends with the remainder of the    *)
(* message, whatever its length: crc.sv divides.                            *)
THEOREM RegisterDivides ==
    ASSUME NEW m \in Seq(Bit)
    PROVE  \E R : Divides(R, m)
<1> DEFINE n == Len(m)
           d0 == m \o Zeros(CrcBits)
           BitRow == [1 .. (n + 7) -> Bit]
<1>1. n \in Nat /\ Zeros(CrcBits) \in Seq(Bit) /\ Len(Zeros(CrcBits)) = 7 /\ \A j \in 1 .. 7 : Zeros(CrcBits)[j] = 0
  BY LenProperties DEF Zeros, CrcBits, Bit
<1>2. d0 \in Seq(Bit) /\ Len(d0) = n + Len(Zeros(CrcBits))
      /\ \A j \in 1 .. (n + Len(Zeros(CrcBits))) : d0[j] = IF j <= n THEN m[j] ELSE Zeros(CrcBits)[j - n]
  BY <1>1, Glued, Zenon
<1>3. PICK F \in [0 .. n -> BitRow] :
          /\ F[0] = d0
          /\ \A i \in 1 .. n : F[i] = Divided(F[i - 1], i)
          /\ Remainder(m) = SubSeq(F[n], n + 1, n + CrcBits)
  BY RemainderIs
<1> HIDE DEF n, d0
<1>4. d0 \in BitRow /\ (\A j \in 1 .. n : d0[j] = m[j]) /\ \A j \in 1 .. 7 : d0[n + j] = 0
  <2>1. d0 \in BitRow
    BY <1>1, <1>2, LenProperties
  <2>2. ASSUME NEW j \in 1 .. n PROVE d0[j] = m[j]
    BY <1>1, <1>2
  <2>3. ASSUME NEW j \in 1 .. 7 PROVE d0[n + j] = 0
    <3>1. n + j \in 1 .. (n + 7) /\ ~(n + j <= n) /\ (n + j) - n = j
      BY <1>1
    <3>2. d0[n + j] = Zeros(CrcBits)[(n + j) - n]
      BY <1>1, <1>2, <3>1
    <3> QED
      BY <1>1, <3>1, <3>2
  <2> QED
    BY <2>1, <2>2, <2>3
<1> HIDE DEF BitRow
<1>5. ASSUME NEW k \in 0 .. (n - 1), \A j \in 1 .. (n + 7) : j > k + 7 => F[k][j] = d0[j]
      PROVE  /\ \A j \in 1 .. (n + 7) : j > k + 8 => F[k + 1][j] = d0[j]
             /\ Window(d0, F[k + 1], k + 1) = Clocked(Window(d0, F[k], k), m[k + 1])
  <2>1. k \in 0 .. n /\ k + 1 \in 1 .. n /\ (k + 1) - 1 = k
    BY <1>1
  <2>2. F[k] \in BitRow /\ F[k + 1] = Divided(F[k], k + 1) /\ d0[k + 1] = m[k + 1]
    BY <1>3, <1>4, <2>1
  <2>3. /\ \A j \in 1 .. (n + 7) : j > k + 8 => Divided(F[k], k + 1)[j] = d0[j]
        /\ Window(d0, Divided(F[k], k + 1), k + 1) = Clocked(Window(d0, F[k], k), d0[k + 1])
    BY <1>1, <1>4, <1>5, <2>2, DivisionStep DEF BitRow
  <2> QED
    BY <2>2, <2>3
<1> DEFINE W == {k \in Nat : k <= n => \A j \in 1 .. (n + 7) : j > k + 7 => F[k][j] = d0[j]}
<1>6. 0 \in W
  BY <1>3
<1>7. ASSUME NEW k \in Nat, k \in W PROVE k + 1 \in W
  <2> SUFFICES ASSUME k + 1 <= n, NEW j \in 1 .. (n + 7), j > (k + 1) + 7 PROVE F[k + 1][j] = d0[j]
    OBVIOUS
  <2>1. k \in 0 .. (n - 1) /\ j > k + 8
    BY <1>1
  <2>2. \A l \in 1 .. (n + 7) : l > k + 7 => F[k][l] = d0[l]
    BY <1>1, <1>7
  <2> QED
    BY <1>5, <2>1, <2>2
<1>8. \A k \in 0 .. n : \A j \in 1 .. (n + 7) : j > k + 7 => F[k][j] = d0[j]
  <2>1. Nat \subseteq W
    BY <1>6, <1>7, NatsIn
  <2> QED
    BY <2>1
<1> HIDE DEF W
<1> DEFINE R == [i \in 0 .. n |-> Window(d0, F[i], i)]
<1>9. R \in [0 .. n -> Regs]
  <2>1. ASSUME NEW i \in 0 .. n PROVE Window(d0, F[i], i) \in Regs
    <3>1. F[i] \in BitRow
      BY <1>3
    <3> QED
      BY <1>1, <1>4, <3>1, WindowIn DEF BitRow
  <2> QED
    BY <2>1
<1>10. R[0] = Zeros(CrcBits)
  <2>1. R[0] = [j \in 1 .. 7 |-> Plus(d0[0 + j], d0[0 + j])]
    BY <1>1, <1>3 DEF Window
  <2> QED
    BY <2>1 DEF Plus, Zeros, CrcBits
<1>11. ASSUME NEW i \in 1 .. n PROVE R[i] = Clocked(R[i - 1], m[i])
  <2>1. i - 1 \in 0 .. (n - 1) /\ i - 1 \in 0 .. n /\ (i - 1) + 1 = i /\ i \in 0 .. n
    BY <1>1
  <2> DEFINE k == i - 1
  <2>2. k \in 0 .. (n - 1) /\ k \in 0 .. n /\ k + 1 = i /\ i \in 0 .. n
    BY <2>1
  <2> HIDE DEF k
  <2>3. Window(d0, F[k + 1], k + 1) = Clocked(Window(d0, F[k], k), m[k + 1])
    BY <1>5, <1>8, <2>2
  <2>4. R[i] = Window(d0, F[i], i) /\ R[k] = Window(d0, F[k], k)
    BY <2>2
  <2>5. R[i] = Clocked(R[k], m[i])
    BY <2>2, <2>3, <2>4
  <2> QED
    BY <2>5 DEF k
<1>12. R[n] = Remainder(m)
  <2>1. F[n] \in BitRow
    BY <1>1, <1>3
  <2>2. \A j \in (n + 1) .. (n + 7) : F[n][j] \in Bit
    BY <1>1, <2>1 DEF BitRow
  <2> DEFINE rem == SubSeq(F[n], n + 1, n + 7)
  <2>3. rem \in Seq(Bit) /\ Len(rem) = (n + 7) - (n + 1) + 1
        /\ \A i \in 1 .. ((n + 7) - (n + 1) + 1) : rem[i] = F[n][(n + 1) + i - 1]
    <3>1. n + 1 \in Int /\ n + 7 \in Int /\ n + 1 <= n + 7
      BY <1>1
    <3> QED
      BY <2>2, <3>1, Cut, Zenon
  <2>4. rem = Remainder(m)
    BY <1>3 DEF CrcBits
  <2> HIDE DEF rem
  <2>5. rem \in Regs
    BY <1>1, <2>3, SeqIsReg
  <2>6. \A i \in 1 .. 7 : rem[i] = F[n][n + i]
    BY <1>1, <2>3
  <2>7. ASSUME NEW j \in 1 .. 7 PROVE Plus(F[n][n + j], d0[n + j]) = rem[j]
    <3>1. F[n][n + j] \in Bit /\ d0[n + j] = 0
      BY <1>1, <1>4, <2>1 DEF BitRow
    <3>2. \A a \in Bit : Plus(a, 0) = a
      BY DEF Plus, Bit
    <3> QED
      BY <2>6, <3>1, <3>2
  <2>8. Window(d0, F[n], n) = rem
    BY <2>5, <2>7 DEF Window, Regs
  <2>9. R[n] = Window(d0, F[n], n)
    BY <1>1
  <2> QED
    BY <2>4, <2>8, <2>9
<1> HIDE DEF R
<1>13. Divides(R, m)
  BY <1>9, <1>10, <1>11, <1>12 DEF Divides, n
<1> QED
  BY <1>13

-----------------------------------------------------------------------------
(* What a burst of spoilt bits does to the register.                        *)

Sum2(c, d) == [j \in 1 .. 7 |-> Plus(c[j], d[j])]

(* The sum of two registers is a register.                                  *)
LEMMA SumIn ==
    ASSUME NEW c \in Regs, NEW d \in Regs
    PROVE  Sum2(c, d) \in Regs
<1>1. ASSUME NEW j \in 1 .. 7 PROVE Plus(c[j], d[j]) \in Bit
  <2>1. c[j] \in Bit /\ d[j] \in Bit
    BY DEF Regs
  <2> QED
    BY <2>1, PlusIs
<1> QED
  BY <1>1 DEF Sum2, Regs

(* The register is linear: the sum of two registers is the register of the  *)
(* sum of what comes in.                                                    *)
LEMMA Linear ==
    ASSUME NEW c \in Regs, NEW d \in Regs, NEW a \in Bit, NEW b \in Bit
    PROVE  Sum2(Clocked(c, a), Clocked(d, b)) = Fed(Sum2(c, d), Plus(a, b))
<1>1. Clocked(c, a) = Fed(c, a) /\ Clocked(d, b) = Fed(d, b)
  BY ClockedIs
<1>2. \A u \in Bit, v \in Bit, w \in Bit, z \in Bit : Plus(Plus(u, v), Plus(w, z)) = Plus(Plus(u, w), Plus(v, z))
  BY DEF Plus, Bit
<1>3. \A j \in 1 .. 7 : c[j] \in Bit /\ d[j] \in Bit
  BY DEF Regs
<1>4. \A u \in Bit, v \in Bit : Plus(u, v) \in Bit
  BY PlusIs
<1>5. Plus(Plus(c[1], a), Plus(d[1], b)) = Plus(Plus(c[1], d[1]), Plus(a, b))
  BY <1>2, <1>3
<1>6. ASSUME NEW j \in 1 .. 7 PROVE Plus(Fed(c, a)[j], Fed(d, b)[j]) = Fed(Sum2(c, d), Plus(a, b))[j]
  <2>1. CASE j = 7
    BY <1>5, <2>1 DEF Fed, Sum2
  <2>2. CASE j = 4
    <3>1. Plus(c[1], a) \in Bit /\ Plus(d[1], b) \in Bit /\ c[5] \in Bit /\ d[5] \in Bit
      BY <1>3, <1>4
    <3>2. Plus(Plus(c[5], Plus(c[1], a)), Plus(d[5], Plus(d[1], b)))
            = Plus(Plus(c[5], d[5]), Plus(Plus(c[1], a), Plus(d[1], b)))
      BY <1>2, <3>1
    <3> QED
      BY <1>5, <2>2, <3>2 DEF Fed, Sum2
  <2>3. CASE j # 7 /\ j # 4
    BY <2>3 DEF Fed, Sum2
  <2> QED
    BY <2>1, <2>2, <2>3
<1> QED
  BY <1>1, <1>6 DEF Sum2, Fed

(* One to seven ones, and the register that was zero before them.           *)
Bursts ==
    << <<0, 0, 0, 1, 0, 0, 1>>,
       <<0, 0, 1, 1, 0, 1, 1>>,
       <<0, 1, 1, 1, 1, 1, 1>>,
       <<1, 1, 1, 0, 1, 1, 1>>,
       <<1, 1, 0, 1, 1, 1, 0>>,
       <<1, 0, 1, 1, 1, 0, 0>>,
       <<0, 1, 1, 1, 0, 0, 0>> >>

(* Registers with the same bits are the same.                               *)
LEMMA RegEqual ==
    ASSUME NEW c \in Regs, NEW d \in Regs,
           c[1] = d[1], c[2] = d[2], c[3] = d[3], c[4] = d[4], c[5] = d[5], c[6] = d[6], c[7] = d[7]
    PROVE  c = d
<1>1. \A j \in 1 .. 7 : c[j] = d[j]
  OBVIOUS
<1> QED
  BY <1>1 DEF Regs

(* The register of zeros.                                                   *)
LEMMA ZerosIs == Zeros(CrcBits) \in Regs /\ \A j \in 1 .. 7 : Zeros(CrcBits)[j] = 0
BY DEF Zeros, CrcBits, Regs, Bit

(* Seven bits are a register.                                               *)
LEMMA SevenBits ==
    ASSUME NEW a \in Bit, NEW b \in Bit, NEW c \in Bit, NEW d \in Bit, NEW e \in Bit, NEW f \in Bit, NEW g \in Bit
    PROVE  <<a, b, c, d, e, f, g>> \in Regs
<1>1. <<a, b, c, d, e, f, g>> \in Seq(Bit) /\ Len(<<a, b, c, d, e, f, g>>) = 7
  OBVIOUS
<1> QED
  BY <1>1, SeqIsReg, Zenon

(* None of them is zero.                                                    *)
LEMMA BurstsIn == \A k \in 1 .. 7 : Bursts[k] \in Regs /\ Bursts[k] # Zeros(CrcBits)
<1>1. ASSUME NEW k \in 1 .. 7 PROVE Bursts[k] \in Regs
  <2>1. 0 \in Bit /\ 1 \in Bit
    BY DEF Bit
  <2>2. /\ Bursts[1] \in Regs /\ Bursts[2] \in Regs /\ Bursts[3] \in Regs /\ Bursts[4] \in Regs
        /\ Bursts[5] \in Regs /\ Bursts[6] \in Regs /\ Bursts[7] \in Regs
    BY <2>1, SevenBits DEF Bursts
  <2> QED
    BY <2>2
<1>2. ASSUME NEW k \in 1 .. 7 PROVE Bursts[k][4] = 1 \/ Bursts[k][3] = 1
  BY DEF Bursts
<1> QED
  BY <1>1, <1>2, ZerosIs

(* Each is what one more spoilt bit makes of the one before.                *)
LEMMA BurstsGrow ==
    /\ Fed(Zeros(CrcBits), 1) = Bursts[1]
    /\ \A k \in 1 .. 6 : Fed(Bursts[k], 1) = Bursts[k + 1]
<1>1. Fed(Zeros(CrcBits), 1) = Bursts[1]
  <2>1. Fed(Zeros(CrcBits), 1) \in Regs /\ Bursts[1] \in Regs
    BY BurstsIn, ZerosIs, FedIn DEF Bit
  <2> QED
    BY <2>1, ZerosIs, RegEqual DEF Fed, Bursts, Plus
<1>2. ASSUME NEW k \in 1 .. 6 PROVE Fed(Bursts[k], 1) = Bursts[k + 1]
  <2>1. Fed(Bursts[k], 1) \in Regs /\ Bursts[k + 1] \in Regs
    BY BurstsIn, FedIn DEF Bit
  <2>2. CASE k = 1
    BY <2>1, <2>2, RegEqual DEF Fed, Bursts, Plus
  <2>3. CASE k = 2
    BY <2>1, <2>3, RegEqual DEF Fed, Bursts, Plus
  <2>4. CASE k = 3
    BY <2>1, <2>4, RegEqual DEF Fed, Bursts, Plus
  <2>5. CASE k = 4
    BY <2>1, <2>5, RegEqual DEF Fed, Bursts, Plus
  <2>6. CASE k = 5
    BY <2>1, <2>6, RegEqual DEF Fed, Bursts, Plus
  <2>7. CASE k = 6
    BY <2>1, <2>7, RegEqual DEF Fed, Bursts, Plus
  <2> QED
    BY <2>2, <2>3, <2>4, <2>5, <2>6, <2>7
<1> QED
  BY <1>1, <1>2

(* Without a fault nothing happens to it.                                   *)
LEMMA ZeroStays == Fed(Zeros(CrcBits), 0) = Zeros(CrcBits)
<1>1. Fed(Zeros(CrcBits), 0) \in Regs
  BY ZerosIs, FedIn DEF Bit
<1> QED
  BY <1>1, ZerosIs, RegEqual DEF Fed, Plus

(* Once it is not zero, good bits do not make it so.                        *)
LEMMA SpoiltStays ==
    ASSUME NEW c \in Regs, c # Zeros(CrcBits)
    PROVE  Fed(c, 0) # Zeros(CrcBits)
<1> SUFFICES ASSUME Fed(c, 0) = Zeros(CrcBits) PROVE FALSE
  OBVIOUS
<1>1. \A j \in 1 .. 7 : Fed(c, 0)[j] = 0
  BY ZerosIs
<1>2. \A a \in Bit : Plus(a, 0) = a
  BY DEF Plus, Bit
<1>3. c[1] \in Bit /\ c[5] \in Bit
  BY DEF Regs
<1>4. c[1] = 0
  BY <1>1, <1>2, <1>3 DEF Fed
<1>5. c[5] = 0
  BY <1>1, <1>2, <1>3, <1>4 DEF Fed
<1>6. c[2] = 0 /\ c[3] = 0 /\ c[4] = 0 /\ c[6] = 0 /\ c[7] = 0
  <2>1. ASSUME NEW j \in {1, 2, 3, 5, 6} PROVE c[j + 1] = 0
    BY <1>1 DEF Fed
  <2>2. c[1 + 1] = 0 /\ c[2 + 1] = 0 /\ c[3 + 1] = 0 /\ c[5 + 1] = 0 /\ c[6 + 1] = 0
    BY <2>1
  <2> QED
    BY <2>2
<1> QED
  BY <1>4, <1>5, <1>6, ZerosIs, RegEqual

(* The register after the first q bits, of which lo .. hi are spoilt.       *)
Marks(d, q, lo, hi) ==
    /\ d \in Regs
    /\ (q < lo \/ hi < lo) => d = Zeros(CrcBits)
    /\ lo <= q /\ q <= hi => d = Bursts[q - lo + 1]
    /\ lo <= hi /\ hi < q => d # Zeros(CrcBits)

In(n, lo, hi) == IF lo <= n /\ n <= hi THEN 1 ELSE 0

(* One more bit, spoilt or not.                                             *)
LEMMA MarksStep ==
    ASSUME NEW lo \in Nat, NEW hi \in Nat, hi - lo <= 6, NEW q \in Nat, NEW d, Marks(d, q, lo, hi)
    PROVE  Marks(Fed(d, In(q + 1, lo, hi)), q + 1, lo, hi)
<1>1. In(q + 1, lo, hi) \in Bit /\ d \in Regs
  BY DEF In, Bit, Marks
<1>2. Fed(d, In(q + 1, lo, hi)) \in Regs
  BY <1>1, FedIn
<1>3. CASE hi < lo
  <2>1. d = Zeros(CrcBits) /\ In(q + 1, lo, hi) = 0
    BY <1>3 DEF Marks, In
  <2> QED
    BY <1>2, <1>3, <2>1, ZeroStays DEF Marks
<1>4. CASE lo <= hi /\ q + 1 < lo
  <2>1. d = Zeros(CrcBits) /\ In(q + 1, lo, hi) = 0
    BY <1>4 DEF Marks, In
  <2> QED
    BY <1>2, <1>4, <2>1, ZeroStays DEF Marks
<1>5. CASE lo <= hi /\ q + 1 = lo
  <2>1. d = Zeros(CrcBits) /\ In(q + 1, lo, hi) = 1 /\ (q + 1) - lo + 1 = 1
    BY <1>5 DEF Marks, In
  <2> QED
    BY <1>2, <1>5, <2>1, BurstsGrow DEF Marks
<1>6. CASE lo <= hi /\ lo <= q /\ q + 1 <= hi
  <2> DEFINE k == q - lo + 1
  <2>1. d = Bursts[k] /\ In(q + 1, lo, hi) = 1 /\ k \in 1 .. 6 /\ (q + 1) - lo + 1 = k + 1
    BY <1>6 DEF Marks, In
  <2>2. Fed(d, 1) = Bursts[k + 1]
    BY <2>1, BurstsGrow
  <2> QED
    BY <1>2, <1>6, <2>1, <2>2 DEF Marks
<1>7. CASE lo <= hi /\ hi < q + 1
  <2>1. In(q + 1, lo, hi) = 0
    BY <1>7 DEF In
  <2>2. d # Zeros(CrcBits)
    <3>1. CASE q = hi
      <4>1. d = Bursts[q - lo + 1] /\ q - lo + 1 \in 1 .. 7
        BY <1>7, <3>1 DEF Marks
      <4> QED
        BY <4>1, BurstsIn
    <3>2. CASE q # hi
      BY <1>7, <3>2 DEF Marks
    <3> QED
      BY <3>1, <3>2
  <2> QED
    BY <1>1, <1>2, <1>7, <2>1, <2>2, SpoiltStays DEF Marks
<1> QED
  BY <1>3, <1>4, <1>5, <1>6, <1>7

(* A burst of at most seven bits that ends at the latest with the CRC is    *)
(* seen: what it did to the register is not what it did to the CRC.         *)
LEMMA BurstSeen ==
    ASSUME NEW lo \in Nat, NEW hi \in Nat, lo <= hi, hi - lo <= 6, NEW q \in Nat, hi <= q + 7,
           NEW d, Marks(d, q, lo, hi)
    PROVE  d # [j \in 1 .. 7 |-> In(q + j, lo, hi)]
<1> DEFINE e == [j \in 1 .. 7 |-> In(q + j, lo, hi)]
<1>1. CASE hi <= q
  <2>1. \A j \in 1 .. 7 : In(q + j, lo, hi) = 0
    BY <1>1 DEF In
  <2>2. e = Zeros(CrcBits)
    BY <2>1 DEF Zeros, CrcBits
  <2>3. d # Zeros(CrcBits)
    <3>1. CASE q = hi
      <4>1. d = Bursts[q - lo + 1] /\ q - lo + 1 \in 1 .. 7
        BY <3>1 DEF Marks
      <4> QED
        BY <4>1, BurstsIn
    <3>2. CASE q # hi
      BY <1>1, <3>2 DEF Marks
    <3> QED
      BY <3>1, <3>2
  <2> QED
    BY <2>2, <2>3
<1>2. CASE q < lo
  <2>1. d = Zeros(CrcBits)
    BY <1>2 DEF Marks
  <2>2. lo - q \in 1 .. 7 /\ q + (lo - q) = lo
    BY <1>2
  <2>3. e[lo - q] = In(lo, lo, hi)
    BY <2>2
  <2>4. In(lo, lo, hi) = 1 /\ Zeros(CrcBits)[lo - q] = 0
    BY <2>2, ZerosIs DEF In
  <2> QED
    BY <2>1, <2>3, <2>4
<1>3. CASE lo <= q /\ q < hi
  <2> DEFINE k == q - lo + 1
  <2>1. d = Bursts[k] /\ k \in 1 .. 6 /\ k + (hi - q) <= 7
    BY <1>3 DEF Marks
  <2>2. e[1] = 1 /\ \A j \in 1 .. 7 : j > 7 - k => e[j] = 0
    <3>1. In(q + 1, lo, hi) = 1
      BY <1>3 DEF In
    <3>2. ASSUME NEW j \in 1 .. 7, j > 7 - k PROVE In(q + j, lo, hi) = 0
      BY <2>1, <3>2 DEF In
    <3> QED
      BY <3>1, <3>2
  <2> HIDE DEF k, e
  <2>3. CASE k \in {1, 2, 3}
    <3>1. Bursts[k][1] = 0
      BY <2>3 DEF Bursts
    <3> QED
      BY <2>1, <2>2, <3>1 DEF e
  <2>4. CASE k = 4
    <3>1. Bursts[k][5] = 1 /\ e[5] = 0
      BY <2>2, <2>4 DEF Bursts
    <3> QED
      BY <2>1, <3>1 DEF e
  <2>5. CASE k = 5
    <3>1. Bursts[k][4] = 1 /\ e[4] = 0
      BY <2>2, <2>5 DEF Bursts
    <3> QED
      BY <2>1, <3>1 DEF e
  <2>6. CASE k = 6
    <3>1. Bursts[k][3] = 1 /\ e[3] = 0
      BY <2>2, <2>6 DEF Bursts
    <3> QED
      BY <2>1, <3>1 DEF e
  <2> QED
    BY <2>1, <2>3, <2>4, <2>5, <2>6
<1> QED
  BY <1>1, <1>2, <1>3

-----------------------------------------------------------------------------
(* The frames, and the registers as the bits of a frame come in.            *)

Body(r) == <<Start, 1>> \o r.cmd \o r.args

Header(r) == <<Start, 0>> \o LastCmd(r)

Check(r, p) ==
    CASE r.reply = "short" -> Remainder(Header(r) \o p)
      [] r.reply = "long" -> Remainder(p)
      [] r.reply = "raw" -> Ones(CrcBits)

(* A remainder is a register.                                               *)
LEMMA RemainderIn ==
    ASSUME NEW m \in Seq(Bit)
    PROVE  Remainder(m) \in Regs /\ Remainder(m) \in Seq(Bit) /\ Len(Remainder(m)) = 7
<1>1. PICK R : Divides(R, m)
  BY RegisterDivides
<1>2. Remainder(m) \in Regs
  <2>1. R \in [0 .. Len(m) -> Regs] /\ R[Len(m)] = Remainder(m) /\ Len(m) \in Nat
    BY <1>1, LenProperties DEF Divides
  <2> QED
    BY <2>1
<1> QED
  BY <1>2, RegIsSeq

(* A row of ones.                                                           *)
LEMMA OnesAre ==
    ASSUME NEW n \in Nat
    PROVE  Ones(n) \in Seq(Bit) /\ Len(Ones(n)) = n /\ \A i \in 1 .. n : Ones(n)[i] = 1
BY DEF Ones, Bit

(* A request is rows of bits.                                               *)
LEMMA RequestIs ==
    ASSUME NEW r \in Requests
    PROVE  /\ r.cmd \in Seq(Bit) /\ Len(r.cmd) = 6 /\ r.args \in Seq(Bit)
           /\ r.reply \in {"none", "short", "long", "raw"}
           /\ LastCmd(r) \in Seq(Bit) /\ Len(LastCmd(r)) = 6
<1>1. r.cmd \in Seq(Bit) /\ Len(r.cmd) = 6 /\ r.args \in Seq(Bit) /\ r.reply \in {"none", "short", "long", "raw"}
  BY FramesAssumption DEF CmdBits
<1>2. Ones(CmdBits) \in Seq(Bit) /\ Len(Ones(CmdBits)) = 6
  BY OnesAre DEF CmdBits
<1> QED
  BY <1>1, <1>2 DEF LastCmd

(* A payload has a bit.                                                     *)
LEMMA PayloadIs ==
    ASSUME NEW p \in Payloads
    PROVE  p \in Seq(Bit) /\ Len(p) \in Nat \ {0}
BY FramesAssumption, EmptySeq

(* A command has a bit.                                                     *)
LEMMA BodyIs ==
    ASSUME NEW r \in Requests
    PROVE  Body(r) \in Seq(Bit) /\ Len(Body(r)) \in Nat \ {0}
<1> DEFINE two == <<Start, 1>>
<1>1. two \in Seq(Bit) /\ Len(two) = 2
  BY DEF Start, Bit
<1> HIDE DEF two
<1>2. two \o r.cmd \in Seq(Bit) /\ Len(two \o r.cmd) = Len(two) + Len(r.cmd)
  BY <1>1, RequestIs, Glued, Zenon
<1>3. (two \o r.cmd) \o r.args \in Seq(Bit) /\ Len((two \o r.cmd) \o r.args) = Len(two \o r.cmd) + Len(r.args)
  BY <1>2, RequestIs, Glued, Zenon
<1>4. Len(r.args) \in Nat /\ Len(r.cmd) = 6
  BY RequestIs, LenProperties
<1>5. Body(r) = (two \o r.cmd) \o r.args
  BY Zenon DEF Body, two
<1> DEFINE b == (two \o r.cmd) \o r.args
           a == two \o r.cmd
<1>6. Len(b) = Len(a) + Len(r.args) /\ Len(a) = Len(two) + Len(r.cmd)
  BY <1>2, <1>3
<1> HIDE DEF a, b
<1>7. Len(b) \in Nat \ {0}
  BY <1>1, <1>4, <1>6
<1> QED
  BY <1>3, <1>5, <1>7 DEF b

(* The header of a reply, bit by bit.                                       *)
LEMMA HeaderIs ==
    ASSUME NEW r \in Requests
    PROVE  /\ Header(r) \in Seq(Bit) /\ Len(Header(r)) = 8
           /\ Header(r)[1] = 0 /\ Header(r)[2] = 0
           /\ \A i \in 1 .. 6 : Header(r)[i + 2] = LastCmd(r)[i]
<1> DEFINE two == <<Start, 0>>
           last == LastCmd(r)
           h == Header(r)
<1>1. two \in Seq(Bit) /\ Len(two) = 2 /\ two[1] = 0 /\ two[2] = 0
  BY DEF Start, Bit
<1>2. h = two \o last
  BY DEF Header
<1>3. last \in Seq(Bit) /\ Len(last) = 6
  BY RequestIs
<1> HIDE DEF two, last, h
<1>4. h \in Seq(Bit) /\ Len(h) = Len(two) + Len(last)
      /\ \A i \in 1 .. (Len(two) + Len(last)) : h[i] = IF i <= Len(two) THEN two[i] ELSE last[i - Len(two)]
  BY <1>1, <1>2, <1>3, Glued, Zenon
<1>5. \A i \in 1 .. 8 : h[i] = IF i <= 2 THEN two[i] ELSE last[i - 2]
  BY <1>1, <1>3, <1>4
<1>6. h[1] = 0 /\ h[2] = 0
  BY <1>1, <1>5
<1>7. ASSUME NEW i \in 1 .. 6 PROVE h[i + 2] = last[i]
  <2>1. i + 2 \in 1 .. 8 /\ ~(i + 2 <= 2) /\ (i + 2) - 2 = i
    OBVIOUS
  <2> QED
    BY <1>5, <2>1
<1> QED
  BY <1>1, <1>3, <1>4, <1>6, <1>7 DEF h, last

(* What checks a reply, and where it is.                                    *)
LEMMA CheckIs ==
    ASSUME NEW r \in Requests, NEW p \in Payloads, r.reply # "none"
    PROVE  /\ Check(r, p) \in Seq(Bit) /\ Len(Check(r, p)) = 7 /\ Check(r, p) \in Regs
           /\ ReplyFrame(r, p) = ((Header(r) \o p) \o Check(r, p)) \o <<Stop>>
<1>1. p \in Seq(Bit) /\ Header(r) \o p \in Seq(Bit)
  BY PayloadIs, HeaderIs, Glued, Zenon
<1>2. r.reply \in {"short", "long", "raw"}
  BY RequestIs
<1>3. Remainder(Header(r) \o p) \in Regs /\ Remainder(p) \in Regs
  BY <1>1, RemainderIn
<1>4. Ones(CrcBits) \in Regs
  BY DEF Ones, CrcBits, Regs, Bit
<1>5. Check(r, p) \in Regs
  BY <1>2, <1>3, <1>4 DEF Check
<1>6. Check(r, p) \in Seq(Bit) /\ Len(Check(r, p)) = 7
  BY <1>5, RegIsSeq
<1>7. ReplyFrame(r, p) = ((Header(r) \o p) \o Check(r, p)) \o <<Stop>>
  BY Zenon DEF ReplyFrame, Check, Header
<1> QED
  BY <1>5, <1>6, <1>7

(* The bits of a reply, each at its place.                                  *)
LEMMA ReplyIs ==
    ASSUME NEW r \in Requests, NEW p \in Payloads, r.reply # "none"
    PROVE  /\ Len(p) \in Nat \ {0}
           /\ ReplyFrame(r, p) \in Seq(Bit) /\ Len(ReplyFrame(r, p)) = Len(p) + 16
           /\ \A i \in 1 .. 8 : ReplyFrame(r, p)[i] = Header(r)[i]
           /\ \A i \in 1 .. Len(p) : ReplyFrame(r, p)[i + 8] = p[i]
           /\ \A i \in 1 .. (Len(p) + 8) : ReplyFrame(r, p)[i] = (Header(r) \o p)[i]
           /\ \A i \in 1 .. 7 : ReplyFrame(r, p)[Len(p) + 8 + i] = Check(r, p)[i]
           /\ ReplyFrame(r, p)[Len(p) + 16] = 1
<1> DEFINE n == Len(p)
           h == Header(r)
           c == Check(r, p)
           s == <<Stop>>
           a == h \o p
           b == a \o c
           f == b \o s
<1>1. h \in Seq(Bit) /\ Len(h) = 8
  BY HeaderIs
<1>2. p \in Seq(Bit) /\ n \in Nat \ {0}
  BY PayloadIs
<1>3. c \in Seq(Bit) /\ Len(c) = 7 /\ ReplyFrame(r, p) = f
  BY CheckIs, Zenon
<1>4. s \in Seq(Bit) /\ Len(s) = 1 /\ s[1] = 1
  BY DEF Stop, Bit
<1> HIDE DEF n, h, c, s
<1>5. a \in Seq(Bit) /\ Len(a) = Len(h) + Len(p)
      /\ \A i \in 1 .. (Len(h) + Len(p)) : a[i] = IF i <= Len(h) THEN h[i] ELSE p[i - Len(h)]
  BY <1>1, <1>2, Glued, Zenon
<1> HIDE DEF a
<1>6. b \in Seq(Bit) /\ Len(b) = Len(a) + Len(c)
      /\ \A i \in 1 .. (Len(a) + Len(c)) : b[i] = IF i <= Len(a) THEN a[i] ELSE c[i - Len(a)]
  BY <1>3, <1>5, Glued, Zenon
<1> HIDE DEF b
<1>7. f \in Seq(Bit) /\ Len(f) = Len(b) + Len(s)
      /\ \A i \in 1 .. (Len(b) + Len(s)) : f[i] = IF i <= Len(b) THEN b[i] ELSE s[i - Len(b)]
  BY <1>4, <1>6, Glued, Zenon
<1> HIDE DEF f
<1>8. Len(a) = n + 8 /\ Len(b) = n + 15 /\ Len(f) = n + 16
  BY <1>1, <1>2, <1>3, <1>4, <1>5, <1>6, <1>7 DEF n
<1>9. ASSUME NEW i \in 1 .. (n + 8) PROVE f[i] = a[i] /\ a[i] = IF i <= 8 THEN h[i] ELSE p[i - 8]
  <2>1. f[i] = b[i] /\ b[i] = a[i]
    BY <1>2, <1>3, <1>4, <1>6, <1>7, <1>8
  <2> QED
    BY <1>1, <1>2, <1>5, <2>1 DEF n
<1>10. ASSUME NEW i \in 1 .. 8 PROVE f[i] = h[i]
  BY <1>2, <1>9
<1>11. ASSUME NEW i \in 1 .. n PROVE f[i + 8] = p[i]
  <2>1. i + 8 \in 1 .. (n + 8) /\ ~(i + 8 <= 8) /\ (i + 8) - 8 = i
    BY <1>2
  <2> QED
    BY <1>9, <2>1
<1>12. ASSUME NEW i \in 1 .. 7 PROVE f[n + 8 + i] = c[i]
  <2> DEFINE k == n + 8 + i
  <2>1. k \in 1 .. (n + 16) /\ k <= n + 15 /\ ~(k <= n + 8) /\ k - (n + 8) = i /\ k \in 1 .. (n + 15)
    BY <1>2
  <2> HIDE DEF k
  <2>2. f[k] = b[k]
    BY <1>4, <1>7, <1>8, <2>1
  <2>3. b[k] = c[k - (n + 8)]
    BY <1>3, <1>6, <1>8, <2>1
  <2> QED
    BY <2>1, <2>2, <2>3 DEF k
<1>13. f[n + 16] = 1
  <2> DEFINE k == n + 16
  <2>1. k \in 1 .. (n + 16) /\ ~(k <= n + 15) /\ k - (n + 15) = 1
    BY <1>2
  <2> HIDE DEF k
  <2>2. f[k] = s[k - (n + 15)]
    BY <1>4, <1>7, <1>8, <2>1
  <2> QED
    BY <1>4, <2>1, <2>2 DEF k
<1>14. \A i \in 1 .. (n + 8) : f[i] = a[i]
  BY <1>9
<1> QED
  BY <1>2, <1>3, <1>7, <1>8, <1>10, <1>11, <1>12, <1>13, <1>14 DEF n, h, c, a

(* The registers as a reply comes in unspoilt, from its start bit on: the   *)
(* last of them is its CRC.                                                 *)
Tracks(r, p, X) ==
    /\ X \in [1 .. (Len(p) + 8) -> Regs]
    /\ X[1] = Seed(r.reply = "long")
    /\ \A q \in 1 .. (Len(p) + 7) : X[q + 1] = Clocked(X[q], ReplyFrame(r, p)[q + 1])
    /\ X[Len(p) + 8] = Check(r, p)

(* For a short reply: the division of all that comes before its CRC.        *)
LEMMA ShortTracks ==
    ASSUME NEW r \in Requests, NEW p \in Payloads, r.reply = "short"
    PROVE  \E X : Tracks(r, p, X)
<1> DEFINE n == Len(p)
           m == Header(r) \o p
           f == ReplyFrame(r, p)
<1>1. Header(r) \in Seq(Bit) /\ Len(Header(r)) = 8 /\ Header(r)[1] = 0 /\ p \in Seq(Bit) /\ n \in Nat \ {0}
  BY HeaderIs, PayloadIs
<1>2. m \in Seq(Bit) /\ Len(m) = Len(Header(r)) + n
  BY <1>1, Glued, Zenon
<1>3. PICK R : Divides(R, m)
  BY <1>2, RegisterDivides
<1>4. (\A i \in 1 .. (n + 8) : f[i] = m[i]) /\ f[1] = 0
  <2>1. \A i \in 1 .. (n + 8) : f[i] = m[i]
    BY ReplyIs
  <2>2. \A i \in 1 .. 8 : f[i] = Header(r)[i]
    BY ReplyIs
  <2> HIDE DEF m, f
  <2>3. f[1] = 0
    BY <1>1, <2>2
  <2> QED
    BY <2>1, <2>3
<1> HIDE DEF m, f, n
<1>5. Len(m) = n + 8
  BY <1>1, <1>2
<1>6. /\ R \in [0 .. (n + 8) -> Regs] /\ R[0] = Zeros(CrcBits) /\ R[n + 8] = Remainder(m)
      /\ \A i \in 1 .. (n + 8) : R[i] = Clocked(R[i - 1], m[i])
  BY <1>3, <1>5 DEF Divides
<1> DEFINE X == [q \in 1 .. (n + 8) |-> R[q]]
<1>7. X \in [1 .. (n + 8) -> Regs]
  BY <1>1, <1>6
<1>8. X[1] = Zeros(CrcBits)
  <2>1. R[1] = Clocked(Zeros(CrcBits), 0)
    <3>1. 1 \in 1 .. (n + 8) /\ 1 - 1 = 0
      BY <1>1
    <3>2. R[1] = Clocked(R[1 - 1], m[1])
      BY <1>6, <3>1
    <3>3. m[1] = 0
      BY <1>4, <3>1
    <3> QED
      BY <1>6, <3>1, <3>2, <3>3
  <2>2. Clocked(Zeros(CrcBits), 0) = Zeros(CrcBits)
    BY ClockedIs, ZerosIs, ZeroStays DEF Bit
  <2> QED
    BY <1>1, <2>1, <2>2
<1>9. ASSUME NEW q \in 1 .. (n + 7) PROVE X[q + 1] = Clocked(X[q], f[q + 1])
  <2> DEFINE k == q + 1
  <2>1. k \in 1 .. (n + 8) /\ k - 1 = q /\ q \in 1 .. (n + 8)
    BY <1>1
  <2> HIDE DEF k
  <2>2. R[k] = Clocked(R[k - 1], m[k]) /\ f[k] = m[k]
    BY <1>4, <1>6, <2>1
  <2>3. X[k] = Clocked(X[q], f[k])
    BY <2>1, <2>2
  <2> QED
    BY <2>3 DEF k
<1>10. X[n + 8] = Check(r, p)
  <2>1. X[n + 8] = R[n + 8]
    BY <1>1
  <2>2. Check(r, p) = Remainder(m)
    BY DEF Check, m
  <2> QED
    BY <1>6, <2>1, <2>2
<1>11. Seed(r.reply = "long") = Zeros(CrcBits)
  BY DEF Seed
<1> HIDE DEF X
<1>12. Tracks(r, p, X)
  BY <1>7, <1>8, <1>9, <1>10, <1>11 DEF Tracks, n, f
<1> QED
  BY <1>12

(* The seed of a long reply, bit by bit: its header moves it out.           *)
LongSeed(q) == [j \in 1 .. 7 |-> IF 3 <= q + j /\ q + j <= 8 THEN 1 ELSE 0]

(* It begins as the seed of a long reply and ends as zero.                  *)
LEMMA LongSeedIs ==
    /\ \A q \in 1 .. 8 : LongSeed(q) \in Regs
    /\ LongSeed(1) = Seed(TRUE)
    /\ LongSeed(8) = Zeros(CrcBits)
    /\ \A q \in 1 .. 7 : LongSeed(q + 1) = Fed(LongSeed(q), IF q = 1 THEN 0 ELSE 1)
<1>1. \A q \in 1 .. 8 : LongSeed(q) \in Regs
  BY DEF LongSeed, Regs, Bit
<1>2. LongSeed(1) = Seed(TRUE)
  <2> DEFINE zero == <<0>>
             ones == Ones(CmdBits)
             s == zero \o ones
  <2>1. zero \in Seq(Bit) /\ Len(zero) = 1 /\ zero[1] = 0
    BY DEF Bit
  <2>2. ones \in Seq(Bit) /\ Len(ones) = 6 /\ \A i \in 1 .. 6 : ones[i] = 1
    BY OnesAre DEF CmdBits
  <2>3. Seed(TRUE) = s
    BY DEF Seed
  <2> HIDE DEF zero, ones
  <2>4. s \in Seq(Bit) /\ Len(s) = Len(zero) + Len(ones)
        /\ \A i \in 1 .. (Len(zero) + Len(ones)) : s[i] = IF i <= Len(zero) THEN zero[i] ELSE ones[i - Len(zero)]
    BY <2>1, <2>2, Glued, Zenon
  <2> HIDE DEF s
  <2>5. \A i \in 1 .. 7 : s[i] = IF i <= 1 THEN zero[i] ELSE ones[i - 1]
    BY <2>1, <2>2, <2>4
  <2>6. s \in Regs
    BY <2>1, <2>2, <2>4, SeqIsReg
  <2>7. ASSUME NEW i \in 1 .. 7 PROVE s[i] = LongSeed(1)[i]
    <3>1. CASE i = 1
      BY <2>1, <2>5, <3>1 DEF LongSeed
    <3>2. CASE i # 1
      <4>1. i - 1 \in 1 .. 6
        BY <3>2
      <4> QED
        BY <2>2, <2>5, <3>2, <4>1 DEF LongSeed
    <3> QED
      BY <3>1, <3>2
  <2>8. s[1] = LongSeed(1)[1] /\ s[2] = LongSeed(1)[2] /\ s[3] = LongSeed(1)[3] /\ s[4] = LongSeed(1)[4]
        /\ s[5] = LongSeed(1)[5] /\ s[6] = LongSeed(1)[6] /\ s[7] = LongSeed(1)[7]
    BY <2>7
  <2>9. LongSeed(1) \in Regs
    BY <1>1
  <2>10. s = LongSeed(1)
    BY <2>6, <2>8, <2>9, RegEqual
  <2> QED
    BY <2>3, <2>10
<1>3. LongSeed(8) = Zeros(CrcBits)
  BY DEF LongSeed, Zeros, CrcBits
<1>4. ASSUME NEW q \in 1 .. 7 PROVE LongSeed(q + 1) = Fed(LongSeed(q), IF q = 1 THEN 0 ELSE 1)
  <2>1. Plus(LongSeed(q)[1], IF q = 1 THEN 0 ELSE 1) = 0
    BY DEF LongSeed, Plus
  <2>2. ASSUME NEW j \in 1 .. 7 PROVE LongSeed(q + 1)[j] = Fed(LongSeed(q), IF q = 1 THEN 0 ELSE 1)[j]
    <3>1. CASE j = 7
      BY <2>1, <3>1 DEF LongSeed, Fed
    <3>2. CASE j # 7
      <4>1. j + 1 \in 1 .. 7
        BY <3>2
      <4>2. \A a \in Bit : Plus(a, 0) = a
        BY DEF Plus, Bit
      <4>3. LongSeed(q)[5] \in Bit
        BY DEF LongSeed, Bit
      <4>4. Fed(LongSeed(q), IF q = 1 THEN 0 ELSE 1)[j] = LongSeed(q)[j + 1]
        BY <2>1, <3>2, <4>1, <4>2, <4>3 DEF Fed
      <4> QED
        BY <4>1, <4>4 DEF LongSeed
    <3> QED
      BY <3>1, <3>2
  <2> QED
    BY <2>2 DEF LongSeed, Fed
<1> QED
  BY <1>1, <1>2, <1>3, <1>4

(* For a long reply: the seed as long as the header lasts, then the         *)
(* division of the payload.                                                 *)
LEMMA LongTracks ==
    ASSUME NEW r \in Requests, NEW p \in Payloads, r.reply = "long"
    PROVE  \E X : Tracks(r, p, X)
<1> DEFINE n == Len(p)
           f == ReplyFrame(r, p)
<1>1. p \in Seq(Bit) /\ n \in Nat \ {0}
  BY PayloadIs
<1>2. PICK R : Divides(R, p)
  BY <1>1, RegisterDivides
<1>3. f[2] = 0 /\ \A q \in 3 .. 8 : f[q] = 1
  <2>1. LastCmd(r) = Ones(6)
    BY DEF LastCmd, CmdBits
  <2>2. \A i \in 1 .. 8 : f[i] = Header(r)[i]
    BY ReplyIs
  <2>3. Header(r)[2] = 0 /\ \A i \in 1 .. 6 : Header(r)[i + 2] = 1
    <3>1. \A i \in 1 .. 6 : Header(r)[i + 2] = LastCmd(r)[i]
      BY HeaderIs
    <3>2. \A i \in 1 .. 6 : Ones(6)[i] = 1
      BY OnesAre
    <3> QED
      BY <2>1, <3>1, <3>2, HeaderIs
  <2> HIDE DEF f
  <2>4. ASSUME NEW q \in 3 .. 8 PROVE f[q] = 1
    <3>1. q - 2 \in 1 .. 6 /\ (q - 2) + 2 = q /\ q \in 1 .. 8
      OBVIOUS
    <3>2. Header(r)[(q - 2) + 2] = 1
      BY <2>3, <3>1
    <3> QED
      BY <2>2, <3>1, <3>2
  <2> QED
    BY <2>2, <2>3, <2>4
<1>4. \A i \in 1 .. n : f[i + 8] = p[i]
  BY ReplyIs
<1> HIDE DEF n, f
<1>5. /\ R \in [0 .. n -> Regs] /\ R[0] = Zeros(CrcBits) /\ R[n] = Remainder(p)
      /\ \A i \in 1 .. n : R[i] = Clocked(R[i - 1], p[i])
  BY <1>2 DEF Divides, n
<1> DEFINE X == [q \in 1 .. (n + 8) |-> IF q <= 8 THEN LongSeed(q) ELSE R[q - 8]]
<1>6. X \in [1 .. (n + 8) -> Regs]
  <2>1. ASSUME NEW q \in 1 .. (n + 8) PROVE (IF q <= 8 THEN LongSeed(q) ELSE R[q - 8]) \in Regs
    <3>1. CASE q <= 8
      BY <1>1, <3>1, LongSeedIs
    <3>2. CASE ~(q <= 8)
      <4>1. q - 8 \in 0 .. n
        BY <1>1, <3>2
      <4> QED
        BY <1>5, <3>2, <4>1
    <3> QED
      BY <3>1, <3>2
  <2> QED
    BY <2>1
<1>7. X[1] = Seed(TRUE)
  <2>1. 1 \in 1 .. (n + 8)
    BY <1>1
  <2>2. X[1] = LongSeed(1)
    BY <2>1
  <2> QED
    BY <2>2, LongSeedIs
<1>8. ASSUME NEW q \in 1 .. (n + 7) PROVE X[q + 1] = Clocked(X[q], f[q + 1])
  <2>1. CASE q <= 7
    <3>1. q \in 1 .. 7 /\ q \in 1 .. 8 /\ q + 1 \in 2 .. 8
      BY <1>1, <2>1
    <3>2. X[q] = LongSeed(q) /\ X[q + 1] = LongSeed(q + 1)
      BY <1>1, <3>1
    <3>3. f[q + 1] = IF q = 1 THEN 0 ELSE 1
      BY <1>3, <3>1
    <3>4. f[q + 1] \in Bit
      BY <3>3 DEF Bit
    <3>5. Clocked(LongSeed(q), f[q + 1]) = Fed(LongSeed(q), f[q + 1])
      BY <3>1, <3>4, LongSeedIs, ClockedIs
    <3>6. LongSeed(q + 1) = Fed(LongSeed(q), f[q + 1])
      BY <3>1, <3>3, LongSeedIs
    <3> QED
      BY <3>2, <3>5, <3>6
  <2>2. CASE ~(q <= 7)
    <3> DEFINE i == q - 7
    <3>1. i \in 1 .. n /\ i + 8 = q + 1 /\ (q + 1) - 8 = i /\ ~(q + 1 <= 8) /\ q + 1 \in 1 .. (n + 8)
      BY <1>1, <2>2
    <3>2. q - 8 = i - 1
      BY <1>1
    <3> HIDE DEF i
    <3>3. X[q + 1] = R[i]
      BY <3>1
    <3>4. X[q] = R[i - 1]
      <4>1. CASE q = 8
        <5>1. X[q] = Zeros(CrcBits)
          BY <1>1, <4>1, LongSeedIs
        <5>2. i - 1 = 0
          BY <3>1, <4>1
        <5> QED
          BY <1>5, <5>1, <5>2
      <4>2. CASE q # 8
        <5>1. ~(q <= 8) /\ q \in 1 .. (n + 8)
          BY <1>1, <2>2, <4>2
        <5>2. X[q] = R[q - 8]
          BY <5>1
        <5> QED
          BY <3>2, <5>2
      <4> QED
        BY <4>1, <4>2
    <3>5. f[q + 1] = p[i]
      BY <1>4, <3>1
    <3>6. R[i] = Clocked(R[i - 1], p[i])
      BY <1>5, <3>1
    <3> QED
      BY <3>3, <3>4, <3>5, <3>6
  <2> QED
    BY <2>1, <2>2
<1>9. X[n + 8] = Check(r, p)
  <2>1. ~(n + 8 <= 8) /\ (n + 8) - 8 = n /\ n + 8 \in 1 .. (n + 8)
    BY <1>1
  <2>2. X[n + 8] = R[(n + 8) - 8]
    BY <2>1
  <2>3. Check(r, p) = Remainder(p)
    BY DEF Check
  <2> QED
    BY <1>5, <2>1, <2>2, <2>3
<1>10. Seed(r.reply = "long") = Seed(TRUE)
  BY DEF Seed
<1> HIDE DEF X
<1>11. Tracks(r, p, X)
  BY <1>6, <1>7, <1>8, <1>9, <1>10 DEF Tracks, n, f
<1> QED
  BY <1>11

(* A bit taken from the front of what follows and put at the end of what    *)
(* came before.                                                             *)
LEMMA Shifted ==
    ASSUME NEW b \in Seq(Bit), NEW c \in Seq(Bit), Len(c) # 0
    PROVE  /\ Append(b, Head(c)) \in Seq(Bit) /\ Tail(c) \in Seq(Bit) /\ Head(c) \in Bit
           /\ Len(Append(b, Head(c))) = Len(b) + 1 /\ Len(Tail(c)) = Len(c) - 1
           /\ Append(b, Head(c)) \o Tail(c) = b \o c
           /\ Head(c) = (b \o c)[Len(b) + 1]
<1> DEFINE h == Head(c)
           t == Tail(c)
           a == Append(b, h)
           u == a \o t
           v == b \o c
<1>1. c # <<>> /\ Len(c) \in Nat \ {0} /\ Len(b) \in Nat
  BY LenProperties, EmptySeq
<1>2. h = c[1] /\ h \in Bit
  BY <1>1, ElementOfSeq
<1>3. t \in Seq(Bit) /\ Len(t) = Len(c) - 1 /\ \A i \in 1 .. Len(t) : t[i] = c[i + 1]
  BY <1>1, HeadTailProperties, Zenon
<1> HIDE DEF h, t
<1>4. a \in Seq(Bit) /\ Len(a) = Len(b) + 1 /\ (\A i \in 1 .. Len(b) : a[i] = b[i]) /\ a[Len(b) + 1] = h
  <2>1. a \in Seq(Bit)
    BY <1>2, AppendProperties, Zenon
  <2>2. Len(a) = Len(b) + 1
    BY <1>2, AppendProperties, Zenon
  <2>3. \A i \in 1 .. Len(b) : a[i] = b[i]
    BY <1>1, <1>2, AppendProperties
  <2>4. a[Len(b) + 1] = h
    BY <1>2, AppendProperties, Zenon
  <2> HIDE DEF a
  <2> QED
    BY <2>1, <2>2, <2>3, <2>4
<1> HIDE DEF a
<1>5. u \in Seq(Bit) /\ Len(u) = Len(a) + Len(t)
      /\ \A i \in 1 .. (Len(a) + Len(t)) : u[i] = IF i <= Len(a) THEN a[i] ELSE t[i - Len(a)]
  BY <1>3, <1>4, Glued, Zenon
<1>6. v \in Seq(Bit) /\ Len(v) = Len(b) + Len(c)
      /\ \A i \in 1 .. (Len(b) + Len(c)) : v[i] = IF i <= Len(b) THEN b[i] ELSE c[i - Len(b)]
  BY Glued, Zenon
<1> HIDE DEF u, v
<1>7. Len(u) = Len(v)
  BY <1>1, <1>3, <1>4, <1>5, <1>6
<1>8. ASSUME NEW i \in 1 .. Len(u) PROVE u[i] = v[i]
  <2>1. i \in 1 .. (Len(b) + Len(c)) /\ i \in 1 .. (Len(a) + Len(t)) /\ i \in Nat
    BY <1>1, <1>5, <1>6, <1>7
  <2>2. CASE i <= Len(b)
    <3>1. i \in 1 .. Len(b) /\ i <= Len(a)
      BY <1>1, <1>4, <2>1, <2>2
    <3> QED
      BY <1>4, <1>5, <1>6, <2>1, <2>2, <3>1
  <2>3. CASE i = Len(b) + 1
    <3>1. i <= Len(a) /\ ~(i <= Len(b)) /\ i - Len(b) = 1
      BY <1>1, <1>4, <2>1, <2>3
    <3>2. u[i] = h /\ v[i] = c[1]
      BY <1>4, <1>5, <1>6, <2>1, <2>3, <3>1
    <3> QED
      BY <1>2, <3>2 DEF h
  <2>4. CASE i > Len(b) + 1
    <3> DEFINE k == i - Len(a)
    <3>1. ~(i <= Len(a)) /\ ~(i <= Len(b)) /\ k \in 1 .. Len(t) /\ k + 1 = i - Len(b)
      BY <1>1, <1>3, <1>4, <2>1, <2>4
    <3>2. u[i] = t[k] /\ v[i] = c[i - Len(b)]
      BY <1>5, <1>6, <2>1, <3>1
    <3> QED
      BY <1>3, <3>1, <3>2
  <2> QED
    BY <1>1, <2>1, <2>2, <2>3, <2>4
<1>9. u = v
  BY <1>5, <1>6, <1>7, <1>8, SeqEqual
<1>10. h = v[Len(b) + 1]
  <2>1. Len(b) + 1 \in 1 .. Len(u)
    BY <1>1, <1>3, <1>4, <1>5
  <2>2. v[Len(b) + 1] = u[Len(b) + 1] /\ u[Len(b) + 1] = a[Len(b) + 1]
    BY <1>1, <1>4, <1>5, <1>8, <2>1
  <2> QED
    BY <1>4, <2>2
<1> QED
  BY <1>2, <1>3, <1>4, <1>9, <1>10 DEF h, t, a, u, v

(* When nothing follows, what came before is all.                           *)
LEMMA NothingFollows ==
    ASSUME NEW b \in Seq(Bit), NEW c \in Seq(Bit), Len(c) = 0
    PROVE  b \o c = b
<1>1. c = <<>>
  BY EmptySeq
<1> QED
  BY <1>1, ConcatEmptySeq

(* What is spoilt on the way is at most seven bits, not the start bit.      *)
LEMMA FaultIs ==
    ASSUME NEW n \in Nat, NEW f \in Faults(n)
    PROVE  \E lo \in 2 .. n, hi \in 2 .. n : f = lo .. hi /\ hi - lo <= 6
<1>1. PICK lo \in 2 .. n, hi \in 2 .. n : f = lo .. hi
  BY DEF Faults
<1>2. Cardinality(f) <= 7
  <2>1. Cardinality(f) <= MaxBurst
    BY DEF Faults
  <2>2. Cardinality(f) \in Int
    BY <1>1, FS_Interval
  <2> QED
    BY <2>1, <2>2, FramesAssumption DEF CrcBits
<1>3. Cardinality(f) = IF lo > hi THEN 0 ELSE hi - lo + 1
  BY <1>1, FS_Interval
<1>4. hi - lo <= 6
  BY <1>2, <1>3
<1> QED
  BY <1>1, <1>4

(* A reply with its burst, bit by bit.                                      *)
LEMMA InvertedIs ==
    ASSUME NEW s \in Seq(Bit), NEW lo \in Nat, NEW hi \in Nat
    PROVE  /\ Inverted(s, lo .. hi) \in Seq(Bit) /\ Len(Inverted(s, lo .. hi)) = Len(s)
           /\ \A i \in 1 .. Len(s) : Inverted(s, lo .. hi)[i] = Plus(s[i], In(i, lo, hi))
<1> DEFINE n == Len(s)
           e == Inverted(s, lo .. hi)
<1>1. n \in Nat /\ DOMAIN s = 1 .. n /\ \A i \in 1 .. n : s[i] \in Bit
  BY LenProperties
<1>2. e = [i \in 1 .. n |-> IF i \in lo .. hi THEN 1 - s[i] ELSE s[i]]
  BY <1>1 DEF Inverted
<1> HIDE DEF n, e
<1>3. ASSUME NEW i \in 1 .. n PROVE e[i] = Plus(s[i], In(i, lo, hi)) /\ e[i] \in Bit
  BY <1>1, <1>2 DEF Plus, In, Bit
<1>4. e \in [1 .. n -> Bit]
  BY <1>2, <1>3
<1>5. e \in Seq(Bit)
  BY <1>1, <1>4, SeqDef
<1>6. Len(e) = n
  <2>1. DOMAIN e = 1 .. n /\ DOMAIN e = 1 .. Len(e) /\ Len(e) \in Nat
    BY <1>4, <1>5, LenProperties
  <2> QED
    BY <1>1, <2>1
<1> QED
  BY <1>3, <1>5, <1>6 DEF n, e

-----------------------------------------------------------------------------
(* The invariant of the command line: the bits on the line and those still  *)
(* to be driven are the command, the register is that of the bits driven;   *)
(* the bits received and those still to come are the reply as the faults    *)
(* left it, and the register differs from that of the reply by what the     *)
(* burst has done so far.                                                   *)

Registers(m) == CHOOSE R : Divides(R, m)
ExpectedOf(r, p) == CHOOSE X : Tracks(r, p, X)

(* They are the registers of the command.                                   *)
LEMMA RegistersAre ==
    ASSUME NEW m \in Seq(Bit)
    PROVE  Divides(Registers(m), m)
BY RegisterDivides DEF Registers

(* They are the registers of the reply.                                     *)
LEMMA ExpectedIs ==
    ASSUME NEW r \in Requests, NEW p \in Payloads, r.reply # "none", r.reply # "raw"
    PROVE  Tracks(r, p, ExpectedOf(r, p))
<1>1. r.reply \in {"short", "long"}
  BY RequestIs
<1>2. \E X : Tracks(r, p, X)
  BY <1>1, ShortTracks, LongTracks
<1> QED
  BY <1>2 DEF ExpectedOf

SendsCommand ==
    /\ asks \in Requests
    /\ wire \in Seq(Bit) /\ buffer \in Seq(Bit) /\ bitsLeft \in Nat
    /\ Len(buffer) = bitsLeft + 1
    /\ wire \o buffer = Body(asks)
    /\ crc = Registers(Body(asks))[Len(wire)]

SendsCheck ==
    /\ asks \in Requests
    /\ wire \in Seq(Bit) /\ bitsLeft \in 0 .. 6
    /\ crc = Remainder(Body(asks))
    /\ bitsLeft = 6 => wire = Body(asks)
    /\ bitsLeft # 6 => /\ buffer \in Seq(Bit) /\ Len(buffer) = bitsLeft + 1
                       /\ wire \o buffer = Body(asks) \o crc
    /\ errors = {}

SendsStop ==
    /\ asks \in Requests
    /\ wire = Body(asks) \o Remainder(Body(asks))
    /\ errors = {}

SentWhole == asks \in Requests /\ wire = CommandFrame(asks)

Answered == asks.reply # "none" /\ payload \in Payloads

Awaits ==
    /\ SentWhole /\ Answered
    /\ errors = {}
    /\ coming = <<>> \/ /\ spoilt \in Faults(Len(ReplyFrame(asks, payload)))
                        /\ coming = Inverted(ReplyFrame(asks, payload), spoilt)

Spoils(lo, hi) ==
    /\ lo \in 2 .. (Len(payload) + 16) /\ hi \in 2 .. (Len(payload) + 16)
    /\ hi - lo <= 6
    /\ spoilt = lo .. hi

(* q bits of the reply are in. *)
Hears(q) ==
    /\ SentWhole /\ Answered
    /\ buffer \in Seq(Bit) /\ coming \in Seq(Bit) /\ Len(buffer) = q
    /\ buffer \o coming = Inverted(ReplyFrame(asks, payload), spoilt)
    /\ \E lo, hi \in Nat : Spoils(lo, hi)

(* What the burst has done to the register by bit q. *)
Differs(q) ==
    asks.reply # "raw" =>
        \E lo, hi \in Nat : Spoils(lo, hi) /\ Marks(Sum2(crc, ExpectedOf(asks, payload)[q]), q, lo, hi)

Mild == errors \subseteq {"mismatch"} /\ (spoilt = {} => errors = {})

Judged ==
    asks.reply # "none" /\ "timeout" \notin errors =>
        /\ asks.reply # "raw" => (errors = {} <=> spoilt = {})
        /\ spoilt = {} => SubSeq(buffer, 3 + CmdBits, 2 + CmdBits + Len(payload)) = payload

FramesInv ==
    /\ cmdState \in {"IDLE", "SEND_CMD", "SEND_CRC", "SEND_STOP", "RECV_PENDING", "RECV_HEADER",
                     "RECV_DATA", "RECV_CRC", "RECV_STOP"}
    /\ bitsLeft \in Int
    /\ crc \in Regs
    /\ errors \subseteq {"timeout", "mismatch", "invalid", "crc"}
    /\ cmdState = "IDLE" => (asks = NoRequest \/ SentWhole) /\ Judged
    /\ cmdState = "SEND_CMD" => SendsCommand
    /\ cmdState = "SEND_CRC" => SendsCheck
    /\ cmdState = "SEND_STOP" => SendsStop
    /\ cmdState = "RECV_PENDING" => Awaits
    /\ cmdState = "RECV_HEADER" =>
          bitsLeft \in 0 .. 6 /\ errors = {} /\ Hears(7 - bitsLeft) /\ Differs(7 - bitsLeft)
    /\ cmdState = "RECV_DATA" =>
          /\ bitsLeft \in 0 .. (Len(payload) - 1) /\ Mild
          /\ Hears(Len(payload) + 7 - bitsLeft) /\ Differs(Len(payload) + 7 - bitsLeft)
    /\ cmdState = "RECV_CRC" =>
          /\ bitsLeft \in 0 .. 6 /\ Mild
          /\ Hears(Len(payload) + 14 - bitsLeft) /\ Differs(Len(payload) + 8)
    /\ cmdState = "RECV_STOP" => Mild /\ Hears(Len(payload) + 15) /\ Differs(Len(payload) + 8)

(* The invariant holds at the start.                                        *)
LEMMA FramesStarts == FramesInit => FramesInv
<1> SUFFICES ASSUME FramesInit PROVE FramesInv
  OBVIOUS
<1>1. /\ cmdState = "IDLE" /\ bitsLeft = 0 /\ crc = Zeros(CrcBits) /\ asks = NoRequest /\ errors = {}
  BY DEF FramesInit
<1>2. asks.reply = "none"
  BY <1>1 DEF NoRequest
<1>3. Judged
  BY <1>2 DEF Judged
<1> QED
  BY <1>1, <1>3, ZerosIs DEF FramesInv

(* A command is written.                                                    *)
LEMMA CmdIdleStep == FramesInv /\ CmdIdle => FramesInv'
<1> SUFFICES ASSUME FramesInv, CmdIdle PROVE FramesInv'
  OBVIOUS
<1>1. /\ cmdState' = "SEND_CMD" /\ asks' \in Requests /\ buffer' = Body(asks') /\ bitsLeft' = Len(buffer') - 1
      /\ crc' = Seed(FALSE) /\ wire' = <<>> /\ errors' = errors
  BY DEF CmdIdle, Body
<1>2. Body(asks') \in Seq(Bit) /\ Len(Body(asks')) \in Nat \ {0}
  BY <1>1, BodyIs
<1>3. crc' = Zeros(CrcBits) /\ crc' \in Regs
  BY <1>1, ZerosIs DEF Seed
<1>4. wire' \in Seq(Bit) /\ Len(wire') = 0 /\ wire' \o buffer' = Body(asks')
  BY <1>1, <1>2, EmptySeq, ConcatEmptySeq
<1>5. Registers(Body(asks'))[0] = Zeros(CrcBits)
  BY <1>2, RegistersAre DEF Divides
<1>6. bitsLeft' \in Nat /\ Len(buffer') = bitsLeft' + 1
  BY <1>1, <1>2
<1>7. SendsCommand'
  BY <1>1, <1>2, <1>3, <1>4, <1>5, <1>6 DEF SendsCommand
<1>8. errors' \subseteq {"timeout", "mismatch", "invalid", "crc"}
  BY <1>1 DEF FramesInv
<1>9. cmdState' = "SEND_CMD" /\ bitsLeft' \in Int /\ crc' \in Regs
  <2>1. cmdState' = "SEND_CMD"
    BY DEF CmdIdle
  <2>2. bitsLeft' \in Int
    BY <1>6
  <2> QED
    BY <1>3, <2>1, <2>2
<1> QED
  BY <1>7, <1>8, <1>9 DEF FramesInv

(* A bit of the command is driven.                                          *)
LEMMA SendCmdStep == FramesInv /\ SendCmd => FramesInv'
<1> SUFFICES ASSUME FramesInv, SendCmd PROVE FramesInv'
  OBVIOUS
<1> DEFINE body == Body(asks)
           bit == Head(buffer)
<1>1. SendsCommand /\ crc \in Regs
  BY DEF FramesInv, SendCmd
<1>2. /\ asks' = asks /\ errors' = {} /\ wire' = Append(wire, bit) /\ crc' = Clocked(crc, bit)
      /\ buffer' = Tail(buffer)
  BY DEF SendCmd, Drive
<1>3. /\ asks \in Requests /\ wire \in Seq(Bit) /\ buffer \in Seq(Bit) /\ bitsLeft \in Nat
      /\ Len(buffer) = bitsLeft + 1 /\ wire \o buffer = body /\ crc = Registers(body)[Len(wire)]
  BY <1>1 DEF SendsCommand
<1>4. body \in Seq(Bit) /\ Len(body) \in Nat \ {0}
  BY <1>3, BodyIs
<1> HIDE DEF body
<1>5. Len(buffer) # 0
  BY <1>3
<1>6. /\ Append(wire, bit) \in Seq(Bit) /\ Tail(buffer) \in Seq(Bit) /\ bit \in Bit
      /\ Len(Append(wire, bit)) = Len(wire) + 1 /\ Len(Tail(buffer)) = Len(buffer) - 1
      /\ Append(wire, bit) \o Tail(buffer) = wire \o buffer
      /\ bit = (wire \o buffer)[Len(wire) + 1]
  BY <1>3, <1>5, Shifted, Zenon
<1> HIDE DEF bit
<1>7. wire' \in Seq(Bit) /\ buffer' \in Seq(Bit) /\ Len(wire') = Len(wire) + 1 /\ Len(buffer') = Len(buffer) - 1
      /\ wire' \o buffer' = body /\ bit = body[Len(wire) + 1]
  BY <1>2, <1>3, <1>6, Zenon
<1>8. Len(body) = Len(wire) + Len(buffer) /\ Len(wire) \in Nat
  <2>1. Len(wire \o buffer) = Len(wire) + Len(buffer)
    BY <1>3, Glued, Zenon
  <2> QED
    BY <1>3, <2>1, LenProperties
<1>9. crc' \in Regs
  BY <1>1, <1>2, <1>6, ClockedIs
<1>10. crc' = Registers(body)[Len(wire')]
  <2> DEFINE i == Len(wire) + 1
  <2>1. i \in 1 .. Len(body) /\ i - 1 = Len(wire)
    BY <1>3, <1>8
  <2>2. Registers(body)[i] = Clocked(Registers(body)[i - 1], body[i])
    BY <1>4, <2>1, RegistersAre DEF Divides
  <2> QED
    BY <1>2, <1>3, <1>7, <2>1, <2>2
<1>11. CASE bitsLeft = 0
  <2>1. cmdState' = "SEND_CRC" /\ bitsLeft' = 6
    BY <1>11 DEF SendCmd, CrcBits
  <2>2. Len(buffer') = 0
    BY <1>3, <1>7, <1>11
  <2>3. wire' = body
    BY <1>7, <2>2, NothingFollows
  <2>4. crc' = Remainder(body)
    <3>1. Registers(body)[Len(body)] = Remainder(body)
      BY <1>4, RegistersAre DEF Divides
    <3> QED
      BY <1>10, <2>3, <3>1
  <2>5. SendsCheck'
    BY <1>2, <1>3, <1>7, <2>1, <2>3, <2>4 DEF SendsCheck, body
  <2> QED
    BY <1>2, <1>9, <2>1, <2>5 DEF FramesInv
<1>12. CASE bitsLeft # 0
  <2>1. cmdState' = "SEND_CMD" /\ bitsLeft' = bitsLeft - 1
    BY <1>12 DEF SendCmd
  <2>2. bitsLeft' \in Nat /\ Len(buffer') = bitsLeft' + 1
    BY <1>3, <1>7, <1>12, <2>1
  <2>3. SendsCommand'
    BY <1>2, <1>3, <1>7, <1>10, <2>2 DEF SendsCommand, body
  <2> QED
    BY <1>2, <1>9, <2>1, <2>2, <2>3 DEF FramesInv
<1> QED
  BY <1>11, <1>12

(* A bit of its CRC is driven.                                              *)
LEMMA SendCrcStep == FramesInv /\ SendCrc => FramesInv'
<1> SUFFICES ASSUME FramesInv, SendCrc PROVE FramesInv'
  OBVIOUS
<1> DEFINE body == Body(asks)
           rest == IF bitsLeft = 6 THEN crc ELSE buffer
           bit == Head(rest)
<1>1. SendsCheck /\ crc \in Regs
  BY DEF FramesInv, SendCrc
<1>2. /\ asks' = asks /\ errors' = errors /\ crc' = crc /\ bitsLeft' = bitsLeft - 1
      /\ wire' = Append(wire, bit) /\ buffer' = Tail(rest)
      /\ cmdState' = IF bitsLeft = 0 THEN "SEND_STOP" ELSE "SEND_CRC"
  BY DEF SendCrc, Drive, CrcBits
<1>3. asks \in Requests /\ wire \in Seq(Bit) /\ bitsLeft \in 0 .. 6 /\ crc = Remainder(body) /\ errors = {}
  BY <1>1 DEF SendsCheck
<1>4. rest \in Seq(Bit) /\ Len(rest) = bitsLeft + 1 /\ wire \o rest = body \o crc
  <2>1. CASE bitsLeft = 6
    <3>1. crc \in Seq(Bit) /\ Len(crc) = 7
      BY <1>1, RegIsSeq
    <3> QED
      BY <1>1, <2>1, <3>1 DEF SendsCheck
  <2>2. CASE bitsLeft # 6
    BY <1>1, <2>2 DEF SendsCheck
  <2> QED
    BY <2>1, <2>2
<1> HIDE DEF rest, body
<1>5. Len(rest) # 0
  BY <1>3, <1>4
<1>6. /\ Append(wire, bit) \in Seq(Bit) /\ Tail(rest) \in Seq(Bit) /\ bit \in Bit
      /\ Len(Append(wire, bit)) = Len(wire) + 1 /\ Len(Tail(rest)) = Len(rest) - 1
      /\ Append(wire, bit) \o Tail(rest) = wire \o rest
  BY <1>3, <1>4, <1>5, Shifted, Zenon
<1> HIDE DEF bit
<1>7. wire' \in Seq(Bit) /\ buffer' \in Seq(Bit) /\ Len(buffer') = Len(rest) - 1 /\ wire' \o buffer' = body \o crc
  BY <1>2, <1>4, <1>6, Zenon
<1>8. bitsLeft' \in Int /\ errors' = {} /\ crc' \in Regs
  BY <1>1, <1>2, <1>3
<1>9. CASE bitsLeft = 0
  <2>1. Len(buffer') = 0
    BY <1>4, <1>7, <1>9
  <2>2. wire' = body \o crc
    BY <1>7, <2>1, NothingFollows
  <2>3. SendsStop'
    BY <1>2, <1>3, <1>8, <2>2 DEF SendsStop, body
  <2> QED
    BY <1>2, <1>8, <1>9, <2>3 DEF FramesInv
<1>10. CASE bitsLeft # 0
  <2>1. bitsLeft' \in 0 .. 6 /\ bitsLeft' # 6 /\ Len(buffer') = bitsLeft' + 1
    BY <1>2, <1>3, <1>4, <1>7, <1>10
  <2>2. SendsCheck'
    BY <1>2, <1>3, <1>7, <1>8, <2>1 DEF SendsCheck, body
  <2> QED
    BY <1>2, <1>8, <1>10, <2>2 DEF FramesInv
<1> QED
  BY <1>9, <1>10

(* The stop bit is driven, and the card answers, or does not.               *)
LEMMA SendStopStep == FramesInv /\ SendStop => FramesInv'
<1> SUFFICES ASSUME FramesInv, SendStop PROVE FramesInv'
  OBVIOUS
<1> DEFINE sofar == Body(asks) \o Remainder(Body(asks))
<1>1. SendsStop /\ crc \in Regs
  BY DEF FramesInv, SendStop
<1>2. asks' = asks /\ errors' = errors /\ crc' = crc /\ wire' = Append(wire, Stop)
  BY DEF SendStop, Drive
<1>3. asks \in Requests /\ wire = sofar /\ errors = {}
  BY <1>1 DEF SendsStop
<1>4. sofar \in Seq(Bit)
  <2>1. Body(asks) \in Seq(Bit)
    BY <1>3, BodyIs
  <2>2. Remainder(Body(asks)) \in Seq(Bit)
    BY <2>1, RemainderIn
  <2> QED
    BY <2>1, <2>2, Glued, Zenon
<1>5. CommandFrame(asks) = sofar \o <<Stop>>
  BY Zenon DEF CommandFrame, Body
<1> HIDE DEF sofar
<1>6. wire' = CommandFrame(asks)
  <2>1. Stop \in Bit
    BY DEF Stop, Bit
  <2>2. Append(sofar, Stop) = sofar \o <<Stop>>
    BY <1>4, <2>1, AppendIsConcat, Zenon
  <2> QED
    BY <1>2, <1>3, <1>5, <2>2, Zenon
<1>7. SentWhole'
  BY <1>2, <1>3, <1>6 DEF SentWhole
<1>8. crc' \in Regs /\ errors' = {}
  BY <1>1, <1>2, <1>3
<1>9. CASE asks.reply = "none"
  <2>1. cmdState' = "IDLE" /\ bitsLeft' = bitsLeft
    BY <1>9 DEF SendStop
  <2>2. bitsLeft' \in Int
    BY <2>1 DEF FramesInv
  <2>3. Judged'
    BY <1>2, <1>9 DEF Judged
  <2> QED
    BY <1>7, <1>8, <2>1, <2>2, <2>3 DEF FramesInv
<1>10. CASE asks.reply # "none"
  <2>1. /\ cmdState' = "RECV_PENDING" /\ bitsLeft' = ReplyWait - 1 /\ payload' \in Payloads
        /\ \/ /\ spoilt' \in Faults(Len(ReplyFrame(asks, payload')))
              /\ coming' = Inverted(ReplyFrame(asks, payload'), spoilt')
           \/ coming' = <<>>
    BY <1>10 DEF SendStop
  <2>2. bitsLeft' \in Int
    BY <2>1, FramesAssumption
  <2>3. Answered'
    BY <1>2, <1>10, <2>1 DEF Answered
  <2>4. Awaits'
    BY <1>2, <1>7, <1>8, <2>1, <2>3 DEF Awaits
  <2>5. cmdState' = "RECV_PENDING"
    BY <2>1
  <2> QED
    BY <1>8, <2>2, <2>4, <2>5 DEF FramesInv
<1> QED
  BY <1>9, <1>10

(* The start bit comes, or nothing does.                                    *)
LEMMA RecvPendingStep == FramesInv /\ RecvPending => FramesInv'
<1> SUFFICES ASSUME FramesInv, RecvPending PROVE FramesInv'
  OBVIOUS
<1>1. Awaits /\ bitsLeft \in Int
  BY DEF FramesInv, RecvPending
<1>2. asks' = asks /\ wire' = wire /\ payload' = payload /\ spoilt' = spoilt /\ crc' = Seed(Long)
  BY DEF RecvPending
<1>3. SentWhole /\ Answered /\ errors = {} /\ asks \in Requests /\ asks.reply # "none" /\ payload \in Payloads
  BY <1>1 DEF Awaits, Answered, SentWhole
<1>4. SentWhole' /\ Answered'
  BY <1>2, <1>3 DEF SentWhole, Answered
<1>5. crc' \in Regs
  <2>1. Seed(TRUE) \in Regs
    <3>1. LongSeed(1) \in Regs /\ LongSeed(1) = Seed(TRUE)
      <4>1. 1 \in 1 .. 8
        OBVIOUS
      <4> QED
        BY <4>1, LongSeedIs, Zenon
    <3> QED
      BY <3>1
  <2>2. Seed(FALSE) \in Regs
    BY ZerosIs DEF Seed
  <2>3. Long \in BOOLEAN
    BY DEF Long
  <2> QED
    BY <1>2, <2>1, <2>2, <2>3
<1>6. CASE /\ coming # <<>> /\ cmdState' = "RECV_HEADER" /\ bitsLeft' = CmdBits
           /\ buffer' = <<Head(coming)>> /\ coming' = Tail(coming) /\ errors' = errors
  <2> DEFINE f == ReplyFrame(asks, payload)
             n == Len(payload)
  <2>1. spoilt \in Faults(Len(f)) /\ coming = Inverted(f, spoilt)
    BY <1>1, <1>6 DEF Awaits
  <2>2. f \in Seq(Bit) /\ Len(f) = n + 16 /\ n \in Nat \ {0}
    BY <1>3, ReplyIs, Zenon
  <2> HIDE DEF f, n
  <2>3. Len(f) \in Nat
    BY <2>2
  <2>4. PICK lo \in 2 .. Len(f), hi \in 2 .. Len(f) : spoilt = lo .. hi /\ hi - lo <= 6
    BY <2>1, <2>3, FaultIs
  <2>5. lo \in 2 .. (n + 16) /\ hi \in 2 .. (n + 16) /\ lo \in Nat /\ hi \in Nat
    BY <2>2, <2>4
  <2>6. coming \in Seq(Bit) /\ Len(coming) = Len(f)
    BY <2>1, <2>2, <2>4, <2>5, InvertedIs
  <2>7. Len(coming) # 0 /\ <<>> \in Seq(Bit) /\ Len(<<>>) = 0
    BY <2>2, <2>6, EmptySeq
  <2> DEFINE bit == Head(coming)
  <2>8. /\ Append(<<>>, bit) \in Seq(Bit) /\ Tail(coming) \in Seq(Bit) /\ bit \in Bit
        /\ Len(Append(<<>>, bit)) = Len(<<>>) + 1
        /\ Append(<<>>, bit) \o Tail(coming) = <<>> \o coming
    BY <2>6, <2>7, Shifted, Zenon
  <2>9. Append(<<>>, bit) = <<bit>> /\ <<>> \o coming = coming
    BY <2>6, ConcatEmptySeq
  <2> HIDE DEF bit
  <2>10. buffer' \in Seq(Bit) /\ coming' \in Seq(Bit) /\ Len(buffer') = 1 /\ buffer' \o coming' = Inverted(f, spoilt)
    <3>1. buffer' = Append(<<>>, bit) /\ coming' = Tail(coming)
      BY <1>6, <2>9, Zenon DEF bit
    <3>2. buffer' \in Seq(Bit) /\ coming' \in Seq(Bit)
      BY <2>8, <3>1, Zenon
    <3>3. Len(buffer') = 1
      BY <2>7, <2>8, <3>1
    <3>4. buffer' \o coming' = coming
      BY <2>8, <2>9, <3>1, Zenon
    <3> QED
      BY <2>1, <3>2, <3>3, <3>4
  <2>11. Spoils(lo, hi)'
    BY <1>2, <2>4, <2>5 DEF Spoils, n
  <2>12. Hears(1)'
    BY <1>2, <1>4, <2>5, <2>10, <2>11 DEF Hears, f
  <2>13. Differs(1)'
    <3> SUFFICES ASSUME asks.reply # "raw" PROVE Marks(Sum2(crc', ExpectedOf(asks, payload)[1]), 1, lo, hi)
      BY <1>2, <2>5, <2>11 DEF Differs
    <3>1. ExpectedOf(asks, payload)[1] = crc'
      BY <1>2, <1>3, ExpectedIs DEF Tracks, Long
    <3>2. \A c \in Regs : Sum2(c, c) = Zeros(CrcBits)
      BY DEF Sum2, Plus, Zeros, CrcBits
    <3>3. Sum2(crc', crc') = Zeros(CrcBits)
      BY <1>5, <3>2
    <3>4. Marks(Zeros(CrcBits), 1, lo, hi)
      BY <2>5, ZerosIs DEF Marks
    <3> QED
      BY <3>1, <3>3, <3>4
  <2>14. bitsLeft' = 6 /\ errors' = {} /\ 7 - bitsLeft' = 1 /\ cmdState' = "RECV_HEADER"
    BY <1>3, <1>6 DEF CmdBits
  <2>15. bitsLeft' \in Int /\ bitsLeft' \in 0 .. 6
    BY <2>14
  <2>16. Hears(7 - bitsLeft)' /\ Differs(7 - bitsLeft)'
    BY <2>12, <2>13, <2>14
  <2> QED
    BY <1>5, <2>14, <2>15, <2>16 DEF FramesInv
<1>7. CASE /\ bitsLeft' = bitsLeft - 1
           /\ IF bitsLeft = 0
              THEN cmdState' = "IDLE" /\ errors' = {"timeout"} /\ coming' = <<>>
              ELSE cmdState' = cmdState /\ errors' = errors /\ coming' = coming
  <2>1. bitsLeft' \in Int
    BY <1>1, <1>7
  <2>2. CASE bitsLeft = 0
    <3>1. cmdState' = "IDLE" /\ errors' = {"timeout"}
      BY <1>7, <2>2
    <3>2. Judged'
      BY <3>1 DEF Judged
    <3> QED
      BY <1>4, <1>5, <2>1, <3>1, <3>2 DEF FramesInv
  <2>3. CASE bitsLeft # 0
    <3>1. cmdState' = "RECV_PENDING" /\ errors' = {} /\ coming' = coming
      BY <1>3, <1>7, <2>3 DEF RecvPending
    <3>2. Awaits'
      BY <1>1, <1>2, <1>4, <3>1 DEF Awaits
    <3> QED
      BY <1>5, <2>1, <3>1, <3>2 DEF FramesInv
  <2> QED
    BY <2>2, <2>3
<1> QED
  BY <1>6, <1>7 DEF RecvPending

(* What was received and what comes are the bits of the reply, those of the *)
(* burst inverted.                                                          *)
LEMMA HeardBits ==
    ASSUME NEW q \in Nat, Hears(q), NEW lo \in Nat, NEW hi \in Nat, Spoils(lo, hi)
    PROVE  /\ \A i \in 1 .. q : buffer[i] = Plus(ReplyFrame(asks, payload)[i], In(i, lo, hi))
           /\ Len(coming) = Len(payload) + 16 - q
           /\ q < Len(payload) + 16 =>
                 /\ (buffer \o coming)[q + 1] = Plus(ReplyFrame(asks, payload)[q + 1], In(q + 1, lo, hi))
<1> DEFINE f == ReplyFrame(asks, payload)
           e == Inverted(f, lo .. hi)
           n == Len(payload)
<1>1. f \in Seq(Bit) /\ Len(f) = n + 16 /\ n \in Nat \ {0}
  BY ReplyIs DEF Hears, SentWhole, Answered
<1>2. buffer \in Seq(Bit) /\ coming \in Seq(Bit) /\ Len(buffer) = q /\ buffer \o coming = e
  BY DEF Hears, Spoils
<1> HIDE DEF f
<1>3. Len(e) = Len(f) /\ \A i \in 1 .. Len(f) : e[i] = Plus(f[i], In(i, lo, hi))
  BY <1>1, InvertedIs
<1> HIDE DEF e, n
<1>4. Len(e) = Len(buffer) + Len(coming)
      /\ \A i \in 1 .. (Len(buffer) + Len(coming)) :
            e[i] = IF i <= Len(buffer) THEN buffer[i] ELSE coming[i - Len(buffer)]
  <2>1. Len(buffer \o coming) = Len(buffer) + Len(coming)
    BY <1>2, Glued, Zenon
  <2>2. \A i \in 1 .. (Len(buffer) + Len(coming)) :
            (buffer \o coming)[i] = IF i <= Len(buffer) THEN buffer[i] ELSE coming[i - Len(buffer)]
    BY <1>2, Glued, Zenon
  <2> QED
    BY <1>2, <2>1, <2>2, Zenon
<1>5. Len(coming) \in Nat /\ n + 16 = q + Len(coming)
  <2>1. Len(coming) \in Nat
    BY <1>2, LenProperties
  <2> QED
    BY <1>1, <1>2, <1>3, <1>4, <2>1
<1>6. ASSUME NEW i \in 1 .. q PROVE buffer[i] = Plus(f[i], In(i, lo, hi))
  <2>1. i \in 1 .. (Len(buffer) + Len(coming)) /\ i <= Len(buffer) /\ i \in 1 .. Len(f)
    BY <1>1, <1>2, <1>5
  <2>2. e[i] = buffer[i]
    BY <1>4, <2>1
  <2> QED
    BY <1>3, <2>1, <2>2
<1>7. ASSUME q < n + 16 PROVE (buffer \o coming)[q + 1] = Plus(f[q + 1], In(q + 1, lo, hi))
  <2>1. q + 1 \in 1 .. Len(f)
    BY <1>1, <1>7
  <2>2. e[q + 1] = Plus(f[q + 1], In(q + 1, lo, hi))
    BY <1>3, <2>1
  <2> QED
    BY <1>2, <2>2, Zenon
<1>8. Len(coming) = n + 16 - q
  BY <1>1, <1>5
<1> QED
  BY <1>6, <1>7, <1>8 DEF f, n

(* One more bit is received. *)
LEMMA HearsNext ==
    ASSUME NEW q \in Nat, Hears(q), q < Len(payload) + 16, Take, UNCHANGED <<asks, wire, payload, spoilt>>
    PROVE  /\ Hears(q + 1)'
           /\ Head(coming) \in Bit
           /\ \A lo, hi \in Nat :
                 Spoils(lo, hi) => Head(coming) = Plus(ReplyFrame(asks, payload)[q + 1], In(q + 1, lo, hi))
<1> DEFINE bit == Head(coming)
           e == Inverted(ReplyFrame(asks, payload), spoilt)
<1>1. buffer \in Seq(Bit) /\ coming \in Seq(Bit) /\ Len(buffer) = q /\ buffer \o coming = e
  BY DEF Hears
<1>2. PICK lo \in Nat, hi \in Nat : Spoils(lo, hi)
  BY DEF Hears
<1>3. Len(coming) # 0
  <2>1. Len(coming) = Len(payload) + 16 - q
    BY <1>2, HeardBits
  <2>2. Len(payload) \in Nat
    BY PayloadIs DEF Hears, Answered
  <2> QED
    BY <2>1, <2>2
<1>4. /\ Append(buffer, bit) \in Seq(Bit) /\ Tail(coming) \in Seq(Bit) /\ bit \in Bit
      /\ Len(Append(buffer, bit)) = Len(buffer) + 1
      /\ Append(buffer, bit) \o Tail(coming) = buffer \o coming
      /\ bit = (buffer \o coming)[Len(buffer) + 1]
  BY <1>1, <1>3, Shifted, Zenon
<1>5. buffer' = Append(buffer, bit) /\ coming' = Tail(coming)
  BY DEF Take
<1> HIDE DEF bit, e
<1>6. buffer' \in Seq(Bit) /\ coming' \in Seq(Bit) /\ Len(buffer') = q + 1 /\ buffer' \o coming' = e
  <2>1. Len(buffer') = Len(buffer) + 1
    BY <1>4, <1>5, Zenon
  <2>2. buffer' \in Seq(Bit) /\ coming' \in Seq(Bit) /\ buffer' \o coming' = e
    BY <1>1, <1>4, <1>5, Zenon
  <2> QED
    BY <1>1, <2>1, <2>2
<1>7. Spoils(lo, hi)'
  BY <1>2 DEF Spoils
<1>8. (SentWhole /\ Answered)'
  BY DEF Hears, SentWhole, Answered
<1>9. Hears(q + 1)'
  BY <1>2, <1>6, <1>7, <1>8 DEF Hears, e
<1>10. ASSUME NEW l \in Nat, NEW h \in Nat, Spoils(l, h)
       PROVE  bit = Plus(ReplyFrame(asks, payload)[q + 1], In(q + 1, l, h))
  <2>1. (buffer \o coming)[q + 1] = Plus(ReplyFrame(asks, payload)[q + 1], In(q + 1, l, h))
    BY <1>10, HeardBits
  <2> QED
    BY <1>1, <1>4, <2>1, Zenon
<1> QED
  BY <1>4, <1>9, <1>10 DEF bit

(* The register follows the reply, and the burst what it does to it.        *)
LEMMA DiffersNext ==
    ASSUME NEW q \in Nat \ {0}, q < Len(payload) + 8, Hears(q), Differs(q), Take, crc \in Regs,
           crc' = Clocked(crc, Head(coming)), UNCHANGED <<asks, wire, payload, spoilt>>
    PROVE  Differs(q + 1)' /\ crc' \in Regs
<1> DEFINE f == ReplyFrame(asks, payload)
           X == ExpectedOf(asks, payload)
           n == Len(payload)
<1>1. asks \in Requests /\ payload \in Payloads /\ asks.reply # "none"
  BY DEF Hears, SentWhole, Answered
<1>2. f \in Seq(Bit) /\ Len(f) = n + 16 /\ n \in Nat \ {0}
  BY <1>1, ReplyIs
<1>3. /\ Head(coming) \in Bit
      /\ \A lo, hi \in Nat : Spoils(lo, hi) => Head(coming) = Plus(f[q + 1], In(q + 1, lo, hi))
  <2>1. q < Len(payload) + 16 /\ q \in Nat
    BY <1>2
  <2> QED
    BY <2>1, HearsNext
<1>4. crc' \in Regs
  BY <1>3, ClockedIs
<1>5. ASSUME asks.reply # "raw"
      PROVE  \E lo, hi \in Nat : Spoils(lo, hi)' /\ Marks(Sum2(crc', X[q + 1]), q + 1, lo, hi)
  <2>1. PICK lo \in Nat, hi \in Nat : Spoils(lo, hi) /\ Marks(Sum2(crc, X[q]), q, lo, hi)
    BY <1>5 DEF Differs
  <2>2. Tracks(asks, payload, X)
    BY <1>1, <1>5, ExpectedIs
  <2>3. X[q] \in Regs /\ X[q + 1] = Clocked(X[q], f[q + 1])
    <3>1. q \in 1 .. (n + 8) /\ q \in 1 .. (n + 7)
      BY <1>2
    <3> QED
      BY <2>2, <3>1 DEF Tracks
  <2>4. f[q + 1] \in Bit
    <3> HIDE DEF f, n
    <3>1. q + 1 \in 1 .. Len(f)
      BY <1>2 DEF n
    <3> QED
      BY <1>2, <3>1, ElementOfSeq
  <2> HIDE DEF f, X, n
  <2> DEFINE bit == Head(coming)
  <2>5. bit = Plus(f[q + 1], In(q + 1, lo, hi)) /\ bit \in Bit
    BY <1>3, <2>1
  <2> HIDE DEF bit
  <2>6. Sum2(crc', X[q + 1]) = Fed(Sum2(crc, X[q]), Plus(bit, f[q + 1]))
    BY <2>3, <2>4, <2>5, Linear DEF bit
  <2>7. Plus(bit, f[q + 1]) = In(q + 1, lo, hi)
    <3>1. \A a, b \in Bit : Plus(Plus(a, b), a) = b
      BY DEF Plus, Bit
    <3>2. In(q + 1, lo, hi) \in Bit
      BY DEF In, Bit
    <3> QED
      BY <2>4, <2>5, <3>1, <3>2
  <2>8. hi - lo <= 6
    BY <2>1 DEF Spoils
  <2>9. Marks(Fed(Sum2(crc, X[q]), In(q + 1, lo, hi)), q + 1, lo, hi)
    BY <2>1, <2>8, MarksStep
  <2>10. Spoils(lo, hi)'
    BY <2>1 DEF Spoils
  <2> QED
    BY <2>6, <2>7, <2>9, <2>10
<1>6. Differs(q + 1)'
  BY <1>5 DEF Differs
<1> QED
  BY <1>4, <1>6

(* With the bit received now.                                               *)
LEMMA TakenBits ==
    ASSUME NEW q \in Nat, Hears(q), q < Len(payload) + 16, Take, UNCHANGED <<asks, wire, payload, spoilt>>,
           NEW lo \in Nat, NEW hi \in Nat, Spoils(lo, hi)
    PROVE  \A i \in 1 .. (q + 1) : buffer'[i] = Plus(ReplyFrame(asks, payload)[i], In(i, lo, hi))
<1> DEFINE bit == Head(coming)
           f == ReplyFrame(asks, payload)
<1>1. buffer' = Append(buffer, bit)
  BY DEF Take
<1>2. bit \in Bit /\ bit = Plus(f[q + 1], In(q + 1, lo, hi))
  BY HearsNext
<1>3. buffer \in Seq(Bit) /\ Len(buffer) = q
  BY DEF Hears
<1>4. \A i \in 1 .. q : buffer[i] = Plus(f[i], In(i, lo, hi))
  BY HeardBits
<1> HIDE DEF bit, f
<1>5. \A i \in 1 .. Len(buffer) : buffer'[i] = buffer[i]
  BY <1>1, <1>2, <1>3, AppendProperties
<1>6. buffer'[Len(buffer) + 1] = bit
  BY <1>1, <1>2, <1>3, AppendProperties, Zenon
<1>7. ASSUME NEW i \in 1 .. (q + 1) PROVE buffer'[i] = Plus(f[i], In(i, lo, hi))
  <2>1. CASE i = q + 1
    BY <1>2, <1>3, <1>6, <2>1
  <2>2. CASE i # q + 1
    <3>1. i \in 1 .. q
      BY <2>2
    <3> QED
      BY <1>3, <1>4, <1>5, <3>1
  <2> QED
    BY <2>1, <2>2
<1> QED
  BY <1>7 DEF f

(* Without a fault what was received is what was sent. *)
LEMMA Unspoilt ==
    ASSUME NEW q \in Nat, Hears(q), q < Len(payload) + 16, Take, UNCHANGED <<asks, wire, payload, spoilt>>,
           spoilt = {}
    PROVE  \A i \in 1 .. (q + 1) : buffer'[i] = ReplyFrame(asks, payload)[i]
<1> DEFINE f == ReplyFrame(asks, payload)
<1>1. PICK lo \in Nat, hi \in Nat : Spoils(lo, hi)
  BY DEF Hears
<1>2. \A i \in 1 .. (q + 1) : buffer'[i] = Plus(f[i], In(i, lo, hi))
  BY <1>1, TakenBits
<1>3. lo .. hi = {}
  BY <1>1 DEF Spoils
<1>4. f \in Seq(Bit) /\ Len(f) = Len(payload) + 16 /\ Len(payload) \in Nat
  BY ReplyIs DEF Hears, SentWhole, Answered
<1> HIDE DEF f
<1>5. ASSUME NEW i \in 1 .. (q + 1) PROVE buffer'[i] = f[i]
  <2>1. In(i, lo, hi) = 0
    BY <1>3 DEF In
  <2>2. i \in 1 .. Len(f)
    BY <1>4
  <2>3. f[i] \in Bit
    BY <1>4, <2>2, ElementOfSeq
  <2>4. \A a \in Bit : Plus(a, 0) = a
    BY DEF Plus, Bit
  <2> QED
    BY <1>2, <2>1, <2>3, <2>4
<1> QED
  BY <1>5 DEF f

(* A bit of the header: the last one is the time to compare it.             *)
LEMMA RecvHeaderStep == FramesInv /\ RecvHeader => FramesInv'
<1> SUFFICES ASSUME FramesInv, RecvHeader PROVE FramesInv'
  OBVIOUS
<1>0. PICK q : q = 7 - bitsLeft
  OBVIOUS
<1>1. bitsLeft \in 0 .. 6 /\ errors = {} /\ Hears(q) /\ Differs(q) /\ crc \in Regs
  BY <1>0 DEF FramesInv, RecvHeader
<1>2. Take /\ UNCHANGED <<asks, wire, payload, spoilt>> /\ crc' = Clocked(crc, Head(coming))
  BY DEF RecvHeader
<1>3. asks \in Requests /\ asks.reply # "none" /\ payload \in Payloads /\ Len(payload) \in Nat \ {0}
  BY <1>1, PayloadIs DEF Hears, SentWhole, Answered
<1>4. q \in 1 .. 7 /\ q \in Nat \ {0} /\ q \in Nat /\ q < Len(payload) + 8 /\ q < Len(payload) + 16
  BY <1>0, <1>1, <1>3
<1>5. Hears(q + 1)'
  BY <1>1, <1>2, <1>4, HearsNext
<1>6. Differs(q + 1)' /\ crc' \in Regs
  BY <1>1, <1>2, <1>4, DiffersNext
<1>7. CASE bitsLeft = 0
  <2>1. /\ cmdState' = "RECV_DATA" /\ bitsLeft' = Len(payload) - 1
        /\ errors' = IF SubSeq(buffer', Len(buffer') - CmdBits + 1, Len(buffer')) # LastCmd(asks)
                     THEN {"mismatch"} ELSE errors
    BY <1>7 DEF RecvHeader
  <2>2. q + 1 = 8
    BY <1>0, <1>7
  <2>3. buffer' \in Seq(Bit) /\ Len(buffer') = 8
    BY <1>5, <2>2 DEF Hears
  <2>4. ASSUME spoilt = {} PROVE SubSeq(buffer', 3, 8) = LastCmd(asks)
    <3>1. \A i \in 1 .. 8 : buffer'[i] = ReplyFrame(asks, payload)[i]
      BY <1>1, <1>2, <1>4, <2>2, <2>4, Unspoilt
    <3>2. \A i \in 1 .. 8 : ReplyFrame(asks, payload)[i] = Header(asks)[i]
      BY <1>3, ReplyIs
    <3>3. LastCmd(asks) \in Seq(Bit) /\ Len(LastCmd(asks)) = 6
          /\ \A i \in 1 .. 6 : Header(asks)[i + 2] = LastCmd(asks)[i]
      BY <1>3, RequestIs, HeaderIs
    <3> DEFINE b == buffer'
               s == SubSeq(b, 3, 8)
    <3>4. \A i \in 3 .. 8 : b[i] \in Bit
      BY <2>3, ElementOfSeq
    <3> HIDE DEF b
    <3>5. s \in Seq(Bit) /\ Len(s) = 8 - 3 + 1 /\ \A i \in 1 .. (8 - 3 + 1) : s[i] = b[3 + i - 1]
      BY <3>4, Cut
    <3> HIDE DEF s
    <3>6. ASSUME NEW i \in 1 .. 6 PROVE s[i] = LastCmd(asks)[i]
      <4>1. i + 2 \in 1 .. 8 /\ 3 + i - 1 = i + 2
        OBVIOUS
      <4>2. s[i] = b[i + 2]
        BY <3>5, <4>1
      <4> QED
        BY <3>1, <3>2, <3>3, <4>1, <4>2 DEF b
    <3>7. Len(s) = 6
      BY <3>5
    <3>8. s = LastCmd(asks)
      BY <3>3, <3>5, <3>6, <3>7, SeqEqual
    <3> QED
      BY <3>8 DEF s, b
  <2>5. errors' = IF SubSeq(buffer', 3, 8) # LastCmd(asks) THEN {"mismatch"} ELSE {}
    <3>1. Len(buffer') - CmdBits + 1 = 3
      BY <2>3 DEF CmdBits
    <3> QED
      BY <1>1, <2>1, <2>3, <3>1
  <2>6. Mild'
    <3>1. errors' \subseteq {"mismatch"}
      BY <2>5
    <3>2. spoilt' = {} => errors' = {}
      BY <1>2, <2>4, <2>5
    <3> QED
      BY <3>1, <3>2 DEF Mild
  <2>7. errors' \subseteq {"timeout", "mismatch", "invalid", "crc"}
    BY <2>6 DEF Mild
  <2>8. bitsLeft' \in 0 .. (Len(payload') - 1) /\ bitsLeft' \in Int /\ Len(payload') + 7 - bitsLeft' = q + 1
    BY <1>2, <1>3, <2>1, <2>2
  <2>9. Hears(Len(payload) + 7 - bitsLeft)' /\ Differs(Len(payload) + 7 - bitsLeft)'
    BY <1>5, <1>6, <2>8 DEF Hears, Differs
  <2>10. cmdState' = "RECV_DATA"
    BY <2>1
  <2> QED
    BY <1>6, <2>6, <2>7, <2>8, <2>9, <2>10 DEF FramesInv
<1>8. CASE bitsLeft # 0
  <2>1. bitsLeft' = bitsLeft - 1 /\ cmdState' = "RECV_HEADER" /\ errors' = {}
    BY <1>1, <1>8 DEF RecvHeader
  <2>2. bitsLeft' \in 0 .. 6 /\ bitsLeft' \in Int /\ 7 - bitsLeft' = q + 1
    BY <1>0, <1>1, <1>8, <2>1
  <2>3. Hears(7 - bitsLeft)' /\ Differs(7 - bitsLeft)'
    BY <1>5, <1>6, <2>2 DEF Hears, Differs
  <2> QED
    BY <1>6, <2>1, <2>2, <2>3 DEF FramesInv
<1> QED
  BY <1>7, <1>8

(* A bit of the payload.                                                    *)
LEMMA RecvDataStep == FramesInv /\ RecvData => FramesInv'
<1> SUFFICES ASSUME FramesInv, RecvData PROVE FramesInv'
  OBVIOUS
<1>0. PICK q : q = Len(payload) + 7 - bitsLeft
  OBVIOUS
<1>1. bitsLeft \in 0 .. (Len(payload) - 1) /\ Mild /\ Hears(q) /\ Differs(q) /\ crc \in Regs
  BY <1>0 DEF FramesInv, RecvData
<1>2. /\ Take /\ UNCHANGED <<asks, wire, payload, spoilt>> /\ crc' = Clocked(crc, Head(coming))
      /\ errors' = errors
  BY DEF RecvData
<1>3. Len(payload) \in Nat \ {0}
  BY <1>1, PayloadIs DEF Hears, Answered
<1>4. q \in Nat \ {0} /\ q \in Nat /\ q < Len(payload) + 8 /\ q < Len(payload) + 16
  BY <1>0, <1>1, <1>3
<1>5. Hears(q + 1)'
  BY <1>1, <1>2, <1>4, HearsNext
<1>6. Differs(q + 1)' /\ crc' \in Regs
  BY <1>1, <1>2, <1>4, DiffersNext
<1>7. Mild' /\ errors' \subseteq {"timeout", "mismatch", "invalid", "crc"}
  BY <1>1, <1>2 DEF Mild
<1>8. CASE bitsLeft = 0
  <2>1. cmdState' = "RECV_CRC" /\ bitsLeft' = 6
    BY <1>8 DEF RecvData, CrcBits
  <2>2. q + 1 = Len(payload') + 8 /\ Len(payload') + 14 - bitsLeft' = Len(payload') + 8
    BY <1>0, <1>2, <1>3, <1>8, <2>1
  <2>3. Hears(Len(payload) + 14 - bitsLeft)' /\ Differs(Len(payload) + 8)'
    BY <1>5, <1>6, <2>2 DEF Hears, Differs
  <2>4. bitsLeft' \in Int /\ bitsLeft' \in 0 .. 6
    BY <2>1
  <2> QED
    BY <1>6, <1>7, <2>1, <2>3, <2>4 DEF FramesInv
<1>9. CASE bitsLeft # 0
  <2>1. cmdState' = "RECV_DATA" /\ bitsLeft' = bitsLeft - 1
    BY <1>9 DEF RecvData
  <2>2. bitsLeft' \in 0 .. (Len(payload') - 1) /\ bitsLeft' \in Int /\ Len(payload') + 7 - bitsLeft' = q + 1
    BY <1>0, <1>1, <1>2, <1>3, <1>9, <2>1
  <2>3. Hears(Len(payload) + 7 - bitsLeft)' /\ Differs(Len(payload) + 7 - bitsLeft)'
    BY <1>5, <1>6, <2>2 DEF Hears, Differs
  <2> QED
    BY <1>6, <1>7, <2>1, <2>2, <2>3 DEF FramesInv
<1> QED
  BY <1>8, <1>9

(* A bit of the CRC, which is not clocked into the register.                *)
LEMMA RecvCrcStep == FramesInv /\ RecvCrc => FramesInv'
<1> SUFFICES ASSUME FramesInv, RecvCrc PROVE FramesInv'
  OBVIOUS
<1>0. PICK q : q = Len(payload) + 14 - bitsLeft
  OBVIOUS
<1>1. bitsLeft \in 0 .. 6 /\ Mild /\ Hears(q) /\ Differs(Len(payload) + 8) /\ crc \in Regs
  BY <1>0 DEF FramesInv, RecvCrc
<1>2. /\ Take /\ UNCHANGED <<asks, wire, payload, spoilt>> /\ crc' = crc /\ errors' = errors
      /\ bitsLeft' = bitsLeft - 1 /\ cmdState' = IF bitsLeft = 0 THEN "RECV_STOP" ELSE "RECV_CRC"
  BY DEF RecvCrc
<1>3. Len(payload) \in Nat \ {0}
  BY <1>1, PayloadIs DEF Hears, Answered
<1>4. q \in Nat /\ q < Len(payload) + 16
  BY <1>0, <1>1, <1>3
<1>5. Hears(q + 1)'
  BY <1>1, <1>2, <1>4, HearsNext
<1>6. Differs(Len(payload) + 8)'
  <2>1. \A lo, hi \in Nat : Spoils(lo, hi) => Spoils(lo, hi)'
    BY <1>2 DEF Spoils
  <2> QED
    BY <1>1, <1>2, <2>1 DEF Differs
<1>7. Mild' /\ errors' \subseteq {"timeout", "mismatch", "invalid", "crc"} /\ crc' \in Regs
  BY <1>1, <1>2 DEF Mild
<1>8. CASE bitsLeft = 0
  <2>1. cmdState' = "RECV_STOP" /\ bitsLeft' \in Int
    BY <1>1, <1>2, <1>8
  <2>2. q + 1 = Len(payload') + 15
    BY <1>0, <1>2, <1>3, <1>8
  <2>3. Hears(Len(payload) + 15)'
    BY <1>5, <2>2 DEF Hears
  <2> QED
    BY <1>6, <1>7, <2>1, <2>3 DEF FramesInv
<1>9. CASE bitsLeft # 0
  <2>1. cmdState' = "RECV_CRC" /\ bitsLeft' \in 0 .. 6 /\ bitsLeft' \in Int
    BY <1>1, <1>2, <1>9
  <2>2. Len(payload') + 14 - bitsLeft' = q + 1
    BY <1>0, <1>1, <1>2, <1>3, <1>9
  <2>3. Hears(Len(payload) + 14 - bitsLeft)'
    BY <1>5, <2>2 DEF Hears
  <2> QED
    BY <1>6, <1>7, <2>1, <2>3 DEF FramesInv
<1> QED
  BY <1>8, <1>9

(* The CRC that came is that of the register exactly if the burst has done  *)
(* to both the same.                                                        *)
LEMMA CheckDiffers ==
    ASSUME NEW c \in Regs, NEW k \in Regs, NEW r \in Regs, NEW e \in Regs, \A j \in 1 .. 7 : r[j] = Plus(k[j], e[j])
    PROVE  r = c <=> Sum2(c, k) = e
<1>1. \A j \in 1 .. 7 : c[j] \in Bit /\ k[j] \in Bit /\ r[j] \in Bit /\ e[j] \in Bit
  BY DEF Regs
<1>2. \A a \in Bit, b \in Bit : Plus(Plus(a, b), a) = b /\ Plus(Plus(b, a), a) = b
  BY DEF Plus, Bit
<1>3. ASSUME r = c PROVE Sum2(c, k) = e
  <2>1. ASSUME NEW j \in 1 .. 7 PROVE Plus(c[j], k[j]) = e[j]
    BY <1>1, <1>2, <1>3
  <2> QED
    BY <2>1 DEF Sum2, Regs
<1>4. ASSUME Sum2(c, k) = e PROVE r = c
  <2>1. ASSUME NEW j \in 1 .. 7 PROVE r[j] = c[j]
    <3>1. e[j] = Plus(c[j], k[j])
      BY <1>4 DEF Sum2
    <3>2. \A a \in Bit, b \in Bit : Plus(a, Plus(b, a)) = b
      BY DEF Plus, Bit
    <3> QED
      BY <1>1, <3>1, <3>2
  <2> QED
    BY <2>1 DEF Regs
<1> QED
  BY <1>3, <1>4

(* The stop bit: the verdict.                                               *)
LEMMA RecvStopStep == FramesInv /\ RecvStop => FramesInv'
<1> SUFFICES ASSUME FramesInv, RecvStop PROVE FramesInv'
  OBVIOUS
<1> DEFINE f == ReplyFrame(asks, payload)
           check == Check(asks, payload)
           bit == Head(coming)
<1>0. PICK n : n = Len(payload)
  OBVIOUS
<1>1. Mild /\ Hears(n + 15) /\ Differs(n + 8) /\ crc \in Regs /\ bitsLeft \in Int
  BY <1>0 DEF FramesInv, RecvStop
<1>2. /\ Take /\ UNCHANGED <<asks, wire, payload, spoilt>> /\ crc' = crc /\ bitsLeft' = bitsLeft /\ cmdState' = "IDLE"
      /\ errors' = errors
              \cup (IF bit # 1 THEN {"invalid"} ELSE {})
              \cup (IF SubSeq(buffer, Len(buffer) - CrcBits + 1, Len(buffer)) # crc THEN {"crc"} ELSE {})
  BY DEF RecvStop
<1>3. asks \in Requests /\ asks.reply # "none" /\ payload \in Payloads /\ payload \in Seq(Bit) /\ n \in Nat \ {0}
  BY <1>0, <1>1, PayloadIs DEF Hears, SentWhole, Answered
<1>4. /\ \A i \in 1 .. n : f[i + 8] = payload[i]
      /\ \A i \in 1 .. 7 : f[n + 8 + i] = check[i]
      /\ f[n + 16] = 1
  BY <1>0, <1>3, ReplyIs
<1>5. n + 15 \in Nat /\ n + 15 < Len(payload) + 16 /\ (n + 15) + 1 = n + 16
  BY <1>0, <1>3
<1>6. Hears(n + 16)'
  <2>1. Hears((n + 15) + 1)'
    BY <1>1, <1>2, <1>5, HearsNext
  <2> QED
    BY <1>5, <2>1 DEF Hears
<1>7. buffer \in Seq(Bit) /\ Len(buffer) = n + 15
  BY <1>1 DEF Hears
<1> DEFINE r == SubSeq(buffer, n + 9, n + 15)
<1>8. r \in Regs /\ \A j \in 1 .. 7 : r[j] = buffer[n + 8 + j]
  <2>1. n + 9 \in Int /\ n + 15 \in Int /\ n + 9 <= n + 15
    BY <1>3
  <2>2. \A i \in (n + 9) .. (n + 15) : buffer[i] \in Bit
    BY <1>3, <1>7, ElementOfSeq
  <2>3. r \in Seq(Bit) /\ Len(r) = (n + 15) - (n + 9) + 1
        /\ \A i \in 1 .. ((n + 15) - (n + 9) + 1) : r[i] = buffer[(n + 9) + i - 1]
    BY <2>1, <2>2, Cut, Zenon
  <2> HIDE DEF r
  <2>4. Len(r) = 7 /\ \A j \in 1 .. 7 : r[j] = buffer[n + 8 + j]
    BY <1>3, <2>3
  <2> QED
    BY <2>3, <2>4, SeqIsReg
<1>9. errors' = errors \cup (IF bit # 1 THEN {"invalid"} ELSE {}) \cup (IF r # crc THEN {"crc"} ELSE {})
  <2>1. Len(buffer) - CrcBits + 1 = n + 9 /\ Len(buffer) = n + 15
    BY <1>3, <1>7 DEF CrcBits
  <2> QED
    BY <1>2, <2>1
<1>10. \A lo, hi \in Nat : Spoils(lo, hi) => bit = Plus(f[n + 16], In(n + 16, lo, hi))
  BY <1>1, <1>2, <1>5, HearsNext
<1>11. check \in Regs
  BY <1>3, CheckIs
<1> HIDE DEF f, check, r, bit
<1>12. ASSUME asks.reply # "raw" PROVE errors' = {} <=> spoilt = {}
  <2> DEFINE X == ExpectedOf(asks, payload)
             d == Sum2(crc, check)
  <2>1. PICK lo \in Nat, hi \in Nat : Spoils(lo, hi) /\ Marks(Sum2(crc, X[n + 8]), n + 8, lo, hi)
    BY <1>1, <1>12 DEF Differs
  <2>2. X[n + 8] = check
    BY <1>0, <1>3, <1>12, ExpectedIs DEF Tracks, check
  <2> HIDE DEF X
  <2>3. Marks(d, n + 8, lo, hi)
    BY <2>1, <2>2
  <2>4. spoilt = lo .. hi /\ hi - lo <= 6 /\ lo >= 2 /\ hi <= n + 16
    BY <1>0, <1>3, <2>1 DEF Spoils
  <2> DEFINE e == [j \in 1 .. 7 |-> In((n + 8) + j, lo, hi)]
  <2>5. e \in Regs
    BY DEF Regs, In, Bit
  <2>6. \A j \in 1 .. 7 : r[j] = Plus(check[j], e[j])
    <3>1. \A i \in 1 .. (n + 15) : buffer[i] = Plus(f[i], In(i, lo, hi))
      BY <1>1, <1>5, <2>1, HeardBits DEF f
    <3>2. ASSUME NEW j \in 1 .. 7 PROVE r[j] = Plus(check[j], e[j])
      <4>1. n + 8 + j \in 1 .. (n + 15) /\ e[j] = In(n + 8 + j, lo, hi)
        BY <1>3
      <4>2. buffer[n + 8 + j] = Plus(f[n + 8 + j], In(n + 8 + j, lo, hi))
        BY <3>1, <4>1
      <4> QED
        BY <1>4, <1>8, <4>1, <4>2
    <3> QED
      BY <3>2
  <2> HIDE DEF e, d
  <2>7. r = crc <=> d = e
    BY <1>1, <1>8, <1>11, <2>5, <2>6, CheckDiffers DEF d
  <2>8. bit = Plus(1, In(n + 16, lo, hi))
    BY <1>4, <1>10, <2>1
  <2>9. CASE hi < lo
    <3>0. \A i \in Nat : In(i, lo, hi) = 0
      BY <2>9 DEF In
    <3>1. d = Zeros(CrcBits)
      BY <2>3, <2>9 DEF Marks
    <3>2. e = Zeros(CrcBits)
      <4>1. \A j \in 1 .. 7 : (n + 8) + j \in Nat
        BY <1>3
      <4> QED
        BY <3>0, <4>1 DEF e, Zeros, CrcBits
    <3>3. bit = 1
      <4>1. n + 16 \in Nat
        BY <1>3
      <4> QED
        BY <2>8, <3>0, <4>1 DEF Plus
    <3>4. spoilt = {}
      BY <2>4, <2>9
    <3>5. errors = {}
      BY <1>1, <3>4 DEF Mild
    <3> QED
      BY <1>9, <2>7, <3>1, <3>2, <3>3, <3>4, <3>5
  <2>10. CASE lo <= hi /\ hi = n + 16
    <3>1. bit = 0
      BY <1>3, <2>8, <2>10 DEF In, Plus
    <3>2. "invalid" \in errors'
      BY <1>9, <3>1
    <3>3. lo \in spoilt
      BY <2>4, <2>10
    <3> QED
      BY <3>2, <3>3
  <2>11. CASE lo <= hi /\ hi # n + 16
    <3>1. hi <= (n + 8) + 7 /\ n + 8 \in Nat
      BY <1>3, <2>4, <2>11
    <3>2. d # e
      BY <2>3, <2>4, <2>11, <3>1, BurstSeen DEF e
    <3>3. "crc" \in errors'
      BY <1>9, <2>7, <3>2
    <3>4. lo \in spoilt
      BY <2>4, <2>11
    <3> QED
      BY <3>3, <3>4
  <2> QED
    BY <2>9, <2>10, <2>11
<1>13. ASSUME spoilt = {} PROVE SubSeq(buffer', 9, n + 8) = payload
  <2>1. \A i \in 1 .. (n + 16) : buffer'[i] = f[i]
    <3>1. \A i \in 1 .. ((n + 15) + 1) : buffer'[i] = f[i]
      BY <1>1, <1>2, <1>5, <1>13, Unspoilt DEF f
    <3> QED
      BY <1>5, <3>1
  <2> DEFINE b == buffer'
             s == SubSeq(b, 9, n + 8)
  <2>2. b \in Seq(Bit) /\ Len(b) = n + 16
    BY <1>6 DEF Hears
  <2> HIDE DEF b
  <2>3. 9 \in Int /\ n + 8 \in Int /\ 9 <= n + 8 /\ \A i \in 9 .. (n + 8) : b[i] \in Bit
    BY <1>3, <2>2, ElementOfSeq
  <2>4. s \in Seq(Bit) /\ Len(s) = (n + 8) - 9 + 1 /\ \A i \in 1 .. ((n + 8) - 9 + 1) : s[i] = b[9 + i - 1]
    BY <2>3, Cut, Zenon
  <2> HIDE DEF s
  <2>5. Len(s) = n
    BY <1>3, <2>4
  <2>6. ASSUME NEW i \in 1 .. n PROVE s[i] = payload[i]
    <3>1. 9 + i - 1 = i + 8 /\ i + 8 \in 1 .. (n + 16) /\ i \in 1 .. ((n + 8) - 9 + 1)
      BY <1>3
    <3>2. s[i] = b[i + 8]
      BY <2>4, <3>1
    <3> QED
      BY <1>4, <2>1, <3>1, <3>2 DEF b
  <2>7. s = payload
    BY <1>0, <1>3, <2>4, <2>5, <2>6, SeqEqual
  <2> QED
    BY <2>7 DEF s, b
<1>14. Judged'
  <2>1. asks.reply # "raw" => (errors' = {} <=> spoilt = {})
    BY <1>12
  <2>2. spoilt = {} => SubSeq(buffer', 3 + CmdBits, 2 + CmdBits + Len(payload)) = payload
    <3>1. 3 + CmdBits = 9 /\ 2 + CmdBits + Len(payload) = n + 8
      BY <1>0, <1>3 DEF CmdBits
    <3> QED
      BY <1>13, <3>1
  <2> QED
    BY <1>2, <2>1, <2>2 DEF Judged
<1>15. errors' \subseteq {"timeout", "mismatch", "invalid", "crc"}
  BY <1>1, <1>9 DEF Mild
<1>16. SentWhole'
  BY <1>6 DEF Hears
<1>17. cmdState' = "IDLE" /\ bitsLeft' \in Int /\ crc' \in Regs
  BY <1>1, <1>2
<1> QED
  BY <1>14, <1>15, <1>16, <1>17 DEF FramesInv

(* Nothing happens.                                                         *)
LEMMA FramesStutters == FramesInv /\ UNCHANGED framesVars => FramesInv'
<1> SUFFICES ASSUME FramesInv, UNCHANGED framesVars PROVE FramesInv'
  OBVIOUS
<1>1. /\ cmdState' = cmdState /\ bitsLeft' = bitsLeft /\ crc' = crc /\ buffer' = buffer /\ asks' = asks
      /\ wire' = wire /\ payload' = payload /\ spoilt' = spoilt /\ coming' = coming /\ errors' = errors
  BY DEF framesVars
<1>2. /\ SentWhole' = SentWhole /\ Judged' = Judged /\ SendsCommand' = SendsCommand /\ SendsCheck' = SendsCheck
      /\ SendsStop' = SendsStop /\ Awaits' = Awaits /\ Mild' = Mild
  BY <1>1 DEF SentWhole, Judged, SendsCommand, SendsCheck, SendsStop, Awaits, Answered, Mild
<1>3. /\ cmdState' \in {"IDLE", "SEND_CMD", "SEND_CRC", "SEND_STOP", "RECV_PENDING", "RECV_HEADER",
                        "RECV_DATA", "RECV_CRC", "RECV_STOP"}
      /\ bitsLeft' \in Int /\ crc' \in Regs /\ errors' \subseteq {"timeout", "mismatch", "invalid", "crc"}
  BY <1>1 DEF FramesInv
<1>4. CASE cmdState = "IDLE"
  <2>1. (asks' = NoRequest \/ SentWhole') /\ Judged' /\ cmdState' = "IDLE"
    BY <1>1, <1>2, <1>4 DEF FramesInv
  <2> QED
    BY <1>3, <2>1 DEF FramesInv
<1>5. CASE cmdState \in {"SEND_CMD", "SEND_CRC", "SEND_STOP", "RECV_PENDING"}
  <2>1. CASE cmdState = "SEND_CMD"
    <3>1. SendsCommand' /\ cmdState' = "SEND_CMD"
      BY <1>1, <1>2, <2>1 DEF FramesInv
    <3> QED
      BY <1>3, <3>1 DEF FramesInv
  <2>2. CASE cmdState = "SEND_CRC"
    <3>1. SendsCheck' /\ cmdState' = "SEND_CRC"
      BY <1>1, <1>2, <2>2 DEF FramesInv
    <3> QED
      BY <1>3, <3>1 DEF FramesInv
  <2>3. CASE cmdState = "SEND_STOP"
    <3>1. SendsStop' /\ cmdState' = "SEND_STOP"
      BY <1>1, <1>2, <2>3 DEF FramesInv
    <3> QED
      BY <1>3, <3>1 DEF FramesInv
  <2>4. CASE cmdState = "RECV_PENDING"
    <3>1. Awaits' /\ cmdState' = "RECV_PENDING"
      BY <1>1, <1>2, <2>4 DEF FramesInv
    <3> QED
      BY <1>3, <3>1 DEF FramesInv
  <2> QED
    BY <1>5, <2>1, <2>2, <2>3, <2>4
<1>6. ASSUME NEW q, Hears(q) PROVE Hears(q)'
  BY <1>1, <1>2, <1>6 DEF Hears, Answered, Spoils
<1>7. ASSUME NEW q, Differs(q) PROVE Differs(q)'
  BY <1>1, <1>7 DEF Differs, Spoils
<1>8. CASE cmdState = "RECV_HEADER"
  <2>1. PICK q : q = 7 - bitsLeft
    OBVIOUS
  <2>2. bitsLeft \in 0 .. 6 /\ errors = {} /\ Hears(q) /\ Differs(q)
    BY <1>8, <2>1 DEF FramesInv
  <2>3. Hears(q)' /\ Differs(q)'
    BY <1>6, <1>7, <2>2
  <2>4. Hears(7 - bitsLeft)' /\ Differs(7 - bitsLeft)'
    BY <1>1, <2>1, <2>3 DEF Hears, Differs
  <2> QED
    BY <1>1, <1>3, <1>8, <2>2, <2>4 DEF FramesInv
<1>9. CASE cmdState = "RECV_DATA"
  <2>1. PICK q : q = Len(payload) + 7 - bitsLeft
    OBVIOUS
  <2>2. bitsLeft \in 0 .. (Len(payload) - 1) /\ Mild /\ Hears(q) /\ Differs(q)
    BY <1>9, <2>1 DEF FramesInv
  <2>3. Hears(q)' /\ Differs(q)'
    BY <1>6, <1>7, <2>2
  <2>4. Hears(Len(payload) + 7 - bitsLeft)' /\ Differs(Len(payload) + 7 - bitsLeft)'
    BY <1>1, <2>1, <2>3 DEF Hears, Differs
  <2> QED
    BY <1>1, <1>2, <1>3, <1>9, <2>2, <2>4 DEF FramesInv
<1>10. CASE cmdState = "RECV_CRC"
  <2>1. PICK q, p : q = Len(payload) + 14 - bitsLeft /\ p = Len(payload) + 8
    OBVIOUS
  <2>2. bitsLeft \in 0 .. 6 /\ Mild /\ Hears(q) /\ Differs(p)
    BY <1>10, <2>1 DEF FramesInv
  <2>3. Hears(q)' /\ Differs(p)'
    BY <1>6, <1>7, <2>2
  <2>4. Hears(Len(payload) + 14 - bitsLeft)' /\ Differs(Len(payload) + 8)'
    BY <1>1, <2>1, <2>3 DEF Hears, Differs
  <2> QED
    BY <1>1, <1>2, <1>3, <1>10, <2>2, <2>4 DEF FramesInv
<1>11. CASE cmdState = "RECV_STOP"
  <2>1. PICK q, p : q = Len(payload) + 15 /\ p = Len(payload) + 8
    OBVIOUS
  <2>2. Mild /\ Hears(q) /\ Differs(p)
    BY <1>11, <2>1 DEF FramesInv
  <2>3. Hears(q)' /\ Differs(p)'
    BY <1>6, <1>7, <2>2
  <2>4. Hears(Len(payload) + 15)' /\ Differs(Len(payload) + 8)'
    BY <1>1, <2>1, <2>3 DEF Hears, Differs
  <2> QED
    BY <1>1, <1>2, <1>3, <1>11, <2>2, <2>4 DEF FramesInv
<1> QED
  BY <1>4, <1>5, <1>8, <1>9, <1>10, <1>11 DEF FramesInv

(* The invariant holds of the command line, for any requests and payloads   *)
(* of bits, and any faults that spoil no more bits than a CRC has.          *)
THEOREM FramesSafety == FramesSpec => []FramesInv
<1>1. FramesInv /\ [FramesNext]_framesVars => FramesInv'
  BY CmdIdleStep, SendCmdStep, SendCrcStep, SendStopStep, RecvPendingStep, RecvHeaderStep, RecvDataStep,
     RecvCrcStep, RecvStopStep, FramesStutters DEF FramesNext
<1> QED
  BY <1>1, FramesStarts, PTL DEF FramesSpec

(* The register that crc.sv clocks finds every burst, and nothing else: a   *)
(* reply is in order exactly if it came as it was sent.                     *)
THEOREM FramesCheckedAlways == FramesSpec => []FramesChecked
<1>1. FramesInv => FramesChecked
  BY DEF FramesInv, FramesChecked, SentWhole, Judged, Awaits
<1> QED
  BY <1>1, FramesSafety, PTL

(* The registers of the command line keep their types.                      *)
THEOREM FramesTypes == FramesSpec => []FramesTypeOK
<1>1. FramesInv => FramesTypeOK
  BY RegIsSeq DEF FramesInv, FramesTypeOK, CrcBits
<1> QED
  BY <1>1, FramesSafety, PTL

-----------------------------------------------------------------------------
(* The walk through the FAT.                                                *)

(* The clusters that there are to come to. *)
Reached(d, v, c) == {c} \cup {FatEntry(d, v, h) : h \in Clusters(v)}

(* Each cluster but the first is what the one before it links to. *)
Linked(d, v, c) ==
    {s \in Seq(Reached(d, v, c)) :
        /\ Len(s) > 0
        /\ s[1] = c
        /\ \A k \in 1 .. (Len(s) - 1) : /\ s[k] \in Clusters(v)
                                        /\ FatEntry(d, v, s[k]) < Eoc
                                        /\ s[k + 1] = FatEntry(d, v, s[k])}

LEMMA LongerLinked ==
    ASSUME NEW d, NEW v, NEW c, NEW s \in Linked(d, v, c)
    PROVE  Longer(d, v, s) \in Linked(d, v, c)
<1> DEFINE R == Reached(d, v, c)
           h == s[Len(s)]
           nx == FatEntry(d, v, h)
<1>1. /\ s \in Seq(R) /\ Len(s) \in Nat /\ Len(s) > 0 /\ s[1] = c
      /\ \A k \in 1 .. (Len(s) - 1) : /\ s[k] \in Clusters(v)
                                      /\ FatEntry(d, v, s[k]) < Eoc
                                      /\ s[k + 1] = FatEntry(d, v, s[k])
  BY LenProperties DEF Linked
<1>2. Longer(d, v, s) = IF h \in Clusters(v) /\ nx < Eoc THEN Append(s, nx) ELSE s
  BY DEF Longer, Last
<1>3. CASE ~(h \in Clusters(v) /\ nx < Eoc)
  BY <1>2, <1>3
<1>4. CASE h \in Clusters(v) /\ nx < Eoc
  <2>1. nx \in R
    BY <1>4 DEF Reached
  <2> DEFINE t == Append(s, nx)
  <2> HIDE DEF nx, R
  <2>2. /\ t \in Seq(R) /\ Len(t) = Len(s) + 1
        /\ \A k \in 1 .. Len(s) : t[k] = s[k]
        /\ t[Len(s) + 1] = nx
    BY <1>1, <2>1, AppendProperties
  <2> HIDE DEF t
  <2>3. ASSUME NEW k \in 1 .. (Len(t) - 1)
        PROVE  /\ t[k] \in Clusters(v)
               /\ FatEntry(d, v, t[k]) < Eoc
               /\ t[k + 1] = FatEntry(d, v, t[k])
    <3>1. k \in 1 .. Len(s) /\ t[k] = s[k]
      BY <1>1, <2>2
    <3>2. CASE k = Len(s)
      BY <1>4, <2>2, <3>1, <3>2 DEF nx
    <3>3. CASE k # Len(s)
      <4>1. k \in 1 .. (Len(s) - 1) /\ k + 1 \in 1 .. Len(s)
        BY <1>1, <3>1, <3>3
      <4> QED
        BY <1>1, <2>2, <3>1, <4>1
    <3> QED
      BY <3>2, <3>3
  <2>4. Len(t) > 0 /\ t[1] = c
    BY <1>1, <2>2
  <2> QED
    BY <1>2, <1>4, <2>2, <2>3, <2>4 DEF Linked, t, R
<1> QED
  BY <1>3, <1>4

(* A chain is linked. *)
LEMMA ChainLinked ==
    ASSUME NEW d, NEW v, v.total \in Nat, NEW c
    PROVE  Chain(d, v, c) \in Linked(d, v, c)
<1> DEFINE D == Linked(d, v, c)
           T == [p \in Nat \X D |-> Longer(d, v, p[2])]
           W == CHOOSE g : g = [n \in Nat |-> IF n = 0 THEN <<c>> ELSE Longer(d, v, g[n - 1])]
<1>1. Chain(d, v, c) = W[v.total]
  BY Zenon DEF Chain
<1>2. <<c>> \in D
  <2>1. <<c>> \in Seq(Reached(d, v, c)) /\ Len(<<c>>) = 1 /\ <<c>>[1] = c
    BY DEF Reached
  <2> QED
    BY <2>1 DEF Linked
<1>3. \A k \in Nat, s \in D : T[<<k, s>>] = Longer(d, v, s) /\ Longer(d, v, s) \in D
  BY LongerLinked
<1> HIDE DEF D, T
<1>4. Steps(D, <<c>>, T)
  BY <1>2, <1>3 DEF Steps
<1>5. PICK f \in [Nat -> D] : \A n \in Nat : f[n] = IF n = 0 THEN <<c>> ELSE T[<<n - 1, f[n - 1]>>]
  BY <1>4, Recurs
<1>6. ASSUME NEW n \in Nat PROVE f[n] = IF n = 0 THEN <<c>> ELSE Longer(d, v, f[n - 1])
  <2>1. CASE n = 0
    BY <1>5, <2>1
  <2>2. CASE n # 0
    <3>1. n - 1 \in Nat
      BY <2>2
    <3> QED
      BY <1>3, <1>5, <2>2, <3>1
  <2> QED
    BY <2>1, <2>2
<1>7. f = [n \in Nat |-> IF n = 0 THEN <<c>> ELSE Longer(d, v, f[n - 1])]
  BY <1>6
<1>8. W = [n \in Nat |-> IF n = 0 THEN <<c>> ELSE Longer(d, v, W[n - 1])]
  BY <1>7
<1> HIDE DEF W
<1>9. \A n \in Nat : W[n] = IF n = 0 THEN <<c>> ELSE Longer(d, v, W[n - 1])
  BY <1>8, Zenon
<1> DEFINE V == {n \in Nat : W[n] \in D}
<1>10. 0 \in V
  BY <1>2, <1>9
<1>11. ASSUME NEW n \in Nat, n \in V PROVE n + 1 \in V
  <2>1. n + 1 \in Nat /\ n + 1 # 0 /\ (n + 1) - 1 = n
    OBVIOUS
  <2>2. W[n + 1] = Longer(d, v, W[n])
    BY <1>9, <2>1
  <2>3. Longer(d, v, W[n]) \in D
    BY <1>3, <1>11
  <2> QED
    BY <2>1, <2>2, <2>3
<1>12. Nat \subseteq V
  BY <1>10, <1>11, NatsIn
<1> QED
  BY <1>1, <1>12 DEF D

(* A chain with an end: every cluster is one of the first FAT sector, and   *)
(* links to the next, the last to none.                                     *)
LEMMA EndedChain ==
    ASSUME NEW d, NEW v, v.total \in Nat, NEW c, ChainEnds(d, v, c)
    PROVE  LET s == Chain(d, v, c) IN
           /\ Len(s) \in Nat \ {0} /\ DOMAIN s = 1 .. Len(s) /\ s[1] = c
           /\ \A k \in 1 .. Len(s) : s[k] \in Clusters(v) /\ s[k] < ClustersPerFatSector
           /\ \A k \in 1 .. (Len(s) - 1) : FatEntry(d, v, s[k]) = s[k + 1]
           /\ FatEntry(d, v, s[Len(s)]) >= Eoc
<1> DEFINE s == Chain(d, v, c)
<1>1. s \in Linked(d, v, c)
  BY ChainLinked
<1>2. /\ \A k \in DOMAIN s : s[k] \in Clusters(v) /\ s[k] < ClustersPerFatSector
      /\ FatEntry(d, v, s[Len(s)]) >= Eoc
  BY DEF ChainEnds, Last
<1> HIDE DEF s
<1>3. Len(s) \in Nat /\ DOMAIN s = 1 .. Len(s)
  BY <1>1, LenProperties DEF Linked
<1>4. Len(s) > 0 /\ s[1] = c /\ \A k \in 1 .. (Len(s) - 1) : FatEntry(d, v, s[k]) = s[k + 1]
  BY <1>1 DEF Linked
<1> QED
  BY <1>2, <1>3, <1>4 DEF s

-----------------------------------------------------------------------------
(* The files.  What is known of a card that a formatter has left, and of    *)
(* its volume.                                                              *)
Usable(d, v) ==
    /\ d.numBlocks \in Nat /\ d.numBlocks < Word
    /\ \A k \in 0 .. (d.numBlocks - 1) : BlockAssumption(d.blocks[k])
    /\ {v.offset, v.size, v.firstFat, v.firstData, v.total} \subseteq Nat
    /\ 0 < v.firstFat /\ v.firstFat < v.firstData /\ v.firstData <= v.total /\ v.total <= v.size
    /\ v.offset + v.size < d.numBlocks
    /\ ChainEnds(d, v, 2)
    /\ Data(d, v, 2).dir[0].name = "live"
    /\ \A n \in 1 .. Slots(d, v) : Listed(d, v, n) =>
          (Slot(d, v, n).size > 0 =>
              /\ ChainEnds(d, v, Slot(d, v, n).cluster)
              /\ Len(Chain(d, v, Slot(d, v, n).cluster)) * BlockSize >= Slot(d, v, n).size)

(* m blocks of the file of an entry have been sent. *)
Within(d, v, e, m) ==
    /\ m \in 0 .. BlocksOf(e.size)
    /\ m < BlocksOf(e.size) => /\ file.size = e.size - m * BlockSize
                               /\ file.cluster = Chain(d, v, e.cluster)[m + 1]
    /\ m = BlocksOf(e.size) => file.size = 0

(* The iterator is at the n-th entry of the directory: what start_8bit has  *)
(* sent are the text files before it, and what it has of this one.          *)
AtSlot(d, v, n) ==
    /\ stage \in {"first", "entry"} => /\ Goes(d, v, n) /\ Slot(d, v, n).name = "live"
                                       /\ out = Dumps(d, v, n - 1)
    /\ stage = "file" =>
          /\ Listed(d, v, n)
          /\ \E m \in 0 .. BlocksOf(Slot(d, v, n).size) :
                /\ Within(d, v, Slot(d, v, n), m)
                /\ out = Dumps(d, v, n - 1) \o SubSeq(Dump(d, v, Slot(d, v, n)), 1, m + 1)
    /\ stage \in {"next", "link"} => Goes(d, v, n) /\ out = Dumps(d, v, n)
    /\ stage = "link" => dir.index = EntriesPerSector - 1
    /\ stage = "load" => dir.index = 0 /\ Goes(d, v, n - 1) /\ out = Dumps(d, v, n - 1)

InListing(d, v) ==
    \E k \in DOMAIN Chain(d, v, 2) :
        /\ dir.cluster = Chain(d, v, 2)[k]
        /\ dir.index \in 0 .. (EntriesPerSector - 1)
        /\ AtSlot(d, v, (k - 1) * EntriesPerSector + dir.index + 1)

Mounting == {"table", "mount", "mounted"}

Iterating == {"first", "entry", "file", "next", "link", "load"}

(* No line before the one at hand could have been mounted. *)
Mounted(d) ==
    /\ stage = "table" => fs = NoFs /\ line = 1
    /\ stage # "table" /\ fs # TheVolume(d) =>
          fs = NoFs /\ \A j \in 1 .. (line - 1) : ~MayMount(d, d.blocks[0].lines[j])
    /\ out = <<>>

(* What the card is good for, the stage the listing is at and what has been *)
(* sent go together.                                                        *)
Listing(d) ==
    /\ stage \in Mounting \cup Iterating \cup {"done", "failed"}
    /\ stage \in Mounting => Mounted(d)
    /\ stage \in Iterating => fs = TheVolume(d) /\ InListing(d, fs)
    /\ stage = "done" => out = Wanted(d)
    /\ stage = "failed" => IsPrefix(out, Wanted(d))

FilesInv ==
    /\ card \in CardNumbers
    /\ wanted = Expected(Disk)
    /\ line \in Lines
    /\ Sound(Disk) => Listing(Disk)

-----------------------------------------------------------------------------
(* Places in a directory and in a file.                                     *)

LEMMA Times ==
    ASSUME NEW a \in Nat, NEW b \in Nat, NEW z \in Nat, a <= b
    PROVE  a * z <= b * z /\ a * z \in Nat /\ (a + 1) * z = a * z + z
<1>1. (b - a) \in Nat
  OBVIOUS
<1>2. (b - a) * z \in Nat
  BY <1>1
<1>3. b * z = a * z + (b - a) * z
  OBVIOUS
<1>4. a * z \in Nat /\ (a + 1) * z = a * z + z
  OBVIOUS
<1> QED
  BY <1>2, <1>3, <1>4

(* A quotient and a remainder, put together and taken apart.                *)
LEMMA Apart ==
    ASSUME NEW q \in Nat, NEW z \in Nat \ {0}, NEW r \in 0 .. (z - 1)
    PROVE  (q * z + r) \div z = q /\ (q * z + r) % z = r
<1> DEFINE n == q * z + r
           p == n \div z
           s == n % z
<1>1. q * z \in Nat /\ n \in Nat
  OBVIOUS
<1>2. p \in Nat /\ s \in 0 .. (z - 1) /\ n = p * z + s
  <2> HIDE DEF n
  <2> QED
    BY <1>1
<1> HIDE DEF p, s
<1>3. q * z + r = p * z + s
  BY <1>2
<1>4. ~(q + 1 <= p)
  <2> SUFFICES ASSUME q + 1 <= p PROVE FALSE
    OBVIOUS
  <2>1. (q + 1) * z <= p * z /\ (q + 1) * z = q * z + z
    BY <1>2, Times
  <2>2. p * z \in Nat
    BY <1>2
  <2> QED
    BY <1>1, <1>2, <1>3, <2>1, <2>2
<1>5. ~(p + 1 <= q)
  <2> SUFFICES ASSUME p + 1 <= q PROVE FALSE
    OBVIOUS
  <2>1. (p + 1) * z <= q * z /\ (p + 1) * z = p * z + z
    BY <1>2, Times
  <2>2. p * z \in Nat
    BY <1>2
  <2> QED
    BY <1>1, <1>2, <1>3, <2>1, <2>2
<1>6. p = q
  BY <1>2, <1>4, <1>5
<1>7. s = r
  BY <1>1, <1>2, <1>3, <1>6
<1> QED
  BY <1>6, <1>7 DEF p, s

(* A remainder is less than what it is by, and the quotient small.          *)
LEMMA Shares ==
    ASSUME NEW n \in Nat, NEW z \in Nat \ {0}, NEW m \in Nat, n < m * z
    PROVE  n \div z \in 0 .. (m - 1) /\ n % z \in 0 .. (z - 1)
<1> DEFINE p == n \div z
           s == n % z
<1>1. p \in Nat /\ s \in 0 .. (z - 1) /\ n = p * z + s
  OBVIOUS
<1> HIDE DEF p, s
<1>2. ~(m <= p)
  <2> SUFFICES ASSUME m <= p PROVE FALSE
    OBVIOUS
  <2>1. m * z <= p * z /\ p * z \in Nat /\ m * z \in Nat
    BY <1>1, Times
  <2> QED
    BY <1>1, <2>1
<1> QED
  BY <1>1, <1>2 DEF p, s

(* The blocks of a file of n bytes are those that begin before its end.     *)
LEMMA BlocksOfIs ==
    ASSUME NEW n \in Nat
    PROVE  BlocksOf(n) \in Nat /\ \A m \in Nat : m < BlocksOf(n) <=> m * BlockSize < n
<1> DEFINE z == BlockSize
           a == n + z - 1
           q == a \div z
           r == a % z
<1>1. z \in Nat \ {0} /\ a \in Nat
  BY FilesAssumption
<1>2. BlocksOf(n) = q
  BY DEF BlocksOf
<1> HIDE DEF z
<1>3. q \in Nat /\ r \in 0 .. (z - 1) /\ a = q * z + r
  <2> HIDE DEF a
  <2> QED
    BY <1>1
<1> HIDE DEF q, r
<1>4. ASSUME NEW m \in Nat, m < q PROVE m * z < n
  <2>1. m + 1 \in Nat /\ m + 1 <= q
    BY <1>3, <1>4
  <2>2. (m + 1) * z <= q * z /\ (m + 1) * z = m * z + z /\ m * z \in Nat /\ q * z \in Nat
    BY <1>1, <1>3, <2>1, Times
  <2> QED
    BY <1>1, <1>3, <2>2
<1>5. ASSUME NEW m \in Nat, ~(m < q) PROVE ~(m * z < n)
  <2>1. q * z <= m * z /\ m * z \in Nat /\ q * z \in Nat
    BY <1>1, <1>3, <1>5, Times
  <2> QED
    BY <1>1, <1>3, <2>1
<1> QED
  BY <1>2, <1>3, <1>4, <1>5 DEF z

-----------------------------------------------------------------------------
(* What is read of a card.                                                  *)

(* The blocks of the clusters are on the card, and what is in them has the  *)
(* widths it should have.                                                   *)
LEMMA ClusterIs ==
    ASSUME NEW d, NEW v, Usable(d, v), NEW c \in Clusters(v)
    PROVE  /\ c \in Nat /\ c >= 2 /\ v.firstData + c - 2 \in Nat /\ v.firstData + c - 2 < v.total
           /\ v.firstData + c - 2 < v.size /\ c < v.total
           /\ BlockAssumption(Data(d, v, c))
           /\ c < ClustersPerFatSector => FatEntry(d, v, c) \in Numbers
<1>1. /\ v.firstData \in Nat /\ v.total \in Nat /\ v.offset \in Nat /\ v.size \in Nat /\ v.firstFat \in Nat
      /\ v.firstData > 1 /\ v.firstData <= v.total /\ v.total <= v.size /\ v.firstFat < v.firstData
      /\ d.numBlocks \in Nat /\ v.offset + v.size < d.numBlocks
      /\ \A k \in 0 .. (d.numBlocks - 1) : BlockAssumption(d.blocks[k])
  BY DEF Usable
<1>2. c \in Nat /\ c >= 2 /\ c <= v.total - v.firstData + 1
  BY <1>1 DEF Clusters
<1>3. /\ v.firstData + c - 2 \in Nat /\ v.firstData + c - 2 < v.total
      /\ v.firstData + c - 2 < v.size /\ c < v.total
  BY <1>1, <1>2
<1>4. BlockAssumption(Data(d, v, c))
  <2>1. v.offset + v.firstData + c - 2 \in 0 .. (d.numBlocks - 1)
    BY <1>1, <1>2, <1>3
  <2> QED
    BY <1>1, <2>1 DEF Data
<1>5. ASSUME c < ClustersPerFatSector PROVE FatEntry(d, v, c) \in Numbers
  <2>1. c \div ClustersPerFatSector = 0 /\ c % ClustersPerFatSector = c
    <3>1. ClustersPerFatSector \in Nat \ {0}
      BY FilesAssumption
    <3>2. c \in 0 .. (ClustersPerFatSector - 1)
      BY <1>2, <1>5, <3>1
    <3>3. 0 * ClustersPerFatSector + c = c
      BY <1>2, <3>1
    <3> QED
      BY <3>1, <3>2, <3>3, Apart
  <2>2. v.offset + v.firstFat + 0 \in 0 .. (d.numBlocks - 1)
    BY <1>1
  <2>3. c \in 0 .. (ClustersPerFatSector - 1)
    BY <1>2, <1>5, FilesAssumption
  <2> QED
    BY <1>1, <2>1, <2>2, <2>3 DEF FatEntry, BlockAssumption
<1> QED
  BY <1>2, <1>3, <1>4, <1>5

(* The code reads the cluster and the entry of the FAT that the format      *)
(* means, and no assertion is in the way (fat.cpp:180, 186).                *)
LEMMA Reads ==
    ASSUME Usable(Disk, fs), NEW c \in Clusters(fs), c < ClustersPerFatSector
    PROVE  /\ Readable(fs, ClusterBlock(c)) /\ Block(fs, ClusterBlock(c)) = Data(Disk, fs, c)
           /\ Readable(fs, FatBlock(c)) /\ NextCluster(c) = FatEntry(Disk, fs, c)
           /\ IsValid(c) /\ c < fs.total
<1>1. /\ fs.firstData \in Nat /\ fs.total \in Nat /\ fs.offset \in Nat /\ fs.size \in Nat
      /\ fs.firstFat \in Nat
      /\ fs.firstData <= fs.total /\ fs.total <= fs.size /\ fs.firstFat < fs.firstData
      /\ Disk.numBlocks \in Nat /\ fs.offset + fs.size < Disk.numBlocks /\ Disk.numBlocks < Word
  BY DEF Usable
<1>2. /\ c \in Nat /\ c >= 2 /\ fs.firstData + c - 2 \in Nat
      /\ fs.firstData + c - 2 < fs.size /\ c < fs.total
  BY ClusterIs
<1>3. ClustersPerFatSector \in Nat \ {0} /\ Eoc \in Nat /\ ClustersPerFatSector < Eoc /\ Word \in Nat
  BY FilesAssumption
<1> HIDE DEF Disk
<1>4. \A n \in Nat : n < Word => n % Word = n
  BY <1>3
<1>5. ClusterBlock(c) = fs.firstData + c - 2
  <2>1. c - 2 + fs.firstData \in Nat /\ c - 2 + fs.firstData < Word /\ c - 2 + fs.firstData = fs.firstData + c - 2
    BY <1>1, <1>2, <1>3
  <2> QED
    BY <1>4, <2>1 DEF ClusterBlock
<1>6. \A n \in Nat : n < fs.size => Readable(fs, n) /\ Block(fs, n) = Disk.blocks[fs.offset + n]
  <2> SUFFICES ASSUME NEW n \in Nat, n < fs.size
               PROVE  Readable(fs, n) /\ Block(fs, n) = Disk.blocks[fs.offset + n]
    OBVIOUS
  <2>1. n + fs.offset \in Nat /\ n + fs.offset < Word /\ n + fs.offset = fs.offset + n /\ n + fs.offset < Disk.numBlocks
    BY <1>1, <1>3
  <2>2. (n + fs.offset) % Word = fs.offset + n
    BY <1>4, <2>1
  <2> QED
    BY <2>1, <2>2 DEF Readable, Block
<1>7. Readable(fs, ClusterBlock(c)) /\ Block(fs, ClusterBlock(c)) = Data(Disk, fs, c)
  <2>1. fs.offset + (fs.firstData + c - 2) = fs.offset + fs.firstData + c - 2
    BY <1>1, <1>2
  <2> QED
    BY <1>2, <1>5, <1>6, <2>1 DEF Data
<1>8. c \div ClustersPerFatSector = 0 /\ c % ClustersPerFatSector = c
  <2>1. c \in 0 .. (ClustersPerFatSector - 1) /\ 0 * ClustersPerFatSector + c = c
    BY <1>2, <1>3
  <2> QED
    BY <1>3, <2>1, Apart
<1>9. FatBlock(c) = fs.firstFat
  BY <1>1, <1>8 DEF FatBlock
<1>10. Readable(fs, FatBlock(c)) /\ Block(fs, FatBlock(c)) = Disk.blocks[fs.offset + fs.firstFat]
  <2>1. fs.firstFat < fs.size
    BY <1>1
  <2> QED
    BY <1>1, <1>6, <1>9, <2>1
<1>11. NextCluster(c) = FatEntry(Disk, fs, c)
  <2>1. fs.offset + fs.firstFat + 0 = fs.offset + fs.firstFat
    BY <1>1
  <2> QED
    BY <1>8, <1>10, <2>1 DEF NextCluster, FatEntry
<1>12. IsValid(c)
  BY <1>2, <1>3 DEF IsValid
<1> QED
  BY <1>2, <1>7, <1>10, <1>11, <1>12

-----------------------------------------------------------------------------
(* The entries of the directory.                                            *)

(* The place of an entry is its sector's and its place in the sector.       *)
LEMMA SlotAt ==
    ASSUME NEW d, NEW v, Usable(d, v),
           NEW k \in 1 .. Len(Chain(d, v, 2)), NEW i \in 0 .. (EntriesPerSector - 1)
    PROVE  /\ (k - 1) * EntriesPerSector + i + 1 \in 1 .. Slots(d, v)
           /\ Slot(d, v, (k - 1) * EntriesPerSector + i + 1)
                  = Data(d, v, Chain(d, v, 2)[k]).dir[i]
           /\ (k - 1) * EntriesPerSector + i + 1 = Slots(d, v)
                  <=> k = Len(Chain(d, v, 2)) /\ i = EntriesPerSector - 1
<1> DEFINE z == EntriesPerSector
           l == Len(Chain(d, v, 2))
           n == (k - 1) * z + i + 1
<1>1. z \in Nat \ {0}
  BY FilesAssumption
<1>2. l \in Nat \ {0}
  BY EndedChain DEF Usable
<1> HIDE DEF l
<1>3. k \in 1 .. l
  BY DEF l
<1>4. Slots(d, v) = l * z
  BY DEF Slots, l
<1> HIDE DEF z
<1>5. k - 1 \in Nat /\ i \in 0 .. (z - 1)
  BY <1>2, <1>3 DEF z
<1>6. (k - 1) * z \in Nat /\ ((k - 1) + 1) * z = (k - 1) * z + z
  BY <1>1, <1>5, Times
<1>7. k * z = (k - 1) * z + z
  <2>1. (k - 1) + 1 = k
    BY <1>3
  <2> QED
    BY <1>6, <2>1
<1>8. k * z <= l * z /\ l * z \in Nat
  BY <1>1, <1>2, <1>3, Times
<1>9. n \in 1 .. (l * z)
  BY <1>1, <1>5, <1>6, <1>7, <1>8
<1>10. n = l * z <=> k = l /\ i = z - 1
  <2>1. CASE k = l
    BY <1>1, <1>5, <1>6, <1>7, <2>1
  <2>2. CASE k # l
    <3>1. k + 1 <= l /\ k + 1 \in Nat
      BY <1>2, <1>3, <2>2
    <3>2. (k + 1) * z <= l * z /\ (k + 1) * z = k * z + z
      BY <1>1, <1>2, <1>3, <3>1, Times
    <3>3. n < l * z
      BY <1>1, <1>5, <1>6, <1>7, <1>8, <3>2
    <3> QED
      BY <1>8, <1>9, <2>2, <3>3
  <2> QED
    BY <2>1, <2>2
<1>11. n - 1 = (k - 1) * z + i
  BY <1>5, <1>6
<1>12. (n - 1) \div z = k - 1 /\ (n - 1) % z = i
  <2>1. ((k - 1) * z + i) \div z = k - 1 /\ ((k - 1) * z + i) % z = i
    BY <1>1, <1>5, Apart, Zenon
  <2> HIDE DEF n
  <2> QED
    BY <1>11, <2>1, Zenon
<1>13. 1 + (k - 1) = k
  BY <1>3
<1> HIDE DEF n
<1>14. Slot(d, v, n) = Data(d, v, Chain(d, v, 2)[k]).dir[i]
  BY <1>12, <1>13 DEF Slot, z
<1> QED
  BY <1>4, <1>9, <1>10, <1>14 DEF n, z, l

(* What is in an entry has the widths it should have. *)
LEMMA SlotIs ==
    ASSUME NEW d, NEW v, Usable(d, v), NEW n \in 1 .. Slots(d, v)
    PROVE  /\ Slots(d, v) \in Nat
           /\ Slot(d, v, n).name \in {"live", "free", "end"}
           /\ Slot(d, v, n).cluster \in Numbers /\ Slot(d, v, n).size \in Numbers
<1> DEFINE z == EntriesPerSector
           s == Chain(d, v, 2)
<1>1. z \in Nat \ {0}
  BY FilesAssumption
<1>2. Len(s) \in Nat \ {0} /\ \A k \in 1 .. Len(s) : s[k] \in Clusters(v)
  BY EndedChain DEF Usable
<1>3. Slots(d, v) = Len(s) * z /\ Len(s) * z \in Nat
  BY <1>1, <1>2, Times DEF Slots
<1>4. Slot(d, v, n) = Data(d, v, s[1 + (n - 1) \div z]).dir[(n - 1) % z]
  BY DEF Slot
<1> HIDE DEF z, s
<1>5. n - 1 \in Nat /\ n - 1 < Len(s) * z
  BY <1>3
<1>6. (n - 1) \div z \in 0 .. (Len(s) - 1) /\ (n - 1) % z \in 0 .. (z - 1)
  BY <1>1, <1>2, <1>5, Shares
<1>7. 1 + (n - 1) \div z \in 1 .. Len(s)
  BY <1>2, <1>6
<1>8. PICK c \in Clusters(v), i \in 0 .. (z - 1) : Slot(d, v, n) = Data(d, v, c).dir[i]
  BY <1>2, <1>4, <1>6, <1>7
<1>9. BlockAssumption(Data(d, v, c))
  BY ClusterIs
<1> QED
  BY <1>3, <1>8, <1>9 DEF BlockAssumption, z

(* The file of a listed entry: as long as there is something of it, its     *)
(* chain has a cluster for it and, if there is more, links to the next.     *)
LEMMA FileChain ==
    ASSUME NEW d, NEW v, Usable(d, v), NEW n \in Nat, Listed(d, v, n),
           NEW m \in Nat, m < BlocksOf(Slot(d, v, n).size)
    PROVE  LET s == Chain(d, v, Slot(d, v, n).cluster) IN
           /\ s[1] = Slot(d, v, n).cluster
           /\ s[m + 1] \in Clusters(v) /\ s[m + 1] < ClustersPerFatSector
           /\ m + 1 < BlocksOf(Slot(d, v, n).size) => FatEntry(d, v, s[m + 1]) = s[m + 2]
<1> DEFINE e == Slot(d, v, n)
           s == Chain(d, v, e.cluster)
           z == BlockSize
           b == BlocksOf(e.size)
<1>1. n \in 1 .. Slots(d, v)
  BY DEF Listed
<1>2. e.size \in Nat
  <2>1. e.size \in Numbers
    BY <1>1, SlotIs
  <2> QED
    BY <2>1, FilesAssumption DEF Numbers
<1>3. z \in Nat \ {0}
  BY FilesAssumption
<1>4. b \in Nat /\ \A j \in Nat : j < b <=> j * z < e.size
  BY <1>2, BlocksOfIs
<1>5. m * z < e.size /\ m * z \in Nat
  BY <1>3, <1>4, Times
<1>6. e.size > 0
  BY <1>2, <1>5
<1>7. ChainEnds(d, v, e.cluster) /\ Len(s) * z >= e.size
  BY <1>1, <1>6 DEF Usable
<1>8. v.total \in Nat
  BY DEF Usable
<1>9. /\ Len(s) \in Nat \ {0} /\ s[1] = e.cluster
      /\ \A k \in 1 .. Len(s) : s[k] \in Clusters(v) /\ s[k] < ClustersPerFatSector
      /\ \A k \in 1 .. (Len(s) - 1) : FatEntry(d, v, s[k]) = s[k + 1]
  <2>1. PICK h : h = e.cluster
    OBVIOUS
  <2>2. ChainEnds(d, v, h) /\ s = Chain(d, v, h)
    BY <1>7, <2>1
  <2> HIDE DEF s
  <2>3. LET t == Chain(d, v, h) IN
        /\ Len(t) \in Nat \ {0} /\ DOMAIN t = 1 .. Len(t) /\ t[1] = h
        /\ \A k \in 1 .. Len(t) : t[k] \in Clusters(v) /\ t[k] < ClustersPerFatSector
        /\ \A k \in 1 .. (Len(t) - 1) : FatEntry(d, v, t[k]) = t[k + 1]
        /\ FatEntry(d, v, t[Len(t)]) >= Eoc
    BY <1>8, <2>2, EndedChain, Zenon
  <2> QED
    BY <2>1, <2>2, <2>3
<1> HIDE DEF s, z, b, e
<1>10. ASSUME NEW j \in Nat, j * z < e.size PROVE j < Len(s)
  <2> SUFFICES ASSUME Len(s) <= j PROVE FALSE
    BY <1>9
  <2>1. Len(s) * z <= j * z /\ j * z \in Nat /\ Len(s) * z \in Nat
    <3>1. Len(s) \in Nat /\ j \in Nat /\ z \in Nat /\ Len(s) <= j
      BY <1>3, <1>9, <1>10
    <3> QED
      BY <3>1, Times
  <2> QED
    BY <1>2, <1>7, <1>10, <2>1
<1>11. m + 1 \in 1 .. Len(s)
  BY <1>5, <1>9, <1>10
<1>12. ASSUME m + 1 < b PROVE FatEntry(d, v, s[m + 1]) = s[m + 2]
  <2>1. m + 1 \in Nat /\ (m + 1) * z < e.size
    BY <1>4, <1>12
  <2>2. m + 1 < Len(s)
    BY <1>10, <2>1
  <2>3. m + 1 \in 1 .. (Len(s) - 1) /\ (m + 1) + 1 = m + 2
    BY <1>9, <2>2
  <2>4. FatEntry(d, v, s[m + 1]) = s[(m + 1) + 1]
    BY <1>9, <2>3
  <2> QED
    BY <2>3, <2>4
<1> QED
  BY <1>9, <1>11, <1>12 DEF s, e, b

-----------------------------------------------------------------------------
(* What is sent.                                                            *)

Pieces(d, v) ==
    [what : {"title", "text"}, n : Numbers \cup {Data(d, v, c).id : c \in Clusters(v)}, len : Nat]

(* The title of a file and its blocks, the last only as far as it goes.     *)
LEMMA DumpIs ==
    ASSUME NEW d, NEW v, Usable(d, v), NEW n \in Nat, Listed(d, v, n)
    PROVE  LET e == Slot(d, v, n)
               t == Dump(d, v, e)
           IN  /\ t \in Seq(Pieces(d, v)) /\ Len(t) = BlocksOf(e.size) + 1
               /\ t[1] = Sent("title", e.cluster, e.size)
               /\ \A k \in 1 .. BlocksOf(e.size) :
                     t[k + 1] = Sent("text", Data(d, v, Chain(d, v, e.cluster)[k]).id,
                                     IF e.size < k * BlockSize THEN e.size - (k - 1) * BlockSize
                                     ELSE BlockSize)
<1> DEFINE e == Slot(d, v, n)
           b == BlocksOf(e.size)
           s == Chain(d, v, e.cluster)
           P == Pieces(d, v)
           z == BlockSize
           piece(k) == Sent("text", Data(d, v, s[k]).id,
                            IF e.size < k * z THEN e.size - (k - 1) * z ELSE z)
           u == [k \in 1 .. b |-> piece(k)]
           w == <<Sent("title", e.cluster, e.size)>>
<1>1. n \in 1 .. Slots(d, v)
  BY DEF Listed
<1>2. e.cluster \in Numbers /\ e.size \in Numbers
  BY <1>1, SlotIs
<1>3. e.size \in Nat
  BY <1>2, FilesAssumption DEF Numbers
<1>4. b \in Nat /\ \A j \in Nat : j < b <=> j * z < e.size
  BY <1>3, BlocksOfIs
<1>5. z \in Nat
  BY FilesAssumption
<1>6. w \in Seq(P) /\ Len(w) = 1 /\ w[1] = Sent("title", e.cluster, e.size)
  <2>1. Sent("title", e.cluster, e.size) \in P
    BY <1>2, <1>3 DEF Sent, Pieces
  <2> QED
    BY <2>1
<1>7. ASSUME NEW k \in 1 .. b PROVE piece(k) \in P
  <2>1. k - 1 \in Nat /\ k - 1 < b /\ (k - 1) + 1 = k
    BY <1>4
  <2>2. s[k] \in Clusters(v)
    <3>1. s[(k - 1) + 1] \in Clusters(v)
      BY <2>1, FileChain
    <3> QED
      BY <2>1, <3>1
  <2>3. (k - 1) * z < e.size /\ (k - 1) * z \in Nat /\ k * z \in Nat
    BY <1>4, <1>5, <2>1, Times
  <2>4. (IF e.size < k * z THEN e.size - (k - 1) * z ELSE z) \in Nat
    <3>1. e.size - (k - 1) * z \in Nat
      BY <1>3, <2>3
    <3> QED
      BY <1>5, <3>1
  <2> QED
    BY <2>2, <2>4 DEF Sent, Pieces
<1>8. u \in Seq(P) /\ Len(u) = b /\ \A k \in 1 .. b : u[k] = piece(k)
  <2> HIDE DEF piece, P, b
  <2>1. u \in [1 .. b -> P]
    BY <1>7
  <2> QED
    BY <1>4, <2>1
<1>9. Dump(d, v, e) = w \o u
  BY DEF Dump
<1> HIDE DEF w, u, piece, P, b
<1>10. /\ w \o u \in Seq(P) /\ Len(w \o u) = Len(w) + Len(u)
       /\ \A i \in 1 .. Len(w) + Len(u) : (w \o u)[i] = IF i <= Len(w) THEN w[i] ELSE u[i - Len(w)]
  BY <1>6, <1>8, ConcatProperties, Zenon
<1> DEFINE t == w \o u
<1> HIDE DEF t
<1>11. t \in Seq(P) /\ Len(t) = b + 1 /\ \A i \in 1 .. b + 1 : t[i] = IF i <= 1 THEN w[i] ELSE u[i - 1]
  BY <1>4, <1>6, <1>8, <1>10 DEF t
<1>12. t[1] = Sent("title", e.cluster, e.size)
  BY <1>4, <1>6, <1>11
<1>13. ASSUME NEW k \in 1 .. b PROVE t[k + 1] = piece(k)
  <2>1. k + 1 \in 1 .. b + 1 /\ ~(k + 1 <= 1) /\ (k + 1) - 1 = k
    BY <1>4
  <2> QED
    BY <1>8, <1>11, <2>1
<1>14. Dump(d, v, e) = t
  BY <1>9 DEF t
<1> HIDE DEF e
<1> QED
  BY <1>11, <1>12, <1>13, <1>14 DEF piece, b, P, e, z, s

(* What an entry adds. *)
LEMMA TextOfIs ==
    ASSUME NEW d, NEW v, Usable(d, v), NEW n \in Nat
    PROVE  TextOf(d, v, n) \in Seq(Pieces(d, v))
<1>1. CASE Listed(d, v, n)
  BY <1>1, DumpIs DEF TextOf
<1>2. CASE ~Listed(d, v, n)
  BY <1>2 DEF TextOf
<1> QED
  BY <1>1, <1>2

(* What is sent of the first entries, from one entry to the next.           *)
LEMMA DumpsIs ==
    ASSUME NEW d, NEW v, Usable(d, v)
    PROVE  /\ Dumps(d, v, 0) = <<>>
           /\ \A n \in Nat : /\ Dumps(d, v, n) \in Seq(Pieces(d, v))
                             /\ Dumps(d, v, n + 1) = Dumps(d, v, n) \o TextOf(d, v, n + 1)
<1> DEFINE D == Seq(Pieces(d, v))
           T == [p \in Nat \X D |-> p[2] \o TextOf(d, v, p[1] + 1)]
           W == CHOOSE g : g = [i \in Nat |-> IF i = 0 THEN <<>> ELSE g[i - 1] \o TextOf(d, v, i)]
<1>1. \A n : Dumps(d, v, n) = W[n]
  BY Zenon DEF Dumps
<1>2. ASSUME NEW k \in Nat, NEW s \in D
      PROVE  T[<<k, s>>] = s \o TextOf(d, v, k + 1) /\ s \o TextOf(d, v, k + 1) \in D
  <2>1. T[<<k, s>>] = s \o TextOf(d, v, k + 1)
    OBVIOUS
  <2>2. TextOf(d, v, k + 1) \in Seq(Pieces(d, v))
    BY TextOfIs
  <2>3. s \o TextOf(d, v, k + 1) \in Seq(Pieces(d, v))
    BY <2>2, ConcatProperties, Zenon
  <2> QED
    BY <2>1, <2>3
<1>3. <<>> \in D
  OBVIOUS
<1> HIDE DEF D, T
<1>4. Steps(D, <<>>, T)
  BY <1>2, <1>3, Zenon DEF Steps
<1>5. PICK f \in [Nat -> D] : \A n \in Nat : f[n] = IF n = 0 THEN <<>> ELSE T[<<n - 1, f[n - 1]>>]
  <2>1. PICK e : e = <<>>
    OBVIOUS
  <2>2. Steps(D, e, T)
    BY <1>4, <2>1
  <2>3. \E f \in [Nat -> D] : \A n \in Nat : f[n] = IF n = 0 THEN e ELSE T[<<n - 1, f[n - 1]>>]
    BY <2>2, Recurs
  <2> QED
    BY <2>1, <2>3, Zenon
<1>6. ASSUME NEW n \in Nat PROVE f[n] = IF n = 0 THEN <<>> ELSE f[n - 1] \o TextOf(d, v, n)
  <2>1. CASE n = 0
    BY <1>5, <2>1
  <2>2. CASE n # 0
    <3>1. n - 1 \in Nat /\ (n - 1) + 1 = n
      BY <2>2
    <3>2. f[n] = T[<<n - 1, f[n - 1]>>] /\ f[n - 1] \in D
      BY <1>5, <2>2, <3>1
    <3>3. T[<<n - 1, f[n - 1]>>] = f[n - 1] \o TextOf(d, v, (n - 1) + 1)
      BY <1>2, <3>1, <3>2, Zenon
    <3> QED
      BY <2>2, <3>1, <3>2, <3>3, Zenon
  <2> QED
    BY <2>1, <2>2, Zenon
<1>7. f = [n \in Nat |-> IF n = 0 THEN <<>> ELSE f[n - 1] \o TextOf(d, v, n)]
  BY <1>6, Zenon
<1>8. W = [n \in Nat |-> IF n = 0 THEN <<>> ELSE W[n - 1] \o TextOf(d, v, n)]
  BY <1>7, Zenon
<1> HIDE DEF W
<1>9. \A n \in Nat : W[n] = IF n = 0 THEN <<>> ELSE W[n - 1] \o TextOf(d, v, n)
  BY <1>8, Zenon
<1>10. W[0] = <<>>
  BY <1>9, Zenon
<1>11. ASSUME NEW n \in Nat PROVE W[n + 1] = W[n] \o TextOf(d, v, n + 1)
  <2>1. n + 1 \in Nat /\ n + 1 # 0 /\ (n + 1) - 1 = n
    OBVIOUS
  <2> QED
    BY <1>9, <2>1, Zenon
<1> DEFINE V == {n \in Nat : W[n] \in D}
<1>12. 0 \in V
  BY <1>3, <1>10
<1>13. ASSUME NEW n \in Nat, n \in V PROVE n + 1 \in V
  <2>1. W[n] \in D
    BY <1>13
  <2>2. W[n] \o TextOf(d, v, n + 1) \in D
    BY <1>2, <2>1, Zenon
  <2>3. W[n + 1] \in D
    BY <1>11, <2>2, Zenon
  <2> QED
    BY <2>3
<1>14. Nat \subseteq V
  BY <1>12, <1>13, NatsIn
<1>15. \A n \in Nat : W[n] \in Seq(Pieces(d, v))
  BY <1>14 DEF D
<1> QED
  BY <1>1, <1>10, <1>11, <1>15, Zenon

(* A sequence is the beginning of what another is added to it.              *)
LEMMA PrefixOf ==
    ASSUME NEW S, NEW s \in Seq(S), NEW r \in Seq(S)
    PROVE  IsPrefix(s, s \o r)
<1>1. s \o r \in Seq(S) /\ Len(s \o r) = Len(s) + Len(r) /\ Len(s) \in Nat /\ Len(r) \in Nat
  BY ConcatProperties, LenProperties
<1>2. SubSeq(s, 1, Len(s)) = s
  BY SubSeqFull
<1>3. SubSeq(s \o r, 1, Len(s)) = SubSeq(s, 1, Len(s))
  <2>1. CASE Len(s) = 0
    BY <1>1, <2>1, SubSeqEmpty
  <2>2. CASE Len(s) # 0
    <3>1. 1 \in 1 .. Len(s) /\ Len(s) \in 1 .. Len(s)
      BY <1>1, <2>2
    <3> QED
      BY <3>1, SubSeqOfConcat1, Zenon
  <2> QED
    BY <2>1, <2>2
<1> DEFINE t == s \o r
<1> HIDE DEF t
<1>4. Len(s) <= Len(t)
  BY <1>1 DEF t
<1> QED
  BY <1>3, <1>4 DEF IsPrefix, t

(* What is sent only grows; entries that are not listed add nothing.        *)
LEMMA DumpsGrow ==
    ASSUME NEW d, NEW v, Usable(d, v), NEW m \in Nat, NEW n \in Nat, m <= n
    PROVE  /\ \E r \in Seq(Pieces(d, v)) : Dumps(d, v, n) = Dumps(d, v, m) \o r
           /\ (\A i \in (m + 1) .. n : ~Listed(d, v, i)) => Dumps(d, v, n) = Dumps(d, v, m)
<1> DEFINE P == Pieces(d, v)
           F(i) == Dumps(d, v, i)
           X(i) == TextOf(d, v, i)
<1>1. \A i \in Nat : F(i) \in Seq(P) /\ F(i + 1) = F(i) \o X(i + 1)
  BY DumpsIs, Zenon
<1>2. \A i \in Nat : X(i) \in Seq(P)
  BY TextOfIs, Zenon
<1>3. \A i \in Nat : ~Listed(d, v, i) => X(i) = <<>>
  BY DEF TextOf
<1> HIDE DEF P, F, X
<1> DEFINE grown(i) == \E r \in Seq(P) : F(m + i) = F(m) \o r
           kept(i) == (\A j \in (m + 1) .. (m + i) : ~Listed(d, v, j)) => F(m + i) = F(m)
<1> DEFINE V == {i \in Nat : grown(i) /\ kept(i)}
<1>4. 0 \in V
  <2>1. m + 0 = m /\ <<>> \in Seq(P)
    OBVIOUS
  <2>2. F(m) \o <<>> = F(m)
    BY <1>1, ConcatEmptySeq, Zenon
  <2> QED
    BY <2>1, <2>2
<1>5. ASSUME NEW i \in Nat, i \in V PROVE i + 1 \in V
  <2> DEFINE a == m + i
  <2>1. a \in Nat /\ a + 1 \in Nat /\ m + (i + 1) = a + 1
    OBVIOUS
  <2>2. PICK r \in Seq(P) : F(a) = F(m) \o r
    BY <1>5
  <2>3. F(a + 1) = F(a) \o X(a + 1) /\ X(a + 1) \in Seq(P) /\ F(m) \in Seq(P) /\ F(a) \in Seq(P)
    BY <1>1, <1>2, <2>1
  <2>4. r \o X(a + 1) \in Seq(P)
    BY <2>3, ConcatProperties, Zenon
  <2>5. (F(m) \o r) \o X(a + 1) = F(m) \o (r \o X(a + 1))
    <3>1. F(m) \in Seq(P) /\ r \in Seq(P) /\ X(a + 1) \in Seq(P)
      BY <2>2, <2>3
    <3> QED
      BY <3>1, ConcatAssociative
  <2>6. grown(i + 1)
    <3>1. F(a + 1) = F(m) \o (r \o X(a + 1))
      BY <2>2, <2>3, <2>5, Zenon
    <3> QED
      BY <2>1, <2>4, <3>1, Zenon
  <2>7. kept(i + 1)
    <3> SUFFICES ASSUME \A j \in (m + 1) .. (m + (i + 1)) : ~Listed(d, v, j)
                 PROVE  F(m + (i + 1)) = F(m)
      OBVIOUS
    <3>1. ~Listed(d, v, a + 1)
      BY <2>1
    <3>2. X(a + 1) = <<>>
      BY <1>3, <2>1, <3>1
    <3>3. F(a) \o <<>> = F(a)
      BY <2>3, ConcatEmptySeq, Zenon
    <3>4. F(a) = F(m)
      BY <1>5
    <3> QED
      BY <2>1, <2>3, <3>2, <3>3, <3>4, Zenon
  <2> QED
    BY <2>6, <2>7
<1>6. Nat \subseteq V
  BY <1>4, <1>5, NatsIn
<1>7. n - m \in Nat /\ m + (n - m) = n
  OBVIOUS
<1>8. grown(n - m) /\ kept(n - m)
  BY <1>6, <1>7
<1>9. (\E r \in Seq(P) : F(n) = F(m) \o r)
      /\ ((\A j \in (m + 1) .. n : ~Listed(d, v, j)) => F(n) = F(m))
  BY <1>7, <1>8, Zenon
<1> QED
  BY <1>9 DEF P, F

-----------------------------------------------------------------------------
(* Cards that a formatter has left.                                         *)

(* The line that is mounted is the first that can be. *)
LEMMA TheLineIs ==
    ASSUME NEW d, \E i \in Lines : MayMount(d, d.blocks[0].lines[i])
    PROVE  \E i \in Lines : /\ TheLine(d) = d.blocks[0].lines[i]
                            /\ MayMount(d, d.blocks[0].lines[i])
                            /\ \A j \in 1 .. (i - 1) : ~MayMount(d, d.blocks[0].lines[j])
<1> DEFINE M(i) == MayMount(d, d.blocks[0].lines[i])
           ok(i) == M(i) /\ \A j \in 1 .. (i - 1) : ~M(j)
           h == CHOOSE i \in Lines : ok(i)
<1>1. TheLine(d) = d.blocks[0].lines[h]
  BY Zenon DEF TheLine
<1>2. \E i \in Lines : M(i)
  OBVIOUS
<1> HIDE DEF M
<1>3. \E i \in Lines : ok(i)
  BY <1>2 DEF Lines
<1> HIDE DEF ok
<1>4. h \in Lines /\ ok(h)
  BY <1>3
<1> HIDE DEF h
<1> QED
  BY <1>1, <1>4 DEF ok, M

(* A line that is not unused is a piece of the card. *)
LEMMA LineIs ==
    ASSUME NEW n \in CardNumbers, Sound(Cards[n]), NEW i \in Lines,
           Cards[n].blocks[0].lines[i].type # "Unused"
    PROVE  LET d == Cards[n]
               l == d.blocks[0].lines[i]
           IN  /\ d.numBlocks \in Nat /\ d.numBlocks < Word /\ Word \in Nat
               /\ l.offset \in Nat \ {0} /\ l.size \in Nat \ {0} /\ l.offset + l.size < d.numBlocks
               /\ {d.blocks[l.offset].boot.rsvdSecCnt, d.blocks[l.offset].boot.numFATs,
                   d.blocks[l.offset].boot.fatSz32, d.blocks[l.offset].boot.totSec32} \subseteq Nat
<1> DEFINE d == Cards[n]
           l == d.blocks[0].lines[i]
<1>1. /\ Word \in Nat /\ d.numBlocks \in Numbers \ {0}
      /\ \A k \in 0 .. (d.numBlocks - 1) : BlockAssumption(d.blocks[k])
  BY FilesAssumption
<1>2. d.numBlocks \in Nat \ {0} /\ d.numBlocks < Word
  BY <1>1 DEF Numbers
<1>3. l.type # "Unused" => l.offset > 0 /\ l.size > 0 /\ l.offset + l.size < d.numBlocks
  BY DEF Sound
<1> HIDE DEF d
<1>4. l.offset \in Numbers /\ l.size \in Numbers
  <2>1. BlockAssumption(d.blocks[0])
    BY <1>1, <1>2
  <2> QED
    BY <2>1 DEF BlockAssumption
<1>5. /\ l.offset \in Nat \ {0} /\ l.size \in Nat \ {0} /\ l.offset + l.size < d.numBlocks
  <2>1. l.type # "Unused"
    BY DEF d
  <2> HIDE DEF l
  <2> QED
    BY <1>3, <1>4, <2>1 DEF Numbers
<1> HIDE DEF l
<1>6. BlockAssumption(d.blocks[l.offset])
  <2>1. l.offset \in 0 .. (d.numBlocks - 1)
    BY <1>2, <1>5
  <2> QED
    BY <1>1, <2>1
<1>7. {d.blocks[l.offset].boot.rsvdSecCnt, d.blocks[l.offset].boot.numFATs,
       d.blocks[l.offset].boot.fatSz32, d.blocks[l.offset].boot.totSec32} \subseteq Nat
  <2>1. Numbers \subseteq Nat
    BY <1>1 DEF Numbers
  <2> QED
    BY <1>6, <2>1 DEF BlockAssumption
<1> QED
  BY <1>1, <1>2, <1>5, <1>7 DEF d, l

(* The volume is one that the listing can go through. *)
LEMMA SoundIs ==
    ASSUME NEW n \in CardNumbers, Sound(Cards[n])
    PROVE  Usable(Cards[n], TheVolume(Cards[n]))
<1> DEFINE d == Cards[n]
           v == TheVolume(d)
           b == d.blocks[TheLine(d).offset].boot
<1>1. SoundVolume(d, v, b) /\ \E i \in Lines : MayMount(d, d.blocks[0].lines[i])
  BY DEF Sound
<1>2. PICK i \in Lines : TheLine(d) = d.blocks[0].lines[i] /\ MayMount(d, d.blocks[0].lines[i])
  BY <1>1, TheLineIs
<1> DEFINE l == d.blocks[0].lines[i]
<1>3. l.type # "Unused"
  BY <1>2 DEF MayMount, Fat32
<1>4. /\ d.numBlocks \in Nat /\ d.numBlocks < Word /\ Word \in Nat
      /\ l.offset \in Nat \ {0} /\ l.size \in Nat \ {0} /\ l.offset + l.size < d.numBlocks
      /\ {d.blocks[l.offset].boot.rsvdSecCnt, d.blocks[l.offset].boot.numFATs,
          d.blocks[l.offset].boot.fatSz32, d.blocks[l.offset].boot.totSec32} \subseteq Nat
  BY <1>3, LineIs
<1>5. \A k \in 0 .. (d.numBlocks - 1) : BlockAssumption(d.blocks[k])
  BY FilesAssumption
<1> HIDE DEF d
<1>6. v = Volume(l, b) /\ b = d.blocks[l.offset].boot
  BY <1>2 DEF TheVolume
<1> HIDE DEF l, v
<1>7. {b.rsvdSecCnt, b.numFATs, b.fatSz32, b.totSec32} \subseteq Nat
  BY <1>4, <1>6
<1> HIDE DEF b
<1>8. /\ v.offset = l.offset /\ v.size = l.size /\ v.firstFat = b.rsvdSecCnt /\ v.total = b.totSec32
      /\ v.firstData = (b.rsvdSecCnt + b.numFATs * b.fatSz32) % Word
  BY <1>6 DEF Volume
<1>9. v.firstData \in Nat
  <2>1. b.rsvdSecCnt + b.numFATs * b.fatSz32 \in Nat
    BY <1>7
  <2>2. \A q \in Nat : q % Word \in Nat
    BY <1>4
  <2> QED
    BY <1>8, <2>1, <2>2
<1>10. {v.offset, v.size, v.firstFat, v.firstData, v.total} \subseteq Nat
  BY <1>4, <1>7, <1>8, <1>9
<1>11. v.offset + v.size < d.numBlocks
  BY <1>4, <1>8
<1>12. Usable(d, v)
  BY <1>1, <1>4, <1>5, <1>10, <1>11, Zenon DEF Usable, SoundVolume
<1> QED
  BY <1>12 DEF d, v

(* FAT::FAT takes it (fat.cpp:108-161). *)
LEMMA SoundTaken ==
    ASSUME NEW n \in CardNumbers, Sound(Cards[n])
    PROVE  LET d == Cards[n]
               v == TheVolume(d)
           IN  /\ Accepted(v, d.blocks[v.offset].boot)
               /\ d.blocks[v.offset + v.firstFat].clean
               /\ v.offset = TheLine(d).offset
<1> DEFINE d == Cards[n]
           v == TheVolume(d)
           b == d.blocks[TheLine(d).offset].boot
           z == ClustersPerFatSector
           a == v.total - v.firstData
<1>1. SoundVolume(d, v, b) /\ Usable(d, v)
  BY SoundIs DEF Sound
<1>2. v.offset = TheLine(d).offset
  BY DEF TheVolume, Volume
<1>3. b.fatSz32 \in Nat
  <2>1. PICK i \in Lines : TheLine(d) = d.blocks[0].lines[i] /\ MayMount(d, d.blocks[0].lines[i])
    BY TheLineIs DEF Sound
  <2>2. d.blocks[0].lines[i].type # "Unused"
    BY <2>1 DEF MayMount, Fat32
  <2>3. {d.blocks[d.blocks[0].lines[i].offset].boot.fatSz32} \subseteq Nat
    BY <2>2, LineIs
  <2> QED
    BY <2>1, <2>3
<1>4. Word \in Nat /\ z \in Nat \ {0}
  BY FilesAssumption
<1> HIDE DEF d, v, b, z
<1>5. /\ v.total \in Nat /\ v.firstData \in Nat /\ v.size \in Nat /\ v.offset \in Nat
      /\ v.firstData <= v.total /\ v.total <= v.size /\ d.numBlocks \in Nat
      /\ v.offset + v.size < d.numBlocks /\ d.numBlocks < Word
  BY <1>1 DEF Usable
<1>6. a \in Nat /\ a < Word
  BY <1>4, <1>5
<1>7. NumClusters(v) = a
  BY <1>4, <1>6 DEF NumClusters
<1>8. Cardinality(Clusters(v)) = a
  <2>1. 2 \in Int /\ v.total - v.firstData + 1 \in Int
    BY <1>5
  <2>2. Cardinality(2 .. (v.total - v.firstData + 1))
            = IF 2 > v.total - v.firstData + 1 THEN 0 ELSE (v.total - v.firstData + 1) - 2 + 1
    BY <2>1, FS_Interval
  <2> QED
    BY <1>5, <2>2 DEF Clusters
<1>9. a >= MinClusters /\ b.fatSz32 * z >= a + 2
  BY <1>1, <1>8 DEF SoundVolume, z
<1> DEFINE w == (a + z - 1) % Word
           f == b.fatSz32
<1>10. w \in Nat /\ w <= a + z - 1
  <2>1. a + z - 1 \in Nat
    BY <1>4, <1>6
  <2>2. \A q \in Nat : q % Word \in Nat /\ q % Word <= q
    <3> SUFFICES ASSUME NEW q \in Nat PROVE q % Word \in Nat /\ q % Word <= q
      OBVIOUS
    <3>1. Word \in Nat \ {0}
      BY <1>4, <1>6
    <3>2. q % Word \in 0 .. (Word - 1)
      BY <3>1
    <3>3. CASE q < Word
      BY <3>1, <3>3
    <3>4. CASE ~(q < Word)
      BY <3>1, <3>2, <3>4
    <3> QED
      BY <3>3, <3>4
  <2> QED
    BY <2>1, <2>2
<1>11. f >= w \div z
  <2>1. f \in Nat /\ f + 1 \in Nat /\ (f + 1) * z = f * z + z /\ f * z \in Nat
    BY <1>3, <1>4, Times
  <2>2. f * z >= a + 2
    BY <1>9
  <2> HIDE DEF w, f, a
  <2>3. w < (f + 1) * z
    BY <1>4, <1>6, <1>10, <2>1, <2>2
  <2>4. w \div z \in 0 .. ((f + 1) - 1)
    BY <1>4, <1>10, <2>1, <2>3, Shares
  <2> QED
    BY <2>1, <2>4
<1>12. v.firstData <= v.size
  BY <1>5
<1>13. Accepted(v, b)
  BY <1>1, <1>7, <1>9, <1>11, <1>12 DEF Accepted, SoundVolume, z
<1>14. d.blocks[v.offset + v.firstFat].clean
  BY <1>1 DEF SoundVolume
<1> QED
  BY <1>2, <1>13, <1>14 DEF d, v, b

-----------------------------------------------------------------------------
(* Steps of the listing.                                                    *)

(* The chain of the directory. *)
LEMMA DirChain ==
    ASSUME NEW d, NEW v, Usable(d, v)
    PROVE  /\ DOMAIN Chain(d, v, 2) = 1 .. Len(Chain(d, v, 2)) /\ Len(Chain(d, v, 2)) \in Nat \ {0}
           /\ Chain(d, v, 2)[1] = 2
           /\ \A k \in 1 .. Len(Chain(d, v, 2)) : /\ Chain(d, v, 2)[k] \in Clusters(v)
                                                 /\ Chain(d, v, 2)[k] < ClustersPerFatSector
           /\ \A k \in 1 .. (Len(Chain(d, v, 2)) - 1) :
                 FatEntry(d, v, Chain(d, v, 2)[k]) = Chain(d, v, 2)[k + 1]
           /\ FatEntry(d, v, Chain(d, v, 2)[Len(Chain(d, v, 2))]) >= Eoc
<1>1. v.total \in Nat /\ ChainEnds(d, v, 2)
  BY DEF Usable
<1>2. LET s == Chain(d, v, 2) IN
      /\ Len(s) \in Nat \ {0} /\ DOMAIN s = 1 .. Len(s) /\ s[1] = 2
      /\ \A k \in 1 .. Len(s) : s[k] \in Clusters(v) /\ s[k] < ClustersPerFatSector
      /\ \A k \in 1 .. (Len(s) - 1) : FatEntry(d, v, s[k]) = s[k + 1]
      /\ FatEntry(d, v, s[Len(s)]) >= Eoc
  BY <1>1, EndedChain, Zenon
<1> QED
  BY <1>2, Zenon

(* The entry the iterator comes to is the one of the format. *)
LEMMA EntryIs ==
    ASSUME Usable(Disk, fs), NEW k \in 1 .. Len(Chain(Disk, fs, 2)), NEW h,
           h.cluster = Chain(Disk, fs, 2)[k], h.index \in 0 .. (EntriesPerSector - 1)
    PROVE  EntryAt(h) = Slot(Disk, fs, (k - 1) * EntriesPerSector + h.index + 1)
<1>1. h.cluster \in Clusters(fs) /\ h.cluster < ClustersPerFatSector
  BY DirChain
<1>2. Block(fs, ClusterBlock(h.cluster)) = Data(Disk, fs, h.cluster)
  BY <1>1, Reads
<1>3. PICK i \in 0 .. (EntriesPerSector - 1) : i = h.index
  OBVIOUS
<1>4. Slot(Disk, fs, (k - 1) * EntriesPerSector + i + 1) = Data(Disk, fs, Chain(Disk, fs, 2)[k]).dir[i]
  BY SlotAt
<1> QED
  BY <1>2, <1>3, <1>4 DEF EntryAt

(* What the listing goes on with at an entry, or how it ends there.         *)
LEMMA Lands ==
    ASSUME NEW d, NEW v, Usable(d, v), d = Disk, v = fs,
           NEW k \in 1 .. Len(Chain(d, v, 2)), NEW h,
           h.cluster = Chain(d, v, 2)[k], h.index \in 0 .. (EntriesPerSector - 1),
           Goes(d, v, (k - 1) * EntriesPerSector + h.index),
           out = Dumps(d, v, (k - 1) * EntriesPerSector + h.index),
           Land(h), out' = out
    PROVE  \/ stage' \in Iterating /\ InListing(d, v)'
           \/ stage' = "done" /\ out' = Dumps(d, v, Slots(d, v))
<1> DEFINE m == (k - 1) * EntriesPerSector + h.index
           e == Slot(d, v, m + 1)
<1>1. m + 1 \in 1 .. Slots(d, v)
  BY SlotAt
<1>2. EntryAt(h) = e
  <2>1. EntryAt(h) = Slot(Disk, fs, (k - 1) * EntriesPerSector + h.index + 1)
    BY EntryIs
  <2> QED
    BY <2>1
<1>3. Slots(d, v) \in Nat /\ e.name \in {"live", "free", "end"}
  BY <1>1, SlotIs
<1>4. m \in Nat
  <2>1. EntriesPerSector \in Nat \ {0} /\ Len(Chain(d, v, 2)) \in Nat
    BY FilesAssumption, DirChain
  <2>2. k - 1 \in Nat /\ h.index \in Nat
    BY <2>1
  <2>3. (k - 1) * EntriesPerSector \in Nat
    BY <2>1, <2>2
  <2> QED
    BY <2>2, <2>3
<1>5. dir' = h /\ stage' = CASE e.name = "end" -> "done" [] e.name = "free" -> "next" [] OTHER -> "entry"
  BY <1>2 DEF Land
<1>6. Goes(d, v, m) /\ out' = Dumps(d, v, m)
  OBVIOUS
<1>7. DOMAIN Chain(d, v, 2) = 1 .. Len(Chain(d, v, 2))
  BY DirChain
<1> HIDE DEF m
<1>8. PICK q \in Nat : q = m + 1
  BY <1>4
<1>9. /\ h.cluster = Chain(d, v, 2)[k] /\ h.index \in 0 .. (EntriesPerSector - 1)
      /\ (k - 1) * EntriesPerSector + h.index + 1 = q
  BY <1>8 DEF m
<1>10. (k - 1) * EntriesPerSector + dir'.index + 1 = q /\ dir'.cluster = Chain(d, v, 2)[k]
       /\ dir'.index \in 0 .. (EntriesPerSector - 1)
  BY <1>5, <1>9
<1>11. AtSlot(d, v, q)' => InListing(d, v)'
  BY <1>7, <1>10 DEF InListing
<1>12. q \in 1 .. Slots(d, v) /\ q - 1 = m
  BY <1>1, <1>4, <1>8
<1>13. CASE e.name = "end"
  <2>1. ASSUME NEW i \in (m + 1) .. Slots(d, v) PROVE ~Listed(d, v, i)
    <3>1. q \in 1 .. i
      BY <1>3, <1>4, <1>8
    <3> QED
      BY <1>8, <1>13, <3>1 DEF Listed, Goes
  <2>2. Dumps(d, v, Slots(d, v)) = Dumps(d, v, m)
    <3>1. m <= Slots(d, v)
      BY <1>3, <1>4, <1>8, <1>12
    <3> QED
      BY <1>3, <1>4, <2>1, <3>1, DumpsGrow
  <2> QED
    BY <1>5, <1>6, <1>13, <2>2
<1>14. CASE e.name # "end"
  <2>1. Goes(d, v, q)
    <3> SUFFICES ASSUME NEW i \in 1 .. q PROVE Slot(d, v, i).name # "end"
      BY DEF Goes
    <3>1. CASE i = q
      BY <1>8, <1>14, <3>1
    <3>2. CASE i # q
      <4>1. i \in 1 .. m
        BY <1>4, <1>8, <3>2
      <4> QED
        BY <1>6, <4>1 DEF Goes
    <3> QED
      BY <3>1, <3>2
  <2>2. CASE e.name = "free"
    <3>1. stage' = "next"
      BY <1>5, <2>2
    <3>2. ~Listed(d, v, q)
      BY <1>8, <2>2 DEF Listed, IsText
    <3>3. Dumps(d, v, q) = Dumps(d, v, m)
      <4>1. \A i \in (m + 1) .. q : ~Listed(d, v, i)
        BY <1>4, <1>8, <3>2
      <4>2. m <= q
        BY <1>4, <1>8
      <4> QED
        BY <1>4, <4>1, <4>2, DumpsGrow
    <3>4. AtSlot(d, v, q)'
      BY <1>6, <2>1, <3>1, <3>3 DEF AtSlot
    <3> QED
      BY <1>11, <3>1, <3>4 DEF Iterating
  <2>3. CASE e.name # "free"
    <3>1. e.name = "live" /\ stage' = "entry"
      BY <1>3, <1>5, <1>14, <2>3
    <3>2. AtSlot(d, v, q)'
      BY <1>6, <1>8, <1>12, <2>1, <3>1 DEF AtSlot
    <3> QED
      BY <1>11, <3>1, <3>2 DEF Iterating
  <2> QED
    BY <2>2, <2>3
<1> QED
  BY <1>13, <1>14

(* Where the listing is, as a number.                                       *)
LEMMA Here ==
    ASSUME NEW d, NEW v, Usable(d, v), d = Disk, v = fs, InListing(d, v)
    PROVE  \E k \in 1 .. Len(Chain(d, v, 2)), i \in 0 .. (EntriesPerSector - 1), n \in 1 .. Slots(d, v) :
              /\ dir.cluster = Chain(d, v, 2)[k] /\ dir.index = i
              /\ n = (k - 1) * EntriesPerSector + i + 1
              /\ AtSlot(d, v, n)
              /\ EntryAt(dir) = Slot(d, v, n)
              /\ dir.cluster \in Clusters(v) /\ dir.cluster < ClustersPerFatSector
              /\ n \in Nat /\ n - 1 \in Nat /\ n <= Slots(d, v) /\ Slots(d, v) \in Nat
<1>1. DOMAIN Chain(d, v, 2) = 1 .. Len(Chain(d, v, 2))
  BY DirChain
<1>2. PICK k \in 1 .. Len(Chain(d, v, 2)) :
        /\ dir.cluster = Chain(d, v, 2)[k]
        /\ dir.index \in 0 .. (EntriesPerSector - 1)
        /\ AtSlot(d, v, (k - 1) * EntriesPerSector + dir.index + 1)
  BY <1>1 DEF InListing
<1>3. PICK i \in 0 .. (EntriesPerSector - 1) : dir.index = i
  BY <1>2
<1>4. PICK n \in 1 .. Slots(d, v) : n = (k - 1) * EntriesPerSector + i + 1
  BY SlotAt
<1>5. EntryAt(dir) = Slot(d, v, n)
  <2>1. EntryAt(dir) = Slot(Disk, fs, (k - 1) * EntriesPerSector + dir.index + 1)
    BY <1>2, EntryIs
  <2> QED
    BY <1>3, <1>4, <2>1
<1>6. dir.cluster \in Clusters(v) /\ dir.cluster < ClustersPerFatSector
  BY <1>2, DirChain
<1>7. Slots(d, v) \in Nat
  BY <1>4, SlotIs
<1>8. n \in Nat /\ n - 1 \in Nat /\ n <= Slots(d, v)
  BY <1>4, <1>7
<1>9. AtSlot(d, v, n)
  BY <1>2, <1>3, <1>4
<1> QED
  BY <1>2, <1>3, <1>4, <1>5, <1>6, <1>7, <1>8, <1>9

(* The listing stays at its entry. *)
LEMMA StaysThere ==
    ASSUME NEW d, NEW v, Usable(d, v),
           NEW k \in 1 .. Len(Chain(d, v, 2)), NEW i \in 0 .. (EntriesPerSector - 1), NEW n,
           dir.cluster = Chain(d, v, 2)[k], dir.index = i, n = (k - 1) * EntriesPerSector + i + 1,
           dir' = dir, AtSlot(d, v, n)'
    PROVE  InListing(d, v)'
<1>1. DOMAIN Chain(d, v, 2) = 1 .. Len(Chain(d, v, 2))
  BY DirChain
<1>2. (k - 1) * EntriesPerSector + dir'.index + 1 = n
  OBVIOUS
<1> QED
  BY <1>1, <1>2 DEF InListing

(* begin() gives the first entry of the root directory (fat.cpp:226). *)
LEMMA BeginsFile ==
    ASSUME NEW d, NEW v, Usable(d, v), fs = v, out = <<>>, List
    PROVE  stage' \in Iterating /\ fs' = v /\ InListing(d, v)'
<1>1. /\ DOMAIN Chain(d, v, 2) = 1 .. Len(Chain(d, v, 2)) /\ Len(Chain(d, v, 2)) \in Nat \ {0}
      /\ Chain(d, v, 2)[1] = 2
  BY DirChain
<1>2. stage' = "first" /\ dir' = [cluster |-> 2, index |-> 0] /\ out' = out /\ fs' = fs
  BY DEF List
<1>3. EntriesPerSector \in Nat \ {0}
  BY FilesAssumption
<1>4. 1 \in 1 .. Len(Chain(d, v, 2)) /\ 0 \in 0 .. (EntriesPerSector - 1)
      /\ (1 - 1) * EntriesPerSector + 0 + 1 = 1
  BY <1>1, <1>3
<1>5. Slot(d, v, 1) = Data(d, v, 2).dir[0]
  <2>1. Slot(d, v, (1 - 1) * EntriesPerSector + 0 + 1) = Data(d, v, Chain(d, v, 2)[1]).dir[0]
    <3>1. PICK k \in 1 .. Len(Chain(d, v, 2)), i \in 0 .. (EntriesPerSector - 1) : k = 1 /\ i = 0
      BY <1>4
    <3>2. Slot(d, v, (k - 1) * EntriesPerSector + i + 1) = Data(d, v, Chain(d, v, 2)[k]).dir[i]
      BY SlotAt
    <3> QED
      BY <3>1, <3>2
  <2> QED
    BY <1>1, <1>4, <2>1
<1>6. Slot(d, v, 1).name = "live" /\ Goes(d, v, 1)
  BY <1>5 DEF Usable, Goes
<1>7. Dumps(d, v, 1 - 1) = <<>>
  BY DumpsIs
<1>8. AtSlot(d, v, 1)'
  BY <1>2, <1>6, <1>7 DEF AtSlot
<1>9. dir'.cluster = 2 /\ dir'.index = 0
  BY <1>2
<1>10. (1 - 1) * EntriesPerSector + dir'.index + 1 = 1
  BY <1>4, <1>9
<1>11. InListing(d, v)'
  BY <1>1, <1>4, <1>8, <1>9, <1>10 DEF InListing
<1> QED
  BY <1>2, <1>11 DEF Iterating

(* operator* and the title of a text file (main.cpp:78-86). *)
LEMMA Visits ==
    ASSUME NEW d, NEW v, Usable(d, v), d = Disk, v = fs, InListing(d, v), Visit
    PROVE  stage' \in Iterating /\ fs' = v /\ InListing(d, v)'
<1>1. PICK k \in 1 .. Len(Chain(d, v, 2)), i \in 0 .. (EntriesPerSector - 1), n \in 1 .. Slots(d, v) :
              /\ dir.cluster = Chain(d, v, 2)[k] /\ dir.index = i
              /\ n = (k - 1) * EntriesPerSector + i + 1
              /\ AtSlot(d, v, n)
              /\ EntryAt(dir) = Slot(d, v, n)
              /\ n \in Nat /\ n - 1 \in Nat
  BY Here
<1> DEFINE e == Slot(d, v, n)
<1>2. stage \in {"first", "entry"} /\ dir' = dir /\ fs' = fs
  BY DEF Visit
<1>3. Goes(d, v, n) /\ e.name = "live" /\ out = Dumps(d, v, n - 1)
  BY <1>1, <1>2 DEF AtSlot
<1>4. e.cluster \in Numbers /\ e.size \in Nat
  <2>1. e.cluster \in Numbers /\ e.size \in Numbers
    BY SlotIs
  <2> QED
    BY <2>1, FilesAssumption DEF Numbers
<1>5. CASE e.txt /\ ~e.long
  <2>1. /\ stage' = "file" /\ file' = [cluster |-> e.cluster, size |-> e.size]
        /\ out' = Append(out, Sent("title", e.cluster, e.size))
    BY <1>1, <1>5 DEF Visit
  <2>2. Listed(d, v, n)
    BY <1>3, <1>5 DEF Listed, IsText
  <2> DEFINE t == Dump(d, v, e)
             b == BlocksOf(e.size)
  <2>3. t \in Seq(Pieces(d, v)) /\ Len(t) = b + 1 /\ t[1] = Sent("title", e.cluster, e.size)
    BY <1>1, <2>2, DumpIs
  <2>4. b \in Nat /\ \A j \in Nat : j < b <=> j * BlockSize < e.size
    BY <1>4, BlocksOfIs
  <2>5. Within(d, v, e, 0)'
    <3>1. 0 * BlockSize = 0
      BY FilesAssumption
    <3>2. 0 < b => file'.size = e.size - 0 * BlockSize
                   /\ file'.cluster = Chain(d, v, e.cluster)[0 + 1]
      <4> SUFFICES ASSUME 0 < b PROVE file'.size = e.size - 0 * BlockSize
                                      /\ file'.cluster = Chain(d, v, e.cluster)[0 + 1]
        OBVIOUS
      <4>1. Chain(d, v, e.cluster)[1] = e.cluster
        <5>1. 0 \in Nat /\ n \in Nat
          BY <1>1
        <5> QED
          BY <2>2, <5>1, FileChain
      <4> HIDE DEF e
      <4> QED
        BY <1>4, <2>1, <3>1, <4>1
    <3>3. 0 = b => file'.size = 0
      <4> SUFFICES ASSUME 0 = b PROVE file'.size = 0
        OBVIOUS
      <4>1. ~(0 < e.size)
        BY <2>4, <3>1
      <4> HIDE DEF e
      <4> QED
        BY <1>4, <2>1, <4>1
    <3> QED
      BY <2>4, <3>2, <3>3 DEF Within
  <2>6. out' = Dumps(d, v, n - 1) \o SubSeq(t, 1, 0 + 1)
    <3>1. Dumps(d, v, n - 1) \in Seq(Pieces(d, v))
      BY <1>1, DumpsIs
    <3> HIDE DEF t, b, e
    <3>2. t[1] \in Pieces(d, v)
      BY <2>3, <2>4
    <3>3. SubSeq(t, 1, 1) = <<t[1]>>
      <4>1. 1 \in 1 .. Len(t) /\ 1 \in 1 .. 1 /\ 1 - 1 < 1
        BY <2>3, <2>4
      <4>2. SubSeq(t, 1, 1) = SubSeq(t, 1, 1 - 1) \o <<t[1]>>
        BY <2>3, <4>1, SubSeqRecursiveSecond
      <4>3. SubSeq(t, 1, 1 - 1) = <<>>
        BY SubSeqEmpty
      <4>4. <<t[1]>> \in Seq(Pieces(d, v))
        BY <3>2
      <4>5. <<>> \o <<t[1]>> = <<t[1]>>
        BY <4>4, ConcatEmptySeq, Zenon
      <4> QED
        BY <4>2, <4>3, <4>5, Zenon
    <3>4. Append(Dumps(d, v, n - 1), t[1]) = Dumps(d, v, n - 1) \o <<t[1]>>
      BY <3>1, <3>2, AppendIsConcat
    <3> QED
      BY <1>3, <2>1, <2>3, <3>3, <3>4
  <2>7. AtSlot(d, v, n)'
    <3>1. 0 \in 0 .. BlocksOf(Slot(d, v, n).size)
      BY <2>4
    <3>2. \E m \in 0 .. BlocksOf(Slot(d, v, n).size) :
             /\ Within(d, v, Slot(d, v, n), m)'
             /\ out' = Dumps(d, v, n - 1) \o SubSeq(Dump(d, v, Slot(d, v, n)), 1, m + 1)
      BY <2>5, <2>6, <3>1
    <3> QED
      BY <2>1, <2>2, <3>2 DEF AtSlot
  <2>8. InListing(d, v)'
    BY <1>1, <1>2, <2>7, StaysThere
  <2> QED
    BY <1>2, <2>1, <2>8 DEF Iterating
<1>6. CASE ~(e.txt /\ ~e.long)
  <2>1. stage' = "next" /\ out' = out
    BY <1>1, <1>6 DEF Visit
  <2>2. ~Listed(d, v, n)
    BY <1>6 DEF Listed, IsText
  <2>3. Dumps(d, v, n) = Dumps(d, v, n - 1)
    <3>1. PICK p \in Nat : p = n - 1
      BY <1>1
    <3>2. p <= n /\ \A j \in (p + 1) .. n : ~Listed(d, v, j)
      BY <1>1, <2>2, <3>1
    <3>3. Dumps(d, v, n) = Dumps(d, v, p)
      BY <1>1, <3>2, DumpsGrow
    <3> QED
      BY <3>1, <3>3
  <2>4. AtSlot(d, v, n)'
    BY <1>3, <2>1, <2>3 DEF AtSlot
  <2>5. InListing(d, v)'
    BY <1>1, <1>2, <2>4, StaysThere
  <2> QED
    BY <1>2, <2>1, <2>5 DEF Iterating
<1> QED
  BY <1>5, <1>6

(* What is added to two sequences is added to the second. *)
LEMMA AddedLast ==
    ASSUME NEW S, NEW p \in Seq(S), NEW w \in Seq(S), NEW nx \in S
    PROVE  Append(p \o w, nx) = p \o (w \o <<nx>>)
<1>1. PICK u \in Seq(S) : u = <<nx>>
  <2>1. <<nx>> \in Seq(S)
    OBVIOUS
  <2> QED
    BY <2>1, Zenon
<1>2. p \o w \in Seq(S)
  BY ConcatProperties
<1>3. Append(p \o w, nx) = (p \o w) \o u
  BY <1>1, <1>2, AppendIsConcat
<1>4. (p \o w) \o u = p \o (w \o u)
  BY ConcatAssociative
<1> QED
  BY <1>1, <1>3, <1>4

(* A block of the file (fat.cpp:325-340). *)
LEMMA SendsBlock ==
    ASSUME NEW d, NEW v, Usable(d, v), d = Disk, v = fs, InListing(d, v), FileBlock
    PROVE  stage' \in Iterating /\ fs' = v /\ InListing(d, v)'
<1>1. PICK k \in 1 .. Len(Chain(d, v, 2)), i \in 0 .. (EntriesPerSector - 1), n \in 1 .. Slots(d, v) :
              /\ dir.cluster = Chain(d, v, 2)[k] /\ dir.index = i
              /\ n = (k - 1) * EntriesPerSector + i + 1
              /\ AtSlot(d, v, n)
              /\ n \in Nat /\ n - 1 \in Nat
  BY Here
<1> DEFINE e == Slot(d, v, n)
           s == Chain(d, v, e.cluster)
           t == Dump(d, v, e)
           b == BlocksOf(e.size)
           z == BlockSize
           P == Pieces(d, v)
<1>2. /\ stage = "file" /\ stage' = stage /\ dir' = dir /\ fs' = fs /\ HasBlock
      /\ out' = Append(out, Sent("text", Block(fs, ClusterBlock(file.cluster)).id,
                                 IF file.size <= z THEN file.size ELSE z))
      /\ file' = IF file.size <= z THEN [file EXCEPT !.size = 0]
                 ELSE [cluster |-> NextCluster(file.cluster), size |-> file.size - z]
  BY DEF FileBlock
<1>3. Listed(d, v, n)
  BY <1>1, <1>2 DEF AtSlot
<1>4. PICK m \in 0 .. b : Within(d, v, e, m) /\ out = Dumps(d, v, n - 1) \o SubSeq(t, 1, m + 1)
  BY <1>1, <1>2 DEF AtSlot
<1>5. e.size \in Nat
  <2>1. e.size \in Numbers
    BY SlotIs
  <2> QED
    BY <2>1, FilesAssumption DEF Numbers
<1>6. b \in Nat /\ \A j \in Nat : j < b <=> j * z < e.size
  BY <1>5, BlocksOfIs
<1>7. z \in Nat \ {0}
  BY FilesAssumption
<1>8. m \in Nat /\ m < b
  <2>1. file.size # 0
    BY <1>2 DEF HasBlock
  <2> QED
    BY <1>4, <1>6, <2>1 DEF Within
<1>9. file.size = e.size - m * z /\ file.cluster = s[m + 1]
  BY <1>4, <1>8 DEF Within
<1>10. /\ s[m + 1] \in Clusters(v) /\ s[m + 1] < ClustersPerFatSector
       /\ m + 1 < b => FatEntry(d, v, s[m + 1]) = s[m + 2]
  BY <1>1, <1>3, <1>8, FileChain
<1>11. /\ Block(fs, ClusterBlock(file.cluster)) = Data(d, v, s[m + 1])
       /\ NextCluster(file.cluster) = FatEntry(d, v, s[m + 1])
  <2>1. PICK c \in Clusters(fs) : c = file.cluster /\ c = s[m + 1] /\ c < ClustersPerFatSector
    BY <1>9, <1>10
  <2>2. Block(fs, ClusterBlock(c)) = Data(Disk, fs, c) /\ NextCluster(c) = FatEntry(Disk, fs, c)
    BY <2>1, Reads
  <2> QED
    BY <2>1, <2>2
<1>12. /\ t \in Seq(P) /\ Len(t) = b + 1
       /\ \A j \in 1 .. b :
             t[j + 1] = Sent("text", Data(d, v, s[j]).id,
                             IF e.size < j * z THEN e.size - (j - 1) * z ELSE z)
  BY <1>1, <1>3, DumpIs
<1> HIDE DEF t, s, b, z, e, P
<1>13. /\ m * z \in Nat /\ (m + 1) * z \in Nat /\ (m + 1) * z = m * z + z /\ m * z < e.size
  BY <1>6, <1>7, <1>8, Times
<1>14. t[m + 2] = Sent("text", Data(d, v, s[m + 1]).id, IF file.size <= z THEN file.size ELSE z)
  <2>1. m + 1 \in 1 .. b /\ (m + 1) + 1 = m + 2 /\ (m + 1) - 1 = m
    BY <1>6, <1>8
  <2>2. t[m + 2] = Sent("text", Data(d, v, s[m + 1]).id,
                        IF e.size < (m + 1) * z THEN e.size - m * z ELSE z)
    BY <1>12, <2>1
  <2>3. (IF e.size < (m + 1) * z THEN e.size - m * z ELSE z)
            = (IF file.size <= z THEN file.size ELSE z)
    BY <1>5, <1>7, <1>9, <1>13
  <2> QED
    BY <2>2, <2>3
<1>15. out' = Dumps(d, v, n - 1) \o SubSeq(t, 1, (m + 1) + 1)
  <2> DEFINE p == Dumps(d, v, n - 1)
             w == SubSeq(t, 1, m + 1)
             nx == t[m + 2]
  <2>1. p \in Seq(P)
    BY <1>1, DumpsIs DEF P
  <2>2. /\ m + 2 \in 1 .. Len(t) /\ 1 \in 1 .. Len(t) /\ m + 2 \in 1 .. Len(t) /\ (m + 2) - 1 = m + 1
        /\ (m + 1) + 1 = m + 2
    BY <1>6, <1>8, <1>12
  <2>3. SubSeq(t, 1, m + 2) = SubSeq(t, 1, (m + 2) - 1) \o <<t[m + 2]>>
    BY <1>12, <2>2, SubSeqRecursiveSecond, Zenon
  <2>4. w \in Seq(P) /\ nx \in P
    <3>1. \A j \in 1 .. (m + 1) : t[j] \in P
      BY <1>6, <1>8, <1>12
    <3>2. 1 \in Int /\ m + 1 \in Int
      BY <1>8
    <3>3. w \in Seq(P)
      BY <3>1, <3>2, SubSeqProperties
    <3> QED
      BY <1>12, <2>2, <3>3
  <2>5. out' = Append(p \o w, nx)
    BY <1>2, <1>4, <1>11, <1>14
  <2> HIDE DEF p, w, nx
  <2>8. Append(p \o w, nx) = p \o (w \o <<nx>>)
    BY <2>1, <2>4, AddedLast, Zenon
  <2>9. w \o <<nx>> = SubSeq(t, 1, (m + 1) + 1)
    BY <2>2, <2>3 DEF w, nx
  <2> QED
    BY <2>5, <2>8, <2>9 DEF p
<1>16. Within(d, v, e, m + 1)'
  <2>1. m + 1 \in 0 .. b
    BY <1>6, <1>8
  <2>2. m + 1 < b <=> (m + 1) * z < e.size
    BY <1>6, <1>8
  <2>3. CASE file.size <= z
    <3>1. ~(m + 1 < b)
      BY <1>5, <1>7, <1>9, <1>13, <2>2, <2>3
    <3>2. file'.size = 0
      BY <1>2, <2>3
    <3> QED
      BY <2>1, <3>1, <3>2 DEF Within, b
  <2>4. CASE ~(file.size <= z)
    <3>1. m + 1 < b
      BY <1>5, <1>7, <1>9, <1>13, <2>2, <2>4
    <3>2. file' = [cluster |-> NextCluster(file.cluster), size |-> file.size - z]
      BY <1>2, <2>4
    <3>3. file'.size = file.size - z /\ file'.cluster = NextCluster(file.cluster)
      BY <3>2
    <3>4. file'.size = e.size - (m + 1) * z
      BY <1>5, <1>7, <1>9, <1>13, <3>3
    <3>5. file'.cluster = s[(m + 1) + 1]
      <4>1. (m + 1) + 1 = m + 2
        BY <1>8
      <4> QED
        BY <1>10, <1>11, <3>1, <3>3, <4>1
    <3> QED
      BY <1>6, <2>1, <3>1, <3>4, <3>5 DEF Within, b, z, s
  <2> QED
    BY <2>3, <2>4
<1>17. AtSlot(d, v, n)'
  <2>1. m + 1 \in 0 .. BlocksOf(Slot(d, v, n).size)
    BY <1>6, <1>8 DEF b, e
  <2>2. \E j \in 0 .. BlocksOf(Slot(d, v, n).size) :
           /\ Within(d, v, Slot(d, v, n), j)'
           /\ out' = Dumps(d, v, n - 1) \o SubSeq(Dump(d, v, Slot(d, v, n)), 1, j + 1)
    BY <1>15, <1>16, <2>1 DEF e, t
  <2> QED
    BY <1>2, <1>3, <2>2 DEF AtSlot
<1>18. InListing(d, v)'
  BY <1>1, <1>2, <1>17, StaysThere
<1> QED
  BY <1>2, <1>18 DEF Iterating

(* The end of the file (main.cpp:96). *)
LEMMA EndsFile ==
    ASSUME NEW d, NEW v, Usable(d, v), d = Disk, v = fs, InListing(d, v), FileEnd
    PROVE  stage' \in Iterating /\ fs' = v /\ InListing(d, v)'
<1>1. PICK k \in 1 .. Len(Chain(d, v, 2)), i \in 0 .. (EntriesPerSector - 1), n \in 1 .. Slots(d, v) :
              /\ dir.cluster = Chain(d, v, 2)[k] /\ dir.index = i
              /\ n = (k - 1) * EntriesPerSector + i + 1
              /\ AtSlot(d, v, n)
              /\ n \in Nat /\ n - 1 \in Nat
  BY Here
<1> DEFINE e == Slot(d, v, n)
           t == Dump(d, v, e)
           b == BlocksOf(e.size)
<1>2. stage = "file" /\ stage' = "next" /\ dir' = dir /\ fs' = fs /\ out' = out /\ ~HasBlock
  BY DEF FileEnd
<1>3. Listed(d, v, n)
  BY <1>1, <1>2 DEF AtSlot
<1>4. PICK m \in 0 .. b : Within(d, v, e, m) /\ out = Dumps(d, v, n - 1) \o SubSeq(t, 1, m + 1)
  BY <1>1, <1>2 DEF AtSlot
<1>5. e.size \in Nat
  <2>1. e.size \in Numbers
    BY SlotIs
  <2> QED
    BY <2>1, FilesAssumption DEF Numbers
<1>6. b \in Nat /\ \A j \in Nat : j < b <=> j * BlockSize < e.size
  BY <1>5, BlocksOfIs
<1>7. m = b
  <2> SUFFICES ASSUME m # b PROVE FALSE
    OBVIOUS
  <2>1. m \in Nat /\ m < b
    BY <1>4, <1>6
  <2>2. file.size = e.size - m * BlockSize /\ file.cluster = Chain(d, v, e.cluster)[m + 1]
    BY <1>4, <2>1 DEF Within
  <2>3. m * BlockSize < e.size /\ m * BlockSize \in Nat
    BY <1>6, <2>1, FilesAssumption, Times
  <2>4. file.size # 0
    <3> HIDE DEF e
    <3> QED
      BY <1>5, <2>2, <2>3
  <2>5. PICK c \in Clusters(fs) : c = file.cluster /\ c < ClustersPerFatSector
    BY <1>1, <1>3, <2>1, <2>2, FileChain
  <2>6. IsValid(c)
    BY <2>5, Reads
  <2> QED
    BY <1>2, <2>4, <2>5, <2>6 DEF HasBlock
<1>8. out = Dumps(d, v, n)
  <2>1. t \in Seq(Pieces(d, v)) /\ Len(t) = b + 1
    BY <1>1, <1>3, DumpIs
  <2>2. SubSeq(t, 1, m + 1) = t
    BY <1>7, <2>1, SubSeqFull
  <2>3. Dumps(d, v, (n - 1) + 1) = Dumps(d, v, n - 1) \o TextOf(d, v, (n - 1) + 1)
    BY <1>1, DumpsIs, Zenon
  <2>4. (n - 1) + 1 = n
    BY <1>1
  <2>5. TextOf(d, v, n) = t
    BY <1>3 DEF TextOf
  <2> QED
    BY <1>4, <2>2, <2>3, <2>4, <2>5, Zenon
<1>9. AtSlot(d, v, n)'
  BY <1>2, <1>3, <1>8 DEF AtSlot, Listed
<1>10. InListing(d, v)'
  BY <1>1, <1>2, <1>9, StaysThere
<1> QED
  BY <1>2, <1>10 DEF Iterating

(* operator++ (fat.cpp:207, 234). *)
LEMMA AdvancesBy ==
    ASSUME NEW d, NEW v, Usable(d, v), d = Disk, v = fs, InListing(d, v), Advance
    PROVE  /\ fs' = v
           /\ \/ stage' \in Iterating /\ InListing(d, v)'
              \/ stage' = "done" /\ out' = Dumps(d, v, Slots(d, v))
<1>1. PICK k \in 1 .. Len(Chain(d, v, 2)), i \in 0 .. (EntriesPerSector - 1), n \in 1 .. Slots(d, v) :
              /\ dir.cluster = Chain(d, v, 2)[k] /\ dir.index = i
              /\ n = (k - 1) * EntriesPerSector + i + 1
              /\ AtSlot(d, v, n)
  BY Here
<1>2. stage = "next" /\ out' = out /\ fs' = fs
  BY DEF Advance
<1>3. Goes(d, v, n) /\ out = Dumps(d, v, n)
  BY <1>1, <1>2 DEF AtSlot
<1>4. CASE i + 1 = EntriesPerSector
  <2>1. stage' = "link" /\ dir' = dir
    BY <1>1, <1>4 DEF Advance
  <2>2. dir'.index = EntriesPerSector - 1
    BY <1>1, <1>4, <2>1
  <2>3. AtSlot(d, v, n)'
    BY <1>2, <1>3, <2>1, <2>2 DEF AtSlot
  <2>4. InListing(d, v)'
    BY <1>1, <2>1, <2>3, StaysThere
  <2> QED
    BY <1>2, <2>1, <2>4 DEF Iterating
<1>5. CASE i + 1 # EntriesPerSector
  <2>1. PICK h : h = [dir EXCEPT !.index = @ + 1]
    OBVIOUS
  <2>2. Land(h)
    BY <1>1, <1>5, <2>1 DEF Advance
  <2>3. h.cluster = Chain(d, v, 2)[k] /\ h.index = i + 1
    <3>1. h.cluster = dir.cluster
      BY <2>1
    <3>2. h.index = dir.index + 1
      BY <2>1
    <3> QED
      BY <1>1, <3>1, <3>2
  <2>4. h.index \in 0 .. (EntriesPerSector - 1)
    BY <1>5, <2>3, FilesAssumption
  <2>5. (k - 1) * EntriesPerSector + h.index = n
    <3>1. (k - 1) * EntriesPerSector \in Int /\ i \in Int
      BY FilesAssumption, DirChain
    <3> QED
      BY <1>1, <2>3, <3>1
  <2> QED
    BY <1>2, <1>3, <2>2, <2>3, <2>4, <2>5, Lands
<1> QED
  BY <1>4, <1>5

(* The next cluster of the directory, or its end (fat.cpp:238). *)
LEMMA Links ==
    ASSUME NEW d, NEW v, Usable(d, v), d = Disk, v = fs, InListing(d, v), Link
    PROVE  /\ fs' = v
           /\ \/ stage' \in Iterating /\ InListing(d, v)'
              \/ stage' = "done" /\ out' = Dumps(d, v, Slots(d, v))
<1>1. PICK k \in 1 .. Len(Chain(d, v, 2)), i \in 0 .. (EntriesPerSector - 1), n \in 1 .. Slots(d, v) :
              /\ dir.cluster = Chain(d, v, 2)[k] /\ dir.index = i
              /\ n = (k - 1) * EntriesPerSector + i + 1
              /\ AtSlot(d, v, n)
              /\ dir.cluster \in Clusters(v) /\ dir.cluster < ClustersPerFatSector
              /\ n \in Nat /\ n - 1 \in Nat
  BY Here
<1>2. stage = "link" /\ fs' = fs
  BY DEF Link
<1>3. Goes(d, v, n) /\ out = Dumps(d, v, n) /\ i = EntriesPerSector - 1
  BY <1>1, <1>2 DEF AtSlot
<1> DEFINE s == Chain(d, v, 2)
           nx == NextCluster(dir.cluster)
<1>4. /\ DOMAIN s = 1 .. Len(s) /\ Len(s) \in Nat
      /\ \A j \in 1 .. Len(s) : s[j] \in Clusters(v) /\ s[j] < ClustersPerFatSector
      /\ \A j \in 1 .. (Len(s) - 1) : FatEntry(d, v, s[j]) = s[j + 1]
      /\ FatEntry(d, v, s[Len(s)]) >= Eoc
  BY DirChain
<1>5. nx = FatEntry(d, v, s[k])
  <2>1. PICK c \in Clusters(fs) : c = dir.cluster /\ c < ClustersPerFatSector
    BY <1>1
  <2>2. NextCluster(c) = FatEntry(Disk, fs, c)
    BY <2>1, Reads
  <2> QED
    BY <1>1, <2>1, <2>2
<1>6. CASE k = Len(s)
  <2>1. nx >= Eoc
    BY <1>4, <1>5, <1>6
  <2>2. nx \in Nat
    <3>1. s[k] \in Clusters(v) /\ s[k] < ClustersPerFatSector
      BY <1>4
    <3>2. FatEntry(d, v, s[k]) \in Numbers
      BY <3>1, ClusterIs
    <3> QED
      BY <1>5, <3>2, FilesAssumption DEF Numbers
  <2>3. ~IsValid(nx)
    <3> HIDE DEF nx
    <3> QED
      BY <2>1, <2>2, FilesAssumption DEF IsValid
  <2>4. stage' = "done" /\ out' = out
    BY <2>1, <2>3 DEF Link
  <2>5. n = Slots(d, v)
    BY <1>1, <1>3, <1>6, SlotAt
  <2> QED
    BY <1>2, <1>3, <2>4, <2>5
<1>7. CASE k # Len(s)
  <2>1. k + 1 \in 1 .. Len(s) /\ k \in 1 .. (Len(s) - 1)
    BY <1>4, <1>7
  <2>2. nx = s[k + 1]
    BY <1>4, <1>5, <2>1
  <2>3. PICK c \in Clusters(fs) : c = nx /\ c < ClustersPerFatSector
    BY <1>4, <2>1, <2>2
  <2>4. IsValid(nx)
    BY <2>3, Reads
  <2>5. stage' = "load" /\ dir' = [cluster |-> nx, index |-> 0] /\ out' = out
    BY <2>4 DEF Link
  <2>6. dir'.cluster = s[k + 1] /\ dir'.index = 0
    <3> HIDE DEF s, nx
    <3> QED
      BY <2>2, <2>5
  <2>7. 0 \in 0 .. (EntriesPerSector - 1)
    BY FilesAssumption
  <2>8. ((k + 1) - 1) * EntriesPerSector + dir'.index + 1 = n + 1
    <3>1. k - 1 \in Nat /\ EntriesPerSector \in Nat
      BY FilesAssumption
    <3>2. ((k - 1) + 1) * EntriesPerSector = (k - 1) * EntriesPerSector + EntriesPerSector
          /\ (k - 1) * EntriesPerSector \in Nat
      BY <3>1, Times
    <3>3. (k - 1) + 1 = k /\ (k + 1) - 1 = k
      BY <3>1
    <3> QED
      BY <1>1, <1>3, <2>6, <3>1, <3>2, <3>3
  <2>9. PICK q : q = n + 1
    OBVIOUS
  <2>10. q - 1 = n
    BY <1>1, <2>9
  <2>11. AtSlot(d, v, q)'
    BY <1>3, <2>5, <2>6, <2>10 DEF AtSlot
  <2>12. InListing(d, v)'
    BY <1>4, <2>1, <2>6, <2>7, <2>8, <2>9, <2>11 DEF InListing
  <2> QED
    BY <1>2, <2>5, <2>12 DEF Iterating
<1> QED
  BY <1>6, <1>7

(* The first entry of the next cluster (fat.cpp:255). *)
LEMMA Loads ==
    ASSUME NEW d, NEW v, Usable(d, v), d = Disk, v = fs, InListing(d, v), Load
    PROVE  /\ fs' = v
           /\ \/ stage' \in Iterating /\ InListing(d, v)'
              \/ stage' = "done" /\ out' = Dumps(d, v, Slots(d, v))
<1>1. PICK k \in 1 .. Len(Chain(d, v, 2)), i \in 0 .. (EntriesPerSector - 1), n \in 1 .. Slots(d, v) :
              /\ dir.cluster = Chain(d, v, 2)[k] /\ dir.index = i
              /\ n = (k - 1) * EntriesPerSector + i + 1
              /\ AtSlot(d, v, n)
              /\ n - 1 \in Nat
  BY Here
<1>2. stage = "load" /\ out' = out /\ fs' = fs
  BY DEF Load
<1>3. Goes(d, v, n - 1) /\ out = Dumps(d, v, n - 1)
  BY <1>1, <1>2 DEF AtSlot
<1>4. PICK h : h = dir
  OBVIOUS
<1>5. Land(h) /\ h.cluster = Chain(d, v, 2)[k] /\ h.index \in 0 .. (EntriesPerSector - 1)
  BY <1>1, <1>4 DEF Load
<1>6. (k - 1) * EntriesPerSector + h.index = n - 1
  <2>1. (k - 1) * EntriesPerSector \in Int /\ i \in Int
    BY FilesAssumption, DirChain
  <2> QED
    BY <1>1, <1>4, <2>1
<1> QED
  BY <1>2, <1>3, <1>5, <1>6, Lands

(* What is sent up to an entry is the beginning of what is sent. *)
LEMMA UpTo ==
    ASSUME NEW d, NEW v, Usable(d, v), NEW m \in Nat, m <= Slots(d, v), Slots(d, v) \in Nat
    PROVE  IsPrefix(Dumps(d, v, m), Dumps(d, v, Slots(d, v)))
<1>1. Dumps(d, v, m) \in Seq(Pieces(d, v))
  BY DumpsIs
<1>2. PICK r \in Seq(Pieces(d, v)) : Dumps(d, v, Slots(d, v)) = Dumps(d, v, m) \o r
  BY DumpsGrow
<1>3. IsPrefix(Dumps(d, v, m), Dumps(d, v, m) \o r)
  BY <1>1, <1>2, PrefixOf
<1> QED
  BY <1>2, <1>3

(* So is what is sent up to a block of a file. *)
LEMMA UpToBlock ==
    ASSUME NEW d, NEW v, Usable(d, v), NEW n \in 1 .. Slots(d, v), Listed(d, v, n),
           NEW m \in 0 .. BlocksOf(Slot(d, v, n).size)
    PROVE  IsPrefix(Dumps(d, v, n - 1) \o SubSeq(Dump(d, v, Slot(d, v, n)), 1, m + 1),
                    Dumps(d, v, Slots(d, v)))
<1> DEFINE P == Pieces(d, v)
           whole == Dumps(d, v, Slots(d, v))
           e == Slot(d, v, n)
           t == Dump(d, v, e)
           b == BlocksOf(e.size)
           p == Dumps(d, v, n - 1)
<1>1. Slots(d, v) \in Nat /\ e.size \in Numbers
  BY SlotIs
<1>2. n \in Nat /\ n - 1 \in Nat /\ n <= Slots(d, v) /\ (n - 1) + 1 = n
  BY <1>1
<1>3. e.size \in Nat
  BY <1>1, FilesAssumption DEF Numbers
<1>4. b \in Nat
  BY <1>3, BlocksOfIs
<1>5. t \in Seq(P) /\ Len(t) = b + 1
  BY <1>2, DumpIs
<1>6. p \in Seq(P)
  BY <1>2, DumpsIs
<1>7. Dumps(d, v, n) = p \o t
  <2>1. Dumps(d, v, (n - 1) + 1) = Dumps(d, v, n - 1) \o TextOf(d, v, (n - 1) + 1)
    BY <1>2, DumpsIs, Zenon
  <2>2. TextOf(d, v, n) = t
    BY DEF TextOf
  <2> QED
    BY <1>2, <2>1, <2>2, Zenon
<1>8. PICK r \in Seq(P) : whole = Dumps(d, v, n) \o r
  BY <1>1, <1>2, DumpsGrow
<1> HIDE DEF P, whole, e, t, b, p
<1> DEFINE w == SubSeq(t, 1, m + 1)
           h == SubSeq(t, (m + 1) + 1, Len(t))
<1>9. m \in 0 .. b
  BY DEF b, e
<1>10. w \in Seq(P) /\ h \in Seq(P)
  <2>1. \A j \in 1 .. Len(t) : t[j] \in P
    BY <1>5
  <2>2. (\A j \in 1 .. (m + 1) : t[j] \in P) /\ (\A j \in ((m + 1) + 1) .. Len(t) : t[j] \in P)
    BY <1>4, <1>5, <1>9, <2>1
  <2>3. m + 1 \in Int /\ (m + 1) + 1 \in Int /\ Len(t) \in Int /\ 1 \in Int
    BY <1>4, <1>5, <1>9
  <2> QED
    BY <2>2, <2>3, SubSeqProperties
<1>11. t = w \o h
  <2>1. 1 \in 1 .. Len(t) + 1 /\ m + 1 \in 1 - 1 .. Len(t) /\ Len(t) \in m + 1 .. Len(t)
    BY <1>4, <1>5, <1>9
  <2>2. SubSeq(t, 1, m + 1) \o SubSeq(t, (m + 1) + 1, Len(t)) = SubSeq(t, 1, Len(t))
    BY <1>5, <2>1, ConcatAdjacentSubSeq, Zenon
  <2>3. SubSeq(t, 1, Len(t)) = t
    BY <1>5, SubSeqFull
  <2> QED
    BY <2>2, <2>3
<1> HIDE DEF w, h
<1>12. whole = (p \o w) \o (h \o r)
  <2>1. whole = (p \o (w \o h)) \o r
    BY <1>7, <1>8, <1>11, Zenon
  <2>2. p \in Seq(P) /\ w \in Seq(P) /\ h \in Seq(P) /\ r \in Seq(P)
    BY <1>6, <1>8, <1>10
  <2>3. \A q, nx, z \in Seq(P) : (q \o nx) \o z = q \o (nx \o z)
    BY ConcatAssociative
  <2>4. (p \o w) \o h = p \o (w \o h)
    BY <2>2, <2>3
  <2>5. PICK q \in Seq(P) : q = p \o w
    <3>1. p \o w \in Seq(P)
      BY <2>2, ConcatProperties
    <3> QED
      BY <3>1, Zenon
  <2>6. (q \o h) \o r = q \o (h \o r)
    BY <2>2, <2>3, <2>5
  <2> QED
    BY <2>1, <2>4, <2>5, <2>6, Zenon
<1>13. p \o w \in Seq(P) /\ h \o r \in Seq(P)
  BY <1>6, <1>8, <1>10, ConcatProperties
<1>14. IsPrefix(p \o w, (p \o w) \o (h \o r))
  BY <1>13, PrefixOf
<1> QED
  BY <1>12, <1>14 DEF whole, p, w, t, e

(* What has been sent is the beginning of what is to be sent. *)
LEMMA Begun ==
    ASSUME NEW d, NEW v, Usable(d, v), d = Disk, v = fs, stage \in Iterating, InListing(d, v)
    PROVE  IsPrefix(out, Dumps(d, v, Slots(d, v)))
<1>1. PICK k \in 1 .. Len(Chain(d, v, 2)), i \in 0 .. (EntriesPerSector - 1), n \in 1 .. Slots(d, v) :
              /\ AtSlot(d, v, n)
              /\ n \in Nat /\ n - 1 \in Nat /\ n <= Slots(d, v) /\ Slots(d, v) \in Nat
  BY Here
<1>2. CASE stage \in {"first", "entry", "load"}
  <2>1. out = Dumps(d, v, n - 1)
    BY <1>1, <1>2 DEF AtSlot
  <2>2. n - 1 <= Slots(d, v)
    BY <1>1
  <2>3. IsPrefix(Dumps(d, v, n - 1), Dumps(d, v, Slots(d, v)))
    BY <1>1, <2>2, UpTo
  <2> QED
    BY <2>1, <2>3
<1>3. CASE stage \in {"next", "link"}
  <2>1. out = Dumps(d, v, n)
    BY <1>1, <1>3 DEF AtSlot
  <2>2. IsPrefix(Dumps(d, v, n), Dumps(d, v, Slots(d, v)))
    BY <1>1, UpTo
  <2> QED
    BY <2>1, <2>2
<1>4. CASE stage = "file"
  <2>1. Listed(d, v, n)
    BY <1>1, <1>4 DEF AtSlot
  <2>2. PICK m \in 0 .. BlocksOf(Slot(d, v, n).size) :
           out = Dumps(d, v, n - 1) \o SubSeq(Dump(d, v, Slot(d, v, n)), 1, m + 1)
    BY <1>1, <1>4 DEF AtSlot
  <2>3. IsPrefix(Dumps(d, v, n - 1) \o SubSeq(Dump(d, v, Slot(d, v, n)), 1, m + 1),
                 Dumps(d, v, Slots(d, v)))
    BY <2>1, <2>2, UpToBlock
  <2> QED
    BY <2>2, <2>3
<1> QED
  BY <1>2, <1>3, <1>4 DEF Iterating

(* No assertion of the listing can fail. *)
LEMMA InRangeThere ==
    ASSUME NEW d, NEW v, Usable(d, v), d = Disk, v = fs, stage \in Iterating, InListing(d, v)
    PROVE  InRange
<1>1. PICK k \in 1 .. Len(Chain(d, v, 2)), i \in 0 .. (EntriesPerSector - 1), n \in 1 .. Slots(d, v) :
              /\ AtSlot(d, v, n)
              /\ dir.cluster \in Clusters(v) /\ dir.cluster < ClustersPerFatSector
              /\ n \in Nat
  BY Here
<1>2. ~Mounts
  BY DEF Mounts, Iterating
<1>3. /\ Readable(fs, ClusterBlock(dir.cluster)) /\ Readable(fs, FatBlock(dir.cluster))
      /\ dir.cluster < fs.total
  BY <1>1, Reads
<1>4. CASE stage = "file" /\ HasBlock
  <2> DEFINE e == Slot(d, v, n)
             b == BlocksOf(e.size)
  <2>1. PICK m \in 0 .. b : Within(d, v, e, m)
    BY <1>1, <1>4 DEF AtSlot
  <2>2. Listed(d, v, n)
    BY <1>1, <1>4 DEF AtSlot
  <2>3. e.size \in Nat
    <3>1. e.size \in Numbers
      BY SlotIs
    <3> QED
      BY <3>1, FilesAssumption DEF Numbers
  <2>4. b \in Nat
    BY <2>3, BlocksOfIs
  <2>5. m \in Nat /\ m < b
    BY <1>4, <2>1, <2>4 DEF Within, HasBlock
  <2>6. file.cluster = Chain(d, v, e.cluster)[m + 1]
    BY <2>1, <2>5 DEF Within
  <2>7. PICK c \in Clusters(fs) : c = file.cluster /\ c < ClustersPerFatSector
    BY <1>1, <2>2, <2>5, <2>6, FileChain
  <2>8. Readable(fs, ClusterBlock(c)) /\ Readable(fs, FatBlock(c)) /\ c < fs.total
    BY <2>7, Reads
  <2>9. Needs \subseteq {ClusterBlock(file.cluster), FatBlock(file.cluster)}
    BY <1>2, <1>4 DEF Needs
  <2> QED
    BY <1>2, <1>4, <2>7, <2>8, <2>9 DEF InRange
<1>5. CASE ~(stage = "file" /\ HasBlock)
  <2>1. Needs \subseteq {ClusterBlock(dir.cluster), FatBlock(dir.cluster)}
    BY <1>2, <1>5 DEF Needs
  <2> QED
    BY <1>2, <1>3, <1>5, <2>1 DEF InRange
<1> QED
  BY <1>4, <1>5

-----------------------------------------------------------------------------
(* Mounting, and the steps together.                                        *)

(* A partition table that is read is gone through line by line. *)
LEMMA TableIsRead ==
    ASSUME NEW n \in CardNumbers, card = n, Sound(Cards[n]), Listing(Cards[n]), ReadTable
    PROVE  Listing(Cards[n])'
<1> DEFINE d == Cards[n]
<1>1. Disk = d /\ d.blocks[0].magic
  BY DEF Disk, Sound
<1>2. ~\E i \in Lines : HaltsOn(d.blocks[0].lines[i])
  <2> SUFFICES ASSUME NEW i \in Lines, HaltsOn(d.blocks[0].lines[i]) PROVE FALSE
    OBVIOUS
  <2> DEFINE l == d.blocks[0].lines[i]
  <2>1. l.type # "Unused" /\ l.offset >= d.numBlocks
    BY <1>1 DEF HaltsOn
  <2>2. d.numBlocks \in Nat /\ l.offset \in Nat /\ l.size \in Nat /\ l.offset + l.size < d.numBlocks
    BY <2>1, LineIs
  <2> HIDE DEF l, d
  <2> QED
    BY <2>1, <2>2
<1>3. stage = "table" /\ stage' = "mount" /\ line' = line /\ fs' = fs /\ out' = out
  BY <1>1, <1>2 DEF ReadTable, Mbr
<1>4. Mounted(d)
  BY <1>3 DEF Listing, Mounting
<1>5. fs = NoFs /\ line = 1 /\ out = <<>>
  BY <1>3, <1>4 DEF Mounted
<1>6. Mounted(d)'
  <2>1. 1 .. (line' - 1) = {}
    BY <1>3, <1>5
  <2> HIDE DEF d
  <2> QED
    BY <1>3, <1>5, <2>1 DEF Mounted
<1> QED
  BY <1>3, <1>6 DEF Listing, Mounting, Iterating

(* The line at hand, while nothing is mounted: it is mounted if and only if *)
(* it is the line of the volume.                                            *)
LEMMA LineAtHand ==
    ASSUME NEW n \in CardNumbers, card = n, Sound(Cards[n]), line \in Lines,
           stage = "mount", fs = NoFs,
           \A j \in 1 .. (line - 1) : ~MayMount(Cards[n], Cards[n].blocks[0].lines[j])
    PROVE  /\ MayMount(Cards[n], Cards[n].blocks[0].lines[line]) =>
                 /\ Mounts /\ Takes /\ Candidate = TheVolume(Cards[n])
                 /\ Block(Candidate, Candidate.firstFat).clean
           /\ ~MayMount(Cards[n], Cards[n].blocks[0].lines[line]) => ~(Mounts /\ Takes)
           /\ InRange
<1> DEFINE d == Cards[n]
           l == d.blocks[0].lines[line]
           v == TheVolume(d)
<1>1. Disk = d /\ Mbr = d.blocks[0]
  BY DEF Disk, Mbr
<1>2. Candidate = Volume(l, d.blocks[l.offset].boot) /\ Candidate.offset = l.offset /\ Candidate.size = l.size
  BY <1>1 DEF Candidate, Volume
<1>3. l.type # "Unused" =>
         /\ d.numBlocks \in Nat /\ d.numBlocks < Word /\ Word \in Nat
         /\ l.offset \in Nat \ {0} /\ l.size \in Nat \ {0} /\ l.offset + l.size < d.numBlocks
  BY LineIs
<1>4. ASSUME MayMount(d, l)
      PROVE  /\ Mounts /\ Takes /\ Candidate = v
             /\ Block(Candidate, Candidate.firstFat).clean /\ Readable(Candidate, Candidate.firstFat)
  <2>1. Fat32(l) /\ l.type # "Unused"
    BY <1>4 DEF MayMount, Fat32
  <2>2. Kept(l)
    <3>1. l.offset + l.size \in Nat /\ l.offset + l.size < Word
      BY <1>3, <2>1
    <3>2. (l.offset + l.size) % Word = l.offset + l.size
      BY <1>3, <2>1, <3>1
    <3> QED
      BY <1>1, <1>3, <2>1, <3>2 DEF Kept
  <2>3. Mounts
    BY <1>1, <2>1, <2>2 DEF Mounts, NoFs
  <2>4. TheLine(d) = l
    <3>1. PICK i \in Lines : /\ TheLine(d) = d.blocks[0].lines[i]
                             /\ MayMount(d, d.blocks[0].lines[i])
                             /\ \A j \in 1 .. (i - 1) : ~MayMount(d, d.blocks[0].lines[j])
      BY TheLineIs DEF Sound
    <3>2. ~(i < line) /\ ~(line < i)
      <4>1. ASSUME i < line PROVE FALSE
        <5>1. i \in 1 .. (line - 1)
          BY <4>1 DEF Lines
        <5> QED
          BY <3>1, <5>1
      <4>2. ASSUME line < i PROVE FALSE
        <5>1. line \in 1 .. (i - 1)
          BY <4>2 DEF Lines
        <5> QED
          BY <1>4, <3>1, <5>1
      <4> QED
        BY <4>1, <4>2
    <3>3. i = line
      BY <3>2 DEF Lines
    <3> QED
      BY <3>1, <3>3
  <2>5. Candidate = v
    BY <1>2, <2>4 DEF TheVolume
  <2>6. Accepted(v, d.blocks[v.offset].boot) /\ d.blocks[v.offset + v.firstFat].clean
    BY SoundTaken
  <2>7. Takes
    BY <1>1, <2>5, <2>6 DEF Takes
  <2>8. Usable(d, v)
    BY SoundIs
  <2>9. /\ v.firstFat \in Nat /\ v.offset \in Nat /\ v.size \in Nat /\ v.firstFat < v.size
        /\ v.offset + v.size < d.numBlocks /\ d.numBlocks \in Nat /\ d.numBlocks < Word
    BY <2>8 DEF Usable
  <2>10. (v.firstFat + v.offset) % Word = v.offset + v.firstFat /\ v.offset + v.firstFat < d.numBlocks
    <3> HIDE DEF v, d
    <3>1. v.firstFat + v.offset \in Nat /\ v.firstFat + v.offset < Word /\ Word \in Nat
          /\ v.offset + v.firstFat < d.numBlocks /\ v.firstFat + v.offset = v.offset + v.firstFat
      BY <2>9, FilesAssumption
    <3> QED
      BY <3>1
  <2>11. Block(v, v.firstFat).clean /\ Readable(v, v.firstFat)
    BY <1>1, <2>6, <2>9, <2>10 DEF Block, Readable
  <2> QED
    BY <2>3, <2>5, <2>7, <2>11
<1>5. ASSUME ~MayMount(d, l) PROVE ~(Mounts /\ Takes)
  <2> SUFFICES ASSUME Mounts, Takes PROVE FALSE
    OBVIOUS
  <2>1. Fat32(l)
    BY <1>1 DEF Mounts
  <2>2. d.blocks[l.offset].boot.magic
    BY <1>1, <1>2 DEF Takes, Accepted
  <2> QED
    BY <1>5, <2>1, <2>2 DEF MayMount
<1>6. InRange
  <2>1. CASE ~Mounts
    <3>1. Needs = {}
      BY <2>1 DEF Needs
    <3> QED
      BY <3>1 DEF InRange
  <2>2. CASE Mounts
    <3>1. l.type # "Unused"
      BY <1>1, <2>2 DEF Mounts, Fat32
    <3>2. Readable(Candidate, 0)
      <4>1. (0 + l.offset) % Word = l.offset /\ l.offset < d.numBlocks /\ 0 < l.size
        <5>1. 0 + l.offset = l.offset /\ l.offset \in Nat /\ l.offset < Word /\ Word \in Nat
              /\ l.offset < d.numBlocks /\ 0 < l.size
          BY <1>3, <3>1
        <5> QED
          BY <5>1
      <4> QED
        BY <1>1, <1>2, <4>1 DEF Readable
    <3>3. Takes => Readable(Candidate, Candidate.firstFat)
      BY <1>4, <1>5, <2>2
    <3>4. \A h \in Needs : Readable(Candidate, h)
      BY <2>2, <3>2, <3>3 DEF Needs
    <3> QED
      BY <2>2, <3>4 DEF InRange
  <2> QED
    BY <2>1, <2>2
<1> QED
  BY <1>4, <1>5, <1>6

(* The loop of SD::threadMain. *)
LEMMA LineIsDone ==
    ASSUME NEW n \in CardNumbers, card = n, Sound(Cards[n]), Listing(Cards[n]), line \in Lines, Mount
    PROVE  Listing(Cards[n])' /\ line' \in Lines
<1> DEFINE d == Cards[n]
           v == TheVolume(d)
<1>1. /\ stage = "mount" /\ out' = out
      /\ fs' = IF Mounts /\ Takes /\ Block(Candidate, Candidate.firstFat).clean THEN Candidate ELSE fs
      /\ \/ line = 4 /\ stage' = "mounted" /\ line' = line
         \/ line # 4 /\ stage' = "mount" /\ line' = line + 1
  BY DEF Mount
<1>2. line' \in Lines
  BY <1>1 DEF Lines
<1>3. Mounted(d) /\ out = <<>>
  BY <1>1 DEF Listing, Mounting, Mounted
<1>4. \A j \in 1 .. (line' - 1) : j \in 1 .. (line - 1) \/ j = line
  BY <1>1 DEF Lines
<1>5. Mounted(d)'
  <2>1. CASE fs = v
    <3>1. v.total # 0
      <4>1. Usable(d, v)
        BY SoundIs
      <4> QED
        BY <4>1 DEF Usable
    <3>2. ~Mounts
      BY <2>1, <3>1 DEF Mounts
    <3>3. fs' = v
      BY <1>1, <2>1, <3>2
    <3> QED
      BY <1>1, <1>3, <3>3 DEF Mounted
  <2>2. CASE fs # v
    <3>1. fs = NoFs /\ \A j \in 1 .. (line - 1) : ~MayMount(d, d.blocks[0].lines[j])
      BY <1>1, <1>3, <2>2 DEF Mounted
    <3>2. CASE MayMount(d, d.blocks[0].lines[line])
      <4>1. fs' = v
        BY <1>1, <3>1, <3>2, LineAtHand
      <4> QED
        BY <1>1, <1>3, <4>1 DEF Mounted
    <3>3. CASE ~MayMount(d, d.blocks[0].lines[line])
      <4>1. ~(Mounts /\ Takes)
        BY <1>1, <3>1, <3>3, LineAtHand
      <4>2. fs' = NoFs
        BY <1>1, <3>1, <4>1
      <4>3. \A j \in 1 .. (line' - 1) : ~MayMount(d, d.blocks[0].lines[j])
        BY <1>4, <3>1, <3>3
      <4> HIDE DEF d, v
      <4> QED
        BY <1>1, <1>3, <4>2, <4>3 DEF Mounted
    <3> QED
      BY <3>2, <3>3
  <2> QED
    BY <2>1, <2>2
<1>6. Listing(d)'
  BY <1>1, <1>5 DEF Listing, Mounting, Iterating
<1> QED
  BY <1>2, <1>6

(* What the listing goes through. *)
LEMMA AtWork ==
    ASSUME NEW n \in CardNumbers, card = n, Sound(Cards[n]), Listing(Cards[n]), stage \in Iterating
    PROVE  Usable(Cards[n], fs) /\ Cards[n] = Disk /\ InListing(Cards[n], fs) /\ fs = TheVolume(Cards[n])
<1>1. fs = TheVolume(Cards[n]) /\ InListing(Cards[n], fs)
  BY DEF Listing
<1>2. Usable(Cards[n], TheVolume(Cards[n]))
  BY SoundIs
<1> QED
  BY <1>1, <1>2 DEF Disk

(* Nothing the code asserts of a sound card fails (fat.cpp:187, partition.cpp:115). *)
LEMMA NothingAsserts ==
    ASSUME NEW n \in CardNumbers, card = n, Sound(Cards[n]), Listing(Cards[n]), line \in Lines, Needs # {}
    PROVE  InRange
<1>1. CASE stage \in Iterating
  <2>1. PICK d, v : d = Cards[n] /\ v = fs
    OBVIOUS
  <2>2. Usable(d, v) /\ d = Disk /\ v = fs /\ InListing(d, v)
    BY <1>1, <2>1, AtWork
  <2> QED
    BY <1>1, <2>2, InRangeThere
<1>2. CASE stage \notin Iterating
  <2>1. Mounts
    BY <1>2 DEF Needs, Iterating
  <2>2. stage = "mount" /\ fs.total = 0
    BY <2>1 DEF Mounts
  <2>3. fs # TheVolume(Cards[n])
    <3>1. Usable(Cards[n], TheVolume(Cards[n]))
      BY SoundIs
    <3>2. TheVolume(Cards[n]).total # 0
      BY <3>1 DEF Usable
    <3> QED
      BY <2>2, <3>2
  <2>4. fs = NoFs /\ \A j \in 1 .. (line - 1) : ~MayMount(Cards[n], Cards[n].blocks[0].lines[j])
    BY <2>2, <2>3 DEF Listing, Mounting, Mounted
  <2> QED
    BY <2>2, <2>4, LineAtHand
<1> QED
  BY <1>1, <1>2

(* What a step of the listing comes to, as the invariant has it. *)
LEMMA Restated ==
    ASSUME NEW d,
           \/ stage' \in Iterating /\ fs' = TheVolume(d) /\ InListing(d, TheVolume(d))'
           \/ stage' = "done" /\ out' = Dumps(d, TheVolume(d), Slots(d, TheVolume(d)))
    PROVE  Listing(d)'
<1>1. CASE stage' \in Iterating /\ fs' = TheVolume(d) /\ InListing(d, TheVolume(d))'
  <2>1. (InListing(d, fs))'
    BY <1>1 DEF InListing, AtSlot, Within
  <2>2. stage' \notin Mounting /\ stage' # "done" /\ stage' # "failed"
    BY <1>1 DEF Iterating, Mounting
  <2> QED
    BY <1>1, <2>1, <2>2 DEF Listing
<1>2. CASE stage' = "done" /\ out' = Dumps(d, TheVolume(d), Slots(d, TheVolume(d)))
  BY <1>2 DEF Listing, Mounting, Iterating, Wanted
<1> QED
  BY <1>1, <1>2

(* A step keeps the invariant: in the listing of a sound card it is one of  *)
(* the steps above, and whatever else happens, the card stays what it is.   *)
LEMMA FilesStep ==
    ASSUME FilesInv, [FilesNext]_filesVars
    PROVE  FilesInv'
<1>1. PICK n \in CardNumbers : card = n
  BY DEF FilesInv
<1> DEFINE d == Cards[n]
<1>2. CASE UNCHANGED filesVars
  <2>1. /\ card' = card /\ wanted' = wanted /\ stage' = stage /\ line' = line /\ fs' = fs
        /\ dir' = dir /\ file' = file /\ out' = out
    BY <1>2 DEF filesVars
  <2>2. Disk' = Disk
    BY <2>1 DEF Disk
  <2>3. Listing(Disk)' = Listing(Disk)
    BY <2>1, <2>2 DEF Listing, Mounted, InListing, AtSlot, Within
  <2> QED
    BY <2>1, <2>2, <2>3 DEF FilesInv
<1>3. CASE FilesNext
  <2>1. card' = card /\ wanted' = wanted /\ (line' = line \/ Mount)
    BY <1>3 DEF FilesNext, ReadTable, Mount, List, Visit, FileBlock, FileEnd, Advance, Link, Load,
                Asserts, CardFails
  <2>2. Disk' = Disk /\ Disk = d
    BY <1>1, <2>1 DEF Disk
  <2>3. wanted = Expected(d) /\ line \in Lines /\ (Sound(d) => Listing(d))
    BY <2>2 DEF FilesInv
  <2>4. line' \in Lines
    BY <2>1, <2>3 DEF Mount, Lines
  <2>5. ASSUME Sound(d) PROVE Listing(d)'
    <3>1. Listing(d)
      BY <2>3, <2>5
    <3>2. CASE ReadTable
      BY <1>1, <2>5, <3>1, <3>2, TableIsRead
    <3>3. CASE Mount
      BY <1>1, <2>3, <2>5, <3>1, <3>3, LineIsDone
    <3>4. CASE List
      <4>1. stage = "mounted" /\ fs.total # 0
        BY <3>4 DEF List
      <4>2. out = <<>> /\ fs = TheVolume(d)
        <5>1. Mounted(d)
          BY <3>1, <4>1 DEF Listing, Mounting
        <5>2. fs # NoFs
          BY <4>1 DEF NoFs
        <5> QED
          BY <4>1, <5>1, <5>2 DEF Mounted
      <4>3. Usable(d, TheVolume(d))
        BY <2>5, SoundIs
      <4>4. stage' \in Iterating /\ fs' = TheVolume(d) /\ InListing(d, TheVolume(d))'
        BY <3>4, <4>2, <4>3, BeginsFile
      <4> QED
        BY <4>4, Restated
    <3>5. CASE Visit \/ FileBlock \/ FileEnd \/ Advance \/ Link \/ Load
      <4>1. stage \in Iterating
        BY <3>5 DEF Iterating, Visit, FileBlock, FileEnd, Advance, Link, Load
      <4>2. PICK v : v = TheVolume(d)
        OBVIOUS
      <4>3. Usable(d, v) /\ d = Disk /\ v = fs /\ InListing(d, v)
        BY <1>1, <2>5, <3>1, <4>1, <4>2, AtWork
      <4> HIDE DEF d
      <4>4. \/ stage' \in Iterating /\ fs' = v /\ InListing(d, v)'
            \/ stage' = "done" /\ out' = Dumps(d, v, Slots(d, v))
        <5>1. CASE Visit
          BY <4>3, <5>1, Visits
        <5>2. CASE FileBlock
          BY <4>3, <5>2, SendsBlock
        <5>3. CASE FileEnd
          BY <4>3, <5>3, EndsFile
        <5>4. CASE Advance
          BY <4>3, <5>4, AdvancesBy
        <5>5. CASE Link
          BY <4>3, <5>5, Links
        <5>6. CASE Load
          BY <4>3, <5>6, Loads
        <5> QED
          BY <3>5, <5>1, <5>2, <5>3, <5>4, <5>5, <5>6
      <4> QED
        BY <4>2, <4>4, Restated
    <3>6. CASE Asserts
      BY <1>1, <2>3, <2>5, <3>1, <3>6, NothingAsserts DEF Asserts
    <3>7. CASE CardFails
      <4>1. CASE stage = "table"
        <5>1. /\ stage' = "mounted" /\ fs' = fs /\ out' = out /\ line' = line
          BY <3>7, <4>1 DEF CardFails
        <5>2. fs = NoFs /\ line = 1 /\ out = <<>>
          BY <3>1, <4>1 DEF Listing, Mounting, Mounted
        <5>3. 1 .. (line' - 1) = {}
          BY <5>1, <5>2
        <5> HIDE DEF d
        <5>4. Mounted(d)'
          BY <5>1, <5>2, <5>3 DEF Mounted
        <5> QED
          BY <5>1, <5>4 DEF Listing, Mounting, Iterating
      <4>2. CASE stage # "table"
        <5>1. stage' = "failed" /\ out' = out /\ Needs # {}
          BY <3>7, <4>2 DEF CardFails
        <5>2. IsPrefix(out, Wanted(d))
          <6>1. CASE stage \in Iterating
            <7>1. PICK v : v = TheVolume(d)
              OBVIOUS
            <7>2. Usable(d, v) /\ d = Disk /\ v = fs /\ InListing(d, v)
              BY <1>1, <2>5, <3>1, <6>1, <7>1, AtWork
            <7> HIDE DEF d
            <7>3. IsPrefix(out, Dumps(d, v, Slots(d, v)))
              BY <6>1, <7>2, Begun
            <7> QED
              BY <7>1, <7>3 DEF Wanted
          <6>2. CASE stage \notin Iterating
            <7>1. stage = "mount"
              BY <5>1, <6>2 DEF Needs, Mounts, Iterating
            <7>2. out = <<>>
              BY <3>1, <7>1 DEF Listing, Mounting, Mounted
            <7>3. Usable(d, TheVolume(d)) /\ Slots(d, TheVolume(d)) \in Nat
              <8>1. Usable(d, TheVolume(d))
                BY <2>5, SoundIs
              <8>2. Len(Chain(d, TheVolume(d), 2)) \in Nat /\ EntriesPerSector \in Nat
                BY <8>1, DirChain, FilesAssumption
              <8> QED
                BY <8>1, <8>2 DEF Slots
            <7>4. IsPrefix(Dumps(d, TheVolume(d), 0), Dumps(d, TheVolume(d), Slots(d, TheVolume(d))))
              <8> HIDE DEF d
              <8>1. 0 \in Nat /\ 0 <= Slots(d, TheVolume(d))
                BY <7>3
              <8> QED
                BY <7>3, <8>1, UpTo
            <7>5. Dumps(d, TheVolume(d), 0) = <<>>
              BY <7>3, DumpsIs
            <7> QED
              BY <7>2, <7>4, <7>5 DEF Wanted
          <6> QED
            BY <6>1, <6>2
        <5> QED
          BY <5>1, <5>2 DEF Listing, Mounting, Iterating
      <4> QED
        BY <4>1, <4>2
    <3> QED
      BY <1>3, <3>2, <3>3, <3>4, <3>5, <3>6, <3>7 DEF FilesNext
  <2>6. card' \in CardNumbers
    BY <1>1, <2>1
  <2>7. wanted' = Expected(Disk')
    BY <2>1, <2>2, <2>3
  <2>8. Sound(Disk') => Listing(Disk)'
    BY <2>2, <2>5
  <2> QED
    BY <2>4, <2>6, <2>7, <2>8 DEF FilesInv
<1> QED
  BY <1>2, <1>3

(* The initial states. *)
LEMMA FilesStarts == FilesInit => FilesInv
<1> SUFFICES ASSUME FilesInit PROVE FilesInv
  OBVIOUS
<1>1. card \in CardNumbers /\ wanted = Expected(Disk) /\ line = 1
  BY DEF FilesInit, Disk
<1>2. stage = "table" /\ fs = NoFs /\ out = <<>>
  BY DEF FilesInit
<1>3. Listing(Disk)
  BY <1>1, <1>2 DEF Listing, Mounting, Iterating, Mounted
<1> QED
  BY <1>1, <1>3 DEF FilesInv, Lines

(* The invariant holds of every behaviour. *)
THEOREM FilesSafety == FilesSpec => []FilesInv
<1> QED
  BY FilesStarts, FilesStep, PTL DEF FilesSpec

(* What start_8bit has sent of a sound card is the beginning of the text    *)
(* files that the rules of the format give, and all of them when the        *)
(* listing ends; no assertion stops it (main.cpp:77, fat.cpp:203, 320).     *)
THEOREM DumpsFilesAlways == FilesSpec => []DumpsFiles
<1>1. FilesInv => DumpsFiles
  <2> SUFFICES ASSUME FilesInv, wanted.sound
               PROVE  /\ IsPrefix(out, wanted.out)
                      /\ stage = "done" => out = wanted.out
                      /\ stage \notin {"asserted", "halted"}
    BY DEF DumpsFiles
  <2>1. PICK n \in CardNumbers : card = n
    BY DEF FilesInv
  <2> DEFINE d == Cards[n]
  <2>2. Disk = d /\ wanted = Expected(d)
    BY <2>1 DEF FilesInv, Disk
  <2>3. Sound(d) /\ wanted.out = Wanted(d)
    BY <2>2 DEF Expected
  <2>4. Listing(d)
    BY <2>2, <2>3 DEF FilesInv
  <2>5. stage \notin {"asserted", "halted"} /\ (stage = "done" => out = wanted.out)
    BY <2>3, <2>4 DEF Listing, Mounting, Iterating
  <2>6. Usable(d, TheVolume(d))
    BY <2>3, SoundIs
  <2>7. \A m \in Nat : Dumps(d, TheVolume(d), m) \in Seq(Pieces(d, TheVolume(d)))
    BY <2>6, DumpsIs
  <2>8. Slots(d, TheVolume(d)) \in Nat
    <3>1. Len(Chain(d, TheVolume(d), 2)) \in Nat /\ EntriesPerSector \in Nat
      BY <2>6, DirChain, FilesAssumption
    <3> QED
      BY <3>1 DEF Slots
  <2>9. IsPrefix(out, Wanted(d))
    <3>1. CASE stage \in Mounting
      <4>1. out = <<>>
        BY <2>4, <3>1 DEF Listing, Mounted
      <4> HIDE DEF d
      <4>2. 0 \in Nat /\ 0 <= Slots(d, TheVolume(d))
        BY <2>8
      <4>3. IsPrefix(Dumps(d, TheVolume(d), 0), Dumps(d, TheVolume(d), Slots(d, TheVolume(d))))
        BY <2>6, <2>8, <4>2, UpTo
      <4>4. Dumps(d, TheVolume(d), 0) = <<>>
        BY <2>6, DumpsIs
      <4> QED
        BY <4>1, <4>3, <4>4 DEF Wanted
    <3>2. CASE stage \in Iterating
      <4>1. PICK v : v = TheVolume(d)
        OBVIOUS
      <4>2. Usable(d, v) /\ d = Disk /\ v = fs /\ InListing(d, v)
        BY <2>1, <2>3, <2>4, <3>2, <4>1, AtWork
      <4> HIDE DEF d
      <4>3. IsPrefix(out, Dumps(d, v, Slots(d, v)))
        BY <3>2, <4>2, Begun
      <4> QED
        BY <4>1, <4>3 DEF Wanted
    <3>3. CASE stage = "done"
      <4>1. out = Wanted(d)
        BY <2>4, <3>3 DEF Listing
      <4> HIDE DEF d
      <4>2. Slots(d, TheVolume(d)) <= Slots(d, TheVolume(d))
        BY <2>8
      <4>3. IsPrefix(Dumps(d, TheVolume(d), Slots(d, TheVolume(d))),
                     Dumps(d, TheVolume(d), Slots(d, TheVolume(d))))
        BY <2>6, <2>8, <4>2, UpTo
      <4> QED
        BY <4>1, <4>3 DEF Wanted
    <3>4. CASE stage = "failed"
      BY <2>4, <3>4 DEF Listing
    <3> QED
      BY <2>4, <3>1, <3>2, <3>3, <3>4 DEF Listing
  <2> QED
    BY <2>3, <2>5, <2>9
<1> QED
  BY <1>1, FilesSafety, PTL

=============================================================================
