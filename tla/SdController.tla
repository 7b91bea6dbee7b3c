---------------------------- MODULE SdController ----------------------------
(***************************************************************************)
(* The SD controller, sources_1/new/sd.sv, and the card in its slot.        *)
(*                                                                         *)
(* A write to its registers crosses to the clock of the card in a handshake *)
(* that holds one word; a state machine for commands takes it there.  A     *)
(* second state machine receives a block, counts its bits, and puts it into *)
(* a short pipeline, word by word, from which a DMA stores it.              *)
(***************************************************************************)
EXTENDS Naturals, Sequences

CONSTANTS
    Cards,
    SupportedCards, \* those that do not answer CMD8 (sd.cpp:331)
    Nothing,
    Blocks,         \* the blocks of a card
    BlockWords,     \* SD::BlockSize, in words of the DMA
    CounterSpan,    \* values of sd_data_bits_counter, in words of the DMA
    PipelineLength, \* SD_CDC_PIPELINE_LEN
    PoolBlocks      \* SD::BlocksPoolSize

ASSUME SdControllerAssumption ==
    /\ SupportedCards \subseteq Cards
    /\ Nothing \notin Cards
    /\ Blocks \subseteq Nat /\ 0 \in Blocks
    /\ BlockWords \in Nat \ {0}
    /\ CounterSpan \in Nat \ {0} /\ BlockWords <= CounterSpan
    /\ PipelineLength \in Nat \ {0}
    /\ PoolBlocks \in Nat \ {0}

VARIABLES
    slot,       \* the card in the slot, or Nothing
    cardState,  \* where it is in its own state machine
    appNext,    \* its last command was CMD55
    sending,    \* the block it is about to send or sends
    cdc,        \* cmd_cdc_data_ctrl, while cmd_cdc_valid_ctrl
    cdcOut,     \* cmd_cdc_data, which keeps the last word that came across
    cmdState,   \* cmd_state
    command,    \* the command sent: last_cmd_sd, reply_type_sd
    answer,     \* the reply of the card that is on its way
    cmdBusy, cmdError, lastReply,
    dataState, dataError,
    crcWrong,   \* data_crc_value is not what the card computed
    left,       \* sd_data_bits_counter
    pipe,       \* the valid words of data_pipeline, oldest first
    dmaAddress, \* dma_address
    memory      \* the pool of blocks

card == <<slot, cardState, appNext, sending>>
cmdPath == <<cdc, cdcOut, cmdState, command, answer, cmdBusy, cmdError, lastReply>>
dataPath == <<dataState, dataError, crcWrong, left, pipe>>
store == <<dmaAddress, memory>>
sdVars == <<card, cmdPath, dataPath, store>>

-----------------------------------------------------------------------------
Junk == <<>>

Word(c, b, i) == <<c, b, i>>

Words == {Word(c, b, i) : c \in Cards, b \in Blocks, i \in 0 .. BlockWords - 1} \cup {Junk}

Addresses == 0 .. PoolBlocks * BlockWords - 1

(* What the driver looks at in a reply: bit 5 of a status, bit 31 of the    *)
(* operating conditions, the relative address.                              *)
Plain == [app |-> FALSE, ready |-> FALSE, addr |-> Nothing]

Replies == [app : BOOLEAN, ready : BOOLEAN, addr : Cards \cup {Nothing}]

Commands == {"CMD0", "CMD2", "CMD3", "CMD7", "CMD8", "CMD9", "CMD17", "CMD55", "ACMD41"}

Messages ==
    [cmd : Commands \cup {"params"}, arg : Nat \cup Cards \cup {Nothing},
     flags : SUBSET {"reply", "long", "data"}]

(* What is not there is none of what could be there. *)
ASSUME NothingAssumption == Nothing \notin Nat \cup Messages \cup Replies

SdTypeOK ==
    /\ slot \in Cards \cup {Nothing}
    /\ cardState \in {"idle", "starting", "ready", "ident", "stby", "tran"}
    /\ appNext \in BOOLEAN
    /\ sending \in Blocks \cup {Nothing}
    /\ cdc \in Messages \cup {Nothing}
    /\ cdcOut \in Messages \cup {Nothing}
    /\ cmdState \in {"idle", "send", "pending"}
    /\ command \in Messages \cup {Nothing}
    /\ answer \in Replies \cup {Nothing}
    /\ cmdBusy \in BOOLEAN
    /\ cmdError \subseteq {"timeout", "garbled"}
    /\ lastReply \in Replies
    /\ dataState \in {"idle", "wait", "recv", "crc"}
    /\ dataError \subseteq {"timeout", "crc", "overrun"}
    /\ crcWrong \in BOOLEAN
    /\ left \in 0 .. CounterSpan - 1
    /\ pipe \in Seq(Words) /\ Len(pipe) <= PipelineLength
    /\ dmaAddress \in Addresses \cup {PoolBlocks * BlockWords}
    /\ memory \in [Addresses -> Words]

SdInit ==
    /\ slot \in Cards \cup {Nothing}
    /\ cardState = "idle"
    /\ appNext = FALSE
    /\ sending = Nothing
    /\ cdc = Nothing
    /\ cdcOut = Nothing
    /\ cmdState = "idle"
    /\ command = Nothing
    /\ answer = Nothing
    /\ cmdBusy = FALSE
    /\ cmdError = {}
    /\ lastReply = Plain
    /\ dataState = "idle"
    /\ dataError = {}
    /\ crcWrong = FALSE
    /\ left = 0
    /\ pipe = <<>>
    /\ dmaAddress = 0
    /\ memory = [a \in Addresses |-> Junk]

-----------------------------------------------------------------------------
(* The card, as the driver relies on it.  It answers nothing that is out of *)
(* order, and needs a while between the first ACMD41 and being ready.       *)

Expected ==
    CASE command.cmd = "CMD8" -> cardState = "idle" /\ slot \notin SupportedCards
      [] command.cmd = "CMD55" -> cardState \in {"idle", "starting"}
      [] command.cmd = "ACMD41" -> appNext /\ cardState \in {"idle", "starting"}
      [] command.cmd = "CMD2" -> cardState = "ready"
      [] command.cmd = "CMD3" -> cardState = "ident"
      [] command.cmd = "CMD9" -> cardState = "stby" /\ command.arg = slot
      [] command.cmd = "CMD7" -> cardState = "stby" /\ command.arg = slot
      [] command.cmd = "CMD17" -> cardState = "tran"
      [] OTHER -> FALSE

Becomes ==
    CASE command.cmd = "ACMD41" /\ cardState = "starting" -> {"starting", "ready"}
      [] command.cmd = "ACMD41" /\ cardState = "idle" -> {"starting"}
      [] command.cmd = "CMD2" -> {"ident"}
      [] command.cmd = "CMD3" -> {"stby"}
      [] command.cmd = "CMD7" -> {"tran"}
      [] OTHER -> {cardState}

Reply(after) ==
    [app |-> command.cmd = "CMD55",
     ready |-> command.cmd = "ACMD41" /\ after = "ready",
     addr |-> IF command.cmd = "CMD3" THEN slot ELSE Nothing]

(* CMD0 restarts the card, which does not answer it.                        *)
CardHears ==
    IF slot = Nothing \/ command.cmd = "CMD0" \/ ~Expected
    THEN /\ answer' = Nothing
         /\ cardState' = IF command.cmd = "CMD0" THEN "idle" ELSE cardState
         /\ sending' = IF command.cmd = "CMD0" THEN Nothing ELSE sending
         /\ appNext' = FALSE
    ELSE \E after \in Becomes :
         /\ cardState' = after
         /\ answer' = Reply(after)
         /\ sending' = IF command.cmd = "CMD17" THEN command.arg ELSE sending
         /\ appNext' = (command.cmd = "CMD55")

Insert(c) ==
    /\ slot = Nothing
    /\ slot' = c
    /\ UNCHANGED <<cardState, appNext, sending, cmdPath, dataPath, store>>

Remove ==
    /\ slot # Nothing
    /\ slot' = Nothing
    /\ cardState' = "idle"
    /\ appNext' = FALSE
    /\ sending' = Nothing
    /\ answer' = Nothing
    /\ UNCHANGED <<cdc, cdcOut, cmdState, command, cmdBusy, cmdError, lastReply, dataPath,
                   store>>

-----------------------------------------------------------------------------
(* Registers.  The bus acknowledges no access while a word crosses.         *)

Accessible == cdc = Nothing

(* Mutation: only short replies are waited for. *)
WriteCommandHasty(name, argument, flags) ==
    /\ Accessible
    /\ cdc' = [cmd |-> name, arg |-> argument, flags |-> flags]
    /\ cdcOut' = cdc'
    /\ cmdError' = {}
    /\ cmdBusy' = ("reply" \in flags /\ "long" \notin flags)
    /\ UNCHANGED <<card, cmdState, command, answer, lastReply, dataPath, store>>

(* A word is on the other side before the state machine there takes it.     *)
WriteCommand(name, argument, flags) ==
    /\ Accessible
    /\ cdc' = [cmd |-> name, arg |-> argument, flags |-> flags]
    /\ cdcOut' = cdc'
    /\ cmdError' = {}
    /\ cmdBusy' = ("reply" \in flags)
    /\ UNCHANGED <<card, cmdState, command, answer, lastReply, dataPath, store>>

WriteParams(size) ==
    /\ Accessible
    /\ cdc' = [cmd |-> "params", arg |-> size, flags |-> {}]
    /\ cdcOut' = cdc'
    /\ UNCHANGED <<card, cmdState, command, answer, cmdBusy, cmdError, lastReply, dataPath,
                   store>>

-----------------------------------------------------------------------------
(* The command state machine.                                               *)

(* A command that reads arms the receiver, if that is idle.                 *)
TakeCommand ==
    /\ cdc # Nothing /\ cdc.cmd # "params"
    /\ cmdState = "idle"
    /\ cdc' = Nothing
    /\ command' = cdc
    /\ cmdState' = "send"
    /\ IF "data" \in cdc.flags /\ dataState = "idle"
       THEN dataState' = "wait" /\ dataError' = {} /\ crcWrong' = FALSE
       ELSE UNCHANGED <<dataState, dataError, crcWrong>>
    /\ UNCHANGED <<card, cdcOut, answer, cmdBusy, cmdError, lastReply, left, pipe, store>>

(* A block of as many bits as the counter has values makes it 0, and the    *)
(* start bit makes it wrap around.                                          *)
TakeParams ==
    /\ cdc # Nothing /\ cdc.cmd = "params"
    /\ cmdState = "idle"
    /\ cdc' = Nothing
    /\ left' = cdc.arg % CounterSpan
    /\ pipe' = <<>>
    /\ UNCHANGED <<card, cdcOut, cmdState, command, answer, cmdBusy, cmdError, lastReply,
                   dataState, dataError, crcWrong, store>>

CommandSent ==
    /\ cmdState = "send"
    /\ cmdState' = IF "reply" \in command.flags THEN "pending" ELSE "idle"
    /\ CardHears
    /\ UNCHANGED <<slot, cdc, cdcOut, command, cmdBusy, cmdError, lastReply, dataPath, store>>

(* A reply spoilt on its way is told by its header, CRC or stop bit.  The   *)
(* driver looks at its flags all the same, which may then say anything.     *)
ReplyReceived ==
    /\ cmdState = "pending"
    /\ answer # Nothing
    /\ cmdState' = "idle"
    /\ answer' = Nothing
    /\ \/ cmdError' = {} /\ lastReply' = answer
       \/ cmdError' = {"garbled"} /\ lastReply' \in {r \in Replies : r.addr = answer.addr}
    /\ cmdBusy' = FALSE
    /\ UNCHANGED <<card, cdc, cdcOut, command, dataPath, store>>

(* The reply registers keep what they held.                                 *)
ReplyTimeout ==
    /\ cmdState = "pending"
    /\ answer = Nothing
    /\ cmdState' = "idle"
    /\ cmdError' = {"timeout"}
    /\ cmdBusy' = FALSE
    /\ UNCHANGED <<card, cdc, cdcOut, command, answer, lastReply, dataPath, store>>

-----------------------------------------------------------------------------
(* The data state machine.                                                  *)

DataStart ==
    /\ dataState = "wait"
    /\ sending # Nothing
    /\ dataState' = "recv"
    /\ left' = (left + CounterSpan - 1) % CounterSpan
    /\ UNCHANGED <<card, cmdPath, dataError, crcWrong, pipe, store>>

(* Two milliseconds, which not every card respects: its block goes unheard. *)
DataTimeout ==
    /\ dataState = "wait"
    /\ cmdState = "idle"
    /\ dataState' = "idle"
    /\ dataError' = dataError \cup {"timeout"}
    /\ sending' = Nothing
    /\ UNCHANGED <<slot, cardState, appNext, cmdPath, crcWrong, left, pipe, store>>

(* Mutation: an overrun is not reported. *)
DataWordSilent ==
    /\ dataState = "recv"
    /\ \E spoilt \in IF sending = Nothing THEN {TRUE} ELSE BOOLEAN :
         LET word == IF spoilt THEN Junk ELSE Word(slot, sending, BlockWords - 1 - left)
         IN /\ pipe' = IF Len(pipe) < PipelineLength THEN Append(pipe, word)
                       ELSE [pipe EXCEPT ![PipelineLength] = word]
            /\ crcWrong' = (crcWrong \/ spoilt)
    /\ dataError' = dataError
    /\ left' = (left + CounterSpan - 1) % CounterSpan
    /\ dataState' = IF left = 0 THEN "crc" ELSE "recv"
    /\ UNCHANGED <<card, cmdPath, store>>

(* A word is full.  If the pipeline is too, its last word is lost.          *)
DataWord ==
    /\ dataState = "recv"
    /\ \E spoilt \in IF sending = Nothing THEN {TRUE} ELSE BOOLEAN :
         LET word == IF spoilt THEN Junk ELSE Word(slot, sending, BlockWords - 1 - left)
         IN /\ pipe' = IF Len(pipe) < PipelineLength THEN Append(pipe, word)
                       ELSE [pipe EXCEPT ![PipelineLength] = word]
            /\ crcWrong' = (crcWrong \/ spoilt)
    /\ dataError' = IF Len(pipe) < PipelineLength THEN dataError
                    ELSE dataError \cup {"overrun"}
    /\ left' = (left + CounterSpan - 1) % CounterSpan
    /\ dataState' = IF left = 0 THEN "crc" ELSE "recv"
    /\ UNCHANGED <<card, cmdPath, store>>

DataEnd ==
    /\ dataState = "crc"
    /\ dataState' = "idle"
    /\ dataError' = IF crcWrong THEN dataError \cup {"crc"} ELSE dataError
    /\ sending' = Nothing
    /\ UNCHANGED <<slot, cardState, appNext, cmdPath, crcWrong, left, pipe, store>>

(* The word at the end of the pipeline stays there until it is stored.      *)
Dma ==
    /\ pipe # <<>>
    /\ memory' = [memory EXCEPT ![dmaAddress] = Head(pipe)]
    /\ dmaAddress' = dmaAddress + 1
    /\ pipe' = Tail(pipe)
    /\ UNCHANGED <<card, cmdPath, dataState, dataError, crcWrong, left>>

-----------------------------------------------------------------------------
Commanding == TakeCommand \/ TakeParams \/ CommandSent \/ ReplyReceived \/ ReplyTimeout

Receiving == DataStart \/ DataTimeout \/ DataWord \/ DataEnd

SdStep == Commanding \/ Receiving \/ Dma

SlotStep == Remove \/ \E c \in Cards : Insert(c)

=============================================================================
