------------------------------- MODULE Frames -------------------------------
(***************************************************************************)
(* The command line of the SD controller (sd.sv) bit by bit: a command goes *)
(* out with its CRC, a reply comes in and its CRC is checked by the shift   *)
(* register crc.sv.  SdController has the same states as single steps.      *)
(* Each action is one cycle of the clock of the card.                       *)
(***************************************************************************)
EXTENDS Integers, Sequences, FiniteSets

CONSTANTS
    Requests,       \* what is written to the registers: see Request
    Payloads,       \* what a reply carries
    MaxBurst,       \* how many bits in a row a fault may spoil
    ReplyWait       \* REPLY_WAIT_CYCLES

VARIABLES
    cmdState, bitsLeft, crc, buffer,    \* cmd_state, cmd_io_buffer_fill, cmd_crc_value, cmd_io_buffer
    asks,           \* the command, its argument, and what is to be the reply
    wire,           \* the bits driven onto the line since the command began
    payload, spoilt,    \* what the card replies, and which of its bits are spoilt on the way
    coming,         \* the bits of the reply still to come; <<>> if there is none
    errors          \* cdc_reply_error_sd

framesVars == <<cmdState, bitsLeft, crc, buffer, asks, wire, payload, spoilt, coming, errors>>

Start == 0
Stop == 1
CmdBits == 6
CrcBits == 7
Ones(n) == [i \in 1..n |-> 1]
Zeros(n) == [i \in 1..n |-> 0]

(* reply is "none", "short", "long" (R2), or "raw": the reply to ACMD41 has *)
(* no CRC, but ones in its place.                                           *)
Request(cmd, args, reply) == [cmd |-> cmd, args |-> args, reply |-> reply]

(* last_cmd_sd: these two have ones in the place of the command, too.       *)
LastCmd(r) == IF r.reply \in {"long", "raw"} THEN Ones(CmdBits) ELSE r.cmd

Bit == {0, 1}

(* A burst that is not longer than the CRC can be told from no fault.       *)
ASSUME FramesAssumption ==
    /\ \A r \in Requests : /\ r.cmd \in Seq(Bit) /\ Len(r.cmd) = CmdBits
                            /\ r.args \in Seq(Bit)
                            /\ r.reply \in {"none", "short", "long", "raw"}
    /\ Payloads \subseteq Seq(Bit) \ {<<>>}
    /\ MaxBurst \in 0..CrcBits /\ ReplyWait \in Nat

-----------------------------------------------------------------------------
(* crc.sv. *)

Xor(s, t) == [i \in DOMAIN s |-> (s[i] + t[i]) % 2]

Polynom == <<0, 0, 0, 1, 0, 0, 1>>

(* Mutation: the bit that comes in is not looked at. *)
ClockedBlind(c, bit) ==
    LET shifted == Tail(c) \o <<0>> IN
    IF Head(c) = 1 THEN Xor(shifted, Polynom) ELSE shifted

Clocked(c, bit) ==
    LET shifted == Tail(c) \o <<0>> IN
    IF Head(c) # bit THEN Xor(shifted, Polynom) ELSE shifted

(* Mutation: a long reply is treated as a short one. *)
SeedZero(long) == Zeros(CrcBits)

(* The seed of a long reply becomes zero by the end of its header.          *)
Seed(long) == IF long THEN <<0>> \o Ones(CmdBits) ELSE Zeros(CrcBits)

Long == asks.reply = "long"

-----------------------------------------------------------------------------
(* What the standard says: the remainder of a division of polynomials, the  *)
(* message times x^7 by x^7 + x^3 + 1.                                      *)

Divisor == <<1>> \o Polynom

(* One step: the divisor is taken off where bit i is one. *)
Divided(d, i) ==
    IF d[i] = 0 THEN d
    ELSE [j \in DOMAIN d |->
             IF j \in i..(i + CrcBits) THEN (d[j] + Divisor[j - i + 1]) % 2 ELSE d[j]]

Remainder(message) ==
    LET n == Len(message)
        after[i \in 0..n] ==
            IF i = 0 THEN message \o Zeros(CrcBits) ELSE Divided(after[i - 1], i)
    IN  SubSeq(after[n], n + 1, n + CrcBits)

CommandFrame(r) ==
    LET body == <<Start, 1>> \o r.cmd \o r.args IN
    body \o Remainder(body) \o <<Stop>>

(* The CRC of a long reply leaves out its header.                           *)
ReplyFrame(r, p) ==
    LET header == <<Start, 0>> \o LastCmd(r)
        check == CASE r.reply = "short" -> Remainder(header \o p)
                   [] r.reply = "long" -> Remainder(p)
                   [] r.reply = "raw" -> Ones(CrcBits)
    IN  header \o p \o check \o <<Stop>>

(* The faults: a burst of bits is inverted, but not the start bit.          *)
Faults(n) == {b \in {i..j : i, j \in 2..n} : Cardinality(b) <= MaxBurst}

Inverted(s, bits) == [i \in DOMAIN s |-> IF i \in bits THEN 1 - s[i] ELSE s[i]]

-----------------------------------------------------------------------------
NoRequest == [cmd |-> <<>>, args |-> <<>>, reply |-> "none"]

FramesInit ==
    /\ cmdState = "IDLE" /\ bitsLeft = 0 /\ crc = Zeros(CrcBits) /\ buffer = <<>>
    /\ asks = NoRequest /\ wire = <<>>
    /\ payload = <<>> /\ spoilt = {} /\ coming = <<>>
    /\ errors = {}

CmdIdle ==
    /\ cmdState = "IDLE"
    /\ asks' \in Requests
    /\ cmdState' = "SEND_CMD"
    /\ buffer' = <<Start, 1>> \o asks'.cmd \o asks'.args
    /\ bitsLeft' = Len(buffer') - 1
    /\ crc' = Seed(FALSE)
    /\ wire' = <<>> /\ payload' = <<>> /\ spoilt' = {}
    /\ UNCHANGED <<coming, errors>>

Drive(bit) == wire' = Append(wire, bit)

SendCmd ==
    /\ cmdState = "SEND_CMD"
    /\ errors' = {}
    /\ Drive(Head(buffer))
    /\ crc' = Clocked(crc, Head(buffer))
    /\ buffer' = Tail(buffer)
    /\ IF bitsLeft = 0 THEN cmdState' = "SEND_CRC" /\ bitsLeft' = CrcBits - 1
       ELSE bitsLeft' = bitsLeft - 1 /\ UNCHANGED cmdState
    /\ UNCHANGED <<asks, payload, spoilt, coming>>

(* The first bit comes from the register, which then goes to the buffer.    *)
SendCrc ==
    /\ cmdState = "SEND_CRC"
    /\ IF bitsLeft = CrcBits - 1 THEN Drive(Head(crc)) /\ buffer' = Tail(crc)
       ELSE Drive(Head(buffer)) /\ buffer' = Tail(buffer)
    /\ bitsLeft' = bitsLeft - 1
    /\ cmdState' = IF bitsLeft = 0 THEN "SEND_STOP" ELSE cmdState
    /\ UNCHANGED <<crc, asks, payload, spoilt, coming, errors>>

(* The card hears the command and replies, or does not.                     *)
SendStop ==
    /\ cmdState = "SEND_STOP"
    /\ Drive(Stop)
    /\ IF asks.reply = "none"
       THEN cmdState' = "IDLE" /\ UNCHANGED <<bitsLeft, payload, spoilt, coming>>
       ELSE /\ cmdState' = "RECV_PENDING"
            /\ bitsLeft' = ReplyWait - 1
            /\ payload' \in Payloads
            /\ LET frame == ReplyFrame(asks, payload') IN
               \/ /\ spoilt' \in Faults(Len(frame))
                  /\ coming' = Inverted(frame, spoilt')
               \/ coming' = <<>> /\ UNCHANGED spoilt
    /\ UNCHANGED <<crc, buffer, asks, errors>>

(* The card answers some time later, or too late. *)
RecvPending ==
    /\ cmdState = "RECV_PENDING"
    /\ crc' = Seed(Long)
    /\ \/ /\ coming # <<>>
          /\ cmdState' = "RECV_HEADER"
          /\ bitsLeft' = CmdBits
          /\ buffer' = <<Head(coming)>>
          /\ coming' = Tail(coming)
          /\ UNCHANGED errors
       \/ /\ bitsLeft' = bitsLeft - 1
          /\ IF bitsLeft = 0
             THEN cmdState' = "IDLE" /\ errors' = {"timeout"} /\ coming' = <<>>
             ELSE UNCHANGED <<cmdState, errors, coming>>
          /\ UNCHANGED buffer
    /\ UNCHANGED <<asks, wire, payload, spoilt>>

Take == buffer' = Append(buffer, Head(coming)) /\ coming' = Tail(coming)

(* The received command is compared before the last of its bits is shifted  *)
(* in.                                                                      *)
RecvHeader ==
    /\ cmdState = "RECV_HEADER"
    /\ Take
    /\ crc' = Clocked(crc, Head(coming))
    /\ IF bitsLeft = 0
       THEN /\ cmdState' = "RECV_DATA"
            /\ bitsLeft' = Len(payload) - 1
            /\ errors' = IF SubSeq(buffer', Len(buffer') - CmdBits + 1, Len(buffer')) # LastCmd(asks)
                         THEN {"mismatch"} ELSE errors
       ELSE bitsLeft' = bitsLeft - 1 /\ UNCHANGED <<cmdState, errors>>
    /\ UNCHANGED <<asks, wire, payload, spoilt>>

RecvData ==
    /\ cmdState = "RECV_DATA"
    /\ Take
    /\ crc' = Clocked(crc, Head(coming))
    /\ IF bitsLeft = 0 THEN cmdState' = "RECV_CRC" /\ bitsLeft' = CrcBits - 1
       ELSE bitsLeft' = bitsLeft - 1 /\ UNCHANGED cmdState
    /\ UNCHANGED <<asks, wire, payload, spoilt, errors>>

RecvCrc ==
    /\ cmdState = "RECV_CRC"
    /\ Take
    /\ bitsLeft' = bitsLeft - 1
    /\ cmdState' = IF bitsLeft = 0 THEN "RECV_STOP" ELSE cmdState
    /\ UNCHANGED <<crc, asks, wire, payload, spoilt, errors>>

RecvStop ==
    /\ cmdState = "RECV_STOP"
    /\ Take
    /\ errors' = errors
            \cup (IF Head(coming) # 1 THEN {"invalid"} ELSE {})
            \cup (IF SubSeq(buffer, Len(buffer) - CrcBits + 1, Len(buffer)) # crc THEN {"crc"} ELSE {})
    /\ cmdState' = "IDLE"
    /\ UNCHANGED <<bitsLeft, crc, asks, wire, payload, spoilt>>

FramesNext ==
    \/ CmdIdle \/ SendCmd \/ SendCrc \/ SendStop
    \/ RecvPending \/ RecvHeader \/ RecvData \/ RecvCrc \/ RecvStop

FramesSpec == FramesInit /\ [][FramesNext]_framesVars

-----------------------------------------------------------------------------
FramesTypeOK ==
    /\ cmdState \in {"IDLE", "SEND_CMD", "SEND_CRC", "SEND_STOP", "RECV_PENDING", "RECV_HEADER",
                     "RECV_DATA", "RECV_CRC", "RECV_STOP"}
    /\ bitsLeft \in Int /\ Len(crc) = CrcBits
    /\ errors \subseteq {"timeout", "mismatch", "invalid", "crc"}

(* A command is on the line with the CRC of the standard, and a reply that  *)
(* was heard to its end is in order exactly if it came as the card sent it, *)
(* a long one included, whose CRC leaves out the header it is computed      *)
(* over, and every burst of spoilt bits that a CRC of its length must       *)
(* detect (sd.sv:236, 355, 444; crc.sv:24).                                 *)
FramesChecked ==
    /\ cmdState \in {"RECV_PENDING", "IDLE"} /\ asks # NoRequest => wire = CommandFrame(asks)
    /\ cmdState = "IDLE" /\ asks.reply # "none" /\ "timeout" \notin errors =>
            /\ asks.reply # "raw" => (errors = {} <=> spoilt = {})
            /\ spoilt = {} => SubSeq(buffer, 3 + CmdBits, 2 + CmdBits + Len(payload)) = payload

=============================================================================
