-------------------------------- MODULE Cache --------------------------------
(***************************************************************************)
(* sources_1/new/cache.sv: the write-back cache between the CPU, the DMA    *)
(* masters and the DDR memory, and the arbiter of its ports.  It is direct  *)
(* mapped; an address is a line of the cache and the tag (source_address)   *)
(* that tells apart the addresses of one line.                              *)
(*                                                                         *)
(* A step is a rising clock edge at which something changes, or a port      *)
(* raising a request between two edges.  A command is accepted in the very  *)
(* cycle that completes the one before, and the block RAMs are read then:   *)
(* a read of the line being written returns the old line, which is what     *)
(* the prev_ registers are for.                                             *)
(***************************************************************************)
EXTENDS Integers

CONSTANTS
    Ports,      \* 0 is served first
    Lines, Tags, Bytes, Values,
    Requests,   \* what a port may ask for; a read has an empty mask
    None,
    NotFirst,   \* what prev_rd_addr and prev_wr_addr are initialized to
    BootState,  \* STATE_INIT, the metadata the bitstream loads
    BootImage,  \* INIT_FILE, the lines it loads
    PowerUp,    \* what the DDR memory holds then
    Zero        \* the value of a byte no register was given a value for

Addresses == [tag : Tags, line : Lines]

Data == [Bytes -> Values]

Metadata == [initialized : BOOLEAN, dirty : BOOLEAN, tag : Tags]

Commands == [port : Ports, addr : Addresses, mask : SUBSET Bytes, data : Data]

ASSUME CacheAssumption ==
    /\ Ports \subseteq Nat
    /\ Bytes # {}
    /\ Requests \subseteq [addr : Addresses, mask : SUBSET Bytes, data : Data]
    /\ None \notin Requests \cup Commands
    /\ NotFirst \in Lines
    /\ BootState \in [Lines -> Metadata]
    /\ BootImage \in [Lines -> Data]
    /\ PowerUp \in [Addresses -> Data]
    /\ Zero \in Values
    /\ ~BootState[NotFirst].dirty

VARIABLES
    state,      \* command_state
    active,     \* active_command
    mdMem,      \* cache_metadata
    cmMem,      \* cache_mem
    mdRead,     \* md_rd_dout_readback
    cmRead,     \* cm_rd_dout_readback
    prevRd,     \* prev_rd_addr
    prevWr,     \* prev_wr_addr
    prevMd,     \* prev_md_wr_din
    prevCm,     \* prev_cm_wr_din
    ddr,        \* the memory behind the backend port
    request,    \* req_valid and the request of each port
    answer      \* rsp_valid and rsp_data in the last cycle that did anything

ramVars == <<mdMem, cmMem, prevWr, prevMd, prevCm>>
readVars == <<mdRead, cmRead, prevRd>>
cacheVars == <<state, active, mdMem, cmMem, mdRead, cmRead, prevRd, prevWr,
               prevMd, prevCm, ddr, request, answer>>

-----------------------------------------------------------------------------
States == {"IDLE", "LOOKUP", "EVICTING", "FETCHING", "RESULT"}

TypeOK ==
    /\ state \in States
    /\ active \in Commands \cup {None}
    /\ mdMem \in [Lines -> Metadata]
    /\ cmMem \in [Lines -> Data]
    /\ mdRead \in Metadata
    /\ cmRead \in Data
    /\ prevRd \in Lines
    /\ prevWr \in Lines
    /\ prevMd \in Metadata
    /\ prevCm \in Data
    /\ ddr \in [Addresses -> Data]
    /\ request \in [Ports -> Requests \cup {None}]
    /\ answer \in [port : Ports, data : Data] \cup {None}

Zeroes == [b \in Bytes |-> Zero]

(* Registers without an initial value power up as zeros. *)
Blank == [initialized |-> FALSE, dirty |-> FALSE, tag |-> BootState[NotFirst].tag]

Init ==
    /\ state = "IDLE"
    /\ active = None
    /\ mdMem = BootState
    /\ cmMem = BootImage
    /\ mdRead = Blank
    /\ cmRead = Zeroes
    /\ prevRd = NotFirst
    /\ prevWr = NotFirst
    /\ prevMd = Blank
    /\ prevCm = Zeroes
    /\ ddr = PowerUp
    /\ request = [p \in Ports |-> None]
    /\ answer = None

-----------------------------------------------------------------------------
(* The combinational signals.                                               *)

Line == active.addr.line

(* Mutation: what was written while the block RAM was read is not forwarded. *)
MdUnforwarded == mdRead

(* The metadata and the data of the active line: md_rd_dout and cm_rd_dout. *)
Md == IF prevWr = prevRd THEN prevMd ELSE mdRead

Cm == IF prevWr = prevRd THEN prevCm ELSE cmRead

Reading == active.mask = {}

Hit == Md.initialized /\ Md.tag = active.addr.tag

MustEvict == Md.initialized /\ Md.tag # active.addr.tag /\ Md.dirty

(* byte_selector *)
Merged(existing) ==
    [b \in Bytes |-> IF b \in active.mask THEN active.data[b] ELSE existing[b]]

NewMetadata(dirty) == [initialized |-> TRUE, dirty |-> dirty, tag |-> active.addr.tag]

(* Mutation: the data written is not kept for forwarding. *)
WriteMetadataOnly(dirty, existing) ==
    /\ mdMem' = [mdMem EXCEPT ![Line] = NewMetadata(dirty)]
    /\ prevWr' = Line
    /\ prevMd' = NewMetadata(dirty)
    /\ prevCm' = prevCm

WriteMetadata(dirty, existing) ==
    /\ mdMem' = [mdMem EXCEPT ![Line] = NewMetadata(dirty)]
    /\ prevWr' = Line
    /\ prevMd' = NewMetadata(dirty)
    /\ prevCm' = Merged(existing)

WriteLine(dirty, existing) ==
    /\ WriteMetadata(dirty, existing)
    /\ cmMem' = [cmMem EXCEPT ![Line] = Merged(existing)]

-----------------------------------------------------------------------------
(* Arbitration: the pending port with the lowest number, when no command is *)
(* active or the active one completes in this cycle.                        *)

(* Mutation: any pending port. *)
AcceptAny(p) ==
    /\ request[p] # None
    /\ request' = [request EXCEPT ![p] = None]
    /\ active' = [port |-> p, addr |-> request[p].addr,
                  mask |-> request[p].mask, data |-> request[p].data]
    /\ prevRd' = request[p].addr.line
    /\ mdRead' = mdMem[request[p].addr.line]
    /\ cmRead' = cmMem[request[p].addr.line]
    /\ state' = "LOOKUP"

Accept(p) ==
    /\ request[p] # None
    /\ \A q \in Ports : q < p => request[q] = None
    /\ request' = [request EXCEPT ![p] = None]
    /\ active' = [port |-> p, addr |-> request[p].addr,
                  mask |-> request[p].mask, data |-> request[p].data]
    /\ prevRd' = request[p].addr.line
    /\ mdRead' = mdMem[request[p].addr.line]
    /\ cmRead' = cmMem[request[p].addr.line]
    /\ state' = "LOOKUP"

Rest ==
    /\ \A p \in Ports : request[p] = None
    /\ state' = "IDLE"
    /\ UNCHANGED <<active, readVars, request>>

Complete == Rest \/ \E p \in Ports : Accept(p)

Continue(next) == state' = next /\ UNCHANGED <<active, readVars, request>>

-----------------------------------------------------------------------------
(* A request stays up until it is acknowledged. *)
Raise(p, r) ==
    /\ request[p] = None
    /\ request' = [request EXCEPT ![p] = r]
    /\ UNCHANGED <<state, active, ramVars, readVars, ddr, answer>>

Begin ==
    /\ state = "IDLE"
    /\ \E p \in Ports : Accept(p)
    /\ answer' = None
    /\ UNCHANGED <<ramVars, ddr>>

Respond(data) == answer' = [port |-> active.port, data |-> data]

ReadHit ==
    /\ state = "LOOKUP"
    /\ Reading /\ Hit
    /\ Respond(Cm)
    /\ Complete
    /\ UNCHANGED <<ramVars, ddr>>

(* do_cache_write: on a hit, and without a look at memory when the whole    *)
(* line is written.                                                         *)
CacheWrite ==
    /\ \/ state = "LOOKUP" /\ ~Reading /\ (Hit \/ (active.mask = Bytes /\ ~MustEvict))
       \/ state = "EVICTING" /\ active.mask = Bytes
    /\ WriteLine(TRUE, Cm)
    /\ answer' = None
    /\ Complete
    /\ UNCHANGED ddr

(* do_evict, once the backend is ready; the metadata changes before the     *)
(* data does.                                                               *)
Evict ==
    /\ state = "LOOKUP"
    /\ MustEvict
    /\ ddr' = [ddr EXCEPT ![[tag |-> Md.tag, line |-> Line]] = Cm]
    /\ WriteMetadata(FALSE, Cm)
    /\ answer' = None
    /\ Continue("EVICTING")
    /\ UNCHANGED cmMem

(* do_fetch, once the backend is ready. *)
Fetch ==
    /\ \/ state = "LOOKUP" /\ ~Hit /\ ~MustEvict
       \/ state = "EVICTING"
    /\ active.mask # Bytes
    /\ answer' = None
    /\ Continue("FETCHING")
    /\ UNCHANGED <<ramVars, ddr>>

(* handle_fetch, when the backend responds: a write is done, a read is      *)
(* answered in the next cycle.                                              *)
Fill ==
    /\ state = "FETCHING"
    /\ WriteLine(~Reading, ddr[active.addr])
    /\ answer' = None
    /\ IF Reading THEN Continue("RESULT") ELSE Complete
    /\ UNCHANGED ddr

Result ==
    /\ state = "RESULT"
    /\ Respond(Cm)
    /\ Complete
    /\ UNCHANGED <<ramVars, ddr>>

Clock == Begin \/ ReadHit \/ CacheWrite \/ Evict \/ Fetch \/ Fill \/ Result

Next == Clock \/ \E p \in Ports, r \in Requests : Raise(p, r)

Spec == Init /\ [][Next]_cacheVars

(* The clock ticks, and the backend is ready and answers some day. *)
LiveSpec == Spec /\ WF_cacheVars(Clock)

-----------------------------------------------------------------------------
(* Safety.                                                                  *)

(* While a line is being replaced it holds no address, whatever its         *)
(* metadata says.                                                           *)
Replacing(l) == state \in {"EVICTING", "FETCHING"} /\ Line = l

Holds(a) ==
    /\ mdMem[a.line].initialized
    /\ mdMem[a.line].tag = a.tag
    /\ ~Replacing(a.line)

Contents(a) == IF Holds(a) THEN cmMem[a.line] ELSE ddr[a]

(* A clean line that differs from the memory behind it: one of those the    *)
(* bitstream marks valid and clean, before anything is written to it.       *)
Unsettled == {a \in Addresses :
                Holds(a) /\ ~mdMem[a.line].dirty /\ cmMem[a.line] # ddr[a]}

(* The cache, its block RAMs, forwarding and all, is a memory. *)
M == INSTANCE Memory WITH
        mem <- [a \in Addresses |-> Contents(a)],
        unsettled <- Unsettled,
        op <- IF state = "IDLE" THEN None ELSE active

IsMemory == M!Spec

(* What forwarding relies on.  The active line was read from the block RAMs *)
(* when the command was accepted, and what was written last is in the prev_ *)
(* registers; until something is written they hold no line at all.          *)
LastRead ==
    state # "IDLE" =>
        /\ active # None
        /\ prevRd = Line
        /\ prevWr # prevRd => mdRead = mdMem[prevRd] /\ cmRead = cmMem[prevRd]

LastWritten ==
    IF prevMd.initialized
    THEN mdMem[prevWr] = prevMd /\ (Replacing(prevWr) \/ cmMem[prevWr] = prevCm)
    ELSE prevWr = NotFirst /\ ~mdMem[NotFirst].dirty

(* A read that waits for its turn to answer has its line. *)
Answering == state = "RESULT" => Reading /\ prevWr = prevRd /\ Hit

CacheIInv == TypeOK /\ LastRead /\ LastWritten /\ Answering

-----------------------------------------------------------------------------
(* Liveness: a request is accepted, unless ports with lower numbers keep    *)
(* the cache to themselves.                                                 *)
Served ==
    \A p \in Ports :
        <>[](\A q \in Ports : q < p => request[q] = None) =>
            (request[p] # None ~> request[p] = None)

=============================================================================
