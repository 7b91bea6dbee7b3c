---------------------------- MODULE CacheProofs ----------------------------
(***************************************************************************)
(* For any number of ports, lines, tags, bytes and values, and for any boot *)
(* image: the cache is a memory.                                            *)
(***************************************************************************)
EXTENDS Cache, TLAPS

USE CacheAssumption

(* A line is written with metadata and data of the right type. *)
LEMMA WrittenTypes ==
    ASSUME TypeOK, active # None, NEW dirty \in BOOLEAN, NEW existing \in Data
    PROVE  /\ active \in Commands
           /\ Line \in Lines
           /\ active.addr \in Addresses
           /\ NewMetadata(dirty) \in Metadata
           /\ Merged(existing) \in Data
<1>1. active \in Commands
  BY DEF TypeOK
<1>2. active.addr \in Addresses /\ Line \in Lines /\ active.addr.tag \in Tags /\ active.data \in Data
  BY <1>1 DEF Commands, Addresses, Line
<1>3. NewMetadata(dirty) \in Metadata
  BY <1>2 DEF NewMetadata, Metadata
<1>4. Merged(existing) \in Data
  BY <1>2 DEF Merged, Data
<1> QED
  BY <1>1, <1>2, <1>3, <1>4

(* What a lookup sees is metadata and data of the right type. *)
LEMMA SeenTypes == TypeOK => Md \in Metadata /\ Cm \in Data
  BY DEF TypeOK, Md, Cm

(* Accepting a command keeps the registers of the command in their types,   *)
(* and reads the block RAMs as they are before this cycle's write.          *)
LEMMA CompleteStep ==
    ASSUME TypeOK, Complete
    PROVE  /\ state' \in {"IDLE", "LOOKUP"}
           /\ active' \in Commands \cup {None}
           /\ mdRead' \in Metadata
           /\ cmRead' \in Data
           /\ prevRd' \in Lines
           /\ request' \in [Ports -> Requests \cup {None}]
           /\ state' # "IDLE" => /\ active' # None
                                 /\ prevRd' = Line'
                                 /\ mdRead' = mdMem[prevRd']
                                 /\ cmRead' = cmMem[prevRd']
<1>1. CASE Rest
  BY <1>1 DEF Rest, readVars, TypeOK
<1>2. ASSUME NEW p \in Ports, Accept(p)
      PROVE  /\ state' = "LOOKUP"
             /\ active' \in Commands /\ active' # None
             /\ mdRead' \in Metadata
             /\ cmRead' \in Data
             /\ prevRd' \in Lines
             /\ request' \in [Ports -> Requests \cup {None}]
             /\ prevRd' = Line'
             /\ mdRead' = mdMem[prevRd']
             /\ cmRead' = cmMem[prevRd']
  <2>1. request[p] \in Requests
    BY <1>2 DEF Accept, TypeOK
  <2>2. /\ request[p].addr \in Addresses
        /\ request[p].mask \in SUBSET Bytes
        /\ request[p].data \in Data
    BY <2>1
  <2>3. active' \in Commands
    BY <1>2, <2>2 DEF Accept, Commands
  <2>4. request[p].addr.line \in Lines
    BY <2>2 DEF Addresses
  <2>5. prevRd' \in Lines /\ prevRd' = Line'
    BY <1>2, <2>4 DEF Accept, Line
  <2>6. request' \in [Ports -> Requests \cup {None}]
    BY <1>2 DEF Accept, TypeOK
  <2>7. mdRead' = mdMem[prevRd'] /\ cmRead' = cmMem[prevRd']
    BY <1>2 DEF Accept
  <2>8. mdRead' \in Metadata /\ cmRead' \in Data
    BY <2>5, <2>7 DEF TypeOK
  <2> QED
    BY <1>2, <2>3, <2>5, <2>6, <2>7, <2>8 DEF Accept
<1> QED
  BY <1>1, <1>2 DEF Complete

-----------------------------------------------------------------------------
(* The invariant.                                                           *)

(* What a write does to the block RAMs and to the registers that forward.   *)
LEMMA WriteStep ==
    ASSUME CacheIInv, state # "IDLE", NEW dirty \in BOOLEAN, NEW existing \in Data,
           WriteMetadata(dirty, existing)
    PROVE  /\ Line \in Lines
           /\ active.addr \in Addresses
           /\ mdMem' \in [Lines -> Metadata]
           /\ prevWr' = Line
           /\ prevMd' = NewMetadata(dirty) /\ prevMd' \in Metadata
           /\ prevCm' = Merged(existing) /\ prevCm' \in Data
           /\ mdMem'[Line] = NewMetadata(dirty)
           /\ \A l \in Lines \ {Line} : mdMem'[l] = mdMem[l]
<1>1. TypeOK /\ active # None
  BY DEF CacheIInv, LastRead
<1>2. /\ Line \in Lines
      /\ active.addr \in Addresses
      /\ NewMetadata(dirty) \in Metadata
      /\ Merged(existing) \in Data
  BY <1>1, WrittenTypes
<1> QED
  BY <1>1, <1>2 DEF WriteMetadata, TypeOK

(* The same, when the line itself is written too. *)
LEMMA WriteLineStep ==
    ASSUME CacheIInv, state # "IDLE", NEW dirty \in BOOLEAN, NEW existing \in Data,
           WriteLine(dirty, existing)
    PROVE  /\ cmMem' \in [Lines -> Data]
           /\ cmMem'[Line] = Merged(existing)
           /\ \A l \in Lines \ {Line} : cmMem'[l] = cmMem[l]
<1>1. Line \in Lines /\ Merged(existing) \in Data /\ cmMem \in [Lines -> Data]
  BY WriteStep DEF WriteLine, CacheIInv, TypeOK
<1> QED
  BY <1>1 DEF WriteLine

(* A command completes: nothing is written, or its line is. *)
LEMMA CompletePreserves ==
    ASSUME CacheIInv, Complete, UNCHANGED ddr,
           answer' \in [port : Ports, data : Data] \cup {None},
           \/ state \notin {"EVICTING", "FETCHING"} /\ UNCHANGED ramVars
           \/ /\ state # "IDLE"
              /\ \E dirty \in BOOLEAN, existing \in Data : WriteLine(dirty, existing)
    PROVE  CacheIInv'
<1> USE DEF CacheIInv
<1>1. /\ state' \in {"IDLE", "LOOKUP"}
      /\ active' \in Commands \cup {None}
      /\ mdRead' \in Metadata
      /\ cmRead' \in Data
      /\ prevRd' \in Lines
      /\ request' \in [Ports -> Requests \cup {None}]
      /\ state' # "IDLE" => /\ active' # None
                            /\ prevRd' = Line'
                            /\ mdRead' = mdMem[prevRd']
                            /\ cmRead' = cmMem[prevRd']
  BY CompleteStep
<1>2. Answering' /\ \A l : ~Replacing(l)'
  BY <1>1 DEF Answering, Replacing
<1>3. CASE state \notin {"EVICTING", "FETCHING"} /\ UNCHANGED ramVars
  <2>1. TypeOK'
    BY <1>1, <1>3 DEF TypeOK, States, ramVars
  <2>2. LastRead'
    BY <1>1, <1>3 DEF LastRead, ramVars
  <2>3. LastWritten'
    BY <1>3 DEF LastWritten, Replacing, ramVars
  <2> QED
    BY <1>2, <2>1, <2>2, <2>3
<1>4. ASSUME state # "IDLE", NEW dirty \in BOOLEAN, NEW existing \in Data,
             WriteLine(dirty, existing)
      PROVE  CacheIInv'
  <2>1. WriteMetadata(dirty, existing)
    BY <1>4 DEF WriteLine
  <2>2. /\ Line \in Lines
        /\ mdMem' \in [Lines -> Metadata]
        /\ prevWr' = Line
        /\ prevMd' = NewMetadata(dirty) /\ prevMd' \in Metadata
        /\ prevCm' = Merged(existing) /\ prevCm' \in Data
        /\ mdMem'[Line] = NewMetadata(dirty)
        /\ \A l \in Lines \ {Line} : mdMem'[l] = mdMem[l]
    BY <1>4, <2>1, WriteStep
  <2>3. /\ cmMem' \in [Lines -> Data]
        /\ cmMem'[Line] = Merged(existing)
        /\ \A l \in Lines \ {Line} : cmMem'[l] = cmMem[l]
    BY <1>4, WriteLineStep
  <2>4. TypeOK'
    BY <1>1, <2>2, <2>3 DEF TypeOK, States
  <2>5. LastRead'
    BY <1>1, <2>2, <2>3 DEF LastRead
  <2>6. prevMd'.initialized
    BY <2>2 DEF NewMetadata
  <2>7. LastWritten'
    BY <2>2, <2>3, <2>6 DEF LastWritten
  <2> QED
    BY <1>2, <2>4, <2>5, <2>7
<1> QED
  BY <1>3, <1>4

(* A command goes on to its next stage. *)
LEMMA ContinuePreserves ==
    ASSUME CacheIInv, state # "IDLE", NEW next \in States, Continue(next), next # "IDLE",
           answer' = None, ddr' \in [Addresses -> Data],
           \/ next \in {"EVICTING", "FETCHING"} /\ UNCHANGED ramVars
           \/ /\ next = "EVICTING" /\ UNCHANGED cmMem
              /\ \E existing \in Data : WriteMetadata(FALSE, existing)
           \/ /\ next = "RESULT" /\ Reading
              /\ \E existing \in Data : WriteLine(FALSE, existing)
    PROVE  CacheIInv'
<1> USE DEF CacheIInv
<1>1. state' = next /\ UNCHANGED <<active, mdRead, cmRead, prevRd, request>> /\ Line' = Line
  BY DEF Continue, readVars, Line
<1>2. active # None /\ prevRd = Line
  BY DEF LastRead
<1>3. CASE next \in {"EVICTING", "FETCHING"} /\ UNCHANGED ramVars
  <2>1. TypeOK' /\ LastRead' /\ Answering'
    BY <1>1, <1>2, <1>3 DEF TypeOK, LastRead, Answering, ramVars
  <2>2. LastWritten'
    <3>1. UNCHANGED <<mdMem, cmMem, prevWr, prevMd, prevCm>>
      BY <1>3 DEF ramVars
    <3>2. Replacing(prevWr) => Replacing(prevWr)'
      BY <1>1, <1>3, <3>1 DEF Replacing
    <3> QED
      BY <3>1, <3>2 DEF LastWritten
  <2> QED
    BY <2>1, <2>2
<1>4. ASSUME NEW existing \in Data, WriteMetadata(FALSE, existing),
             \/ next = "EVICTING" /\ UNCHANGED cmMem
             \/ next = "RESULT" /\ Reading /\ WriteLine(FALSE, existing)
      PROVE  CacheIInv'
  <2>1. /\ Line \in Lines
        /\ mdMem' \in [Lines -> Metadata]
        /\ prevWr' = Line
        /\ prevMd' = NewMetadata(FALSE) /\ prevMd' \in Metadata
        /\ prevCm' = Merged(existing) /\ prevCm' \in Data
        /\ mdMem'[Line] = NewMetadata(FALSE)
    BY <1>4, WriteStep
  <2>2. /\ prevMd'.initialized
        /\ prevMd'.tag = active.addr.tag
    BY <2>1 DEF NewMetadata
  <2>3. LastRead'
    BY <1>1, <1>2, <2>1 DEF LastRead
  <2>4. CASE next = "EVICTING" /\ UNCHANGED cmMem
    <3>1. TypeOK' /\ Answering'
      BY <1>1, <2>1, <2>4 DEF TypeOK, Answering
    <3>2. Replacing(prevWr)'
      BY <1>1, <2>1, <2>4 DEF Replacing
    <3> QED
      BY <2>1, <2>2, <2>3, <3>1, <3>2 DEF LastWritten
  <2>5. CASE next = "RESULT" /\ Reading /\ WriteLine(FALSE, existing)
    <3>1. cmMem' \in [Lines -> Data] /\ cmMem'[Line] = Merged(existing)
      BY <2>5, WriteLineStep
    <3>2. TypeOK'
      BY <1>1, <2>1, <3>1 DEF TypeOK
    <3>3. Answering'
      BY <1>1, <1>2, <2>1, <2>2, <2>5 DEF Answering, Reading, Hit, Md
    <3> QED
      BY <2>1, <2>2, <2>3, <3>1, <3>2, <3>3 DEF LastWritten
  <2> QED
    BY <1>4, <2>4, <2>5
<1> QED
  BY <1>3, <1>4 DEF WriteLine

(* A boot image starts in the invariant. *)
LEMMA InitCacheIInv == Init => CacheIInv
<1> SUFFICES ASSUME Init PROVE CacheIInv
  OBVIOUS
<1>1. Blank \in Metadata /\ Zeroes \in Data /\ ~Blank.initialized
  BY DEF Blank, Zeroes, Metadata, Data
<1>2. TypeOK
  BY <1>1 DEF Init, TypeOK, States
<1>3. LastRead /\ LastWritten /\ Answering
  BY <1>1 DEF Init, LastRead, LastWritten, Answering
<1> QED
  BY <1>2, <1>3 DEF CacheIInv

(* What is said to a port is one of its answers. *)
LEMMA RespondType ==
    ASSUME TypeOK, active # None, Respond(Cm)
    PROVE  answer' \in [port : Ports, data : Data]
<1>1. active.port \in Ports /\ Cm \in Data
  BY SeenTypes DEF TypeOK, Commands
<1> QED
  BY <1>1 DEF Respond

(* Every clock edge and every request preserves the invariant. *)
LEMMA NextCacheIInv == CacheIInv /\ [Next]_cacheVars => CacheIInv'
<1> SUFFICES ASSUME CacheIInv, [Next]_cacheVars PROVE CacheIInv'
  OBVIOUS
<1>1. TypeOK /\ (state # "IDLE" => active # None)
  BY DEF CacheIInv, LastRead
<1>2. CASE Begin
  <2>1. Complete
    BY <1>2 DEF Begin, Complete
  <2>2. state \notin {"EVICTING", "FETCHING"} /\ UNCHANGED ramVars /\ UNCHANGED ddr
    BY <1>2 DEF Begin
  <2> QED
    BY <1>2, <2>1, <2>2, CompletePreserves DEF Begin
<1>3. CASE ReadHit \/ Result
  <2>1. answer' \in [port : Ports, data : Data]
    BY <1>1, <1>3, RespondType DEF ReadHit, Result
  <2>2. state \notin {"EVICTING", "FETCHING"} /\ UNCHANGED ramVars /\ UNCHANGED ddr /\ Complete
    BY <1>3 DEF ReadHit, Result
  <2> QED
    BY <2>1, <2>2, CompletePreserves
<1>4. CASE CacheWrite
  <2>1. state # "IDLE" /\ Complete /\ UNCHANGED ddr /\ answer' = None
    BY <1>4 DEF CacheWrite
  <2>2. TRUE \in BOOLEAN /\ Cm \in Data /\ WriteLine(TRUE, Cm)
    BY <1>1, <1>4, SeenTypes DEF CacheWrite
  <2> QED
    BY <2>1, <2>2, CompletePreserves
<1>5. CASE Evict
  <2>1. state # "IDLE" /\ Continue("EVICTING") /\ answer' = None /\ UNCHANGED cmMem
    BY <1>5 DEF Evict
  <2>2. Cm \in Data /\ WriteMetadata(FALSE, Cm)
    BY <1>1, <1>5, SeenTypes DEF Evict
  <2>3. ddr' \in [Addresses -> Data]
    BY <1>1, <1>5, <2>2 DEF Evict, TypeOK
  <2>4. "EVICTING" \in States /\ "EVICTING" # "IDLE"
    BY DEF States
  <2> QED
    BY <2>1, <2>2, <2>3, <2>4, ContinuePreserves
<1>6. CASE Fetch
  <2>1. state # "IDLE" /\ Continue("FETCHING") /\ answer' = None /\ UNCHANGED ramVars
    BY <1>6 DEF Fetch
  <2>2. ddr' \in [Addresses -> Data]
    BY <1>1, <1>6 DEF Fetch, TypeOK
  <2>3. "FETCHING" \in States /\ "FETCHING" # "IDLE"
    BY DEF States
  <2> QED
    BY <2>1, <2>2, <2>3, ContinuePreserves
<1>7. CASE Fill
  <2>1. state # "IDLE" /\ answer' = None /\ UNCHANGED ddr
    BY <1>7 DEF Fill
  <2>2. ddr[active.addr] \in Data /\ ddr' \in [Addresses -> Data]
    BY <1>1, <1>7, <2>1, WrittenTypes DEF TypeOK, Fill, Commands
  <2>3. CASE Reading
    <3>1. WriteLine(FALSE, ddr[active.addr]) /\ Continue("RESULT")
      BY <1>7, <2>3 DEF Fill
    <3>2. "RESULT" \in States /\ "RESULT" # "IDLE"
      BY DEF States
    <3> QED
      BY <2>1, <2>2, <2>3, <3>1, <3>2, ContinuePreserves
  <2>4. CASE ~Reading
    <3>1. WriteLine(TRUE, ddr[active.addr]) /\ Complete
      BY <1>7, <2>4 DEF Fill
    <3> QED
      BY <2>1, <2>2, <3>1, CompletePreserves
  <2> QED
    BY <2>3, <2>4
<1>8. CASE \E p \in Ports, r \in Requests : Raise(p, r)
  <2>1. PICK p \in Ports, r \in Requests : Raise(p, r)
    BY <1>8
  <2>2. TypeOK'
    BY <1>1, <2>1 DEF Raise, TypeOK, ramVars, readVars
  <2>3. LastRead' /\ LastWritten' /\ Answering'
    BY <2>1 DEF Raise, CacheIInv, LastRead, LastWritten, Answering, Replacing, Line, Reading,
                Hit, Md, ramVars, readVars
  <2> QED
    BY <2>2, <2>3 DEF CacheIInv
<1>9. CASE UNCHANGED cacheVars
  BY <1>9 DEF cacheVars, CacheIInv, TypeOK, LastRead, LastWritten, Answering, Replacing, Line,
              Reading, Hit, Md
<1> QED
  BY <1>2, <1>3, <1>4, <1>5, <1>6, <1>7, <1>8, <1>9 DEF Next, Clock

(* In every reachable state the prev_ registers hold what was written last, *)
(* the readback registers what the block RAMs hold otherwise, and a read    *)
(* that waits to answer has its line.                                       *)
THEOREM CacheSafety == Spec => []CacheIInv
<1> QED
  BY InitCacheIInv, NextCacheIInv, PTL DEF Spec

-----------------------------------------------------------------------------
(* The cache is a memory.                                                   *)

Op == IF state = "IDLE" THEN None ELSE active

Mem == [a \in Addresses |-> Contents(a)]

(* In its first cycle a command sees its line as the block RAMs hold it,    *)
(* or, before the first write, as a line that holds nothing.                *)
LEMMA LookupSees ==
    ASSUME CacheIInv, state = "LOOKUP"
    PROVE  \/ Md = mdMem[Line] /\ Cm = cmMem[Line]
           \/ ~Md.initialized /\ ~mdMem[Line].dirty
<1>1. prevRd = Line /\ ~Replacing(prevWr)
  BY DEF CacheIInv, LastRead, Replacing
<1>2. CASE prevWr # prevRd
  BY <1>1, <1>2 DEF CacheIInv, LastRead, Md, Cm
<1>3. CASE prevWr = prevRd /\ prevMd.initialized
  BY <1>1, <1>3 DEF CacheIInv, LastWritten, Md, Cm
<1>4. CASE prevWr = prevRd /\ ~prevMd.initialized
  BY <1>1, <1>4 DEF CacheIInv, LastWritten, Md
<1> QED
  BY <1>2, <1>3, <1>4

(* Completing a command takes the next one as the memory does. *)
LEMMA CompleteTakes ==
    ASSUME CacheIInv, Complete
    PROVE  /\ \/ \E p \in Ports : /\ request[p] # None
                                  /\ \A q \in Ports : q < p => request[q] = None
                                  /\ request' = [request EXCEPT ![p] = None]
                                  /\ Op' = [port |-> p, addr |-> request[p].addr,
                                            mask |-> request[p].mask, data |-> request[p].data]
              \/ Op' = None /\ UNCHANGED request
           /\ \A l : ~Replacing(l)'
<1>1. CASE Rest
  BY <1>1 DEF Rest, Op, Replacing
<1>2. CASE \E p \in Ports : Accept(p)
  BY <1>2 DEF Accept, Op, Replacing
<1> QED
  BY <1>1, <1>2 DEF Complete

(* Where nothing is written and no line is being replaced, no address       *)
(* changes.                                                                 *)
LEMMA NothingWritten ==
    ASSUME UNCHANGED <<ramVars, ddr>>, \A l : Replacing(l)' <=> Replacing(l)
    PROVE  Mem' = Mem /\ Unsettled' = Unsettled
<1>1. \A a \in Addresses : Holds(a)' <=> Holds(a)
  BY DEF Holds, ramVars
<1>2. \A a \in Addresses : Contents(a)' = Contents(a)
  BY <1>1 DEF Contents, ramVars
<1>3. Unsettled' = Unsettled
  BY <1>1 DEF Unsettled, ramVars
<1> QED
  BY <1>2, <1>3 DEF Mem

(* A read answers what the memory holds. *)
LEMMA ReadAnswers ==
    ASSUME CacheIInv, ReadHit \/ Result
    PROVE  /\ Op # None /\ Op.mask = {}
           /\ answer' = [port |-> Op.port, data |-> Mem[Op.addr]]
           /\ Mem' = Mem /\ Unsettled' = Unsettled
<1>1. Op = active /\ Op # None /\ Op.mask = {} /\ Op.addr \in Addresses
  BY WrittenTypes, SeenTypes DEF ReadHit, Result, Op, CacheIInv, LastRead, Answering, Reading,
     TypeOK, Commands
<1>2. Cm = Contents(active.addr)
  <2>1. mdMem[Line] = Md /\ cmMem[Line] = Cm
    <3>1. CASE ReadHit
      BY <3>1, LookupSees DEF ReadHit, Hit
    <3>2. CASE Result
      <4>1. prevMd.initialized /\ prevWr = prevRd /\ prevRd = Line
        BY <3>2 DEF Result, CacheIInv, Answering, LastRead, Hit, Md
      <4>2. ~Replacing(prevWr)
        BY <3>2 DEF Result, Replacing
      <4> QED
        BY <4>1, <4>2 DEF CacheIInv, LastWritten, Md, Cm
    <3> QED
      BY <3>1, <3>2
  <2>2. Hit /\ ~Replacing(Line)
    BY DEF ReadHit, Result, CacheIInv, Answering, Replacing
  <2> QED
    BY <2>1, <2>2 DEF Contents, Holds, Hit, Line
<1>3. answer' = [port |-> Op.port, data |-> Mem[Op.addr]]
  BY <1>1, <1>2 DEF ReadHit, Result, Respond, Mem
<1>4. Mem' = Mem /\ Unsettled' = Unsettled
  <2>1. UNCHANGED <<ramVars, ddr>> /\ Complete /\ \A l : ~Replacing(l)
    BY DEF ReadHit, Result, Replacing
  <2> QED
    BY <2>1, CompleteTakes, NothingWritten
<1> QED
  BY <1>1, <1>3, <1>4

(* What an action that replaces the active line, or stops to hold it, does  *)
(* to the other lines: nothing.                                             *)
LEMMA OtherLines ==
    ASSUME \A l \in Lines \ {Line} : mdMem'[l] = mdMem[l] /\ cmMem'[l] = cmMem[l],
           \A a \in Addresses : a.line # Line => ddr'[a] = ddr[a],
           \A l \in Lines \ {Line} : ~Replacing(l) /\ ~Replacing(l)'
    PROVE  \A a \in Addresses : a.line # Line =>
               Contents(a)' = Contents(a) /\ (a \in Unsettled' <=> a \in Unsettled)
<1> SUFFICES ASSUME NEW a \in Addresses, a.line # Line
             PROVE  Contents(a)' = Contents(a) /\ (a \in Unsettled' <=> a \in Unsettled)
  OBVIOUS
<1>1. a.line \in Lines \ {Line}
  BY DEF Addresses
<1>2. /\ mdMem'[a.line] = mdMem[a.line] /\ cmMem'[a.line] = cmMem[a.line]
      /\ ddr'[a] = ddr[a]
      /\ ~Replacing(a.line) /\ ~Replacing(a.line)'
  BY <1>1
<1>3. Holds(a)' <=> Holds(a)
  BY <1>2 DEF Holds
<1> QED
  BY <1>2, <1>3 DEF Contents, Unsettled

(* An address of the active line with the active tag is the active one. *)
LEMMA SameAddress ==
    ASSUME NEW a \in Addresses, NEW t \in Tags, NEW l \in Lines, a.tag = t, a.line = l
    PROVE  a = [tag |-> t, line |-> l]
  BY DEF Addresses

(* Filling or merging with nothing to write leaves the line as it was. *)
LEMMA MergedReading == ASSUME NEW d \in Data, Reading PROVE Merged(d) = d
  BY DEF Merged, Reading, Data

(* While a dirty line is not evicted, the active line either holds the      *)
(* address asked for or nothing but what memory holds or will settle to.    *)
LEMMA CleanMiss ==
    ASSUME CacheIInv, state = "LOOKUP", ~MustEvict,
           NEW a \in Addresses, a.line = Line, Holds(a), ~(Hit /\ a.tag = active.addr.tag)
    PROVE  ~mdMem[Line].dirty
<1>1. mdMem[Line].initialized /\ mdMem[Line].tag = a.tag
  BY DEF Holds
<1> QED
  BY <1>1, LookupSees DEF MustEvict, Hit

(* A fill leaves the line clean for a read and dirty for a write. *)
LEMMA FillWrites ==
    ASSUME Fill
    PROVE  /\ Reading => WriteLine(FALSE, ddr[active.addr])
           /\ ~Reading => WriteLine(TRUE, ddr[active.addr])
<1>1. CASE Reading
  BY <1>1 DEF Fill
<1>2. CASE ~Reading
  BY <1>2 DEF Fill
<1> QED
  BY <1>1, <1>2

(* Evicting the active line moves what it holds to memory, and to the place *)
(* it belongs.                                                              *)
LEMMA EvictMoves ==
    ASSUME CacheIInv, Evict, NEW a \in Addresses, a.line = Line
    PROVE  Contents(a)' = Contents(a) /\ a \notin Unsettled'
<1>1. /\ Line \in Lines /\ Line' = Line /\ Md \in Metadata /\ Cm \in Data
      /\ Md.initialized /\ Md.dirty
      /\ Md = mdMem[Line] /\ Cm = cmMem[Line]
  BY LookupSees, SeenTypes, WrittenTypes
     DEF Evict, Continue, Line, CacheIInv, LastRead, MustEvict
<1>2. Replacing(Line)' /\ ~Replacing(Line)
  BY <1>1 DEF Evict, Continue, Replacing
<1>3. Contents(a)' = ddr'[a] /\ a \notin Unsettled'
  BY <1>1, <1>2 DEF Contents, Holds, Unsettled
<1>4. Md.tag \in Tags /\ ddr \in [Addresses -> Data]
  BY <1>1 DEF Metadata, CacheIInv, TypeOK
<1>5. ddr' = [ddr EXCEPT ![[tag |-> Md.tag, line |-> Line]] = Cm]
  BY DEF Evict
<1>6. CASE a.tag = Md.tag
  <2>1. a = [tag |-> Md.tag, line |-> Line]
    BY <1>1, <1>4, <1>6, SameAddress
  <2>2. ddr'[a] = Cm
    BY <1>4, <1>5, <2>1
  <2> QED
    BY <1>1, <1>2, <1>3, <1>6, <2>2 DEF Contents, Holds
<1>7. CASE a.tag # Md.tag
  <2>1. a # [tag |-> Md.tag, line |-> Line]
    BY <1>7
  <2>2. ddr'[a] = ddr[a]
    BY <1>4, <1>5, <2>1
  <2> QED
    BY <1>1, <1>3, <1>7, <2>2 DEF Contents, Holds
<1> QED
  BY <1>6, <1>7

(* A fetch is for a line that holds nothing memory does not. *)
LEMMA FetchDrops ==
    ASSUME CacheIInv, Fetch, NEW a \in Addresses, a.line = Line
    PROVE  (Contents(a)' = Contents(a) \/ a \in Unsettled) /\ a \notin Unsettled'
<1>1. Line' = Line /\ UNCHANGED <<mdMem, cmMem, ddr>> /\ Replacing(Line)'
  BY DEF Fetch, Continue, ramVars, Line, Replacing
<1>2. Contents(a)' = ddr[a] /\ a \notin Unsettled'
  BY <1>1 DEF Contents, Holds, Unsettled
<1>3. CASE Holds(a)
  <2>1. state = "LOOKUP" /\ ~MustEvict /\ ~Hit
    BY <1>3 DEF Holds, Replacing, Fetch
  <2>2. ~mdMem[Line].dirty
    BY <1>3, <2>1, CleanMiss
  <2> QED
    BY <1>2, <1>3, <2>2 DEF Contents, Unsettled
<1> QED
  BY <1>2, <1>3 DEF Contents

(* A read's line comes from memory as it is there. *)
LEMMA FillReads ==
    ASSUME CacheIInv, Fill, Reading, NEW a \in Addresses, a.line = Line
    PROVE  Contents(a)' = Contents(a) /\ a \notin Unsettled'
<1>1. /\ active # None /\ ddr[active.addr] \in Data /\ active.addr \in Addresses
      /\ active.addr.tag \in Tags /\ Line \in Lines
  BY WrittenTypes DEF Fill, CacheIInv, LastRead, TypeOK, Commands, Addresses
<1>2. /\ WriteLine(FALSE, ddr[active.addr]) /\ UNCHANGED ddr
      /\ state' = "RESULT" /\ Line' = Line /\ Replacing(Line) /\ ~Replacing(Line)'
  BY DEF Fill, Continue, Line, Replacing
<1>3. /\ mdMem'[Line] = NewMetadata(FALSE)
      /\ cmMem'[Line] = ddr[active.addr]
  <2>1. WriteMetadata(FALSE, ddr[active.addr]) /\ state # "IDLE" /\ FALSE \in BOOLEAN
    BY <1>2 DEF WriteLine, Fill
  <2>2. mdMem'[Line] = NewMetadata(FALSE)
    BY <1>1, <2>1, WriteStep
  <2>3. cmMem'[Line] = Merged(ddr[active.addr])
    BY <1>1, <1>2, <2>1, WriteLineStep
  <2> QED
    BY <1>1, <2>2, <2>3, MergedReading
<1>4. Contents(a) = ddr[a]
  BY <1>2 DEF Contents, Holds
<1>5. CASE a.tag = active.addr.tag
  <2>1. a = active.addr
    <3>1. a = [tag |-> active.addr.tag, line |-> Line]
      BY <1>1, <1>5, SameAddress
    <3>2. active.addr = [tag |-> active.addr.tag, line |-> Line]
      BY <1>1, SameAddress DEF Line
    <3> QED
      BY <3>1, <3>2
  <2> QED
    BY <1>2, <1>3, <1>4, <2>1 DEF Contents, Unsettled
<1>6. CASE a.tag # active.addr.tag
  BY <1>2, <1>3, <1>4, <1>6 DEF Contents, Holds, Unsettled, NewMetadata
<1> QED
  BY <1>5, <1>6

(* A write leaves its line with the bytes it wrote, the others as memory    *)
(* had them, and every other address of the line as memory has it.          *)
LEMMA WriteWrites ==
    ASSUME CacheIInv, CacheWrite \/ (Fill /\ ~Reading), NEW a \in Addresses, a.line = Line
    PROVE  /\ a \notin Unsettled'
           /\ a # active.addr => Contents(a)' = Contents(a) \/ a \in Unsettled
           /\ a = active.addr => \A b \in Bytes :
                 \/ b \in active.mask /\ Contents(a)'[b] = active.data[b]
                 \/ b \notin active.mask /\ Contents(a)'[b] = Contents(a)[b]
<1>1. /\ active # None /\ ddr[active.addr] \in Data /\ active.addr \in Addresses
      /\ active.addr.tag \in Tags /\ Line \in Lines /\ Cm \in Data
      /\ UNCHANGED ddr /\ \A l : ~Replacing(l)'
  BY WrittenTypes, SeenTypes, CompleteTakes
     DEF Fill, CacheWrite, CacheIInv, LastRead, TypeOK, Commands, Addresses
<1>2. PICK existing \in Data :
        /\ WriteLine(TRUE, existing)
        /\ \/ CacheWrite /\ existing = Cm
           \/ Fill /\ existing = ddr[active.addr]
  BY <1>1, FillWrites DEF CacheWrite
<1>3. /\ mdMem'[Line] = NewMetadata(TRUE)
      /\ cmMem'[Line] = Merged(existing)
  <2>1. WriteMetadata(TRUE, existing) /\ state # "IDLE" /\ TRUE \in BOOLEAN
    BY <1>2 DEF WriteLine, CacheWrite, Fill
  <2> QED
    BY <1>2, <2>1, WriteStep, WriteLineStep
<1>4. a \notin Unsettled'
  BY <1>3 DEF Unsettled, NewMetadata
<1>5. ASSUME a # active.addr
      PROVE  Contents(a)' = Contents(a) \/ a \in Unsettled
  <2>1. a.tag # active.addr.tag
    BY <1>1, <1>5, SameAddress DEF Line
  <2>2. Contents(a)' = ddr[a]
    BY <1>1, <1>3, <2>1 DEF Contents, Holds, NewMetadata
  <2>3. CASE Holds(a)
    <3>1. state = "LOOKUP" /\ CacheWrite
      BY <2>3 DEF Holds, Replacing, CacheWrite, Fill
    <3>2. ~MustEvict
      BY <3>1 DEF CacheWrite, MustEvict, Hit
    <3>3. ~mdMem[Line].dirty
      BY <2>1, <2>3, <3>1, <3>2, CleanMiss
    <3> QED
      BY <2>2, <2>3, <3>3 DEF Contents, Unsettled
  <2> QED
    BY <2>2, <2>3 DEF Contents
<1>6. ASSUME a = active.addr, NEW b \in Bytes
      PROVE  \/ b \in active.mask /\ Contents(a)'[b] = active.data[b]
             \/ b \notin active.mask /\ Contents(a)'[b] = Contents(a)[b]
  <2>1. Contents(a)' = Merged(existing)
    BY <1>1, <1>3, <1>6 DEF Contents, Holds, NewMetadata
  <2>2. CASE b \in active.mask
    BY <2>1, <2>2 DEF Merged
  <2>3. CASE b \notin active.mask
    <3>1. existing = Contents(a)
      <4>1. CASE Fill /\ existing = ddr[active.addr]
        BY <1>6, <4>1 DEF Fill, Contents, Holds, Replacing
      <4>2. CASE CacheWrite /\ existing = Cm
        <5>1. state = "LOOKUP" /\ Hit
          BY <2>3, <4>2 DEF CacheWrite
        <5>2. Md = mdMem[Line] /\ Cm = cmMem[Line] /\ ~Replacing(Line)
          BY <5>1, LookupSees DEF Hit, Replacing
        <5> QED
          BY <1>6, <4>2, <5>1, <5>2 DEF Contents, Holds, Hit
      <4> QED
        BY <1>2, <4>1, <4>2
    <3> QED
      BY <2>1, <2>3, <3>1 DEF Merged
  <2> QED
    BY <2>2, <2>3
<1> QED
  BY <1>4, <1>5, <1>6

(* No action touches a line that is not the active one. *)
LEMMA OtherLinesKept ==
    ASSUME CacheIInv, Evict \/ Fetch \/ Fill \/ CacheWrite, NEW a \in Addresses, a.line # Line
    PROVE  Contents(a)' = Contents(a) /\ (a \in Unsettled' <=> a \in Unsettled)
<1>1. state # "IDLE" /\ active # None /\ TypeOK /\ Md \in Metadata /\ Cm \in Data
      /\ ddr[active.addr] \in Data
  BY SeenTypes, WrittenTypes DEF Evict, Fetch, Fill, CacheWrite, CacheIInv, LastRead, TypeOK
<1>2. \A l \in Lines \ {Line} : mdMem'[l] = mdMem[l] /\ cmMem'[l] = cmMem[l]
  <2>1. CASE Evict
    BY <1>1, <2>1, WriteStep DEF Evict
  <2>2. CASE Fetch
    BY <2>2 DEF Fetch, ramVars
  <2>3. CASE Fill \/ CacheWrite
    <3>1. PICK dirty \in BOOLEAN, existing \in Data : WriteLine(dirty, existing)
      <4>1. CASE Fill
        <5>1. WriteLine(TRUE, ddr[active.addr]) \/ WriteLine(FALSE, ddr[active.addr])
          BY <4>1, FillWrites
        <5> QED
          BY <1>1, <5>1
      <4>2. CASE CacheWrite
        BY <1>1, <4>2 DEF CacheWrite
      <4> QED
        BY <2>3, <4>1, <4>2
    <3>2. WriteMetadata(dirty, existing)
      BY <3>1 DEF WriteLine
    <3> QED
      BY <1>1, <3>1, <3>2, WriteStep, WriteLineStep
  <2> QED
    BY <2>1, <2>2, <2>3
<1>3. \A c \in Addresses : c.line # Line => ddr'[c] = ddr[c]
  <2>1. CASE Evict
    <3>1. ddr' = [ddr EXCEPT ![[tag |-> Md.tag, line |-> Line]] = Cm]
      BY <2>1 DEF Evict
    <3>2. \A c \in Addresses : c.line # Line => c # [tag |-> Md.tag, line |-> Line]
      OBVIOUS
    <3> QED
      BY <1>1, <3>1, <3>2 DEF TypeOK
  <2> QED
    BY <2>1 DEF Fetch, Fill, CacheWrite
<1>4. \A l \in Lines \ {Line} : ~Replacing(l) /\ ~Replacing(l)'
  <2>1. CASE Complete
    BY <2>1, CompleteTakes DEF Replacing
  <2>2. CASE UNCHANGED active
    BY <2>2 DEF Replacing, Line
  <2>3. Complete \/ UNCHANGED active
    BY DEF Evict, Fetch, Fill, CacheWrite, Continue
  <2> QED
    BY <2>1, <2>2, <2>3
<1> QED
  BY <1>2, <1>3, <1>4, OtherLines

(* The memory an image boots with is a memory. *)
LEMMA InitIsMemory == Init => M!Init
<1> SUFFICES ASSUME Init PROVE M!Init
  OBVIOUS
<1>1. TypeOK
  BY InitCacheIInv DEF CacheIInv
<1>2. Mem \in [Addresses -> Data]
  <2>1. \A a \in Addresses : Contents(a) \in Data
    BY <1>1 DEF Contents, TypeOK, Addresses
  <2> QED
    BY <2>1 DEF Mem
<1>3. Unsettled \subseteq Addresses
  BY DEF Unsettled
<1>4. request = [p \in Ports |-> None] /\ answer = None /\ Op = None
  BY DEF Init, Op
<1> QED
  BY <1>2, <1>3, <1>4 DEF M!Init, M!Data, Data, Mem, Op

(* Every step of the cache is a step of the memory, or leaves it alone. *)
LEMMA NextIsMemory == CacheIInv /\ [Next]_cacheVars => [M!Next]_M!vars
<1> SUFFICES ASSUME CacheIInv, [Next]_cacheVars PROVE [M!Next]_M!vars
  OBVIOUS
<1> USE DEF Op, Mem
<1>1. TypeOK /\ (state # "IDLE" => active # None /\ active \in Commands /\ Op = active)
  BY DEF CacheIInv, LastRead, TypeOK
<1>2. ASSUME Complete PROVE M!TakeNext
  BY <1>2, CompleteTakes DEF M!TakeNext, M!Take
<1>3. CASE Begin
  <2>1. Complete /\ Op = None /\ answer' = None
    BY <1>3 DEF Begin, Complete
  <2>2. Mem' = Mem /\ Unsettled' = Unsettled
    <3>1. UNCHANGED <<ramVars, ddr>> /\ \A l : Replacing(l)' <=> Replacing(l)
      BY <1>3, <2>1, CompleteTakes DEF Begin, Replacing
    <3> QED
      BY <3>1, NothingWritten
  <2> QED
    BY <1>2, <2>1, <2>2 DEF M!Next, M!Start
<1>4. CASE ReadHit \/ Result
  <2>1. Complete
    BY <1>4 DEF ReadHit, Result
  <2>2. /\ Op # None /\ Op.mask = {}
        /\ answer' = [port |-> Op.port, data |-> Mem[Op.addr]]
        /\ Mem' = Mem /\ Unsettled' = Unsettled
    BY <1>4, ReadAnswers
  <2>3. M!Read
    BY <1>2, <2>1, <2>2 DEF M!Read
  <2> QED
    BY <2>3 DEF M!Next
<1>5. CASE Evict \/ Fetch \/ (Fill /\ Reading)
  <2>1. /\ Op # None /\ Op' = Op /\ UNCHANGED request /\ answer' = None
    BY <1>1, <1>5 DEF Evict, Fetch, Fill, Continue
  <2>2. \A a \in Addresses :
          /\ Contents(a)' = Contents(a) \/ (a \in Unsettled /\ a \notin Unsettled')
          /\ a \in Unsettled' => a \in Unsettled
    BY <1>5, EvictMoves, FetchDrops, FillReads, OtherLinesKept
  <2>3. Unsettled' \subseteq Unsettled
    BY <2>2 DEF Unsettled
  <2>4. \A a \in Addresses \ (Unsettled \ Unsettled') : Mem'[a] = Mem[a]
    BY <2>2
  <2>5. M!Wait
    BY <2>1, <2>3, <2>4 DEF M!Wait, M!Settle
  <2> QED
    BY <2>5 DEF M!Next
<1>6. CASE CacheWrite \/ (Fill /\ ~Reading)
  <2>1. Complete /\ Op = active /\ Op # None /\ answer' = None /\ active.addr \in Addresses
    BY <1>1, <1>6 DEF CacheWrite, Fill, Commands
  <2>2. Op.mask # {}
    BY <1>6, <2>1 DEF CacheWrite, Fill, Reading
  <2>3. \A a \in Addresses :
          /\ a # active.addr =>
               Contents(a)' = Contents(a) \/ (a \in Unsettled /\ a \notin Unsettled')
          /\ a \in Unsettled' => a \in Unsettled /\ a # active.addr
    BY <1>6, WriteWrites, OtherLinesKept DEF Line
  <2>4. Unsettled' \subseteq Unsettled \ {active.addr}
    BY <2>3 DEF Unsettled
  <2>5. \A a \in Addresses \ ((Unsettled \ Unsettled') \cup {active.addr}) : Mem'[a] = Mem[a]
    BY <2>3
  <2>6. \A b \in Bytes :
          \/ b \in Op.mask /\ Mem'[Op.addr][b] = Op.data[b]
          \/ b \notin Op.mask /\ (Op.addr \in Unsettled \/ Mem'[Op.addr][b] = Mem[Op.addr][b])
    BY <1>6, <2>1, WriteWrites DEF Line
  <2>7. M!Write
    BY <1>2, <2>1, <2>2, <2>4, <2>5, <2>6 DEF M!Write, M!Settle
  <2> QED
    BY <2>7 DEF M!Next
<1>7. CASE \E p \in Ports, r \in Requests : Raise(p, r)
  <2>1. PICK p \in Ports, r \in Requests : Raise(p, r)
    BY <1>7
  <2>2. UNCHANGED <<ramVars, ddr, answer, state, active>> /\ \A l : Replacing(l)' <=> Replacing(l)
    BY <2>1 DEF Raise, Replacing, Line
  <2>3. Mem' = Mem /\ Unsettled' = Unsettled /\ Op' = Op
    BY <2>2, NothingWritten
  <2>4. M!Raise(p, r)
    BY <2>1, <2>2, <2>3 DEF Raise, M!Raise
  <2> QED
    BY <2>4 DEF M!Next
<1>8. CASE UNCHANGED cacheVars
  <2>1. UNCHANGED <<ramVars, ddr, answer, state, active, request>>
        /\ \A l : Replacing(l)' <=> Replacing(l)
    BY <1>8 DEF cacheVars, ramVars, Replacing, Line
  <2>2. Mem' = Mem /\ Unsettled' = Unsettled /\ Op' = Op
    BY <2>1, NothingWritten
  <2> QED
    BY <2>1, <2>2 DEF M!vars
<1> QED
  BY <1>3, <1>4, <1>5, <1>6, <1>7, <1>8 DEF Next, Clock

(* Whatever the ports ask of it, in whatever order and with whatever delays *)
(* of the backend: behind the cache there is one memory.                    *)
THEOREM CacheIsMemory == Spec => IsMemory
<1> QED
  BY InitIsMemory, NextIsMemory, CacheSafety, PTL DEF Spec, IsMemory, M!Spec

=============================================================================
