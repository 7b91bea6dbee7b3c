------------------------------- MODULE Files -------------------------------
(***************************************************************************)
(* From the partition table to the text files: PartitionTable, Partition    *)
(* and FAT (saros/saros/fs), the loop that mounts a volume (sd.cpp) and     *)
(* start_8bit (main.cpp), which lists the root directory and sends every    *)
(* file whose extension is TXT to the UART.  Who waits for whom is in Sync, *)
(* how a block is read in SdCard; here a read gives the block or nothing.   *)
(*                                                                         *)
(* What is on a card is in Card.  Numbers wrap at Word, the code's 2^32.    *)
(***************************************************************************)
EXTENDS Card

VARIABLES
    card,       \* which of them is in the slot
    wanted,     \* what is to be sent of it, by the rules of the format: for the property
    stage,      \* what runs next, or how it ended
    line,       \* the line of the partition table the mounting loop is at
    fs,         \* the mounted volume: a FAT and its Partition, or NoFs
    dir,        \* the directory iterator
    file,       \* the File being sent
    out         \* what start_8bit has sent

filesVars == <<card, wanted, stage, line, fs, dir, file, out>>

NoFs == [offset |-> 0, size |-> 0, firstFat |-> 0, firstData |-> 0, total |-> 0]

FilesTypeOK ==
    /\ card \in CardNumbers
    /\ stage \in {"table", "mount", "mounted", "first", "entry", "file", "next", "link", "load",
                  "done", "halted", "asserted", "failed"}
    /\ line \in Lines
    /\ \A x \in DOMAIN fs : fs[x] \in Nat
    /\ dir.cluster \in Nat /\ dir.index \in 0..(EntriesPerSector - 1)
    /\ file.cluster \in Nat /\ file.size \in Nat

FilesInit ==
    /\ card \in CardNumbers
    /\ wanted = Expected(Cards[card])
    /\ stage = "table"
    /\ line = 1
    /\ fs = NoFs
    /\ dir = [cluster |-> 0, index |-> 0]
    /\ file = [cluster |-> 0, size |-> 0]
    /\ out = <<>>

-----------------------------------------------------------------------------
(* Partitions. *)

Disk == Cards[card]

Mbr == Disk.blocks[0]

(* The debugging halt() stands before the message about such a line.        *)
HaltsOn(l) == l.type # "Unused" /\ l.offset >= Disk.numBlocks

Kept(l) ==
    /\ l.type # "Unused"
    /\ l.offset # 0
    /\ l.size # 0
    /\ (l.offset + l.size) % Word < Disk.numBlocks

ReadTable ==
    /\ stage = "table"
    /\ stage' = IF ~Mbr.magic THEN "mounted"
                ELSE IF \E i \in Lines : HaltsOn(Mbr.lines[i]) THEN "halted"
                ELSE "mount"
    /\ UNCHANGED <<card, wanted, line, fs, dir, file, out>>

(* Partition::readBlock asserts the first, SD::readBlock gives an empty      *)
(* pointer without the second, and to look into that asserts as well.       *)
Readable(v, n) == n < v.size /\ (n + v.offset) % Word < Disk.numBlocks

Block(v, n) == Disk.blocks[(n + v.offset) % Word]

-----------------------------------------------------------------------------
(* FAT. *)

NumClusters(v) == (v.total - v.firstData) % Word

Accepted(v, b) ==
    /\ b.magic
    /\ b.secPerClus = 1
    /\ b.rootClus = 2
    /\ ~b.fat16
    /\ v.total <= v.size
    /\ v.firstData <= v.size
    /\ NumClusters(v) >= MinClusters
    /\ b.fatSz32 >= ((NumClusters(v) + ClustersPerFatSector - 1) % Word)
                        \div ClustersPerFatSector

ClusterBlock(c) == (c - 2 + fs.firstData) % Word

FatBlock(c) == fs.firstFat + c \div ClustersPerFatSector

(* FAT::nextCluster.  The remainder is by the number of the FAT sector, not *)
(* by ClustersPerFatSector.  In the first sector that is a division by 0;   *)
(* the build is rv32i, whose libgcc routine then returns the dividend, so   *)
(* there the right entry is read, and in no other sector.                   *)
NextCluster(c) ==
    LET sector == c \div ClustersPerFatSector
        entry == IF sector = 0 THEN c ELSE c % sector
    IN  Block(fs, FatBlock(c)).fat[entry]

IsEoc(c) == c >= Eoc

IsValid(c) == c >= 2 /\ c < Eoc - 1

-----------------------------------------------------------------------------
(* The blocks of the volume that the next step reads. *)

(* The loop of SD::threadMain comes to a line it mounts. *)
Mounts ==
    /\ stage = "mount"
    /\ Kept(Mbr.lines[line])
    /\ Fat32(Mbr.lines[line])
    /\ fs.total = 0

Candidate ==
    LET l == Mbr.lines[line] IN Volume(l, Disk.blocks[l.offset].boot)

Takes == Accepted(Candidate, Disk.blocks[Candidate.offset].boot)

HasBlock == IsValid(file.cluster) /\ file.size # 0

Needs ==
    CASE Mounts -> {0} \cup (IF Takes THEN {Candidate.firstFat} ELSE {})
      [] stage \in {"first", "load"} -> {ClusterBlock(dir.cluster)}
      [] stage = "link" -> {FatBlock(dir.cluster)}
      [] stage = "file" /\ HasBlock ->
            {ClusterBlock(file.cluster)} \cup
            (IF file.size > BlockSize THEN {FatBlock(file.cluster)} ELSE {})
      [] OTHER -> {}

(* The assertion of nextCluster compares a cluster with a count of sectors. *)
InRange ==
    /\ \A n \in Needs : Readable(IF Mounts THEN Candidate ELSE fs, n)
    /\ stage = "link" => dir.cluster < fs.total
    /\ stage = "file" /\ HasBlock /\ file.size > BlockSize => file.cluster < fs.total

-----------------------------------------------------------------------------
(* SD::threadMain.  The FAT keeps a reference to a Partition that does not  *)
(* outlive its turn of the loop: what it held stays in the frame until the  *)
(* next card, and here there is only one.                                   *)

Mount ==
    /\ stage = "mount"
    /\ InRange
    /\ fs' = IF Mounts /\ Takes /\ Block(Candidate, Candidate.firstFat).clean
             THEN Candidate ELSE fs
    /\ IF line = 4 THEN stage' = "mounted" /\ UNCHANGED line
       ELSE line' = line + 1 /\ UNCHANGED stage
    /\ UNCHANGED <<card, wanted, dir, file, out>>

-----------------------------------------------------------------------------
(* start_8bit. *)

(* The first entry is given without a look at its name. *)
List ==
    /\ stage = "mounted"
    /\ fs.total # 0
    /\ stage' = "first"
    /\ dir' = [cluster |-> 2, index |-> 0]
    /\ UNCHANGED <<card, wanted, line, fs, file, out>>

EntryAt(d) == Block(fs, ClusterBlock(d.cluster)).dir[d.index]

Visit ==
    /\ stage \in {"first", "entry"}
    /\ InRange
    /\ LET e == EntryAt(dir) IN
       IF e.txt /\ ~e.long
       THEN /\ file' = [cluster |-> e.cluster, size |-> e.size]
            /\ out' = Append(out, Sent("title", e.cluster, e.size))
            /\ stage' = "file"
       ELSE stage' = "next" /\ UNCHANGED <<file, out>>
    /\ UNCHANGED <<card, wanted, line, fs, dir>>

(* File::readBlock and the loop that sends the block. *)
FileBlock ==
    /\ stage = "file"
    /\ HasBlock
    /\ InRange
    /\ out' = Append(out, Sent("text", Block(fs, ClusterBlock(file.cluster)).id,
                               IF file.size <= BlockSize THEN file.size ELSE BlockSize))
    /\ file' = IF file.size <= BlockSize THEN [file EXCEPT !.size = 0]
               ELSE [cluster |-> NextCluster(file.cluster), size |-> file.size - BlockSize]
    /\ UNCHANGED <<card, wanted, stage, line, fs, dir>>

FileEnd ==
    /\ stage = "file"
    /\ ~HasBlock
    /\ stage' = "next"
    /\ UNCHANGED <<card, wanted, line, fs, dir, file, out>>

(* Mutation: the name is not looked at. *)
LandAnyway(d) ==
    /\ dir' = d
    /\ stage' = "entry"

(* ConstIterator::operator++ at the entry it has come to. *)
Land(d) ==
    /\ dir' = d
    /\ stage' = CASE EntryAt(d).name = "end" -> "done"
                  [] EntryAt(d).name = "free" -> "next"
                  [] OTHER -> "entry"

(* Mutation: a deleted entry is passed over without going on to the next. *)
AdvanceStuck ==
    /\ stage = "next"
    /\ IF EntryAt(dir).name = "free" THEN UNCHANGED <<stage, dir>>
       ELSE IF dir.index + 1 = EntriesPerSector THEN stage' = "link" /\ UNCHANGED dir
       ELSE Land([dir EXCEPT !.index = @ + 1])
    /\ UNCHANGED <<card, wanted, line, fs, file, out>>

Advance ==
    /\ stage = "next"
    /\ IF dir.index + 1 = EntriesPerSector THEN stage' = "link" /\ UNCHANGED dir
       ELSE Land([dir EXCEPT !.index = @ + 1])
    /\ UNCHANGED <<card, wanted, line, fs, file, out>>

(* A chain that ends without the mark of an end is reported. *)
Link ==
    /\ stage = "link"
    /\ InRange
    /\ LET next == NextCluster(dir.cluster) IN
       IF IsValid(next) THEN stage' = "load" /\ dir' = [cluster |-> next, index |-> 0] /\ UNCHANGED out
       ELSE /\ stage' = "done"
            /\ out' = IF next >= Eoc THEN out ELSE Append(out, Sent("bad", next, 0))
            /\ UNCHANGED dir
    /\ UNCHANGED <<card, wanted, line, fs, file>>

Load ==
    /\ stage = "load"
    /\ InRange
    /\ Land(dir)
    /\ UNCHANGED <<card, wanted, line, fs, file, out>>

-----------------------------------------------------------------------------
Asserts ==
    /\ Needs # {}
    /\ ~InRange
    /\ stage' = "asserted"
    /\ UNCHANGED <<card, wanted, line, fs, dir, file, out>>

(* A read that fails gives an empty pointer: the partition table is then    *)
(* taken for empty, everything else looks into it and asserts.              *)
CardFails ==
    /\ stage = "table" \/ (Needs # {} /\ InRange)
    /\ stage' = IF stage = "table" THEN "mounted" ELSE "failed"
    /\ UNCHANGED <<card, wanted, line, fs, dir, file, out>>

FilesNext ==
    \/ ReadTable \/ Mount \/ List
    \/ Visit \/ FileBlock \/ FileEnd \/ Advance \/ Link \/ Load
    \/ Asserts \/ CardFails

FilesFairness == WF_filesVars(FilesNext)

FilesSpec == FilesInit /\ [][FilesNext]_filesVars /\ FilesFairness

-----------------------------------------------------------------------------
(* What start_8bit has sent of a sound card is the beginning of its text    *)
(* files, in the order of the directory, every block once and the last one  *)
(* only as far as the file goes; it is all of them when the listing ends,   *)
(* and no assertion comes before that (main.cpp:77, fat.cpp:203, 320).      *)
DumpsFiles ==
    wanted.sound =>
        /\ IsPrefix(out, wanted.out)
        /\ stage = "done" => out = wanted.out
        /\ stage \notin {"asserted", "halted"}

(* Whatever is on the card, a FAT whose chains run in a circle included,    *)
(* the listing ends, provided the chain of the directory does               *)
(* (fat.cpp:210, main.cpp:92: each turn of the loop uses up the size).      *)
DumpEnds ==
    (stage = "first" /\ ChainEnds(Disk, fs, 2))
        ~> stage \in {"done", "failed", "asserted"}

=============================================================================
