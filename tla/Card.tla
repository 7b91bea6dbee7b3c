-------------------------------- MODULE Card --------------------------------
(***************************************************************************)
(* What is on an SD card: its blocks as the code looks at them, and, by the *)
(* rules of the FAT32 format, the text files that are to be sent of it.     *)
(*                                                                         *)
(* A block is a record with one field for each way the code looks at it:    *)
(* lines and magic (boot record), boot (boot sector), fat and clean (FAT),  *)
(* dir (directory).                                                         *)
(***************************************************************************)
EXTENDS Integers, Sequences, FiniteSets, SequencesExt

CONSTANTS
    Cards,                  \* the cards there are: a sequence of [numBlocks, blocks]
    BlockSize,              \* SD::BlockSize
    EntriesPerSector,       \* DirEntriesPerSector
    ClustersPerFatSector,   \* CLUSTERS_PER_FAT_SECTOR
    MinClusters,            \* 65525, below which a volume is not FAT32
    Eoc,                    \* 0x0ffffff8
    Word

Lines == 1..4

CardNumbers == DOMAIN Cards

(* A 32-bit number of the code. *)
Numbers == 0..(Word - 1)

(* What is on a card has the widths of the code's structures. *)
BlockAssumption(b) ==
    /\ \A i \in Lines : b.lines[i].offset \in Numbers /\ b.lines[i].size \in Numbers
    /\ {b.boot.rsvdSecCnt, b.boot.numFATs, b.boot.fatSz32, b.boot.totSec32} \subseteq Numbers
    /\ \A c \in 0..(ClustersPerFatSector - 1) : b.fat[c] \in Numbers
    /\ \A i \in 0..(EntriesPerSector - 1) :
          /\ b.dir[i].name \in {"live", "free", "end"}
          /\ b.dir[i].cluster \in Numbers /\ b.dir[i].size \in Numbers

ASSUME FilesAssumption ==
    /\ BlockSize \in Nat \ {0}
    /\ EntriesPerSector \in Nat \ {0}
    /\ ClustersPerFatSector \in Nat \ {0}
    /\ MinClusters \in Nat
    /\ Eoc \in Nat /\ ClustersPerFatSector < Eoc
    /\ Word \in Nat
    /\ \A n \in CardNumbers :
          /\ Cards[n].numBlocks \in Numbers \ {0}
          /\ \A k \in 0..(Cards[n].numBlocks - 1) : BlockAssumption(Cards[n].blocks[k])

-----------------------------------------------------------------------------
Fat32(l) == l.type \in {"Fat32", "Fat32Lba"}

(* FAT::FAT: the volume a boot sector describes, and whether it is taken.   *)
Volume(l, b) ==
    [offset    |-> l.offset,
     size      |-> l.size,
     firstFat  |-> b.rsvdSecCnt,
     firstData |-> (b.rsvdSecCnt + b.numFATs * b.fatSz32) % Word,
     total     |-> b.totSec32]

Sent(what, n, len) == [what |-> what, n |-> n, len |-> len]

-----------------------------------------------------------------------------
(* The rules of the format, for the first FAT32 partition with a boot       *)
(* sector: the FAT as one array, a chain as a sequence.                     *)

MayMount(d, l) == Fat32(l) /\ d.blocks[l.offset].boot.magic

TheLine(d) ==
    LET table == d.blocks[0].lines
        i == CHOOSE i \in Lines : /\ MayMount(d, table[i])
                                  /\ \A j \in 1..(i - 1) : ~MayMount(d, table[j])
    IN  table[i]

TheVolume(d) == Volume(TheLine(d), d.blocks[TheLine(d).offset].boot)

Clusters(v) == 2..(v.total - v.firstData + 1)

FatEntry(d, v, c) ==
    d.blocks[v.offset + v.firstFat + c \div ClustersPerFatSector].fat[c % ClustersPerFatSector]

Data(d, v, c) == d.blocks[v.offset + v.firstData + c - 2]

(* A chain with the cluster that the last one links to, if there is one.   *)
Longer(d, v, chain) ==
    IF Last(chain) \in Clusters(v) /\ FatEntry(d, v, Last(chain)) < Eoc
    THEN Append(chain, FatEntry(d, v, Last(chain))) ELSE chain

Chain(d, v, c) ==
    LET walk[n \in Nat] == IF n = 0 THEN <<c>> ELSE Longer(d, v, walk[n - 1])
    IN  walk[v.total]

(* The chain ends with the mark of an end, inside the first FAT sector.     *)
ChainEnds(d, v, c) ==
    LET chain == Chain(d, v, c) IN
    /\ \A k \in DOMAIN chain : chain[k] \in Clusters(v) /\ chain[k] < ClustersPerFatSector
    /\ FatEntry(d, v, Last(chain)) >= Eoc

(* The entries of the root directory, one sector after the other.           *)
Slots(d, v) == Len(Chain(d, v, 2)) * EntriesPerSector

Slot(d, v, n) ==
    Data(d, v, Chain(d, v, 2)[1 + (n - 1) \div EntriesPerSector]).dir[(n - 1) % EntriesPerSector]

(* The listing has not come to its end up to the n-th. *)
Goes(d, v, n) == \A i \in 1..n : Slot(d, v, i).name # "end"

IsText(e) == e.name = "live" /\ e.txt /\ ~e.long

Listed(d, v, n) ==
    /\ n \in 1..Slots(d, v)
    /\ Goes(d, v, n)
    /\ IsText(Slot(d, v, n))

(* How many blocks of a card n bytes take. *)
BlocksOf(n) == (n + BlockSize - 1) \div BlockSize

Dump(d, v, e) ==
    LET chain == Chain(d, v, e.cluster) IN
    <<Sent("title", e.cluster, e.size)>> \o
    [k \in 1..BlocksOf(e.size) |->
        Sent("text", Data(d, v, chain[k]).id,
             IF e.size < k * BlockSize THEN e.size - (k - 1) * BlockSize ELSE BlockSize)]

(* What is sent of the n-th entry, and what of the first n.                 *)
TextOf(d, v, n) == IF Listed(d, v, n) THEN Dump(d, v, Slot(d, v, n)) ELSE <<>>

Dumps(d, v, n) ==
    LET dumps[i \in Nat] == IF i = 0 THEN <<>> ELSE dumps[i - 1] \o TextOf(d, v, i)
    IN  dumps[n]

Wanted(d) == Dumps(d, TheVolume(d), Slots(d, TheVolume(d)))

(* A card as a formatter leaves it, with a volume whose chains stay in the  *)
(* first FAT sector and whose first entry is not a deleted one.             *)
SoundVolume(d, v, b) ==
    /\ b.magic /\ b.secPerClus = 1 /\ b.rootClus = 2 /\ ~b.fat16
    /\ 0 < v.firstFat /\ v.firstFat < v.firstData /\ v.firstData <= v.total /\ v.total <= v.size
    /\ Cardinality(Clusters(v)) >= MinClusters
    /\ b.fatSz32 * ClustersPerFatSector >= Cardinality(Clusters(v)) + 2
    /\ d.blocks[v.offset + v.firstFat].clean
    /\ ChainEnds(d, v, 2)
    /\ Data(d, v, 2).dir[0].name = "live"
    /\ \A n \in 1..Slots(d, v) : Listed(d, v, n) =>
          LET e == Slot(d, v, n) IN
          e.size > 0 => /\ ChainEnds(d, v, e.cluster)
                        /\ Len(Chain(d, v, e.cluster)) * BlockSize >= e.size

Sound(d) ==
    /\ d.blocks[0].magic
    /\ \A i \in Lines : LET l == d.blocks[0].lines[i] IN
          l.type # "Unused" => l.offset > 0 /\ l.size > 0 /\ l.offset + l.size < d.numBlocks
    /\ \E i \in Lines : MayMount(d, d.blocks[0].lines[i])
    /\ SoundVolume(d, TheVolume(d), d.blocks[TheLine(d).offset].boot)

(* Whether a card is sound, and what is then to be sent. *)
Expected(d) ==
    IF Sound(d) THEN [sound |-> TRUE, out |-> Wanted(d)] ELSE [sound |-> FALSE, out |-> <<>>]

=============================================================================
