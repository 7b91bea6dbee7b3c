------------------------------ MODULE MCFiles ------------------------------
EXTENDS Files

(* A card is named by the partition table, the boot sector, the FAT and the *)
(* four entries of the root directory it has, each by its number below.     *)
TableLine(type, offset, size) == [type |-> type, offset |-> offset, size |-> size]

Unused == TableLine("Unused", 0, 0)

Tables == <<
    <<TableLine("Fat32", 2, 10), Unused, Unused, Unused>>,
    <<Unused, TableLine("Fat16", 1, 1), TableLine("Fat32", 2, 11), Unused>>,
    <<TableLine("Fat32", 1, 1), TableLine("Fat32Lba", 2, 10), TableLine("Fat32", 2, 9), Unused>>,
    <<TableLine("Fat32", 2, 12), Unused, Unused, Unused>>,     \* up to the last block, and refused
    <<TableLine("Fat32", 0, 9), TableLine("Fat32", 2, 0), Unused, TableLine("Fat32", 2, 63)>>,    \* wraps
    <<TableLine("Fat32", 14, 2), Unused, Unused, Unused>> >>   \* halts

BootSector == [magic |-> TRUE, secPerClus |-> 1, rootClus |-> 2, fat16 |-> FALSE, totSec32 |-> 9,
         rsvdSecCnt |-> 1, numFATs |-> 1, fatSz32 |-> 2]

BootSectors == <<
    BootSector,
    [BootSector EXCEPT !.totSec32 = 11],
    [BootSector EXCEPT !.totSec32 = 6],
    [BootSector EXCEPT !.numFATs = 3, !.fatSz32 = 4],           \* no room for data
    [BootSector EXCEPT !.numFATs = 2, !.fatSz32 = 4, !.totSec32 = 8],    \* fewer sectors than the data starts at
    [BootSector EXCEPT !.fatSz32 = 1],
    [BootSector EXCEPT !.rsvdSecCnt = 20, !.numFATs = 22],      \* wraps
    [BootSector EXCEPT !.magic = FALSE],
    [BootSector EXCEPT !.rootClus = 3],
    [BootSector EXCEPT !.fat16 = TRUE] >>

NoFat == [c \in 0..(2 * ClustersPerFatSector - 1) |-> 0]

(* Where clusters 2 to 7 link to: 30 to 32 are ends, 29 is a bad cluster.   *)
Fat(links) == [c \in DOMAIN NoFat |-> IF c \in 2..7 THEN links[c - 1] ELSE 0]

Fats == <<
    Fat(<<5, 31, 30, 30, 0, 0>>),
    Fat(<<5, 4, 31, 32, 0, 0>>),
    Fat(<<30, 4, 5, 30, 0, 0>>),
    Fat(<<4, 5, 30, 31, 0, 0>>),
    Fat(<<5, 4, 3, 30, 0, 0>>),         \* a file that is a circle
    Fat(<<29, 3, 0, 0, 0, 0>>),
    Fat(<<5, 29, 0, 0, 0, 0>>),
    Fat(<<5, 11, 0, 12, 0, 0>>),        \* out of range
    Fat(<<5, 6, 0, 30, 7, 30>>) >>      \* over the second FAT sector

TextFile(c, n) == [name |-> "live", long |-> FALSE, txt |-> TRUE, cluster |-> c, size |-> n]

DirEntries == <<
    TextFile(3, 0), TextFile(3, 3), TextFile(3, 4), TextFile(3, 6), TextFile(4, 2), TextFile(0, 2),
    [TextFile(3, 1) EXCEPT !.name = "free"],
    [TextFile(0, 0) EXCEPT !.long = TRUE],
    [TextFile(3, 4) EXCEPT !.txt = FALSE],
    [TextFile(0, 0) EXCEPT !.name = "end", !.txt = FALSE] >>

BlankBlock(n) ==
    [magic |-> FALSE, lines |-> [i \in Lines |-> Unused], boot |-> [BootSector EXCEPT !.magic = FALSE],
     fat |-> [i \in 0..(ClustersPerFatSector - 1) |-> 0], clean |-> FALSE,
     dir |-> [i \in 0..(EntriesPerSector - 1) |-> Last(DirEntries)], id |-> n]

FatSector(fat, k) == [i \in 0..(ClustersPerFatSector - 1) |-> fat[i + k * ClustersPerFatSector]]

DirSector(i, j) == 0 :> DirEntries[i] @@ 1 :> DirEntries[j]

CardOf(key) ==
    [numBlocks |-> 14, blocks |-> [n \in 0..13 |->
        CASE n = 0 -> [BlankBlock(n) EXCEPT !.magic = TRUE, !.lines = Tables[key[1]]]
          [] n = 2 -> [BlankBlock(n) EXCEPT !.boot = BootSectors[key[2]]]
          [] n = 3 -> [BlankBlock(n) EXCEPT !.fat = FatSector(Fats[key[3]], 0), !.clean = key[1] # 2]
          [] n = 4 -> [BlankBlock(n) EXCEPT !.fat = FatSector(Fats[key[3]], 1)]
          [] n = 5 -> [BlankBlock(n) EXCEPT !.dir = DirSector(key[4], key[5])]
          [] n \in {7, 8} -> [BlankBlock(n) EXCEPT !.dir = DirSector(key[6], key[7])]
          [] OTHER -> BlankBlock(n)]]

(* The digit of n that chooses; weight is what the digits before it make. *)
Digit(n, weight, choices) == choices[1 + ((n \div weight) % Len(choices))]

(* Every FAT with a choice of root directories.                             *)
Content(n) ==
    <<1, 1, Digit(n, 1, <<1, 2, 3, 4, 5, 6, 7, 8, 9>>), Digit(n, 9, <<2, 3, 4, 6, 7, 9>>),
      Digit(n, 54, <<1, 5, 7, 10>>), Digit(n, 216, <<3, 10>>), 8>>

(* Every partition table with every boot sector.                            *)
Layout(n) ==
    <<Digit(n, 1, <<1, 2, 3, 4, 5, 6>>), Digit(n, 6, <<1, 2, 3, 4, 5, 6, 7, 8, 9, 10>>),
      Digit(n, 60, <<1, 8>>), 2, 5, 5, 10>>

MCCards == [n \in 1..(432 + 120) |-> CardOf(IF n <= 432 THEN Content(n) ELSE Layout(n))]

=============================================================================
