-------------------------------- MODULE Boot --------------------------------
(***************************************************************************)
(* The boot loader: bl1_main brings the flash into quad mode, loads the ELF *)
(* image of the operating system (elf_reader.cpp) through the SPI driver    *)
(* (spi.cpp, spi_flash.cpp), puts the flash back and jumps.                 *)
(*                                                                         *)
(* An image says what its headers say; that the loader reads them from      *)
(* buffers which hold them is an invariant.                                 *)
(***************************************************************************)
EXTENDS Spi

CONSTANTS
    Images,         \* ELF images: see MCBoot
    BufferSize,     \* of OS_LOAD_BUFFER_PHDR, and of OS_LOAD_BUFFER_SECT
    HeaderBuffer, PhdrBuffer, SectBuffer,   \* their addresses
    OsFlashAddress, \* OS_FLASH_ADDRESS
    PhOffset, ShOffset                      \* e_phoff and e_shoff

Ehdr == 52
Phdr == 32
Shdr == 40

(* What the loader checks of a header before it goes by it.                 *)
GoodImage(im) ==
    /\ im.valid
    /\ Len(im.phdrs) * Phdr <= BufferSize
    /\ Len(im.shdrs) * Shdr <= BufferSize

ASSUME BootAssumption ==
    /\ {HeaderBuffer, PhdrBuffer, SectBuffer, BufferSize} \subseteq Nat
    /\ {OsFlashAddress, PhOffset, ShOffset} \subseteq Nat
    /\ \A i \in DOMAIN Images : Images[i] \in
          [valid : BOOLEAN,
           phdrs : Seq([load : BOOLEAN, offset : Nat, filesz : Nat, vaddr : Nat, memsz : Nat]),
           shdrs : Seq([nobits : BOOLEAN, addr : Nat, size : Nat])]

(* What n bytes take, in whole lines. *)
WholeLines(n) == ((n + LineBytes - 1) \div LineBytes) * LineBytes

(* The n bytes from a on and the m bytes from b on have none in common. *)
Apart(a, n, b, m) == n = 0 \/ m = 0 \/ a + n <= b \/ b + m <= a

(* The lines of the hardware, and the buffers as the linker script and the  *)
(* compiler place them.                                                     *)
ASSUME BufferAssumption ==
    /\ LineBytes = 16
    /\ \A b \in {HeaderBuffer, PhdrBuffer, BufferSize} : b % LineBytes = 0
    /\ SectBuffer = PhdrBuffer + BufferSize
    /\ Apart(HeaderBuffer, WholeLines(Ehdr), PhdrBuffer, 2 * BufferSize)

VARIABLES
    image,          \* what is in the flash
    step,           \* where bl1_main is
    after,          \* where it goes when deinit has returned
    script,         \* the transactions init or deinit still has to make
    txn, counted,   \* the transaction being started; its counts are written
    lastOp,         \* last_op_dest, last_op_size
    index           \* the i of load_os

loaderVars == <<image, step, after, script, txn, counted, lastOp, index>>
bootVars == <<loaderVars, spiVars>>

FlashId == 31
NumDummyCycles == 3

Transaction(op, arg, quad, send, dummy, address, recv) ==
    [cmd |-> [op |-> op, arg |-> arg], to |-> address,
     count |-> Counts(quad, dummy, send * (IF quad THEN 2 ELSE 8), recv * (IF quad THEN 2 ELSE 8))]

NoTxn == Transaction("none", 0, FALSE, 0, 0, 0, 0)

NoOp == [to |-> 0, size |-> 0]

RecoveryHelper(cycles) ==
    [cmd |-> [op |-> "rescue", arg |-> 0], to |-> 0, count |-> Counts(FALSE, 0, cycles, 0)]

Command(op, arg, quad) ==
    Transaction(op, arg, quad, IF op = "enable" THEN 1 ELSE 2, 0, 0, 0)

ReadId(quad) == Transaction("id", 0, quad, 1, 0, HeaderBuffer, FlashId)

(* The id is only printed. *)
InitScript ==
    [n \in DOMAIN Rescue |-> RecoveryHelper(Rescue[n])] \o
    <<ReadId(FALSE),
      Command("enable", 0, FALSE), Command("dummy", NumDummyCycles, FALSE),
      Command("enable", 0, FALSE), Command("quad", 1, FALSE),
      ReadId(TRUE)>>

DeinitScript ==
    <<Command("enable", 0, TRUE), Command("dummy", 15, TRUE),
      Command("enable", 0, TRUE), Command("quad", 0, TRUE)>>

LoaderInit ==
    /\ image \in DOMAIN Images
    /\ step = "init" /\ after = "os"
    /\ script = InitScript
    /\ txn = NoTxn /\ counted = FALSE
    /\ lastOp = NoOp /\ index = 1

BootInit == SpiInit /\ LoaderInit

Image == Images[image]

-----------------------------------------------------------------------------
(* spi.cpp. *)

(* start_transaction: the counts, then the addresses and the trigger. *)
StartTransaction ==
    /\ txn # NoTxn
    /\ \/ /\ ~counted /\ Begun
          /\ WriteCounts(txn.count)
          /\ counted' = TRUE
          /\ UNCHANGED txn
       \/ /\ counted
          /\ Trigger(txn.cmd, txn.to)
          /\ counted' = FALSE
          /\ txn' = NoTxn
    /\ UNCHANGED <<image, step, after, script, lastOp, index>>

Byte(m, a) == IF a \in DOMAIN m THEN m[a] ELSE Junk

(* Mutation: the bytes of the last line stay at its end. *)
NotRealigned(m, op) == m

(* postprocess_buffer: the bytes of a last line that is not full go to its  *)
(* beginning, the last one first, so that a byte is copied which has been   *)
(* overwritten already when there are more than half a line of them.        *)
Moved(m, base, n) ==
    LET delta == LineBytes - n
        copied[i \in 0..LineBytes] == IF i + delta < n THEN copied[i + delta]
                                ELSE Byte(m, base + i + delta)
    IN  [a \in base..(base + n - 1) |-> copied[a - base]]

Realigned(m, op) ==
    LET n == op.size % LineBytes IN Written(Moved(m, op.to + op.size - n, n), m)

-----------------------------------------------------------------------------
(* spi_flash.cpp. *)

(* The hart is not inside start_transaction. *)
Free == txn = NoTxn

(* wait_transaction: a read of the trigger register. *)
Idle == Free /\ CtrlAck

(* wait_done, in the same step as what follows it. *)
WaitDone == Idle /\ mem' = Realigned(mem, lastOp)

InitiateRead(address, size, dest) ==
    /\ txn' = Transaction("read", address, TRUE, 4, NumDummyCycles, dest, size)
    /\ lastOp' = [to |-> dest, size |-> size]

Untouched == <<regs, from, to, active, sendLeft, recvLeft, outLine, readValid, writeAck,
               spiSide, owed, misframed>>

(* The transactions of init and deinit, each waited for before the next. *)
NextInScript ==
    /\ step \in {"init", "deinit"}
    /\ Free /\ script # <<>>
    /\ txn' = Head(script) /\ script' = Tail(script)
    /\ UNCHANGED <<image, step, after, counted, lastOp, index, spiVars>>

EndOfScript ==
    /\ step \in {"init", "deinit"}
    /\ Idle /\ script = <<>>
    /\ step' = IF step = "init" THEN "start" ELSE after
    /\ UNCHANGED <<image, after, script, txn, counted, lastOp, index, spiVars>>

Deinit(next) == step' = "deinit" /\ after' = next /\ script' = DeinitScript

-----------------------------------------------------------------------------
(* load_os. *)

ReadHeader ==
    /\ step = "start"
    /\ Idle
    /\ InitiateRead(OsFlashAddress, Ehdr, HeaderBuffer)
    /\ step' = "header"
    /\ UNCHANGED <<image, after, script, counted, index, spiVars>>

Refused == ~GoodImage(Image)

(* The program headers are read with the size of an ELF header each. *)
CheckHeader ==
    /\ step = "header"
    /\ WaitDone
    /\ IF Refused
       THEN Deinit("halted") /\ lastOp' = NoOp /\ UNCHANGED txn
       ELSE /\ InitiateRead(OsFlashAddress + PhOffset, Ehdr * Len(Image.phdrs), PhdrBuffer)
            /\ step' = "phdrs"
            /\ UNCHANGED <<after, script>>
    /\ UNCHANGED <<image, counted, index, Untouched>>

PhdrsRead ==
    /\ step = "phdrs"
    /\ WaitDone
    /\ lastOp' = NoOp /\ index' = 1 /\ step' = "segments"
    /\ UNCHANGED <<image, after, script, txn, counted, Untouched>>

More(headers) == index <= Len(headers)

Loads(p) == p.load /\ p.filesz # 0

SkipSegment ==
    /\ step = "segments" /\ Free
    /\ More(Image.phdrs) /\ ~Loads(Image.phdrs[index])
    /\ index' = index + 1
    /\ UNCHANGED <<image, step, after, script, txn, counted, lastOp, spiVars>>

(* The read goes on while the loop looks at the next header. *)
LoadSegment ==
    /\ step = "segments"
    /\ More(Image.phdrs) /\ Loads(Image.phdrs[index])
    /\ WaitDone
    /\ LET p == Image.phdrs[index] IN InitiateRead(OsFlashAddress + p.offset, p.filesz, p.vaddr)
    /\ index' = index + 1
    /\ UNCHANGED <<image, step, after, script, counted, Untouched>>

ReadSections ==
    /\ step = "segments" /\ ~More(Image.phdrs)
    /\ WaitDone
    /\ InitiateRead(OsFlashAddress + ShOffset, Shdr * Len(Image.shdrs), SectBuffer)
    /\ step' = "shdrs"
    /\ UNCHANGED <<image, after, script, counted, index, Untouched>>

SectionsRead ==
    /\ step = "shdrs"
    /\ WaitDone
    /\ lastOp' = NoOp /\ index' = 1 /\ step' = "sections"
    /\ UNCHANGED <<image, after, script, txn, counted, Untouched>>

Within(s, p) == s.addr >= p.vaddr /\ s.addr + s.size <= p.vaddr + p.memsz

Clears(s) == s.nobits /\ \E j \in DOMAIN Image.phdrs : Within(s, Image.phdrs[j])

(* The bytes of a section, in whole words. *)
WholeWords(s) == 4 * ((s.size + 3) \div 4)

Section ==
    /\ step = "sections" /\ Free
    /\ More(Image.shdrs)
    /\ LET s == Image.shdrs[index] IN
       mem' = IF ~Clears(s) THEN mem
              ELSE Written([a \in s.addr..(s.addr + WholeWords(s) - 1) |-> Zero], mem)
    /\ index' = index + 1
    /\ UNCHANGED <<image, step, after, script, txn, counted, lastOp, Untouched>>

OsIsLoaded ==
    /\ step = "sections" /\ ~More(Image.shdrs)
    /\ WaitDone
    /\ lastOp' = NoOp
    /\ Deinit("os")
    /\ UNCHANGED <<image, txn, counted, index, Untouched>>

Loader ==
    \/ StartTransaction \/ NextInScript \/ EndOfScript
    \/ ReadHeader \/ CheckHeader \/ PhdrsRead \/ SkipSegment \/ LoadSegment
    \/ ReadSections \/ SectionsRead \/ Section \/ OsIsLoaded

BootNext == Loader \/ (Clocks /\ UNCHANGED loaderVars)

BootFairness == WF_bootVars(Loader) /\ WF_bootVars(Clocks /\ UNCHANGED loaderVars)

BootSpec == BootInit /\ [][BootNext]_bootVars /\ BootFairness

-----------------------------------------------------------------------------
BootTypeOK ==
    /\ \A a \in DOMAIN mem : a \in Nat /\ (mem[a] \in {Junk, Zero} \/ mem[a] >= OsFlashAddress)
    /\ active \in BOOLEAN /\ sendLeft \in {0, 1} /\ recvLeft \in Nat
    /\ spi \in {"IDLE", "SEND", "RECV_ACTIVE", "RECV_PENDING", "IDLE_PENDING"}
    /\ flash.rescued \in 0..(Len(Rescue) - 1)
    /\ step \in {"init", "start", "header", "phdrs", "segments", "shdrs", "sections", "deinit", "os", "halted"}
    /\ index \in Nat

(* Every frame on the wire is the transaction whose turn it is, with its    *)
(* command, its length, its mode and the number of bytes to receive, though *)
(* the driver is told that a transaction is over before it has been sent,   *)
(* and writes the counts of the next (spi.sv:167, 358; spi.cpp:43).         *)
FramesAreCommands == ~misframed

(* While load_os goes by the headers it has read, they are in its buffers,  *)
(* although it reads more than it has checked there is room for, and loads  *)
(* segments meanwhile (elf_reader.cpp:98, 107, 154).                        *)
Holds(buffer, address, n) ==
    \A b \in 0..(n - 1) : Byte(mem, buffer + b) = OsFlashAddress + address + b

HeadersHeld ==
    /\ step \in {"phdrs", "segments", "shdrs", "sections"} => Holds(HeaderBuffer, 0, Ehdr)
    /\ step \in {"segments", "shdrs", "sections"} =>
            Holds(PhdrBuffer, PhOffset, Phdr * Len(Image.phdrs))
    /\ step = "sections" => Holds(SectBuffer, ShOffset, Shdr * Len(Image.shdrs))

(* When the boot loader jumps to the operating system, every byte of a      *)
(* segment that the file has is in its place, and every byte that only the  *)
(* memory has, and that a NOBITS section covers, is zero                    *)
(* (elf_reader.cpp:108, 140; spi.cpp:29).                                   *)
OsLoaded ==
    step = "os" =>
        \A j \in DOMAIN Image.phdrs :
            LET p == Image.phdrs[j] IN
            p.load =>
                /\ Holds(p.vaddr, p.offset, p.filesz)
                /\ \A b \in p.filesz..(p.memsz - 1) :
                    (\E k \in DOMAIN Image.shdrs :
                        LET s == Image.shdrs[k] IN
                        s.nobits /\ Within(s, p) /\ p.vaddr + b \in s.addr..(s.addr + s.size - 1))
                    => Byte(mem, p.vaddr + b) = Zero

(* The images that these two are promised of: one that is put into lines of *)
(* its own, clear of the buffers of the loader, ...                         *)
ClearOfLoader(address, n) ==
    /\ Apart(address, n, HeaderBuffer, WholeLines(Ehdr))
    /\ Apart(address, n, PhdrBuffer, 2 * BufferSize)

Placeable(im) ==
    /\ \A i \in DOMAIN im.phdrs :
          LET p == im.phdrs[i] IN
          Loads(p) => p.vaddr % LineBytes = 0 /\ ClearOfLoader(p.vaddr, WholeLines(p.filesz))
    /\ \A k \in DOMAIN im.shdrs :
          LET s == im.shdrs[k] IN s.nobits => ClearOfLoader(s.addr, WholeWords(s))

(* ... and, for the second, whose segments neither overlap nor end with more *)
(* than half a line (see boot_realign).                                     *)
Plain(im) ==
    \A i \in DOMAIN im.phdrs :
        LET p == im.phdrs[i] IN
        Loads(p) =>
            /\ 2 * (p.filesz % LineBytes) <= LineBytes
            /\ \A j \in DOMAIN im.phdrs \ {i} :
                  LET q == im.phdrs[j] IN
                  Loads(q) => Apart(p.vaddr, WholeLines(p.filesz), q.vaddr, q.filesz)
            /\ \A k \in DOMAIN im.shdrs :
                  LET s == im.shdrs[k] IN
                  s.nobits => Apart(s.addr, WholeWords(s), p.vaddr, p.filesz)

(* Once begun, the boot loader comes to its end, in the operating system or *)
(* in halt(): every wait for a transaction returns.  The flash is back in   *)
(* the mode it powers up in by then or soon after, "so that Vivado can      *)
(* write to the flash" (spi.cpp:61, spi_flash.cpp:165, bl1_main.cpp:45).    *)
BootEnds == script # InitScript ~> [](step \in {"os", "halted"} /\ flash = PowerUp /\ spi = "IDLE")

=============================================================================
