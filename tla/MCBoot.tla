------------------------------- MODULE MCBoot -------------------------------
EXTENDS Boot

(* The images in the flash: what the loader takes from an ELF header and    *)
(* from the program and section headers.                                    *)
Segment(loaded, offset, filesz, vaddr, memsz) ==
    [load |-> loaded, offset |-> offset, filesz |-> filesz, vaddr |-> vaddr, memsz |-> memsz]

SectionAt(nobits, addr, size) == [nobits |-> nobits, addr |-> addr, size |-> size]

Elf(valid, phdrs, shdrs) == [valid |-> valid, phdrs |-> phdrs, shdrs |-> shdrs]

Code == Segment(TRUE, 1000, 24, 256, 48)

Bss == SectionAt(TRUE, 280, 16)

(* The last line of no segment here has more than half a line of bytes. *)
MCImages == <<
    Elf(TRUE, <<Code, Segment(FALSE, 500, 8, 0, 8), Segment(TRUE, 0, 0, 320, 16)>>,
        <<Bss, SectionAt(TRUE, 320, 10)>>),
    Elf(TRUE, <<Segment(TRUE, 1000, 37, 256, 37), Segment(TRUE, 1040, 16, 304, 16)>>,
        <<SectionAt(FALSE, 256, 37), SectionAt(TRUE, 340, 8)>>),
    Elf(FALSE, <<Code>>, <<>>),                         \* not an ELF image
    Elf(TRUE, <<Code, Code, Code, Code>>, <<>>),        \* too many program headers
    Elf(TRUE, <<Code>>, <<Bss, Bss, Bss>>),             \* too many sections
    Elf(TRUE, <<>>, <<>>) >>

(* What is proved of images that fit is proved of these. *)
ASSUME ImagesFit ==
    \A i \in DOMAIN MCImages : GoodImage(MCImages[i]) => Placeable(MCImages[i]) /\ Plain(MCImages[i])

(* A segment with 12 bytes in its last line. *)
MCRaggedImages == << Elf(TRUE, <<Segment(TRUE, 1000, 28, 256, 28)>>, <<>>) >>

=============================================================================
