-------------------------------- MODULE Boot --------------------------------
(***************************************************************************)
(* From the linker's script to the first line of main: where the sections  *)
(* of a program are laid out (firmware/t89-linker.ld), which segments      *)
(* ElfParser finds in the file and flashes into the ROM, and what load_ram *)
(* (bootup.c) copies from there to the RAM.  A byte is the section it      *)
(* belongs to and its place in it.  Addresses count from the origins of    *)
(* ROM and RAM; paddr of a segment is the origin it starts at.             *)
(***************************************************************************)
EXTENDS Integers, Sequences, SequencesExt

Zero == <<"zero", 0>>

(* A program: the sizes of its text, data and bss, and the headers of the   *)
(* file in front of and behind those of its segments.                       *)
Aligned(n) == ((n + 3) \div 4) * 4

Image(section, size) ==
    [i \in 1 .. Aligned(size) |-> IF i <= size THEN <<section, i>> ELSE Zero]

Symbols(p) ==
    LET edata == Aligned(p.data)
    IN  [_program_end |-> Aligned(p.text),
         _sdata |-> 0, _edata |-> edata,
         _sbss |-> edata, _ebss |-> edata + Aligned(p.bss)]

RomSegment(p) ==
    [type |-> "LOAD", flags |-> {"R", "X"}, paddr |-> "rom",
     file |-> Image("text", p.text), memsz |-> Aligned(p.text)]
RamSegment(p) ==
    [type |-> "LOAD", flags |-> {"R", "W"}, paddr |-> "ram",
     file |-> Image("data", p.data), memsz |-> Symbols(p)._ebss]

(* The segments the linker or its driver may add, none of them loaded.      *)
GnuStack ==
    [type |-> "GNU_STACK", flags |-> {"R", "W", "X"}, paddr |-> "none",
     file |-> << >>, memsz |-> 0]
Attributes == [type |-> "RISCV_ATTRIBUTES", flags |-> {"R"}, paddr |-> "none",
               file |-> << <<"attributes", 1>> >>, memsz |-> 0]

-----------------------------------------------------------------------------
(* initStructures: the segments by their flags.                             *)
Loadable(h) == h.type = "LOAD"
IsRam(h) == Loadable(h) /\ {"R", "W"} \subseteq h.flags
IsRom(h) == Loadable(h) /\ {"R", "X"} \subseteq h.flags /\ "W" \notin h.flags

(* Two RAM segments end the emulator; a missing segment is a null pointer.  *)
Starts(headers) ==
    /\ \E i \in DOMAIN headers :
          IsRam(headers[i]) /\ \A j \in DOMAIN headers \ {i} : ~ IsRam(headers[j])
    /\ \E i \in DOMAIN headers : IsRom(headers[i])

ramHeader(headers) == headers[SelectInSeq(headers, IsRam)]
romHeader(headers) == headers[SelectInSeq(headers, IsRom)]

Flashed(h) == SubSeq(h.file, 1, IF h.memsz < Len(h.file) THEN h.memsz ELSE Len(h.file))

(* Not the code: the RAM's image is flashed in front of the ROM's.          *)
BugflashRom(headers) == Flashed(ramHeader(headers)) \o Flashed(romHeader(headers))

flashRom(headers) == Flashed(romHeader(headers)) \o Flashed(ramHeader(headers))

(* A byte of the ROM's buffer, which is 0 where nothing was flashed.        *)
RomByte(rom, a) == IF a < Len(rom) THEN rom[a + 1] ELSE Zero

(* The copy loop and the zeroing loop, word by word up to the end symbol.   *)
load_ram(rom, s) ==
    [a \in 0 .. s._ebss - 1 |->
        IF s._sbss <= a THEN Zero ELSE RomByte(rom, s._program_end + (a - s._sdata))]

-----------------------------------------------------------------------------
(* What the program was linked to find in the RAM.                          *)
LinkedRam(p) ==
    [a \in 0 .. Aligned(p.data) + Aligned(p.bss) - 1 |->
        IF a < p.data THEN <<"data", a + 1>> ELSE Zero]
=============================================================================
