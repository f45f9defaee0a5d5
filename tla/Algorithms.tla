----------------------------- MODULE Algorithms -----------------------------
(***************************************************************************)
(* The functions of the emulator that keep no state, against reference     *)
(* definitions: the arithmetic of Alu and branchAlu and the immediates of  *)
(* Decode against RV32I, the instruction set README.md names; numbers,     *)
(* attributes and file tables against what DWARF has a compiler write; the *)
(* RAM after Boot against the program as it was linked; the disassembly    *)
(* against what the processor executes; the screen against what was        *)
(* printed.  Initially anything may be asked.  The reference for the       *)
(* arithmetic works with signed integers and division instead of bits.     *)
(***************************************************************************)
EXTENDS Disassembler, SourceMap, Screen, Sections

CONSTANTS
    SampledInstructions,    \* instruction words, as sets of positions
    SampledNumbers,         \* numbers to be encoded
    SectionSizes,           \* sizes of the sections of a program
    SampledLines,           \* instruction words to be disassembled
    SampledSymtabs,         \* symbol tables
    SampledCalls,           \* what a program may ask of the terminal
    SampledAttributes,      \* attributes of an entry of .debug_info
    SampledTables,          \* line tables, of a unit of four bytes at 0
    SampledMissing          \* paths at which no file can be opened

ASSUME SampleAssumption ==
    /\ SampledInstructions \subseteq InstructionWords
    /\ SampledNumbers \subseteq Int
    /\ SectionSizes \subseteq Nat
    /\ SampledLines \subseteq InstructionWords
    /\ \A s \in SampledSymtabs : Len(s) \in Nat /\ DOMAIN s = 1 .. Len(s)
    /\ SampledCalls \subseteq TerminalCalls

VARIABLES
    asked,          \* the arguments
    answer,         \* what the code made of them
    done            \* it was computed

algvars == <<asked, answer, done>>

Operations ==
    [A : Words, B : Words, opcode : {"ITYPE", "RTYPE"}, funct7 : {0, 32}, funct3 : 0 .. 7]
Decodings == [opcode : ImmediateOpcodes, word : SampledInstructions]

(* A number and its encoding of some length, with more of the stream after. *)
Numbers ==
    {n \in [signed : BOOLEAN, number : SampledNumbers, length : 1 .. 4, next : {0, 255}] :
        Holds(n.signed, n.length, n.number)}
Stream(n) == Encoding(n.length, n.number) \o <<n.next>>

(* A program with a RAM segment, and the headers of its file in any order.  *)
Links ==
    UNION {{[program |-> p, headers |-> h] :
                h \in SetToSeqs({RomSegment(p), RamSegment(p), GnuStack, Attributes})} :
           p \in {p \in [text : SectionSizes \ {0}, data : SectionSizes, bss : SectionSizes] :
                    p.data + p.bss > 0}}

(* A word in the list of instructions, and a program with its symbols.      *)
Lines == [instruction : SampledLines]
Listings ==
    [link : {l \in Links : l.program.data = 4 /\ l.program.bss = 4},
     symtab : SampledSymtabs]

(* What a program asks of the terminal, the mode first.                     *)
EnterMode(mode) == [name |-> mode]
CallSequences ==
    {<<EnterMode(m)>> \o s : m \in {"enable_text_mode", "enable_graphics_mode"},
                            s \in BoundedSeq(SampledCalls, 3)}
Sessions == [calls : CallSequences]

(* An entry of .debug_info: the attributes of its abbreviation, one more    *)
(* abbreviation in front of it or behind it, and the tables of strings, the *)
(* other one of which has something else at the offset.                     *)
Entries ==
    [dieCode : {1, 200}, attributes : BoundedSeq(SampledAttributes, 2), first : BOOLEAN]
OtherAbbrev == WrittenAbbrev(7, <<[name |-> 3, form |-> "string", value |-> <<65>>]>>)
Abbreviations(e) ==
    (IF e.first THEN << >> ELSE OtherAbbrev) \o WrittenAbbrev(e.dieCode, e.attributes) \o
    (IF e.first THEN OtherAbbrev ELSE << >>) \o <<0>>
StringsOf(e, form) ==
    <<65, 0, 66>> \o
    FlattenSeq([i \in DOMAIN e.attributes |->
        LET v == e.attributes[i].value IN
        IF e.attributes[i].form \notin {"strp", "line_strp"} THEN << >>
        ELSE [j \in DOMAIN v |-> IF e.attributes[i].form = form THEN v[j] ELSE 67] \o <<0>>])
StringOffset(e, i) ==
    Len(StringsOf([e EXCEPT !.attributes = SubSeq(@, 1, i - 1)], "strp"))
EntryStream(e) ==
    Encoding(2, e.dieCode) \o
    FlattenSeq([i \in DOMAIN e.attributes |->
                    WrittenAttribute(e.attributes[i], StringOffset(e, i))]) \o <<1>>

(* Units of four bytes one after the other, and their line tables in some   *)
(* order: the one of unit u is at place stmtList[u].  Some of the files     *)
(* they name may not be there any more.                                     *)
Sources ==
    UNION {[tables : [1 .. n -> SampledTables], stmtList : Permutations(1 .. n),
            missing : SUBSET SampledMissing] : n \in 1 .. 2}
Units(s) == [u \in DOMAIN s.stmtList |-> [lowPc |-> 4 * (u - 1), length |-> 4]]
TableOf(s, u) == s.tables[s.stmtList[u]]
RowsOf(s, u) ==
    [i \in DOMAIN TableOf(s, u).rows |-> [TableOf(s, u).rows[i] EXCEPT !.address = @ + 4 * (u - 1)]]
StringsBefore(s, n) ==
    FlattenSeq([t \in 1 .. n - 1 |->
        FlattenSeq([i \in DOMAIN StringsIn(s.tables[t]) |-> StringsIn(s.tables[t])[i] \o <<0>>])])
DebugLineStr(s) == StringsBefore(s, 1 + Len(s.tables))
DebugLine(s) ==
    [t \in DOMAIN s.tables |->
        [header |-> WrittenHeader(s.tables[t], Len(StringsBefore(s, t))),
         rows |-> RowsOf(s, CHOOSE u \in DOMAIN s.stmtList : s.stmtList[u] = t)]]

(* A file with some of its sections, in any order.                          *)
OtherSections == (DebugSections \ {<<"debug", "abbrev">>}) \cup {<<"debug", "str", "offsets">>}
Files ==
    [sections : {<<<<"debug", "abbrev">>>> \o s :
                    s \in UNION {SetToSeqs(T) : T \in SUBSET OtherSections}}]

Init ==
    /\ \/ asked \in Operations \/ asked \in Decodings
       \/ asked \in Numbers \/ asked \in Links
       \/ asked \in Lines \/ asked \in Listings
       \/ asked \in Sessions \/ asked \in Entries
       \/ asked \in Sources \/ asked \in Files
    /\ answer = << >> /\ done = FALSE

Operate ==
    /\ asked \in Operations
    /\ \E r \in execute(asked.A, asked.B,
                        getAluOperation(asked.opcode, asked.funct7, asked.funct3)) :
          answer' = [result |-> r, taken |-> branchAlu(asked.A, asked.B, asked.funct3)]
    /\ done' = TRUE
    /\ UNCHANGED asked

Generate ==
    /\ asked \in Decodings
    /\ answer' = getImmediate(asked.opcode, asked.word)
    /\ done' = TRUE
    /\ UNCHANGED asked

DecodeNumber ==
    /\ asked \in Numbers
    /\ answer' = IF asked.signed THEN decodeLeb128(Stream(asked)) ELSE decodeULeb128(Stream(asked))
    /\ done' = TRUE
    /\ UNCHANGED asked

BootProgram ==
    /\ asked \in Links /\ Starts(asked.headers)
    /\ answer' = load_ram(flashRom(asked.headers), Symbols(asked.program))
    /\ done' = TRUE
    /\ UNCHANGED asked

DisassembleInstruction ==
    /\ asked \in Lines
    /\ answer' = generateInstructionStr(asked.instruction)
    /\ done' = TRUE
    /\ UNCHANGED asked

DisassembleProgram ==
    /\ asked \in Listings
    /\ answer' = generateDisassembledCode(asked.link.headers, asked.symtab)
    /\ done' = TRUE
    /\ UNCHANGED asked

ShowScreen ==
    /\ asked \in Sessions
    /\ answer' = renderLcdDisplay(kernel_main(asked.calls).vram)
    /\ done' = TRUE
    /\ UNCHANGED asked

DecodeEntries ==
    /\ asked \in Entries
    /\ answer' = DecodeEntry(AbbrevTable(Abbreviations(asked)), EntryStream(asked),
                             StringsOf(asked, "strp"), StringsOf(asked, "line_strp"))
    /\ done' = TRUE
    /\ UNCHANGED asked

(* The sources of a program, a step at a time: .debug_line as the compiler  *)
(* writes it, the two file tables of every header one behind the other, and *)
(* the units, ready to be looked up; unless a header has a form that is not *)
(* supported, or a file cannot be opened, which ends the emulator.          *)
CompileSources ==
    /\ asked \in Sources /\ answer = << >>
    /\ answer' = [debugLine |-> DebugLine(asked), debugLineStr |-> DebugLineStr(asked)]
    /\ UNCHANGED <<asked, done>>

AnswerUnless(exits, read) ==
    /\ answer' = IF exits THEN [exits |-> TRUE] @@ answer ELSE read
    /\ done' = exits
    /\ UNCHANGED asked

ReadDirectories ==
    /\ asked \in Sources
    /\ "debugLine" \in DOMAIN answer /\ "directories" \notin DOMAIN answer
    /\ LET tables == [t \in DOMAIN answer.debugLine |->
                readFileTable(answer.debugLine[t].header, 0, << >>, answer.debugLineStr)]
       IN  AnswerUnless(\E t \in DOMAIN tables : tables[t].exits,
                        [directories |-> tables] @@ answer)

ReadFileNames ==
    /\ asked \in Sources
    /\ "directories" \in DOMAIN answer /\ "fileNames" \notin DOMAIN answer
    /\ LET tables == [t \in DOMAIN answer.debugLine |->
                readFileTable(answer.debugLine[t].header, answer.directories[t].index,
                              << >>, answer.debugLineStr)]
       IN  AnswerUnless(\E t \in DOMAIN tables : tables[t].exits,
                        [fileNames |-> tables] @@ answer)

LoadSources ==
    /\ asked \in Sources /\ "fileNames" \in DOMAIN answer
    /\ LET units == CompileUnits(Units(asked),
                      [t \in DOMAIN answer.debugLine |->
                          [directories |-> answer.directories[t].entries,
                           fileNames |-> answer.fileNames[t].entries,
                           rows |-> answer.debugLine[t].rows]])
       IN  AnswerUnless(\E u \in DOMAIN units : ~ Opened(units[u].paths, asked.missing),
                        [units |-> units])

ShowSource ==
    /\ asked \in Sources /\ "units" \in DOMAIN answer
    /\ answer' = [exits |-> FALSE, units |-> answer.units,
                   shown |-> [pc \in 0 .. 4 * Len(asked.tables) - 1 |-> Shown(answer.units, pc)]]
    /\ done' = TRUE
    /\ UNCHANGED asked

OpenFile ==
    /\ asked \in Files
    /\ answer' = [opens |-> Opens(asked.sections), headers |-> DebugHeaders(asked.sections)]
    /\ done' = TRUE
    /\ UNCHANGED asked

Next ==
    \/ Operate \/ Generate \/ DecodeNumber \/ BootProgram
    \/ DisassembleInstruction \/ DisassembleProgram
    \/ ShowScreen \/ DecodeEntries
    \/ CompileSources \/ ReadDirectories \/ ReadFileNames \/ LoadSources \/ ShowSource
    \/ OpenFile

Spec == Init /\ [][Next]_algvars

-----------------------------------------------------------------------------
(* The reference.                                                           *)
Signed(w) == IF 2 * w >= WordSize THEN w - WordSize ELSE w
Unsigned(n) == n % WordSize

(* a - b does not fit in a signed word.                                     *)
Overflows(a, b) ==
    2 * (Signed(a) - Signed(b)) \notin - WordSize .. WordSize - 1

DigitSum(digits) ==
    LET number[n \in 0 .. XLEN] ==
            IF n = 0 THEN 0 ELSE 2 * number[n - 1] + digits[XLEN - n]
    IN  number[XLEN]

Reference(a, b, oc, f7, f3) ==
    CASE f3 = 0 /\ oc = "RTYPE" /\ f7 # 0 -> Unsigned(Signed(a) - Signed(b))
      [] f3 = 0 /\ (oc = "ITYPE" \/ f7 = 0) -> Unsigned(Signed(a) + Signed(b))
      [] f3 = 1 -> Unsigned(a * TwoTo[b % XLEN])
      [] f3 = 2 -> IF Signed(a) < Signed(b) THEN 1 ELSE 0
      [] f3 = 3 -> IF a < b THEN 1 ELSE 0
      [] f3 = 4 -> DigitSum([i \in Positions |-> (Digit(a, i) + Digit(b, i)) % 2])
      [] f3 = 5 /\ f7 = 0 -> a \div TwoTo[b % XLEN]
      [] f3 = 5 /\ f7 # 0 -> Unsigned(Signed(a) \div TwoTo[b % XLEN])
      [] f3 = 6 -> DigitSum([i \in Positions |-> IF Digit(a, i) + Digit(b, i) > 0 THEN 1 ELSE 0])
      [] f3 = 7 -> DigitSum([i \in Positions |-> Digit(a, i) * Digit(b, i)])

ReferenceTaken(a, b, f3) ==
    CASE f3 = 0 -> a = b
      [] f3 = 1 -> a # b
      [] f3 = 4 -> Signed(a) < Signed(b)
      [] f3 = 5 -> Signed(a) >= Signed(b)
      [] f3 = 6 -> a < b
      [] f3 = 7 -> a >= b
      [] OTHER -> FALSE

(* Every arithmetic instruction computes what RV32I says, except the shifts *)
(* of a count that does not fit (the code leaves it unmasked, which C++     *)
(* leaves undefined) and SLT and SLTI when the difference overflows.        *)
ArithmeticIsRV32I ==
    done /\ asked \in Operations =>
        \/ asked.funct3 \in {1, 5} /\ asked.B >= XLEN
        \/ asked.funct3 = 2 /\ Overflows(asked.A, asked.B)
        \/ answer.result = Reference(asked.A, asked.B, asked.opcode, asked.funct7, asked.funct3)

(* Every branch goes where RV32I says, except BLT and BGE when the          *)
(* difference of the operands overflows.                                    *)
BranchesAreRV32I ==
    done /\ asked \in Operations =>
        \/ asked.funct3 \in {4, 5} /\ Overflows(asked.A, asked.B)
        \/ answer.taken = ReferenceTaken(asked.A, asked.B, asked.funct3)

(* The immediate generator puts every bit of the instruction where the      *)
(* layout of RV32I's formats has it, sign included.                         *)
ImmediateIsRV32I ==
    done /\ asked \in Decodings =>
        answer = ImmediateOfRV32I(asked.opcode, asked.word)

(* DWARF's numbers of variable length are decoded to what was encoded, of   *)
(* any length and sign, and the stream is left behind them.                 *)
NumbersAreDecoded ==
    done /\ asked \in Numbers => answer = [value |-> asked.number, index |-> asked.length]

(* Every attribute of an entry, of whatever form and after whatever other   *)
(* attribute, gets the value the compiler wrote, and the stream is left at  *)
(* the next entry; the emulator ends at an entry with one of the four forms *)
(* of the standard it has no case for, and at no other.                     *)
EntriesAreDecoded ==
    done /\ asked \in Entries =>
        IF \E i \in DOMAIN asked.attributes : asked.attributes[i].form \in Unsupported
        THEN answer.exits
        ELSE answer = [attributes |->
                          [i \in DOMAIN asked.attributes |->
                              [name |-> asked.attributes[i].name,
                               data |-> DataOf(asked.attributes[i])]],
                       index |-> Len(EntryStream(asked)) - 1, exits |-> FALSE]

(* The files of a program, by the standard.                                 *)
SourceFiles(s) ==
    UNION {{[path |-> PathOf(s.tables[t], f - 1), name |-> s.tables[t].files[f].name] :
                f \in DOMAIN s.tables[t].files} : t \in DOMAIN s.tables}

(* Which tabs are selected for a file: its own, and that of every other     *)
(* file of its name, since the GUI compares names where it could compare    *)
(* paths.  A file whose name no other has is shown in one tab, its own.     *)
TabsOf(s, file) == {f.path : f \in {f \in SourceFiles(s) : f.name = file.name}}

(* The emulator opens a program unless its line tables have an unsupported  *)
(* form or one of its files cannot be opened.  Then, wherever a row of a    *)
(* unit's line table begins, a step shows the line of such a row and        *)
(* selects exactly the tabs TabsOf names, each there once; at an address of *)
(* no row it shows neither.  So it is for every unit whose table is at the  *)
(* unit's own place in .debug_line (the code pairs them by order).  Where   *)
(* an end_sequence is in front of all rows that begin at its address the    *)
(* code shows the line of the end.                                          *)
SourcesAreShown ==
    done /\ asked \in Sources =>
        /\ answer.exits <=>
              \/ \E t \in DOMAIN asked.tables : asked.tables[t].style.string \in Unsupported
              \/ \E f \in SourceFiles(asked) : f.path \in asked.missing
        /\ ~ answer.exits =>
              \A u \in {u \in DOMAIN asked.stmtList : asked.stmtList[u] = u}, k \in 0 .. 3 :
                LET pc == 4 * (u - 1) + k
                    shown == answer.shown[pc]
                    table == TableOf(asked, u)
                    rows == RowsOf(asked, u)
                    here == {i \in DOMAIN rows : rows[i].address = pc}
                    begins == {i \in here : ~ rows[i].end}
                IN  IF here = {} THEN shown = [line |-> 0, tabs |-> << >>]
                    ELSE \/ \E i \in here \ begins : \A j \in begins : i < j
                         \/ \E i \in begins :
                               /\ shown.line = rows[i].line
                               /\ ToSet(shown.tabs) = TabsOf(asked, table.files[1 + rows[i].file])
                               /\ IsInjective(shown.tabs)

(* Every program the linker's script lays out finds its RAM as linked when  *)
(* load_ram is done: "Points to data to load into RAM from ROM" (bootup.c)  *)
(* is where flashRom put it, whatever the sizes of the sections and the     *)
(* order of the headers, and the emulator never refuses the file.           *)
BootedAsLinked ==
    asked \in Links =>
        /\ Starts(asked.headers)
        /\ done => answer = LinkedRam(asked.program)

(* Where the first section of each name is, and the sections of a longer    *)
(* name that are in front of it, or there without it.                       *)
Place(sections) ==
    [name \in DebugSections |-> SelectInSeq(sections, LAMBDA s : s = name)]
Misleading(sections) ==
    {i \in DOMAIN sections : \E name \in DebugSections :
        IsStrictPrefix(name, sections[i]) /\ Place(sections)[name] \notin 1 .. i}

(* Names are compared as far as the wanted one reaches, and still a file    *)
(* with debugging information opens, a file without any part of it does     *)
(* not, and each part is read from its own section; unless the section of a *)
(* longer name (.debug_line_str) is in front of the wanted one              *)
(* (.debug_line), or there without it.                                      *)
SectionsAreFound ==
    done /\ asked \in Files /\ Misleading(asked.sections) = {} =>
        /\ answer.headers = Place(asked.sections)
        /\ answer.opens = (DebugSections \subseteq ToSet(asked.sections))

(* The instruction the disassembly names, with the operands it prints, is   *)
(* the one the processor executes; every instruction of RV32I_zicsr but     *)
(* those the disassembler does not know has a name, so that only words that *)
(* are no instructions, and these, end the emulator or repeat old text.     *)
ListingIsExecuted ==
    done /\ asked \in Lines =>
        LET I == asked.instruction
        IN  IF answer.name \in DOMAIN Meaning
            THEN Meaning[answer.name] = Performed(I) /\ answer.operands = OperandsOf(I)
            ELSE ~ IsKnown(I)

(* The list has one line for every instruction the processor can fetch from *)
(* the program's ROM, in the order of their addresses, with the word that   *)
(* was flashed there; in front of it, and nowhere else, the name the symbol *)
(* table first gives its address.                                           *)
ListingIsRom ==
    done /\ asked \in Listings =>
        LET rom == flashRom(asked.link.headers)
            instructions ==
                FlattenSeq([i \in DOMAIN answer |->
                                IF answer[i].isInstruction THEN <<answer[i]>> ELSE << >>])
            Names(address) ==
                {i \in DOMAIN asked.symtab :
                    Listed(asked.symtab[i]) /\ asked.symtab[i].address = address}
            Labels(address) ==
                {i \in DOMAIN answer : ~ answer[i].isInstruction /\ answer[i].address = address}
        IN  /\ instructions =
                  [k \in 1 .. Aligned(asked.link.program.text) \div 4 |->
                      [isInstruction |-> TRUE, address |-> <<"rom", 4 * (k - 1)>>,
                       line |-> [j \in 1 .. 4 |-> RomByte(rom, 4 * (k - 1) + j - 1)]]]
            /\ \A i \in DOMAIN answer : ~ answer[i].isInstruction =>
                  /\ i < Len(answer) /\ answer[i + 1].isInstruction
                  /\ answer[i + 1].address = answer[i].address
                  /\ Names(answer[i].address) # {}
                  /\ answer[i].line = asked.symtab[Min(Names(answer[i].address))].name
            /\ \A k \in DOMAIN instructions :
                  Names(instructions[k].address) # {} =>
                      Cardinality(Labels(instructions[k].address)) = 1

(* Where texts are printed, and which show.                                 *)
Prints(calls) == {i \in DOMAIN calls : calls[i].name \in {"print_str", "print_str_line"}}
Start(calls, i) ==
    SumFunctionOnSet([j \in Prints(calls) |->
                          calls[j].len + IF calls[j].name = "print_str_line" THEN 64 ELSE 0],
                     {j \in Prints(calls) : j < i})
Over(calls, place) ==
    {i \in Prints(calls) :
        Start(calls, i) <= place /\ place < Start(calls, i) + calls[i].len}
Switches(calls) ==
    {i \in DOMAIN calls : calls[i].name \in {"enable_text_mode", "enable_graphics_mode"}}
(* The calls made before a store of the picture is refused.                 *)
Made(calls) ==
    {i \in DOMAIN calls : \A j \in 1 .. i - 1 : calls[j].name # "init_blue_screen"}
ShowsText(calls) == calls[Max(Switches(calls) \cap Made(calls))].name = "enable_text_mode"

(* "The display can print up to 21 lines of characters, each line fitting a *)
(* maximum of 64 characters" (README.md): every place of the screen shows   *)
(* the character last printed there, counting on from one print to the next *)
(* and 64 for the end of a line, and nothing a program does to the picture  *)
(* changes that, nor a text too long for the screen.                        *)
TextIsShown ==
    done /\ asked \in Sessions /\ ShowsText(asked.calls) =>
        \A i \in 0 .. 20, j \in 0 .. 63 :
            LET covering == Over(asked.calls, 64 * i + j) \cap Made(asked.calls)
                last == Max(covering)
                k == 64 * i + j - Start(asked.calls, last)
            IN  answer[i][j] =
                    IF covering = {} \/ asked.calls[last].str = "nul" THEN " "
                    ELSE <<asked.calls[last].str, k>>

(* "graphics mode displays the a 512x288 resolution image" of "32-bit pixel *)
(* data" (README.md): a screen that is filled with blue is blue everywhere, *)
(* whatever was shown before.                                               *)
PixelsAreShown ==
    done /\ asked \in Sessions /\ ~ ShowsText(asked.calls)
         /\ Last(asked.calls).name = "init_blue_screen" =>
        \A p \in SampledPixels, c \in 0 .. 3 : answer[p][c] = <<"blue screen", 4 * p + c>>
=============================================================================
