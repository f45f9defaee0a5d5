# t89emu in TLA+

A model of t89emu, a RISC-V emulator with a source-level debugger, in TLA+:
modules that follow its C++ code, TLC configurations that check them on small
instances, and TLAPS proofs for every instance. Paths below are relative to the
repository's `t89emu/` directory, unless they begin with `firmware/`.

## The system

One thread runs everything. `Gui::runApplication` repeats frames; a frame lets
the debugger execute guest instructions, or none, and then draws and takes the
user's input. There is no concurrency inside the emulator; the concurrency is
in the machine it emulates, where a timer and a software interrupt arrive
between any two instructions of the guest, and between the user, who edits
breakpoints and steps, and the running guest.

| component | state | operations | talks to | hard | correct when |
|---|---|---|---|---|---|
| **Processor core** `src/Mcu.cpp`, `NextPc.cpp`, `Csr.cpp`, `RegisterFile.cpp`, `ProgramCounter.cpp` | pc, nextPc (a second copy), registers, CSRs | `nextInstruction` = CLINT tick, interrupt check, execute, on an exception trap and execute again | calls CLINT, Trap, ALU, bus | partial effects of an instruction that fails; two copies of the pc; the code of the second execute is thrown away | a trapping instruction is precise; pc and nextPc agree; a call always returns |
| **Traps** `src/Trap.cpp` | mepc, mcause, mstatus | `takeTrap` | called by the core | one MPIE bit for any nesting of traps | interrupts are neither lost nor enabled behind the guest's back |
| **CLINT** `src/ClintMemoryDevice.cpp` | mcycle, mtimecmp, keyboard, msip words; mip bits | `nextCycle`, `checkInterrupts`, `read`, `write` | core (every cycle), guest (memory-mapped), GUI (keyboard) | 64-bit counter in two words; pending bits that guest and device both write | an interrupt is taken exactly when one is due |
| **ALU** `src/Alu.cpp`, `AluControlUnit.cpp`, branch part of `NextPc.cpp` | none | `execute`, `getAluOperation`, `branchAlu` | core | overflow, shift counts | RV32I arithmetic |
| **Bus and devices** `src/Bus.cpp`, `*MemoryDevice.cpp`, `MemControlUnit.cpp` | four byte buffers | `read`, `write` with a size, status codes | core; the ELF loader writes the ROM, the GUI reads them | device boundaries, sizes, alignment, ROM writes | one flat array of bytes |
| **Debugger** `src/McuDebug.cpp`, the frame loop and the control panel of `Gui.cpp` | breakpoints, latestSourceLine, three flags, the open tab | run, stepi, step, set and remove a breakpoint, choose a tab | drives the core, asks the DWARF line table | latestSourceLine goes stale; line and tab come from different places; a trap inside a call; a loop in the only thread | running respects breakpoints, a step is one line and is shown, every frame ends |
| **Sample firmware** `firmware/src/` | cursor of the terminal | boot, vector table, handlers, terminal | runs on the core, writes video memory | interrupts anywhere in the program; a cursor that nothing bounds | the program does not notice interrupts; what is printed is what shows |
| **Immediate decoding** `src/ImmediateGenerator.cpp` | none | `getImmediate` | core | bit positions, sign extension | RV32I encodings |
| **ELF loader** `src/ElfParser.cpp`, `firmware/t89-linker.ld` | the file's image | segment and section search, `flashRom`, disassembly | fills the ROM before the core starts; the GUI shows the listing | the RAM image behind the ROM image has to be where the firmware's `load_ram` looks; section names are compared by prefix; the listing and the ROM are made from the file apart | RAM after boot is the ELF's RAM segment; the listing is what is in the ROM and what the core executes |
| **DWARF line table** `src/Dwarf/LineNumberInfo.cpp` | state-machine registers, rows | read the header's files, run the line program, look up a pc | debugger, tabs of the GUI | widths and signedness of operands; several sequences; tables paired with units by order | a pc maps to its line and file |
| **DWARF units, scopes, variables** `src/Dwarf/{DwarfParser,CompileUnit,DebugInfoEntry,Scope,Variable}.cpp` | trees built once | read attributes of 40 forms, build the tree, unit of a pc, variables in scope | GUI | nothing marks the end of an attribute; a pc outside every unit | attributes are what was written; variables in scope, each once |
| **DWARF frames, expressions** `src/Dwarf/{CallFrameInfo,DwarfExpr}.cpp` | rows per query; one stack machine per variable | canonical frame address, location of a variable | GUI, every frame | machines that keep state between evaluations | locations are those of the current frame |
| **GUI rendering** `src/Gui.cpp`, `main.cpp` | window state | drawing the LCD, tabs, listing, variables; input | debugger, keyboard word, video memory | the layout of the video memory is written down in the firmware, the device and the GUI | what the firmware printed is what shows |
| **Tests** `src/Tester.cpp` | — | the file is one comment | — | — | — |

`include/vendor` is Dear ImGui and is not the program's own.

## The modules

```
          Word --- Alu --- Mcu --- McuNesting --- MCMcuNesting
             \            / | \
MemControlUnit - Bus ----+  |  MCMcu ------- Firmware
                  |         |               /
                  |         GuestCode ------
                  |            (=> GuestView)
                  Memory (=> FlatMemory) --- MCMemory

Alu, Decode, Boot, MemControlUnit --- Disassembler ----+
DataStream --- Attributes --- SourceMap ---------------+-- Algorithms --- MCAlgorithms
                              Screen, Sections --------+

Debugger --- MCDebugger

LineTable --- MCLineTable

DebugInfo, CallFrame --- Variables --- MCVariables

Induction --- McuProofs --- GuestCodeProofs                       (theorems)
         \--- MemoryProofs, DebuggerProofs, AlgorithmsProofs,
               LineTableProofs, VariablesProofs
```

`=>` is a refinement: the second module is the abstract specification, checked
as a PROPERTY through `INSTANCE ... WITH`.

* **Word** — `uint32_t` at any width: a word is a number, `Bits(w)` the set of
  its 1 positions. `|`, `&`, `^`, shifts are set operations, so that proofs
  about bit fields need no arithmetic. `Bits` and `WordOf` are constants with
  the assumption that they are binary notation, of any width.
* **Alu** — `Alu::execute`, `AluControlUnit::getAluOperation` and
  `NextPc::branchAlu`. `execute` returns a *set*: a shift by a count that does
  not fit, undefined in C++, may give the result of any count or 0.
* **MemControlUnit** — the size of an access, by funct3.
* **Bus** — device search, alignment and status codes of `Bus::read` and
  `Bus::write`. The code returns codes as `uint32_t` with `STATUS_OK` = -1; the
  end of a device belongs to it, as `<= getEndAddress` says in the code.
* **Mcu** — one call of `nextInstruction` as phases `cycle`, `check`, `execute`,
  `trap`, `vector`; one action per opcode, and one for each way of failing.
  `Raise` is where the two calls of `executeInstruction` differ: the first
  leaves its code for `takeTrap`, the second throws it away. The variables are
  the C++ fields (`pc`, `nextPc`, `rf`, `csr`, the CLINT's words) and the
  returned code. `Code(a)` is the set of instructions a fetch at `a` may find,
  already decoded; loads from ROM, RAM and video memory deliver any of
  `DataWords`.
* **McuNesting** — Mcu with a history variable, the value of MIE at every trap
  that has not returned.
* **Memory** — the bytes behind the bus; **FlatMemory** — one array of bytes.
* **GuestCode** — Mcu with two kinds of code in its memory, a guest program and the
  vector table with its handlers, each any code that keeps to stated rules: the program
  begins with start-up code that sets the trap vector, a handler leaves the program's
  registers alone and returns, or writes any register and spins;
  **GuestView** — the program alone, each instruction once, no interrupts, until it is
  abandoned to a handler that spins;
  **Firmware** — the instance of GuestCode with the code of `firmware/src`: `crt0.s`,
  `load_ram` behind its copy loops, the vector table and the handlers of `interrupt.s`,
  which write `ra`. A small program stands in for `kernel_main` (which is in Screen):
  its control flow depends on data, it keeps its return address over a call, and makes
  ECALLs and loads that fail. Of the
  handlers `interrupt.s` leaves to the user two are that: a timer handler that
  acknowledges (`AckHandler`), and an ECALL handler that returns, or spins as the
  repository's does. Addresses are the model's own, so `la` has other operands.
* **Debugger** — `executeInstructions`, `stepInstruction`, `stepLine`, the
  breakpoints, and the frames that call them, with the control panel's flags and the
  source tab. The guest is a flow graph with the traps that may be taken at an
  address, and the line table a function, all constants; the call that takes a trap
  executes the entry of the vector table as well, as Mcu's does.
* **Decode** — `ImmediateGenerator::getImmediate`. Every step of it moves bits or
  copies the sign, so that an instruction word and an immediate are sets of bit
  positions here, and no width has to be chosen.
* **DataStream** — the DWARF numbers of variable length, `decodeULeb128` and
  `decodeLeb128`.
* **Boot** — the layout of a program by `firmware/t89-linker.ld`, the segments
  `initStructures` finds in the file, `flashRom`, and the copy loops of the
  firmware's `load_ram`. A byte is the section it is from and its place there.
* **Disassembler** — `generateInstructionStr`, whose text is a name and operands
  here, and `generateDisassembledCode`, the listing with the labels of the symbol
  table.
* **Sections** — the search of sections by name, and the headers `DwarfParser` asks
  for. A name is the sequence of its parts.
* **Attributes** — `AbbrevTable`, `CompileUnit::decodeInfo` for every form, and the
  loop over the attributes of an entry, on bytes.
* **SourceMap** — the file tables in the header of a line table, again on bytes; the
  lookup of an address; the pairing of units and tables; the tabs of that file's name.
* **Screen** — the firmware's terminal and the GUI's `renderLcdDisplay`, the two
  sides of the video memory, with the code's sizes. The memory is the list of the
  blocks written to it.
* **Algorithms** — one question and one answer for each of the functions above
  that keep no state, and the reference definitions they are compared with.
* **LineTable** — the line number program of `LineNumberInfo`, one action per
  opcode; the stream is any program, and the registers are the C++ fields.
* **DebugInfo** — `CompileUnit::generateDebugInfo` as a machine that takes one
  entry at a time, with a stack for its recursion; `generateScopes`, `Scope`, and
  the unit of an address. An entry is its tag and the attributes something reads,
  as Attributes decodes them.
* **CallFrame** — `CallFrameInfo`: the entries of `.debug_frame` and the
  instructions that say where a frame is. `CanRun` is that none is without a case
  in the code, which exits there. (The other exit of `processInstructions`,
  `CallFrameInfo.cpp:160`, is out of reach: an opcode with one of its upper two bits
  set is one of the three with a case, `DwarfEncodings.h:544`; and
  `isCfaLocExpr` is false from the start and never set, so that the offsets of
  lines 184 to 193 are always numbers.)
* **Variables** — `Variable` and `StackMachine` over DebugInfo and CallFrame: the
  guest moves, the GUI lists the variables at its address and evaluates their
  locations. A location or a frame base with an operation that has no case, a frame
  without a description or with an instruction without a case, and a list of locations
  end the emulator (`exited`); an empty expression, and a location on the frame in an
  entry without a frame base, read what is not there (`undefined`).
* **McuProofs** (with the bus's search and the nesting of traps), **GuestCodeProofs**,
  **MemoryProofs**, **DebuggerProofs**, **AlgorithmsProofs**, **LineTableProofs**,
  **VariablesProofs** — the theorems. **Induction** has the lemmas they share: induction
  over numbers and finite sets, and what recursive functions, sums and flattened
  sequences compute.

A definition named `Bug...` is a plausible mistake in the definition that follows
it. No specification uses it; it exists so that each property can be seen to
fail when the code is changed that way.

### Where the code departs from the ISA

The model does what the code does, also where that is not RV32I. Known
departures, besides the findings below: `CSRRW` with rd = rs1 writes the old CSR
value back (rd is written first, `Mcu.cpp:241-243`); `CSRRC` ands with the logical
negation of rs1 (`Mcu.cpp:257`); a failing fetch raises a *load* exception
(`Mcu.cpp:144`); a misaligned jump has already written its link register and
nextPc; `SLT`, `BLT`, `BGE` take the sign of a difference that may overflow
(`Alu.cpp:47`); a register shift does not mask its count; the address after a device is
answered by that device (`Bus.cpp:109`); a load whose funct3 names no size succeeds with
an uninitialised value; a store to ROM is an illegal instruction; the encodings of
the M extension execute as the RV32I instruction with the same funct3.

The disassembler knows neither the immediate CSR instructions nor `EBREAK`, `WFI` and
`FENCE`. For a word it does not know it throws out of a table (`at`), which ends
the emulator, or leaves the text of the word before; the model has both outcomes.

Of the terminal: `print_str_line` moves the cursor by a whole line and so keeps the
column, and nothing stops the cursor at the end of the screen.

### Where the code departs from DWARF

The model has these, too, and its properties concede them where they name them:

* A variable's expression is evaluated once. `StackMachine::parseExpr` neither
  rewinds its stream nor empties its stack, so every later evaluation returns the
  first location, also in another call of the function (`Dwarf/DwarfExpr.cpp:18`).
* The frame address of `getCfaAtLocation` is that of the *last* row of the
  function's frame description, whatever the address. A new row's location
  overwrites the offset copied from the row before (they share a union), the
  operand of `DW_CFA_advance_loc` is masked with 0x4f for 0x3f, and
  `DW_CFA_advance_loc1` forgets the alignment factor: the offset is right where
  the last row sets it.
* `getCompileUnitAtPc` counts an unsigned index past 0 for an address in no unit
  (`Dwarf/DwarfParser.cpp:92`); Variables ends in the status `undefined` there.
* `generateScopes` drops lexical blocks with the variables in them
  (`Dwarf/CompileUnit.cpp:272`).
* Variables are filtered by `latestSourceLine`, which after Run may be the line
  of an earlier address.
* The row of `DW_LNE_end_sequence` stays in the line matrix like any other, and
  `getLineEntryAtPc` takes the first row with an address: where one sequence ends and
  another begins, the end's line is shown if its row stands in front.
* Tabs are compared by the file's name, not its path (`Gui.cpp:546`): with two files of
  one name in two directories both tabs are selected. `stepLine` compares lines by
  number, not by file (`McuDebug.cpp:46`): from line 2 of one file it goes on through
  line 2 of another.
* Four forms of attributes end the emulator (`Dwarf/CompileUnit.cpp:209`), as do a source
  file that cannot be opened (`Dwarf/LineNumberInfo.cpp:11`), a frame instruction without a
  case (`DW_CFA_remember_state`, the longer advances; `Dwarf/CallFrameInfo.cpp:197`) and
  an operation or a list of locations it has no case for (`Dwarf/DwarfExpr.cpp:56`,
  `Dwarf/Variable.cpp:10`). A variable on the frame of an entry without a frame base,
  such as an inlined function, reads through a null pointer (`Dwarf/DwarfExpr.cpp:43`).
* Line tables are paired with units by their order, not by `DW_AT_stmt_list`
  (`Dwarf/DwarfParser.cpp:42`).
* Section names are compared as far as the wanted name reaches
  (`ElfParser.cpp:229`), so `.debug_line_str` in front of `.debug_line` is taken for it;
  `isDebuggable` is called by nothing, and a missing section is a null pointer used.
* The data of `DW_FORM_implicit_const`, a signed number, is read as an unsigned one.
* Paths of files are put together and not normalised: one file named in two ways
  has two tabs.

## What the runs check

| run | question | properties | states |
|---|---|---|---|
| `traps` | guests that arm, mask and acknowledge timer and software interrupts in any order, and whose every instruction that can fail does, in main code, handler, vector table | `TypeOK`, `NextPcFollowsPc`, `TimerPendingIsComparator`, `PreciseExceptions`, `InterruptsExact`, `EnabledOnlyByGuest` | 507,000 |
| `nesting` | any nesting of traps and returns, with a vector table that faults | `MpieRemembers`, `EnabledIsRestored`, `ExceptionsAreHandled` (liveness) | 26,000 |
| `firmware` | traps at any instruction of the firmware's program, by interrupts, ECALLs and failing loads | `ReservedNeverReached`, `ReturnsInside`, `GuestUndisturbed` (refinement), `GuestProceeds` (refinement with fairness) | 24,000 |
| `algorithms` | functions without state against reference definitions | `ArithmeticIsRV32I`, `BranchesAreRV32I`, `ImmediateIsRV32I`, `NumbersAreDecoded`, `BootedAsLinked`, `ListingIsExecuted`, `ListingIsRom`, `TextIsShown`, `EntriesAreDecoded`, `SourcesAreShown`, `SectionsAreFound` | 143,000 |
| `memory` | every address, size and kind of access | `BusIsFlatMemory` (refinement) | 217,000 |
| `breakpoint` | run, stepi, step, set, remove, another tab, in any order, while the guest takes traps | `TypeOK`, `RunHaltsAtBreakpoints`, `RemovedIsGone`, `SteppedIsShown`, `HighlightedStepIsOneLine`, `OnlyRunLosesTheLine`, `RunReturnsToGui` (liveness) | 426,000 |
| `lines` | every line number program of four opcodes | `MatrixIsProgram` | 111,000 |
| `variables` | many shapes of debugging information, supported and not, a guest that goes anywhere, frames at any moment | `ListsAreRight`, `NeverExits`, `TreeIsStream`, `LocationsAreDwarf`, `ParsingEnds` (liveness) | 114,000 |

What the less obvious ones say:

* `GuestUndisturbed` — the program counter of the program is `mepc` while a handler
  runs and `pc` otherwise; each step of the processor is then a step of GuestView or
  does not show. Nothing is lost, repeated or clobbered by a trap between any two
  instructions, although handlers execute in the same registers and CSRs. An ECALL is
  executed once, an instruction that fails again after its handler. When a handler spins
  the program is abandoned, and nothing is said of it from then on.
* `ReturnsInside` — a return address in a register is still one of the program when
  the return is executed, whatever traps came in between.
* `BootedAsLinked` — the ELF loader and the firmware agree by convention only:
  the loader puts the RAM's image directly behind the ROM's, the firmware copies
  from the linker's `_program_end`. For every size of the sections, aligned or
  not, and every order of the headers, RAM after boot is what was linked.
* `ListingIsExecuted` — name and operands in the listing are those of what the
  processor does with the word: the two decode with tables of their own. Only
  words that are no instruction the disassembler knows may throw or repeat old text.
* `ListingIsRom` — the listing has one line for each word of the program in the ROM,
  in order, with the word that `flashRom` put there, although one goes through the
  file's segments and the other through two of them; labels stand in front of
  their address.
* `TextIsShown` — a place of the screen shows the character last printed there, through
  the terminal's cursor, the device's layout and the GUI's, in either mode of the
  screen before and after, for texts that run over its end, and after a picture.
* `EntriesAreDecoded` — every attribute, of whatever form and after whatever other,
  gets what the compiler wrote, and the stream is left at the next entry; the emulator
  ends at the four forms it has no case for, and at no other. Nothing in the stream marks
  where an attribute ends.
* `SourcesAreShown` — a program opens unless a table has an unsupported form or a file is
  missing. Where a row begins, its line is shown and the tabs selected are those of
  its file and of every other file of that name, each once, so that a file whose name
  no other has is in one tab; elsewhere none. It is asked of units whose table is at
  their own place, and not where the row of an end stands in front.
* `SectionsAreFound` — each part of the debugging information is read from its own
  section, in whatever order the file has them, unless a longer name comes first.
* `SteppedIsShown` — after a step the GUI shows the file and the line of the program
  counter. The tab is set from the program counter by the drawing, the line by
  `McuDebug`, in a frame whose clicks reset the flags that make it scroll.
* `OnlyRunLosesTheLine` — the highlighted line is the one the guest is on, or none, and
  no sequence of steps, clicks, pauses and traps changes that but Run, which leaves the
  old line. `HighlightedStepIsOneLine` — a step that begins there goes on only on lines of
  that number and ends at another number or where it began.
* `RunHaltsAtBreakpoints` — concedes the entry of the vector table: the call that takes
  a trap executes it before anyone looks at the breakpoints again.
* `MatrixIsProgram` — each row of the matrix is the one the standard derives from
  the row's own sequence: nothing is left over from another row or sequence, and
  the operations of one instruction word add up.
* `TreeIsStream` — parent and children of the tree are those the nesting of the
  stream gives, although one null pointer means both the end of a list and the
  end of a unit.
* `ListsAreRight` — local variables are those of the innermost scope at the
  address, global ones those of the scopes around it, each once.
* `NeverExits` — with only what the code has a case for (`Supported`), neither loading a
  program nor listing its variables ends the emulator. What has to be shown is that a
  variable on the frame is listed only where its own function has a description. That
  what is not supported does end it is in the model, and in its programs.
* `LocationsAreDwarf` — a first evaluation gives the standard's location where the
  departures above do not apply, and a static variable's is always right.

Four runs end in a violation, each of something the repository's text says:

| run | finding |
|---|---|
| `nesting_disabled` | `takeTrap` never clears MPIE, so an exception or ECALL inside the handler of an enabled trap returns into that handler with interrupts *enabled*. TLC's trace: main code enables the timer interrupt, it is taken, the first instruction of its handler is illegal and traps (MIE is clear, MPIE stays set from the outer trap), and the `mret` of that inner trap sets MIE. The converse, `EnabledIsRestored`, holds: enabled interrupts are never lost. |
| `memory_narrow` | the `switch` of the ROM, RAM and video memory's `read` has no `break`: `LB`, `LBU`, `LH`, `LHU` deliver the bytes next to the ones they ask for. |
| `graphics` | `VIDEO_SIZE` counts a byte for each pixel of four bytes: filling the picture, as `terminal.c` does, faults after a quarter of it, and the GUI uploads the rest from behind the buffer. |
| `step_loop` | a step taken in front of a loop that is one source line never returns, and the only thread with it. The steps that do return are right (`HighlightedStepIsOneLine`). |

### Bounds, and why they are enough

* **Words of 13 bits** in MCMcu: the highest CSR bit the code touches is MPP's,
  12, and bit 12 doubles as the interrupt bit of mcause. Every bit the code
  names exists and the code uses no other; wrap-around happens at 8192.
* **Two registers**: x0, which is special, and one that is not. No instruction
  distinguishes two registers other than 0, apart from rd and rs1 being equal or
  not, and both occur. Firmware has the seven its code names (x0, ra, sp, gp, a0, s0, t0).
* **ClintSize** 2 (4 in Firmware): mcycle carries after 2 cycles and wraps
  after 4, and mtimecmp takes every value, so every order of counter and
  comparator occurs.
* **Guests**: `Code` gives a set of instructions per address, and TLC chooses
  anew at each fetch: one run covers every program over those instructions. The
  sets contain each instruction that touches what the run's properties relate. The
  first instruction of `traps` (`EntryPc` 16) decides between a guest of interrupts and
  one of exceptions, each with a main code and a handler of its own.
* **MaxDepth 3** unreturned traps; MPIE is one bit, so a fourth level repeats the
  third.
* **Instruction words** with at most two 1s or two 0s above the opcode: every
  immediate is a union of moved bits, so one bit and the sign decide. (The
  theorem `ImmediatesAreRV32I` has all words.)
* **LEB128**: numbers around every power of two in up to four bytes, in every
  length that holds them, which are the shifts that fit the code's `int`.
  **Sections** of 0 to 8 bytes, aligned or not.
* **Lines of the listing**: every opcode and two that are none, every funct3, values of
  the upper 12 bits that set funct7, the CSR number and the immediates apart, rd and rs1
  with 0, a middle and a high register. **Symbols**: up to two of those that name the
  same address, different ones, none.
* **Calls**: three after the mode is chosen, with a text of less than a line, NULs, and
  more than the screen; the screen has the code's size, every place of it is checked.
  **Pixels** (`graphics`): the first and last of the picture and on both sides of the
  device's end, and of the text.
* **Attributes**: any two of a sample with every form, in an abbreviation that is alone
  or not. **Tables**: one unit or two, in any order in `.debug_line`, files of the same
  name in two directories, relative and absolute, or a second name, which may be
  missing; string forms of three kinds, one of them unsupported; sequences that meet,
  in either order.
  **Sections by name**: every subset of those the parser asks for with one longer name
  more, in every order.
* **4-bit ALU operands**: all 256 pairs; sign, carry, overflow and every shift
  count, in range or not, occur.
* **Memory**: 5-bit addresses, three devices of one word with gaps (the video
  memory's code is the RAM's), two byte values, three words to store.
* **Debugger**: 9 addresses with a loop inside a loop, a call to another file,
  whose line has the number of the calling one, addresses inside a row, two instructions in front of which, or by which, a trap is
  taken to a handler that returns to them or behind; 4 instructions per frame, fewer
  than the loop is long, so that Run is cut at every place of it; breakpoints
  at a trapping instruction, a return address and the vector table.
* **LineTable**: 4 opcodes reach two sequences, each with a register changed
  before its row; 6-bit integers wrap, two operations per instruction leave one over.
* **Variables**: 433 programs, each with two register files. Two functions without a gap
  between them, padding, an assembled unit of one entry and an address in no unit; in
  the functions any two of six groups of variables, types, inlined functions and lexical
  blocks. For one such shape every frame program of two of five instructions, or three
  that begin with an advance, with descriptions that share an entry or have their own.
  And what is not supported: a variable whose location is another operation, empty, a list,
  or on the frame, directly in the unit, a function, an inlined function, a lexical
  block, or a function of another frame base, with supported ones on either side; an
  unsupported frame instruction before or behind the others; a function without a
  description.

### Fairness

`WF_vars(Next)` (in Variables `WF_vars(Load)`, since only parsing is asked to end),
one condition for the whole of the next-state relation: one
thread calls one function after the other and each returns (`nextInstruction`
has no loop, the bus's loops are bounded by the number of devices). Nothing is
assumed about which of several enabled alternatives is taken: which instruction
the guest has, when interrupts are due, what the user clicks. (GuestView's `FairSpec`,
which the firmware implements, asks for its `Step` only as long as that is enabled, and
not for `Abandon`.) `GuestProceeds` is
therefore a statement about the handler: `AckHandler` moves the comparator. With
the bare `mret` that `interrupt.s:54` has, the timer interrupts again before the
next instruction and the program starves; `interrupt.s` says that software is to
be written there.

The firmware's `csr_set_field_...` functions pass their mask as an *output* of
the asm statement (`bootup.c:27`), so whether interrupts end up enabled depends on
the compiler; Firmware's `load_ram` may set each field or not.

## What is proved

`tlapm` checks eight modules of proofs. For every guest, memory map, register count,
CLINT word size and word width of at least 13 bits:

| theorem | statement |
|---|---|
| `TypeCorrect` | `Spec => []TypeOK`, with x0 = 0 and an exception code pending exactly between `executeInstruction` and `takeTrap` |
| `NextPcSafe` | `Spec => []NextPcFollowsPc` |
| `TimerPendingSafe` | `Spec => []TimerPendingIsComparator` |
| `InterruptsExactThm` | `Spec => InterruptsExact` |
| `PreciseExceptionsThm` | `Spec => PreciseExceptions` |
| `EnabledOnlyByGuestThm` | `Spec => EnabledOnlyByGuest` |
| `MpieRemembersThm` | `NestingSpec => []MpieRemembers`, for any depth of traps |
| `EnabledIsRestoredThm` | `NestingSpec => EnabledIsRestored`, for any depth of traps |
| `BusIsFlatMemoryThm` | `Spec => BusIsFlatMemory`: the devices behind the bus implement FlatMemory, for any number of devices of whole words that do not touch, any contents, any values |

For every guest program and trap code that keep the rules of `EntryAssumption` and
`GuestAssumption`, as `crt0.s` and the handlers of `interrupt.s` do, on every memory map and
any width, as long as the program's returns stay inside it:

| theorem | statement |
|---|---|
| `GuestInductive` | `Spec /\ []ReturnsInside => []GuestInv`, the invariant below |
| `ReservedNeverReachedThm` | `Spec /\ []ReturnsInside => []ReservedNeverReached` |
| `GuestUndisturbedThm` | `Spec /\ []ReturnsInside => GuestUndisturbed`: the processor implements GuestView, whether handlers return or spin |

For the functions without state, whatever sample of inputs is asked:

| theorem | statement |
|---|---|
| `ImmediatesAreRV32I` | for every opcode and all 2^32 instruction words `getImmediate` is the immediate of RV32I's layout |
| `ImmediatesAnswered` | `Spec => []ImmediateIsRV32I` |
| `BranchesAnswered` | `Spec => []BranchesAreRV32I`, for words of any width |
| `SectionsFound` | `Spec => []SectionsAreFound`, for files with any sections in any order |
| `ProgramsBoot` | `Spec => []BootedAsLinked`, for all sizes of the sections and orders of the headers |
| `ArithmeticAnswered` | `Spec => []ArithmeticIsRV32I`, for all operands, of words of any width |
| `NumbersAnswered` | `Spec => []NumbersAreDecoded`, for every number of up to four bytes, in every length that holds it, whatever follows |
| `ListingsExecuted` | `Spec => []ListingIsExecuted`, for all 2^32 instruction words |
| `ListingsAreRom` | `Spec => []ListingIsRom`, for programs of any size and any symbol tables |
| `TextsShown` | `Spec => []TextIsShown`, for any order of modes and calls, of texts up to a quarter of the video memory each |

For every header of a line table, every width of `unsigned int`, every operand and every
length of program:

| theorem | statement |
|---|---|
| `MatrixInductive` | `Spec => []MatrixInv`, the invariant below |
| `MatrixIsProgramThm` | `Spec => []MatrixIsProgram` |

For debugging information with any number of units and entries, nested to any depth:

| theorem | statement |
|---|---|
| `ParserIsInductive` | `Spec => []ParserInv`, the invariant below |
| `TreesAreStreams` | `Spec => TreeIsStream` |
| `ListsInductive` | `Spec => []ListsInv`, the invariant below |
| `ListsAreRightThm` | `Spec => []ListsAreRight` |
| `NeverExitsThm` | `Spec => []NeverExits`, whatever the program; of an unsupported one it says nothing |
| `LocationsAreDwarfThm` | `Spec => LocationsAreDwarf`, for every frame program and any registers |

For every guest, line table, set of addresses for breakpoints and length of a frame:

| theorem | statement |
|---|---|
| `DebuggerTypeCorrect` | `Spec => []TypeOK`, with no breakpoint twice in the list |
| `RunHaltsThm` | `Spec => RunHaltsAtBreakpoints` |
| `SteppedIsShownThm` | `Spec => SteppedIsShown` |
| `RemovedIsGoneThm` | `Spec => RemovedIsGone` |
| `OnlyRunLosesTheLineThm` | `Spec => OnlyRunLosesTheLine`, also if files have lines of the same number |
| `StepIsOneLineThm` | `Spec => HighlightedStepIsOneLine`, likewise |

Assumptions, all named and evaluated by TLC on every run: `WidthAssumption`,
`BitsAssumption` (Word), `DevicesAssumption` (Bus), `McuAssumption` (Mcu),
`MaxDepthAssumption` (McuNesting), `MemoryAssumption` and `SpacedAssumption` (Memory),
`DebuggerAssumption` (Debugger), `GuestAssumption` and `EntryAssumption` (GuestCode),
`SampleAssumption` (Algorithms), `ComparedAssumption` (Disassembler), `PixelAssumption`
(Screen), `HeaderAssumption` and `OperandsAssumption` (LineTable), `StreamsAssumption`,
`CompiledAssumption`, `FramesAssumption`, `AbsentAssumption` and `AddressesAssumption`
(Variables), `RepositoryHandlerAssumption` (Firmware). `SpacedAssumption` is what the linker
script and the addresses and sizes in `Mcu.cpp` give: with a device directly behind another
the address between them would be the first one's. `GuestAssumption` is what a compiler and
an author of handlers keep to: the program's code is aligned, jumps into itself but not back
into its start-up code, executes no `mret` and leaves `mtvec` alone after the start; a
handler stays in the handlers until its `mret`, keeps its hands off `mstatus`, `mepc` and
`mtvec`, cannot fault (its loads and stores have absolute addresses; a second trap would
overwrite `mepc`, since there is no stack of them), and leaves the program's registers alone
unless it never returns, like the `jal` of most of `interrupt.s` to itself, which writes
`ra`. `EntryAssumption` is the beginning of `crt0.s`: any number of instructions in a
straight line that only compute, from registers that are 0, and then the `csrw` that sets
`mtvec` to the vector table. TLC evaluates both of `crt0.s`, and
`RepositoryHandlerAssumption` that the timer handler of `interrupt.s`, too, keeps the rules.
Programs may return through registers (`JALR`); that they return into themselves is a
hypothesis of the theorems, `ReturnsInside`, since it depends on what the program stores
where. The run `firmware` checks it of `load_ram`'s return and `kernel_main`'s.
`StreamsAssumption` says that the entries of a unit are properly nested.
`CompiledAssumption` is what a compiler keeps to: the functions directly inside one entry
have no address in common. `AbsentAssumption` is that an attribute that is not there is none
of the values. `FramesAssumption` says that a frame description has a common entry, which
defines the frame by a `def_cfa`, as GCC writes it; it leaves every instruction in, those
without a case included. `HeaderAssumption` and `OperandsAssumption` are the C++ types of
the header's fields, with a line range and an opcode base other than 0 (the code would
divide by the one), and of what the stream's decoders return. `ComparedAssumption` asks for
words of three bits: comparisons are told apart on 0, 1 and -1. `SampleAssumption` limits a
text to a quarter of the video memory, so that three of them never reach its end, where the
device would refuse the byte; the firmware's are a line long.

The argument. `TypeOK` is inductive: one step of the proof per action, resting on
lemmas that the word operators and the ALU return words and that the device
search returns a device. `NextPcFollowsPc` is inductive relative to `TypeOK`; its
conjunct about the phase `vector` is the strengthening: `takeTrap` sets both
program counters, so the instruction executed after an exception starts with
them equal whatever state the failed one left. `TimerPendingIsComparator` is
inductive relative to `TypeOK`: `nextCycle` establishes it from any state, which
is why the guest may write mip and the comparator as it likes, and nothing
between `nextCycle` and the execution changes either side except `takeTrap`,
which leaves mip alone. With it `InterruptsExact` follows: the code tests
mip.MTIP, the property speaks of the comparator. `PreciseExceptions` and
`EnabledOnlyByGuest` are by cases on the action, with lemmas about the bits of
mstatus that `takeTrap` and `mret` leave.

The nesting of traps rests on McuProofs, since the history adds no behaviour
(`NestingIsMcu`). `MpieRemembers` is inductive with the type of the history: `takeTrap`
sets MPIE if MIE was set and never clears it, `mret` sets it, and nothing else but
the guest's own CSR instructions, which drop the history, writes mstatus. An `mret` with
MPIE set enables interrupts, which is `EnabledIsRestored`.

Traps are transparent because of `GuestInv`: in a handler interrupts are masked and
`mepc` is where the program is; the second execution of a call that trapped is in the
handler; a pending `ECALL` is one the program has at its `pc`; and until `mtvec` holds the
vector table, interrupts are masked and the program is in its start-up code, no
instruction of which can fail, with its registers among those `StartRegs` has there
(`Vectored`), so that the `csrw` at its end writes the right address. Handlers that spin
never come back, so what they do to the program's registers shows nowhere: GuestView has
abandoned the program with their first instruction, which is what `GuestPc` and `GuestRf`
map it to. It is inductive with `TypeOK`. `OneInstruction` says of the
sixteen actions of `executeInstruction` that each either completes, changing at most rd,
one CSR and the pc, or fails and leaves its code behind; the proof goes by these two
cases and by whether the `pc` is in the program or in the handlers. A completed
instruction of the program is a step of GuestView (`GuestStep`), so is the trap of an
`ECALL`, whose `mepc` is the next instruction (`ExceptionHidden`); everything else leaves
the program's counter and registers as they are. A handler's instruction cannot fail
(`HandlerNeverFails`), which is why one `mepc` is enough.

Of the functions, `ImmediatesAreRV32I` goes format by format: both sides are sets of
positions given by linear conditions, on which the solver decides membership of each
position. `BranchesAnswered` compares the sign of a wrapped difference with the order of
the numbers, by cases on the two signs. `SectionsFound` is that a prefix of its name
that stands in front of a section is one of the misleading ones the property excepts,
so that the first match is the section. `ProgramsBoot` follows a section from its place
in the file through the ROM image to where `load_ram` copies it: the loader and the
firmware compute the same offset from different numbers.

`ArithmeticAnswered` is about numbers and sets of positions at any width, so each fact is had by
halving: what is left of a word behind its first digits is its quotient by a power of two
(`Quotients`), shifts go one place at a time (`ShiftedRight`, `ShiftedLeft`), the digits of
a word make it up again by Horner's rule (`DigitsMakeUp`), which is all the bitwise operators
need. An arithmetic shift of a negative number is the complement of the shifted complement
(`Complement`, `LowDigits`), which is what the two `XOR`s with `SignMask` compute.

`NumberIsDecoded` writes a number as the sum of its groups of seven bits (`GroupsMakeUp`),
shows that the loop stops behind the last of them (`EncodingEnds`), and that the sign the
code subtracts is the one of the group with bit 6. `Disassembled` goes opcode by opcode:
what the disassembler's table names is what the processor's decoding of the same bits
tells the ALU, the branch unit or the memory to do; each bit field is compared once, as
a number and as a set of positions (`FieldFacts`, `PrivilegedFields`). The attempt found
that the model's `getAluOperation` had had two `CASE` arms true at once for a `SUB` of
registers; TLC takes the first, TLA+ leaves it open. The code has the order of a
`switch`, and so has the model now.

The list of instructions (`Listing`) is one line for each word of the text, or two where a
symbol has its address; `ListMakesUp` is what any such list has, by induction on its length
(`KeepAppend`, `FlattenAppend`). Only the text is listed because the stack's header, though
executable, has nothing in the file (`OnlyTextListed`).

For the screen the invariant (`ScreenInv`) goes over the calls of a session: the cursor is where
the texts before have moved it, each byte in front of the picture is the one its last
writer put there, and a store has been refused exactly when the picture has been filled (the
finding of `graphics`). A session's last change of mode decides what `renderLcdDisplay`
reads, and `TextIsShown` is what the invariant says of it.

For the line program, `MatrixIsProgram` says nothing of the registers between two rows.
`MatrixInv` says that they are what the standard derives from the opcodes since the last
`end_sequence`, and that each row is what the standard derives from the opcodes of its
sequence in front of it. Each opcode appends itself to the open sequence; that the
code's increments, each divided and reduced to the width of `unsigned int` by itself,
make up the standard's one division of the sum of all operations rests on the uniqueness of
quotient and remainder (`Division`, `RemainderCarries`, `OperationsAdd`, `AddressMoves`).

The parser of `.debug_info` is a recursion without a counter. `ParserInv` says of its
stack that the open entries are the ancestors of the place in the stream, outermost
first, that each has been given as children exactly its offspring in front of that place, and
that every entry in front of it, and no other, has been constructed. Nesting is counted
(`Depth`), so that an entry's parent is the last one in front of it that is less deep; the
lemmas about `Depth` are what replaces an induction over the stream. `TreeIsStream` is
what the invariant says when a unit has been left.

`ListsInv` adds to `ParserInv` that the units are what a compiler writes and that a supported
program has not ended the emulator, which is inductive because no list of locations is met
while loading (`LoadGoesOn`) and every variable listed can be evaluated (`ListedIsSupported`).
The code goes down from the root, always into the first scope in range.
That the path it takes exists, ends, and is the whole of the chain of functions around the
address, is by induction on the remaining entries (`PathExists`, `PathIsHolding`): siblings
do not overlap, so no other scope in range is missed (`ListsAreRightThere`). The entry a listed
variable is directly in is thus a scope that holds the program counter (`ListedInScope`); if the
variable is on the frame, a supported program has a description there whose instructions
all have a case.

`LocationsAreDwarf` needs that the descriptions are well formed and that a static variable's stack
never holds anything but its operand (`LocationsInv`). The fold over a frame program is a table
of states, one for each instruction (`TableExists`); the last row of the table is what the last
instruction that set the offset wrote (`LastRowIs`), and where no row begins behind the address all
instructions are in force (`AllInForce`), so the code's row is the standard's.

Recursion over data is reasoned about in Induction. Induction over numbers is stated of a
set of them (`Induct`), which follows from the well-foundedness of `<`; recursive functions
exist and satisfy their equations (`Recursion`), and with these `FlattenSeq`,
`SumFunctionOnSet` and folds are shown to do what their names say (`FlattenPrefixes`,
`FlattenFacts`, `SumIs`, `FoldsExist`).

For the memory the invariant is that buffers keep their sizes. Routing is the heart
of it: an address a device claims, the one behind its end included, is claimed by no
other, because devices do not touch (`Routed`); an aligned access that begins in a device
ends in it, because devices are whole words (`Fits`). So the bytes an access names
are all of one device or none of any, and each of the four operations is a step of
FlatMemory.

For the debugger the inductive invariant is `TypeOK` and `StepIsDrawn`: the phase `run`
is entered with Run checked only, and when a step is to be drawn at an address that
begins a line the highlighted line is that one. The last is not among the flags'
own facts: it holds because a frame with a step ends in `stepInstruction` or at
the end of `stepLine`, and both write the line before drawing. `OnlyRunLosesTheLine` needs no
invariant: each step either leaves the line and the place of the guest, or writes the one
from the other, or goes from a row into its inside. `HighlightedStepIsOneLine` takes only the
types from it; since it speaks of numbers, as the code's comparison does, no condition on
files is left. Removing works because
`addBreakpoint` keeps the list free of repetitions (`IsInjective`), so that the one element
`removeBreakpoint` erases is the only one.

Only model-checked:

* The liveness properties (`ExceptionsAreHandled`, `GuestProceeds`, `RunReturnsToGui`,
  `ParsingEnds`) and what rests on ENABLED: the prover cannot do them.
* `EntriesAreDecoded`, `SourcesAreShown`: forty forms of attributes and the tables of a header byte
  by byte, in streams put together of all the others'. No proof of either is finished.
* `ReturnsInside`, which is a fact about the guest's program: a hypothesis of the theorems about
  the guest.

The DWARF modules assume well-formed streams, as a compiler writes them without
optimisation: entries properly nested, one root per unit, every frame description with its
common entry, and locations of one operation. What the code has no case for is not assumed
away: it exits in the model as in the code, and only `NeverExits` supposes its absence.

## What is not modelled

* **Types** (`generateTypes`, `DataType`): built by the code and read by nothing.
* The rules of single registers in frame descriptions: read by nothing. The literal
  operations of expressions that no compiler uses in a location.
* Line program: the registers no row carries into a lookup (column, basic block, isa,
  discriminator); opcodes that set only these are skipped with their operands.
* `ElfParser`'s checks of the file's header, which end the emulator before it starts.
  Sections the linker script does not name. The formatting of the disassembly.
* In the GUI the widgets, the memory viewer and the register bank, which only read, and
  the keyboard panel, which is one assignment per frame to a word the guest reads: a
  key pressed and released between two reads is lost, as on any polled keyboard.
* In Mcu the contents of memory are not kept (Memory keeps them), and writes past
  the end of a device's buffer land in the allocator's padding. `Bus.cpp` without
  `BUS_EXPERIMENTAL` is dead code. `Tester.cpp` is one comment.

## Plan

Done: the processor, its traps and interrupts, the bus, the firmware, the debugger,
the ELF loader and its listing, DWARF from the attributes to lines, files and variables;
proofs for the processor, the nesting of traps, the guest's view, the memory, the
functions without state, the debugger, the line program, and the debugging information from its
parser to the location of a variable. Open, in this order:

1. **Proofs of attributes** — `EntriesAreDecoded`, form by form, then `SourcesAreShown`, whose
   file tables are read by the same functions.
2. **Session** — Debugger over Mcu instead of a flow graph: that the flow graph of a
   program of Mcu satisfies what Debugger assumes of `Flow` and `Traps`.
3. **Types** — `generateTypes` and the table of types over all units, once something
   reads them.
