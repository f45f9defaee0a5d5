----------------------------- MODULE CallFrame ------------------------------
(***************************************************************************)
(* CallFrameInfo: the canonical frame address (CFA) at a program counter,  *)
(* from the frame descriptions of .debug_frame.  Nothing reads the         *)
(* register rules of a row, so that the instructions that set them are     *)
(* "rule" here.  An instruction processInstructions has no case for (a     *)
(* longer advance_loc, remember_state, ...) is "unsupported".              *)
(***************************************************************************)
EXTENDS Integers, Sequences, SequencesExt

CONSTANT codeAlignmentFactor    \* of the common information entries

(* An entry of .debug_frame: a CIE, [kind, instructions], or an FDE, [kind, *)
(* ciePointer, initialLocation, addressRange, instructions].  Where the     *)
(* code has an offset into the section, ciePointer is a position in it.     *)
IsFde(entry) == entry.kind = "FDE"

(* generateFrameInfo and the first lines of generateVirtTable, which put    *)
(* the instructions of the common entry in front of the description's own:  *)
(* the common entry may stand anywhere in the section.                      *)
Complete(section, fde) ==
    [initialLocation |-> fde.initialLocation, addressRange |-> fde.addressRange,
     instructions |-> section[fde.ciePointer].instructions \o fde.instructions]

generateFrameInfo(section) ==
    FlattenSeq([i \in DOMAIN section |->
                    IF IsFde(section[i]) THEN <<Complete(section, section[i])>> ELSE << >>])

Describes(fde, pc) ==
    pc >= fde.initialLocation /\ pc < fde.initialLocation + fde.addressRange

(* The fields of a TableEntry the code reads.  regOffset is a union with    *)
(* the location of the row, so that a new row's location overwrites the     *)
(* offset it copied.                                                        *)
FirstRow(fde) == [regNum |-> 0, regOffset |-> fde.initialLocation]

(* opcode & 0x4f of an advance_loc, whose opcode is 0x40 | delta.           *)
AdvanceOperand(delta) == 64 + (delta % 16)

(* Not the code: def_cfa_register sets the offset, too.                    *)
BugProcessInstruction(row, ins) ==
    CASE ins.op \in {"def_cfa", "def_cfa_register"} ->
            [row EXCEPT !.regNum = ins.reg, !.regOffset = ins.n]
      [] ins.op = "def_cfa_offset" -> [row EXCEPT !.regOffset = ins.n]
      [] OTHER -> row

(* One instruction of processInstructions on the last row of the table.     *)
ProcessInstruction(row, ins) ==
    CASE ins.op = "advance_loc" ->
            [row EXCEPT !.regOffset = @ + AdvanceOperand(ins.n) * codeAlignmentFactor]
      [] ins.op = "advance_loc1" -> [row EXCEPT !.regOffset = @ + ins.n]
      [] ins.op = "def_cfa" -> [row EXCEPT !.regNum = ins.reg, !.regOffset = ins.n]
      [] ins.op = "def_cfa_register" -> [row EXCEPT !.regNum = ins.reg]
      [] ins.op = "def_cfa_offset" -> [row EXCEPT !.regOffset = ins.n]
      [] ins.op \in {"rule", "unsupported"} -> row

(* The emulator exits at an instruction without a case, wherever it stands: *)
(* the CFA is that of LastRow only if there is none.                        *)
CanRun(fde) ==
    \A i \in DOMAIN fde.instructions : fde.instructions[i].op # "unsupported"

(* The whole program is run whatever the program counter.                   *)
LastRow(fde) == FoldLeft(ProcessInstruction, FirstRow(fde), fde.instructions)

(* generateVirtTable takes the last description that holds the address.     *)
FdesAt(fdes, pc) == {i \in DOMAIN fdes : Describes(fdes[i], pc)}
FdeAt(fdes, pc) == fdes[Max(FdesAt(fdes, pc))]

getCfaAtLocation(fdes, pc, regs) ==
    LET row == LastRow(FdeAt(fdes, pc)) IN regs[row.regNum] + row.regOffset

-----------------------------------------------------------------------------
(* What a compiler writes: every common entry defines the CFA, and its      *)
(* operands are unsigned.                                                   *)
Instructions ==
    [op : {"advance_loc", "advance_loc1", "def_cfa", "def_cfa_register", "def_cfa_offset", "rule",
           "unsupported"},
     reg : Nat, n : Nat]
IsDebugFrame(section) ==
    /\ DOMAIN section = 1 .. Len(section) /\ Len(section) \in Nat
    /\ \A i \in DOMAIN section : section[i].instructions \in Seq(Instructions)
    /\ \A i \in DOMAIN section : IsFde(section[i]) =>
          /\ section[i].ciePointer \in DOMAIN section
          /\ \E j \in DOMAIN section[section[i].ciePointer].instructions :
                section[section[i].ciePointer].instructions[j].op = "def_cfa"
          /\ section[i].initialLocation \in Nat /\ section[i].addressRange \in Nat

(* The CFA of the DWARF standard: that of the row in force at pc.           *)

Advances(fde) ==
    {i \in DOMAIN fde.instructions :
        fde.instructions[i].op \in {"advance_loc", "advance_loc1"}}

(* Where the row in force after the first i instructions begins.            *)
RowLocation(fde, i) ==
    fde.initialLocation +
    codeAlignmentFactor * SumFunctionOnSet([j \in DOMAIN fde.instructions |->
                                                fde.instructions[j].n],
                                           Advances(fde) \cap (1 .. i))

(* The instructions in force at pc: up to the first advance past it.        *)
InForce(fde, pc) ==
    {i \in DOMAIN fde.instructions : RowLocation(fde, i) <= pc}

Setting(fde, pc, ops) ==
    fde.instructions[Max({i \in InForce(fde, pc) : fde.instructions[i].op \in ops})]

CfaOfDwarf(fdes, pc, regs) ==
    LET fde == FdeAt(fdes, pc)
    IN  regs[Setting(fde, pc, {"def_cfa", "def_cfa_register"}).reg]
        + Setting(fde, pc, {"def_cfa", "def_cfa_offset"}).n

(* pc is in the last row, and that row sets its offset itself.              *)
OffsetSetHere(fdes, pc) ==
    LET fde == FdeAt(fdes, pc)
        lastAdvance == Max({0} \cup Advances(fde))
    IN  /\ lastAdvance \in InForce(fde, pc) \cup {0}
        /\ \E i \in DOMAIN fde.instructions :
              i > lastAdvance /\ fde.instructions[i].op \in {"def_cfa", "def_cfa_offset"}
=============================================================================
