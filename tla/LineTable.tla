----------------------------- MODULE LineTable ------------------------------
(***************************************************************************)
(* LineNumberInfo: the state machine that runs the line number program of  *)
(* one compile unit (.debug_line) and leaves the matrix in which the       *)
(* debugger looks up the source line of an address.  The stream is any     *)
(* program: each action decodes one opcode with its operands.  The         *)
(* registers that no row carries (basicBlock, endSequence, isa,            *)
(* discriminator) and the column are left out.                             *)
(***************************************************************************)
EXTENDS Integers, Sequences, SequencesExt

CONSTANTS
    minimumInstructionLength, maximumOperationsPerInstruction,  \* infoHeader
    defaultIsStmt, lineBase, lineRange, opcodeBase,
    UIntSize,       \* 2^32 in the code
    Operands(_),    \* the operands the stream may give an opcode
    MaxProgram      \* the opcodes of a program (bound of the model)

ASSUME HeaderAssumption ==
    /\ minimumInstructionLength \in Nat
    /\ maximumOperationsPerInstruction \in Nat \ {0}
    /\ defaultIsStmt \in BOOLEAN
    /\ lineBase \in -128 .. 127 /\ lineRange \in 1 .. 255 /\ opcodeBase \in 1 .. 255
    /\ UIntSize \in Nat \ {0, 1} /\ MaxProgram \in Nat

(* By the types of adjustedOpcode and of what the stream's decoders return. *)
ASSUME OperandsAssumption ==
    /\ \A op \in {"special", "advance_pc", "fixed_advance_pc"} : Operands(op) \subseteq Nat
    /\ Operands("advance_line") \subseteq Int
    /\ Operands("set_address") \subseteq 0 .. UIntSize - 1

VARIABLES
    program,                        \* the opcodes decoded so far
    address, opIndex, file, line,   \* the registers
    isStmt, marks,                  \* marks: which of prologueEnd, epilogueBegin are set
    lineMatrix

vars == <<program, address, opIndex, file, line, isStmt, marks, lineMatrix>>

UInt(n) == n % UIntSize

(* clearRegisters, but for the registers each caller sets.                  *)
InitialRegisters ==
    [address |-> 0, opIndex |-> 0, file |-> 1, line |-> 1, isStmt |-> defaultIsStmt, marks |-> {}]

Init ==
    /\ program = << >> /\ lineMatrix = << >>
    /\ address = InitialRegisters.address /\ opIndex = InitialRegisters.opIndex
    /\ file = InitialRegisters.file /\ line = InitialRegisters.line
    /\ isStmt = InitialRegisters.isStmt /\ marks = InitialRegisters.marks

Decode(op, n) ==
    /\ Len(program) < MaxProgram
    /\ n \in Operands(op)
    /\ program' = Append(program, [op |-> op, n |-> n])

getNewAddress(operationAdvance) ==
    UInt(address + minimumInstructionLength *
                   ((opIndex + operationAdvance) \div maximumOperationsPerInstruction))

getNewOpIndex(operationAdvance) ==
    (opIndex + operationAdvance) % maximumOperationsPerInstruction

(* Not the code: the operations left over in the last instruction forgotten.*)
BugAdvance(operationAdvance) ==
    /\ address' = getNewAddress(operationAdvance)
    /\ opIndex' = operationAdvance % maximumOperationsPerInstruction

Advance(operationAdvance) ==
    /\ address' = getNewAddress(operationAdvance)
    /\ opIndex' = getNewOpIndex(operationAdvance)

(* lineMatrix.push_back(new LineEntry(...)).                                *)
PushRow(a, l) ==
    lineMatrix' = Append(lineMatrix, [address |-> a, line |-> l, file |-> file,
                                      isStmt |-> isStmt, marks |-> marks])

-----------------------------------------------------------------------------
(* One action per opcode; for a special opcode n is adjustedOpcode.         *)

Special(n) ==
    /\ Decode("special", n)
    /\ Advance(n \div lineRange)
    /\ line' = UInt(line + lineBase + (n % lineRange))
    /\ PushRow(address', line')
    /\ marks' = {}
    /\ UNCHANGED <<file, isStmt>>

Copy ==
    /\ Decode("copy", 0)
    /\ PushRow(address, line)
    /\ marks' = {}
    /\ UNCHANGED <<address, opIndex, file, line, isStmt>>

AdvancePc(n) ==
    /\ Decode("advance_pc", n)
    /\ Advance(n)
    /\ UNCHANGED <<file, line, isStmt, marks, lineMatrix>>

AdvanceLine(n) ==
    /\ Decode("advance_line", n)
    /\ line' = UInt(line + n)
    /\ UNCHANGED <<address, opIndex, file, isStmt, marks, lineMatrix>>

SetFile(n) ==
    /\ Decode("set_file", n)
    /\ file' = n
    /\ UNCHANGED <<address, opIndex, line, isStmt, marks, lineMatrix>>

NegateStmt ==
    /\ Decode("negate_stmt", 0)
    /\ isStmt' = ~ isStmt
    /\ UNCHANGED <<address, opIndex, file, line, marks, lineMatrix>>

ConstAddPc ==
    /\ Decode("const_add_pc", 0)
    /\ Advance((255 - opcodeBase) \div lineRange)
    /\ UNCHANGED <<file, line, isStmt, marks, lineMatrix>>

FixedAdvancePc(n) ==
    /\ Decode("fixed_advance_pc", n)
    /\ address' = UInt(address + n)
    /\ opIndex' = 0
    /\ UNCHANGED <<file, line, isStmt, marks, lineMatrix>>

SetMark(op, mark) ==
    /\ Decode(op, 0)
    /\ marks' = marks \cup {mark}
    /\ UNCHANGED <<address, opIndex, file, line, isStmt, lineMatrix>>

SetAddress(n) ==
    /\ Decode("set_address", n)
    /\ address' = n
    /\ opIndex' = 0
    /\ UNCHANGED <<file, line, isStmt, marks, lineMatrix>>

(* Not the code: clearRegisters without the file.                           *)
BugClearRegisters ==
    /\ address' = InitialRegisters.address /\ opIndex' = InitialRegisters.opIndex
    /\ file' = file /\ line' = InitialRegisters.line
    /\ isStmt' = InitialRegisters.isStmt /\ marks' = InitialRegisters.marks

clearRegisters ==
    /\ address' = InitialRegisters.address /\ opIndex' = InitialRegisters.opIndex
    /\ file' = InitialRegisters.file /\ line' = InitialRegisters.line
    /\ isStmt' = InitialRegisters.isStmt /\ marks' = InitialRegisters.marks

EndSequence ==
    /\ Decode("end_sequence", 0)
    /\ PushRow(address, line)
    /\ clearRegisters

(* set_column, set_basic_block, set_isa and set_discriminator touch no      *)
(* register kept here; an opcode the switches do not list does nothing (and *)
(* what would be its operands is decoded as opcodes).                       *)
Otherwise ==
    /\ Decode("other", 0)
    /\ UNCHANGED <<address, opIndex, file, line, isStmt, marks, lineMatrix>>

Next ==
    \/ \E n \in Operands("special") : Special(n)
    \/ Copy
    \/ \E n \in Operands("advance_pc") : AdvancePc(n)
    \/ \E n \in Operands("advance_line") : AdvanceLine(n)
    \/ \E n \in Operands("set_file") : SetFile(n)
    \/ NegateStmt
    \/ ConstAddPc
    \/ \E n \in Operands("fixed_advance_pc") : FixedAdvancePc(n)
    \/ SetMark("set_prologue_end", "prologueEnd")
    \/ SetMark("set_epilogue_begin", "epilogueBegin")
    \/ \E n \in Operands("set_address") : SetAddress(n)
    \/ EndSequence
    \/ Otherwise

Spec == Init /\ [][Next]_vars

-----------------------------------------------------------------------------
(* The rows the DWARF standard gives a program, from the program alone.  A  *)
(* row is derived from the opcodes of its sequence up to its own, q.        *)
RowOps == {"special", "copy", "end_sequence"}

(* The place of the last opcode among ops, or 0.                            *)
LastOf(ops, q) == Max({0} \cup {j \in DOMAIN q : q[j].op \in ops})

OperationAdvance(x) ==
    CASE x.op = "special" -> x.n \div lineRange
      [] x.op = "advance_pc" -> x.n
      [] x.op = "const_add_pc" -> (255 - opcodeBase) \div lineRange
      [] OTHER -> 0

LineAdvance(x) ==
    CASE x.op = "special" -> lineBase + (x.n % lineRange)
      [] x.op = "advance_line" -> x.n
      [] OTHER -> 0

(* The operations of q in places a .. b.                                    *)
Operations(q, a, b) ==
    SumFunctionOnSet([j \in DOMAIN q |-> OperationAdvance(q[j])], a .. b)

(* The address was set at Base(q) and moved at Fixed(q).  Each of them      *)
(* starts a stretch of opcodes that add operations to opIndex, every        *)
(* maximumOperationsPerInstruction of which make an instruction.            *)
Base(q) == LastOf({"set_address"}, q)
Fixed(q) == {j \in Base(q) + 1 .. Len(q) : q[j].op = "fixed_advance_pc"}
StretchEnd(q, i) == Min({j \in Fixed(q) : i < j} \cup {Len(q) + 1}) - 1
Instructions(q, i) ==
    Operations(q, i + 1, StretchEnd(q, i)) \div maximumOperationsPerInstruction

AddressOf(q) ==
    (IF Base(q) = 0 THEN 0 ELSE q[Base(q)].n)
    + SumFunction([j \in Fixed(q) |-> q[j].n])
    + minimumInstructionLength *
          SumFunction([i \in Fixed(q) \cup {Base(q)} |-> Instructions(q, i)])

LineOf(q) == 1 + SumFunction([j \in DOMAIN q |-> LineAdvance(q[j])])

FileOf(q) == LET set == LastOf({"set_file"}, q) IN IF set = 0 THEN 1 ELSE q[set].n

IsStmtOf(q) ==
    defaultIsStmt <=> Cardinality({j \in DOMAIN q : q[j].op = "negate_stmt"}) % 2 = 0

MarksOf(q) ==
    {m \in {"prologueEnd", "epilogueBegin"} :
        \E j \in LastOf(RowOps, q) + 1 .. Len(q) :
            q[j].op = IF m = "prologueEnd" THEN "set_prologue_end" ELSE "set_epilogue_begin"}

RowOf(q) ==
    [address |-> UInt(AddressOf(q)), line |-> UInt(LineOf(q)), file |-> FileOf(q),
     isStmt |-> IsStmtOf(q), marks |-> MarksOf(Front(q))]

Rows == {i \in DOMAIN program : program[i].op \in RowOps}
SequenceOf(i) ==
    SubSeq(program, 1 + LastOf({"end_sequence"}, SubSeq(program, 1, i - 1)), i)

(* The matrix holds one row for every opcode that makes one, in order, and  *)
(* each row is the one the standard derives from its own sequence alone:    *)
(* nothing leaks from one sequence or one row into the next.                *)
MatrixIsProgram ==
    /\ Len(lineMatrix) = Cardinality(Rows)
    /\ \A i \in Rows : lineMatrix[Cardinality({j \in Rows : j <= i})] = RowOf(SequenceOf(i))
=============================================================================
