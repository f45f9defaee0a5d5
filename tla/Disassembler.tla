---------------------------- MODULE Disassembler ----------------------------
(***************************************************************************)
(* The disassembly ElfParser makes of the program: one instruction as text *)
(* (generateInstructionStr), and the list of lines the viewer shows        *)
(* (generateDisassembledCode).  An instruction is the set of the positions *)
(* of its 1s, as in Decode; its text is a name and the operands printed    *)
(* behind it, registers as numbers and immediates as sets of positions.    *)
(***************************************************************************)
EXTENDS Alu, Decode, Boot, MemControlUnit

OpcodeBits ==
    [LUI |-> {0, 1, 2, 4, 5}, AUIPC |-> {0, 1, 2, 4},
     JAL |-> {0, 1, 2, 3, 5, 6}, JALR |-> {0, 1, 2, 5, 6}, BTYPE |-> {0, 1, 5, 6},
     LOAD |-> {0, 1}, STORE |-> {0, 1, 5}, ITYPE |-> {0, 1, 4}, RTYPE |-> {0, 1, 4, 5},
     PRIV |-> {0, 1, 4, 5, 6}]

(* 2 to the power of i.                                                     *)
Power2 == [i \in 0 .. 11 |-> <<1, 2, 4, 8, 16, 32, 64, 128, 256, 512, 1024, 2048>>[i + 1]]

Number(S) == SumFunctionOnSet(Power2, S)
Field(I, low, high) == Number(RightBy(I, low) \cap 0 .. high - low)

opcode(I) ==
    LET matching == {o \in DOMAIN OpcodeBits : OpcodeBits[o] = I \cap 0 .. 6}
    IN  IF matching = {} THEN "unknown" ELSE CHOOSE o \in matching : TRUE
rd(I) == Field(I, 7, 11)
funct3(I) == Field(I, 12, 14)
rs1(I) == Field(I, 15, 19)
rs2(I) == Field(I, 20, 24)
funct7(I) == Field(I, 25, 31)
csrAddr(I) == Field(I, 20, 31)

(* What is left of an instruction that has no text: at() throws out of the  *)
(* table, which nothing catches, so that the emulator ends; or the buffer   *)
(* is returned as it was before the call.                                   *)
Throws == [name |-> "throws", operands |-> << >>]
Unwritten == [name |-> "unwritten", operands |-> << >>]
Hex == [name |-> "hex", operands |-> << >>]

(* table.at(index), the table's entries counted from 0.                     *)
At(table, index, operands) ==
    IF index < Len(table) THEN [name |-> table[index + 1], operands |-> operands]
    ELSE Throws

(* Not the code: no entry for the funct3 that names no load.                *)
BugloadInstructions == <<"lb", "lh", "lw", "lbu", "lhu">>

branchInstructions == <<"beq", "bne", "nan", "nan", "blt", "bge", "bltu", "bgeu">>
loadInstructions == <<"lb", "lh", "lw", "nan", "lbu", "lhu">>
storeInstructions == <<"sb", "sh", "sw">>
iInstructions == <<"addi", "slli", "slti", "sltiu", "xori", "nan", "ori", "andi">>
rInstructions == <<"nan", "sll", "slt", "sltu", "xor", "nan", "or", "and">>
csrInstructions == <<"nan", "csrrw", "csrrs", "csrrc">>

(* One of two instructions by funct7, and no text for any other funct7.     *)
ByFunct7(I, zero, thirtyTwo, operands) ==
    CASE funct7(I) = 0 -> [name |-> zero, operands |-> operands]
      [] funct7(I) = 32 -> [name |-> thirtyTwo, operands |-> operands]
      [] OTHER -> Unwritten

CsrAddresses ==
    [mstatus |-> 768, misa |-> 769, mie |-> 772, mtvec |-> 773, mscratch |-> 832,
     mepc |-> 833, mcause |-> 834, mtval |-> 835, mip |-> 836, mcycle |-> 2816,
     minstret |-> 2818, mcycleh |-> 2944, minstreth |-> 2946, mvendorid |-> 3857,
     marchid |-> 3858, mimpid |-> 3859, mhartid |-> 3860]

getCsrName(address) ==
    LET named == {c \in DOMAIN CsrAddresses : CsrAddresses[c] = address}
    IN  IF named = {} THEN "CSR_UNKWN" ELSE CHOOSE c \in named : TRUE

(* Where jumps and branches go, relative to the address of the line.        *)
Target(immediate) == [relative |-> immediate]

generateInstructionStr(I) ==
    LET immediate == getImmediate(opcode(I), I)
        registers == <<rd(I), rs1(I), rs2(I)>>
    IN  CASE opcode(I) \in {"LUI", "AUIPC"} ->
               [name |-> IF opcode(I) = "LUI" THEN "lui" ELSE "auipc",
                operands |-> <<rd(I), RightBy(immediate, 12)>>]
          [] opcode(I) = "JAL" -> [name |-> "jal", operands |-> <<rd(I), Target(immediate)>>]
          [] opcode(I) = "JALR" ->
               [name |-> "jalr", operands |-> <<rd(I), immediate, rs1(I)>>]
          [] opcode(I) = "BTYPE" ->
               At(branchInstructions, funct3(I), <<rs1(I), rs2(I), Target(immediate)>>)
          [] opcode(I) = "LOAD" ->
               At(loadInstructions, funct3(I), <<rd(I), immediate, rs1(I)>>)
          [] opcode(I) = "STORE" ->
               At(storeInstructions, funct3(I), <<rs2(I), immediate, rs1(I)>>)
          [] opcode(I) = "ITYPE" /\ funct3(I) = 5 ->
               ByFunct7(I, "srli", "srai", <<rd(I), rs1(I), immediate>>)
          [] opcode(I) = "ITYPE" /\ funct3(I) # 5 ->
               At(iInstructions, funct3(I), <<rd(I), rs1(I), immediate>>)
          [] opcode(I) = "RTYPE" /\ funct3(I) = 0 -> ByFunct7(I, "add", "sub", registers)
          [] opcode(I) = "RTYPE" /\ funct3(I) = 5 -> ByFunct7(I, "srl", "sra", registers)
          [] opcode(I) = "RTYPE" /\ funct3(I) \notin {0, 5} ->
               At(rInstructions, funct3(I), registers)
          [] opcode(I) = "PRIV" /\ funct3(I) = 0 ->
               CASE csrAddr(I) = 770 -> [name |-> "mret", operands |-> << >>]
                 [] csrAddr(I) = 0 -> [name |-> "ecall", operands |-> << >>]
                 [] OTHER -> Unwritten
          [] opcode(I) = "PRIV" /\ funct3(I) # 0 ->
               At(csrInstructions, funct3(I), <<rd(I), getCsrName(csrAddr(I)), rs1(I)>>)
          [] opcode(I) = "unknown" -> Hex

-----------------------------------------------------------------------------
(* The list of lines.  An address is an origin and a distance from it; the  *)
(* text of a line is left as the word it is made of.                        *)
WordAt(h, idx) == SubSeq(h.file, idx + 1, idx + 4)

(* The mapping symbols, the nameless one and the types the switch discards. *)
Listed(s) == s.name \notin {"", "$x"} /\ s.type \notin {"OBJECT", "SECTION", "FILE"}

(* Not the code: every segment that can be read.                            *)
BugExecutable(h) == "R" \in h.flags

Executable(h) == "X" \in h.flags

(* getSymbolAtAddress: the first one, or none.                              *)
SymbolLines(symtab, address) ==
    LET here == SelectInSeq(symtab, LAMBDA s : Listed(s) /\ s.address = address)
    IN  IF here = 0 THEN << >>
        ELSE << [isInstruction |-> FALSE, address |-> address, line |-> symtab[here].name] >>

SegmentLines(h, symtab) ==
    LET Lines(k) ==
            LET address == <<h.paddr, 4 * (k - 1)>>
            IN  Append(SymbolLines(symtab, address),
                       [isInstruction |-> TRUE, address |-> address,
                        line |-> WordAt(h, 4 * (k - 1))])
    IN  FlattenSeq([k \in 1 .. (Len(Flashed(h)) + 3) \div 4 |-> Lines(k)])

generateDisassembledCode(headers, symtab) ==
    FlattenSeq([i \in DOMAIN headers |->
                    IF Executable(headers[i]) THEN SegmentLines(headers[i], symtab)
                    ELSE << >>])

-----------------------------------------------------------------------------
(* The comparisons of branches differ on the words 0, 1 and -1, whose       *)
(* differences do not overflow.                                             *)
ASSUME ComparedAssumption == WordSize >= 8

(* What the names of RV32I and its CSR instructions mean to the processor:  *)
(* the unit that does the work and what it is told to do.                   *)
Performed(I) ==
    CASE opcode(I) \in {"ITYPE", "RTYPE"} ->
            <<opcode(I), getAluOperation(opcode(I), funct7(I), funct3(I))>>
      [] opcode(I) = "BTYPE" ->
            <<"BTYPE", [p \in {0, 1, WordSize - 1} \X {0, 1, WordSize - 1} |->
                            branchAlu(p[1], p[2], funct3(I))]>>
      [] opcode(I) \in {"LOAD", "STORE"} -> <<opcode(I), getMemSize(funct3(I))>>
      [] opcode(I) = "PRIV" -> <<"PRIV", IF funct3(I) = 0 THEN csrAddr(I) ELSE funct3(I)>>
      [] OTHER -> <<opcode(I), 0>>

Compares(condition(_, _)) ==
    <<"BTYPE", [p \in {0, 1, WordSize - 1} \X {0, 1, WordSize - 1} |->
                    condition(p[1], p[2])]>>
AsSigned(w) == IF w = WordSize - 1 THEN -1 ELSE w

Meaning ==
    [lui |-> <<"LUI", 0>>, auipc |-> <<"AUIPC", 0>>, jal |-> <<"JAL", 0>>, jalr |-> <<"JALR", 0>>,
     beq |-> Compares(LAMBDA a, b : a = b), bne |-> Compares(LAMBDA a, b : a # b),
     blt |-> Compares(LAMBDA a, b : AsSigned(a) < AsSigned(b)),
     bge |-> Compares(LAMBDA a, b : AsSigned(a) >= AsSigned(b)),
     bltu |-> Compares(LAMBDA a, b : a < b), bgeu |-> Compares(LAMBDA a, b : a >= b),
     lb |-> <<"LOAD", 1>>, lh |-> <<"LOAD", 2>>, lw |-> <<"LOAD", 4>>,
     lbu |-> <<"LOAD", 1>>, lhu |-> <<"LOAD", 2>>,
     sb |-> <<"STORE", 1>>, sh |-> <<"STORE", 2>>, sw |-> <<"STORE", 4>>,
     addi |-> <<"ITYPE", "ADD">>, slli |-> <<"ITYPE", "SLL">>, slti |-> <<"ITYPE", "SLT">>,
     sltiu |-> <<"ITYPE", "SLTU">>, xori |-> <<"ITYPE", "XOR">>, srli |-> <<"ITYPE", "SRL">>,
     srai |-> <<"ITYPE", "SRA">>, ori |-> <<"ITYPE", "OR">>, andi |-> <<"ITYPE", "AND">>,
     add |-> <<"RTYPE", "ADD">>, sub |-> <<"RTYPE", "SUB">>, sll |-> <<"RTYPE", "SLL">>,
     slt |-> <<"RTYPE", "SLT">>, sltu |-> <<"RTYPE", "SLTU">>, xor |-> <<"RTYPE", "XOR">>,
     srl |-> <<"RTYPE", "SRL">>, sra |-> <<"RTYPE", "SRA">>, or |-> <<"RTYPE", "OR">>,
     and |-> <<"RTYPE", "AND">>,
     mret |-> <<"PRIV", 770>>, ecall |-> <<"PRIV", 0>>,
     csrrw |-> <<"PRIV", 1>>, csrrs |-> <<"PRIV", 2>>, csrrc |-> <<"PRIV", 3>>]

(* The operands in the order of RISC-V's assembly language.                 *)
OperandsOf(I) ==
    LET immediate == ImmediateOfRV32I(opcode(I), I)
        upper == {k \in 0 .. 19 : k + 12 \in immediate}
    IN  CASE opcode(I) \in {"LUI", "AUIPC"} -> <<rd(I), upper>>
          [] opcode(I) = "JAL" -> <<rd(I), Target(immediate)>>
          [] opcode(I) \in {"JALR", "LOAD"} -> <<rd(I), immediate, rs1(I)>>
          [] opcode(I) = "BTYPE" -> <<rs1(I), rs2(I), Target(immediate)>>
          [] opcode(I) = "STORE" -> <<rs2(I), immediate, rs1(I)>>
          [] opcode(I) = "ITYPE" -> <<rd(I), rs1(I), immediate>>
          [] opcode(I) = "RTYPE" -> <<rd(I), rs1(I), rs2(I)>>
          [] opcode(I) = "PRIV" /\ funct3(I) = 0 -> << >>
          [] OTHER -> <<rd(I), getCsrName(csrAddr(I)), rs1(I)>>

(* The instructions RV32I_zicsr has, but for those the disassembler does    *)
(* not know: the immediate CSR instructions, EBREAK, WFI and FENCE.         *)
IsKnown(I) ==
    CASE opcode(I) \in {"LUI", "AUIPC", "JAL"} -> TRUE
      [] opcode(I) = "JALR" -> funct3(I) = 0
      [] opcode(I) = "BTYPE" -> funct3(I) \notin {2, 3}
      [] opcode(I) = "LOAD" -> funct3(I) \in {0, 1, 2, 4, 5}
      [] opcode(I) = "STORE" -> funct3(I) \in {0, 1, 2}
      [] opcode(I) = "ITYPE" ->
            (funct3(I) = 1 => funct7(I) = 0) /\ (funct3(I) = 5 => funct7(I) \in {0, 32})
      [] opcode(I) = "RTYPE" ->
            \/ funct7(I) = 0
            \/ funct7(I) = 32 /\ funct3(I) \in {0, 5}
      [] opcode(I) = "PRIV" ->
            funct3(I) \in {1, 2, 3} \/ I \ OpcodeBits.PRIV \in {{}, {21, 28, 29}}
      [] OTHER -> FALSE
=============================================================================
