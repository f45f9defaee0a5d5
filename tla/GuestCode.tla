----------------------------- MODULE GuestCode ------------------------------
(***************************************************************************)
(* The processor with two kinds of code in its memory: a guest program,    *)
(* and the vector table with the handlers of its traps.  Both are any code *)
(* that keeps the rules of EntryAssumption and GuestAssumption, which are  *)
(* those of crt0.s and interrupt.s: start-up code in a straight line that  *)
(* sets the trap vector, and handlers that either leave the registers of   *)
(* the program alone and return, or write any register and never do (a     *)
(* `jal' to itself).  The program is then promised GuestView, whatever     *)
(* interrupts and exceptions happen.  Firmware is an instance.             *)
(***************************************************************************)
EXTENDS Mcu

CONSTANTS
    GuestAddresses,     \* of the program's instructions
    StartAddresses,     \* those of them that set the trap vector first
    SetVectorPc,        \* the last of these, csrw mtvec
    StartRegs,          \* what the registers may be in front of each of them
    TrapAddresses,      \* of those entries of the vector table that are meant
                        \* to be used, and of their handlers
    SpinAddresses,      \* of the handlers that never return
    TrapVector,         \* the address of the vector table
    GuestRegs,          \* the registers the program uses
    RESERVED            \* the handler of all other entries

AccessesCsr(ins) == ins.opcode = "PRIV" /\ ins.funct3 \in 1 .. 3
WritesCsr(ins) == AccessesCsr(ins) /\ (ins.funct3 = 1 \/ ins.rs1 # 0)
IsMret(ins) == ins.opcode = "PRIV" /\ ins.funct3 = 0 /\ ins.imm = MRET_IMM
IsEcall(ins) == ins.opcode = "PRIV" /\ ins.funct3 = 0 /\ ins.imm = ECALL_IMM
WritesRegister(ins) ==
    \/ ins.opcode \in {"LUI", "AUIPC", "JAL", "JALR", "ITYPE", "RTYPE", "LOAD"}
    \/ AccessesCsr(ins)

(* The registers that what ins computes depends on.                         *)
Operands(ins) ==
    CASE ins.opcode \in {"BTYPE", "RTYPE"} -> {ins.rs1, ins.rs2}
      [] ins.opcode \in {"ITYPE", "JALR"} -> {ins.rs1}
      [] OTHER -> {}

(* The addresses it names to go on at; JALR names none.                      *)
Successors(ins, a) ==
    CASE ins.opcode = "JAL" -> {Plus(a, ins.imm)}
      [] ins.opcode = "JALR" -> {}
      [] ins.opcode = "BTYPE" -> {Plus(a, ins.imm), Plus(a, 4)}
      [] OTHER -> {Plus(a, 4)}

(* An instruction of the program: it jumps inside the program (JALR: see    *)
(* ReturnsInside) and not back to the start-up code, and leaves mret and,   *)
(* once it is set, the trap vector alone.                                   *)
IsGuest(ins, a) ==
    /\ ~ IsMret(ins)
    /\ Operands(ins) \subseteq GuestRegs \cup {0}
    /\ Successors(ins, a) \subseteq GuestAddresses
    /\ a \notin StartAddresses \ {SetVectorPc} => Successors(ins, a) \cap StartAddresses = {}
    /\ a # SetVectorPc => ~ (WritesCsr(ins) /\ ins.csr = "mtvec")

(* An instruction of a handler: it cannot fail, stays in the handlers until *)
(* an mret, leaves alone the CSRs that bring the program back, and the      *)
(* program's registers unless it is of a handler that never returns.        *)
IsHandler(ins, a) ==
    /\ ins.opcode \notin {"JALR", "unknown"} /\ ~ IsEcall(ins)
    /\ ~ IsMret(ins) => Successors(ins, a) \subseteq TrapAddresses
    /\ IF a \in SpinAddresses
       THEN ~ IsMret(ins) /\ Successors(ins, a) \subseteq SpinAddresses
       ELSE WritesRegister(ins) => ins.rd \notin GuestRegs
    /\ WritesCsr(ins) => ins.csr \notin {"mstatus", "mepc", "mtvec"}
    /\ ins.opcode = "LOAD" =>
          ins.rs1 = 0 /\ ReadStatus(ins.imm, getMemSize(ins.funct3)) = STATUS_OK
    /\ ins.opcode = "STORE" =>
          ins.rs1 = 0 /\ WriteStatus(ins.imm, getMemSize(ins.funct3)) = STATUS_OK

(* The entries of the vector table for the traps there are: the table has   *)
(* 16 entries for interrupts (software is 3, timer is 7), and after them    *)
(* one for each exception code.                                             *)
TableEntries == {3, 7} \cup {16 + cause : cause \in Causes}

ASSUME GuestAssumption ==
    /\ GuestAddresses \cup TrapAddresses \subseteq {a \in Words : a % 4 = 0}
    /\ GuestAddresses \cap TrapAddresses = {} /\ SpinAddresses \subseteq TrapAddresses
    /\ RESERVED \notin GuestAddresses \cup TrapAddresses
    /\ GuestRegs \subseteq Regs \ {0}
    /\ \A a \in GuestAddresses : \A ins \in Code(a) : IsGuest(ins, a)
    /\ \A a \in TrapAddresses :
          ReadStatus(a, WORD) = STATUS_OK /\ \A ins \in Code(a) : IsHandler(ins, a)
    /\ \A n \in TableEntries : Plus(TrapVector, 4 * n) \in TrapAddresses \ SpinAddresses

-----------------------------------------------------------------------------
(* The program's view: while a trap is being handled it is at mepc.         *)

ABANDONED == -1     \* no word is negative

InHandler == pc \in TrapAddresses
Spinning == pc \in SpinAddresses
GuestPc == IF Spinning THEN ABANDONED ELSE IF InHandler THEN csr["mepc"] ELSE pc
GuestRf == [r \in GuestRegs |-> IF Spinning THEN 0 ELSE rf[r]]
GuestProgram == [a \in GuestAddresses |-> Code(a)]

Operand(r, regs) == IF r = 0 THEN 0 ELSE regs[r]

(* What an instruction may compute.  Memory is not kept in the model, and a *)
(* CSR may have been written by a handler: they deliver any word.           *)
Values(ins, a, regs) ==
    CASE ins.opcode = "LUI" -> {ins.imm}
      [] ins.opcode = "AUIPC" -> {Plus(a, ins.imm)}
      [] ins.opcode \in {"JAL", "JALR"} -> {Plus(a, 4)}
      [] ins.opcode = "ITYPE" ->
            execute(Operand(ins.rs1, regs), ins.imm,
                    getAluOperation("ITYPE", ins.funct7, ins.funct3))
      [] ins.opcode = "RTYPE" ->
            execute(Operand(ins.rs1, regs), Operand(ins.rs2, regs),
                    getAluOperation("RTYPE", ins.funct7, ins.funct3))
      [] OTHER -> Words

GuestResults(ins, a, regs) ==
    IF WritesRegister(ins) /\ ins.rd \in GuestRegs
    THEN {[regs EXCEPT ![ins.rd] = v] : v \in Values(ins, a, regs)}
    ELSE {regs}

GuestTarget(ins, a, regs) ==
    CASE ins.opcode = "JAL" -> Plus(a, ins.imm)
      [] ins.opcode = "JALR" -> Plus(Operand(ins.rs1, regs), ins.imm)
      [] ins.opcode = "BTYPE" ->
            Plus(a, IF branchAlu(Operand(ins.rs1, regs), Operand(ins.rs2, regs), ins.funct3)
                    THEN ins.imm ELSE 4)
      [] OTHER -> Plus(a, 4)

(* crt0.s: the program begins with instructions that compute, from zeroed   *)
(* registers, the address of the vector table, and then sets mtvec to it.   *)
ASSUME EntryAssumption ==
    /\ EntryPc \in StartAddresses /\ SetVectorPc \in StartAddresses
    /\ StartAddresses \subseteq GuestAddresses
    /\ \A a \in StartAddresses : ReadStatus(a, WORD) = STATUS_OK
    /\ [r \in GuestRegs |-> 0] \in StartRegs[EntryPc]
    /\ \A a \in StartAddresses \ {SetVectorPc} : \A ins \in Code(a) :
          /\ ins.opcode \in {"LUI", "AUIPC", "ITYPE", "RTYPE"}
          /\ Plus(a, 4) \in StartAddresses
          /\ \A regs \in StartRegs[a] : GuestResults(ins, a, regs) \subseteq StartRegs[Plus(a, 4)]
    /\ \A ins \in Code(SetVectorPc) :
          /\ ins.opcode = "PRIV" /\ ins.funct3 = 1 /\ ins.csr = "mtvec" /\ ins.rd = 0
          /\ ins.rs1 \in GuestRegs
          /\ \A regs \in StartRegs[SetVectorPc] : regs[ins.rs1] = TrapVector

Guest == INSTANCE GuestView WITH
    Registers <- GuestRegs, Program <- GuestProgram, Entry <- EntryPc, Abandoned <- ABANDONED,
    Results <- GuestResults, Target <- GuestTarget,
    pc <- GuestPc, regs <- GuestRf

(* A call returns into the program, whatever trap came between: the return  *)
(* address in a register is still an address of the program.  (The theorems *)
(* take this from a program; how it keeps its addresses is its own affair.) *)
ReturnsInside ==
    pc \in GuestAddresses =>
        \A ins \in Code(pc) : ins.opcode = "JALR" =>
            Plus(rf[ins.rs1], ins.imm) \in GuestAddresses \ StartAddresses

(* Traps are transparent: whatever interrupts and exceptions are taken, the *)
(* program executes its instructions in order, each exactly once, on its    *)
(* own registers, for as long as no handler keeps the processor for good.   *)
(* One that fails is executed again when its handler returns; an ECALL is   *)
(* not.                                                                     *)
GuestUndisturbed == Guest!Spec

(* With a handler that moves the comparator the program is never starved.   *)
GuestProceeds == Guest!FairSpec

(* interrupt.s: "This exception should never be reached": every trap the    *)
(* processor takes goes to an entry of the table meant for it.              *)
ReservedNeverReached == pc # RESERVED
=============================================================================
