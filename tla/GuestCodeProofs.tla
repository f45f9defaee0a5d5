-------------------------- MODULE GuestCodeProofs ---------------------------
(***************************************************************************)
(* Traps are transparent: for every guest program, every trap code, every  *)
(* memory map and every width that keep the rules of GuestCode, which the  *)
(* repository's start-up code and handlers do (see Firmware).              *)
(***************************************************************************)
EXTENDS GuestCode, McuProofs

(* In the start-up code no trap can happen: interrupts are masked, and its  *)
(* instructions do not fail.  Behind it the trap vector is set.             *)
Vectored ==
    IF pc \in StartAddresses
    THEN phase # "trap" /\ ~ getMie /\ GuestRf \in StartRegs[pc]
    ELSE csr["mtvec"] = TrapVector

GuestInv ==
    /\ nextPc = pc
    /\ pc \in GuestAddresses \cup TrapAddresses
    /\ phase = "trap" =>
          /\ pc \in GuestAddresses
          /\ exceptionCode = ECALL_FROM_M_MODE => \E ins \in Code(pc) : IsEcall(ins)
    /\ phase = "vector" => InHandler
    /\ InHandler => ~ getMie /\ csr["mepc"] \in GuestAddresses \ StartAddresses
    /\ Vectored

(* The program's part of a register file.                                   *)
RegsOf(file) == [r \in GuestRegs |-> file[r]]

(* An instruction that is executed to its end, and one that fails.          *)
Completes(ins) ==
    /\ phase \in Executing /\ Advance(ins)
    /\ \A r \in GuestRegs : (WritesRegister(ins) => r # ins.rd) => rf'[r] = rf[r]
    /\ \A c \in {"mstatus", "mepc", "mtvec"} :
          csr'[c] # csr[c] => \/ WritesCsr(ins) /\ ins.csr = c
                              \/ IsMret(ins) /\ c = "mstatus"
    /\ WritesRegister(ins) /\ ins.rd \in GuestRegs /\ Operands(ins) \subseteq GuestRegs \cup {0}
          => rf'[ins.rd] \in Values(ins, pc, RegsOf(rf))
    /\ ins.opcode = "PRIV" /\ ins.funct3 = 1 /\ ins.rd = 0 /\ ins.rs1 # 0
          => csr'[ins.csr] = rf[ins.rs1]

Fails(ins) ==
    /\ phase \in Executing /\ UNCHANGED machine
    /\ \E code \in Causes : Raise(code) /\ (code = ECALL_FROM_M_MODE => IsEcall(ins))
    /\ \/ IsEcall(ins) \/ ins.opcode = "unknown"
       \/ /\ ins.opcode = "LOAD"
          /\ ReadStatus(EffectiveAddress(ins), getMemSize(ins.funct3)) # STATUS_OK
       \/ /\ ins.opcode = "STORE"
          /\ WriteStatus(EffectiveAddress(ins), getMemSize(ins.funct3)) # STATUS_OK

(* The program's registers are registers, other than x0.                    *)
LEMMA GuestRegisters ==
    ASSUME TypeOK
    PROVE  /\ \A r \in GuestRegs : r \in Regs /\ r # 0 /\ rf[r] \in Words /\ RegsOf(rf)[r] = rf[r]
           /\ \A r \in GuestRegs \cup {0} : Operand(r, RegsOf(rf)) = rf[r]
<1>1. \A r \in GuestRegs : r \in Regs /\ r # 0
  BY GuestAssumption
<1> QED
  BY <1>1 DEF TypeOK, RegsOf, Operand

LEMMA CsrNames == {"mstatus", "mepc", "mtvec", "mip", "mcause"} \subseteq Csrs
  BY DEF Csrs

(* RegisterFile::write changes nothing but the register.                    *)
LEMMA RfWriteKeeps ==
    ASSUME TypeOK, NEW data, NEW reg \in Regs
    PROVE  /\ \A r \in GuestRegs : r # reg => RfWrite(data, reg)[r] = rf[r]
           /\ reg \in GuestRegs => RfWrite(data, reg)[reg] = data
  BY GuestRegisters DEF RfWrite, TypeOK

(* Every instruction is executed to its end or fails.                       *)
LEMMA OneInstruction ==
    ASSUME TypeOK, NEW ins \in Instructions,
           \/ Lui(ins) \/ Auipc(ins) \/ Jump(ins) \/ Branch(ins) \/ Arithmetic(ins)
           \/ Load(ins) \/ LoadFault(ins) \/ Store(ins) \/ StoreFault(ins)
           \/ Csrrw(ins) \/ Csrrs(ins) \/ Csrrc(ins)
           \/ Mret(ins) \/ Ecall(ins) \/ PrivNop(ins) \/ IllegalInstruction(ins)
    PROVE  Completes(ins) \/ Fails(ins)
<1>1. /\ ins.rd \in Regs /\ ins.imm \in Words /\ ins.csr \in Csrs /\ ins.funct3 \in 0 .. 7
      /\ ins.rs1 \in Regs /\ ins.rs2 \in Regs
  BY DEF Instructions
<1>2. /\ csr \in [Csrs -> Words] /\ rf \in [Regs -> Words]
      /\ \A r \in GuestRegs \cup {0} : Operand(r, RegsOf(rf)) = rf[r]
  BY GuestRegisters DEF TypeOK
<1>3. \A v : /\ \A r \in GuestRegs : r # ins.rd => RfWrite(v, ins.rd)[r] = rf[r]
             /\ ins.rd \in GuestRegs => RfWrite(v, ins.rd)[ins.rd] = v
  BY <1>1, RfWriteKeeps
(* Instructions that compute a value for rd.                                *)
<1>4. ASSUME NEW v, phase \in Executing, Advance(ins), rf' = RfWrite(v, ins.rd),
             UNCHANGED csr, ins.opcode # "PRIV", WritesRegister(ins),
             Operands(ins) \subseteq GuestRegs \cup {0} => v \in Values(ins, pc, RegsOf(rf))
      PROVE  Completes(ins)
  BY <1>3, <1>4 DEF Completes
(* Instructions that leave the registers and the CSRs alone.                *)
<1>5. ASSUME phase \in Executing, Advance(ins), UNCHANGED <<rf, csr>>,
             ~ WritesRegister(ins), ins.opcode = "PRIV" => ins.funct3 # 1
      PROVE  Completes(ins)
  BY <1>5 DEF Completes
<1>6. CASE Lui(ins)
  <2>1. ins.imm \in Values(ins, pc, RegsOf(rf)) /\ ins.opcode = "LUI"
    BY <1>6 DEF Lui, Fetched, Values
  <2> QED
    BY Zenon, <1>4, <1>6, <2>1 DEF Lui, Fetched, WritesRegister
<1>7. CASE Auipc(ins)
  <2>1. Plus(pc, ins.imm) \in Values(ins, pc, RegsOf(rf)) /\ ins.opcode = "AUIPC"
    BY <1>7 DEF Auipc, Fetched, Values
  <2> QED
    BY <1>4, <1>7, <2>1 DEF Auipc, Fetched, WritesRegister
<1>8. CASE Jump(ins)
  <2>1. Plus(pc, 4) \in Values(ins, pc, RegsOf(rf)) /\ ins.opcode \in {"JAL", "JALR"}
    BY <1>8 DEF Jump, Fetched, Values
  <2> QED
    BY <1>4, <1>8, <2>1 DEF Jump, Fetched, WritesRegister
<1>9. CASE Branch(ins)
  BY <1>5, <1>9 DEF Branch, Fetched, WritesRegister, AccessesCsr
<1>10. CASE Arithmetic(ins)
  <2>1. /\ phase \in Executing /\ Advance(ins) /\ UNCHANGED csr
        /\ ins.opcode \in {"ITYPE", "RTYPE"} /\ WritesRegister(ins)
    BY <1>10 DEF Arithmetic, Fetched, WritesRegister
  <2>2. CASE ins.opcode = "ITYPE"
    <3>1. PICK v \in execute(rf[ins.rs1], ins.imm, getAluOperation("ITYPE", ins.funct7, ins.funct3)) :
              rf' = RfWrite(v, ins.rd)
      BY <1>10, <2>2 DEF Arithmetic, Fetched
    <3>2. Values(ins, pc, RegsOf(rf)) =
              execute(Operand(ins.rs1, RegsOf(rf)), ins.imm,
                      getAluOperation("ITYPE", ins.funct7, ins.funct3))
      BY <2>2 DEF Values
    <3>3. Operands(ins) = {ins.rs1}
      BY <2>2 DEF Operands
    <3>4. Operands(ins) \subseteq GuestRegs \cup {0} => v \in Values(ins, pc, RegsOf(rf))
      BY Zenon, <1>2, <3>1, <3>2, <3>3
    <3> QED
      BY <1>4, <2>1, <3>1, <3>4
  <2>3. CASE ins.opcode = "RTYPE"
    <3>1. PICK v \in execute(rf[ins.rs1], rf[ins.rs2], getAluOperation("RTYPE", ins.funct7, ins.funct3)) :
              rf' = RfWrite(v, ins.rd)
      BY <1>10, <2>3 DEF Arithmetic, Fetched
    <3>2. Values(ins, pc, RegsOf(rf)) =
              execute(Operand(ins.rs1, RegsOf(rf)), Operand(ins.rs2, RegsOf(rf)),
                      getAluOperation("RTYPE", ins.funct7, ins.funct3))
      BY <2>3 DEF Values
    <3>3. Operands(ins) = {ins.rs1, ins.rs2}
      BY <2>3 DEF Operands
    <3>4. Operands(ins) \subseteq GuestRegs \cup {0} => v \in Values(ins, pc, RegsOf(rf))
      BY Zenon, <1>2, <3>1, <3>2, <3>3
    <3> QED
      BY <1>4, <2>1, <3>1, <3>4
  <2> QED
    BY <2>1, <2>2, <2>3
<1>11. CASE Load(ins)
  <2>1. EffectiveAddress(ins) \in Words
    BY AddressType
  <2>2. PICK v \in Loaded(EffectiveAddress(ins), getMemSize(ins.funct3)) : rf' = RfWrite(v, ins.rd)
    BY <1>11 DEF Load
  <2>3. v \in Words
    BY <1>11, <2>1, <2>2, MemoryType DEF Load
  <2>4. v \in Values(ins, pc, RegsOf(rf))
    BY <1>11, <2>3 DEF Load, Fetched, Values
  <2> QED
    BY <1>4, <1>11, <2>2, <2>4 DEF Load, Fetched, WritesRegister
<1>12. CASE Store(ins)
  BY <1>5, <1>12 DEF Store, Fetched, WritesRegister, AccessesCsr
<1>13. CASE LoadFault(ins) \/ StoreFault(ins) \/ Ecall(ins) \/ IllegalInstruction(ins)
  <2>1. LOAD_ACCESS_FAULT # ECALL_FROM_M_MODE /\ LOAD_ADDRESS_MISALIGNED # ECALL_FROM_M_MODE
        /\ STORE_ACCESS_FAULT # ECALL_FROM_M_MODE /\ STORE_ADDRESS_MISALIGNED # ECALL_FROM_M_MODE
        /\ ILLEGAL_INSTRUCTION # ECALL_FROM_M_MODE
    BY DEF LOAD_ACCESS_FAULT, LOAD_ADDRESS_MISALIGNED, STORE_ACCESS_FAULT,
           STORE_ADDRESS_MISALIGNED, ILLEGAL_INSTRUCTION, ECALL_FROM_M_MODE
  <2>2. CASE LoadFault(ins)
    <3>1. ReadStatus(EffectiveAddress(ins), getMemSize(ins.funct3)) \in
              {LOAD_ACCESS_FAULT, LOAD_ADDRESS_MISALIGNED}
      BY <2>2 DEF LoadFault, ReadStatus
    <3> QED
      BY <2>1, <2>2, <3>1 DEF LoadFault, Fetched, Fails, Causes
  <2>3. CASE StoreFault(ins)
    <3>1. WriteStatus(EffectiveAddress(ins), getMemSize(ins.funct3)) \in
              {STORE_ACCESS_FAULT, STORE_ADDRESS_MISALIGNED, ILLEGAL_INSTRUCTION}
      BY <2>3 DEF StoreFault, WriteStatus
    <3> QED
      BY <2>1, <2>3, <3>1 DEF StoreFault, Fetched, Fails, Causes
  <2>4. CASE Ecall(ins)
    BY <2>4 DEF Ecall, Fetched, Fails, IsEcall, Causes
  <2>5. CASE IllegalInstruction(ins)
    BY <2>1, <2>5 DEF IllegalInstruction, Fetched, Fails, Causes
  <2> QED
    BY <1>13, <2>2, <2>3, <2>4, <2>5
<1>14. CASE Csrrw(ins) \/ Csrrs(ins) \/ Csrrc(ins)
  <2>1. /\ phase \in Executing /\ Advance(ins) /\ ins.opcode = "PRIV" /\ ins.funct3 \in 1 .. 3
        /\ rf' = RfWrite(csr[ins.csr], ins.rd)
        /\ \E v : csr' = [csr EXCEPT ![ins.csr] = v]
        /\ ins.funct3 = 1 => csr' = [csr EXCEPT ![ins.csr] = rf'[ins.rs1]]
        /\ ins.funct3 # 1 /\ ins.rs1 = 0 => csr' = [csr EXCEPT ![ins.csr] = @]
    BY <1>14 DEF Csrrw, Csrrs, Csrrc, Fetched
  <2>2. AccessesCsr(ins) /\ WritesRegister(ins)
    BY <2>1 DEF AccessesCsr, WritesRegister
  <2>3. Values(ins, pc, RegsOf(rf)) = Words
    BY <2>1 DEF Values
  <2>4. csr[ins.csr] \in Words
    BY <1>1, <1>2
  <2>5. \A c \in Csrs : csr'[c] # csr[c] => WritesCsr(ins) /\ ins.csr = c
    <3>1. \A c \in Csrs : csr'[c] # csr[c] => ins.csr = c
      BY <1>1, <1>2, <2>1
    <3>2. ~ WritesCsr(ins) => csr' = csr
      BY <1>1, <1>2, <2>1, <2>2 DEF WritesCsr
    <3> QED
      BY <3>1, <3>2
  <2>6. ins.funct3 = 1 /\ ins.rd = 0 /\ ins.rs1 # 0 => csr'[ins.csr] = rf[ins.rs1]
    <3>1. ins.rd = 0 /\ ins.rs1 # 0 => rf'[ins.rs1] = rf[ins.rs1]
      BY <1>1, <1>2, <2>1 DEF RfWrite
    <3> QED
      BY <1>1, <1>2, <2>1, <3>1
  <2> QED
    BY <1>3, <2>1, <2>2, <2>3, <2>4, <2>5, <2>6, CsrNames DEF Completes
<1>15. CASE Mret(ins)
  <2>1. /\ phase \in Executing /\ Advance(ins) /\ UNCHANGED rf /\ IsMret(ins)
        /\ csr' = [csr EXCEPT !["mstatus"] = MretMstatus(@)]
        /\ ins.opcode = "PRIV" /\ ins.funct3 = 0
    BY <1>15 DEF Mret, Fetched, IsMret
  <2>2. csr'["mepc"] = csr["mepc"] /\ csr'["mtvec"] = csr["mtvec"]
    BY <1>2, <2>1
  <2>3. ~ WritesRegister(ins)
    BY <2>1 DEF WritesRegister, AccessesCsr
  <2> QED
    BY <2>1, <2>2, <2>3 DEF Completes
<1>16. CASE PrivNop(ins)
  <2>1. ins.opcode = "PRIV" /\ ins.funct3 \notin 1 .. 3
    BY <1>16 DEF PrivNop, Fetched
  <2>2. ~ WritesRegister(ins)
    BY <2>1 DEF WritesRegister, AccessesCsr
  <2> QED
    BY <1>5, <1>16, <2>1, <2>2 DEF PrivNop, Fetched
<1> QED
  BY <1>6, <1>7, <1>8, <1>9, <1>10, <1>11, <1>12, <1>13, <1>14, <1>15, <1>16

(* Where an instruction goes.                                               *)
LEMMA WhereNext ==
    ASSUME TypeOK, nextPc = pc, NEW ins
    PROVE  /\ IsMret(ins) => calculateNextPc(ins) = csr["mepc"]
           /\ ~ IsMret(ins) /\ ins.opcode # "JALR" => calculateNextPc(ins) \in Successors(ins, pc)
           /\ ~ IsMret(ins) /\ Operands(ins) \subseteq GuestRegs \cup {0} =>
                 calculateNextPc(ins) = GuestTarget(ins, pc, RegsOf(rf))
<1>1. CASE IsMret(ins)
  BY <1>1 DEF IsMret, calculateNextPc
<1>2. CASE ~ IsMret(ins) /\ ins.opcode = "JAL"
  BY <1>2 DEF calculateNextPc, Successors, GuestTarget
<1>3. CASE ~ IsMret(ins) /\ ins.opcode = "BTYPE"
  <2> DEFINE Branches(x, y) == Plus(pc, IF branchAlu(x, y, ins.funct3) THEN ins.imm ELSE 4)
  <2>1. calculateNextPc(ins) = Branches(rf[ins.rs1], rf[ins.rs2])
    BY <1>3 DEF calculateNextPc
  <2>2. Successors(ins, pc) = {Plus(pc, ins.imm), Plus(pc, 4)}
    BY <1>3 DEF Successors
  <2>3. Operands(ins) = {ins.rs1, ins.rs2}
    BY <1>3 DEF Operands
  <2>4. GuestTarget(ins, pc, RegsOf(rf)) =
            Branches(Operand(ins.rs1, RegsOf(rf)), Operand(ins.rs2, RegsOf(rf)))
    BY <1>3 DEF GuestTarget
  <2>5. calculateNextPc(ins) \in Successors(ins, pc)
    BY <2>1, <2>2
  <2>6. Operands(ins) \subseteq GuestRegs \cup {0} =>
            Operand(ins.rs1, RegsOf(rf)) = rf[ins.rs1] /\ Operand(ins.rs2, RegsOf(rf)) = rf[ins.rs2]
    BY <2>3, GuestRegisters
  <2> HIDE DEF Branches
  <2> QED
    BY <1>3, <2>1, <2>4, <2>5, <2>6
<1>4. CASE ~ IsMret(ins) /\ ins.opcode = "JALR"
  <2>1. calculateNextPc(ins) = Plus(rf[ins.rs1], ins.imm)
    BY <1>4 DEF calculateNextPc
  <2>2. GuestTarget(ins, pc, RegsOf(rf)) = Plus(Operand(ins.rs1, RegsOf(rf)), ins.imm)
    BY <1>4 DEF GuestTarget
  <2>3. Operands(ins) = {ins.rs1}
    BY <1>4 DEF Operands
  <2> QED
    BY Zenon, <1>4, <2>1, <2>2, <2>3, GuestRegisters
<1>5. CASE ~ IsMret(ins) /\ ins.opcode \notin {"JAL", "JALR", "BTYPE"}
  <2>1. calculateNextPc(ins) = Plus(pc, 4)
    BY <1>5 DEF calculateNextPc, IsMret
  <2>2. Successors(ins, pc) = {Plus(pc, 4)} /\ GuestTarget(ins, pc, RegsOf(rf)) = Plus(pc, 4)
    BY <1>5 DEF Successors, GuestTarget
  <2> QED
    BY <1>5, <2>1, <2>2
<1>6. \/ IsMret(ins)
      \/ ~ IsMret(ins) /\ ins.opcode = "JAL"
      \/ ~ IsMret(ins) /\ ins.opcode = "JALR"
      \/ ~ IsMret(ins) /\ ins.opcode = "BTYPE"
      \/ ~ IsMret(ins) /\ ins.opcode \notin {"JAL", "JALR", "BTYPE"}
  BY Zenon
<1> QED
  BY Zenon, <1>1, <1>2, <1>3, <1>4, <1>5, <1>6

-----------------------------------------------------------------------------
(* A step of the program: an instruction executed on its own registers, at  *)
(* its own program counter.                                                 *)
GuestExecutes(ins) ==
    /\ GuestRf' \in GuestResults(ins, GuestPc, GuestRf)
    /\ GuestPc' = GuestTarget(ins, GuestPc, GuestRf)

LEMMA Addresses ==
    /\ \A a \in GuestAddresses \cup TrapAddresses : a \in Words /\ a % 4 = 0
    /\ \A a \in GuestAddresses : a \notin TrapAddresses
    /\ \A a \in GuestAddresses : \A ins \in Code(a) : IsGuest(ins, a)
    /\ \A a \in TrapAddresses : \A ins \in Code(a) : IsHandler(ins, a)
  BY GuestAssumption

(* An instruction whose target is aligned moves both program counters.      *)
LEMMA Moves ==
    ASSUME NEW ins, Advance(ins), calculateNextPc(ins) % 4 = 0
    PROVE  pc' = calculateNextPc(ins) /\ nextPc' = pc' /\ phase' = "cycle"
  BY DEF Advance

(* In the program, what it sees of the registers is what they are.          *)
LEMMA GuestSees ==
    /\ pc \notin SpinAddresses => GuestRf = RegsOf(rf)
    /\ pc \notin TrapAddresses => GuestPc = pc /\ GuestRf = RegsOf(rf) /\ ~ InHandler
    /\ pc \in TrapAddresses \ SpinAddresses => GuestPc = csr["mepc"]
    /\ pc \in SpinAddresses => GuestPc = ABANDONED /\ GuestRf = [r \in GuestRegs |-> 0]
  BY GuestAssumption DEF GuestRf, GuestPc, RegsOf, Spinning, InHandler

(* A completed instruction of the program is a step of it.                  *)
LEMMA GuestStep ==
    ASSUME TypeOK, TypeOK', GuestInv, ReturnsInside,
           pc \in GuestAddresses, NEW ins \in Code(pc), Completes(ins)
    PROVE  GuestInv' /\ GuestExecutes(ins)
<1>1. /\ pc \notin TrapAddresses /\ nextPc = pc /\ IsGuest(ins, pc) /\ Vectored
  BY Addresses DEF GuestInv
<1>2. GuestPc = pc /\ GuestRf = RegsOf(rf)
  BY <1>1, GuestSees
<1>3. /\ calculateNextPc(ins) = GuestTarget(ins, pc, GuestRf)
      /\ ins.opcode # "JALR" => calculateNextPc(ins) \in Successors(ins, pc)
  BY Zenon, <1>1, <1>2, WhereNext DEF IsGuest
<1>4. /\ calculateNextPc(ins) \in GuestAddresses
      /\ calculateNextPc(ins) \in StartAddresses => pc \in StartAddresses \ {SetVectorPc}
  <2>1. CASE ins.opcode = "JALR"
    <3>1. calculateNextPc(ins) = Plus(rf[ins.rs1], ins.imm)
      BY <2>1 DEF calculateNextPc
    <3> QED
      BY <2>1, <3>1 DEF ReturnsInside
  <2>2. CASE ins.opcode # "JALR"
    BY <1>1, <1>3, <2>2 DEF IsGuest
  <2> QED
    BY <2>1, <2>2
<1>5. pc' = calculateNextPc(ins) /\ nextPc' = pc' /\ phase' = "cycle"
  BY <1>4, Addresses, Moves DEF Completes
<1>6. /\ pc' \in GuestAddresses /\ pc' \notin TrapAddresses
      /\ GuestPc' = pc' /\ GuestRf' = RegsOf(rf)' /\ ~ InHandler'
  <2>1. pc' \in GuestAddresses /\ pc' \notin TrapAddresses
    BY <1>4, <1>5, Addresses
  <2>2. pc' \notin SpinAddresses
    BY <2>1, GuestAssumption
  <2> QED
    BY <2>1, <2>2 DEF GuestPc, GuestRf, InHandler, Spinning, RegsOf
<1>7. GuestRf' \in GuestResults(ins, pc, GuestRf)
  <2>1. CASE WritesRegister(ins) /\ ins.rd \in GuestRegs
    <3>1. rf'[ins.rd] \in Values(ins, pc, GuestRf)
      BY Zenon, <1>1, <1>2, <2>1 DEF Completes, IsGuest
    <3>2. GuestRf' = [GuestRf EXCEPT ![ins.rd] = rf'[ins.rd]]
      BY <1>2, <1>6, <2>1 DEF RegsOf, Completes
    <3> QED
      BY <2>1, <3>1, <3>2 DEF GuestResults
  <2>2. CASE ~ (WritesRegister(ins) /\ ins.rd \in GuestRegs)
    <3>1. GuestRf' = GuestRf
      BY <1>2, <1>6, <2>2 DEF RegsOf, Completes
    <3> QED
      BY <2>2, <3>1 DEF GuestResults
  <2> QED
    BY <2>1, <2>2
<1>8. /\ pc # SetVectorPc => csr'["mtvec"] = csr["mtvec"]
      /\ ~ WritesCsr(ins) => csr'["mstatus"] = csr["mstatus"]
      /\ ~ IsMret(ins)
  BY Zenon, <1>1 DEF Completes, IsGuest
<1>9. CASE pc \in StartAddresses \ {SetVectorPc}
  <2>1. /\ ins.opcode \in {"LUI", "AUIPC", "ITYPE", "RTYPE"} /\ Plus(pc, 4) \in StartAddresses
        /\ \A regs \in StartRegs[pc] : GuestResults(ins, pc, regs) \subseteq StartRegs[Plus(pc, 4)]
    BY Zenon, <1>9, EntryAssumption
  <2>2. ~ WritesCsr(ins) /\ Successors(ins, pc) = {Plus(pc, 4)} /\ ins.opcode # "JALR"
    BY <2>1 DEF WritesCsr, AccessesCsr, Successors
  <2>3. pc' = Plus(pc, 4)
    BY <1>3, <1>5, <2>2
  <2>4. GuestRf \in StartRegs[pc] /\ ~ getMie
    BY <1>1, <1>9 DEF Vectored
  <2>5. GuestRf' \in StartRegs[pc']
    BY <1>7, <2>1, <2>3, <2>4
  <2>6. ~ getMie'
    BY <1>8, <2>2, <2>4 DEF getMie
  <2>7. Vectored'
    BY Zenon, <1>5, <2>1, <2>3, <2>5, <2>6 DEF Vectored
  <2> QED
    BY <1>2, <1>3, <1>5, <1>6, <1>7, <2>7 DEF GuestInv, GuestExecutes
<1>10. CASE pc \notin StartAddresses \ {SetVectorPc}
  <2>1. csr'["mtvec"] = TrapVector
    <3>1. CASE pc = SetVectorPc
      <4>1. /\ ins.opcode = "PRIV" /\ ins.funct3 = 1 /\ ins.csr = "mtvec" /\ ins.rd = 0
            /\ ins.rs1 \in GuestRegs /\ pc \in StartAddresses
            /\ \A regs \in StartRegs[pc] : regs[ins.rs1] = TrapVector
        BY <3>1, EntryAssumption
      <4>2. GuestRf \in StartRegs[pc]
        BY <1>1, <4>1 DEF Vectored
      <4>3. GuestRf[ins.rs1] = TrapVector
        BY <4>1, <4>2
      <4>4. rf[ins.rs1] = TrapVector
        BY <1>2, <4>1, <4>3 DEF RegsOf
      <4>5. ins.rs1 # 0
        BY <4>1, GuestAssumption
      <4> QED
        BY <4>1, <4>4, <4>5 DEF Completes
    <3>2. CASE pc # SetVectorPc
      BY <1>1, <1>8, <1>10, <3>2 DEF Vectored
    <3> QED
      BY <3>1, <3>2
  <2>2. pc' \notin StartAddresses
    BY <1>4, <1>5, <1>10
  <2>3. Vectored'
    BY Zenon, <2>1, <2>2 DEF Vectored
  <2> QED
    BY <1>2, <1>3, <1>5, <1>6, <1>7, <2>3 DEF GuestInv, GuestExecutes
<1> QED
  BY <1>9, <1>10

(* An instruction of the program that fails is left to be trapped.  None of *)
(* the start-up code does.                                                  *)
LEMMA GuestFails ==
    ASSUME TypeOK, GuestInv, pc \in GuestAddresses, NEW ins \in Code(pc), Fails(ins)
    PROVE  GuestInv' /\ UNCHANGED <<GuestPc, GuestRf>>
<1>1. /\ pc \notin TrapAddresses /\ UNCHANGED machine
      /\ phase = "execute"
  BY Addresses DEF GuestInv, InHandler, Fails, Executing
<1>2. PICK code \in Causes : Raise(code) /\ (code = ECALL_FROM_M_MODE => IsEcall(ins))
  BY DEF Fails
<1>3. phase' = "trap" /\ exceptionCode' = code
  BY <1>1, <1>2 DEF Raise
<1>4. pc \notin StartAddresses
  <2>1. pc \in StartAddresses \ {SetVectorPc} => ins.opcode \in {"LUI", "AUIPC", "ITYPE", "RTYPE"}
    BY Zenon, EntryAssumption
  <2>2. pc = SetVectorPc => ins.opcode = "PRIV" /\ ins.funct3 = 1
    BY Zenon, EntryAssumption
  <2>3. /\ ins.opcode \notin {"LUI", "AUIPC", "ITYPE", "RTYPE"}
        /\ ~ (ins.opcode = "PRIV" /\ ins.funct3 = 1)
    BY DEF Fails, IsEcall
  <2> QED
    BY <2>1, <2>2, <2>3
<1>5. UNCHANGED <<pc, nextPc, rf, csr>>
  BY <1>1 DEF machine
<1>6. UNCHANGED <<GuestPc, GuestRf>> /\ (InHandler' <=> InHandler) /\ (getMie' <=> getMie)
  BY <1>5 DEF GuestPc, GuestRf, InHandler, Spinning, getMie
<1> QED
  BY <1>1, <1>2, <1>3, <1>4, <1>5, <1>6 DEF GuestInv, Vectored, InHandler

(* A failed fetch is left to be trapped as well: it is at an address of the *)
(* program, and not in the start-up code.                                   *)
LEMMA GuestFetchFault ==
    ASSUME TypeOK, GuestInv, FetchFault
    PROVE  GuestInv' /\ UNCHANGED <<GuestPc, GuestRf>>
<1>1. pc \notin TrapAddresses \cup StartAddresses
  BY GuestAssumption, EntryAssumption DEF FetchFault
<1>2. phase = "execute" /\ pc \in GuestAddresses
  BY <1>1 DEF FetchFault, Executing, GuestInv, InHandler
<1>3. phase' = "trap" /\ exceptionCode' = ReadStatus(pc, WORD)
  BY <1>2 DEF FetchFault, Raise
<1>4. exceptionCode' # ECALL_FROM_M_MODE
  BY <1>3 DEF FetchFault, ReadStatus, LOAD_ACCESS_FAULT, LOAD_ADDRESS_MISALIGNED,
              ECALL_FROM_M_MODE
<1>5. UNCHANGED <<pc, nextPc, rf, csr>>
  BY DEF FetchFault, machine
<1>6. UNCHANGED <<GuestPc, GuestRf>> /\ (InHandler' <=> InHandler) /\ (getMie' <=> getMie)
  BY <1>5 DEF GuestPc, GuestRf, InHandler, Spinning, getMie
<1> QED
  BY <1>1, <1>2, <1>3, <1>4, <1>5, <1>6 DEF GuestInv, Vectored, InHandler

(* No instruction of a handler fails: a second trap would overwrite mepc.   *)
LEMMA HandlerNeverFails ==
    ASSUME TypeOK, pc \in TrapAddresses, NEW ins \in Code(pc), ins \in Instructions
    PROVE  ~ Fails(ins)
<1>1. IsHandler(ins, pc)
  BY Addresses
<1>2. \A w \in Words : (0 + w) % WordSize = w
  BY WidthAssumption DEF Words
<1>3. ins.rs1 = 0 => EffectiveAddress(ins) = ins.imm
  BY <1>2 DEF EffectiveAddress, Plus, TypeOK, Instructions
<1> QED
  BY <1>1, <1>3 DEF Fails, IsHandler

(* A handler that never returns: the program is given up.                   *)
Abandons ==
    /\ GuestPc \in GuestAddresses
    /\ GuestPc' = ABANDONED /\ GuestRf' = [r \in GuestRegs |-> 0]

(* An instruction of a handler does not show to the program, unless it goes *)
(* to a handler that never returns; mret goes back to where the program was.*)
LEMMA HandlerStep ==
    ASSUME TypeOK, TypeOK', GuestInv, pc \in TrapAddresses, NEW ins \in Code(pc), Completes(ins)
    PROVE  GuestInv' /\ (UNCHANGED <<GuestPc, GuestRf>> \/ Abandons)
<1>1. /\ IsHandler(ins, pc) /\ InHandler /\ nextPc = pc /\ ~ getMie
      /\ csr["mepc"] \in GuestAddresses \ StartAddresses
      /\ pc \notin StartAddresses /\ csr["mtvec"] = TrapVector
  BY Addresses, EntryAssumption DEF GuestInv, Vectored, InHandler
<1>2. /\ csr'["mepc"] = csr["mepc"] /\ csr'["mtvec"] = TrapVector
      /\ ~ IsMret(ins) => csr'["mstatus"] = csr["mstatus"]
  BY <1>1 DEF Completes, IsHandler
<1>3. CASE IsMret(ins)
  <2>1. calculateNextPc(ins) = csr["mepc"]
    BY Zenon, <1>1, <1>3, WhereNext DEF IsHandler
  <2>2. pc' = csr["mepc"] /\ nextPc' = pc' /\ phase' = "cycle"
    BY <1>1, <2>1, Addresses, Moves DEF Completes
  <2>3. pc' \in GuestAddresses \ StartAddresses /\ pc' \notin TrapAddresses /\ pc' \notin SpinAddresses
    BY <1>1, <2>2, Addresses, GuestAssumption
  <2>4. pc \in TrapAddresses \ SpinAddresses
    BY <1>1, <1>3 DEF IsHandler
  <2>5. GuestPc = csr["mepc"] /\ GuestRf = RegsOf(rf)
    BY <2>4, GuestSees
  <2>6. GuestPc' = pc' /\ GuestRf' = RegsOf(rf)'
    BY <2>3 DEF GuestPc, GuestRf, InHandler, Spinning, RegsOf
  <2>7. ~ WritesRegister(ins)
    BY <1>3 DEF IsMret, WritesRegister, AccessesCsr
  <2>8. RegsOf(rf)' = RegsOf(rf)
    BY <2>7 DEF RegsOf, Completes
  <2>9. GuestInv'
    BY <1>2, <2>2, <2>3 DEF GuestInv, Vectored, InHandler
  <2> QED
    BY <2>2, <2>5, <2>6, <2>8, <2>9
<1>4. CASE ~ IsMret(ins)
  <2>1. /\ calculateNextPc(ins) \in TrapAddresses
        /\ pc \in SpinAddresses => calculateNextPc(ins) \in SpinAddresses
    BY Zenon, <1>1, <1>4, WhereNext DEF IsHandler
  <2>2. /\ pc' \in TrapAddresses /\ nextPc' = pc' /\ phase' = "cycle"
        /\ pc \in SpinAddresses => pc' \in SpinAddresses
    BY <2>1, Addresses, Moves DEF Completes
  <2>3. InHandler' /\ ~ getMie' /\ pc' \notin StartAddresses
    BY <1>1, <1>2, <1>4, <2>2, Addresses, EntryAssumption DEF InHandler, getMie
  <2>4. GuestInv'
    BY <1>1, <1>2, <2>2, <2>3 DEF GuestInv, Vectored
  <2>5. CASE pc \in SpinAddresses
    <3>1. /\ GuestPc = ABANDONED /\ GuestRf = [r \in GuestRegs |-> 0]
          /\ GuestPc' = ABANDONED /\ GuestRf' = [r \in GuestRegs |-> 0]
      BY <2>2, <2>5 DEF GuestPc, GuestRf, Spinning
    <3> QED
      BY <2>4, <3>1
  <2>6. CASE pc \notin SpinAddresses /\ pc' \in SpinAddresses
    <3>1. GuestPc = csr["mepc"]
      BY <2>6, GuestSees
    <3>2. GuestPc' = ABANDONED /\ GuestRf' = [r \in GuestRegs |-> 0]
      BY <2>6 DEF GuestPc, GuestRf, Spinning
    <3> QED
      BY <1>1, <2>4, <3>1, <3>2 DEF Abandons
  <2>7. CASE pc \notin SpinAddresses /\ pc' \notin SpinAddresses
    <3>1. GuestPc = csr["mepc"] /\ GuestRf = RegsOf(rf)
      BY <2>7, GuestSees
    <3>2. GuestPc' = csr'["mepc"] /\ GuestRf' = RegsOf(rf)'
      BY <2>2, <2>7 DEF GuestPc, GuestRf, InHandler, Spinning, RegsOf
    <3>3. WritesRegister(ins) => ins.rd \notin GuestRegs
      BY <1>1, <2>7 DEF IsHandler
    <3>4. RegsOf(rf)' = RegsOf(rf)
      BY <3>3 DEF RegsOf, Completes
    <3> QED
      BY <1>2, <2>4, <3>1, <3>2, <3>4
  <2> QED
    BY <2>5, <2>6, <2>7
<1> QED
  BY <1>3, <1>4

(* Every trap goes to an entry of the table that is meant for it.           *)
LEMMA TableEntry ==
    ASSUME NEW mcause \in Causes \cup {MACHINE_SOFTWARE_INTERRUPT, MACHINE_TIMER_INTERRUPT}
    PROVE  Plus(TrapVector, 4 * VectorTableOffset(mcause)) \in TrapAddresses \ SpinAddresses
<1>1. WordSize \in Nat /\ WordSize >= 8192
  BY WidthAssumption, McuAssumption
<1>2. InterruptBit \in Nat /\ InterruptBit >= 4096
  BY <1>1 DEF InterruptBit
<1>3. \A cause \in Causes : cause \in Nat /\ cause < 4096
  BY DEF Causes, INSTRUCTION_ADDRESS_MISALIGNED, ILLEGAL_INSTRUCTION,
         LOAD_ADDRESS_MISALIGNED, LOAD_ACCESS_FAULT, STORE_ADDRESS_MISALIGNED,
         STORE_ACCESS_FAULT, ECALL_FROM_M_MODE
<1>4. VectorTableOffset(mcause) \in TableEntries
  BY <1>2, <1>3 DEF VectorTableOffset, TableEntries, MACHINE_SOFTWARE_INTERRUPT,
                    MACHINE_TIMER_INTERRUPT
<1> QED
  BY <1>4, GuestAssumption

(* takeTrap in the program: it goes to a handler, with interrupts masked.   *)
LEMMA TrapEntry ==
    ASSUME TypeOK, csr["mtvec"] = TrapVector, pc \notin TrapAddresses,
           NEW mcause \in Causes \cup {MACHINE_SOFTWARE_INTERRUPT, MACHINE_TIMER_INTERRUPT},
           takeTrap(mcause), rf' = rf
    PROVE  /\ nextPc' = pc' /\ ~ getMie' /\ InHandler'
           /\ csr'["mtvec"] = TrapVector /\ pc' \notin StartAddresses
           /\ csr'["mepc"] = IF mcause = ECALL_FROM_M_MODE THEN Plus(pc, 4) ELSE pc
           /\ GuestPc' = csr'["mepc"] /\ GuestRf' = GuestRf
           /\ pc' \in TrapAddresses
<1>1. csr \in [Csrs -> Words] /\ csr["mstatus"] \in Words
  BY CsrNames DEF TypeOK
<1>2. /\ csr'["mtvec"] = TrapVector /\ csr'["mstatus"] = TrapMstatus(csr["mstatus"])
      /\ csr'["mepc"] = IF mcause = ECALL_FROM_M_MODE THEN Plus(pc, 4) ELSE pc
  BY <1>1, CsrNames DEF takeTrap
<1>3. pc' \in TrapAddresses /\ pc' \notin SpinAddresses /\ nextPc' = pc'
  BY TableEntry DEF takeTrap
<1>4. ~ getMie'
  BY <1>1, <1>2, TrapMstatusBits DEF getMie
<1>5. GuestPc' = csr'["mepc"] /\ InHandler' /\ GuestRf' = RegsOf(rf)'
  BY <1>3 DEF InHandler, GuestPc, GuestRf, Spinning, RegsOf
<1>6. GuestRf' = GuestRf
  BY <1>5, GuestSees DEF RegsOf
<1>7. pc' \notin StartAddresses
  BY <1>3, Addresses, EntryAssumption
<1> QED
  BY <1>2, <1>3, <1>4, <1>5, <1>6, <1>7

(* An interrupt is taken between two instructions of the program, behind    *)
(* the start-up code.                                                       *)
LEMMA InterruptHidden ==
    ASSUME TypeOK, GuestInv, TakeInterrupt
    PROVE  GuestInv' /\ UNCHANGED <<GuestPc, GuestRf>>
<1>1. PICK mcause \in {MACHINE_SOFTWARE_INTERRUPT, MACHINE_TIMER_INTERRUPT} : takeTrap(mcause)
  BY DEF TakeInterrupt
<1>2. mcause # ECALL_FROM_M_MODE
  BY WidthAssumption, McuAssumption
     DEF MACHINE_SOFTWARE_INTERRUPT, MACHINE_TIMER_INTERRUPT, InterruptBit, ECALL_FROM_M_MODE
<1>3. getMie /\ phase' = "execute" /\ rf' = rf
  BY DEF TakeInterrupt, SoftwareInterrupt, TimerInterrupt
<1>4. /\ pc \in GuestAddresses \ StartAddresses /\ pc \notin TrapAddresses
      /\ GuestPc = pc /\ csr["mtvec"] = TrapVector
  BY <1>3, GuestSees DEF GuestInv, Vectored, InHandler
<1>5. /\ nextPc' = pc' /\ ~ getMie' /\ InHandler'
      /\ csr'["mtvec"] = TrapVector /\ pc' \notin StartAddresses
      /\ csr'["mepc"] = pc
      /\ GuestPc' = csr'["mepc"] /\ GuestRf' = GuestRf
      /\ pc' \in TrapAddresses
  BY <1>1, <1>2, <1>3, <1>4, TrapEntry
<1>6. GuestInv'
  BY <1>3, <1>4, <1>5 DEF GuestInv, Vectored
<1> QED
  BY <1>4, <1>5, <1>6

(* An exception other than ECALL leaves the program at the instruction that *)
(* raised it; an ECALL is an instruction executed by its trap.              *)
LEMMA ExceptionHidden ==
    ASSUME TypeOK, GuestInv, TakeException
    PROVE  /\ GuestInv'
           /\ \/ UNCHANGED <<GuestPc, GuestRf>>
              \/ \E ins \in Code(pc) : GuestPc = pc /\ pc \in GuestAddresses /\ GuestExecutes(ins)
<1>1. /\ phase = "trap" /\ takeTrap(exceptionCode) /\ phase' = "vector" /\ rf' = rf
      /\ exceptionCode \in Causes
  BY DEF TakeException, TypeOK
<1>2. /\ pc \in GuestAddresses \ StartAddresses /\ pc \notin TrapAddresses
      /\ csr["mtvec"] = TrapVector
      /\ exceptionCode = ECALL_FROM_M_MODE => \E ins \in Code(pc) : IsEcall(ins)
  BY <1>1, Addresses DEF GuestInv, Vectored
<1>3. GuestPc = pc
  BY <1>2, GuestSees
<1>4. /\ nextPc' = pc' /\ ~ getMie' /\ InHandler'
      /\ csr'["mtvec"] = TrapVector /\ pc' \notin StartAddresses
      /\ csr'["mepc"] = IF exceptionCode = ECALL_FROM_M_MODE THEN Plus(pc, 4) ELSE pc
      /\ GuestPc' = csr'["mepc"] /\ GuestRf' = GuestRf
      /\ pc' \in TrapAddresses
  BY <1>1, <1>2, TrapEntry
<1>5. ASSUME csr'["mepc"] \in GuestAddresses \ StartAddresses
      PROVE  GuestInv'
  BY <1>1, <1>4, <1>5 DEF GuestInv, Vectored
<1>6. CASE exceptionCode # ECALL_FROM_M_MODE
  BY <1>2, <1>3, <1>4, <1>5, <1>6
<1>7. CASE exceptionCode = ECALL_FROM_M_MODE
  <2>1. PICK ins \in Code(pc) : IsEcall(ins)
    BY <1>2, <1>7
  <2>2. IsGuest(ins, pc)
    BY <1>2, <2>1, Addresses
  <2>3. /\ Successors(ins, pc) = {Plus(pc, 4)} /\ ~ WritesRegister(ins)
        /\ GuestTarget(ins, pc, GuestRf) = Plus(pc, 4)
    BY <2>1 DEF IsEcall, Successors, GuestTarget, WritesRegister, AccessesCsr
  <2>4. Plus(pc, 4) \in GuestAddresses \ StartAddresses
    BY <1>2, <2>2, <2>3 DEF IsGuest
  <2>5. GuestExecutes(ins)
    BY <1>3, <1>4, <1>7, <2>3 DEF GuestExecutes, GuestResults
  <2> QED
    BY <1>2, <1>3, <1>4, <1>5, <1>7, <2>4, <2>5
<1> QED
  BY <1>6, <1>7

(* The clock and a check that finds no interrupt do not show.               *)
LEMMA ClockHidden ==
    ASSUME TypeOK, GuestInv, NextCycle \/ NoInterrupt \/ UNCHANGED vars
    PROVE  GuestInv' /\ UNCHANGED <<GuestPc, GuestRf>>
<1>1. /\ UNCHANGED <<pc, nextPc, rf>>
      /\ \A c \in {"mstatus", "mepc", "mtvec"} : csr'[c] = csr[c]
      /\ UNCHANGED <<phase, exceptionCode>> \/ phase' \in {"check", "execute"}
  BY CsrNames DEF NextCycle, NoInterrupt, machine, vars, TypeOK
<1>2. UNCHANGED <<GuestPc, GuestRf>> /\ (InHandler' <=> InHandler) /\ (getMie' <=> getMie)
  BY <1>1 DEF GuestPc, GuestRf, InHandler, Spinning, getMie
<1>3. Vectored'
  BY <1>1, <1>2 DEF GuestInv, Vectored
<1> QED
  BY <1>1, <1>2, <1>3 DEF GuestInv, InHandler

(* What a step of the processor is to the program: nothing, one of its      *)
(* instructions, or the end of it.                                          *)
ToTheGuest ==
    \/ UNCHANGED <<GuestPc, GuestRf>>
    \/ \E ins \in Code(pc) : GuestPc = pc /\ pc \in GuestAddresses /\ GuestExecutes(ins)
    \/ Abandons

LEMMA GuestStepOrHidden ==
    ASSUME TypeOK, TypeOK', GuestInv, ReturnsInside, [Next]_vars
    PROVE  GuestInv' /\ ToTheGuest
<1>1. CASE NextCycle \/ NoInterrupt \/ UNCHANGED vars
  BY <1>1, ClockHidden DEF ToTheGuest
<1>2. CASE TakeInterrupt
  BY <1>2, InterruptHidden DEF ToTheGuest
<1>3. CASE TakeException
  BY Zenon, <1>3, ExceptionHidden DEF ToTheGuest
<1>4. CASE FetchFault
  BY <1>4, GuestFetchFault DEF ToTheGuest
<1>5. ASSUME NEW ins \in Code(pc),
             \/ Lui(ins) \/ Auipc(ins) \/ Jump(ins) \/ Branch(ins) \/ Arithmetic(ins)
             \/ Load(ins) \/ LoadFault(ins) \/ Store(ins) \/ StoreFault(ins)
             \/ Csrrw(ins) \/ Csrrs(ins) \/ Csrrc(ins)
             \/ Mret(ins) \/ Ecall(ins) \/ PrivNop(ins) \/ IllegalInstruction(ins)
      PROVE  GuestInv' /\ ToTheGuest
  <2>1. ins \in Instructions
    BY McuAssumption DEF TypeOK
  <2>2. CASE pc \in GuestAddresses
    <3>1. GuestPc = pc
      BY <2>2, Addresses, GuestSees
    <3>2. Completes(ins) \/ Fails(ins)
      BY Zenon, <1>5, <2>1, OneInstruction
    <3>3. CASE Completes(ins)
      BY Zenon, <2>2, <3>1, <3>3, GuestStep DEF ToTheGuest
    <3>4. CASE Fails(ins)
      BY Zenon, <2>2, <3>4, GuestFails DEF ToTheGuest
    <3> QED
      BY <3>2, <3>3, <3>4
  <2>3. CASE pc \in TrapAddresses
    <3>1. Completes(ins)
      BY Zenon, <1>5, <2>1, <2>3, OneInstruction, HandlerNeverFails
    <3> QED
      BY Zenon, <2>3, <3>1, HandlerStep DEF ToTheGuest
  <2> QED
    BY <2>2, <2>3 DEF GuestInv
<1> QED
  BY Zenon, <1>1, <1>2, <1>3, <1>4, <1>5 DEF Next, ExecuteInstruction

LEMMA GuestStart == Init => GuestInv /\ Guest!Init
<1> SUFFICES ASSUME Init PROVE GuestInv /\ Guest!Init
  OBVIOUS
<1>1. /\ EntryPc \in GuestAddresses /\ EntryPc \in StartAddresses /\ EntryPc \notin TrapAddresses
      /\ [r \in GuestRegs |-> 0] \in StartRegs[EntryPc]
  BY Zenon, Addresses, EntryAssumption
<1>2. /\ pc = EntryPc /\ nextPc = EntryPc /\ phase = "cycle"
      /\ \A r \in GuestRegs : rf[r] = 0
  BY GuestAssumption DEF Init
<1>3. ~ getMie
  BY BitsAssumption, CsrNames DEF Init, getMie
<1>4. GuestPc = EntryPc /\ GuestRf = [r \in GuestRegs |-> 0]
  <2>1. GuestPc = pc /\ GuestRf = RegsOf(rf)
    BY Zenon, <1>1, <1>2, GuestSees
  <2>2. RegsOf(rf) = [r \in GuestRegs |-> 0]
    BY <1>2 DEF RegsOf
  <2> QED
    BY <1>2, <2>1, <2>2
<1>5. GuestInv
  BY <1>1, <1>2, <1>3, <1>4 DEF GuestInv, Vectored, InHandler
<1> QED
  BY <1>4, <1>5 DEF Guest!Init

(* What makes traps transparent is preserved by every step: in a handler    *)
(* interrupts are masked and mepc is where the program is; in the start-up  *)
(* code, before csrw mtvec, nothing can trap.                               *)
THEOREM GuestInductive == Spec /\ []ReturnsInside => []GuestInv
<1>1. TypeOK /\ TypeOK' /\ GuestInv /\ ReturnsInside /\ [Next]_vars => GuestInv'
  BY GuestStepOrHidden
<1> QED
  BY <1>1, GuestStart, TypeCorrect, PTL DEF Spec

(* "This exception should never be reached": no trap goes to an entry of    *)
(* the vector table that has no handler.                                    *)
THEOREM ReservedNeverReachedThm == Spec /\ []ReturnsInside => []ReservedNeverReached
<1>1. GuestInv => ReservedNeverReached
  BY GuestAssumption DEF GuestInv, ReservedNeverReached
<1> QED
  BY <1>1, GuestInductive, PTL

(* Traps are transparent: the processor, with interrupts, exceptions and    *)
(* handlers, implements the machine that only executes the program, until a *)
(* handler that never returns has it.                                       *)
THEOREM GuestUndisturbedThm == Spec /\ []ReturnsInside => GuestUndisturbed
<1>1. TypeOK /\ TypeOK' /\ GuestInv /\ ReturnsInside /\ [Next]_vars => [Guest!Next]_<<GuestPc, GuestRf>>
  <2> SUFFICES ASSUME TypeOK, TypeOK', GuestInv, ReturnsInside, [Next]_vars
               PROVE  [Guest!Next]_<<GuestPc, GuestRf>>
    OBVIOUS
  <2>1. ToTheGuest
    BY GuestStepOrHidden
  <2>2. ASSUME NEW ins \in Code(pc), GuestPc = pc, pc \in GuestAddresses, GuestExecutes(ins)
        PROVE  Guest!Step
    <3>1. GuestPc \in DOMAIN GuestProgram /\ ins \in GuestProgram[GuestPc]
      BY <2>2 DEF GuestProgram
    <3> QED
      BY <2>2, <3>1 DEF Guest!Step, GuestExecutes
  <2>3. ASSUME Abandons
        PROVE  Guest!Abandon
    BY <2>3 DEF Abandons, Guest!Abandon, GuestProgram
  <2> QED
    BY <2>1, <2>2, <2>3 DEF ToTheGuest, Guest!Next
<1> QED
  BY <1>1, GuestStart, GuestInductive, TypeCorrect, PTL DEF Spec, GuestUndisturbed, Guest!Spec
=============================================================================
