-------------------------------- MODULE Mcu ---------------------------------
(***************************************************************************)
(* The processor: Mcu::nextInstruction with everything it calls (the       *)
(* CLINT's nextCycle and checkInterrupts, Trap::takeTrap,                  *)
(* Mcu::executeInstruction, NextPc, Csr and RegisterFile).                 *)
(*                                                                         *)
(* One call of nextInstruction is a walk through the phases                *)
(*                                                                         *)
(*   cycle --> check --> execute --> cycle             (no exception)      *)
(*                          |                                              *)
(*                          +--> trap --> vector --> cycle                 *)
(*                                                                         *)
(* check takes a pending interrupt, trap takes the exception that          *)
(* executeInstruction returned, and vector is the second call of           *)
(* executeInstruction, whose return code is thrown away.                   *)
(*                                                                         *)
(* The guest program is a parameter: Code(a) is the set of instructions    *)
(* that a fetch at address a may find.  A singleton everywhere is one      *)
(* fixed program; a larger set stands for any program built from these     *)
(* instructions, one that rewrites itself included.  The contents of ROM,  *)
(* RAM and video memory are not kept: a load from them delivers any member *)
(* of DataWords.  The CLINT's registers are kept, because the processor    *)
(* reads them itself.                                                      *)
(***************************************************************************)
EXTENDS Alu, Bus

CONSTANTS
    NRegs,      \* number of registers of the register file (32)
    OtherCsrs,  \* CSR addresses that only CSR instructions touch
    ClintSize,  \* number of values of a word of the CLINT (WordSize)
    DataWords,  \* what a load from ROM, RAM or video memory may deliver
    Code(_),    \* Code(a): the instructions that may be found at address a
    EntryPc     \* the entry point of the ELF file

Regs == 0 .. NRegs - 1
Csrs == {"mstatus", "mtvec", "mie", "mip", "mcause", "mepc"} \cup OtherCsrs

Opcodes == {"LUI", "AUIPC", "JAL", "JALR", "BTYPE", "LOAD", "STORE",
            "ITYPE", "RTYPE", "PRIV"}

(* A decoded instruction: the fields that executeInstruction extracts.      *)
Instructions ==
    [opcode : Opcodes \cup {"unknown"}, funct3 : 0 .. 7, funct7 : 0 .. 127,
     rd : Regs, rs1 : Regs, rs2 : Regs, imm : Words, csr : Csrs]

ECALL_IMM == 0
MRET_IMM == 770

(* Offsets of the words of the CLINT.                                       *)
MCYCLE_OFFSET == 0
MTIMECMP_OFFSET == 8
KEYBOARD_OFFSET == 16
MSIP_OFFSET == 20
ClintOffsets == {0, 4, 8, 12, KEYBOARD_OFFSET, MSIP_OFFSET}
ClintWords == 0 .. ClintSize - 1

(* Bits of mstatus, mie and mip.                                            *)
MIE_BIT == 3
MPIE_BIT == 7
MPP_BITS == {11, 12}
MSI_BIT == 3
MTI_BIT == 7

(* Bit 31 of mcause, 0x80000000 in the code, tells interrupts apart.        *)
InterruptBit == WordSize \div 2
MACHINE_SOFTWARE_INTERRUPT == InterruptBit + 3
MACHINE_TIMER_INTERRUPT == InterruptBit + 7

ASSUME McuAssumption ==
    /\ XLEN >= 13
    /\ WordSize >= 8192 /\ WordSize % 4 = 0
    /\ NRegs \in Nat \ {0}
    /\ ClintSize \in 2 .. WordSize
    /\ DataWords \subseteq Words /\ DataWords # {}
    /\ EntryPc \in Words
    /\ \A a \in Words : Code(a) \subseteq Instructions
    /\ \A i \in DOMAIN Devices : Devices[i].kind = "clint" => Devices[i].base % 4 = 0

Causes == {INSTRUCTION_ADDRESS_MISALIGNED, ILLEGAL_INSTRUCTION,
           LOAD_ADDRESS_MISALIGNED, LOAD_ACCESS_FAULT,
           STORE_ADDRESS_MISALIGNED, STORE_ACCESS_FAULT, ECALL_FROM_M_MODE}

Phases == {"cycle", "check", "execute", "trap", "vector"}
Executing == {"execute", "vector"}

VARIABLES
    phase,          \* where nextInstruction is
    pc,             \* ProgramCounter::pc
    nextPc,         \* NextPc::nextPc
    rf,             \* RegisterFile::registers
    csr,            \* Csr::registers
    clint,          \* the words of the CLINT's memory, by offset
    exceptionCode   \* what executeInstruction returned, between the two phases

vars == <<phase, pc, nextPc, rf, csr, clint, exceptionCode>>
machine == <<pc, nextPc, rf, csr, clint>>

(* Mcu::Mcu: all memories and registers are zero-initialised.               *)
Init ==
    /\ phase = "cycle"
    /\ pc = EntryPc
    /\ nextPc = EntryPc
    /\ rf = [r \in Regs |-> 0]
    /\ csr = [c \in Csrs |-> 0]
    /\ clint = [o \in ClintOffsets |-> 0]
    /\ exceptionCode = STATUS_OK

-----------------------------------------------------------------------------
(* Csr and RegisterFile.                                                    *)

SetBits(w, S) == WordOf(Bits(w) \cup S)
ResetBit(w, i) == WordOf(Bits(w) \ {i})

getMie == MIE_BIT \in Bits(csr["mstatus"])
getMpie == MPIE_BIT \in Bits(csr["mstatus"])
getMtie == MTI_BIT \in Bits(csr["mie"])
getMsie == MSI_BIT \in Bits(csr["mie"])
getMtip == MTI_BIT \in Bits(csr["mip"])
getMsip == MSI_BIT \in Bits(csr["mip"])

(* Definitions named Bug... are plausible mistakes, not the code: they are  *)
(* never used here, and are there to see which property each would break.   *)
BugX0Written(data, reg) == [rf EXCEPT ![reg] = data]

(* RegisterFile::write: x0 stays 0.                                         *)
RfWrite(data, reg) == [rf EXCEPT ![reg] = IF reg # 0 THEN data ELSE 0]

-----------------------------------------------------------------------------
(* The CLINT.                                                               *)

(* mcycle >= mtimecmp, both 64 bits wide in two words, low word first.      *)
TimerExpired(c) ==
    \/ c[MCYCLE_OFFSET + 4] > c[MTIMECMP_OFFSET + 4]
    \/ /\ c[MCYCLE_OFFSET + 4] = c[MTIMECMP_OFFSET + 4]
       /\ c[MCYCLE_OFFSET] >= c[MTIMECMP_OFFSET]

(* mcycle + 1, with the carry into the high word.                           *)
Tick(c) ==
    [c EXCEPT
        ![MCYCLE_OFFSET] = (@ + 1) % ClintSize,
        ![MCYCLE_OFFSET + 4] =
            IF c[MCYCLE_OFFSET] + 1 = ClintSize THEN (@ + 1) % ClintSize ELSE @]

BugTimerStaysPending(mip, c) == IF TimerExpired(c) THEN SetBits(mip, {MTI_BIT}) ELSE mip

(* mip after nextCycle: MTIP follows the comparator, MSIP is only ever set. *)
PendingBits(mip, c) ==
    LET timer == IF TimerExpired(c) THEN SetBits(mip, {MTI_BIT})
                                    ELSE ResetBit(mip, MTI_BIT)
    IN  IF c[MSIP_OFFSET] = 1 THEN SetBits(timer, {MSI_BIT}) ELSE timer

(* ClintMemoryDevice::nextCycle, the first thing nextInstruction does.      *)
NextCycle ==
    /\ phase = "cycle"
    /\ clint' = Tick(clint)
    /\ csr' = [csr EXCEPT !["mip"] = PendingBits(@, Tick(clint))]
    /\ phase' = "check"
    /\ UNCHANGED <<pc, nextPc, rf, exceptionCode>>

BugSoftwareFromMip == getMie /\ getMsip /\ getMsie

(* ClintMemoryDevice::checkInterrupts: the interrupts it would report, in   *)
(* the order of its two tests, software first.                              *)
SoftwareInterrupt == getMie /\ clint[MSIP_OFFSET] = 1 /\ getMsie
TimerInterrupt == getMie /\ ~ SoftwareInterrupt /\ getMtip /\ getMtie

-----------------------------------------------------------------------------
(* Trap::takeTrap.                                                          *)

BugTableStartsAtOne(mcause) ==
    IF mcause >= InterruptBit THEN mcause - InterruptBit - 1 ELSE 15 + mcause

(* The entry of the vector table: 16 interrupts, then the exceptions.       *)
VectorTableOffset(mcause) ==
    IF mcause >= InterruptBit THEN mcause - InterruptBit ELSE 16 + mcause

(* MIE is copied to MPIE when it is set (and MPIE left alone when not).     *)
TrapMstatus(mstatus) ==
    LET saved == IF MIE_BIT \in Bits(mstatus) THEN SetBits(mstatus, {MPIE_BIT})
                                              ELSE mstatus
    IN  SetBits(ResetBit(saved, MIE_BIT), MPP_BITS)

BugTrapForgetsNextPc(mcause) ==
    /\ csr' = [csr EXCEPT !["mepc"] = pc, !["mcause"] = mcause,
                          !["mstatus"] = TrapMstatus(@)]
    /\ pc' = Plus(csr["mtvec"], 4 * VectorTableOffset(mcause))
    /\ UNCHANGED nextPc

BugMepcIsNext(mcause) ==
    LET target == Plus(csr["mtvec"], 4 * VectorTableOffset(mcause))
    IN  /\ csr' = [csr EXCEPT !["mepc"] = Plus(pc, 4), !["mcause"] = mcause,
                              !["mstatus"] = TrapMstatus(@)]
        /\ nextPc' = target
        /\ pc' = target

takeTrap(mcause) ==
    LET target == Plus(csr["mtvec"], 4 * VectorTableOffset(mcause))
    IN  /\ csr' = [csr EXCEPT
                     !["mepc"] = IF mcause = ECALL_FROM_M_MODE THEN Plus(pc, 4) ELSE pc,
                     !["mcause"] = mcause,
                     !["mstatus"] = TrapMstatus(@)]
        /\ nextPc' = target
        /\ pc' = target

(* The interrupt branch of nextInstruction.                                 *)
NoInterrupt ==
    /\ phase = "check"
    /\ ~ SoftwareInterrupt /\ ~ TimerInterrupt
    /\ phase' = "execute"
    /\ UNCHANGED <<machine, exceptionCode>>

TakeInterrupt ==
    /\ phase = "check"
    /\ \/ SoftwareInterrupt /\ takeTrap(MACHINE_SOFTWARE_INTERRUPT)
       \/ TimerInterrupt /\ takeTrap(MACHINE_TIMER_INTERRUPT)
    /\ phase' = "execute"
    /\ UNCHANGED <<rf, clint, exceptionCode>>

(* The exception branch of nextInstruction.                                 *)
TakeException ==
    /\ phase = "trap"
    /\ takeTrap(exceptionCode)
    /\ phase' = "vector"
    /\ exceptionCode' = STATUS_OK
    /\ UNCHANGED <<rf, clint>>

-----------------------------------------------------------------------------
(* Mcu::executeInstruction.                                                 *)

BugRaiseAgain(code) == phase' = "trap" /\ exceptionCode' = code

(* Return with a code other than STATUS_OK: nextInstruction takes the trap  *)
(* after the first call and ignores the code of the second.                 *)
Raise(code) ==
    IF phase = "execute"
    THEN phase' = "trap" /\ exceptionCode' = code
    ELSE phase' = "cycle" /\ exceptionCode' = STATUS_OK

(* NextPc::calculateNextPc, up to its alignment test.  JAL and branches are *)
(* relative to nextPc, not to pc.                                           *)
calculateNextPc(ins) ==
    CASE ins.opcode = "JAL" -> Plus(nextPc, ins.imm)
      [] ins.opcode = "JALR" -> Plus(rf[ins.rs1], ins.imm)
      [] ins.opcode = "BTYPE" ->
            Plus(nextPc, IF branchAlu(rf[ins.rs1], rf[ins.rs2], ins.funct3)
                         THEN ins.imm ELSE 4)
      [] ins.opcode = "PRIV" /\ ins.funct3 = 0 /\ ins.imm = MRET_IMM -> csr["mepc"]
      [] OTHER -> Plus(nextPc, 4)

(* The end of calculateNextPc and of executeInstruction.  A misaligned      *)
(* target stays in nextPc although pc does not follow.                      *)
Advance(ins) ==
    LET target == calculateNextPc(ins)
    IN  /\ nextPc' = target
        /\ IF target % 4 # 0
           THEN pc' = pc /\ Raise(INSTRUCTION_ADDRESS_MISALIGNED)
           ELSE pc' = target /\ phase' = "cycle" /\ exceptionCode' = STATUS_OK

(* The fetch stage, which reads a whole word at pc.                         *)
Fetched(ins, opcode) ==
    /\ ins.opcode = opcode
    /\ phase \in Executing
    /\ ReadStatus(pc, WORD) = STATUS_OK

FetchFault ==
    /\ phase \in Executing
    /\ ReadStatus(pc, WORD) # STATUS_OK
    /\ Raise(ReadStatus(pc, WORD))
    /\ UNCHANGED machine

Lui(ins) ==
    /\ Fetched(ins, "LUI")
    /\ rf' = RfWrite(ins.imm, ins.rd)
    /\ Advance(ins)
    /\ UNCHANGED <<csr, clint>>

Auipc(ins) ==
    /\ Fetched(ins, "AUIPC")
    /\ rf' = RfWrite(Plus(pc, ins.imm), ins.rd)
    /\ Advance(ins)
    /\ UNCHANGED <<csr, clint>>

(* JAL and JALR write the link register before the target is checked.       *)
Jump(ins) ==
    /\ Fetched(ins, "JAL") \/ Fetched(ins, "JALR")
    /\ rf' = RfWrite(Plus(pc, 4), ins.rd)
    /\ Advance(ins)
    /\ UNCHANGED <<csr, clint>>

Branch(ins) ==
    /\ Fetched(ins, "BTYPE")
    /\ Advance(ins)
    /\ UNCHANGED <<rf, csr, clint>>

Arithmetic(ins) ==
    /\ \/ Fetched(ins, "ITYPE") /\ rf' \in
             {RfWrite(v, ins.rd) :
                v \in execute(rf[ins.rs1], ins.imm,
                              getAluOperation("ITYPE", ins.funct7, ins.funct3))}
       \/ Fetched(ins, "RTYPE") /\ rf' \in
             {RfWrite(v, ins.rd) :
                v \in execute(rf[ins.rs1], rf[ins.rs2],
                              getAluOperation("RTYPE", ins.funct7, ins.funct3))}
    /\ Advance(ins)
    /\ UNCHANGED <<csr, clint>>

-----------------------------------------------------------------------------
(* Loads and stores.                                                        *)

EffectiveAddress(ins) == Plus(rf[ins.rs1], ins.imm)

OnClint(addr) == Devices[DeviceAt(addr)].kind = "clint" /\ Offset(addr) < 24

(* What Bus::read may leave in readValue.  An access of no size (a funct3   *)
(* that names no load) leaves the uninitialised local as it was.            *)
Loaded(addr, size) ==
    IF OnClint(addr) /\ size = WORD THEN {clint[Offset(addr)]} ELSE DataWords

(* The CLINT after Bus::write.  Part of a word gets any value; an access of *)
(* no size writes nothing.                                                  *)
Stored(addr, size, value) ==
    IF ~ OnClint(addr) \/ size = 0 THEN {clint}
    ELSE IF size = WORD THEN {[clint EXCEPT ![Offset(addr)] = value % ClintSize]}
    ELSE {[clint EXCEPT ![Offset(addr) - (Offset(addr) % 4)] = v] : v \in ClintWords}

Load(ins) ==
    LET addr == EffectiveAddress(ins)
        size == getMemSize(ins.funct3)
    IN  /\ Fetched(ins, "LOAD")
        /\ ReadStatus(addr, size) = STATUS_OK
        /\ \E readValue \in Loaded(addr, size) : rf' = RfWrite(readValue, ins.rd)
        /\ Advance(ins)
        /\ UNCHANGED <<csr, clint>>

BugLoadFaultWritesRd(ins) ==
    LET status == ReadStatus(EffectiveAddress(ins), getMemSize(ins.funct3))
    IN  /\ Fetched(ins, "LOAD")
        /\ status # STATUS_OK
        /\ rf' = RfWrite(0, ins.rd)
        /\ Raise(status)
        /\ UNCHANGED <<pc, nextPc, csr, clint>>

LoadFault(ins) ==
    LET status == ReadStatus(EffectiveAddress(ins), getMemSize(ins.funct3))
    IN  /\ Fetched(ins, "LOAD")
        /\ status # STATUS_OK
        /\ Raise(status)
        /\ UNCHANGED machine

Store(ins) ==
    LET addr == EffectiveAddress(ins)
        size == getMemSize(ins.funct3)
    IN  /\ Fetched(ins, "STORE")
        /\ WriteStatus(addr, size) = STATUS_OK
        /\ clint' \in Stored(addr, size, rf[ins.rs2])
        /\ Advance(ins)
        /\ UNCHANGED <<rf, csr>>

StoreFault(ins) ==
    LET status == WriteStatus(EffectiveAddress(ins), getMemSize(ins.funct3))
    IN  /\ Fetched(ins, "STORE")
        /\ status # STATUS_OK
        /\ Raise(status)
        /\ UNCHANGED machine

-----------------------------------------------------------------------------
(* The PRIV opcode.                                                         *)

(* CSRRW, CSRRS and CSRRC write rd first and read rs1 after it; CSRRC masks *)
(* with the logical negation of rs1.                                        *)
Csrrw(ins) ==
    LET rf1 == RfWrite(csr[ins.csr], ins.rd)
    IN  /\ Fetched(ins, "PRIV") /\ ins.funct3 = 1
        /\ rf' = rf1
        /\ csr' = [csr EXCEPT ![ins.csr] = rf1[ins.rs1]]
        /\ Advance(ins)
        /\ UNCHANGED clint

Csrrs(ins) ==
    LET rf1 == RfWrite(csr[ins.csr], ins.rd)
    IN  /\ Fetched(ins, "PRIV") /\ ins.funct3 = 2
        /\ rf' = rf1
        /\ csr' = [csr EXCEPT ![ins.csr] =
                      IF ins.rs1 # 0 THEN BitOr(rf1[ins.rs1], @) ELSE @]
        /\ Advance(ins)
        /\ UNCHANGED clint

Csrrc(ins) ==
    LET rf1 == RfWrite(csr[ins.csr], ins.rd)
    IN  /\ Fetched(ins, "PRIV") /\ ins.funct3 = 3
        /\ rf' = rf1
        /\ csr' = [csr EXCEPT ![ins.csr] =
                      IF ins.rs1 # 0 THEN BitAnd(LogicalNot(rf1[ins.rs1]), @) ELSE @]
        /\ Advance(ins)
        /\ UNCHANGED clint

BugMretAlwaysEnables(mstatus) == SetBits(mstatus, {MIE_BIT, MPIE_BIT} \cup MPP_BITS)
BugMretLeavesMie(mstatus) == SetBits(mstatus, {MPIE_BIT} \cup MPP_BITS)
BugMretClearsMpie(mstatus) ==
    ResetBit(SetBits(IF MPIE_BIT \in Bits(mstatus) THEN SetBits(mstatus, {MIE_BIT})
                     ELSE mstatus, MPP_BITS), MPIE_BIT)

(* MIE is set when MPIE is; a clear MPIE leaves MIE as it is.               *)
MretMstatus(mstatus) ==
    SetBits(IF MPIE_BIT \in Bits(mstatus) THEN SetBits(mstatus, {MIE_BIT}) ELSE mstatus,
            {MPIE_BIT} \cup MPP_BITS)

Mret(ins) ==
    /\ Fetched(ins, "PRIV") /\ ins.funct3 = 0 /\ ins.imm = MRET_IMM
    /\ csr' = [csr EXCEPT !["mstatus"] = MretMstatus(@)]
    /\ Advance(ins)
    /\ UNCHANGED <<rf, clint>>

Ecall(ins) ==
    /\ Fetched(ins, "PRIV") /\ ins.funct3 = 0 /\ ins.imm = ECALL_IMM
    /\ Raise(ECALL_FROM_M_MODE)
    /\ UNCHANGED machine

(* WFI, EBREAK and the immediate CSR instructions do nothing.               *)
PrivNop(ins) ==
    /\ Fetched(ins, "PRIV")
    /\ \/ ins.funct3 = 0 /\ ins.imm \notin {MRET_IMM, ECALL_IMM}
       \/ ins.funct3 \in 4 .. 7
    /\ Advance(ins)
    /\ UNCHANGED <<rf, csr, clint>>

IllegalInstruction(ins) ==
    /\ Fetched(ins, "unknown")
    /\ Raise(ILLEGAL_INSTRUCTION)
    /\ UNCHANGED machine

ExecuteInstruction ==
    \/ FetchFault
    \/ \E ins \in Code(pc) :
         \/ Lui(ins) \/ Auipc(ins) \/ Jump(ins) \/ Branch(ins) \/ Arithmetic(ins)
         \/ Load(ins) \/ LoadFault(ins) \/ Store(ins) \/ StoreFault(ins)
         \/ Csrrw(ins) \/ Csrrs(ins) \/ Csrrc(ins)
         \/ Mret(ins) \/ Ecall(ins) \/ PrivNop(ins) \/ IllegalInstruction(ins)

Next ==
    \/ NextCycle
    \/ NoInterrupt
    \/ TakeInterrupt
    \/ ExecuteInstruction
    \/ TakeException

Spec == Init /\ [][Next]_vars

(* McuDebug calls nextInstruction in a loop and a call always returns.      *)
FairSpec == Spec /\ WF_vars(Next)

-----------------------------------------------------------------------------
(* Properties.                                                              *)

(* Types of the state; a code is kept exactly between executeInstruction    *)
(* and takeTrap, and register x0 is 0 whatever instruction names it as rd.  *)
TypeOK ==
    /\ phase \in Phases
    /\ pc \in Words
    /\ nextPc \in Words
    /\ rf \in [Regs -> Words] /\ rf[0] = 0
    /\ csr \in [Csrs -> Words]
    /\ clint \in [ClintOffsets -> ClintWords]
    /\ IF phase = "trap" THEN exceptionCode \in Causes ELSE exceptionCode = STATUS_OK

(* pc and nextPc are two copies of the program counter, and jumps are       *)
(* relative to the second.  They part only when a misaligned target was     *)
(* refused: nextPc then still holds that target.  (The refusal is lost when *)
(* it happens in the second executeInstruction of nextInstruction.)         *)
NextPcFollowsPc ==
    /\ nextPc # pc => nextPc % 4 # 0
    /\ phase = "vector" => nextPc = pc

(* From nextCycle to the end of the instruction mip.MTIP is the comparator  *)
(* mcycle >= mtimecmp, whatever the guest wrote to mip or the CLINT before. *)
TimerPendingIsComparator ==
    phase \in {"check", "execute"} => (getMtip <=> TimerExpired(clint))

(* An interrupt is due: enabled, and asserted by the CLINT's own memory.    *)
InterruptDue ==
    /\ getMie
    /\ \/ getMsie /\ clint[MSIP_OFFSET] = 1
       \/ getMtie /\ TimerExpired(clint)

(* checkInterrupts and takeTrap: an interrupt is taken exactly when one is  *)
(* due by the device's memory (never on a stale mip bit, never missed); it  *)
(* saves the pc of the instruction not yet executed, masks interrupts,      *)
(* records a cause that was due and software interrupts go first.           *)
InterruptStep ==
    phase = "check" =>
        /\ InterruptDue <=> csr' # csr
        /\ InterruptDue =>
              /\ csr'["mepc"] = pc
              /\ ~ getMie' /\ getMpie'
              /\ csr'["mcause"] = IF getMsie /\ clint[MSIP_OFFSET] = 1
                                  THEN MACHINE_SOFTWARE_INTERRUPT
                                  ELSE MACHINE_TIMER_INTERRUPT
InterruptsExact == [][InterruptStep]_vars

(* Precise exceptions: an instruction that traps has changed nothing, with  *)
(* the exception of a misaligned target (link register and nextPc are       *)
(* already written), and in every case pc, which becomes mepc, is still the *)
(* instruction's own and the CLINT is untouched unless nextPc was already   *)
(* out of step.                                                             *)
PreciseStep ==
    phase' = "trap" =>
        /\ pc' = pc
        /\ exceptionCode' # INSTRUCTION_ADDRESS_MISALIGNED => UNCHANGED machine
        /\ nextPc = pc => UNCHANGED clint
PreciseExceptions == [][PreciseStep]_vars

(* Interrupts become enabled only by the guest's own doing: an mret with    *)
(* MPIE set, or a CSR instruction on mstatus; never by the trap logic.      *)
EnableStep ==
    ~ getMie /\ getMie' =>
        \E ins \in Code(pc) :
            \/ Mret(ins) /\ getMpie
            \/ ins.csr = "mstatus" /\ (Csrrw(ins) \/ Csrrs(ins) \/ Csrrc(ins))
EnabledOnlyByGuest == [][EnableStep]_vars

(* A call of nextInstruction that raises an exception returns, even when    *)
(* the entry of the vector table faults as well.                            *)
ExceptionsAreHandled == phase = "trap" ~> phase = "cycle"
=============================================================================
