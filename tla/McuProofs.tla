----------------------------- MODULE McuProofs ------------------------------
(***************************************************************************)
(* Proofs about the processor, alone and with the history of its traps,    *)
(* for every width, every memory map, every guest program and every number *)
(* of registers.                                                           *)
(***************************************************************************)
EXTENDS McuNesting, Induction, SequenceTheorems

(* The loop of Bus::read finds a device exactly when one claims the         *)
(* address, and it is the first that does.                                  *)
LEMMA DeviceAtIsFirst ==
    ASSUME NEW addr, Attached(addr)
    PROVE  /\ DeviceAt(addr) \in DOMAIN Devices
           /\ Claims(DeviceAt(addr), addr)
           /\ \A j \in 1 .. DeviceAt(addr) - 1 : ~ Claims(j, addr)
<1>1. PICK n \in Nat : DOMAIN Devices = 1 .. n
  BY DevicesAssumption
<1> DEFINE S == {k \in 1 .. n : Claims(k, addr)}
<1>2. S \in SUBSET Nat /\ S # {}
  BY <1>1 DEF Attached
<1>3. PICK i \in S : \A j \in S : i <= j
  BY <1>2, LeastElement
<1>4. i \in DOMAIN Devices /\ Claims(i, addr)
  BY <1>1, <1>3
<1>5. \A j \in 1 .. i - 1 : ~ Claims(j, addr)
  BY <1>1, <1>3
<1> QED
  BY <1>4, <1>5 DEF DeviceAt

(* Base addresses are words and sizes are positive.                         *)
LEMMA DeviceType ==
    ASSUME NEW i \in DOMAIN Devices
    PROVE  /\ Devices[i].base \in Nat
           /\ Devices[i].size \in Nat \ {0}
           /\ Devices[i].kind \in DeviceKinds
<1> DEFINE Device == [kind : DeviceKinds, base : Words, size : Nat \ {0}]
<1>1. Devices \in Seq(Device)
  BY DevicesAssumption
<1>2. Devices[i] \in Device
  <2> HIDE DEF Device
  <2> QED
    BY <1>1
<1>3. Words \subseteq Nat
  BY WidthAssumption DEF Words
<1> QED
  BY <1>2, <1>3

(* Wrapping addition and subtraction deliver words.                         *)
LEMMA PlusType == ASSUME NEW a \in Int, NEW b \in Int
                  PROVE  Plus(a, b) \in Words /\ Minus(a, b) \in Words
<1>1. WordSize \in Nat /\ WordSize > 0
  BY WidthAssumption
<1>2. \A n \in Int : n % WordSize \in 0 .. WordSize - 1
  BY <1>1
<1>3. a + b \in Int /\ a - b \in Int
  OBVIOUS
<1> QED
  BY <1>2, <1>3 DEF Plus, Minus, Words

(* Setting and clearing bits at positions of a word delivers words, and the *)
(* bits of the result are the ones that were meant.                         *)
LEMMA SetBitsType == ASSUME NEW w \in Words, NEW S \in SUBSET Positions
                     PROVE  /\ SetBits(w, S) \in Words
                            /\ Bits(SetBits(w, S)) = Bits(w) \cup S
  BY BitsAssumption DEF SetBits

LEMMA ResetBitType == ASSUME NEW w \in Words, NEW i
                      PROVE  /\ ResetBit(w, i) \in Words
                             /\ Bits(ResetBit(w, i)) = Bits(w) \ {i}
  BY BitsAssumption DEF ResetBit

(* The CSR fields lie inside a word.                                        *)
LEMMA FieldPositions == /\ {MIE_BIT} \in SUBSET Positions
                        /\ {MPIE_BIT} \in SUBSET Positions
                        /\ MPP_BITS \in SUBSET Positions
                        /\ {MPIE_BIT} \cup MPP_BITS \in SUBSET Positions
                        /\ {MSI_BIT} \in SUBSET Positions
                        /\ {MTI_BIT} \in SUBSET Positions
<1>1. XLEN \in Nat /\ XLEN >= 13
  BY WidthAssumption, McuAssumption
<1> QED
  BY <1>1 DEF MIE_BIT, MPIE_BIT, MPP_BITS, MSI_BIT, MTI_BIT, Positions

(* The bitwise operators deliver words.                                     *)
LEMMA BitwiseType == ASSUME NEW a \in Words, NEW b \in Words
                     PROVE  /\ BitOr(a, b) \in Words
                            /\ BitAnd(a, b) \in Words
                            /\ BitXor(a, b) \in Words
<1>1. Bits(a) \in SUBSET Positions /\ Bits(b) \in SUBSET Positions
  BY BitsAssumption
<1> QED
  BY <1>1, BitsAssumption DEF BitOr, BitAnd, BitXor

LEMMA ShiftType == ASSUME NEW a, NEW n
                   PROVE  ShiftLeft(a, n) \in Words /\ ShiftRight(a, n) \in Words
  BY BitsAssumption DEF ShiftLeft, ShiftRight

LEMMA SmallWords == /\ 0 \in Words /\ 1 \in Words /\ 4 \in Words
                    /\ \A c : Flag(c) \in Words
                    /\ \A w : LogicalNot(w) \in Words
                    /\ \A w : SignMask(w) \in Words
<1>1. WordSize \in Nat /\ WordSize >= 8192
  BY WidthAssumption, McuAssumption
<1>2. 0 \in Words /\ 1 \in Words /\ 4 \in Words
  BY <1>1 DEF Words
<1>3. \A w : SignMask(w) \in Words
  BY BitsAssumption DEF SignMask
<1> QED
  BY <1>2, <1>3 DEF Flag, LogicalNot

(* Whatever the operation, Alu::execute returns words.                      *)
LEMMA ExecuteType == ASSUME NEW A \in Words, NEW B \in Words, NEW aluOp
                     PROVE  execute(A, B, aluOp) \subseteq Words
<1>1. A \in Int /\ B \in Int
  BY WidthAssumption DEF Words
<1>2. \A n : ShiftRight(A, n) \in Words /\ ShiftLeft(A, n) \in Words
  BY ShiftType
<1>3. SignMask(A) \in Words
  BY SmallWords
<1>4. \A n : BitXor(ShiftRight(BitXor(SignMask(A), A), n), SignMask(A)) \in Words
  BY <1>3, ShiftType, BitwiseType
<1> QED
  BY <1>1, <1>2, <1>4, PlusType, BitwiseType, SmallWords DEF execute

-----------------------------------------------------------------------------
(* Lemmas about the parts of a step, under the type invariant.              *)

(* The status codes that are not STATUS_OK are causes of exceptions.        *)
LEMMA StatusType ==
    ASSUME NEW addr, NEW size
    PROVE  /\ ReadStatus(addr, size) # STATUS_OK => ReadStatus(addr, size) \in Causes
           /\ WriteStatus(addr, size) # STATUS_OK => WriteStatus(addr, size) \in Causes
  BY DEF ReadStatus, WriteStatus, Causes

(* RegisterFile::write keeps the file well typed and x0 zero.               *)
LEMMA RfWriteType ==
    ASSUME TypeOK, NEW data \in Words, NEW reg \in Regs
    PROVE  /\ RfWrite(data, reg) \in [Regs -> Words]
           /\ RfWrite(data, reg)[0] = 0
           /\ \A r \in Regs : RfWrite(data, reg)[r] \in Words
<1>1. rf \in [Regs -> Words] /\ rf[0] = 0
  BY DEF TypeOK
<1>2. 0 \in Regs
  BY McuAssumption DEF Regs
<1>3. 0 \in Words
  BY SmallWords
<1> QED
  BY <1>1, <1>2, <1>3 DEF RfWrite

(* Where a code goes that executeInstruction returns.                       *)
LEMMA RaiseType ==
    ASSUME NEW code \in Causes, Raise(code)
    PROVE  /\ phase' \in Phases
           /\ IF phase' = "trap" THEN exceptionCode' \in Causes
                                 ELSE exceptionCode' = STATUS_OK
  BY DEF Raise, Phases

(* calculateNextPc computes a word.                                         *)
LEMMA NextPcType ==
    ASSUME TypeOK, NEW ins \in Instructions
    PROVE  calculateNextPc(ins) \in Words
<1>1. /\ nextPc \in Int /\ ins.imm \in Int /\ rf[ins.rs1] \in Int
      /\ csr["mepc"] \in Words /\ 4 \in Int
  BY WidthAssumption DEF TypeOK, Instructions, Words, Csrs
<1>2. /\ Plus(nextPc, ins.imm) \in Words
      /\ Plus(rf[ins.rs1], ins.imm) \in Words
      /\ Plus(nextPc, 4) \in Words
  BY <1>1, PlusType
<1>3. Plus(nextPc, IF branchAlu(rf[ins.rs1], rf[ins.rs2], ins.funct3)
                   THEN ins.imm ELSE 4) \in Words
  BY <1>2
<1> QED
  BY <1>1, <1>2, <1>3, Zenon DEF calculateNextPc

(* The end of executeInstruction.                                           *)
LEMMA AdvanceType ==
    ASSUME TypeOK, NEW ins \in Instructions, Advance(ins)
    PROVE  /\ phase' \in Phases /\ pc' \in Words /\ nextPc' \in Words
           /\ IF phase' = "trap" THEN exceptionCode' \in Causes
                                 ELSE exceptionCode' = STATUS_OK
<1> DEFINE target == calculateNextPc(ins)
<1>1. target \in Words
  BY NextPcType
<1>2. INSTRUCTION_ADDRESS_MISALIGNED \in Causes
  BY DEF Causes
<1>3. CASE target % 4 # 0
  BY <1>1, <1>2, <1>3, RaiseType DEF Advance, TypeOK
<1>4. CASE target % 4 = 0
  BY <1>1, <1>4 DEF Advance, Phases
<1> QED
  BY <1>3, <1>4

(* Trap::takeTrap.                                                          *)
LEMMA TakeTrapType ==
    ASSUME TypeOK, NEW mcause \in Words, takeTrap(mcause)
    PROVE  csr' \in [Csrs -> Words] /\ pc' \in Words /\ nextPc' \in Words
<1>1. /\ csr \in [Csrs -> Words] /\ csr["mstatus"] \in Words
      /\ csr["mtvec"] \in Int /\ pc \in Words /\ pc \in Int /\ mcause \in Int
  BY WidthAssumption DEF TypeOK, Words, Csrs
<1>2. Plus(pc, 4) \in Words
  BY <1>1, PlusType
<1>3. TrapMstatus(csr["mstatus"]) \in Words
  BY <1>1, SetBitsType, ResetBitType, FieldPositions DEF TrapMstatus
<1>4. InterruptBit \in Int
  BY WidthAssumption DEF InterruptBit
<1>5. 4 * VectorTableOffset(mcause) \in Int
  BY <1>1, <1>4 DEF VectorTableOffset
<1>6. Plus(csr["mtvec"], 4 * VectorTableOffset(mcause)) \in Words
  BY <1>1, <1>5, PlusType
<1> QED
  BY <1>1, <1>2, <1>3, <1>6 DEF takeTrap

(* The causes of traps are words.                                           *)
LEMMA CauseWords ==
    /\ Causes \subseteq Words
    /\ MACHINE_SOFTWARE_INTERRUPT \in Words
    /\ MACHINE_TIMER_INTERRUPT \in Words
<1>1. WordSize \in Nat /\ WordSize >= 8192
  BY WidthAssumption, McuAssumption
<1> QED
  BY <1>1 DEF Causes, Words, MACHINE_SOFTWARE_INTERRUPT, MACHINE_TIMER_INTERRUPT,
              InterruptBit, INSTRUCTION_ADDRESS_MISALIGNED, ILLEGAL_INSTRUCTION,
              LOAD_ADDRESS_MISALIGNED, LOAD_ACCESS_FAULT, STORE_ADDRESS_MISALIGNED,
              STORE_ACCESS_FAULT, ECALL_FROM_M_MODE

(* nextCycle.                                                               *)
LEMMA TickType ==
    ASSUME TypeOK
    PROVE  /\ Tick(clint) \in [ClintOffsets -> ClintWords]
           /\ PendingBits(csr["mip"], Tick(clint)) \in Words
<1>1. ClintSize \in Nat /\ ClintSize > 0
  BY McuAssumption, WidthAssumption
<1>2. \A n \in Int : n % ClintSize \in ClintWords
  BY <1>1 DEF ClintWords
<1>3. \A w \in ClintWords : w + 1 \in Int
  BY <1>1 DEF ClintWords
<1>4. clint \in [ClintOffsets -> ClintWords]
  BY DEF TypeOK
<1>5. Tick(clint) \in [ClintOffsets -> ClintWords]
  BY <1>2, <1>3, <1>4 DEF Tick, ClintOffsets
<1>6. csr["mip"] \in Words
  BY DEF TypeOK, Csrs
<1>7. PendingBits(csr["mip"], Tick(clint)) \in Words
  BY <1>6, SetBitsType, ResetBitType, FieldPositions DEF PendingBits
<1> QED
  BY <1>5, <1>7

(* The codes differ.                                                        *)
LEMMA StatusDistinct == STATUS_OK \notin Causes
  BY WidthAssumption, McuAssumption
     DEF STATUS_OK, Causes, INSTRUCTION_ADDRESS_MISALIGNED, ILLEGAL_INSTRUCTION,
         LOAD_ADDRESS_MISALIGNED, LOAD_ACCESS_FAULT, STORE_ADDRESS_MISALIGNED,
         STORE_ACCESS_FAULT, ECALL_FROM_M_MODE

(* A word read through the bus from the CLINT is one of its six words.      *)
LEMMA ClintWordOffset ==
    ASSUME NEW addr \in Words, OnClint(addr), ReadStatus(addr, WORD) = STATUS_OK
    PROVE  Offset(addr) \in ClintOffsets
<1> DEFINE d == DeviceAt(addr)
<1>1. Attached(addr) /\ checkAlignment(addr, WORD)
  BY StatusDistinct DEF ReadStatus, Causes
<1>2. d \in DOMAIN Devices /\ Claims(d, addr)
  BY <1>1, DeviceAtIsFirst
<1>3. addr \in Nat /\ Devices[d].base \in Nat
  BY <1>2, DeviceType, WidthAssumption DEF Words
<1>4. addr % 4 = 0 /\ Devices[d].base % 4 = 0
  BY <1>1, <1>2, McuAssumption DEF checkAlignment, OnClint, WORD
<1>5. Devices[d].base <= addr /\ addr - Devices[d].base < 24
  BY <1>2 DEF OnClint, Offset, Claims
<1>6. addr - Devices[d].base \in {0, 4, 8, 12, 16, 20}
  BY <1>3, <1>4, <1>5
<1> QED
  BY <1>6 DEF Offset, ClintOffsets, KEYBOARD_OFFSET, MSIP_OFFSET

(* What a load delivers is a word; what a store leaves is a CLINT.          *)
LEMMA MemoryType ==
    ASSUME TypeOK, NEW addr \in Words, NEW size
    PROVE  /\ ReadStatus(addr, size) = STATUS_OK => Loaded(addr, size) \subseteq Words
           /\ \A value \in Words :
                  Stored(addr, size, value) \subseteq [ClintOffsets -> ClintWords]
<1>1. clint \in [ClintOffsets -> ClintWords]
  BY DEF TypeOK
<1>2. ClintWords \subseteq Words
  BY McuAssumption, WidthAssumption DEF ClintWords, Words
<1>3. ReadStatus(addr, size) = STATUS_OK => Loaded(addr, size) \subseteq Words
  BY <1>1, <1>2, ClintWordOffset, McuAssumption DEF Loaded
<1>4. ASSUME NEW value \in Words
      PROVE  Stored(addr, size, value) \subseteq [ClintOffsets -> ClintWords]
  <2>1. value % ClintSize \in ClintWords
    BY McuAssumption, WidthAssumption DEF ClintWords, Words
  <2> QED
    BY <1>1, <2>1 DEF Stored
<1> QED
  BY <1>3, <1>4

(* An effective address is a word.                                          *)
LEMMA AddressType ==
    ASSUME TypeOK, NEW ins \in Instructions
    PROVE  EffectiveAddress(ins) \in Words
<1>1. rf[ins.rs1] \in Int /\ ins.imm \in Int
  BY WidthAssumption DEF TypeOK, Instructions, Words
<1> QED
  BY <1>1, PlusType DEF EffectiveAddress

-----------------------------------------------------------------------------
(* Type correctness: every step of nextInstruction keeps the state well     *)
(* typed, in particular x0 zero, for any guest program.                     *)
THEOREM TypeCorrect == Spec => []TypeOK
<1>1. Init => TypeOK
  BY SmallWords, McuAssumption, WidthAssumption
     DEF Init, TypeOK, Phases, ClintWords, Regs
<1>2. TypeOK /\ [Next]_vars => TypeOK'
  <2> SUFFICES ASSUME TypeOK, [Next]_vars PROVE TypeOK'
    OBVIOUS
  <2> USE DEF TypeOK
  <2>1. CASE NextCycle
    BY <2>1, TickType DEF NextCycle, Phases
  <2>2. CASE NoInterrupt
    BY <2>2 DEF NoInterrupt, machine, Phases
  <2>3. CASE TakeInterrupt
    BY <2>3, TakeTrapType, CauseWords DEF TakeInterrupt, Phases
  <2>4. CASE TakeException
    BY <2>4, TakeTrapType, CauseWords DEF TakeException, Phases
  <2>5. CASE FetchFault
    BY <2>5, StatusType, RaiseType DEF FetchFault, machine
  <2>6. ASSUME NEW ins \in Code(pc), ins \in Instructions,
               \/ Lui(ins) \/ Auipc(ins) \/ Jump(ins) \/ Branch(ins) \/ Arithmetic(ins)
               \/ Load(ins) \/ LoadFault(ins) \/ Store(ins) \/ StoreFault(ins)
               \/ Csrrw(ins) \/ Csrrs(ins) \/ Csrrc(ins)
               \/ Mret(ins) \/ Ecall(ins) \/ PrivNop(ins) \/ IllegalInstruction(ins)
        PROVE  TypeOK'
    <3>1. /\ ins.imm \in Words /\ ins.rd \in Regs /\ ins.rs1 \in Regs /\ ins.rs2 \in Regs
          /\ ins.csr \in Csrs /\ rf[ins.rs1] \in Words /\ rf[ins.rs2] \in Words
          /\ csr[ins.csr] \in Words
      BY <2>6 DEF Instructions
    <3>2. pc \in Int /\ ins.imm \in Int
      BY <3>1, WidthAssumption DEF Words
    <3>3. CASE Lui(ins)
      BY <2>6, <3>1, <3>3, RfWriteType, AdvanceType DEF Lui
    <3>4. CASE Auipc(ins)
      BY <2>6, <3>1, <3>2, <3>4, PlusType, RfWriteType, AdvanceType DEF Auipc
    <3>5. CASE Jump(ins)
      <4>1. Plus(pc, 4) \in Words
        BY <3>2, PlusType
      <4>2. RfWrite(Plus(pc, 4), ins.rd) \in [Regs -> Words]
            /\ RfWrite(Plus(pc, 4), ins.rd)[0] = 0
        BY <3>1, <4>1, RfWriteType
      <4>3. Advance(ins) /\ rf' = RfWrite(Plus(pc, 4), ins.rd) /\ UNCHANGED <<csr, clint>>
        BY <3>5 DEF Jump
      <4> QED
        BY <2>6, <4>2, <4>3, AdvanceType
    <3>6. CASE Branch(ins)
      BY <2>6, <3>6, AdvanceType DEF Branch
    <3>7. CASE Arithmetic(ins)
      <4>1. PICK v \in Words : rf' = RfWrite(v, ins.rd)
        BY <3>1, <3>7, ExecuteType, Zenon DEF Arithmetic
      <4>2. Advance(ins) /\ UNCHANGED <<csr, clint>>
        BY <3>7 DEF Arithmetic
      <4> QED
        BY <2>6, <3>1, <4>1, <4>2, RfWriteType, AdvanceType
    <3>8. CASE Load(ins)
      <4>1. PICK v \in Words : rf' = RfWrite(v, ins.rd)
        BY <2>6, <3>8, AddressType, MemoryType DEF Load
      <4>2. Advance(ins) /\ UNCHANGED <<csr, clint>>
        BY <3>8 DEF Load
      <4> QED
        BY <2>6, <3>1, <4>1, <4>2, RfWriteType, AdvanceType
    <3>9. CASE LoadFault(ins)
      BY <3>9, StatusType, RaiseType DEF LoadFault, machine
    <3>10. CASE Store(ins)
      BY <2>6, <3>1, <3>10, AddressType, MemoryType, AdvanceType DEF Store
    <3>11. CASE StoreFault(ins)
      BY <3>11, StatusType, RaiseType DEF StoreFault, machine
    <3>12. CASE Csrrw(ins)
      BY <2>6, <3>1, <3>12, RfWriteType, AdvanceType DEF Csrrw
    <3>13. CASE Csrrs(ins)
      BY <2>6, <3>1, <3>13, RfWriteType, BitwiseType, AdvanceType DEF Csrrs
    <3>14. CASE Csrrc(ins)
      BY <2>6, <3>1, <3>14, RfWriteType, BitwiseType, SmallWords, AdvanceType DEF Csrrc
    <3>15. CASE Mret(ins)
      <4>1. csr["mstatus"] \in Words
        BY DEF Csrs
      <4>2. MretMstatus(csr["mstatus"]) \in Words
        BY <4>1, SetBitsType, FieldPositions DEF MretMstatus
      <4> QED
        BY <2>6, <3>15, <4>2, AdvanceType DEF Mret
    <3>16. CASE Ecall(ins)
      <4>1. ECALL_FROM_M_MODE \in Causes
        BY DEF Causes
      <4> QED
        BY <3>16, <4>1, RaiseType DEF Ecall, machine
    <3>17. CASE PrivNop(ins)
      BY <2>6, <3>17, AdvanceType DEF PrivNop
    <3>18. CASE IllegalInstruction(ins)
      <4>1. ILLEGAL_INSTRUCTION \in Causes
        BY DEF Causes
      <4> QED
        BY <3>18, <4>1, RaiseType DEF IllegalInstruction, machine
    <3> QED
      BY <2>6, <3>3, <3>4, <3>5, <3>6, <3>7, <3>8, <3>9, <3>10, <3>11, <3>12, <3>13,
         <3>14, <3>15, <3>16, <3>17, <3>18
  <2>7. CASE UNCHANGED vars
    BY <2>7 DEF vars
  <2>8. Code(pc) \subseteq Instructions
    BY McuAssumption
  <2> QED
    BY <2>1, <2>2, <2>3, <2>4, <2>5, <2>6, <2>7, <2>8 DEF Next, ExecuteInstruction
<1> QED
  BY <1>1, <1>2, PTL DEF Spec

-----------------------------------------------------------------------------
(* The two program counters: NextPc's copy parts from pc only by holding a  *)
(* misaligned target that was refused.                                      *)
THEOREM NextPcSafe == Spec => []NextPcFollowsPc
<1>1. Init => NextPcFollowsPc
  BY DEF Init, NextPcFollowsPc
<1>2. NextPcFollowsPc /\ [Next]_vars => NextPcFollowsPc'
  <2> SUFFICES ASSUME NextPcFollowsPc, [Next]_vars PROVE NextPcFollowsPc'
    OBVIOUS
  <2> USE DEF NextPcFollowsPc
  <2>1. CASE NextCycle \/ NoInterrupt
    BY <2>1 DEF NextCycle, NoInterrupt, machine
  <2>2. CASE TakeInterrupt \/ TakeException
    BY <2>2 DEF TakeInterrupt, TakeException, takeTrap
  <2>3. ASSUME NEW code, Raise(code), UNCHANGED machine PROVE NextPcFollowsPc'
    BY <2>3 DEF Raise, machine
  <2>4. ASSUME NEW ins, Advance(ins) PROVE NextPcFollowsPc'
    BY <2>4 DEF Advance, Raise
  <2>5. CASE ExecuteInstruction
    <3>1. CASE FetchFault
      BY <3>1, <2>3 DEF FetchFault
    <3>2. ASSUME NEW ins, Advance(ins) \/ \E code : Raise(code) /\ UNCHANGED machine
          PROVE  NextPcFollowsPc'
      BY <2>3, <2>4, <3>2
    <3> QED
      BY <2>5, <3>1, <3>2
         DEF ExecuteInstruction, Lui, Auipc, Jump, Branch, Arithmetic, Load, LoadFault,
             Store, StoreFault, Csrrw, Csrrs, Csrrc, Mret, Ecall, PrivNop, IllegalInstruction
  <2>6. CASE UNCHANGED vars
    BY <2>6 DEF vars
  <2> QED
    BY <2>1, <2>2, <2>5, <2>6 DEF Next
<1> QED
  BY <1>1, <1>2, PTL DEF Spec

-----------------------------------------------------------------------------
(* After nextCycle mip.MTIP is the comparator.                              *)
LEMMA PendingBitsExact ==
    ASSUME NEW mip \in Words, NEW c
    PROVE  MTI_BIT \in Bits(PendingBits(mip, c)) <=> TimerExpired(c)
<1> DEFINE timer == IF TimerExpired(c) THEN SetBits(mip, {MTI_BIT})
                                       ELSE ResetBit(mip, MTI_BIT)
<1>1. timer \in Words /\ (MTI_BIT \in Bits(timer) <=> TimerExpired(c))
  BY SetBitsType, ResetBitType, FieldPositions
<1>2. Bits(SetBits(timer, {MSI_BIT})) = Bits(timer) \cup {MSI_BIT}
  BY <1>1, SetBitsType, FieldPositions
<1>3. MTI_BIT # MSI_BIT
  BY DEF MTI_BIT, MSI_BIT
<1> QED
  BY <1>1, <1>2, <1>3 DEF PendingBits

(* Neither a guest's write to mip nor one to the CLINT makes the timer bit  *)
(* stale when interrupts are checked.                                       *)
THEOREM TimerPendingSafe == Spec => []TimerPendingIsComparator
<1>1. Init => TimerPendingIsComparator
  BY DEF Init, TimerPendingIsComparator
<1>2. TypeOK /\ TimerPendingIsComparator /\ [Next]_vars => TimerPendingIsComparator'
  <2> SUFFICES ASSUME TypeOK, TimerPendingIsComparator, [Next]_vars
               PROVE  TimerPendingIsComparator'
    OBVIOUS
  <2>1. CASE NextCycle
    <3>1. csr["mip"] \in Words /\ "mip" \in Csrs /\ csr \in [Csrs -> Words]
      BY DEF TypeOK, Csrs
    <3>2. csr'["mip"] = PendingBits(csr["mip"], Tick(clint)) /\ clint' = Tick(clint)
      BY <2>1, <3>1 DEF NextCycle
    <3> QED
      BY <3>1, <3>2, PendingBitsExact DEF TimerPendingIsComparator, getMtip
  <2>2. CASE NoInterrupt
    BY <2>2 DEF NoInterrupt, machine, TimerPendingIsComparator, getMtip
  <2>3. CASE TakeInterrupt
    <3>1. csr'["mip"] = csr["mip"] /\ clint' = clint /\ phase = "check"
      BY <2>3 DEF TakeInterrupt, takeTrap, TypeOK, Csrs
    <3> QED
      BY <3>1 DEF TimerPendingIsComparator, getMtip
  <2>4. CASE TakeException
    BY <2>4 DEF TakeException, TimerPendingIsComparator
  <2>5. CASE ExecuteInstruction
    <3>1. phase' \in {"cycle", "trap"}
      BY <2>5
         DEF ExecuteInstruction, FetchFault, Lui, Auipc, Jump, Branch, Arithmetic, Load,
             LoadFault, Store, StoreFault, Csrrw, Csrrs, Csrrc, Mret, Ecall, PrivNop,
             IllegalInstruction, Advance, Raise
    <3> QED
      BY <3>1 DEF TimerPendingIsComparator
  <2>6. CASE UNCHANGED vars
    BY <2>6 DEF vars, TimerPendingIsComparator, getMtip
  <2> QED
    BY <2>1, <2>2, <2>3, <2>4, <2>5, <2>6 DEF Next
<1> QED
  BY <1>1, <1>2, TypeCorrect, PTL DEF Spec

(* takeTrap masks interrupts and remembers in MPIE that they were enabled.  *)
LEMMA TrapMstatusBits ==
    ASSUME NEW mstatus \in Words
    PROVE  /\ MIE_BIT \notin Bits(TrapMstatus(mstatus))
           /\ MIE_BIT \in Bits(mstatus) => MPIE_BIT \in Bits(TrapMstatus(mstatus))
<1> DEFINE saved == IF MIE_BIT \in Bits(mstatus) THEN SetBits(mstatus, {MPIE_BIT})
                                                 ELSE mstatus
<1>1. saved \in Words /\ (MIE_BIT \in Bits(mstatus) => MPIE_BIT \in Bits(saved))
  BY SetBitsType, FieldPositions
<1>2. /\ ResetBit(saved, MIE_BIT) \in Words
      /\ Bits(ResetBit(saved, MIE_BIT)) = Bits(saved) \ {MIE_BIT}
  BY <1>1, ResetBitType
<1>3. Bits(TrapMstatus(mstatus)) = (Bits(saved) \ {MIE_BIT}) \cup MPP_BITS
  BY <1>2, SetBitsType, FieldPositions DEF TrapMstatus
<1> QED
  BY <1>1, <1>3 DEF MIE_BIT, MPIE_BIT, MPP_BITS

(* Interrupts are taken exactly when due: no stale pending bit, no missed   *)
(* interrupt, software before timer, and the handler starts masked.         *)
THEOREM InterruptsExactThm == Spec => InterruptsExact
<1>1. TypeOK /\ TimerPendingIsComparator /\ [Next]_vars => [InterruptStep]_vars
  <2> SUFFICES ASSUME TypeOK, TimerPendingIsComparator, Next, phase = "check"
               PROVE  InterruptStep
    BY DEF InterruptStep
  <2>1. InterruptDue <=> SoftwareInterrupt \/ TimerInterrupt
    BY DEF InterruptDue, SoftwareInterrupt, TimerInterrupt, TimerPendingIsComparator
  <2>2. /\ csr \in [Csrs -> Words] /\ csr["mstatus"] \in Words
        /\ "mstatus" \in Csrs /\ "mepc" \in Csrs /\ "mcause" \in Csrs
    BY DEF TypeOK, Csrs
  <2>3. NoInterrupt \/ TakeInterrupt
    BY DEF Next, NextCycle, TakeException, ExecuteInstruction, FetchFault, Lui, Auipc, Jump,
           Branch, Arithmetic, Load, LoadFault, Store, StoreFault, Csrrw, Csrrs, Csrrc,
           Mret, Ecall, PrivNop, IllegalInstruction, Fetched, Executing
  <2>4. CASE NoInterrupt
    BY <2>1, <2>4 DEF NoInterrupt, machine, InterruptStep
  <2>5. ASSUME NEW mcause, takeTrap(mcause), mcause # ECALL_FROM_M_MODE, getMie
        PROVE  /\ csr'["mepc"] = pc /\ csr'["mcause"] = mcause
               /\ ~ getMie' /\ getMpie' /\ csr' # csr
    <3>1. /\ csr'["mepc"] = pc /\ csr'["mcause"] = mcause
          /\ csr'["mstatus"] = TrapMstatus(csr["mstatus"])
      BY <2>2, <2>5 DEF takeTrap
    <3>2. ~ getMie' /\ getMpie'
      BY <2>2, <2>5, <3>1, TrapMstatusBits DEF getMie, getMpie
    <3> QED
      BY <2>5, <3>1, <3>2 DEF getMie
  <2>6. /\ MACHINE_SOFTWARE_INTERRUPT # ECALL_FROM_M_MODE
        /\ MACHINE_TIMER_INTERRUPT # ECALL_FROM_M_MODE
    BY WidthAssumption, McuAssumption
       DEF MACHINE_SOFTWARE_INTERRUPT, MACHINE_TIMER_INTERRUPT, InterruptBit, ECALL_FROM_M_MODE
  <2>7. CASE TakeInterrupt
    <3>1. CASE SoftwareInterrupt /\ takeTrap(MACHINE_SOFTWARE_INTERRUPT)
      BY <2>1, <2>5, <2>6, <3>1 DEF SoftwareInterrupt, InterruptStep
    <3>2. CASE TimerInterrupt /\ takeTrap(MACHINE_TIMER_INTERRUPT)
      BY <2>1, <2>5, <2>6, <3>2 DEF TimerInterrupt, SoftwareInterrupt, InterruptStep
    <3> QED
      BY <2>7, <3>1, <3>2 DEF TakeInterrupt
  <2> QED
    BY <2>3, <2>4, <2>7
<1> QED
  BY <1>1, TypeCorrect, TimerPendingSafe, PTL DEF Spec, InterruptsExact

-----------------------------------------------------------------------------
(* An instruction other than a jump, a branch or mret does not raise the    *)
(* misaligned exception while the two program counters agree.               *)
LEMMA SequentialAligned ==
    ASSUME TypeOK, NEW ins, ins.opcode \in {"LOAD", "STORE"},
           ReadStatus(pc, WORD) = STATUS_OK, nextPc = pc
    PROVE  calculateNextPc(ins) % 4 = 0
<1>1. checkAlignment(pc, WORD)
  BY StatusDistinct DEF ReadStatus, Causes
<1>2. pc % 4 = 0 /\ pc \in Nat /\ pc < WordSize
  BY <1>1, WidthAssumption DEF checkAlignment, WORD, TypeOK, Words
<1>3. WordSize \in Nat /\ WordSize >= 8192 /\ WordSize % 4 = 0
  BY WidthAssumption, McuAssumption
<1>4. pc + 4 <= WordSize /\ (pc + 4) % 4 = 0
  BY <1>2, <1>3
<1>5. (pc + 4) % WordSize = IF pc + 4 = WordSize THEN 0 ELSE pc + 4
  BY <1>2, <1>3, <1>4
<1>6. Plus(pc, 4) % 4 = 0
  BY <1>4, <1>5 DEF Plus
<1>7. calculateNextPc(ins) = Plus(nextPc, 4)
  BY Zenon DEF calculateNextPc
<1> QED
  BY <1>6, <1>7

(* Exceptions are precise: the faulting instruction has changed nothing but *)
(* what a refused misaligned target leaves behind, and pc is its own.       *)
THEOREM PreciseExceptionsThm == Spec => PreciseExceptions
<1>1. TypeOK /\ [Next]_vars => [PreciseStep]_vars
  <2> SUFFICES ASSUME TypeOK, Next, phase' = "trap"
               PROVE  PreciseStep
    BY DEF PreciseStep
  <2>1. ExecuteInstruction
    BY DEF Next, NextCycle, NoInterrupt, TakeInterrupt, TakeException
  <2>2. ASSUME UNCHANGED machine PROVE PreciseStep
    BY <2>2 DEF PreciseStep, machine
  <2>3. ASSUME NEW ins, Advance(ins), UNCHANGED clint PROVE PreciseStep
    BY <2>3 DEF Advance, Raise, PreciseStep
  <2>4. ASSUME NEW ins, Store(ins) PROVE PreciseStep
    <3>1. CASE nextPc = pc
      <4>1. calculateNextPc(ins) % 4 = 0
        BY <2>4, <3>1, SequentialAligned DEF Store, Fetched
      <4> QED
        BY <2>4, <4>1 DEF Store, Advance
    <3>2. CASE nextPc # pc
      BY <2>4, <3>2 DEF Store, Advance, Raise, PreciseStep
    <3> QED
      BY <3>1, <3>2
  <2> QED
    BY <2>1, <2>2, <2>3, <2>4
       DEF ExecuteInstruction, FetchFault, Lui, Auipc, Jump, Branch, Arithmetic, Load,
           LoadFault, StoreFault, Csrrw, Csrrs, Csrrc, Mret, Ecall, PrivNop,
           IllegalInstruction
<1> QED
  BY <1>1, TypeCorrect, PTL DEF Spec, PreciseExceptions

(* Interrupts are enabled by mret and CSR instructions only; nextCycle,     *)
(* checkInterrupts and takeTrap never set MIE.                              *)
THEOREM EnabledOnlyByGuestThm == Spec => EnabledOnlyByGuest
<1>1. TypeOK /\ [Next]_vars => [EnableStep]_vars
  <2> SUFFICES ASSUME TypeOK, Next, ~ getMie, getMie'
               PROVE  EnableStep
    BY DEF EnableStep
  <2>1. csr \in [Csrs -> Words] /\ csr["mstatus"] \in Words /\ "mstatus" \in Csrs
    BY DEF TypeOK, Csrs
  <2>2. csr'["mstatus"] # csr["mstatus"]
    BY DEF getMie
  <2>3. \A mcause : ~ takeTrap(mcause)
    <3> SUFFICES ASSUME NEW mcause, takeTrap(mcause) PROVE FALSE
      OBVIOUS
    <3>1. csr'["mstatus"] = TrapMstatus(csr["mstatus"])
      BY <2>1 DEF takeTrap
    <3> QED
      BY <2>1, <3>1, TrapMstatusBits DEF getMie
  <2>4. ExecuteInstruction
    BY <2>1, <2>2, <2>3 DEF Next, NextCycle, NoInterrupt, TakeInterrupt, TakeException, machine
  <2>5. PICK ins \in Code(pc) : Csrrw(ins) \/ Csrrs(ins) \/ Csrrc(ins) \/ Mret(ins)
    BY <2>2, <2>4
       DEF ExecuteInstruction, FetchFault, Lui, Auipc, Jump, Branch, Arithmetic, Load,
           LoadFault, Store, StoreFault, Ecall, PrivNop, IllegalInstruction, machine
  <2>6. CASE Csrrw(ins) \/ Csrrs(ins) \/ Csrrc(ins)
    <3>1. ins.csr = "mstatus"
      BY <2>1, <2>2, <2>6 DEF Csrrw, Csrrs, Csrrc
    <3> QED
      BY <2>6, <3>1 DEF EnableStep
  <2>7. CASE Mret(ins)
    <3>1. csr'["mstatus"] = MretMstatus(csr["mstatus"])
      BY <2>1, <2>7 DEF Mret
    <3>2. getMpie
      <4> SUFFICES ASSUME MPIE_BIT \notin Bits(csr["mstatus"]) PROVE FALSE
        BY DEF getMpie
      <4>1. Bits(csr'["mstatus"]) = Bits(csr["mstatus"]) \cup ({MPIE_BIT} \cup MPP_BITS)
        BY <2>1, <3>1, SetBitsType, FieldPositions DEF MretMstatus
      <4> QED
        BY <4>1 DEF getMie, MIE_BIT, MPIE_BIT, MPP_BITS
    <3> QED
      BY <2>7, <3>2 DEF EnableStep
  <2> QED
    BY <2>5, <2>6, <2>7
<1> QED
  BY <1>1, TypeCorrect, PTL DEF Spec, EnabledOnlyByGuest

-----------------------------------------------------------------------------
(* Nested traps: McuNesting, for any number of unreturned traps.            *)

(* MPIE after takeTrap: set by an enabled MIE, and never cleared.           *)
LEMMA TrapKeepsMpie ==
    ASSUME NEW mstatus \in Words
    PROVE  MPIE_BIT \in Bits(TrapMstatus(mstatus))
               <=> MPIE_BIT \in Bits(mstatus) \/ MIE_BIT \in Bits(mstatus)
<1> DEFINE saved == IF MIE_BIT \in Bits(mstatus) THEN SetBits(mstatus, {MPIE_BIT})
                                                 ELSE mstatus
<1>1. /\ saved \in Words
      /\ MPIE_BIT \in Bits(saved) <=> MPIE_BIT \in Bits(mstatus) \/ MIE_BIT \in Bits(mstatus)
  BY SetBitsType, FieldPositions
<1>2. /\ ResetBit(saved, MIE_BIT) \in Words
      /\ Bits(ResetBit(saved, MIE_BIT)) = Bits(saved) \ {MIE_BIT}
  BY <1>1, ResetBitType
<1>3. Bits(TrapMstatus(mstatus)) = (Bits(saved) \ {MIE_BIT}) \cup MPP_BITS
  BY <1>2, SetBitsType, FieldPositions DEF TrapMstatus
<1> QED
  BY <1>1, <1>3 DEF MIE_BIT, MPIE_BIT, MPP_BITS

(* mret sets MPIE, and MIE if MPIE was set.                                 *)
LEMMA MretEnables ==
    ASSUME NEW mstatus \in Words
    PROVE  /\ MPIE_BIT \in Bits(MretMstatus(mstatus))
           /\ MPIE_BIT \in Bits(mstatus) => MIE_BIT \in Bits(MretMstatus(mstatus))
<1> DEFINE enabled == IF MPIE_BIT \in Bits(mstatus) THEN SetBits(mstatus, {MIE_BIT})
                                                    ELSE mstatus
<1>1. /\ enabled \in Words
      /\ MPIE_BIT \in Bits(mstatus) => MIE_BIT \in Bits(enabled)
  BY SetBitsType, FieldPositions
<1>2. Bits(MretMstatus(mstatus)) = Bits(enabled) \cup ({MPIE_BIT} \cup MPP_BITS)
  BY <1>1, SetBitsType, FieldPositions DEF MretMstatus
<1> QED
  BY <1>1, <1>2

-----------------------------------------------------------------------------
(* The history adds no behaviour and takes none away.                       *)
LEMMA NestingIsMcu == NestingSpec => Spec
<1>1. NestingInit => Init
  BY DEF NestingInit
<1>2. NestingNext => Next
  <2>1. EnterTrap => Next
    BY DEF EnterTrap, TrapTaken, Next
  <2>2. ReturnFromTrap => Next
    BY DEF ReturnFromTrap, TrapReturned, Next, ExecuteInstruction
  <2>3. TakeOver => Next
    BY DEF TakeOver, GuestWritesMstatus, Next, ExecuteInstruction
  <2> QED
    BY <2>1, <2>2, <2>3 DEF NestingNext, Otherwise
<1>3. [NestingNext]_nvars => [Next]_vars
  BY <1>2 DEF nvars
<1> QED
  BY <1>1, <1>3, PTL DEF NestingSpec, Spec

(* The history's type, and what it says of MPIE.                            *)
NestingInv == enabledAt \in Seq(BOOLEAN) /\ MpieRemembers

LEMMA EnterTrapInv ==
    ASSUME TypeOK, NestingInv, EnterTrap
    PROVE  NestingInv'
<1>1. csr \in [Csrs -> Words] /\ csr["mstatus"] \in Words /\ "mstatus" \in Csrs
  BY DEF TypeOK, Csrs
<1>2. \E mcause : takeTrap(mcause)
  BY DEF EnterTrap, TrapTaken, TakeInterrupt, TakeException
<1>3. csr'["mstatus"] = TrapMstatus(csr["mstatus"])
  BY <1>1, <1>2 DEF takeTrap
<1>4. getMpie' <=> getMpie \/ getMie
  BY <1>1, <1>3, TrapKeepsMpie DEF getMpie, getMie
<1> DEFINE kept == IF Len(enabledAt) < MaxDepth THEN enabledAt ELSE Tail(enabledAt)
<1>5. enabledAt \in Seq(BOOLEAN) /\ Len(enabledAt) \in Nat /\ MaxDepth \in Nat \ {0}
  BY MaxDepthAssumption, LenProperties DEF NestingInv
<1>6. kept \in Seq(BOOLEAN) /\ \A i \in DOMAIN kept : kept[i] => getMpie
  <2>1. CASE Len(enabledAt) < MaxDepth
    BY <1>5, <2>1 DEF NestingInv, MpieRemembers
  <2>2. CASE ~ Len(enabledAt) < MaxDepth
    <3>1. enabledAt # << >>
      BY <1>5, <2>2, EmptySeq
    <3>2. /\ Tail(enabledAt) \in Seq(BOOLEAN)
          /\ Len(Tail(enabledAt)) = Len(enabledAt) - 1
          /\ \A i \in 1 .. Len(Tail(enabledAt)) : Tail(enabledAt)[i] = enabledAt[i + 1]
      BY <1>5, <3>1, HeadTailProperties
    <3>3. \A i \in DOMAIN Tail(enabledAt) : i + 1 \in DOMAIN enabledAt
      BY <1>5, <3>2
    <3>4. \A i \in DOMAIN Tail(enabledAt) : Tail(enabledAt)[i] = enabledAt[i + 1]
      BY <3>2
    <3> QED
      BY <2>2, <3>2, <3>3, <3>4 DEF NestingInv, MpieRemembers
  <2> QED
    BY <2>1, <2>2
<1> HIDE DEF kept
<1>7. enabledAt' = Append(kept, getMie)
  BY DEF EnterTrap, kept
<1>8. getMie \in BOOLEAN
  BY DEF getMie
<1>9. /\ enabledAt' \in Seq(BOOLEAN)
      /\ \A i \in DOMAIN enabledAt' : \/ i \in DOMAIN kept /\ enabledAt'[i] = kept[i]
                                      \/ enabledAt'[i] = getMie
  BY <1>6, <1>7, <1>8, AppendProperties
<1> QED
  BY <1>4, <1>6, <1>9 DEF NestingInv, MpieRemembers

LEMMA ReturnFromTrapInv ==
    ASSUME TypeOK, NestingInv, ReturnFromTrap
    PROVE  NestingInv' /\ (getMpie => getMie')
<1>1. csr \in [Csrs -> Words] /\ csr["mstatus"] \in Words /\ "mstatus" \in Csrs
  BY DEF TypeOK, Csrs
<1>2. csr'["mstatus"] = MretMstatus(csr["mstatus"])
  BY <1>1 DEF ReturnFromTrap, TrapReturned, Mret
<1>3. getMpie' /\ (getMpie => getMie')
  BY <1>1, <1>2, MretEnables DEF getMpie, getMie
<1>4. enabledAt' \in Seq(BOOLEAN)
  <2>1. CASE enabledAt = << >>
    BY <2>1, EmptySeq DEF ReturnFromTrap
  <2>2. CASE enabledAt # << >>
    <3>1. enabledAt \in Seq(BOOLEAN) /\ Len(enabledAt) \in Nat /\ Len(enabledAt) > 0
      BY <2>2, LenProperties, EmptySeq DEF NestingInv
    <3>2. \A i \in 1 .. Len(enabledAt) - 1 : enabledAt[i] \in BOOLEAN
      BY <3>1
    <3>3. SubSeq(enabledAt, 1, Len(enabledAt) - 1) \in Seq(BOOLEAN)
      BY <3>1, <3>2, SubSeqProperties
    <3> QED
      BY <2>2, <3>3 DEF ReturnFromTrap
  <2> QED
    BY <2>1, <2>2
<1> QED
  BY <1>3, <1>4 DEF NestingInv, MpieRemembers

(* Nothing else writes mstatus.                                             *)
LEMMA MstatusKept ==
    ASSUME TypeOK, Otherwise
    PROVE  csr'["mstatus"] = csr["mstatus"]
<1>1. csr \in [Csrs -> Words] /\ "mstatus" \in Csrs /\ "mip" # "mstatus"
  BY DEF TypeOK, Csrs
<1>2. CASE NextCycle \/ NoInterrupt
  BY <1>1, <1>2 DEF NextCycle, NoInterrupt, machine
<1>3. CASE ExecuteInstruction
  <2>1. CASE \E ins \in Code(pc) : Csrrw(ins) \/ Csrrs(ins) \/ Csrrc(ins)
    <3>1. PICK ins \in Code(pc) : Csrrw(ins) \/ Csrrs(ins) \/ Csrrc(ins)
      BY <2>1
    <3>2. ins.csr # "mstatus"
      BY <3>1 DEF Otherwise, GuestWritesMstatus
    <3> QED
      BY <1>1, <3>1, <3>2 DEF Csrrw, Csrrs, Csrrc
  <2>2. CASE csr' = csr
    BY <2>2
  <2> QED
    BY <1>3, <2>1, <2>2
       DEF Otherwise, TrapReturned, ExecuteInstruction, FetchFault, Lui, Auipc, Jump, Branch,
           Arithmetic, Load, LoadFault, Store, StoreFault, Ecall, PrivNop,
           IllegalInstruction, machine
<1> QED
  BY <1>2, <1>3 DEF Otherwise, TrapTaken, Next

LEMMA NestingInductive == NestingSpec => []NestingInv
<1>1. NestingInit => NestingInv
  BY EmptySeq DEF NestingInit, NestingInv, MpieRemembers
<1>2. TypeOK /\ NestingInv /\ [NestingNext]_nvars => NestingInv'
  <2> SUFFICES ASSUME TypeOK, NestingInv, [NestingNext]_nvars PROVE NestingInv'
    OBVIOUS
  <2>1. CASE TakeOver
    BY <2>1, EmptySeq DEF TakeOver, NestingInv, MpieRemembers
  <2>2. CASE Otherwise
    BY <2>2, MstatusKept DEF Otherwise, NestingInv, MpieRemembers, getMpie
  <2>3. CASE UNCHANGED nvars
    BY <2>3 DEF nvars, vars, NestingInv, MpieRemembers, getMpie
  <2> QED
    BY <2>1, <2>2, <2>3, EnterTrapInv, ReturnFromTrapInv DEF NestingNext
<1> QED
  BY <1>1, <1>2, NestingIsMcu, TypeCorrect, PTL DEF NestingSpec

(* A trap that found interrupts enabled is remembered by the one bit MPIE,  *)
(* however many traps follow it and return before it does.                  *)
THEOREM MpieRemembersThm == NestingSpec => []MpieRemembers
<1>1. NestingInv => MpieRemembers
  BY DEF NestingInv
<1> QED
  BY <1>1, NestingInductive, PTL

(* takeTrap and mret never lose enabled interrupts.                         *)
THEOREM EnabledIsRestoredThm == NestingSpec => EnabledIsRestored
<1> DEFINE Restored == Returning /\ enabledAt[Len(enabledAt)] => getMie'
<1>1. TypeOK /\ NestingInv /\ [NestingNext]_nvars => [Restored]_nvars
  <2> SUFFICES ASSUME TypeOK, NestingInv, NestingNext, Returning, enabledAt[Len(enabledAt)]
               PROVE  getMie'
    OBVIOUS
  <2>1. Len(enabledAt) \in DOMAIN enabledAt
    BY LenProperties, EmptySeq DEF NestingInv, Returning
  <2>2. getMpie
    BY <2>1 DEF NestingInv, MpieRemembers
  <2>3. csr'["mstatus"] = MretMstatus(csr["mstatus"]) /\ csr["mstatus"] \in Words
    BY DEF Returning, TrapReturned, Mret, TypeOK, Csrs
  <2> QED
    BY <2>2, <2>3, MretEnables DEF getMpie, getMie
<1> QED
  BY <1>1, NestingInductive, NestingIsMcu, TypeCorrect, PTL DEF NestingSpec, EnabledIsRestored
=============================================================================
