------------------------------- MODULE MCMcu --------------------------------
(***************************************************************************)
(* Small machines for TLC: 13-bit words (the CSR fields need 13 bits), two *)
(* registers, CLINT words of two values (mcycle wraps after 4 cycles), and *)
(* two sets of guest instructions, one for interrupts and one for          *)
(* exceptions.                                                             *)
(***************************************************************************)
EXTENDS Mcu

MCXLEN == 13
MCWordSize == 8192
BitTable == [w \in 0 .. MCWordSize - 1 |-> {i \in 0 .. 12 : (w \div 2^i) % 2 = 1}]
MCBits(w) == BitTable[w]
Weight(S, i) == IF i \in S THEN 2^i ELSE 0
WordTable ==
    [S \in SUBSET (0 .. 12) |->
        Weight(S, 0) + Weight(S, 1) + Weight(S, 2) + Weight(S, 3) + Weight(S, 4) +
        Weight(S, 5) + Weight(S, 6) + Weight(S, 7) + Weight(S, 8) + Weight(S, 9) +
        Weight(S, 10) + Weight(S, 11) + Weight(S, 12)]
MCWordOf(S) == WordTable[S]

ROM_BASE == 0
RAM_BASE == 1024
CLINT_BASE == 256
VIDEO_BASE == 512

(* rom, ram, vram, clint, in the order Mcu::Mcu adds them.                  *)
MCDevices ==
    << [kind |-> "rom", base |-> ROM_BASE, size |-> 112],
       [kind |-> "ram", base |-> RAM_BASE, size |-> 4],
       [kind |-> "vram", base |-> VIDEO_BASE, size |-> 4],
       [kind |-> "clint", base |-> CLINT_BASE, size |-> 24] >>

Neg(n) == MCWordSize - n

Ins(opcode) ==
    [opcode |-> opcode, funct3 |-> 0, funct7 |-> 0, rd |-> 0, rs1 |-> 0,
     rs2 |-> 0, imm |-> 0, csr |-> "mstatus"]
LUI(d, i) == [Ins("LUI") EXCEPT !.rd = d, !.imm = i]
AUIPC(d, i) == [Ins("AUIPC") EXCEPT !.rd = d, !.imm = i]
JAL(d, i) == [Ins("JAL") EXCEPT !.rd = d, !.imm = i]
JALR(d, s, i) == [Ins("JALR") EXCEPT !.rd = d, !.rs1 = s, !.imm = i]
BR(f, s, t, i) == [Ins("BTYPE") EXCEPT !.funct3 = f, !.rs1 = s, !.rs2 = t, !.imm = i]
LD(f, d, s, i) == [Ins("LOAD") EXCEPT !.funct3 = f, !.rd = d, !.rs1 = s, !.imm = i]
ST(f, s, t, i) == [Ins("STORE") EXCEPT !.funct3 = f, !.rs1 = s, !.rs2 = t, !.imm = i]
ADDI(d, s, i) == [Ins("ITYPE") EXCEPT !.rd = d, !.rs1 = s, !.imm = i]
ADD(d, s, t) == [Ins("RTYPE") EXCEPT !.rd = d, !.rs1 = s, !.rs2 = t]
CSR(f, d, c, s) == [Ins("PRIV") EXCEPT !.funct3 = f, !.rd = d, !.csr = c, !.rs1 = s]
MRET == [Ins("PRIV") EXCEPT !.imm = MRET_IMM]
ECALL == [Ins("PRIV") EXCEPT !.imm = ECALL_IMM]
WFI == [Ins("PRIV") EXCEPT !.imm = 261]
UNKNOWN == Ins("unknown")

(* The vector table is at 0 (mtvec is 0 after reset): the interrupt entries *)
(* 3 and 7, and the exception entries 16 + cause.  Address 4 is a guest's   *)
(* main code, 32 the handler its entries jump to.                           *)
MainPc == 4
HandlerPc == 32
VectorSlots == {4 * 3, 4 * 7} \cup {4 * (16 + c) : c \in Causes}
VectorJump(a) == JAL(0, (HandlerPc - a) % MCWordSize)

(* Interrupts: the guest arms the timer and the software interrupt, masks   *)
(* and unmasks them, and a handler may return at any time.                  *)
InterruptGuest ==
    { LUI(1, 136), ADDI(1, 0, 1),
      CSR(2, 0, "mstatus", 1), CSR(3, 0, "mstatus", 1),
      CSR(1, 0, "mie", 1), CSR(1, 0, "mip", 1), CSR(5, 0, "mie", 1),
      ST(2, 0, 1, CLINT_BASE + 8), ST(2, 0, 1, CLINT_BASE + 12),
      ST(0, 0, 1, CLINT_BASE + 20),
      LD(2, 1, 0, CLINT_BASE), WFI, BR(0, 0, 0, 4), MRET }

(* Exceptions: every instruction that can fail does, in the main code, in   *)
(* the handler and in the vector table, with targets that are misaligned or *)
(* not mapped and with a trap vector the guest may move.                    *)
ExceptionGuest ==
    { LUI(1, RAM_BASE), AUIPC(1, 4), ADDI(1, 0, 3), ADD(0, 1, 1),
      JAL(1, 2), JALR(1, 1, 0), BR(1, 1, 0, 6), BR(7, 1, 0, 4),
      LD(2, 1, 1, 0), LD(7, 1, 1, 0), LD(1, 0, 0, 1),
      ST(2, 1, 0, 0), ST(2, 0, 0, RAM_BASE + 2), ST(7, 0, 0, CLINT_BASE),
      CSR(1, 0, "mepc", 1), CSR(1, 1, "mtvec", 1), ECALL, MRET, UNKNOWN }

(* Both in one memory, each with a main code and a handler of its own.  The *)
(* first instruction decides which one runs: the exception guest, or, when  *)
(* the handler of the ECALL returns, the interrupt guest.  Neither reaches  *)
(* the other's code after that.                                             *)
EntryPoint == 16
ExceptionPc == 40
ExceptionHandlerPc == 48

TrapTable ==
    [a \in 0 .. 116 |->
    CASE a = EntryPoint -> {JAL(0, (ExceptionPc - a) % MCWordSize), ECALL}
      [] a = MainPc -> InterruptGuest
      [] a = HandlerPc -> {MRET, ST(2, 0, 0, CLINT_BASE + 20), JAL(0, 0)}
      [] a = ExceptionPc -> ExceptionGuest
      [] a = ExceptionHandlerPc -> {MRET, ECALL, JAL(1, 0)}
      [] a \in {4 * 3, 4 * 7} -> {VectorJump(a)}
      [] a \in VectorSlots ->
            {JAL(0, (ExceptionHandlerPc - a) % MCWordSize), JAL(1, 2), BR(7, 1, 0, 6)}
      [] a = EntryPoint + 4 -> {LUI(1, 136)}
      [] a \in {MainPc + 4, HandlerPc + 4, EntryPoint + 8} ->
            {JAL(0, (MainPc - a) % MCWordSize)}
      [] OTHER -> {JAL(0, (ExceptionPc - a) % MCWordSize)}]
TrapCode(a) == IF a \in DOMAIN TrapTable THEN TrapTable[a] ELSE {UNKNOWN}

(* Traps in traps: a guest, a handler and a vector table that can all fail. *)
NestingTable ==
    [a \in 0 .. 116 |->
    CASE a = MainPc -> {LUI(1, 136), CSR(2, 0, "mstatus", 1), CSR(1, 0, "mie", 1),
                        CSR(1, 0, "mip", 1), ECALL, UNKNOWN, MRET,
                        ST(2, 0, 0, CLINT_BASE + 8), ST(2, 0, 0, CLINT_BASE + 2)}
      [] a = HandlerPc -> {MRET, ECALL, CSR(2, 0, "mstatus", 1)}
      [] a \in VectorSlots -> {VectorJump(a), UNKNOWN}
      [] OTHER -> {JAL(0, (MainPc - a) % MCWordSize)}]
NestingCode(a) == IF a \in DOMAIN NestingTable THEN NestingTable[a] ELSE {UNKNOWN}

MCDataWords == {0, 3}
=============================================================================
