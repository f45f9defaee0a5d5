------------------------------ MODULE Firmware ------------------------------
(***************************************************************************)
(* The processor running the sample firmware: crt0.s, load_ram of          *)
(* bootup.c, the vector table and the handlers of interrupt.s, and a small *)
(* kernel_main that stands in for the terminal's, which is in Screen.      *)
(*                                                                         *)
(* interrupt.s leaves the handlers to the user ("Write software to handle  *)
(* interrupt").  What it has there returns at once (timer, external) or    *)
(* spins, writing ra; RepositoryHandler is the former.  Two handlers are   *)
(* software of that kind: AckHandler moves the comparator to a later time  *)
(* of its choice and returns, and an ECALL may return or, as in            *)
(* interrupt.s, spin.  load_ram and AckHandler leave the comparator's time *)
(* open, so that an interrupt can arrive before any instruction of the     *)
(* program.  csr_set_field_... name their mask as an output of the asm     *)
(* statement, so the register is right only as long as the compiler        *)
(* happens to have left the mask there: the masks of load_ram are the      *)
(* intended ones or none of their bits.                                    *)
(*                                                                         *)
(* The program may use the registers RA, SP, GP, A0 and S0, and AckHandler *)
(* uses T0: with that it is an instance of GuestCode.                      *)
(***************************************************************************)
EXTENDS GuestCode, MCMcu, TLC

CONSTANT TimerHandler   \* the instructions at _machine_timer_interrupt, each
                        \* a set of candidates

RA == 1
SP == 2
GP == 3
A0 == 4
S0 == 5
T0 == 6

VECTOR_TABLE == 256
RESERVED_HANDLER == 512
TIMER_HANDLER == 576
EXTERNAL_HANDLER == 600
ECALL_HANDLER == 604        \* the mret behind the jal of _environment_call_m_mode
SPIN(c) == 640 + 4 * c      \* the handlers that spin, by table entry
UNMAPPED == 2048
XORI(d, s, i) == [Ins("ITYPE") EXCEPT !.funct3 = 4, !.rd = d, !.rs1 = s, !.imm = i]

(* crt0.s; `la' is an auipc and an addi.                                    *)
Start == <<
    {AUIPC(SP, 4096)}, {ADDI(SP, SP, 2040)},    \* la sp, __stack_top
    {ADDI(SP, SP, Neg(4))},                     \* addi sp, sp, -4
    {AUIPC(GP, 4096)}, {ADDI(GP, GP, Neg(12))}, \* la gp, __global_pointer$
    {AUIPC(A0, 0)}, {ADDI(A0, A0, VECTOR_TABLE - 20)},  \* la a0, _vector_table
    {CSR(1, 0, "mtvec", A0)},                   \* csrw mtvec, a0
    {JAL(RA, 12)},                              \* call load_ram
    {JAL(RA, 44)},                              \* call kernel_main
    {JAL(RA, 0)} >>                             \* _spin: jal _spin

(* load_ram behind its loops, at 44.                                        *)
LoadRam == <<
    {LUI(A0, d) : d \in ClintWords}, {ST(2, 0, A0, 1024 + 8)},  \* *mtimecmp_l = ...
    {LUI(A0, 256), LUI(A0, 0)}, {CSR(2, 0, "misa", A0)},        \* csr_set_field_misa
    {LUI(A0, 8), LUI(A0, 0)}, {CSR(2, 0, "mstatus", A0)},       \* csr_set_field_mstatus
    {LUI(A0, 2184), LUI(A0, 0)}, {CSR(2, 0, "mie", A0)},        \* csr_set_field_mie
    {JALR(0, RA, 0)} >>                                         \* ret

(* A kernel_main, at 80: a loop that flips a0, and makes at one turn an      *)
(* ECALL or a load that fails and at the next a call, over which it keeps   *)
(* its return address in s0, so that a lost instruction shows.              *)
KernelMain == <<
    {LUI(A0, 0)},
    {XORI(A0, A0, 1)},
    {BR(1, A0, 0, 12)},
    {ECALL, LD(2, A0, 0, UNMAPPED)},
    {JAL(0, Neg(12))},
    {ADDI(SP, SP, Neg(8))},
    {ADDI(S0, RA, 0)},
    {JAL(RA, 16)},
    {ADDI(RA, S0, 0)},
    {ADDI(SP, SP, 8)},
    {JAL(0, Neg(36)), JALR(0, RA, 0)},
    {JALR(0, RA, 0)} >>

Program == Start \o LoadRam \o KernelMain
MainProgram == [a \in {4 * (i - 1) : i \in DOMAIN Program} |-> Program[(a \div 4) + 1]]

(* _vector_table: 16 interrupts and 12 exceptions.                          *)
HandlersOf(i) == CASE i = 7 -> {TIMER_HANDLER}
                   [] i = 11 -> {EXTERNAL_HANDLER}
                   [] i = 27 -> {SPIN(i), ECALL_HANDLER}
                   [] i \in {3, 16, 17, 18, 20, 21, 22, 23} -> {SPIN(i)}
                   [] OTHER -> {RESERVED_HANDLER}
VectorTable ==
    [a \in {VECTOR_TABLE + 4 * i : i \in 0 .. 27} |->
        {JAL(0, (h - a) % MCWordSize) : h \in HandlersOf((a - VECTOR_TABLE) \div 4)}]

Handlers ==
    [a \in {RESERVED_HANDLER} \cup {SPIN(i) : i \in 0 .. 27} |-> {JAL(RA, 0)}]
        @@ [a \in {EXTERNAL_HANDLER, ECALL_HANDLER} |-> {MRET}]
        @@ [a \in {TIMER_HANDLER + 4 * (i - 1) : i \in DOMAIN TimerHandler} |->
                TimerHandler[((a - TIMER_HANDLER) \div 4) + 1]]

RepositoryHandler == <<{MRET}>>
AckHandler == << {LUI(T0, 3)}, {ST(2, 0, T0, 1024 + 12)},
                 {LUI(T0, d) : d \in ClintWords}, {ST(2, 0, T0, 1024 + 8)}, {MRET} >>

Image == MainProgram @@ VectorTable @@ Handlers
FirmwareCode(a) == IF a \in DOMAIN Image THEN Image[a] ELSE {UNKNOWN}

FirmwareDevices ==
    << [kind |-> "rom", base |-> 0, size |-> 800],
       [kind |-> "clint", base |-> 1024, size |-> 24] >>

(* The parameters of GuestCode.  Of the table, only the entries that        *)
(* interrupt.s gives a handler are meant to be used.                        *)
ProgramAddresses == DOMAIN MainProgram
CsrwPc == 28
CrtAddresses == {a \in ProgramAddresses : a <= CsrwPc}
RegsAt[a \in CrtAddresses] ==
    IF a = 0 THEN {[r \in GuestRegs |-> 0]}
    ELSE UNION {GuestResults(ins, a - 4, regs) : ins \in Image[a - 4], regs \in RegsAt[a - 4]}
UsedEntries == {i \in 0 .. 27 : RESERVED_HANDLER \notin HandlersOf(i)}
SpinHandlers == {SPIN(i) : i \in UsedEntries \ {7, 11}}
HandlerAddresses ==
    {VECTOR_TABLE + 4 * i : i \in UsedEntries} \cup SpinHandlers
        \cup {EXTERNAL_HANDLER, ECALL_HANDLER}
        \cup {TIMER_HANDLER + 4 * (i - 1) : i \in DOMAIN TimerHandler}

(* The timer handler that interrupt.s has keeps the rules, too.             *)
ASSUME RepositoryHandlerAssumption ==
    \A ins \in RepositoryHandler[1] : IsHandler(ins, TIMER_HANDLER)
=============================================================================
