------------------------------ MODULE Decode --------------------------------
(***************************************************************************)
(* ImmediateGenerator: the immediate operand of a 32-bit instruction.  An  *)
(* instruction and an immediate are the sets of the positions of their 1s, *)
(* so that the masks of the code are intervals of positions; the opcode is *)
(* given by name.  Mcu takes the decoded fields as they are.               *)
(***************************************************************************)
EXTENDS Integers

BitPositions == 0 .. 31
InstructionWords == SUBSET BitPositions

ImmediateOpcodes ==
    {"LUI", "AUIPC", "JAL", "JALR", "BTYPE", "LOAD", "STORE", "ITYPE", "PRIV", "RTYPE"}

(* I >> n and I << n of C on uint32_t.                                      *)
RightBy(I, n) == {i \in BitPositions : i + n \in I}
LeftBy(I, n) == {i \in BitPositions : i - n \in I}

(* "sign extend if negative": the positions from sign + 1 up are filled     *)
(* when the one at sign is.                                                 *)
SignExtended(M, sign) == IF sign \in M THEN M \cup (sign + 1 .. 31) ELSE M

(* funct3 is 0b001 or 0b101: slli, srli, srai.                              *)
ShiftsByImmediate(I) == 12 \in I /\ 13 \notin I

JalOffset(I) ==
    (RightBy(I, 12) \cap {19}) \cup (RightBy(I, 1) \cap 11 .. 18) \cup
    (RightBy(I, 10) \cap {10}) \cup (RightBy(I, 21) \cap 0 .. 9)

(* Not the code: bit 7 of the instruction left where the formats without    *)
(* a scattered bit have it.                                                 *)
BugBranchOffset(I) ==
    (RightBy(I, 20) \cap {11}) \cup (RightBy(I, 7) \cap {0}) \cup
    (RightBy(I, 21) \cap 4 .. 9) \cup (RightBy(I, 8) \cap 0 .. 3)

BranchOffset(I) ==
    (RightBy(I, 20) \cap {11}) \cup (LeftBy(I, 3) \cap {10}) \cup
    (RightBy(I, 21) \cap 4 .. 9) \cup (RightBy(I, 8) \cap 0 .. 3)

(* LOAD, STORE and ITYPE test the instruction's own top bit and fill from   *)
(* 12 up.                                                                   *)
Filled(I, M) == IF 31 \in I THEN M \cup 12 .. 31 ELSE M

StoreOffset(I) == (RightBy(I, 20) \cap 5 .. 11) \cup (RightBy(I, 7) \cap 0 .. 4)

getImmediate(opcode, I) ==
    CASE opcode \in {"LUI", "AUIPC"} -> I \cap 12 .. 31
      [] opcode = "JAL" -> LeftBy(SignExtended(JalOffset(I), 19), 1)
      [] opcode = "JALR" -> SignExtended(RightBy(I, 20) \cap 0 .. 11, 11)
      [] opcode = "BTYPE" -> LeftBy(SignExtended(BranchOffset(I), 11), 1)
      [] opcode = "LOAD" -> Filled(I, RightBy(I, 20))
      [] opcode = "STORE" -> Filled(I, StoreOffset(I))
      [] opcode = "ITYPE" ->
            IF ShiftsByImmediate(I) THEN Filled(I, RightBy(I, 20)) \cap 0 .. 4
            ELSE Filled(I, RightBy(I, 20))
      [] opcode = "PRIV" -> RightBy(I, 20) \cap 0 .. 11
      [] OTHER -> {}

-----------------------------------------------------------------------------
(* The layout RV32I prescribes: which bit of the instruction is bit k of    *)
(* the immediate (None for a bit that is 0).                                *)
None == -1

LayoutU(k) == IF k < 12 THEN None ELSE k
LayoutI(k) == IF k <= 10 THEN k + 20 ELSE 31
LayoutS(k) == IF k <= 4 THEN k + 7 ELSE IF k <= 10 THEN k + 20 ELSE 31
LayoutB(k) == IF k = 0 THEN None ELSE IF k = 11 THEN 7 ELSE LayoutS(k)
LayoutJ(k) ==
    IF k = 0 THEN None ELSE IF k = 11 THEN 20
    ELSE IF k <= 10 THEN k + 20 ELSE IF k <= 19 THEN k ELSE 31
LayoutShift(k) == IF k <= 4 THEN k + 20 ELSE None
LayoutCsr(k) == IF k <= 11 THEN k + 20 ELSE None

Layout(opcode, I, k) ==
    CASE opcode \in {"LUI", "AUIPC"} -> LayoutU(k)
      [] opcode = "JAL" -> LayoutJ(k)
      [] opcode \in {"JALR", "LOAD"} -> LayoutI(k)
      [] opcode = "BTYPE" -> LayoutB(k)
      [] opcode = "STORE" -> LayoutS(k)
      [] opcode = "ITYPE" -> IF ShiftsByImmediate(I) THEN LayoutShift(k) ELSE LayoutI(k)
      [] opcode = "PRIV" -> LayoutCsr(k)
      [] OTHER -> None

ImmediateOfRV32I(opcode, I) == {k \in BitPositions : Layout(opcode, I, k) \in I}
=============================================================================
