-------------------------------- MODULE Alu ---------------------------------
(***************************************************************************)
(* The combinational units of the datapath: AluControlUnit (which          *)
(* operation an instruction selects), Alu (what it computes) and the       *)
(* comparator NextPc uses for branches.                                    *)
(***************************************************************************)
EXTENDS Word

AluOps == {"ADD", "SUB", "OR", "AND", "XOR", "SRL", "SRA", "SLL", "SLT", "SLTU"}

(* AluControlUnit::getAluOperation.  The tables iOperations and rOperations *)
(* differ only in entry 0, which for R-type is resolved by funct7.          *)
getAluOperation(opcode, funct7, funct3) ==
    LET table == <<"ADD", "SLL", "SLT", "SLTU", "XOR", "SRL", "OR", "AND">>
    IN  CASE opcode \in {"ITYPE", "RTYPE"} /\ funct3 = 5 ->
               IF funct7 = 0 THEN "SRL" ELSE "SRA"
          [] opcode = "RTYPE" /\ funct3 = 0 -> IF funct7 = 0 THEN "ADD" ELSE "SUB"
          [] \/ opcode = "ITYPE" /\ funct3 \in {0, 1, 2, 3, 4, 6, 7}
             \/ opcode = "RTYPE" /\ funct3 \in {1, 2, 3, 4, 6, 7} -> table[funct3 + 1]
          [] opcode = "BTYPE" -> "SUB"
          [] OTHER -> "ADD"

(* A shift by XLEN or more is undefined in C++.  The outcomes a build can  *)
(* produce: the count is reduced modulo the width (the shift instructions  *)
(* of x86 and ARM), or every bit is shifted out.                           *)
ShiftCounts(b) == IF b < XLEN THEN {b} ELSE {b % XLEN, XLEN}

(* Definitions named Bug... are plausible mistakes, not the code: they are  *)
(* never used here, and are there to see which property each would break.   *)
BugNoSignMask(a) == WordOf({})

(* msb of Alu::execute, -(A >> 31): all ones for a negative A.              *)
SignMask(a) == WordOf(IF SignBit(a) THEN Positions ELSE {})

Flag(condition) == IF condition THEN 1 ELSE 0

(* Alu::execute: the set of results the call may return, a singleton except *)
(* for a shift by XLEN or more.                                             *)
execute(A, B, aluOp) ==
    CASE aluOp = "ADD"  -> {Plus(A, B)}
      [] aluOp = "SUB"  -> {Minus(A, B)}
      [] aluOp = "OR"   -> {BitOr(A, B)}
      [] aluOp = "AND"  -> {BitAnd(A, B)}
      [] aluOp = "XOR"  -> {BitXor(A, B)}
      [] aluOp = "SRL"  -> {ShiftRight(A, n) : n \in ShiftCounts(B)}
      [] aluOp = "SRA"  -> {BitXor(ShiftRight(BitXor(SignMask(A), A), n), SignMask(A)) :
                              n \in ShiftCounts(B)}
      [] aluOp = "SLL"  -> {ShiftLeft(A, n) : n \in ShiftCounts(B)}
      [] aluOp = "SLT"  -> {Flag(SignBit(Minus(A, B)))}
      [] aluOp = "SLTU" -> {Flag(A < B)}
      [] OTHER          -> {0}

BugBgeuExcludesEqual(A, B, funct3) ==
    CASE funct3 = 0 -> A = B
      [] funct3 = 1 -> A # B
      [] funct3 = 4 -> SignBit(Minus(A, B))
      [] funct3 = 5 -> ~ SignBit(Minus(A, B))
      [] funct3 = 6 -> A < B
      [] funct3 = 7 -> A > B
      [] OTHER      -> FALSE

(* NextPc::branchAlu: is the branch with this funct3 taken?                 *)
branchAlu(A, B, funct3) ==
    LET aluOut == Minus(A, B)
    IN  CASE funct3 = 0 -> aluOut = 0
          [] funct3 = 1 -> aluOut # 0
          [] funct3 = 4 -> SignBit(aluOut)
          [] funct3 = 5 -> ~ SignBit(aluOut)
          [] funct3 = 6 -> A < B
          [] funct3 = 7 -> A >= B
          [] OTHER      -> FALSE
=============================================================================
