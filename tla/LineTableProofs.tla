-------------------------- MODULE LineTableProofs ---------------------------
(***************************************************************************)
(* The matrix of the line number program is the one the DWARF standard     *)
(* derives, for every header, every width of the integers and every        *)
(* program.                                                                *)
(***************************************************************************)
EXTENDS LineTable, Induction, SequenceTheorems

OpcodeNames ==
    {"special", "copy", "advance_pc", "advance_line", "set_file", "negate_stmt",
     "const_add_pc", "fixed_advance_pc", "set_prologue_end", "set_epilogue_begin",
     "set_address", "end_sequence", "other"}

Opcodes == UNION {[op : {name}, n : Operands(name)] : name \in OpcodeNames}

LineEntries ==
    [address : 0 .. UIntSize - 1, line : 0 .. UIntSize - 1, file : {1} \cup Operands("set_file"),
     isStmt : BOOLEAN, marks : SUBSET {"prologueEnd", "epilogueBegin"}]

(* Where the operations counted by opIndex begin.                           *)
StretchStart(q) == LastOf({"set_address", "fixed_advance_pc"}, q)

(* The opcodes of program p's sequence up to place i, and of the sequence   *)
(* that has not ended.                                                      *)
UpTo(p, i) == SubSeq(p, 1 + LastOf({"end_sequence"}, SubSeq(p, 1, i - 1)), i)
Open(p) == SubSeq(p, 1 + LastOf({"end_sequence"}, p), Len(p))

(* opIndex by the standard.                                                 *)
Index(q) == Operations(q, StretchStart(q) + 1, Len(q)) % maximumOperationsPerInstruction

RowsOf(p) == {i \in DOMAIN p : p[i].op \in RowOps}
MatrixOf(p, matrix) ==
    /\ Len(matrix) = Cardinality(RowsOf(p))
    /\ \A i \in RowsOf(p) :
           matrix[Cardinality({j \in RowsOf(p) : j <= i})] = RowOf(UpTo(p, i))

(* The inductive invariant: the registers are what the standard derives     *)
(* from the current sequence, and the matrix what it derives from all.      *)
Registers(q) ==
    /\ address = UInt(AddressOf(q))
    /\ opIndex = Index(q)
    /\ line = UInt(LineOf(q)) /\ file = FileOf(q)
    /\ isStmt = IsStmtOf(q) /\ marks = MarksOf(q)

MatrixInv ==
    /\ program \in Seq(Opcodes) /\ lineMatrix \in Seq(LineEntries)
    /\ Registers(Open(program))
    /\ MatrixOf(program, lineMatrix)

-----------------------------------------------------------------------------
(* LastOf is 0 or the last place of an opcode among ops.                    *)
LEMMA LastOfFacts ==
    ASSUME NEW q \in Seq(Opcodes), NEW ops
    PROVE  /\ LastOf(ops, q) \in 0 .. Len(q)
           /\ LastOf(ops, q) = 0 \/ q[LastOf(ops, q)].op \in ops
           /\ \A j \in LastOf(ops, q) + 1 .. Len(q) : q[j].op \notin ops
<1> DEFINE S == {0} \cup {j \in DOMAIN q : q[j].op \in ops}
<1>1. Len(q) \in Nat /\ DOMAIN q = 1 .. Len(q)
  OBVIOUS
<1>2. S \in SUBSET (0 .. Len(q)) /\ S # {}
  BY <1>1
<1>3. Max(S) \in S /\ \A y \in S : Max(S) >= y
  BY <1>1, <1>2, GreatestElement
<1>4. LastOf(ops, q) = Max(S)
  BY DEF LastOf
<1>5. \A j \in Max(S) + 1 .. Len(q) : j \in S => FALSE
  BY <1>1, <1>2, <1>3
<1>6. \A j \in Max(S) + 1 .. Len(q) : q[j].op \notin ops
  BY <1>1, <1>2, <1>3, <1>5
<1> QED
  BY <1>2, <1>3, <1>4, <1>6

LEMMA LastOfIs ==
    ASSUME NEW q \in Seq(Opcodes), NEW ops, NEW k \in 0 .. Len(q),
           k = 0 \/ q[k].op \in ops, \A j \in k + 1 .. Len(q) : q[j].op \notin ops
    PROVE  LastOf(ops, q) = k
<1> DEFINE i == LastOf(ops, q)
<1>1. i \in 0 .. Len(q) /\ (i = 0 \/ q[i].op \in ops)
      /\ \A j \in i + 1 .. Len(q) : q[j].op \notin ops
  BY LastOfFacts
<1> HIDE DEF i
<1>2. ~ (i < k)
  BY <1>1
<1>3. ~ (k < i)
  BY <1>1
<1> QED
  BY <1>1, <1>2, <1>3 DEF i

LEMMA Appended ==
    ASSUME NEW q \in Seq(Opcodes), NEW x \in Opcodes
    PROVE  /\ Append(q, x) \in Seq(Opcodes)
           /\ Len(q) \in Nat /\ DOMAIN q = 1 .. Len(q)
           /\ Len(Append(q, x)) = Len(q) + 1
           /\ DOMAIN Append(q, x) = 1 .. Len(q) + 1
           /\ Append(q, x)[Len(q) + 1] = x
           /\ \A j \in 1 .. Len(q) : Append(q, x)[j] = q[j]
  OBVIOUS

LEMMA LastOfAppended ==
    ASSUME NEW q \in Seq(Opcodes), NEW x \in Opcodes, NEW ops
    PROVE  LastOf(ops, Append(q, x)) = IF x.op \in ops THEN Len(q) + 1 ELSE LastOf(ops, q)
<1> DEFINE p == Append(q, x)
           k == IF x.op \in ops THEN Len(q) + 1 ELSE LastOf(ops, q)
<1>1. p \in Seq(Opcodes) /\ Len(p) = Len(q) + 1 /\ p[Len(q) + 1] = x /\ Len(q) \in Nat
      /\ \A j \in 1 .. Len(q) : p[j] = q[j]
  BY Appended
<1>2. LastOf(ops, q) \in 0 .. Len(q) /\ (LastOf(ops, q) = 0 \/ q[LastOf(ops, q)].op \in ops)
      /\ \A j \in LastOf(ops, q) + 1 .. Len(q) : q[j].op \notin ops
  BY LastOfFacts
<1> HIDE DEF p
<1>3. k \in 0 .. Len(p)
  BY <1>1, <1>2
<1>4. k = 0 \/ p[k].op \in ops
  <2>1. CASE x.op \in ops
    BY <1>1, <2>1
  <2>2. CASE x.op \notin ops
    BY <1>1, <1>2, <2>2
  <2> QED
    BY <2>1, <2>2
<1>5. \A j \in k + 1 .. Len(p) : p[j].op \notin ops
  <2>1. CASE x.op \in ops
    BY <1>1, <2>1
  <2>2. ASSUME x.op \notin ops, NEW j \in k + 1 .. Len(p)
        PROVE  p[j].op \notin ops
    <3>1. j = Len(q) + 1 \/ j \in LastOf(ops, q) + 1 .. Len(q)
      BY <1>1, <1>2, <2>2
    <3> QED
      BY <1>1, <1>2, <2>2, <3>1
  <2> QED
    BY <2>1, <2>2
<1> HIDE DEF k
<1>6. LastOf(ops, p) = k
  BY <1>1, <1>3, <1>4, <1>5, LastOfIs
<1> QED
  BY <1>6 DEF p, k

-----------------------------------------------------------------------------
LEMMA OpcodeType ==
    ASSUME NEW x \in Opcodes
    PROVE  /\ x.op \in OpcodeNames /\ x.n \in Operands(x.op)
           /\ OperationAdvance(x) \in Int /\ LineAdvance(x) \in Int
<1>1. PICK name \in OpcodeNames : x \in [op : {name}, n : Operands(name)]
  BY DEF Opcodes
<1>2. x.op = name /\ x.n \in Operands(x.op)
  BY <1>1
<1>3. x.op \in {"special", "advance_pc", "advance_line"} => x.n \in Int
  BY <1>2, OperandsAssumption
<1>4. lineRange \in Nat \ {0} /\ 255 - opcodeBase \in Int /\ lineBase \in Int
  BY HeaderAssumption
<1>5. (255 - opcodeBase) \div lineRange \in Int
  BY <1>4, Division
<1>6. \A n \in Int : n \div lineRange \in Int /\ lineBase + (n % lineRange) \in Int
  <2> TAKE n \in Int
  <2>1. n \div lineRange \in Int /\ n % lineRange \in 0 .. lineRange - 1
    BY <1>4, Division
  <2> QED
    BY <1>4, <2>1
<1>7. OperationAdvance(x) \in Int
  BY <1>3, <1>5, <1>6 DEF OperationAdvance
<1>8. LineAdvance(x) \in Int
  BY <1>3, <1>6 DEF LineAdvance
<1> QED
  BY <1>1, <1>2, <1>7, <1>8

LEMMA OperationsType ==
    ASSUME NEW q \in Seq(Opcodes), NEW a \in Nat \ {0}, NEW b \in 0 .. Len(q)
    PROVE  Operations(q, a, b) \in Int /\ (b < a => Operations(q, a, b) = 0)
<1> DEFINE g == [j \in DOMAIN q |-> OperationAdvance(q[j])]
<1>1. Len(q) \in Nat /\ DOMAIN q = 1 .. Len(q) /\ \A j \in 1 .. Len(q) : q[j] \in Opcodes
  OBVIOUS
<1>2. \A j \in 1 .. Len(q) : g[j] \in Int
  BY <1>1, OpcodeType
<1>3. Operations(q, a, b) = SumFunctionOnSet(g, a .. b)
  BY DEF Operations
<1> HIDE DEF g
<1>4. a .. b \subseteq 1 .. Len(q) /\ a \in Int /\ b \in Int
  BY <1>1
<1>5. IsFiniteSet(a .. b) /\ \A j \in a .. b : g[j] \in Int
  BY <1>2, <1>4, FS_Interval
<1>6. SumFunctionOnSet(g, a .. b) \in Int /\ SumFunctionOnSet(g, {}) = 0
  BY <1>5, SumFacts
<1>7. b < a => a .. b = {}
  BY <1>4
<1> QED
  BY Zenon, <1>3, <1>6, <1>7

(* Operations add up.                                                       *)
LEMMA OperationsAdd ==
    ASSUME NEW q \in Seq(Opcodes), NEW x \in Opcodes, NEW a \in Nat \ {0}, NEW b \in 0 .. Len(q)
    PROVE  /\ Operations(Append(q, x), a, b) = Operations(q, a, b)
           /\ a <= Len(q) + 1 => Operations(Append(q, x), a, Len(q) + 1)
                                 = Operations(q, a, Len(q)) + OperationAdvance(x)
<1> DEFINE p == Append(q, x)
           g == [j \in DOMAIN q |-> OperationAdvance(q[j])]
           h == [j \in DOMAIN p |-> OperationAdvance(p[j])]
<1>1. /\ Len(q) \in Nat /\ DOMAIN q = 1 .. Len(q) /\ DOMAIN p = 1 .. Len(q) + 1
      /\ p[Len(q) + 1] = x /\ \A j \in 1 .. Len(q) : p[j] = q[j] /\ q[j] \in Opcodes
  BY Appended
<1>2. \A j \in 1 .. Len(q) : g[j] \in Int /\ g[j] = h[j]
  <2> TAKE j \in 1 .. Len(q)
  <2>1. q[j] \in Opcodes /\ p[j] = q[j] /\ j \in DOMAIN p /\ j \in DOMAIN q
    BY <1>1
  <2>2. OperationAdvance(q[j]) \in Int
    BY <2>1, OpcodeType
  <2> QED
    BY <2>1, <2>2
<1>3. h[Len(q) + 1] = OperationAdvance(x) /\ h[Len(q) + 1] \in Int
  <2>1. Len(q) + 1 \in DOMAIN p
    BY <1>1
  <2>2. h[Len(q) + 1] = OperationAdvance(x)
    BY <1>1, <2>1
  <2> QED
    BY <2>2, OpcodeType
<1>4. /\ \A c \in Int : Operations(q, a, c) = SumFunctionOnSet(g, a .. c)
      /\ \A c \in Int : Operations(p, a, c) = SumFunctionOnSet(h, a .. c)
  BY DEF Operations
<1> HIDE DEF p, g, h
<1>5. \A c \in 0 .. Len(q) : IsFiniteSet(a .. c) /\ a .. c \subseteq 1 .. Len(q)
  <2> TAKE c \in 0 .. Len(q)
  <2>1. a \in Int /\ c \in Int
    BY <1>1
  <2>2. IsFiniteSet(a .. c)
    BY <2>1, FS_Interval
  <2> QED
    BY <1>1, <2>2
<1>6. \A c \in 0 .. Len(q) : /\ SumFunctionOnSet(g, a .. c) \in Int
                             /\ SumFunctionOnSet(h, a .. c) = SumFunctionOnSet(g, a .. c)
  <2> TAKE c \in 0 .. Len(q)
  <2>1. \A j \in a .. c : g[j] \in Int /\ g[j] = h[j]
    BY <1>2, <1>5
  <2>2. IsFiniteSet(a .. c)
    BY <1>5
  <2> QED
    BY <2>1, <2>2, SumFacts, SumAgrees
<1>7. ASSUME a <= Len(q) + 1
      PROVE  SumFunctionOnSet(h, a .. Len(q) + 1)
             = SumFunctionOnSet(g, a .. Len(q)) + h[Len(q) + 1]
  <2> DEFINE S == a .. Len(q)
             y == Len(q) + 1
  <2>1. a .. y = S \cup {y} /\ y \notin S /\ S \subseteq 1 .. Len(q)
    BY <1>1, <1>7
  <2>2. IsFiniteSet(S)
    BY <1>1, <1>5
  <2>3. \A j \in S : g[j] \in Int /\ g[j] = h[j]
    BY <1>2, <2>1
  <2>4. h[y] \in Int
    BY <1>3
  <2> HIDE DEF S, y
  <2>5. SumFunctionOnSet(h, S \cup {y}) = SumFunctionOnSet(g, S) + h[y]
    BY <2>1, <2>2, <2>3, <2>4, SumGrows
  <2> QED
    BY <2>1, <2>5 DEF S, y
<1>8. b \in Int /\ Len(q) \in Int /\ Len(q) + 1 \in Int /\ Len(q) \in 0 .. Len(q)
  BY <1>1
<1> QED
  BY Zenon, <1>3, <1>4, <1>6, <1>7, <1>8 DEF p

(* The places that set the address, move it and start its stretches.        *)
LEMMA Stretches ==
    ASSUME NEW q \in Seq(Opcodes)
    PROVE  /\ Base(q) \in 0 .. Len(q) /\ Fixed(q) \subseteq Base(q) + 1 .. Len(q)
           /\ IsFiniteSet(Fixed(q))
           /\ StretchStart(q) \in Fixed(q) \cup {Base(q)}
           /\ \A j \in Fixed(q) \cup {Base(q)} : j <= StretchStart(q)
<1>1. Len(q) \in Nat /\ DOMAIN q = 1 .. Len(q)
  OBVIOUS
<1>2. /\ Base(q) \in 0 .. Len(q) /\ (Base(q) = 0 \/ q[Base(q)].op \in {"set_address"})
      /\ \A j \in Base(q) + 1 .. Len(q) : q[j].op \notin {"set_address"}
  BY LastOfFacts DEF Base
<1> DEFINE s == StretchStart(q)
<1>3. /\ s \in 0 .. Len(q) /\ (s = 0 \/ q[s].op \in {"set_address", "fixed_advance_pc"})
      /\ \A j \in s + 1 .. Len(q) : q[j].op \notin {"set_address", "fixed_advance_pc"}
  BY LastOfFacts DEF StretchStart
<1> HIDE DEF s
<1>4. IsFiniteSet(Base(q) + 1 .. Len(q)) /\ Fixed(q) \subseteq Base(q) + 1 .. Len(q)
  <2>1. Base(q) + 1 \in Int /\ Len(q) \in Int
    BY <1>1, <1>2
  <2> QED
    BY <2>1, FS_Interval DEF Fixed
<1>5. Base(q) <= s
  <2> SUFFICES ASSUME s < Base(q) PROVE FALSE
    BY <1>1, <1>2, <1>3
  <2>1. Base(q) \in s + 1 .. Len(q) /\ Base(q) # 0
    BY <1>1, <1>2, <1>3
  <2> QED
    BY <1>2, <1>3, <2>1
<1>6. \A j \in Fixed(q) : j <= s
  <2> SUFFICES ASSUME NEW j \in Fixed(q), s < j PROVE FALSE
    BY <1>1, <1>2, <1>3, <1>4
  <2>1. j \in s + 1 .. Len(q) /\ q[j].op = "fixed_advance_pc"
    BY <1>1, <1>2, <1>3, <1>4 DEF Fixed
  <2> QED
    BY <1>3, <2>1
<1>7. s \in Fixed(q) \cup {Base(q)}
  <2> SUFFICES ASSUME s # Base(q) PROVE s \in Fixed(q)
    OBVIOUS
  <2>1. s \in Base(q) + 1 .. Len(q) /\ s # 0
    BY <1>1, <1>2, <1>3, <1>5
  <2>2. q[s].op = "fixed_advance_pc"
    BY <1>2, <1>3, <2>1
  <2> QED
    BY <2>1, <2>2 DEF Fixed
<1> QED
  BY <1>2, <1>4, <1>5, <1>6, <1>7, FS_Subset DEF s

(* A stretch ends in front of the next start of one, or with the sequence.  *)
LEMMA StretchEnds ==
    ASSUME NEW q \in Seq(Opcodes), NEW i \in Fixed(q) \cup {Base(q)}
    PROVE  /\ i \in Nat /\ StretchEnd(q, i) \in 0 .. Len(q)
           /\ Instructions(q, i) \in Int
           /\ i = StretchStart(q) => StretchEnd(q, i) = Len(q)
           /\ i # StretchStart(q) => /\ StretchEnd(q, i) + 1 \in Fixed(q)
                                     /\ i < StretchEnd(q, i) + 1
                                     /\ \A j \in Fixed(q) : i < j => StretchEnd(q, i) + 1 <= j
<1> DEFINE S == {j \in Fixed(q) : i < j} \cup {Len(q) + 1}
           s == StretchStart(q)
<1>1. Len(q) \in Nat
  OBVIOUS
<1>2. /\ Base(q) \in 0 .. Len(q) /\ Fixed(q) \subseteq Base(q) + 1 .. Len(q)
      /\ s \in Fixed(q) \cup {Base(q)} /\ \A j \in Fixed(q) \cup {Base(q)} : j <= s
  BY Stretches
<1>3. i \in 0 .. Len(q) /\ s \in 0 .. Len(q) /\ i <= s
  BY <1>1, <1>2
<1>4. S \in SUBSET Nat /\ S # {}
  BY <1>1, <1>2
<1> HIDE DEF s
<1>5. Min(S) \in S /\ \A y \in S : Min(S) <= y
  <2> HIDE DEF S
  <2> QED
    BY <1>4, MinOfNat
<1>6. StretchEnd(q, i) = Min(S) - 1
  BY DEF StretchEnd
<1> DEFINE m == Min(S)
<1>7. m \in S /\ m \in Nat /\ \A y \in S : m <= y
  BY <1>4, <1>5
<1> HIDE DEF m
<1>8. m - 1 \in 0 .. Len(q)
  BY <1>1, <1>2, <1>3, <1>7
<1>9. i = s => m = Len(q) + 1
  BY <1>1, <1>2, <1>7
<1>10. i # s => m \in Fixed(q) /\ i < m /\ \A j \in Fixed(q) : i < j => m <= j
  <2> SUFFICES ASSUME i # s
               PROVE  m \in Fixed(q) /\ i < m /\ \A j \in Fixed(q) : i < j => m <= j
    OBVIOUS
  <2>1. i < s
    BY <1>3
  <2>2. s # Base(q)
    BY <1>2, <1>3, <2>1
  <2>3. s \in Fixed(q) /\ s \in S
    BY <1>2, <2>1, <2>2
  <2>4. m <= s /\ m # Len(q) + 1
    BY <1>3, <1>7, <2>3
  <2>5. m \in Fixed(q) /\ i < m
    BY <1>7, <2>4
  <2> QED
    BY <1>7, <2>5
<1>11. Instructions(q, i) \in Int
  <2>1. i + 1 \in Nat \ {0} /\ StretchEnd(q, i) \in 0 .. Len(q)
    BY <1>3, <1>6, <1>8 DEF m
  <2>2. Operations(q, i + 1, StretchEnd(q, i)) \in Int
    BY <2>1, OperationsType
  <2> QED
    BY <2>2, HeaderAssumption, Division DEF Instructions
<1>12. m - 1 + 1 = m /\ StretchEnd(q, i) = m - 1
  BY <1>6, <1>7 DEF m
<1> QED
  BY <1>3, <1>8, <1>9, <1>10, <1>11, <1>12, <1>1 DEF s

(* The terms of AddressOf.                                                  *)
Moves(q) == [j \in Fixed(q) |-> q[j].n]
Stretch(q) == [i \in Fixed(q) \cup {Base(q)} |-> Instructions(q, i)]
Start(q) == IF Base(q) = 0 THEN 0 ELSE q[Base(q)].n

LEMMA AddressTerms ==
    ASSUME NEW q \in Seq(Opcodes)
    PROVE  /\ IsFiniteSet(Fixed(q) \cup {Base(q)})
           /\ \A j \in Fixed(q) : Moves(q)[j] \in Int
           /\ \A i \in Fixed(q) \cup {Base(q)} : Stretch(q)[i] \in Int
           /\ Start(q) \in Int
           /\ SumFunctionOnSet(Moves(q), Fixed(q)) \in Int
           /\ SumFunctionOnSet(Stretch(q), Fixed(q) \cup {Base(q)}) \in Int
           /\ AddressOf(q) = Start(q) + SumFunctionOnSet(Moves(q), Fixed(q))
                + minimumInstructionLength
                      * SumFunctionOnSet(Stretch(q), Fixed(q) \cup {Base(q)})
<1>1. IsFiniteSet(Fixed(q)) /\ Base(q) \in 0 .. Len(q) /\ Fixed(q) \subseteq 1 .. Len(q)
  BY Stretches
<1>2. IsFiniteSet(Fixed(q) \cup {Base(q)})
  BY <1>1, FS_AddElement
<1>3. \A j \in 1 .. Len(q) : q[j].n \in Operands(q[j].op)
  <2> TAKE j \in 1 .. Len(q)
  <2>1. q[j] \in Opcodes
    OBVIOUS
  <2> QED
    BY <2>1, OpcodeType
<1>4. \A j \in Fixed(q) : Moves(q)[j] \in Int
  BY <1>1, <1>3, OperandsAssumption DEF Moves, Fixed
<1>5. \A i \in Fixed(q) \cup {Base(q)} : Stretch(q)[i] \in Int
  BY StretchEnds DEF Stretch
<1>6. Start(q) \in Int
  <2>1. Base(q) = 0 \/ q[Base(q)].op \in {"set_address"}
    BY LastOfFacts DEF Base
  <2>2. Base(q) # 0 => Base(q) \in 1 .. Len(q)
    BY <1>1
  <2>3. Base(q) # 0 => q[Base(q)].n \in 0 .. UIntSize - 1
    BY <1>3, <2>1, <2>2, OperandsAssumption
  <2> QED
    BY <2>3, HeaderAssumption DEF Start
<1>7. /\ SumFunctionOnSet(Moves(q), Fixed(q)) \in Int
      /\ SumFunctionOnSet(Stretch(q), Fixed(q) \cup {Base(q)}) \in Int
  BY <1>1, <1>2, <1>4, <1>5, SumFacts
<1>8. DOMAIN Moves(q) = Fixed(q) /\ DOMAIN Stretch(q) = Fixed(q) \cup {Base(q)}
  BY DEF Moves, Stretch
<1>9. AddressOf(q) = Start(q) + SumFunctionOnSet(Moves(q), Fixed(q))
                + minimumInstructionLength
                      * SumFunctionOnSet(Stretch(q), Fixed(q) \cup {Base(q)})
  <2>1. AddressOf(q) = Start(q) + SumFunction(Moves(q))
                + minimumInstructionLength * SumFunction(Stretch(q))
    BY DEF AddressOf, Start, Moves, Stretch
  <2> QED
    BY Zenon, <1>8, <2>1 DEF SumFunction
<1> QED
  BY <1>2, <1>4, <1>5, <1>6, <1>7, <1>9

(* An opcode that starts no stretch adds its operations to the last one.    *)
LEMMA AddressAdvances ==
    ASSUME NEW q \in Seq(Opcodes), NEW x \in Opcodes,
           x.op \notin {"set_address", "fixed_advance_pc"}
    PROVE  LET p == Append(q, x)
               s == StretchStart(q)
               done == Operations(q, s + 1, Len(q))
           IN  /\ StretchStart(p) = s
               /\ done \in Int
               /\ Operations(p, s + 1, Len(q) + 1) = done + OperationAdvance(x)
               /\ AddressOf(p) = AddressOf(q) + minimumInstructionLength *
                    ((done + OperationAdvance(x)) \div maximumOperationsPerInstruction
                     - done \div maximumOperationsPerInstruction)
<1> DEFINE p == Append(q, x)
           s == StretchStart(q)
           done == Operations(q, s + 1, Len(q))
           d == OperationAdvance(x)
           F == Fixed(q)
           B == Base(q)
           M == maximumOperationsPerInstruction
<1>1. /\ p \in Seq(Opcodes) /\ Len(q) \in Nat /\ Len(p) = Len(q) + 1 /\ p[Len(q) + 1] = x
      /\ \A j \in 1 .. Len(q) : p[j] = q[j]
  BY Appended
<1> HIDE DEF p
<1>2. Base(p) = B /\ StretchStart(p) = s
  BY LastOfAppended DEF Base, StretchStart, p
<1>3. /\ B \in 0 .. Len(q) /\ F \subseteq B + 1 .. Len(q) /\ IsFiniteSet(F \cup {B})
      /\ s \in F \cup {B} /\ \A j \in F \cup {B} : j <= s
  BY Stretches, AddressTerms
<1>4. Fixed(p) = F
  <2>1. \A j : j \in B + 1 .. Len(q) + 1 <=> j \in B + 1 .. Len(q) \/ j = Len(q) + 1
    BY <1>1, <1>3
  <2>2. \A j \in B + 1 .. Len(q) : p[j].op = q[j].op
    BY <1>1, <1>3
  <2> QED
    BY <1>1, <1>2, <2>1, <2>2 DEF Fixed
<1>5. s \in 0 .. Len(q) /\ s + 1 \in Nat \ {0} /\ s + 1 <= Len(q) + 1
  BY <1>1, <1>3
<1>6. /\ done \in Int /\ d \in Int
      /\ Operations(p, s + 1, Len(q) + 1) = done + d
  BY <1>1, <1>5, OperationsType, OperationsAdd, OpcodeType DEF p
<1>7. M \in Nat \ {0} /\ minimumInstructionLength \in Int
  BY HeaderAssumption
<1>8. StretchEnd(q, s) = Len(q) /\ StretchEnd(p, s) = Len(q) + 1
  <2>1. s \in Fixed(p) \cup {Base(p)}
    BY <1>2, <1>3, <1>4
  <2> QED
    BY <1>1, <1>2, <1>3, <2>1, StretchEnds
<1>9. \A i \in (F \cup {B}) \ {s} : Instructions(p, i) = Instructions(q, i)
  <2> TAKE i \in (F \cup {B}) \ {s}
  <2> DEFINE e == StretchEnd(q, i)
             f == StretchEnd(p, i)
  <2>1. i \in Nat /\ e \in 0 .. Len(q) /\ e + 1 \in F /\ i < e + 1
        /\ \A j \in F : i < j => e + 1 <= j
    BY StretchEnds
  <2>2. i \in Fixed(p) \cup {Base(p)} /\ i # StretchStart(p)
    BY <1>2, <1>4
  <2>3. f \in 0 .. Len(p) /\ f + 1 \in F /\ i < f + 1 /\ \A j \in F : i < j => f + 1 <= j
    BY <1>1, <1>4, <2>2, StretchEnds
  <2> HIDE DEF e, f
  <2>4. e = f
    <3>1. e + 1 <= f + 1 /\ f + 1 <= e + 1
      BY <2>1, <2>3
    <3> QED
      BY <1>1, <2>1, <2>3, <3>1
  <2>5. Operations(p, i + 1, e) = Operations(q, i + 1, e)
    BY <2>1, OperationsAdd DEF p
  <2> QED
    BY Zenon, <2>4, <2>5 DEF Instructions, e, f
<1>10. Instructions(q, s) = done \div M /\ Instructions(p, s) = (done + d) \div M
  BY <1>6, <1>8 DEF Instructions
<1> DEFINE S == F \cup {B}
           a == SumFunctionOnSet(Stretch(q), S)
           b == SumFunctionOnSet(Stretch(p), S)
<1>11. b = a - (done \div M) + ((done + d) \div M) /\ a \in Int
  <2>1. \A i \in S : Stretch(q)[i] \in Int /\ Stretch(p)[i] \in Int
    BY <1>1, <1>2, <1>4, AddressTerms
  <2>2. /\ \A i \in S : Stretch(q)[i] = Instructions(q, i)
        /\ \A i \in S : Stretch(p)[i] = Instructions(p, i)
    BY <1>2, <1>4 DEF Stretch
  <2>3. \A i \in S \ {s} : Stretch(q)[i] = Stretch(p)[i]
    BY <1>9, <2>2
  <2>4. s \in S /\ IsFiniteSet(S)
    BY <1>3
  <2> HIDE DEF S
  <2>5. b = a - Stretch(q)[s] + Stretch(p)[s]
    BY <2>1, <2>3, <2>4, SumChanges
  <2>6. a \in Int
    BY <2>1, <2>4, SumFacts
  <2> QED
    BY <1>10, <2>2, <2>4, <2>5, <2>6
<1>12. Start(p) = Start(q)
  BY <1>1, <1>2, <1>3 DEF Start
<1>13. SumFunctionOnSet(Moves(p), F) = SumFunctionOnSet(Moves(q), F)
  <2>1. \A j \in F : p[j] = q[j]
    BY <1>1, <1>3
  <2>2. Moves(p) = Moves(q)
    BY <1>4, <2>1 DEF Moves
  <2> QED
    BY <2>2
<1> DEFINE t == Start(q) + SumFunctionOnSet(Moves(q), F)
<1>14. /\ t \in Int
       /\ AddressOf(q) = t + minimumInstructionLength * a
       /\ AddressOf(p) = t + minimumInstructionLength * b
  <2>1. AddressOf(q) = t + minimumInstructionLength * a
    BY Zenon, AddressTerms
  <2>2. AddressOf(p) = t + minimumInstructionLength * b
    BY <1>1, <1>2, <1>4, <1>12, <1>13, AddressTerms
  <2>3. Start(q) \in Int /\ SumFunctionOnSet(Moves(q), F) \in Int
    BY Zenon, AddressTerms
  <2> QED
    BY <2>1, <2>2, <2>3
<1> DEFINE e == (done + d) \div M - done \div M
<1>15. e \in Int /\ b = a + e
  <2>1. (done + d) \div M \in Int /\ done \div M \in Int
    BY <1>6, <1>7, Division
  <2> QED
    BY <1>11, <2>1
<1> HIDE DEF t, a, b, e, done
<1>16. minimumInstructionLength * b = minimumInstructionLength * a + minimumInstructionLength * e
  BY <1>7, <1>11, <1>15
<1>17. minimumInstructionLength * a \in Int /\ minimumInstructionLength * e \in Int
  BY <1>7, <1>11, <1>15
<1>18. AddressOf(p) = AddressOf(q) + minimumInstructionLength * e
  BY <1>14, <1>16, <1>17
<1> QED
  BY Zenon, <1>2, <1>6, <1>18 DEF p, e, done

(* fixed_advance_pc starts a stretch without operations.                    *)
LEMMA AddressMoves ==
    ASSUME NEW q \in Seq(Opcodes), NEW x \in Opcodes, x.op = "fixed_advance_pc"
    PROVE  LET p == Append(q, x)
           IN  /\ AddressOf(p) = AddressOf(q) + x.n
               /\ Operations(p, StretchStart(p) + 1, Len(q) + 1) = 0
<1> DEFINE p == Append(q, x)
           F == Fixed(q)
           B == Base(q)
           y == Len(q) + 1
           M == maximumOperationsPerInstruction
<1>1. /\ p \in Seq(Opcodes) /\ Len(q) \in Nat /\ Len(p) = y /\ p[y] = x
      /\ \A j \in 1 .. Len(q) : p[j] = q[j]
  BY Appended
<1> HIDE DEF p
<1>2. Base(p) = B /\ StretchStart(p) = y
  BY LastOfAppended DEF Base, StretchStart, p
<1>3. /\ B \in 0 .. Len(q) /\ F \subseteq B + 1 .. Len(q) /\ IsFiniteSet(F \cup {B})
      /\ IsFiniteSet(F) /\ StretchStart(q) \in F \cup {B}
      /\ \A j \in F \cup {B} : j <= StretchStart(q)
  BY Stretches, AddressTerms
<1>4. Fixed(p) = F \cup {y} /\ y \notin F \cup {B}
  <2>1. \A j : j \in B + 1 .. Len(q) + 1 <=> j \in B + 1 .. Len(q) \/ j = Len(q) + 1
    BY <1>1, <1>3
  <2>2. \A j \in B + 1 .. Len(q) : p[j].op = q[j].op
    BY <1>1, <1>3
  <2> QED
    BY <1>1, <1>2, <1>3, <2>1, <2>2 DEF Fixed
<1>5. Operations(p, y + 1, y) = 0
  BY <1>1, OperationsType
<1>6. StretchEnd(p, y) = y
  BY <1>1, <1>2, <1>4, StretchEnds
<1>7. Instructions(p, y) = 0
  <2>1. Instructions(p, y) = 0 \div M
    BY <1>5, <1>6 DEF Instructions
  <2>2. M \in Nat \ {0} /\ 0 = M * 0 + 0 /\ 0 \in 0 .. M - 1
    BY HeaderAssumption
  <2> QED
    BY <2>1, <2>2, Divided
<1>8. \A i \in F \cup {B} : Instructions(p, i) = Instructions(q, i)
  <2> TAKE i \in F \cup {B}
  <2> DEFINE e == StretchEnd(q, i)
             f == StretchEnd(p, i)
  <2>1. /\ i \in Nat /\ e \in 0 .. Len(q) /\ i <= StretchStart(q)
        /\ i = StretchStart(q) => e = Len(q)
        /\ i # StretchStart(q) => e + 1 \in F /\ i < e + 1 /\ \A j \in F : i < j => e + 1 <= j
    BY <1>3, StretchEnds
  <2>2. i \in Fixed(p) \cup {Base(p)} /\ i # StretchStart(p)
    BY <1>2, <1>4
  <2>3. /\ f \in 0 .. Len(p) /\ f + 1 \in F \cup {y} /\ i < f + 1
        /\ \A j \in F \cup {y} : i < j => f + 1 <= j
    BY <1>1, <1>4, <2>2, StretchEnds
  <2> HIDE DEF e, f
  <2>4. e = f
    <3>1. i < y /\ f + 1 <= y
      BY <1>1, <1>3, <2>3
    <3>2. CASE i = StretchStart(q)
      <4>1. f + 1 \notin F
        BY <1>1, <1>3, <2>1, <2>3, <3>2
      <4>2. f + 1 = y
        BY <2>3, <4>1
      <4> QED
        BY <1>1, <2>1, <2>3, <3>2, <4>2
    <3>3. CASE i # StretchStart(q)
      <4>1. e + 1 \in F /\ i < e + 1 /\ \A j \in F : i < j => e + 1 <= j
        BY <2>1, <3>3
      <4>2. f + 1 <= e + 1 /\ e + 1 < y
        BY <1>1, <1>3, <2>3, <4>1
      <4>3. f + 1 \in F
        BY <1>1, <2>1, <2>3, <4>2
      <4>4. e + 1 <= f + 1
        BY <2>3, <4>1, <4>3
      <4> QED
        BY <1>1, <2>1, <2>3, <4>2, <4>4
    <3> QED
      BY <3>2, <3>3
  <2>5. Operations(p, i + 1, e) = Operations(q, i + 1, e)
    BY <2>1, OperationsAdd DEF p
  <2> QED
    BY Zenon, <2>4, <2>5 DEF Instructions, e, f
<1> DEFINE S == F \cup {B}
<1>9. SumFunctionOnSet(Stretch(p), S \cup {y}) = SumFunctionOnSet(Stretch(q), S)
  <2>1. \A i \in S : Stretch(q)[i] \in Int
    BY AddressTerms
  <2>2. /\ \A i \in S : Stretch(q)[i] = Stretch(p)[i]
        /\ Stretch(p)[y] = 0
    BY <1>2, <1>4, <1>7, <1>8 DEF Stretch
  <2>3. IsFiniteSet(S) /\ y \notin S
    BY <1>3, <1>4
  <2>4. /\ \A i \in S : Stretch(q)[i] \in Int /\ Stretch(q)[i] = Stretch(p)[i]
        /\ Stretch(p)[y] \in Int
    BY <2>1, <2>2
  <2> DEFINE g == Stretch(q)
             h == Stretch(p)
  <2> HIDE DEF S, y, g, h
  <2>5. SumFunctionOnSet(h, S \cup {y}) = SumFunctionOnSet(g, S) + h[y]
    <3>1. \A i \in S : g[i] \in Int /\ g[i] = h[i]
      BY <2>4 DEF g, h
    <3>2. h[y] \in Int
      BY <2>4 DEF h
    <3> QED
      BY <2>3, <3>1, <3>2, SumGrows
  <2>6. SumFunctionOnSet(Stretch(q), S) \in Int
    BY <2>1, <2>3, SumFacts
  <2> QED
    BY <2>2, <2>5, <2>6 DEF g, h
<1>10. Start(p) = Start(q)
  BY <1>1, <1>2, <1>3 DEF Start
<1>11. x.n \in Int
  BY OpcodeType, OperandsAssumption
<1>12. SumFunctionOnSet(Moves(p), F \cup {y}) = SumFunctionOnSet(Moves(q), F) + x.n
  <2>1. \A j \in F : Moves(q)[j] \in Int
    BY AddressTerms
  <2>2. \A j \in F : p[j] = q[j]
    BY <1>1, <1>3
  <2>3. Moves(p)[y] = x.n /\ \A j \in F : Moves(q)[j] = Moves(p)[j]
    BY <1>1, <1>4, <2>2 DEF Moves
  <2>4. IsFiniteSet(F) /\ y \notin F
    BY <1>3, <1>4
  <2>5. /\ \A i \in F : Moves(q)[i] \in Int /\ Moves(q)[i] = Moves(p)[i]
        /\ Moves(p)[y] \in Int
    BY <1>11, <2>1, <2>3
  <2> DEFINE g == Moves(q)
             h == Moves(p)
  <2> HIDE DEF y, F, g, h
  <2>6. SumFunctionOnSet(h, F \cup {y}) = SumFunctionOnSet(g, F) + h[y]
    <3>1. \A i \in F : g[i] \in Int /\ g[i] = h[i]
      BY <2>5 DEF g, h
    <3>2. h[y] \in Int
      BY <2>5 DEF h
    <3> QED
      BY <2>4, <3>1, <3>2, SumGrows
  <2> QED
    BY <2>3, <2>6 DEF g, h
<1> DEFINE a == SumFunctionOnSet(Stretch(q), S)
           b == SumFunctionOnSet(Moves(q), F)
<1>13. /\ AddressOf(q) = Start(q) + b + minimumInstructionLength * a
       /\ Start(q) \in Int /\ b \in Int /\ a \in Int
  BY Zenon, AddressTerms
<1>14. AddressOf(p) = Start(q) + (b + x.n) + minimumInstructionLength * a
  <2>1. Fixed(p) \cup {Base(p)} = S \cup {y}
    BY <1>2, <1>4
  <2> QED
    BY Zenon, <1>1, <1>4, <1>9, <1>10, <1>12, <2>1, AddressTerms
<1> HIDE DEF a, b
<1>15. minimumInstructionLength * a \in Int
  BY <1>13, HeaderAssumption
<1>16. AddressOf(p) = AddressOf(q) + x.n
  BY <1>11, <1>13, <1>14, <1>15
<1> QED
  BY Zenon, <1>2, <1>5, <1>16 DEF p

(* set_address forgets what was there.                                      *)
LEMMA AddressSet ==
    ASSUME NEW q \in Seq(Opcodes), NEW x \in Opcodes, x.op = "set_address"
    PROVE  LET p == Append(q, x)
           IN  /\ AddressOf(p) = x.n
               /\ Operations(p, StretchStart(p) + 1, Len(q) + 1) = 0
<1> DEFINE p == Append(q, x)
           y == Len(q) + 1
<1>1. p \in Seq(Opcodes) /\ Len(q) \in Nat /\ Len(p) = y /\ p[y] = x
  BY Appended
<1> HIDE DEF p
<1>2. Base(p) = y /\ StretchStart(p) = y
  BY LastOfAppended DEF Base, StretchStart, p
<1>3. Fixed(p) = {}
  BY <1>1, <1>2 DEF Fixed
<1>4. Operations(p, y + 1, y) = 0
  BY <1>1, OperationsType
<1>5. StretchEnd(p, y) = y
  BY <1>1, <1>2, StretchEnds
<1>6. Instructions(p, y) = 0
  <2>1. Instructions(p, y) = 0 \div maximumOperationsPerInstruction
    BY <1>4, <1>5 DEF Instructions
  <2>2. /\ maximumOperationsPerInstruction \in Nat \ {0}
        /\ 0 = maximumOperationsPerInstruction * 0 + 0
        /\ 0 \in 0 .. maximumOperationsPerInstruction - 1
    BY HeaderAssumption
  <2> QED
    BY <2>1, <2>2, Divided
<1>7. Start(p) = x.n /\ x.n \in Int
  BY <1>1, <1>2, OpcodeType, OperandsAssumption, HeaderAssumption DEF Start
<1>8. SumFunctionOnSet(Moves(p), {}) = 0
  BY FS_EmptySet, SumFacts
<1>9. SumFunctionOnSet(Stretch(p), {y}) = 0
  <2>1. Stretch(p)[y] = 0
    BY <1>2, <1>6 DEF Stretch
  <2>2. IsFiniteSet({y}) /\ {y} \ {y} = {}
    BY FS_Singleton
  <2> DEFINE T == {y}
  <2>3. y \in T /\ \A i \in T : Stretch(p)[i] \in Int
    BY <2>1
  <2>4. IsFiniteSet(T) /\ T \ {y} = {}
    BY <2>2
  <2> HIDE DEF T
  <2>5. /\ SumFunctionOnSet(Stretch(p), T)
           = Stretch(p)[y] + SumFunctionOnSet(Stretch(p), T \ {y})
        /\ SumFunctionOnSet(Stretch(p), {}) = 0
    BY <2>3, <2>4, SumFacts
  <2>6. SumFunctionOnSet(Stretch(p), T) = 0 + 0
    BY Zenon, <2>1, <2>4, <2>5
  <2> QED
    BY <2>6 DEF T
<1>10. AddressOf(p) = x.n + 0 + minimumInstructionLength * 0
  <2>1. Fixed(p) \cup {Base(p)} = {y}
    BY <1>2, <1>3
  <2> QED
    BY Zenon, <1>1, <1>3, <1>7, <1>8, <1>9, <2>1, AddressTerms
<1>11. AddressOf(p) = x.n
  BY <1>7, <1>10, HeaderAssumption
<1> QED
  BY Zenon, <1>2, <1>4, <1>11 DEF p

-----------------------------------------------------------------------------
(* What an opcode more does to the other registers.                         *)
LEMMA LineAppended ==
    ASSUME NEW q \in Seq(Opcodes), NEW x \in Opcodes
    PROVE  LineOf(q) \in Int /\ LineOf(Append(q, x)) = LineOf(q) + LineAdvance(x)
<1> DEFINE p == Append(q, x)
           g == [j \in DOMAIN q |-> LineAdvance(q[j])]
           h == [j \in DOMAIN p |-> LineAdvance(p[j])]
           S == DOMAIN q
           y == Len(q) + 1
<1>1. /\ Len(q) \in Nat /\ DOMAIN q = 1 .. Len(q) /\ DOMAIN p = 1 .. y
      /\ p[y] = x /\ \A j \in 1 .. Len(q) : p[j] = q[j] /\ q[j] \in Opcodes
  BY Appended
<1>2. \A j \in S : g[j] \in Int /\ g[j] = h[j]
  <2> TAKE j \in S
  <2>1. q[j] \in Opcodes /\ p[j] = q[j] /\ j \in DOMAIN p
    BY <1>1
  <2>2. LineAdvance(q[j]) \in Int
    BY <2>1, OpcodeType
  <2> QED
    BY <2>1, <2>2
<1>3. h[y] = LineAdvance(x) /\ h[y] \in Int
  <2>1. y \in DOMAIN p
    BY <1>1
  <2>2. h[y] = LineAdvance(x)
    BY <1>1, <2>1
  <2> QED
    BY <2>2, OpcodeType
<1>4. IsFiniteSet(S) /\ y \notin S /\ S \cup {y} = DOMAIN p
  <2>1. IsFiniteSet(1 .. Len(q))
    BY <1>1, FS_Interval
  <2> QED
    BY <1>1, <2>1
<1>5. LineOf(q) = 1 + SumFunctionOnSet(g, S) /\ LineOf(p) = 1 + SumFunctionOnSet(h, DOMAIN p)
  BY DEF LineOf, SumFunction
<1> HIDE DEF p, g, h, S, y
<1>6. SumFunctionOnSet(h, S \cup {y}) = SumFunctionOnSet(g, S) + h[y]
  <2>1. h[y] \in Int /\ IsFiniteSet(S) /\ y \notin S
    BY <1>3, <1>4
  <2> QED
    BY <1>2, <2>1, SumGrows
<1>7. SumFunctionOnSet(g, S) \in Int
  BY <1>2, <1>4, SumFacts
<1>8. LineOf(p) = 1 + (SumFunctionOnSet(g, S) + h[y])
  BY Zenon, <1>4, <1>5, <1>6
<1>9. LineOf(q) \in Int /\ LineOf(p) = LineOf(q) + LineAdvance(x)
  BY <1>3, <1>5, <1>7, <1>8
<1> QED
  BY <1>9 DEF p

LEMMA FileAppended ==
    ASSUME NEW q \in Seq(Opcodes), NEW x \in Opcodes
    PROVE  FileOf(Append(q, x)) = IF x.op = "set_file" THEN x.n ELSE FileOf(q)
<1> DEFINE set == LastOf({"set_file"}, q)
<1>1. LastOf({"set_file"}, Append(q, x)) = IF x.op = "set_file" THEN Len(q) + 1 ELSE set
  BY LastOfAppended
<1>2. set \in 0 .. Len(q) /\ Len(q) \in Nat
  BY LastOfFacts
<1>3. Append(q, x)[Len(q) + 1] = x /\ \A j \in 1 .. Len(q) : Append(q, x)[j] = q[j]
  BY Appended
<1> HIDE DEF set
<1>4. CASE x.op = "set_file"
  BY <1>1, <1>2, <1>3, <1>4 DEF FileOf
<1>5. CASE x.op # "set_file"
  BY <1>1, <1>2, <1>3, <1>5 DEF FileOf, set
<1> QED
  BY <1>4, <1>5

LEMMA IsStmtAppended ==
    ASSUME NEW q \in Seq(Opcodes), NEW x \in Opcodes
    PROVE  /\ IsStmtOf(q) \in BOOLEAN
           /\ IsStmtOf(Append(q, x)) <=> IF x.op = "negate_stmt" THEN ~ IsStmtOf(q)
                                                                 ELSE IsStmtOf(q)
<1> DEFINE p == Append(q, x)
           y == Len(q) + 1
           S == {j \in DOMAIN q : q[j].op = "negate_stmt"}
           T == {j \in DOMAIN p : p[j].op = "negate_stmt"}
<1>1. /\ Len(q) \in Nat /\ DOMAIN q = 1 .. Len(q) /\ DOMAIN p = 1 .. y
      /\ p[y] = x /\ \A j \in 1 .. Len(q) : p[j] = q[j]
  BY Appended
<1>2. IsFiniteSet(S) /\ Cardinality(S) \in Nat /\ y \notin S
  <2>1. IsFiniteSet(1 .. Len(q)) /\ S \subseteq 1 .. Len(q)
    BY <1>1, FS_Interval
  <2> HIDE DEF S
  <2>2. IsFiniteSet(S)
    BY <2>1, FS_Subset
  <2> QED
    BY <1>1, <2>1, <2>2, FS_CardinalityType
<1>3. T = IF x.op = "negate_stmt" THEN S \cup {y} ELSE S
  <2>1. \A j : j \in 1 .. y <=> j \in 1 .. Len(q) \/ j = y
    BY <1>1
  <2> QED
    BY <1>1, <2>1
<1>4. (IsStmtOf(q) <=> (defaultIsStmt <=> Cardinality(S) % 2 = 0))
      /\ (IsStmtOf(p) <=> (defaultIsStmt <=> Cardinality(T) % 2 = 0))
  BY DEF IsStmtOf
<1> HIDE DEF p, S, T, y
<1>5. Cardinality(T) = IF x.op = "negate_stmt" THEN Cardinality(S) + 1 ELSE Cardinality(S)
  <2>1. Cardinality(S \cup {y}) = Cardinality(S) + 1
    BY <1>2, FS_AddElement
  <2> QED
    BY <1>3, <2>1
<1>6. \A c \in Nat : (c + 1) % 2 = 0 <=> ~ (c % 2 = 0)
  BY Z3
<1>7. IsStmtOf(p) <=> IF x.op = "negate_stmt" THEN ~ IsStmtOf(q) ELSE IsStmtOf(q)
  <2>1. CASE x.op = "negate_stmt"
    <3>1. Cardinality(T) % 2 = 0 <=> ~ (Cardinality(S) % 2 = 0)
      BY <1>2, <1>5, <1>6, <2>1
    <3> QED
      BY <1>4, <2>1, <3>1, HeaderAssumption
  <2>2. CASE x.op # "negate_stmt"
    BY <1>4, <1>5, <2>2
  <2> QED
    BY <2>1, <2>2
<1>8. IsStmtOf(q) \in BOOLEAN
  BY DEF IsStmtOf
<1> QED
  BY <1>7, <1>8 DEF p

LEMMA MarksAppended ==
    ASSUME NEW q \in Seq(Opcodes), NEW x \in Opcodes
    PROVE  /\ MarksOf(q) \subseteq {"prologueEnd", "epilogueBegin"}
           /\ MarksOf(Append(q, x)) =
                CASE x.op \in RowOps -> {}
                  [] x.op = "set_prologue_end" -> MarksOf(q) \cup {"prologueEnd"}
                  [] x.op = "set_epilogue_begin" -> MarksOf(q) \cup {"epilogueBegin"}
                  [] OTHER -> MarksOf(q)
<1> DEFINE p == Append(q, x)
           y == Len(q) + 1
           r == LastOf(RowOps, q)
           Sets(j, m, s) ==
               s[j].op = IF m = "prologueEnd" THEN "set_prologue_end" ELSE "set_epilogue_begin"
<1>1. /\ Len(q) \in Nat /\ Len(p) = y /\ p[y] = x /\ \A j \in 1 .. Len(q) : p[j] = q[j]
      /\ LastOf(RowOps, p) = (IF x.op \in RowOps THEN y ELSE r)
      /\ r \in 0 .. Len(q)
  BY Appended, LastOfAppended, LastOfFacts
<1>2. ASSUME x.op \in RowOps
      PROVE  MarksOf(p) = {}
  <2>1. LastOf(RowOps, p) + 1 .. Len(p) = {}
    BY <1>1, <1>2
  <2> QED
    BY Zenon, <2>1 DEF MarksOf
<1>3. ASSUME x.op \notin RowOps
      PROVE  MarksOf(p) = CASE x.op = "set_prologue_end" -> MarksOf(q) \cup {"prologueEnd"}
                            [] x.op = "set_epilogue_begin" -> MarksOf(q) \cup {"epilogueBegin"}
                            [] OTHER -> MarksOf(q)
  <2>1. \A j : j \in r + 1 .. y <=> j \in r + 1 .. Len(q) \/ j = y
    BY <1>1
  <2>2. \A j \in r + 1 .. Len(q) : p[j] = q[j]
    BY <1>1
  <2>3. \A m : (\E j \in r + 1 .. y : Sets(j, m, p))
               <=> (\E j \in r + 1 .. Len(q) : Sets(j, m, q)) \/ Sets(y, m, p)
    BY <2>1, <2>2
  <2>4. LastOf(RowOps, p) = r /\ Len(p) = y
    BY <1>1, <1>3
  <2>5. /\ MarksOf(q) = {m \in {"prologueEnd", "epilogueBegin"} :
                            \E j \in r + 1 .. Len(q) : Sets(j, m, q)}
        /\ MarksOf(p) = {m \in {"prologueEnd", "epilogueBegin"} :
                            \E j \in r + 1 .. y : Sets(j, m, p)}
    BY Zenon, <2>4 DEF MarksOf
  <2>6. \A m : Sets(y, m, p) <=> x.op = IF m = "prologueEnd" THEN "set_prologue_end"
                                                             ELSE "set_epilogue_begin"
    BY <1>1
  <2> HIDE DEF Sets, y, r, p
  <2>7. MarksOf(p) = MarksOf(q) \cup {m \in {"prologueEnd", "epilogueBegin"} :
            x.op = IF m = "prologueEnd" THEN "set_prologue_end" ELSE "set_epilogue_begin"}
    BY <2>3, <2>5, <2>6
  <2> QED
    BY <2>5, <2>7
<1>4. MarksOf(q) \subseteq {"prologueEnd", "epilogueBegin"}
  BY DEF MarksOf
<1> HIDE DEF p
<1>5. MarksOf(p) = CASE x.op \in RowOps -> {}
                   [] x.op = "set_prologue_end" -> MarksOf(q) \cup {"prologueEnd"}
                   [] x.op = "set_epilogue_begin" -> MarksOf(q) \cup {"epilogueBegin"}
                   [] OTHER -> MarksOf(q)
  BY <1>2, <1>3 DEF RowOps
<1> QED
  BY Zenon, <1>4, <1>5 DEF p

LEMMA NoOpcodes ==
    /\ << >> \in Seq(Opcodes)
    /\ UInt(AddressOf(<< >>)) = 0 /\ UInt(LineOf(<< >>)) = 1 /\ FileOf(<< >>) = 1
    /\ IsStmtOf(<< >>) = defaultIsStmt /\ MarksOf(<< >>) = {}
    /\ Index(<< >>) = 0
<1> DEFINE q == << >>
<1>1. q \in Seq(Opcodes) /\ Len(q) = 0 /\ DOMAIN q = {} /\ 0 \in 0 .. Len(q)
  OBVIOUS
<1> HIDE DEF q
<1>2. \A ops : LastOf(ops, q) = 0
  <2> TAKE ops
  <2>1. LastOf(ops, q) \in 0 .. Len(q)
    BY <1>1, LastOfFacts
  <2> QED
    BY <1>1, <2>1
<1>3. Base(q) = 0 /\ StretchStart(q) = 0 /\ Fixed(q) = {}
  BY <1>1, <1>2 DEF Base, StretchStart, Fixed
<1>4. Operations(q, 1, 0) = 0
  <2>1. 1 \in Nat \ {0} /\ 0 < 1
    OBVIOUS
  <2> QED
    BY Zenon, <1>1, <2>1, OperationsType
<1>5. \A M \in Nat \ {0} : 0 \div M = 0 /\ 0 % M = 0
  BY Z3
<1>6. StretchEnd(q, 0) = 0
  BY <1>1, <1>3, StretchEnds
<1>7. Instructions(q, 0) = 0
  BY <1>4, <1>5, <1>6, HeaderAssumption DEF Instructions
<1>8. SumFunctionOnSet(Stretch(q), {0}) = 0
  <2> DEFINE T == {0}
             g == Stretch(q)
  <2>1. g[0] = 0
    BY <1>3, <1>7 DEF Stretch
  <2>2. IsFiniteSet(T) /\ T \ {0} = {} /\ 0 \in T /\ \A i \in T : g[i] \in Int
    BY <2>1, FS_Singleton
  <2> HIDE DEF T, g
  <2>3. SumFunctionOnSet(g, T) = g[0] + SumFunctionOnSet(g, T \ {0})
        /\ SumFunctionOnSet(g, {}) = 0
    BY <2>2, SumFacts
  <2>4. SumFunctionOnSet(g, T) = 0 + 0
    BY Zenon, <2>1, <2>2, <2>3
  <2> QED
    BY <2>4 DEF T, g
<1>9. \A g : SumFunctionOnSet(g, {}) = 0
  <2> TAKE g
  <2>1. \A x \in {} : g[x] \in Int
    OBVIOUS
  <2> QED
    BY <2>1, FS_EmptySet, SumFacts
<1>10. AddressOf(q) = 0 + 0 + minimumInstructionLength * 0
  <2>1. Fixed(q) \cup {Base(q)} = {0}
    BY <1>3
  <2>2. Start(q) = 0
    BY <1>3 DEF Start
  <2> QED
    BY Zenon, <1>1, <1>3, <1>8, <1>9, <2>1, <2>2, AddressTerms
<1>11. AddressOf(q) = 0
  BY <1>10, HeaderAssumption
<1>12. LineOf(q) = 1
  <2>1. SumFunction([j \in DOMAIN q |-> LineAdvance(q[j])]) = 0
    BY <1>1, <1>9 DEF SumFunction
  <2> QED
    BY <2>1 DEF LineOf
<1>13. UInt(0) = 0 /\ UInt(1) = 1
  <2>1. \A M \in Nat \ {0, 1} : 0 % M = 0 /\ 1 % M = 1
    BY Z3
  <2> QED
    BY <2>1, HeaderAssumption DEF UInt
<1>14. FileOf(q) = 1
  BY <1>2 DEF FileOf
<1>15. IsStmtOf(q) = defaultIsStmt
  <2>1. {j \in DOMAIN q : q[j].op = "negate_stmt"} = {}
    BY <1>1
  <2>2. Cardinality({j \in DOMAIN q : q[j].op = "negate_stmt"}) = 0
    BY Zenon, <2>1, FS_EmptySet
  <2>3. IsStmtOf(q) <=> (defaultIsStmt <=> 0 % 2 = 0)
    BY Zenon, <2>2 DEF IsStmtOf
  <2>4. 0 % 2 = 0
    BY <1>5
  <2>5. defaultIsStmt \in BOOLEAN /\ IsStmtOf(q) \in BOOLEAN
    BY HeaderAssumption DEF IsStmtOf
  <2> QED
    BY <2>3, <2>4, <2>5
<1>16. MarksOf(q) = {}
  BY <1>1, <1>2 DEF MarksOf
<1>17. Index(q) = 0
  BY <1>1, <1>3, <1>4, <1>5, HeaderAssumption DEF Index
<1> QED
  BY <1>1, <1>11, <1>12, <1>13, <1>14, <1>15, <1>16, <1>17 DEF q

-----------------------------------------------------------------------------
LEMMA Part ==
    ASSUME NEW p \in Seq(Opcodes), NEW a \in 1 .. Len(p) + 1, NEW b \in a - 1 .. Len(p)
    PROVE  /\ SubSeq(p, a, b) \in Seq(Opcodes)
           /\ Len(SubSeq(p, a, b)) = b - a + 1
           /\ \A k \in 1 .. b - a + 1 : SubSeq(p, a, b)[k] = p[a + k - 1]
  BY SubSeqProperties

LEMMA SameSequence ==
    ASSUME NEW s \in Seq(Opcodes), NEW t \in Seq(Opcodes), Len(s) = Len(t),
           \A k \in 1 .. Len(s) : s[k] = t[k]
    PROVE  s = t
  BY SeqEqual

(* One opcode more goes to the sequence that has not ended.                 *)
LEMMA SequenceAppended ==
    ASSUME NEW p \in Seq(Opcodes), NEW x \in Opcodes
    PROVE  /\ Open(p) \in Seq(Opcodes)
           /\ UpTo(Append(p, x), Len(p) + 1) = Append(Open(p), x)
           /\ Open(Append(p, x)) = IF x.op = "end_sequence" THEN << >> ELSE Append(Open(p), x)
           /\ \A i \in 1 .. Len(p) : UpTo(Append(p, x), i) = UpTo(p, i)
<1> DEFINE r == Append(p, x)
           e == LastOf({"end_sequence"}, p)
           y == Len(p) + 1
<1>1. /\ r \in Seq(Opcodes) /\ Len(p) \in Nat /\ Len(r) = y /\ r[y] = x
      /\ \A j \in 1 .. Len(p) : r[j] = p[j]
      /\ e \in 0 .. Len(p)
      /\ LastOf({"end_sequence"}, r) = (IF x.op = "end_sequence" THEN y ELSE e)
  BY Appended, LastOfAppended, LastOfFacts
<1> HIDE DEF r, e
<1>2. \A a \in 1 .. y, b \in 0 .. Len(p) : a <= b + 1 => SubSeq(r, a, b) = SubSeq(p, a, b)
  <2> SUFFICES ASSUME NEW a \in 1 .. y, NEW b \in 0 .. Len(p), a <= b + 1
               PROVE  SubSeq(r, a, b) = SubSeq(p, a, b)
    OBVIOUS
  <2>1. /\ a \in 1 .. Len(p) + 1 /\ b \in a - 1 .. Len(p)
        /\ a \in 1 .. Len(r) + 1 /\ b \in a - 1 .. Len(r)
    BY <1>1
  <2>2. /\ SubSeq(r, a, b) \in Seq(Opcodes) /\ Len(SubSeq(r, a, b)) = b - a + 1
        /\ \A k \in 1 .. b - a + 1 : SubSeq(r, a, b)[k] = r[a + k - 1]
    BY <1>1, <2>1, Part
  <2>3. /\ SubSeq(p, a, b) \in Seq(Opcodes) /\ Len(SubSeq(p, a, b)) = b - a + 1
        /\ \A k \in 1 .. b - a + 1 : SubSeq(p, a, b)[k] = p[a + k - 1]
    BY <2>1, Part
  <2>4. \A k \in 1 .. b - a + 1 : r[a + k - 1] = p[a + k - 1]
    BY <1>1, <2>1
  <2> QED
    BY <2>2, <2>3, <2>4, SameSequence
<1>3. /\ SubSeq(p, 1 + e, Len(p)) \in Seq(Opcodes)
      /\ SubSeq(r, 1 + e, y) = Append(SubSeq(p, 1 + e, Len(p)), x)
  <2> DEFINE s == SubSeq(p, 1 + e, Len(p))
             t == SubSeq(r, 1 + e, y)
             n == Len(p) - e
  <2>1. /\ 1 + e \in 1 .. Len(p) + 1 /\ Len(p) \in (1 + e) - 1 .. Len(p)
        /\ 1 + e \in 1 .. Len(r) + 1 /\ y \in (1 + e) - 1 .. Len(r)
        /\ n \in Nat /\ Len(p) - (1 + e) + 1 = n /\ y - (1 + e) + 1 = n + 1
    BY <1>1
  <2>2. s \in Seq(Opcodes) /\ Len(s) = n /\ \A k \in 1 .. n : s[k] = p[1 + e + k - 1]
    BY <2>1, Part
  <2>3. t \in Seq(Opcodes) /\ Len(t) = n + 1 /\ \A k \in 1 .. n + 1 : t[k] = r[1 + e + k - 1]
    BY <1>1, <2>1, Part
  <2> HIDE DEF s, t, n
  <2>4. /\ Append(s, x) \in Seq(Opcodes) /\ Len(Append(s, x)) = n + 1
        /\ Append(s, x)[n + 1] = x /\ \A k \in 1 .. n : Append(s, x)[k] = s[k]
    BY <2>2, Appended
  <2>5. \A k \in 1 .. n + 1 : t[k] = Append(s, x)[k]
    <3> TAKE k \in 1 .. n + 1
    <3>1. CASE k = n + 1
      <4>1. 1 + e + k - 1 = y
        BY <1>1, <2>1, <3>1
      <4> QED
        BY <1>1, <2>3, <2>4, <3>1, <4>1
    <3>2. CASE k # n + 1
      <4>1. k \in 1 .. n
        BY <2>1, <3>2
      <4>2. 1 + e + k - 1 \in 1 .. Len(p)
        BY <1>1, <2>1, <4>1 DEF n
      <4> QED
        BY <1>1, <2>2, <2>3, <2>4, <4>1, <4>2
    <3> QED
      BY <3>1, <3>2
  <2>6. t = Append(s, x)
    BY <2>3, <2>4, <2>5, SameSequence
  <2> QED
    BY <2>2, <2>6 DEF s, t
<1>4. UpTo(r, y) = Append(Open(p), x)
  <2>1. SubSeq(r, 1, y - 1) = p
    <3>1. y - 1 = Len(p) /\ 1 \in 1 .. y /\ Len(p) \in 0 .. Len(p) /\ 1 <= Len(p) + 1
      BY <1>1
    <3>2. SubSeq(r, 1, y - 1) = SubSeq(p, 1, Len(p))
      BY <1>2, <3>1
    <3>3. SubSeq(p, 1, Len(p)) = p
      <4>1. /\ 1 \in 1 .. Len(p) + 1 /\ Len(p) \in 1 - 1 .. Len(p)
            /\ Len(p) - 1 + 1 = Len(p)
        BY <1>1
      <4>2. /\ SubSeq(p, 1, Len(p)) \in Seq(Opcodes) /\ Len(SubSeq(p, 1, Len(p))) = Len(p)
            /\ \A k \in 1 .. Len(p) : SubSeq(p, 1, Len(p))[k] = p[1 + k - 1]
        BY <4>1, Part
      <4>3. \A k \in 1 .. Len(p) : 1 + k - 1 = k
        BY <1>1
      <4> QED
        BY <4>2, <4>3, SameSequence
    <3> QED
      BY <3>2, <3>3
  <2> QED
    BY Zenon, <1>3, <2>1 DEF UpTo, Open, e
<1>5. Open(r) = IF x.op = "end_sequence" THEN << >> ELSE Append(Open(p), x)
  <2>1. CASE x.op = "end_sequence"
    <3>1. Open(r) = SubSeq(r, 1 + y, y)
      BY <1>1, <2>1 DEF Open
    <3>2. 1 + y \in 1 .. Len(r) + 1 /\ y \in (1 + y) - 1 .. Len(r) /\ y - (1 + y) + 1 = 0
      BY <1>1
    <3>3. Open(r) \in Seq(Opcodes) /\ Len(Open(r)) = 0
      BY <1>1, <3>1, <3>2, Part
    <3>4. Open(r) = << >>
      BY <3>3
    <3> QED
      BY <2>1, <3>4
  <2>2. CASE x.op # "end_sequence"
    <3>1. Open(r) = SubSeq(r, 1 + e, y)
      BY <1>1, <2>2 DEF Open
    <3> QED
      BY <1>3, <2>2, <3>1 DEF Open, e
  <2> QED
    BY <2>1, <2>2
<1>6. \A i \in 1 .. Len(p) : UpTo(r, i) = UpTo(p, i)
  <2> TAKE i \in 1 .. Len(p)
  <2> DEFINE s == SubSeq(p, 1, i - 1)
             k == LastOf({"end_sequence"}, s)
  <2>1. /\ 1 \in 1 .. y /\ i - 1 \in 0 .. Len(p) /\ 1 <= (i - 1) + 1
        /\ 1 \in 1 .. Len(p) + 1 /\ i - 1 \in 1 - 1 .. Len(p) /\ i - 1 - 1 + 1 = i - 1
    BY <1>1
  <2>2. SubSeq(r, 1, i - 1) = s
    BY <1>2, <2>1
  <2>3. s \in Seq(Opcodes) /\ Len(s) = i - 1
    BY <2>1, Part
  <2>4. k \in 0 .. i - 1
    BY <2>3, LastOfFacts
  <2> HIDE DEF s, k
  <2>5. 1 + k \in 1 .. y /\ i \in 0 .. Len(p) /\ 1 + k <= i + 1
    BY <1>1, <2>4
  <2>6. SubSeq(r, 1 + k, i) = SubSeq(p, 1 + k, i)
    BY <1>2, <2>5
  <2> QED
    BY Zenon, <2>2, <2>6 DEF UpTo, s, k
<1>7. Open(p) \in Seq(Opcodes)
  BY <1>3 DEF Open, e
<1> QED
  BY Zenon, <1>4, <1>5, <1>6, <1>7 DEF r

-----------------------------------------------------------------------------
(* The matrix with a row for each opcode that makes one.                    *)
LEMMA MatrixAppended ==
    ASSUME NEW p \in Seq(Opcodes), NEW x \in Opcodes, NEW matrix \in Seq(LineEntries),
           MatrixOf(p, matrix)
    PROVE  /\ x.op \notin RowOps => MatrixOf(Append(p, x), matrix)
           /\ \A row \in LineEntries : x.op \in RowOps /\ row = RowOf(Append(Open(p), x))
                => MatrixOf(Append(p, x), Append(matrix, row))
<1> DEFINE r == Append(p, x)
           y == Len(p) + 1
           R == RowsOf(p)
           Until(i) == {j \in R : j <= i}
<1>1. /\ Len(p) \in Nat /\ DOMAIN p = 1 .. Len(p) /\ DOMAIN r = 1 .. y /\ r[y] = x
      /\ \A j \in 1 .. Len(p) : r[j] = p[j]
  BY Appended
<1>2. /\ UpTo(r, y) = Append(Open(p), x)
      /\ \A i \in 1 .. Len(p) : UpTo(r, i) = UpTo(p, i)
  BY SequenceAppended
<1> HIDE DEF r
<1>3. RowsOf(r) = IF x.op \in RowOps THEN R \cup {y} ELSE R
  <2>1. \A j : j \in 1 .. y <=> j \in 1 .. Len(p) \/ j = y
    BY <1>1
  <2> QED
    BY <1>1, <2>1 DEF RowsOf
<1>4. R \subseteq 1 .. Len(p) /\ IsFiniteSet(R)
  <2>1. IsFiniteSet(1 .. Len(p)) /\ R \subseteq 1 .. Len(p)
    BY <1>1, FS_Interval DEF RowsOf
  <2> HIDE DEF R
  <2> QED
    BY <2>1, FS_Subset
<1>5. /\ Len(matrix) = Cardinality(R) /\ Len(matrix) \in Nat
      /\ \A i \in R : matrix[Cardinality(Until(i))] = RowOf(UpTo(p, i))
  BY DEF MatrixOf
<1>6. \A i \in R : {j \in RowsOf(r) : j <= i} = Until(i)
  BY <1>1, <1>3, <1>4
<1>7. \A i \in R : Cardinality(Until(i)) \in 1 .. Len(matrix)
  <2> TAKE i \in R
  <2> DEFINE U == Until(i)
  <2>1. U \subseteq R /\ i \in U
    BY <1>1, <1>4
  <2> HIDE DEF R, U
  <2>2. IsFiniteSet(U) /\ Cardinality(U) <= Cardinality(R)
    BY <1>4, <2>1, FS_Subset
  <2>3. Cardinality(U) \in Nat /\ Cardinality(U) # 0
    BY <2>1, <2>2, FS_CardinalityType, FS_EmptySet
  <2> QED
    BY <1>5, <2>2, <2>3 DEF U
<1>8. ASSUME x.op \notin RowOps
      PROVE  MatrixOf(r, matrix)
  <2>1. RowsOf(r) = R /\ \A i \in R : UpTo(r, i) = UpTo(p, i)
    BY <1>2, <1>3, <1>4, <1>8
  <2> QED
    BY Zenon, <1>5, <2>1 DEF MatrixOf
<1>9. ASSUME NEW row \in LineEntries, x.op \in RowOps, row = RowOf(Append(Open(p), x))
      PROVE  MatrixOf(r, Append(matrix, row))
  <2> DEFINE m == Append(matrix, row)
  <2>1. /\ Len(m) = Len(matrix) + 1 /\ m[Len(matrix) + 1] = row
        /\ \A k \in 1 .. Len(matrix) : m[k] = matrix[k]
    OBVIOUS
  <2> HIDE DEF m
  <2>2. RowsOf(r) = R \cup {y} /\ y \notin R
    BY <1>1, <1>3, <1>4, <1>9
  <2>3. Cardinality(RowsOf(r)) = Len(matrix) + 1
    <3> HIDE DEF R
    <3>1. Cardinality(R \cup {y}) = Cardinality(R) + 1
      BY <1>4, <2>2, FS_AddElement
    <3> QED
      BY <1>5, <2>2, <3>1
  <2>4. {j \in RowsOf(r) : j <= y} = RowsOf(r)
    BY <1>1, <1>4, <2>2
  <2>5. m[Cardinality({j \in RowsOf(r) : j <= y})] = RowOf(UpTo(r, y))
    BY <1>2, <1>9, <2>1, <2>3, <2>4
  <2>6. \A i \in R : m[Cardinality({j \in RowsOf(r) : j <= i})] = RowOf(UpTo(r, i))
    <3> TAKE i \in R
    <3>1. m[Cardinality(Until(i))] = matrix[Cardinality(Until(i))]
      BY <1>7, <2>1
    <3>2. UpTo(r, i) = UpTo(p, i)
      BY <1>2, <1>4
    <3> QED
      BY Zenon, <1>5, <1>6, <3>1, <3>2
  <2>7. \A i \in RowsOf(r) : m[Cardinality({j \in RowsOf(r) : j <= i})] = RowOf(UpTo(r, i))
    BY Zenon, <2>2, <2>5, <2>6
  <2>8. Len(m) = Cardinality(RowsOf(r))
    BY <2>1, <2>3
  <2> QED
    BY Zenon, <2>7, <2>8 DEF MatrixOf, m
<1> QED
  BY Zenon, <1>8, <1>9 DEF r

(* The registers after an opcode more, from the registers in front of it.   *)
LEMMA RegistersAppended ==
    ASSUME NEW q \in Seq(Opcodes), NEW x \in Opcodes, Registers(q)
    PROVE  LET p == Append(q, x)
           IN  /\ x.op \notin {"set_address", "fixed_advance_pc"} =>
                    /\ getNewAddress(OperationAdvance(x)) = UInt(AddressOf(p))
                    /\ getNewOpIndex(OperationAdvance(x)) = Index(p)
                    /\ OperationAdvance(x) = 0 => address = UInt(AddressOf(p)) /\ opIndex = Index(p)
               /\ x.op = "fixed_advance_pc" => UInt(address + x.n) = UInt(AddressOf(p)) /\ 0 = Index(p)
               /\ x.op = "set_address" => x.n = UInt(AddressOf(p)) /\ 0 = Index(p)
               /\ UInt(line + LineAdvance(x)) = UInt(LineOf(p))
               /\ LineAdvance(x) = 0 => line = UInt(LineOf(p))
               /\ address \in 0 .. UIntSize - 1 /\ line \in 0 .. UIntSize - 1
<1> DEFINE p == Append(q, x)
           A == AddressOf(q)
           d == OperationAdvance(x)
           done == Operations(q, StretchStart(q) + 1, Len(q))
           M == maximumOperationsPerInstruction
           mil == minimumInstructionLength
<1>1. M \in Nat \ {0} /\ UIntSize \in Nat \ {0} /\ mil \in Int
  BY HeaderAssumption
<1>2. A \in Int
  <2>1. /\ Start(q) \in Int /\ SumFunctionOnSet(Moves(q), Fixed(q)) \in Int
        /\ SumFunctionOnSet(Stretch(q), Fixed(q) \cup {Base(q)}) \in Int
        /\ A = Start(q) + SumFunctionOnSet(Moves(q), Fixed(q))
                + mil * SumFunctionOnSet(Stretch(q), Fixed(q) \cup {Base(q)})
    BY Zenon, AddressTerms
  <2>2. mil * SumFunctionOnSet(Stretch(q), Fixed(q) \cup {Base(q)}) \in Int
    BY <1>1, <2>1
  <2> QED
    BY <2>1, <2>2
<1>3. address = A % UIntSize /\ opIndex = done % M
  BY DEF Registers, UInt, Index
<1>4. \A e \in Int : UInt(address + e) = UInt(A + e)
  BY <1>1, <1>2, <1>3, RemainderCarries DEF UInt
<1>5. Len(p) = Len(q) + 1
  BY Appended
<1>6. d \in Int
  BY OpcodeType
<1>7. ASSUME x.op \notin {"set_address", "fixed_advance_pc"}
      PROVE  /\ getNewAddress(d) = UInt(AddressOf(p)) /\ getNewOpIndex(d) = Index(p)
             /\ d = 0 => address = UInt(AddressOf(p)) /\ opIndex = Index(p)
  <2>1. /\ StretchStart(p) = StretchStart(q) /\ done \in Int
        /\ Operations(p, StretchStart(q) + 1, Len(q) + 1) = done + d
        /\ AddressOf(p) = A + mil * ((done + d) \div M - done \div M)
    BY Zenon, <1>7, AddressAdvances
  <2>2. Index(p) = (done + d) % M
    BY <1>5, <2>1 DEF Index
  <2> HIDE DEF done, d, A
  <2>3. /\ ((done % M) + d) % M = (done + d) % M
        /\ done \div M + ((done % M) + d) \div M = (done + d) \div M
    BY <1>1, <1>6, <2>1, RemainderCarries
  <2>4. /\ done \div M \in Int /\ ((done % M) + d) \div M \in Int
        /\ (done % M) \in 0 .. M - 1
    <3>1. (done % M) \in 0 .. M - 1 /\ done \div M \in Int
      BY <1>1, <2>1, Division
    <3>2. (done % M) + d \in Int
      BY <1>1, <1>6, <3>1
    <3> QED
      BY <1>1, <3>1, <3>2, Division
  <2> DEFINE k == (opIndex + d) \div M
  <2>5. k \in Int /\ k = (done + d) \div M - done \div M
    BY <1>3, <2>3, <2>4
  <2>6. mil * k \in Int /\ AddressOf(p) = A + mil * k
    BY <1>1, <2>1, <2>5
  <2>7. getNewAddress(d) = UInt(address + mil * k)
    BY DEF getNewAddress
  <2> HIDE DEF k
  <2>8. getNewAddress(d) = UInt(AddressOf(p))
    BY <1>4, <2>6, <2>7
  <2>9. getNewOpIndex(d) = Index(p)
    BY <1>3, <2>2, <2>3 DEF getNewOpIndex
  <2>10. ASSUME d = 0
         PROVE  address = UInt(AddressOf(p)) /\ opIndex = Index(p)
    <3>1. done + 0 = done
      BY <2>1
    <3>2. opIndex = Index(p)
      BY <1>3, <2>2, <2>10, <3>1
    <3>3. AddressOf(p) = A + mil * 0
      <4>1. (done + d) \div M - done \div M = 0
        BY <2>4, <2>10, <3>1
      <4> QED
        BY <2>1, <4>1
    <3>4. AddressOf(p) = A
      BY <1>1, <1>2, <3>3 DEF A
    <3> QED
      BY <1>3, <3>2, <3>4 DEF UInt
  <2> QED
    BY <2>8, <2>9, <2>10
<1>8. \A z : (z = 0) => z % M = 0
  <2>1. \A N \in Nat \ {0} : 0 % N = 0
    BY Z3
  <2> QED
    BY <1>1, <2>1
<1>9. ASSUME x.op = "fixed_advance_pc"
      PROVE  UInt(address + x.n) = UInt(AddressOf(p)) /\ 0 = Index(p)
  <2>1. AddressOf(p) = A + x.n /\ Operations(p, StretchStart(p) + 1, Len(q) + 1) = 0
    BY Zenon, <1>9, AddressMoves
  <2>2. x.n \in Int
    BY <1>9, OpcodeType, OperandsAssumption
  <2>3. Index(p) = 0
    BY Zenon, <1>5, <1>8, <2>1 DEF Index
  <2> QED
    BY <1>4, <2>1, <2>2, <2>3
<1>10. ASSUME x.op = "set_address"
       PROVE  x.n = UInt(AddressOf(p)) /\ 0 = Index(p)
  <2>1. AddressOf(p) = x.n /\ Operations(p, StretchStart(p) + 1, Len(q) + 1) = 0
    BY Zenon, <1>10, AddressSet
  <2>2. x.n \in 0 .. UIntSize - 1
    BY <1>10, OpcodeType, OperandsAssumption
  <2>3. Index(p) = 0
    BY Zenon, <1>5, <1>8, <2>1 DEF Index
  <2>4. \A N \in Nat \ {0}, n \in Nat : n <= N - 1 => n % N = n
    BY Z3
  <2>5. UInt(x.n) = x.n
    BY <1>1, <2>2, <2>4 DEF UInt
  <2> QED
    BY <2>1, <2>3, <2>5
<1>11. /\ UInt(line + LineAdvance(x)) = UInt(LineOf(p))
       /\ LineAdvance(x) = 0 => line = UInt(LineOf(p))
  <2>1. LineOf(q) \in Int /\ LineOf(p) = LineOf(q) + LineAdvance(x) /\ LineAdvance(x) \in Int
    BY LineAppended, OpcodeType
  <2> DEFINE L == LineOf(q)
             a == LineAdvance(x)
  <2>2. line = L % UIntSize
    BY DEF Registers, UInt
  <2>3. L \in Int /\ a \in Int /\ LineOf(p) = L + a
    BY <2>1
  <2> HIDE DEF L, a
  <2>4. ((L % UIntSize) + a) % UIntSize = (L + a) % UIntSize
    BY <1>1, <2>3, RemainderCarries
  <2>5. UInt(line + a) = UInt(LineOf(p))
    BY Zenon, <2>2, <2>3, <2>4 DEF UInt
  <2>6. a = 0 => LineOf(p) = L
    BY <2>3
  <2> QED
    BY Zenon, <2>2, <2>5, <2>6 DEF UInt, a
<1>12. address \in 0 .. UIntSize - 1 /\ line \in 0 .. UIntSize - 1
  <2>1. line = LineOf(q) % UIntSize /\ LineOf(q) \in Int
    BY LineAppended DEF Registers, UInt
  <2> QED
    BY <1>1, <1>2, <1>3, <2>1, Division
<1> QED
  BY Zenon, <1>7, <1>9, <1>10, <1>11, <1>12

-----------------------------------------------------------------------------
(* A step with opcode x keeps the invariant when it leaves the registers    *)
(* and the rows that the standard gives.                                    *)
LEMMA Decoded ==
    ASSUME MatrixInv, NEW name \in OpcodeNames, NEW n, Decode(name, n)
    PROVE  /\ [op |-> name, n |-> n] \in Opcodes
           /\ program' = Append(program, [op |-> name, n |-> n])
           /\ Open(program) \in Seq(Opcodes) /\ Registers(Open(program))
<1> DEFINE x == [op |-> name, n |-> n]
<1>1. x \in [op : {name}, n : Operands(name)]
  BY DEF Decode
<1>2. x \in Opcodes
  BY <1>1 DEF Opcodes
<1>3. program' = Append(program, x)
  BY DEF Decode
<1>4. program \in Seq(Opcodes) /\ Registers(Open(program))
  BY DEF MatrixInv
<1> HIDE DEF x
<1>5. Open(program) \in Seq(Opcodes)
  BY <1>2, <1>4, SequenceAppended
<1> QED
  BY Zenon, <1>2, <1>3, <1>4, <1>5 DEF x

LEMMA NewRegisters ==
    ASSUME MatrixInv, NEW x \in Opcodes, program' = Append(program, x), x.op # "end_sequence",
           LET p == Append(Open(program), x)
           IN  /\ address' = UInt(AddressOf(p)) /\ opIndex' = Index(p)
               /\ line' = UInt(LineOf(p)) /\ file' = FileOf(p)
               /\ isStmt' = IsStmtOf(p) /\ marks' = MarksOf(p)
    PROVE  Registers(Open(program))'
<1>1. Open(Append(program, x)) = Append(Open(program), x)
  BY SequenceAppended DEF MatrixInv
<1>2. Open(program') = Append(Open(program), x)
  BY Zenon, <1>1
<1> QED
  BY Zenon, <1>2 DEF Registers

LEMMA NoRow ==
    ASSUME MatrixInv, NEW x \in Opcodes, program' = Append(program, x),
           x.op \notin RowOps, lineMatrix' = lineMatrix, Registers(Open(program))'
    PROVE  MatrixInv'
<1>1. /\ program \in Seq(Opcodes) /\ lineMatrix \in Seq(LineEntries)
      /\ MatrixOf(program, lineMatrix)
  BY DEF MatrixInv
<1>2. MatrixOf(Append(program, x), lineMatrix) /\ Append(program, x) \in Seq(Opcodes)
  BY <1>1, Appended, MatrixAppended
<1> QED
  BY Zenon, <1>1, <1>2 DEF MatrixInv

LEMMA OneRow ==
    ASSUME MatrixInv, NEW x \in Opcodes, program' = Append(program, x), x.op \in RowOps,
           LET p == Append(Open(program), x)
           IN  lineMatrix' = Append(lineMatrix,
                   [address |-> UInt(AddressOf(p)), line |-> UInt(LineOf(p)), file |-> file,
                    isStmt |-> isStmt, marks |-> marks])
    PROVE  /\ program' \in Seq(Opcodes) /\ lineMatrix' \in Seq(LineEntries)
           /\ MatrixOf(program', lineMatrix')
<1> DEFINE q == Open(program)
           p == Append(q, x)
           row == [address |-> UInt(AddressOf(p)), line |-> UInt(LineOf(p)), file |-> file,
                   isStmt |-> isStmt, marks |-> marks]
<1>1. q \in Seq(Opcodes) /\ Registers(q) /\ program \in Seq(Opcodes)
      /\ lineMatrix \in Seq(LineEntries) /\ MatrixOf(program, lineMatrix)
  BY SequenceAppended DEF MatrixInv
<1>2. lineMatrix' = Append(lineMatrix, row)
  OBVIOUS
<1> HIDE DEF q
<1>3. x.op # "set_file" /\ x.op # "negate_stmt"
  BY DEF RowOps
<1>4. file = FileOf(q) /\ isStmt = IsStmtOf(q) /\ marks = MarksOf(q)
  BY <1>1 DEF Registers
<1>5. file = FileOf(p)
  BY <1>1, <1>3, <1>4, FileAppended
<1>6. IsStmtOf(q) \in BOOLEAN /\ IsStmtOf(p) \in BOOLEAN /\ (IsStmtOf(p) <=> IsStmtOf(q))
  <2>1. IsStmtOf(p) \in BOOLEAN
    BY DEF IsStmtOf
  <2> QED
    BY <1>1, <1>3, <2>1, IsStmtAppended
<1>7. IsStmtOf(p) = isStmt
  BY <1>4, <1>6
<1>8. Front(p) = q
  <2>1. Front(p) = SubSeq(p, 1, Len(q))
    BY <1>1 DEF Front
  <2>2. p \in Seq(Opcodes) /\ Len(p) = Len(q) + 1 /\ Len(q) \in Nat
        /\ \A k \in 1 .. Len(q) : p[k] = q[k]
    BY <1>1, Appended
  <2> HIDE DEF p
  <2>3. /\ 1 \in 1 .. Len(p) + 1 /\ Len(q) \in 1 - 1 .. Len(p) /\ Len(q) - 1 + 1 = Len(q)
        /\ \A k \in 1 .. Len(q) : 1 + k - 1 = k
    BY <2>2
  <2>4. SubSeq(p, 1, Len(q)) \in Seq(Opcodes) /\ Len(SubSeq(p, 1, Len(q))) = Len(q)
        /\ \A k \in 1 .. Len(q) : SubSeq(p, 1, Len(q))[k] = q[k]
    BY <2>2, <2>3, Part
  <2> QED
    BY <1>1, <2>1, <2>4, SameSequence
<1>9. row = RowOf(p)
  BY Zenon, <1>4, <1>5, <1>7, <1>8 DEF RowOf
<1>10. row \in LineEntries
  <2>1. file \in {1} \cup Operands("set_file")
    <3>1. LastOf({"set_file"}, q) \in 0 .. Len(q)
          /\ (LastOf({"set_file"}, q) = 0 \/ q[LastOf({"set_file"}, q)].op \in {"set_file"})
      BY <1>1, LastOfFacts
    <3>2. \A j \in 1 .. Len(q) : q[j].n \in Operands(q[j].op)
      BY <1>1, OpcodeType
    <3> QED
      BY <1>4, <3>1, <3>2 DEF FileOf
  <2>2. marks \in SUBSET {"prologueEnd", "epilogueBegin"}
    BY <1>1, <1>4, MarksAppended
  <2>3. isStmt \in BOOLEAN
    BY <1>4, <1>6
  <2>4. UInt(AddressOf(p)) \in 0 .. UIntSize - 1 /\ UInt(LineOf(p)) \in 0 .. UIntSize - 1
    <3>1. x.op \notin {"set_address", "fixed_advance_pc"} /\ OperationAdvance(x) \in Int
          /\ LineAdvance(x) \in Int /\ p \in Seq(Opcodes)
      BY <1>1, OpcodeType, Appended DEF RowOps
    <3>2. LineOf(p) \in Int
      BY <3>1, LineAppended
    <3>3. AddressOf(p) \in Int
      <4>1. /\ Start(p) \in Int /\ SumFunctionOnSet(Moves(p), Fixed(p)) \in Int
            /\ SumFunctionOnSet(Stretch(p), Fixed(p) \cup {Base(p)}) \in Int
            /\ AddressOf(p) = Start(p) + SumFunctionOnSet(Moves(p), Fixed(p))
                    + minimumInstructionLength
                          * SumFunctionOnSet(Stretch(p), Fixed(p) \cup {Base(p)})
        BY Zenon, <3>1, AddressTerms
      <4>2. minimumInstructionLength
                * SumFunctionOnSet(Stretch(p), Fixed(p) \cup {Base(p)}) \in Int
        BY <4>1, HeaderAssumption
      <4> QED
        BY <4>1, <4>2
    <3> QED
      BY <3>2, <3>3, HeaderAssumption, Division DEF UInt
  <2> HIDE DEF p
  <2> QED
    BY <2>1, <2>2, <2>3, <2>4 DEF LineEntries
<1> HIDE DEF row
<1>11. MatrixOf(Append(program, x), Append(lineMatrix, row))
  BY <1>1, <1>9, <1>10, MatrixAppended DEF p, q
<1>12. Append(program, x) \in Seq(Opcodes) /\ Append(lineMatrix, row) \in Seq(LineEntries)
  BY <1>1, <1>10
<1> QED
  BY Zenon, <1>2, <1>11, <1>12

(* The registers an opcode leaves alone, and the ones every step of a kind  *)
(* gives.                                                                   *)
LEMMA Kept ==
    ASSUME MatrixInv, NEW x \in Opcodes
    PROVE  LET p == Append(Open(program), x)
           IN  /\ OperationAdvance(x) = 0 /\ x.op \notin {"set_address", "fixed_advance_pc"}
                    => address = UInt(AddressOf(p)) /\ opIndex = Index(p)
               /\ LineAdvance(x) = 0 => line = UInt(LineOf(p))
               /\ x.op # "set_file" => file = FileOf(p)
               /\ x.op # "negate_stmt" => isStmt = IsStmtOf(p)
               /\ x.op = "negate_stmt" => (~ isStmt) = IsStmtOf(p)
               /\ MarksOf(p) = CASE x.op \in RowOps -> {}
                                 [] x.op = "set_prologue_end" -> marks \cup {"prologueEnd"}
                                 [] x.op = "set_epilogue_begin" -> marks \cup {"epilogueBegin"}
                                 [] OTHER -> marks
<1> DEFINE q == Open(program)
           p == Append(q, x)
<1>1. q \in Seq(Opcodes) /\ Registers(q)
  BY SequenceAppended DEF MatrixInv
<1> HIDE DEF q
<1>2. OperationAdvance(x) = 0 /\ x.op \notin {"set_address", "fixed_advance_pc"}
        => address = UInt(AddressOf(p)) /\ opIndex = Index(p)
  BY Zenon, <1>1, RegistersAppended
<1>3. LineAdvance(x) = 0 => line = UInt(LineOf(p))
  BY Zenon, <1>1, RegistersAppended
<1>4. file = FileOf(q) /\ isStmt = IsStmtOf(q) /\ marks = MarksOf(q)
  BY <1>1 DEF Registers
<1>5. x.op # "set_file" => file = FileOf(p)
  BY <1>1, <1>4, FileAppended
<1>6. /\ IsStmtOf(q) \in BOOLEAN
      /\ IsStmtOf(p) <=> IF x.op = "negate_stmt" THEN ~ IsStmtOf(q) ELSE IsStmtOf(q)
  BY <1>1, IsStmtAppended
<1>7. IsStmtOf(p) \in BOOLEAN
  BY DEF IsStmtOf
<1>8. /\ x.op # "negate_stmt" => isStmt = IsStmtOf(p)
      /\ x.op = "negate_stmt" => (~ isStmt) = IsStmtOf(p)
  BY <1>4, <1>6, <1>7
<1>9. MarksOf(p) = CASE x.op \in RowOps -> {}
                     [] x.op = "set_prologue_end" -> marks \cup {"prologueEnd"}
                     [] x.op = "set_epilogue_begin" -> marks \cup {"epilogueBegin"}
                     [] OTHER -> marks
  BY Zenon, <1>1, <1>4, MarksAppended
<1> QED
  BY Zenon, <1>2, <1>3, <1>5, <1>8, <1>9 DEF q

(* An advance of the address and of the line.                               *)
LEMMA Advanced ==
    ASSUME MatrixInv, NEW x \in Opcodes
    PROVE  LET p == Append(Open(program), x)
           IN  /\ Advance(OperationAdvance(x)) /\ x.op \notin {"set_address", "fixed_advance_pc"}
                    => address' = UInt(AddressOf(p)) /\ opIndex' = Index(p)
               /\ UInt(line + LineAdvance(x)) = UInt(LineOf(p))
               /\ x.op = "fixed_advance_pc"
                    => UInt(address + x.n) = UInt(AddressOf(p)) /\ 0 = Index(p)
               /\ x.op = "set_address" => x.n = UInt(AddressOf(p)) /\ 0 = Index(p)
               /\ line \in Int
<1> DEFINE q == Open(program)
           p == Append(q, x)
<1>1. q \in Seq(Opcodes) /\ Registers(q)
  BY SequenceAppended DEF MatrixInv
<1> HIDE DEF q
<1>2. Advance(OperationAdvance(x)) /\ x.op \notin {"set_address", "fixed_advance_pc"}
        => address' = UInt(AddressOf(p)) /\ opIndex' = Index(p)
  BY Zenon, <1>1, RegistersAppended DEF Advance
<1>3. /\ UInt(line + LineAdvance(x)) = UInt(LineOf(p))
      /\ x.op = "fixed_advance_pc" => UInt(address + x.n) = UInt(AddressOf(p)) /\ 0 = Index(p)
      /\ x.op = "set_address" => x.n = UInt(AddressOf(p)) /\ 0 = Index(p)
  BY Zenon, <1>1, RegistersAppended
<1>4. line \in Int
  BY <1>1, RegistersAppended, HeaderAssumption
<1> QED
  BY Zenon, <1>2, <1>3, <1>4 DEF q

(* Every step keeps the invariant.                                          *)
LEMMA MatrixStep == MatrixInv /\ [Next]_vars => MatrixInv'
<1> SUFFICES ASSUME MatrixInv, [Next]_vars
             PROVE  MatrixInv'
  OBVIOUS
<1>1. ASSUME NEW n \in Operands("special"), Special(n)
      PROVE  MatrixInv'
  <2> DEFINE x == [op |-> "special", n |-> n]
             p == Append(Open(program), x)
  <2>1. Decode("special", n) /\ "special" \in OpcodeNames
    BY <1>1 DEF Special, OpcodeNames
  <2>2. x \in Opcodes /\ program' = Append(program, x)
    BY <2>1, Decoded
  <2>3. x.op = "special" /\ x.n = n
    OBVIOUS
  <2> HIDE DEF x
  <2>4. OperationAdvance(x) = n \div lineRange /\ LineAdvance(x) = lineBase + (n % lineRange)
    BY <2>3 DEF OperationAdvance, LineAdvance
  <2>5. /\ address' = UInt(AddressOf(p)) /\ opIndex' = Index(p)
        /\ line' = UInt(LineOf(p)) /\ file' = FileOf(p)
        /\ isStmt' = IsStmtOf(p) /\ marks' = MarksOf(p)
    <3>1. address' = UInt(AddressOf(p)) /\ opIndex' = Index(p)
      <4>1. Advance(OperationAdvance(x))
        BY <1>1, <2>4 DEF Special
      <4> QED
        BY Zenon, <2>2, <2>3, <4>1, Advanced
    <3>2. line' = UInt(LineOf(p))
      <4>1. UInt(line + LineAdvance(x)) = UInt(LineOf(p)) /\ line \in Int
        BY Zenon, <2>2, Advanced
      <4>2. line + (lineBase + (n % lineRange)) = line + lineBase + (n % lineRange)
        <5>1. n \in Int /\ lineBase \in Int /\ lineRange \in Nat \ {0}
          BY OperandsAssumption, HeaderAssumption
        <5>2. n % lineRange \in Int
          BY <5>1, Division
        <5> QED
          BY <4>1, <5>1, <5>2
      <4>3. line' = UInt(line + LineAdvance(x))
        BY <1>1, <2>4, <4>2 DEF Special
      <4> QED
        BY Zenon, <4>1, <4>3
    <3> QED
      BY <1>1, <2>2, <2>3, <3>1, <3>2, Kept DEF Special, RowOps
  <2>6. Registers(Open(program))'
    BY Zenon, <2>2, <2>3, <2>5, NewRegisters
  <2>7. /\ program' \in Seq(Opcodes) /\ lineMatrix' \in Seq(LineEntries)
        /\ MatrixOf(program', lineMatrix')
    <3>1. lineMatrix' = Append(lineMatrix,
              [address |-> UInt(AddressOf(p)), line |-> UInt(LineOf(p)), file |-> file,
               isStmt |-> isStmt, marks |-> marks])
      BY Zenon, <1>1, <2>5 DEF Special, PushRow
    <3>2. x.op \in RowOps
      BY <2>3 DEF RowOps
    <3> QED
      BY Zenon, <2>2, <3>1, <3>2, OneRow
  <2> QED
    BY Zenon, <2>6, <2>7 DEF MatrixInv
<1>2. ASSUME Copy
      PROVE  MatrixInv'
  <2> DEFINE x == [op |-> "copy", n |-> 0]
             p == Append(Open(program), x)
  <2>1. Decode("copy", 0) /\ "copy" \in OpcodeNames
    BY <1>2 DEF Copy, OpcodeNames
  <2>2. x \in Opcodes /\ program' = Append(program, x)
    BY <2>1, Decoded
  <2>3. x.op = "copy" /\ x.n = 0
    OBVIOUS
  <2> HIDE DEF x
  <2>4. /\ OperationAdvance(x) = 0 /\ LineAdvance(x) = 0
    BY <2>3 DEF OperationAdvance, LineAdvance
  <2>5. /\ address' = UInt(AddressOf(p)) /\ opIndex' = Index(p)
        /\ line' = UInt(LineOf(p)) /\ file' = FileOf(p)
        /\ isStmt' = IsStmtOf(p) /\ marks' = MarksOf(p)
    BY <1>2, <2>2, <2>3, <2>4, Kept DEF Copy, RowOps
  <2>6. Registers(Open(program))'
    BY Zenon, <2>2, <2>3, <2>5, NewRegisters
  <2>7. /\ program' \in Seq(Opcodes) /\ lineMatrix' \in Seq(LineEntries)
        /\ MatrixOf(program', lineMatrix')
    <3>1. address = UInt(AddressOf(p)) /\ line = UInt(LineOf(p))
      BY <2>2, <2>3, <2>4, Kept
    <3>2. lineMatrix' = Append(lineMatrix,
              [address |-> UInt(AddressOf(p)), line |-> UInt(LineOf(p)), file |-> file,
               isStmt |-> isStmt, marks |-> marks])
      BY Zenon, <1>2, <3>1 DEF Copy, PushRow
    <3>3. x.op \in RowOps
      BY <2>3 DEF RowOps
    <3> QED
      BY Zenon, <2>2, <3>2, <3>3, OneRow
  <2> QED
    BY Zenon, <2>6, <2>7 DEF MatrixInv
<1>3. ASSUME NEW n \in Operands("advance_pc"), AdvancePc(n)
      PROVE  MatrixInv'
  <2> DEFINE x == [op |-> "advance_pc", n |-> n]
             p == Append(Open(program), x)
  <2>1. Decode("advance_pc", n) /\ "advance_pc" \in OpcodeNames
    BY <1>3 DEF AdvancePc, OpcodeNames
  <2>2. x \in Opcodes /\ program' = Append(program, x)
    BY <2>1, Decoded
  <2>3. x.op = "advance_pc" /\ x.n = n
    OBVIOUS
  <2> HIDE DEF x
  <2>4. OperationAdvance(x) = n /\ LineAdvance(x) = 0
    BY <2>3 DEF OperationAdvance, LineAdvance
  <2>5. /\ address' = UInt(AddressOf(p)) /\ opIndex' = Index(p)
        /\ line' = UInt(LineOf(p)) /\ file' = FileOf(p)
        /\ isStmt' = IsStmtOf(p) /\ marks' = MarksOf(p)
    <3>1. address' = UInt(AddressOf(p)) /\ opIndex' = Index(p)
      <4>1. Advance(OperationAdvance(x))
        BY <1>3, <2>4 DEF AdvancePc
      <4> QED
        BY Zenon, <2>2, <2>3, <4>1, Advanced
    <3> QED
      BY <1>3, <2>2, <2>3, <2>4, <3>1, Kept DEF AdvancePc, RowOps
  <2>6. Registers(Open(program))'
    BY Zenon, <2>2, <2>3, <2>5, NewRegisters
  <2>7. lineMatrix' = lineMatrix /\ x.op \notin RowOps
    BY <1>3, <2>3 DEF AdvancePc, RowOps
  <2> QED
    BY <2>2, <2>6, <2>7, NoRow
<1>4. ASSUME NEW n \in Operands("advance_line"), AdvanceLine(n)
      PROVE  MatrixInv'
  <2> DEFINE x == [op |-> "advance_line", n |-> n]
             p == Append(Open(program), x)
  <2>1. Decode("advance_line", n) /\ "advance_line" \in OpcodeNames
    BY <1>4 DEF AdvanceLine, OpcodeNames
  <2>2. x \in Opcodes /\ program' = Append(program, x)
    BY <2>1, Decoded
  <2>3. x.op = "advance_line" /\ x.n = n
    OBVIOUS
  <2> HIDE DEF x
  <2>4. OperationAdvance(x) = 0 /\ LineAdvance(x) = n
    BY <2>3 DEF OperationAdvance, LineAdvance
  <2>5. /\ address' = UInt(AddressOf(p)) /\ opIndex' = Index(p)
        /\ line' = UInt(LineOf(p)) /\ file' = FileOf(p)
        /\ isStmt' = IsStmtOf(p) /\ marks' = MarksOf(p)
    <3>1. line' = UInt(LineOf(p))
      <4>1. UInt(line + LineAdvance(x)) = UInt(LineOf(p))
        BY Zenon, <2>2, Advanced
      <4> QED
        BY Zenon, <1>4, <2>4, <4>1 DEF AdvanceLine
    <3> QED
      BY <1>4, <2>2, <2>3, <2>4, <3>1, Kept DEF AdvanceLine, RowOps
  <2>6. Registers(Open(program))'
    BY Zenon, <2>2, <2>3, <2>5, NewRegisters
  <2>7. lineMatrix' = lineMatrix /\ x.op \notin RowOps
    BY <1>4, <2>3 DEF AdvanceLine, RowOps
  <2> QED
    BY <2>2, <2>6, <2>7, NoRow
<1>5. ASSUME NEW n \in Operands("set_file"), SetFile(n)
      PROVE  MatrixInv'
  <2> DEFINE x == [op |-> "set_file", n |-> n]
             p == Append(Open(program), x)
  <2>1. Decode("set_file", n) /\ "set_file" \in OpcodeNames
    BY <1>5 DEF SetFile, OpcodeNames
  <2>2. x \in Opcodes /\ program' = Append(program, x)
    BY <2>1, Decoded
  <2>3. x.op = "set_file" /\ x.n = n
    OBVIOUS
  <2> HIDE DEF x
  <2>4. /\ OperationAdvance(x) = 0 /\ LineAdvance(x) = 0
    BY <2>3 DEF OperationAdvance, LineAdvance
  <2>5. /\ address' = UInt(AddressOf(p)) /\ opIndex' = Index(p)
        /\ line' = UInt(LineOf(p)) /\ file' = FileOf(p)
        /\ isStmt' = IsStmtOf(p) /\ marks' = MarksOf(p)
    <3>1. file' = FileOf(p)
      <4>1. Open(program) \in Seq(Opcodes)
        BY <2>1, Decoded
      <4>2. FileOf(p) = x.n
        BY <2>2, <2>3, <4>1, FileAppended
      <4> QED
        BY <1>5, <2>3, <4>2 DEF SetFile
    <3> QED
      BY <1>5, <2>2, <2>3, <2>4, <3>1, Kept DEF SetFile, RowOps
  <2>6. Registers(Open(program))'
    BY Zenon, <2>2, <2>3, <2>5, NewRegisters
  <2>7. lineMatrix' = lineMatrix /\ x.op \notin RowOps
    BY <1>5, <2>3 DEF SetFile, RowOps
  <2> QED
    BY <2>2, <2>6, <2>7, NoRow
<1>6. ASSUME NegateStmt
      PROVE  MatrixInv'
  <2> DEFINE x == [op |-> "negate_stmt", n |-> 0]
             p == Append(Open(program), x)
  <2>1. Decode("negate_stmt", 0) /\ "negate_stmt" \in OpcodeNames
    BY <1>6 DEF NegateStmt, OpcodeNames
  <2>2. x \in Opcodes /\ program' = Append(program, x)
    BY <2>1, Decoded
  <2>3. x.op = "negate_stmt" /\ x.n = 0
    OBVIOUS
  <2> HIDE DEF x
  <2>4. /\ OperationAdvance(x) = 0 /\ LineAdvance(x) = 0
    BY <2>3 DEF OperationAdvance, LineAdvance
  <2>5. /\ address' = UInt(AddressOf(p)) /\ opIndex' = Index(p)
        /\ line' = UInt(LineOf(p)) /\ file' = FileOf(p)
        /\ isStmt' = IsStmtOf(p) /\ marks' = MarksOf(p)
    BY <1>6, <2>2, <2>3, <2>4, Kept DEF NegateStmt, RowOps
  <2>6. Registers(Open(program))'
    BY Zenon, <2>2, <2>3, <2>5, NewRegisters
  <2>7. lineMatrix' = lineMatrix /\ x.op \notin RowOps
    BY <1>6, <2>3 DEF NegateStmt, RowOps
  <2> QED
    BY <2>2, <2>6, <2>7, NoRow
<1>7. ASSUME ConstAddPc
      PROVE  MatrixInv'
  <2> DEFINE x == [op |-> "const_add_pc", n |-> 0]
             p == Append(Open(program), x)
  <2>1. Decode("const_add_pc", 0) /\ "const_add_pc" \in OpcodeNames
    BY <1>7 DEF ConstAddPc, OpcodeNames
  <2>2. x \in Opcodes /\ program' = Append(program, x)
    BY <2>1, Decoded
  <2>3. x.op = "const_add_pc" /\ x.n = 0
    OBVIOUS
  <2> HIDE DEF x
  <2>4. OperationAdvance(x) = (255 - opcodeBase) \div lineRange /\ LineAdvance(x) = 0
    BY <2>3 DEF OperationAdvance, LineAdvance
  <2>5. /\ address' = UInt(AddressOf(p)) /\ opIndex' = Index(p)
        /\ line' = UInt(LineOf(p)) /\ file' = FileOf(p)
        /\ isStmt' = IsStmtOf(p) /\ marks' = MarksOf(p)
    <3>1. address' = UInt(AddressOf(p)) /\ opIndex' = Index(p)
      <4>1. Advance(OperationAdvance(x))
        BY <1>7, <2>4 DEF ConstAddPc
      <4> QED
        BY Zenon, <2>2, <2>3, <4>1, Advanced
    <3> QED
      BY <1>7, <2>2, <2>3, <2>4, <3>1, Kept DEF ConstAddPc, RowOps
  <2>6. Registers(Open(program))'
    BY Zenon, <2>2, <2>3, <2>5, NewRegisters
  <2>7. lineMatrix' = lineMatrix /\ x.op \notin RowOps
    BY <1>7, <2>3 DEF ConstAddPc, RowOps
  <2> QED
    BY <2>2, <2>6, <2>7, NoRow
<1>8. ASSUME NEW n \in Operands("fixed_advance_pc"), FixedAdvancePc(n)
      PROVE  MatrixInv'
  <2> DEFINE x == [op |-> "fixed_advance_pc", n |-> n]
             p == Append(Open(program), x)
  <2>1. Decode("fixed_advance_pc", n) /\ "fixed_advance_pc" \in OpcodeNames
    BY <1>8 DEF FixedAdvancePc, OpcodeNames
  <2>2. x \in Opcodes /\ program' = Append(program, x)
    BY <2>1, Decoded
  <2>3. x.op = "fixed_advance_pc" /\ x.n = n
    OBVIOUS
  <2> HIDE DEF x
  <2>4. LineAdvance(x) = 0
    BY <2>3 DEF LineAdvance
  <2>5. /\ address' = UInt(AddressOf(p)) /\ opIndex' = Index(p)
        /\ line' = UInt(LineOf(p)) /\ file' = FileOf(p)
        /\ isStmt' = IsStmtOf(p) /\ marks' = MarksOf(p)
    <3>1. address' = UInt(AddressOf(p)) /\ opIndex' = Index(p)
      BY <1>8, <2>2, <2>3, Advanced DEF FixedAdvancePc
    <3> QED
      BY <1>8, <2>2, <2>3, <2>4, <3>1, Kept DEF FixedAdvancePc, RowOps
  <2>6. Registers(Open(program))'
    BY Zenon, <2>2, <2>3, <2>5, NewRegisters
  <2>7. lineMatrix' = lineMatrix /\ x.op \notin RowOps
    BY <1>8, <2>3 DEF FixedAdvancePc, RowOps
  <2> QED
    BY <2>2, <2>6, <2>7, NoRow
<1>9. ASSUME NEW n \in Operands("set_address"), SetAddress(n)
      PROVE  MatrixInv'
  <2> DEFINE x == [op |-> "set_address", n |-> n]
             p == Append(Open(program), x)
  <2>1. Decode("set_address", n) /\ "set_address" \in OpcodeNames
    BY <1>9 DEF SetAddress, OpcodeNames
  <2>2. x \in Opcodes /\ program' = Append(program, x)
    BY <2>1, Decoded
  <2>3. x.op = "set_address" /\ x.n = n
    OBVIOUS
  <2> HIDE DEF x
  <2>4. LineAdvance(x) = 0
    BY <2>3 DEF LineAdvance
  <2>5. /\ address' = UInt(AddressOf(p)) /\ opIndex' = Index(p)
        /\ line' = UInt(LineOf(p)) /\ file' = FileOf(p)
        /\ isStmt' = IsStmtOf(p) /\ marks' = MarksOf(p)
    <3>1. address' = UInt(AddressOf(p)) /\ opIndex' = Index(p)
      BY <1>9, <2>2, <2>3, Advanced DEF SetAddress
    <3> QED
      BY <1>9, <2>2, <2>3, <2>4, <3>1, Kept DEF SetAddress, RowOps
  <2>6. Registers(Open(program))'
    BY Zenon, <2>2, <2>3, <2>5, NewRegisters
  <2>7. lineMatrix' = lineMatrix /\ x.op \notin RowOps
    BY <1>9, <2>3 DEF SetAddress, RowOps
  <2> QED
    BY <2>2, <2>6, <2>7, NoRow
<1>10. ASSUME SetMark("set_prologue_end", "prologueEnd")
      PROVE  MatrixInv'
  <2> DEFINE x == [op |-> "set_prologue_end", n |-> 0]
             p == Append(Open(program), x)
  <2>1. Decode("set_prologue_end", 0) /\ "set_prologue_end" \in OpcodeNames
    BY <1>10 DEF SetMark, OpcodeNames
  <2>2. x \in Opcodes /\ program' = Append(program, x)
    BY <2>1, Decoded
  <2>3. x.op = "set_prologue_end" /\ x.n = 0
    OBVIOUS
  <2> HIDE DEF x
  <2>4. /\ OperationAdvance(x) = 0 /\ LineAdvance(x) = 0
    BY <2>3 DEF OperationAdvance, LineAdvance
  <2>5. /\ address' = UInt(AddressOf(p)) /\ opIndex' = Index(p)
        /\ line' = UInt(LineOf(p)) /\ file' = FileOf(p)
        /\ isStmt' = IsStmtOf(p) /\ marks' = MarksOf(p)
    BY <1>10, <2>2, <2>3, <2>4, Kept DEF SetMark, RowOps
  <2>6. Registers(Open(program))'
    BY Zenon, <2>2, <2>3, <2>5, NewRegisters
  <2>7. lineMatrix' = lineMatrix /\ x.op \notin RowOps
    BY <1>10, <2>3 DEF SetMark, RowOps
  <2> QED
    BY <2>2, <2>6, <2>7, NoRow
<1>11. ASSUME SetMark("set_epilogue_begin", "epilogueBegin")
      PROVE  MatrixInv'
  <2> DEFINE x == [op |-> "set_epilogue_begin", n |-> 0]
             p == Append(Open(program), x)
  <2>1. Decode("set_epilogue_begin", 0) /\ "set_epilogue_begin" \in OpcodeNames
    BY <1>11 DEF SetMark, OpcodeNames
  <2>2. x \in Opcodes /\ program' = Append(program, x)
    BY <2>1, Decoded
  <2>3. x.op = "set_epilogue_begin" /\ x.n = 0
    OBVIOUS
  <2> HIDE DEF x
  <2>4. /\ OperationAdvance(x) = 0 /\ LineAdvance(x) = 0
    BY <2>3 DEF OperationAdvance, LineAdvance
  <2>5. /\ address' = UInt(AddressOf(p)) /\ opIndex' = Index(p)
        /\ line' = UInt(LineOf(p)) /\ file' = FileOf(p)
        /\ isStmt' = IsStmtOf(p) /\ marks' = MarksOf(p)
    BY <1>11, <2>2, <2>3, <2>4, Kept DEF SetMark, RowOps
  <2>6. Registers(Open(program))'
    BY Zenon, <2>2, <2>3, <2>5, NewRegisters
  <2>7. lineMatrix' = lineMatrix /\ x.op \notin RowOps
    BY <1>11, <2>3 DEF SetMark, RowOps
  <2> QED
    BY <2>2, <2>6, <2>7, NoRow
<1>12. ASSUME EndSequence
      PROVE  MatrixInv'
  <2> DEFINE x == [op |-> "end_sequence", n |-> 0]
             p == Append(Open(program), x)
  <2>1. Decode("end_sequence", 0) /\ "end_sequence" \in OpcodeNames
    BY <1>12 DEF EndSequence, OpcodeNames
  <2>2. x \in Opcodes /\ program' = Append(program, x)
    BY <2>1, Decoded
  <2>3. x.op = "end_sequence" /\ x.n = 0
    OBVIOUS
  <2> HIDE DEF x
  <2>4. /\ OperationAdvance(x) = 0 /\ LineAdvance(x) = 0
    BY <2>3 DEF OperationAdvance, LineAdvance
  <2>5. Open(program') = << >>
    BY <2>2, <2>3, SequenceAppended DEF MatrixInv
  <2>6. Registers(Open(program))'
    <3>1. /\ address' = 0 /\ opIndex' = 0 /\ file' = 1 /\ line' = 1
          /\ isStmt' = defaultIsStmt /\ marks' = {}
      BY <1>12 DEF EndSequence, clearRegisters, InitialRegisters
    <3> QED
      BY Zenon, <2>5, <3>1, NoOpcodes DEF Registers
  <2>7. /\ program' \in Seq(Opcodes) /\ lineMatrix' \in Seq(LineEntries)
        /\ MatrixOf(program', lineMatrix')
    <3>1. address = UInt(AddressOf(p)) /\ line = UInt(LineOf(p))
      BY <2>2, <2>3, <2>4, Kept
    <3>2. lineMatrix' = Append(lineMatrix,
              [address |-> UInt(AddressOf(p)), line |-> UInt(LineOf(p)), file |-> file,
               isStmt |-> isStmt, marks |-> marks])
      BY Zenon, <1>12, <3>1 DEF EndSequence, PushRow
    <3>3. x.op \in RowOps
      BY <2>3 DEF RowOps
    <3> QED
      BY Zenon, <2>2, <3>2, <3>3, OneRow
  <2> QED
    BY Zenon, <2>6, <2>7 DEF MatrixInv
<1>13. ASSUME Otherwise
      PROVE  MatrixInv'
  <2> DEFINE x == [op |-> "other", n |-> 0]
             p == Append(Open(program), x)
  <2>1. Decode("other", 0) /\ "other" \in OpcodeNames
    BY <1>13 DEF Otherwise, OpcodeNames
  <2>2. x \in Opcodes /\ program' = Append(program, x)
    BY <2>1, Decoded
  <2>3. x.op = "other" /\ x.n = 0
    OBVIOUS
  <2> HIDE DEF x
  <2>4. /\ OperationAdvance(x) = 0 /\ LineAdvance(x) = 0
    BY <2>3 DEF OperationAdvance, LineAdvance
  <2>5. /\ address' = UInt(AddressOf(p)) /\ opIndex' = Index(p)
        /\ line' = UInt(LineOf(p)) /\ file' = FileOf(p)
        /\ isStmt' = IsStmtOf(p) /\ marks' = MarksOf(p)
    BY <1>13, <2>2, <2>3, <2>4, Kept DEF Otherwise, RowOps
  <2>6. Registers(Open(program))'
    BY Zenon, <2>2, <2>3, <2>5, NewRegisters
  <2>7. lineMatrix' = lineMatrix /\ x.op \notin RowOps
    BY <1>13, <2>3 DEF Otherwise, RowOps
  <2> QED
    BY <2>2, <2>6, <2>7, NoRow
<1>14. CASE UNCHANGED vars
  BY Zenon, <1>14 DEF vars, MatrixInv, Registers
<1> QED
  BY <1>1, <1>2, <1>3, <1>4, <1>5, <1>6, <1>7, <1>8, <1>9, <1>10, <1>11, <1>12, <1>13, <1>14 DEF Next

LEMMA MatrixStart == Init => MatrixInv
<1> SUFFICES ASSUME Init
             PROVE  MatrixInv
  OBVIOUS
<1>1. program = << >> /\ lineMatrix = << >> /\ program \in Seq(Opcodes)
      /\ lineMatrix \in Seq(LineEntries) /\ Len(program) = 0 /\ DOMAIN program = {}
  BY DEF Init
<1>2. Open(program) = << >>
  <2>1. LastOf({"end_sequence"}, program) \in 0 .. Len(program)
    BY <1>1, LastOfFacts
  <2>2. LastOf({"end_sequence"}, program) = 0
    BY <1>1, <2>1
  <2>3. Open(program) = SubSeq(program, 1, 0)
    BY <1>1, <2>2 DEF Open
  <2> QED
    BY <1>1, <2>3, SubSeqEmpty
<1>3. Registers(Open(program))
  <2>1. /\ address = 0 /\ opIndex = 0 /\ file = 1 /\ line = 1
        /\ isStmt = defaultIsStmt /\ marks = {}
    BY DEF Init, InitialRegisters
  <2> QED
    BY Zenon, <1>2, <2>1, NoOpcodes DEF Registers
<1>4. MatrixOf(program, lineMatrix)
  <2>1. RowsOf(program) = {}
    BY <1>1 DEF RowsOf
  <2>2. Cardinality(RowsOf(program)) = 0 /\ Len(lineMatrix) = 0
    BY <1>1, <2>1, FS_EmptySet
  <2> QED
    BY <2>1, <2>2 DEF MatrixOf
<1> QED
  BY Zenon, <1>1, <1>3, <1>4 DEF MatrixInv

(* LineNumberInfo's registers are always what the standard derives from the *)
(* opcodes since the last end_sequence, and its rows what it derives from   *)
(* the opcodes in front of each.                                            *)
THEOREM MatrixInductive == Spec => []MatrixInv
  BY MatrixStart, MatrixStep, PTL DEF Spec

(* generateLineNumberMatrix leaves the matrix of the standard, for every    *)
(* header, every operand and every length of program.                       *)
THEOREM MatrixIsProgramThm == Spec => []MatrixIsProgram
<1>1. MatrixInv => MatrixIsProgram
  BY DEF MatrixInv, MatrixOf, RowsOf, UpTo, MatrixIsProgram, Rows, SequenceOf
<1> QED
  BY <1>1, MatrixInductive, PTL
=============================================================================
