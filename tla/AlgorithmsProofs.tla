-------------------------- MODULE AlgorithmsProofs --------------------------
(***************************************************************************)
(* The functions without state against their references, for all           *)
(* instruction words, all words of any width, all numbers that fit four    *)
(* bytes of an encoding, sections of any size, files with any sections and *)
(* texts of any content.                                                   *)
(***************************************************************************)
EXTENDS Algorithms, Induction

(* getImmediate returns the immediate of RV32I's layout for every           *)
(* instruction word of every format.                                        *)
THEOREM ImmediatesAreRV32I ==
    ASSUME NEW oc \in ImmediateOpcodes, NEW I \in InstructionWords
    PROVE  getImmediate(oc, I) = ImmediateOfRV32I(oc, I)
<1> USE DEF InstructionWords, BitPositions, ImmediateOfRV32I, getImmediate, Layout, None
<1>1. CASE oc \in {"LUI", "AUIPC"}
  BY <1>1 DEF LayoutU
<1>2. CASE oc = "JAL"
  <2>1. SignExtended(JalOffset(I), 19) =
            {i \in 0 .. 31 : LayoutJ(i + 1) \in I /\ i <= 30} \cup (IF 31 \in I THEN {31} ELSE {})
    BY DEF SignExtended, JalOffset, RightBy, LayoutJ
  <2> QED
    BY <1>2, <2>1 DEF LeftBy, LayoutJ
<1>3. CASE oc = "JALR"
  BY <1>3 DEF SignExtended, RightBy, LayoutI
<1>4. CASE oc = "BTYPE"
  <2>1. SignExtended(BranchOffset(I), 11) =
            {i \in 0 .. 31 : LayoutB(i + 1) \in I /\ i <= 30} \cup (IF 31 \in I THEN {31} ELSE {})
    BY DEF SignExtended, BranchOffset, RightBy, LeftBy, LayoutB, LayoutS
  <2> QED
    BY <1>4, <2>1 DEF LeftBy, LayoutB, LayoutS
<1>5. CASE oc = "LOAD"
  BY <1>5 DEF Filled, RightBy, LayoutI
<1>6. CASE oc = "STORE"
  BY <1>6 DEF Filled, StoreOffset, RightBy, LayoutS
<1>7. CASE oc = "ITYPE"
  BY <1>7 DEF Filled, RightBy, LayoutI, LayoutShift
<1>8. CASE oc = "PRIV"
  BY <1>8 DEF RightBy, LayoutCsr
<1>9. CASE oc = "RTYPE"
  BY <1>9
<1> QED
  BY <1>1, <1>2, <1>3, <1>4, <1>5, <1>6, <1>7, <1>8, <1>9 DEF ImmediateOpcodes

-----------------------------------------------------------------------------
(* Every question is of one kind.                                           *)
LEMMA Fields ==
    /\ asked \in Operations => DOMAIN asked = {"A", "B", "opcode", "funct7", "funct3"}
    /\ asked \in Decodings => DOMAIN asked = {"opcode", "word"}
    /\ asked \in Numbers => DOMAIN asked = {"signed", "number", "length", "next"}
    /\ asked \in Links => DOMAIN asked = {"program", "headers"}
    /\ asked \in Lines => DOMAIN asked = {"instruction"}
    /\ asked \in Listings => DOMAIN asked = {"link", "symtab"}
    /\ asked \in Sessions => DOMAIN asked = {"calls"}
    /\ asked \in Entries => DOMAIN asked = {"dieCode", "attributes", "first"}
    /\ asked \in Sources => DOMAIN asked = {"tables", "stmtList", "missing"}
    /\ asked \in Files => DOMAIN asked = {"sections"}
<1>1. asked \in Operations => DOMAIN asked = {"A", "B", "opcode", "funct7", "funct3"}
  BY DEF Operations
<1>2. asked \in Decodings => DOMAIN asked = {"opcode", "word"}
  BY DEF Decodings
<1>3. asked \in Numbers => DOMAIN asked = {"signed", "number", "length", "next"}
  BY DEF Numbers
<1>4. asked \in Links => DOMAIN asked = {"program", "headers"}
  <2>1. asked \in Links => \E p, h : asked = [program |-> p, headers |-> h]
    BY Zenon DEF Links
  <2> QED
    BY <2>1
<1>5. asked \in Lines => DOMAIN asked = {"instruction"}
  BY DEF Lines
<1>6. asked \in Listings => DOMAIN asked = {"link", "symtab"}
  BY DEF Listings
<1>7. asked \in Sessions => DOMAIN asked = {"calls"}
  BY DEF Sessions
<1>8. asked \in Entries => DOMAIN asked = {"dieCode", "attributes", "first"}
  BY DEF Entries
<1>9. asked \in Sources => DOMAIN asked = {"tables", "stmtList", "missing"}
  <2>1. asked \in Sources =>
            \E n : asked \in [tables : [1 .. n -> SampledTables], stmtList : Permutations(1 .. n),
                             missing : SUBSET SampledMissing]
    BY Zenon DEF Sources
  <2> QED
    BY <2>1
<1>10. asked \in Files => DOMAIN asked = {"sections"}
  BY DEF Files
<1> QED
  BY <1>1, <1>2, <1>3, <1>4, <1>5, <1>6, <1>7, <1>8, <1>9, <1>10

(* What answers a question of each kind proved about below.                 *)
LEMMA AnsweredBy ==
    ASSUME Next
    PROVE  /\ asked' = asked
           /\ asked \in Operations => Operate
           /\ asked \in Decodings => Generate
           /\ asked \in Numbers => DecodeNumber
           /\ asked \in Links => BootProgram
           /\ asked \in Lines => DisassembleInstruction
           /\ asked \in Listings => DisassembleProgram
           /\ asked \in Sessions => ShowScreen
           /\ asked \in Files => OpenFile
<1> DEFINE Kind == DOMAIN asked
<1>1. asked' = asked
  BY DEF Next, Operate, Generate, DecodeNumber, BootProgram, DisassembleInstruction,
         DisassembleProgram, ShowScreen, DecodeEntries, CompileSources, ReadDirectories,
         ReadFileNames, LoadSources, ShowSource, OpenFile, AnswerUnless
<1>2. /\ Operate => asked \in Operations
      /\ Generate => asked \in Decodings
      /\ DecodeNumber => asked \in Numbers
      /\ BootProgram => asked \in Links
      /\ DisassembleInstruction => asked \in Lines
      /\ DisassembleProgram => asked \in Listings
      /\ ShowScreen => asked \in Sessions
      /\ DecodeEntries => asked \in Entries
      /\ CompileSources \/ ReadDirectories \/ ReadFileNames \/ LoadSources \/ ShowSource =>
            asked \in Sources
      /\ OpenFile => asked \in Files
  BY DEF Operate, Generate, DecodeNumber, BootProgram, DisassembleInstruction,
         DisassembleProgram, ShowScreen, DecodeEntries, CompileSources, ReadDirectories,
         ReadFileNames, LoadSources, ShowSource, OpenFile, AnswerUnless
<1>3. /\ asked \in Operations => "A" \in Kind
      /\ asked \in Decodings => "word" \in Kind
      /\ asked \in Numbers => "number" \in Kind
      /\ asked \in Links => "headers" \in Kind
      /\ asked \in Lines => "instruction" \in Kind
      /\ asked \in Listings => "symtab" \in Kind
      /\ asked \in Sessions => "calls" \in Kind
      /\ asked \in Files => "sections" \in Kind
  BY Fields
<1>4. /\ "A" \in Kind /\ Next => Operate
      /\ "word" \in Kind /\ Next => Generate
      /\ "number" \in Kind /\ Next => DecodeNumber
      /\ "headers" \in Kind /\ Next => BootProgram
      /\ "instruction" \in Kind /\ Next => DisassembleInstruction
      /\ "symtab" \in Kind /\ Next => DisassembleProgram
      /\ "calls" \in Kind /\ Next => ShowScreen
      /\ "sections" \in Kind /\ Next => OpenFile
  BY <1>2, Fields DEF Next
<1> QED
  BY <1>1, <1>3, <1>4

(* Whatever is asked and however the sampled words are chosen, the answer   *)
(* of the immediate generator is the immediate of RV32I.                    *)
THEOREM ImmediatesAnswered == Spec => []ImmediateIsRV32I
<1>1. Init => ImmediateIsRV32I
  BY DEF Init, ImmediateIsRV32I
<1>2. ImmediateIsRV32I /\ [Next]_algvars => ImmediateIsRV32I'
  <2> SUFFICES ASSUME ImmediateIsRV32I, [Next]_algvars, done', asked' \in Decodings
               PROVE  answer' = ImmediateOfRV32I(asked'.opcode, asked'.word)
    BY DEF ImmediateIsRV32I
  <2>1. CASE UNCHANGED algvars
    BY <2>1 DEF algvars, ImmediateIsRV32I
  <2>2. CASE Next
    <3>1. asked' = asked /\ asked.opcode \in ImmediateOpcodes /\ asked.word \in InstructionWords
      BY <2>2, AnsweredBy, SampleAssumption DEF Decodings
    <3>2. answer' = getImmediate(asked.opcode, asked.word)
      BY <2>2, <3>1, AnsweredBy DEF Generate
    <3> QED
      BY <3>1, <3>2, ImmediatesAreRV32I
  <2> QED
    BY <2>1, <2>2
<1> QED
  BY <1>1, <1>2, PTL DEF Spec

-----------------------------------------------------------------------------
(* The powers of two.                                                       *)
LEMMA Powers ==
    /\ TwoTo \in [0 .. XLEN -> Nat \ {0}] /\ TwoTo[0] = 1
    /\ \A i \in 1 .. XLEN : TwoTo[i] = 2 * TwoTo[i - 1]
<1> DEFINE E(F) == F = [i \in 0 .. XLEN |-> IF i = 0 THEN 1 ELSE 2 * F[i - 1]]
           G == [p \in Nat \X (Nat \ {0}) |-> 2 * p[2]]
<1>1. XLEN \in Nat
  BY WidthAssumption
<1>2. \E F : E(F)
  <2>1. G \in [Nat \X (Nat \ {0}) -> Nat \ {0}] /\ 1 \in Nat \ {0}
    OBVIOUS
  <2>2. \A p \in Nat \X (Nat \ {0}) : G[p] = 2 * p[2]
    OBVIOUS
  <2> HIDE DEF G
  <2>3. PICK H : Iterates(H, XLEN, Nat \ {0}, 1, G)
    BY <1>1, <2>1, Recursion
  <2>4. H \in [0 .. XLEN -> Nat \ {0}] /\ H[0] = 1
    BY <2>3 DEF Iterates
  <2>5. ASSUME NEW i \in 1 .. XLEN
        PROVE  H[i] = 2 * H[i - 1]
    <3>1. i - 1 \in 0 .. XLEN /\ i \in Nat
      BY <1>1
    <3>2. H[i] = G[<<i, H[i - 1]>>] /\ H[i - 1] \in Nat \ {0}
      BY <2>3, <2>4, <3>1 DEF Iterates
    <3>3. <<i, H[i - 1]>> \in Nat \X (Nat \ {0})
      BY <3>1, <3>2
    <3> QED
      BY <2>2, <3>2, <3>3
  <2>6. \A i \in 0 .. XLEN : H[i] = IF i = 0 THEN 1 ELSE 2 * H[i - 1]
    BY <1>1, <2>4, <2>5
  <2>7. E(H)
    BY <2>4, <2>6
  <2> HIDE DEF E
  <2> QED
    BY <2>7
<1>3. E(TwoTo)
  <2>1. TwoTo = CHOOSE F : E(F)
    BY DEF TwoTo
  <2> HIDE DEF E
  <2> QED
    BY <1>2, <2>1
<1> HIDE DEF G
<1>4. /\ DOMAIN TwoTo = 0 .. XLEN
      /\ \A i \in 0 .. XLEN : TwoTo[i] = IF i = 0 THEN 1 ELSE 2 * TwoTo[i - 1]
  <2>1. \A F : E(F) => /\ DOMAIN F = 0 .. XLEN
                       /\ \A i \in 0 .. XLEN : F[i] = IF i = 0 THEN 1 ELSE 2 * F[i - 1]
    <3> SUFFICES ASSUME NEW F, E(F)
                 PROVE  /\ DOMAIN F = 0 .. XLEN
                        /\ \A i \in 0 .. XLEN : F[i] = IF i = 0 THEN 1 ELSE 2 * F[i - 1]
      OBVIOUS
    <3>1. DOMAIN F = 0 .. XLEN
      BY Zenon
    <3>2. \A i \in 0 .. XLEN : F[i] = IF i = 0 THEN 1 ELSE 2 * F[i - 1]
      BY Zenon
    <3> QED
      BY <3>1, <3>2
  <2> HIDE DEF E
  <2> QED
    BY Zenon, <1>3, <2>1
<1> HIDE DEF E
<1>5. TwoTo[0] = 1 /\ \A i \in 1 .. XLEN : TwoTo[i] = 2 * TwoTo[i - 1]
  BY <1>1, <1>4
<1> DEFINE S == {k \in Nat : k <= XLEN => TwoTo[k] \in Nat \ {0}}
<1>6. 0 \in S
  BY <1>5
<1>7. ASSUME NEW k \in S
      PROVE  k + 1 \in S
  <2>1. k + 1 \in Nat /\ (k + 1) - 1 = k
    OBVIOUS
  <2>2. k + 1 <= XLEN => k + 1 \in 1 .. XLEN /\ TwoTo[k] \in Nat \ {0}
    BY <1>1
  <2>3. k + 1 <= XLEN => TwoTo[k + 1] = 2 * TwoTo[k]
    BY <1>5, <2>1, <2>2
  <2>4. k + 1 <= XLEN => TwoTo[k + 1] \in Nat \ {0}
    <3> DEFINE x == TwoTo[k]
               y == TwoTo[k + 1]
    <3> HIDE DEF x, y
    <3>1. k + 1 <= XLEN => y = 2 * x /\ x \in Nat \ {0}
      BY <2>2, <2>3 DEF x, y
    <3>2. k + 1 <= XLEN => y \in Nat \ {0}
      BY <3>1
    <3> QED
      BY <3>2 DEF y
  <2> QED
    BY <2>1, <2>4
<1>8. \A k \in Nat : k \in S
  <2> HIDE DEF S
  <2>1. S \in SUBSET Nat
    BY DEF S
  <2> QED
    BY <1>6, <1>7, <2>1, Induct
<1>9. \A i \in 0 .. XLEN : TwoTo[i] \in Nat \ {0}
  BY <1>1, <1>8
<1>10. TwoTo = [i \in 0 .. XLEN |-> IF i = 0 THEN 1 ELSE 2 * TwoTo[i - 1]]
  BY <1>3 DEF E
<1>11. TwoTo \in [0 .. XLEN -> Nat \ {0}]
  <2> DEFINE V(i) == IF i = 0 THEN 1 ELSE 2 * TwoTo[i - 1]
  <2>1. TwoTo = [i \in 0 .. XLEN |-> V(i)] /\ \A i \in 0 .. XLEN : V(i) = TwoTo[i]
    BY Zenon, <1>4, <1>10
  <2>2. \A i \in 0 .. XLEN : V(i) \in Nat \ {0}
    BY Zenon, <1>9, <2>1
  <2> HIDE DEF V
  <2> QED
    BY Zenon, <2>1, <2>2
<1> QED
  BY Zenon, <1>5, <1>11

(* Halving a quotient, and dividing a half.                                 *)
LEMMA Halving ==
    ASSUME NEW x \in Int, NEW m \in Nat \ {0}
    PROVE  /\ (x \div m) \div 2 = x \div (2 * m)
           /\ (x \div 2) \div m = x \div (2 * m)
<1> DEFINE q == x \div (2 * m)
           r == x % (2 * m)
           t == m * q
<1>1. 2 * m \in Nat \ {0}
  OBVIOUS
<1>2. q \in Int /\ r \in 0 .. 2 * m - 1 /\ x = (2 * m) * q + r
  BY <1>1, Division
<1>3. t \in Int /\ (2 * m) * q = 2 * t
  BY <1>2
<1>4. x = 2 * t + r
  BY <1>2, <1>3
<1> HIDE DEF r
<1>5. (x \div 2) \div m = q
  <2> DEFINE s == r \div 2
  <2>1. s \in 0 .. m - 1 /\ x \div 2 = t + s
    <3> HIDE DEF q, t
    <3> QED
      BY <1>2, <1>3, <1>4
  <2>2. x \div 2 \in Int
    OBVIOUS
  <2> HIDE DEF s, q
  <2>3. x \div 2 = m * q + s
    BY <2>1
  <2> HIDE DEF t
  <2> QED
    BY <1>2, <2>1, <2>2, <2>3, Divided
<1>6. (x \div m) \div 2 = q
  <2> DEFINE b == IF r >= m THEN 1 ELSE 0
  <2>1. b \in {0, 1} /\ r - m * b \in 0 .. m - 1
    BY <1>2
  <2>2. 2 * q + b \in Int /\ m * (2 * q + b) = 2 * t + m * b
    <3> HIDE DEF q, b
    <3>1. CASE b = 0
      BY <1>2, <3>1
    <3>2. CASE b = 1
      BY <1>2, <3>2
    <3> QED
      BY <2>1, <3>1, <3>2
  <2>3. m * b \in Int
    BY <2>1
  <2>4. x = m * (2 * q + b) + (r - m * b)
    <3> HIDE DEF b, q, t
    <3> QED
      BY <1>2, <1>3, <1>4, <2>1, <2>2, <2>3
  <2> HIDE DEF b, q, t
  <2>5. x \div m = 2 * q + b
    BY <2>1, <2>2, <2>4, Divided
  <2> QED
    BY <1>2, <2>1, <2>5
<1> QED
  BY <1>5, <1>6 DEF q


(* The digits of a number.                                                  *)
LEMMA DigitFacts ==
    ASSUME NEW x \in Int, NEW i \in 0 .. XLEN
    PROVE  /\ x \div TwoTo[i] \in Int /\ Digit(x, i) \in {0, 1}
           /\ i = 0 => Digit(x, i) = x % 2 /\ x \div TwoTo[i] = x
           /\ i < XLEN => /\ x \div TwoTo[i] = 2 * (x \div TwoTo[i + 1]) + Digit(x, i)
                          /\ (x \div 2) \div TwoTo[i] = x \div TwoTo[i + 1]
                          /\ (x \div TwoTo[i]) \div 2 = x \div TwoTo[i + 1]
                          /\ Digit(x \div 2, i) = Digit(x, i + 1)
<1> DEFINE T == TwoTo[i]
           q == x \div T
<1>1. T \in Nat \ {0} /\ (i = 0 => T = 1)
  BY Powers
<1>2. q \in Int
  BY <1>1, Division
<1>3. Digit(x, i) = q % 2
  BY DEF Digit
<1>4. i = 0 => q = x
  BY <1>1
<1>5. ASSUME i < XLEN
      PROVE  /\ q = 2 * (x \div TwoTo[i + 1]) + (q % 2)
             /\ (x \div 2) \div T = x \div TwoTo[i + 1]
             /\ q \div 2 = x \div TwoTo[i + 1]
             /\ Digit(x \div 2, i) = Digit(x, i + 1)
  <2>1. i + 1 \in 1 .. XLEN /\ (i + 1) - 1 = i
    BY <1>5, WidthAssumption
  <2>2. TwoTo[i + 1] = 2 * T
    BY <2>1, Powers
  <2> HIDE DEF T
  <2>3. q \div 2 = x \div TwoTo[i + 1] /\ (x \div 2) \div T = x \div TwoTo[i + 1]
    BY <1>1, <2>2, Halving
  <2>4. q = 2 * (q \div 2) + (q % 2)
    BY <1>2
  <2>5. Digit(x \div 2, i) = Digit(x, i + 1)
    BY <2>3 DEF Digit, T
  <2> QED
    BY <2>3, <2>4, <2>5
<1> HIDE DEF q
<1>6. q % 2 \in {0, 1}
  BY <1>2
<1> QED
  BY Zenon, <1>2, <1>3, <1>4, <1>5, <1>6 DEF q

LEMMA WordFacts ==
    /\ XLEN \in Nat /\ WordSize \in Nat \ {0} /\ WordSize = TwoTo[XLEN]
    /\ Words = 0 .. WordSize - 1 /\ Positions = 0 .. XLEN - 1 /\ XLEN - 1 \in Nat
    /\ \A w \in Words : w \in Nat /\ w \div TwoTo[XLEN] = 0
  BY WidthAssumption DEF Words, Positions

(* A word is known by its digits.                                           *)
LEMMA WordOfDigits ==
    ASSUME NEW S \in SUBSET Positions, NEW w \in Words,
           \A i \in Positions : i \in S <=> Digit(w, i) = 1
    PROVE  WordOf(S) = w /\ Bits(w) = S
<1>1. Bits(w) \in SUBSET Positions /\ \A i \in Positions : i \in Bits(w) <=> Digit(w, i) = 1
  BY Zenon, BitsAssumption
<1>2. S = Bits(w)
  BY Zenon, <1>1
<1> QED
  BY Zenon, <1>2, BitsAssumption

(* Horner's rule makes up the word of the digits.                           *)
LEMMA DigitsMakeUp ==
    ASSUME NEW d \in [Positions -> {0, 1}]
    PROVE  DigitSum(d) = WordOf({i \in Positions : d[i] = 1})
<1> DEFINE E(F) == F = [n \in 0 .. XLEN |-> IF n = 0 THEN 0 ELSE 2 * F[n - 1] + d[XLEN - n]]
           number == CHOOSE F : E(F)
           G == [p \in Nat \X Int |-> IF p[1] \in 1 .. XLEN THEN 2 * p[2] + d[XLEN - p[1]] ELSE 0]
           w == WordOf({i \in Positions : d[i] = 1})
<1>1. XLEN \in Nat /\ \A n \in 1 .. XLEN : XLEN - n \in Positions /\ d[XLEN - n] \in {0, 1}
  BY WordFacts
<1>2. DigitSum(d) = number[XLEN]
  BY DEF DigitSum
<1>3. \E F : E(F)
  <2>1. G \in [Nat \X Int -> Int] /\ 0 \in Int
    BY <1>1
  <2>2. \A n \in 1 .. XLEN, y \in Int : G[<<n, y>>] = 2 * y + d[XLEN - n]
    BY <1>1
  <2> HIDE DEF G
  <2>3. PICK H : Iterates(H, XLEN, Int, 0, G)
    BY <1>1, <2>1, Recursion
  <2>4. H \in [0 .. XLEN -> Int] /\ H[0] = 0
    BY <2>3 DEF Iterates
  <2>5. ASSUME NEW n \in 1 .. XLEN
        PROVE  H[n] = 2 * H[n - 1] + d[XLEN - n]
    <3>1. n - 1 \in 0 .. XLEN
      BY <1>1
    <3>2. H[n] = G[<<n, H[n - 1]>>] /\ H[n - 1] \in Int
      BY <2>3, <2>4, <3>1 DEF Iterates
    <3> QED
      BY <2>2, <3>2
  <2>6. \A n \in 0 .. XLEN : H[n] = IF n = 0 THEN 0 ELSE 2 * H[n - 1] + d[XLEN - n]
    BY <1>1, <2>4, <2>5
  <2>7. E(H)
    BY <2>4, <2>6
  <2> HIDE DEF E
  <2> QED
    BY <2>7
<1>4. E(number)
  <2> HIDE DEF E
  <2> QED
    BY <1>3
<1> HIDE DEF G, number
<1>5. \A n \in 0 .. XLEN : number[n] = IF n = 0 THEN 0 ELSE 2 * number[n - 1] + d[XLEN - n]
  BY Zenon, <1>4
<1> HIDE DEF E
<1>6. w \in Words /\ \A i \in Positions : d[i] = Digit(w, i)
  <2> DEFINE S == {i \in Positions : d[i] = 1}
  <2>1. S \in SUBSET Positions
    OBVIOUS
  <2>2. w \in Words /\ Bits(w) = S
    <3> HIDE DEF S
    <3> QED
      BY Zenon, <2>1, BitsAssumption DEF S
  <2> HIDE DEF w
  <2>3. \A i \in Positions : d[i] = 1 <=> Digit(w, i) = 1
    BY Zenon, <2>2, BitsAssumption
  <2>4. w \in Int /\ \A i \in Positions : i \in 0 .. XLEN
    BY <2>2, WordFacts
  <2>5. \A i \in Positions : Digit(w, i) \in {0, 1}
    BY Zenon, <2>4, DigitFacts
  <2> QED
    BY <2>2, <2>3, <2>5
<1> HIDE DEF w
<1> DEFINE Q(i) == w \div TwoTo[i]
           C == {n \in Nat : n <= XLEN => number[n] = Q(XLEN - n)}
<1>7. 0 \in C
  <2>1. XLEN - 0 = XLEN /\ 0 \in 0 .. XLEN
    BY <1>1
  <2>2. Q(XLEN) = 0 /\ number[0] = 0
    BY <1>5, <1>6, <2>1, WordFacts
  <2> QED
    BY <2>1, <2>2
<1>8. ASSUME NEW n \in C
      PROVE  n + 1 \in C
  <2> SUFFICES ASSUME n + 1 <= XLEN
               PROVE  number[n + 1] = Q(XLEN - (n + 1))
    OBVIOUS
  <2> DEFINE i == XLEN - (n + 1)
  <2>1. /\ n + 1 \in 0 .. XLEN /\ n + 1 # 0 /\ (n + 1) - 1 = n /\ XLEN - n = i + 1
        /\ i \in Positions /\ i \in 0 .. XLEN /\ i < XLEN /\ n <= XLEN
    BY <1>1, WordFacts
  <2>2. number[n + 1] = 2 * number[n] + d[i] /\ number[n] = Q(i + 1)
    <3> HIDE DEF i, Q
    <3> QED
      BY <1>5, <2>1 DEF i
  <2>3. w \in Int
    BY <1>6, WordFacts
  <2>4. Q(i) = 2 * Q(i + 1) + d[i]
    <3> HIDE DEF i
    <3>1. Q(i) = 2 * Q(i + 1) + Digit(w, i)
      BY Zenon, <2>1, <2>3, DigitFacts
    <3>2. d[i] = Digit(w, i)
      BY <1>6, <2>1
    <3> QED
      BY Zenon, <3>1, <3>2
  <2> HIDE DEF Q
  <2> QED
    BY <2>2, <2>4
<1>9. XLEN \in C
  <2>1. C \in SUBSET Nat
    OBVIOUS
  <2> HIDE DEF C
  <2> QED
    BY <1>1, <1>7, <1>8, <2>1, Induct
<1>10. XLEN - XLEN = 0 /\ Q(0) = w
  <2>1. w \in Int /\ 0 \in 0 .. XLEN
    BY <1>1, <1>6, WordFacts
  <2> QED
    BY <1>1, <2>1, DigitFacts
<1>11. number[XLEN] = w
  <2> HIDE DEF Q
  <2> QED
    BY <1>1, <1>9, <1>10
<1> QED
  BY Zenon, <1>2, <1>11 DEF w


(* Dividing twice.                                                          *)
LEMMA Quotients ==
    ASSUME NEW x \in Int, NEW n \in 0 .. XLEN, NEW i \in 0 .. XLEN - n
    PROVE  (x \div TwoTo[n]) \div TwoTo[i] = x \div TwoTo[n + i]
<1> DEFINE y == x \div TwoTo[n]
           C == {k \in Nat : n + k <= XLEN => y \div TwoTo[k] = x \div TwoTo[n + k]}
<1>1. XLEN \in Nat /\ y \in Int
  BY WordFacts, DigitFacts
<1>2. 0 \in C
  <2>1. 0 \in 0 .. XLEN /\ n + 0 = n
    BY <1>1
  <2>2. y \div TwoTo[0] = y
    <3> HIDE DEF y
    <3> QED
      BY <1>1, <2>1, DigitFacts
  <2> QED
    BY <2>1, <2>2
<1> HIDE DEF y
<1>3. ASSUME NEW k \in C
      PROVE  k + 1 \in C
  <2> SUFFICES ASSUME n + (k + 1) <= XLEN
               PROVE  y \div TwoTo[k + 1] = x \div TwoTo[n + (k + 1)]
    OBVIOUS
  <2>1. /\ k \in 0 .. XLEN /\ k < XLEN /\ n + k \in 0 .. XLEN /\ n + k < XLEN
        /\ n + k <= XLEN /\ n + (k + 1) = (n + k) + 1
    BY <1>1
  <2>2. (y \div TwoTo[k]) \div 2 = y \div TwoTo[k + 1]
    BY Zenon, <1>1, <2>1, DigitFacts
  <2>3. (x \div TwoTo[n + k]) \div 2 = x \div TwoTo[(n + k) + 1]
    BY Zenon, <2>1, DigitFacts
  <2>4. y \div TwoTo[k] = x \div TwoTo[n + k]
    BY <2>1
  <2> QED
    BY Zenon, <2>1, <2>2, <2>3, <2>4
<1>4. i \in C
  <2>1. C \in SUBSET Nat /\ i \in Nat
    OBVIOUS
  <2> HIDE DEF C
  <2> QED
    BY <1>2, <1>3, <2>1, Induct
<1>5. n + i <= XLEN
  BY <1>1
<1> QED
  BY <1>4, <1>5 DEF y

LEMMA ShiftedRight ==
    ASSUME NEW a \in Words, NEW n \in 0 .. XLEN - 1
    PROVE  /\ ShiftRight(a, n) = a \div TwoTo[n]
           /\ a \div TwoTo[n] \in Words
<1> DEFINE w == a \div TwoTo[n]
           S == {i \in Positions : i + n \in Bits(a)}
<1>1. XLEN \in Nat /\ n \in 0 .. XLEN /\ TwoTo[n] \in Nat \ {0} /\ a \in Nat /\ XLEN - n \in 0 .. XLEN
  <2>1. XLEN \in Nat /\ a \in Nat
    BY WordFacts
  <2>2. n \in 0 .. XLEN /\ XLEN - n \in 0 .. XLEN
    BY <2>1
  <2> QED
    BY <2>1, <2>2, Powers
<1>2. w \in Words
  <2> DEFINE m == TwoTo[n]
  <2>1. a \div m \in 0 .. a
    <3> HIDE DEF m
    <3>0. m \in Nat \ {0} /\ a \in Int
      BY <1>1 DEF m
    <3>1. a \div m \in Int /\ a % m \in 0 .. m - 1 /\ a = m * (a \div m) + (a % m)
      BY <3>0, Division
    <3> DEFINE q == a \div m
               r == a % m
    <3> HIDE DEF q, r
    <3>2. q \in Int /\ r \in 0 .. m - 1 /\ a = m * q + r /\ m \in Nat /\ m >= 1
      BY <3>0, <3>1 DEF q, r
    <3>3. q >= 0
      BY <1>1, <3>2, Z3
    <3>4. q <= a
      BY <1>1, <3>2, <3>3, Z3
    <3> QED
      BY <3>2, <3>3, <3>4 DEF q
  <2> QED
    BY <2>1, WordFacts
<1>3. \A i \in Nat : i >= XLEN - n /\ i <= XLEN => w \div TwoTo[i] = 0
  <2> DEFINE C == {k \in Nat : k >= XLEN - n /\ k <= XLEN => w \div TwoTo[k] = 0}
  <2>1. w \div TwoTo[XLEN - n] = 0
    <3>1. n + (XLEN - n) = XLEN /\ XLEN - n \in 0 .. XLEN - n /\ a \in Int
      BY <1>1
    <3>2. w \div TwoTo[XLEN - n] = a \div TwoTo[n + (XLEN - n)]
      BY Zenon, <1>1, <3>1, Quotients
    <3> QED
      BY <3>1, <3>2, WordFacts
  <2>2. 0 \in C
    BY <1>1, <2>1
  <2>3. ASSUME NEW k \in C
        PROVE  k + 1 \in C
    <3>1. CASE k + 1 < XLEN - n \/ k + 1 > XLEN
      BY <1>1, <3>1
    <3>2. CASE k + 1 = XLEN - n
      BY <2>1, <3>2
    <3>3. CASE k >= XLEN - n /\ k + 1 <= XLEN
      <4>1. k \in 0 .. XLEN /\ k < XLEN /\ w \in Int
        BY <1>1, <1>2, <3>3, WordFacts
      <4>2. (w \div TwoTo[k]) \div 2 = w \div TwoTo[k + 1]
        <5> HIDE DEF w
        <5> QED
          BY Zenon, <4>1, DigitFacts
      <4>3. w \div TwoTo[k] = 0
        BY <1>1, <3>3
      <4> QED
        BY <4>2, <4>3
    <3> QED
      BY <1>1, <3>1, <3>2, <3>3
  <2>4. \A k \in Nat : k \in C
    <3>1. C \in SUBSET Nat
      OBVIOUS
    <3> HIDE DEF C
    <3> QED
      BY <2>2, <2>3, <3>1, Induct
  <2> QED
    BY <2>4
<1>4. ASSUME NEW i \in Positions
      PROVE  i \in S <=> Digit(w, i) = 1
  <2>1. i \in Nat /\ i \in 0 .. XLEN /\ i < XLEN
    BY WordFacts
  <2>2. CASE i + n >= XLEN
    <3>1. i >= XLEN - n /\ i <= XLEN /\ i + n \notin Positions
      BY <1>1, <2>1, <2>2, WordFacts
    <3>2. w \div TwoTo[i] = 0
      BY <1>3, <2>1, <3>1
    <3>3. Digit(w, i) = 0
      <4> HIDE DEF w
      <4> QED
        BY <3>2 DEF Digit
    <3>4. Bits(a) \in SUBSET Positions
      BY Zenon, BitsAssumption
    <3> QED
      BY <3>1, <3>3, <3>4
  <2>3. CASE i + n < XLEN
    <3>1. i + n \in Positions /\ n + i = i + n /\ i \in 0 .. XLEN - n /\ a \in Int
      BY <1>1, <2>1, <2>3, WordFacts
    <3>2. w \div TwoTo[i] = a \div TwoTo[n + i]
      BY Zenon, <1>1, <3>1, Quotients
    <3>3. Digit(w, i) = Digit(a, i + n)
      <4> HIDE DEF w
      <4> QED
        BY <3>1, <3>2 DEF Digit
    <3>4. i + n \in Bits(a) <=> Digit(a, i + n) = 1
      BY Zenon, <3>1, BitsAssumption
    <3> QED
      BY <3>3, <3>4
  <2> QED
    BY <1>1, <2>1, <2>2, <2>3
<1>5. WordOf(S) = w
  <2>1. S \in SUBSET Positions
    OBVIOUS
  <2> HIDE DEF S, w
  <2> QED
    BY Zenon, <1>2, <1>4, <2>1, WordOfDigits
<1> QED
  BY Zenon, <1>2, <1>5 DEF ShiftRight

(* Digits below the one that is added.                                      *)
LEMMA LowDigits ==
    ASSUME NEW k \in 1 .. XLEN, NEW i \in 0 .. k - 1, NEW x \in Int
    PROVE  /\ Digit(x + TwoTo[k], i) = Digit(x, i)
           /\ Digit(TwoTo[k] - 1 - x, i) = 1 - Digit(x, i)
<1> DEFINE Low(j, l, y) == /\ Digit(y + TwoTo[l], j) = Digit(y, j)
                           /\ Digit((TwoTo[l] - 1) - y, j) = 1 - Digit(y, j)
           C == {j \in Nat : \A l \in 1 .. XLEN, y \in Int : j < l => Low(j, l, y)}
<1>1. XLEN \in Nat
  BY WordFacts
<1>2. \A l \in 1 .. XLEN : TwoTo[l] = 2 * TwoTo[l - 1] /\ TwoTo[l - 1] \in Nat /\ TwoTo[l] \in Nat
  BY <1>1, Powers
<1>3. 0 \in C
  <2> SUFFICES ASSUME NEW l \in 1 .. XLEN, NEW y \in Int
               PROVE  Low(0, l, y)
    OBVIOUS
  <2> DEFINE t == TwoTo[l]
             h == TwoTo[l - 1]
  <2>1. t = 2 * h /\ h \in Int /\ t \in Int
    BY <1>2
  <2>2. 0 \in 0 .. XLEN
    BY <1>1
  <2> HIDE DEF t, h
  <2>3. y + t \in Int /\ (t - 1) - y \in Int
    BY <2>1
  <2>4. /\ Digit(y + t, 0) = (y + t) % 2 /\ Digit((t - 1) - y, 0) = ((t - 1) - y) % 2
        /\ Digit(y, 0) = y % 2
    BY <2>2, <2>3, DigitFacts
  <2>5. (y + t) % 2 = y % 2 /\ ((t - 1) - y) % 2 = 1 - (y % 2)
    BY <2>1
  <2> QED
    BY <2>4, <2>5 DEF t
<1>4. ASSUME NEW j \in C
      PROVE  j + 1 \in C
  <2> SUFFICES ASSUME NEW l \in 1 .. XLEN, NEW y \in Int, j + 1 < l
               PROVE  Low(j + 1, l, y)
    OBVIOUS
  <2> DEFINE t == TwoTo[l]
             h == TwoTo[l - 1]
             z == y \div 2
  <2>1. t = 2 * h /\ h \in Int /\ t \in Int
    BY <1>2
  <2>2. l - 1 \in 1 .. XLEN /\ j < l - 1 /\ j \in 0 .. XLEN /\ j < XLEN /\ z \in Int
    BY <1>1
  <2>3. Low(j, l - 1, z)
    <3> HIDE DEF z, Low
    <3> QED
      BY <2>2
  <2> HIDE DEF t, h
  <2>4. /\ y + t \in Int /\ (t - 1) - y \in Int
        /\ (y + t) \div 2 = z + h /\ ((t - 1) - y) \div 2 = (h - 1) - z
    BY <2>1
  <2> HIDE DEF z
  <2>5. /\ Digit(y + t, j + 1) = Digit((y + t) \div 2, j)
        /\ Digit((t - 1) - y, j + 1) = Digit(((t - 1) - y) \div 2, j)
    BY Zenon, <2>2, <2>4, DigitFacts
  <2>6. Digit(y, j + 1) = Digit(z, j)
    BY Zenon, <2>2, DigitFacts DEF z
  <2>7. Digit(z + h, j) = Digit(z, j) /\ Digit((h - 1) - z, j) = 1 - Digit(z, j)
    BY Zenon, <2>3 DEF h
  <2> QED
    BY Zenon, <2>4, <2>5, <2>6, <2>7 DEF t
<1>5. i \in C
  <2>1. C \in SUBSET Nat /\ i \in Nat
    OBVIOUS
  <2> HIDE DEF C
  <2> QED
    BY <1>3, <1>4, <2>1, Induct
<1>6. i < k
  OBVIOUS
<1>7. Low(i, k, x)
  <2> HIDE DEF Low
  <2> QED
    BY <1>5, <1>6
<1> QED
  BY <1>7


(* Doubling a word moves its digits up.                                     *)
LEMMA Doubled ==
    ASSUME NEW v \in Words
    PROVE  /\ (2 * v) % WordSize \in Words
           /\ \A i \in Positions :
                  Digit((2 * v) % WordSize, i) = IF i = 0 THEN 0 ELSE Digit(v, i - 1)
<1> DEFINE H == TwoTo[XLEN - 1]
           r == IF v >= H THEN v - H ELSE v
<1>1. /\ XLEN \in 1 .. XLEN /\ XLEN - 1 \in 0 .. XLEN /\ XLEN \in Nat
  BY WidthAssumption
<1>2. WordSize = 2 * H /\ H \in Nat \ {0}
  BY <1>1, Powers, WordFacts
<1>3. v \in 0 .. 2 * H - 1
  BY <1>2, WordFacts
<1> HIDE DEF H
<1>4. r \in 0 .. H - 1 /\ (v = r \/ v = r + H)
  BY <1>2, <1>3
<1> HIDE DEF r
<1>5. (2 * v) % WordSize = 2 * r /\ 2 * r \in Words
  <2>1. /\ WordSize \in Nat \ {0} /\ 2 * v \in Int /\ 2 * r \in 0 .. WordSize - 1
        /\ 0 \in Int /\ 1 \in Int
    BY <1>2, <1>3, <1>4
  <2>2. 2 * v = WordSize * 0 + 2 * r \/ 2 * v = WordSize * 1 + 2 * r
    BY <1>2, <1>4
  <2>3. (2 * v) % WordSize = 2 * r
    BY Zenon, <2>1, <2>2, Divided
  <2> QED
    BY <2>1, <2>3, WordFacts
<1>6. ASSUME NEW i \in Positions
      PROVE  Digit(2 * r, i) = IF i = 0 THEN 0 ELSE Digit(v, i - 1)
  <2>1. i \in 0 .. XLEN /\ i \in Nat /\ i < XLEN /\ 2 * r \in Int /\ r \in Int
    BY <1>1, <1>4, WordFacts
  <2>2. CASE i = 0
    <3>1. Digit(2 * r, i) = (2 * r) % 2
      BY <2>1, <2>2, DigitFacts
    <3> QED
      BY <1>4, <2>2, <3>1
  <2>3. CASE i # 0
    <3> DEFINE j == i - 1
    <3>1. j \in 0 .. XLEN /\ j < XLEN /\ j + 1 = i
      BY <1>1, <2>1, <2>3
    <3>2. (2 * r) \div 2 = r
      BY <1>4
    <3>3. Digit(2 * r, j + 1) = Digit(r, j)
      <4> HIDE DEF j
      <4> QED
        BY <2>1, <3>1, <3>2, DigitFacts
    <3>4. Digit(r, j) = Digit(v, j)
      <4>1. CASE v = r
        BY <4>1
      <4>2. CASE v = r + H
        <5>1. XLEN - 1 \in 1 .. XLEN /\ j \in 0 .. (XLEN - 1) - 1
          BY <1>1, <2>1, <2>3
        <5>2. Digit(r + TwoTo[XLEN - 1], j) = Digit(r, j)
          <6> HIDE DEF j
          <6> QED
            BY Zenon, <2>1, <5>1, LowDigits
        <5> QED
          BY <4>2, <5>2 DEF H
      <4> QED
        BY <1>4, <4>1, <4>2
    <3> QED
      BY <2>3, <3>1, <3>3, <3>4
  <2> QED
    BY <2>2, <2>3
<1> QED
  BY <1>5, <1>6

LEMMA ShiftedLeft ==
    ASSUME NEW a \in Words, NEW n \in 0 .. XLEN - 1
    PROVE  ShiftLeft(a, n) = (a * TwoTo[n]) % WordSize
<1> DEFINE v(k) == (a * TwoTo[k]) % WordSize
           Moved(k) == /\ v(k) \in Words
                       /\ \A i \in Positions : Digit(v(k), i) = IF i < k THEN 0 ELSE Digit(a, i - k)
           C == {k \in Nat : k < XLEN => Moved(k)}
<1>1. XLEN \in Nat /\ 0 \in 0 .. XLEN /\ a \in Nat /\ WordSize \in Nat \ {0}
  BY WordFacts
<1>2. 0 \in C
  <2>1. v(0) = a
    <3>1. TwoTo[0] = 1 /\ a \in 0 .. WordSize - 1
      BY Powers, WordFacts
    <3> QED
      BY <1>1, <3>1
  <2>2. \A i \in Positions : ~ (i < 0) /\ i - 0 = i
    BY WordFacts
  <2> HIDE DEF v
  <2> QED
    BY <2>1, <2>2
<1>3. ASSUME NEW k \in C
      PROVE  k + 1 \in C
  <2> SUFFICES ASSUME k + 1 < XLEN
               PROVE  Moved(k + 1)
    OBVIOUS
  <2>1. k \in Nat /\ k < XLEN /\ k \in 0 .. XLEN /\ k + 1 \in 1 .. XLEN /\ (k + 1) - 1 = k
    BY <1>1
  <2>2. Moved(k)
    BY <2>1
  <2>3. v(k + 1) = (2 * v(k)) % WordSize
    <3> DEFINE m == TwoTo[k]
               x == a * m
               q == x \div WordSize
               r == x % WordSize
               q2 == (2 * r) \div WordSize
               r2 == (2 * r) % WordSize
    <3>1. TwoTo[k + 1] = 2 * m /\ m \in Nat
      BY <2>1, Powers
    <3> HIDE DEF m
    <3>2. x \in Int /\ a * (2 * m) = 2 * x
      BY <1>1, <3>1
    <3> HIDE DEF x
    <3>3. q \in Int /\ r \in Int /\ x = WordSize * q + r
      BY <1>1, <3>2, Division
    <3> HIDE DEF q, r
    <3>4. q2 \in Int /\ r2 \in 0 .. WordSize - 1 /\ 2 * r = WordSize * q2 + r2
      <4>1. 2 * r \in Int
        BY <3>3
      <4> QED
        BY <1>1, <4>1, Division
    <3> HIDE DEF q2, r2
    <3>5. WordSize * (2 * q + q2) = 2 * (WordSize * q) + WordSize * q2 /\ 2 * q + q2 \in Int
          /\ WordSize * q \in Int /\ WordSize * q2 \in Int
      BY <1>1, <3>3, <3>4
    <3>6. 2 * x = WordSize * (2 * q + q2) + r2 /\ 2 * x \in Int
      BY <3>2, <3>3, <3>4, <3>5
    <3>7. (2 * x) % WordSize = r2
      <4> DEFINE y == 2 * x
                 k2 == 2 * q + q2
      <4>1. y \in Int /\ k2 \in Int /\ y = WordSize * k2 + r2 /\ r2 \in 0 .. WordSize - 1
        BY Zenon, <3>4, <3>5, <3>6
      <4> HIDE DEF y, k2
      <4>2. y % WordSize = r2
        BY Zenon, <1>1, <4>1, Divided
      <4> QED
        BY Zenon, <4>2 DEF y
    <3>8. v(k + 1) = (2 * x) % WordSize
      BY Zenon, <3>1, <3>2
    <3>9. v(k) = r
      BY Zenon DEF x, m, r
    <3> QED
      BY Zenon, <3>7, <3>8, <3>9 DEF r2
  <2> DEFINE w == v(k)
  <2>4. w \in Words /\ \A i \in Positions : Digit(w, i) = IF i < k THEN 0 ELSE Digit(a, i - k)
    BY Zenon, <2>2
  <2> DEFINE w2 == v(k + 1)
  <2>5. w2 = (2 * w) % WordSize
    BY Zenon, <2>3
  <2> HIDE DEF v, w, w2
  <2>6. w2 \in Words /\ \A i \in Positions : Digit(w2, i) = IF i = 0 THEN 0 ELSE Digit(w, i - 1)
    BY <2>4, <2>5, Doubled
  <2>7. ASSUME NEW i \in Positions
        PROVE  Digit(w2, i) = IF i < k + 1 THEN 0 ELSE Digit(a, i - (k + 1))
    <3>1. i \in Nat /\ (i # 0 => i - 1 \in Positions) /\ (i - 1) - k = i - (k + 1)
      BY <1>1, <2>1, WordFacts
    <3>2. CASE i = 0
      BY <2>1, <2>6, <3>2
    <3>3. CASE i # 0
      <4>1. Digit(w2, i) = Digit(w, i - 1)
        BY <2>6, <3>3
      <4>2. Digit(w, i - 1) = IF i - 1 < k THEN 0 ELSE Digit(a, i - (k + 1))
        BY <2>4, <3>1, <3>3
      <4>3. i - 1 < k <=> i < k + 1
        BY <2>1, <3>1
      <4> QED
        BY <4>1, <4>2, <4>3
    <3> QED
      BY <3>2, <3>3
  <2> QED
    BY Zenon, <2>6, <2>7 DEF w2
<1>4. n \in C /\ n \in Nat /\ n < XLEN
  <2>1. C \in SUBSET Nat /\ n \in Nat /\ n < XLEN
    BY <1>1
  <2> HIDE DEF C
  <2> QED
    BY <1>2, <1>3, <2>1, Induct
<1> DEFINE w == v(n)
           S == {i \in Positions : i - n \in Bits(a)}
<1>5. w \in Words /\ \A i \in Positions : Digit(w, i) = IF i < n THEN 0 ELSE Digit(a, i - n)
  <2> HIDE DEF v
  <2> QED
    BY <1>4
<1> HIDE DEF w, v
<1>6. ASSUME NEW i \in Positions
      PROVE  i \in S <=> Digit(w, i) = 1
  <2>1. i \in Nat /\ i < XLEN
    BY WordFacts
  <2>2. CASE i < n
    <3>1. i - n \notin Positions
      BY <1>4, <2>1, <2>2, WordFacts
    <3>2. Bits(a) \in SUBSET Positions
      BY Zenon, BitsAssumption
    <3> QED
      BY <1>5, <2>2, <3>1, <3>2
  <2>3. CASE ~ (i < n)
    <3>1. i - n \in Positions
      BY <1>1, <1>4, <2>1, <2>3, WordFacts
    <3>2. i - n \in Bits(a) <=> Digit(a, i - n) = 1
      BY Zenon, <3>1, BitsAssumption
    <3> QED
      BY <1>5, <2>3, <3>2
  <2> QED
    BY <2>2, <2>3
<1>7. WordOf(S) = w
  <2>1. S \in SUBSET Positions
    OBVIOUS
  <2> HIDE DEF S
  <2> QED
    BY Zenon, <1>5, <1>6, <2>1, WordOfDigits
<1> QED
  BY Zenon, <1>7 DEF ShiftLeft, w, v

(* The bitwise operators, and the complement.                               *)
LEMMA BitwiseIsDigitwise ==
    ASSUME NEW a \in Words, NEW b \in Words
    PROVE  /\ BitXor(a, b) = DigitSum([i \in Positions |-> (Digit(a, i) + Digit(b, i)) % 2])
           /\ BitOr(a, b) = DigitSum([i \in Positions |-> IF Digit(a, i) + Digit(b, i) > 0 THEN 1 ELSE 0])
           /\ BitAnd(a, b) = DigitSum([i \in Positions |-> Digit(a, i) * Digit(b, i)])
<1>1. \A i \in Positions : Digit(a, i) \in {0, 1} /\ Digit(b, i) \in {0, 1}
  <2>1. a \in Int /\ b \in Int /\ \A i \in Positions : i \in 0 .. XLEN
    BY WordFacts
  <2> QED
    BY Zenon, <2>1, DigitFacts
<1>2. /\ \A i \in Positions : (i \in Bits(a) <=> Digit(a, i) = 1) /\ (i \in Bits(b) <=> Digit(b, i) = 1)
      /\ Bits(a) \in SUBSET Positions /\ Bits(b) \in SUBSET Positions
  BY Zenon, BitsAssumption
<1>3. ASSUME NEW d \in [Positions -> {0, 1}], NEW S \in SUBSET Positions,
             \A i \in Positions : i \in S <=> d[i] = 1
      PROVE  DigitSum(d) = WordOf(S)
  <2>1. {i \in Positions : d[i] = 1} = S
    BY <1>3
  <2> QED
    BY Zenon, <2>1, DigitsMakeUp
<1>4. BitXor(a, b) = DigitSum([i \in Positions |-> (Digit(a, i) + Digit(b, i)) % 2])
  <2> DEFINE d == [i \in Positions |-> (Digit(a, i) + Digit(b, i)) % 2]
             S == (Bits(a) \ Bits(b)) \cup (Bits(b) \ Bits(a))
  <2>1. \A i \in Positions : (Digit(a, i) + Digit(b, i)) % 2 = IF Digit(a, i) = Digit(b, i) THEN 0 ELSE 1
    BY <1>1
  <2>2. d \in [Positions -> {0, 1}] /\ S \in SUBSET Positions
    BY <1>2, <2>1
  <2>3. \A i \in Positions : i \in S <=> d[i] = 1
    BY <1>1, <1>2, <2>1
  <2> HIDE DEF d, S
  <2>4. DigitSum(d) = WordOf(S)
    BY <1>3, <2>2, <2>3
  <2> QED
    BY Zenon, <2>4 DEF d, S, BitXor
<1>5. BitOr(a, b) = DigitSum([i \in Positions |-> IF Digit(a, i) + Digit(b, i) > 0 THEN 1 ELSE 0])
  <2> DEFINE d == [i \in Positions |-> IF Digit(a, i) + Digit(b, i) > 0 THEN 1 ELSE 0]
             S == Bits(a) \cup Bits(b)
  <2>2. d \in [Positions -> {0, 1}] /\ S \in SUBSET Positions
    BY <1>2
  <2>3. \A i \in Positions : i \in S <=> d[i] = 1
    BY <1>1, <1>2
  <2> HIDE DEF d, S
  <2>4. DigitSum(d) = WordOf(S)
    BY <1>3, <2>2, <2>3
  <2> QED
    BY Zenon, <2>4 DEF d, S, BitOr
<1>6. BitAnd(a, b) = DigitSum([i \in Positions |-> Digit(a, i) * Digit(b, i)])
  <2> DEFINE d == [i \in Positions |-> Digit(a, i) * Digit(b, i)]
             S == Bits(a) \cap Bits(b)
  <2>1. \A i \in Positions : Digit(a, i) * Digit(b, i) = IF Digit(a, i) = 1 /\ Digit(b, i) = 1 THEN 1 ELSE 0
    BY <1>1
  <2>2. d \in [Positions -> {0, 1}] /\ S \in SUBSET Positions
    BY <1>2, <2>1
  <2>3. \A i \in Positions : i \in S <=> d[i] = 1
    BY <1>1, <1>2, <2>1
  <2> HIDE DEF d, S
  <2>4. DigitSum(d) = WordOf(S)
    BY <1>3, <2>2, <2>3
  <2> QED
    BY Zenon, <2>4 DEF d, S, BitAnd
<1> QED
  BY <1>4, <1>5, <1>6

LEMMA Complement ==
    ASSUME NEW a \in Words
    PROVE  /\ WordSize - 1 - a \in Words
           /\ WordOf(Positions \ Bits(a)) = WordSize - 1 - a
<1> DEFINE w == (WordSize - 1) - a
           S == Positions \ Bits(a)
<1>1. w \in Words /\ XLEN \in 1 .. XLEN /\ a \in Int
  BY WordFacts, WidthAssumption
<1>2. ASSUME NEW i \in Positions
      PROVE  i \in S <=> Digit(w, i) = 1
  <2>1. i \in 0 .. XLEN - 1 /\ i \in 0 .. XLEN
    BY WordFacts
  <2>2. Digit(w, i) = 1 - Digit(a, i)
    BY <1>1, <2>1, LowDigits, WordFacts
  <2>3. Digit(a, i) \in {0, 1}
    BY Zenon, <1>1, <2>1, DigitFacts
  <2>4. i \in Bits(a) <=> Digit(a, i) = 1
    BY Zenon, BitsAssumption
  <2> HIDE DEF w
  <2> QED
    BY <2>2, <2>3, <2>4
<1>3. WordOf(S) = w
  <2>1. S \in SUBSET Positions
    OBVIOUS
  <2> HIDE DEF S, w
  <2> QED
    BY Zenon, <1>1, <1>2, <2>1, WordOfDigits
<1> QED
  BY <1>1, <1>3

(* The highest digit is the sign.                                           *)
LEMMA SignIsHighest ==
    ASSUME NEW w \in Words
    PROVE  /\ SignBit(w) <=> 2 * w >= WordSize
           /\ SignBit(w) \in BOOLEAN
<1> DEFINE H == TwoTo[XLEN - 1]
<1>1. XLEN - 1 \in 0 .. XLEN /\ XLEN \in 1 .. XLEN /\ XLEN - 1 \in Positions
  BY WidthAssumption DEF Positions
<1>2. WordSize = 2 * H /\ H \in Nat \ {0} /\ w \in 0 .. 2 * H - 1
  BY <1>1, Powers, WordFacts
<1> HIDE DEF H
<1>3. SignBit(w) <=> (w \div H) % 2 = 1
  BY <1>1, BitsAssumption DEF SignBit, Digit, H
<1>4. w \div H = IF w >= H THEN 1 ELSE 0
  <2>1. CASE w >= H
    <3>1. w - H \in 0 .. H - 1 /\ w = H * 1 + (w - H) /\ w \in Int /\ 1 \in Int
      BY <1>2, <2>1
    <3> QED
      BY Zenon, <1>2, <2>1, <3>1, Divided
  <2>2. CASE ~ (w >= H)
    <3>1. w \in 0 .. H - 1 /\ w = H * 0 + w /\ w \in Int /\ 0 \in Int
      BY <1>2, <2>2
    <3> QED
      BY Zenon, <1>2, <2>2, <3>1, Divided
  <2> QED
    BY <2>1, <2>2
<1>5. SignBit(w) <=> 2 * w >= WordSize
  BY <1>2, <1>3, <1>4
<1> QED
  BY <1>5 DEF SignBit

(* A difference of words wraps around once at most.                         *)
LEMMA MinusOfWords ==
    ASSUME NEW a \in Words, NEW b \in Words
    PROVE  /\ Minus(a, b) \in Words
           /\ Minus(a, b) = IF a >= b THEN a - b ELSE a - b + WordSize
<1>1. WordSize \in Nat /\ WordSize > 0
  BY WidthAssumption
<1>2. \A d \in 0 .. WordSize - 1 : d % WordSize = d
  BY <1>1
<1>3. \A d \in 1 - WordSize .. -1 : d % WordSize = d + WordSize
  BY <1>1
<1> QED
  BY <1>1, <1>2, <1>3 DEF Minus, Words

(* The comparator of branches decides what RV32I says unless the difference *)
(* of the operands overflows.                                               *)
LEMMA BranchTaken ==
    ASSUME NEW a \in Words, NEW b \in Words, NEW f3 \in 0 .. 7,
           ~ (f3 \in {4, 5} /\ Overflows(a, b))
    PROVE  branchAlu(a, b, f3) = ReferenceTaken(a, b, f3)
<1>1. WordSize \in Nat /\ WordSize > 0 /\ a \in 0 .. WordSize - 1 /\ b \in 0 .. WordSize - 1
  BY WidthAssumption DEF Words
<1>2. Minus(a, b) = 0 <=> a = b
  BY <1>1, MinusOfWords
<1>3. SignBit(Minus(a, b)) <=> 2 * Minus(a, b) >= WordSize
  BY MinusOfWords, SignIsHighest
<1>4. ~ Overflows(a, b) => (SignBit(Minus(a, b)) <=> Signed(a) < Signed(b))
  <2>1. ~ Overflows(a, b) =>
            (2 * Minus(a, b) >= WordSize <=> Signed(a) < Signed(b))
    BY <1>1, MinusOfWords DEF Overflows, Signed
  <2> QED
    BY <1>3, <2>1
<1>5. /\ Signed(a) \in Int /\ Signed(b) \in Int
      /\ Signed(a) >= Signed(b) <=> ~ (Signed(a) < Signed(b))
  BY <1>1 DEF Signed
<1>6. CASE f3 = 0
  BY <1>2, <1>6 DEF branchAlu, ReferenceTaken
<1>7. CASE f3 = 1
  BY <1>2, <1>7 DEF branchAlu, ReferenceTaken
<1>8. CASE f3 = 4
  <2> DEFINE code == SignBit(Minus(a, b))
             reference == Signed(a) < Signed(b)
  <2>1. branchAlu(a, b, f3) = code
    BY <1>8 DEF branchAlu
  <2>2. ReferenceTaken(a, b, f3) = reference
    BY <1>8 DEF ReferenceTaken
  <2>3. code <=> reference
    BY <1>4, <1>8
  <2>4. code \in BOOLEAN
    BY DEF SignBit
  <2>5. reference \in BOOLEAN
    BY <1>5
  <2> HIDE DEF code, reference
  <2> QED
    BY Zenon, <2>1, <2>2, <2>3, <2>4, <2>5
<1>9. CASE f3 = 5
  <2> DEFINE code == ~ SignBit(Minus(a, b))
             reference == Signed(a) >= Signed(b)
  <2>1. branchAlu(a, b, f3) = code
    BY <1>9 DEF branchAlu
  <2>2. ReferenceTaken(a, b, f3) = reference
    BY <1>9 DEF ReferenceTaken
  <2>3. code <=> reference
    BY <1>4, <1>5, <1>9
  <2>4. code \in BOOLEAN
    BY DEF SignBit
  <2>5. reference \in BOOLEAN
    BY <1>5
  <2> HIDE DEF code, reference
  <2> QED
    BY Zenon, <2>1, <2>2, <2>3, <2>4, <2>5
<1>10. CASE f3 \in {2, 3}
  <2>1. branchAlu(a, b, f3) = FALSE
    BY <1>10 DEF branchAlu
  <2>2. ReferenceTaken(a, b, f3) = FALSE
    BY <1>10 DEF ReferenceTaken
  <2> QED
    BY <2>1, <2>2
<1>11. CASE f3 = 6
  BY <1>11 DEF branchAlu, ReferenceTaken
<1>12. CASE f3 = 7
  BY <1>12 DEF branchAlu, ReferenceTaken
<1> QED
  BY <1>6, <1>7, <1>8, <1>9, <1>10, <1>11, <1>12

(* Branches are taken as RV32I says, for words of any width.                *)
THEOREM BranchesAnswered == Spec => []BranchesAreRV32I
<1>1. Init => BranchesAreRV32I
  BY DEF Init, BranchesAreRV32I
<1>2. BranchesAreRV32I /\ [Next]_algvars => BranchesAreRV32I'
  <2> SUFFICES ASSUME BranchesAreRV32I, [Next]_algvars, done', asked' \in Operations,
                      ~ (asked'.funct3 \in {4, 5} /\ Overflows(asked'.A, asked'.B))
               PROVE  answer'.taken = ReferenceTaken(asked'.A, asked'.B, asked'.funct3)
    BY DEF BranchesAreRV32I
  <2>1. CASE UNCHANGED algvars
    BY <2>1 DEF algvars, BranchesAreRV32I
  <2>2. CASE Next
    <3>1. asked' = asked
      BY <2>2, AnsweredBy
    <3>2. asked.A \in Words /\ asked.B \in Words /\ asked.funct3 \in 0 .. 7
      BY <3>1 DEF Operations
    <3>3. answer'.taken = branchAlu(asked.A, asked.B, asked.funct3)
      BY <2>2, <3>1, AnsweredBy DEF Operate
    <3> QED
      BY <3>1, <3>2, <3>3, BranchTaken
  <2> QED
    BY <2>1, <2>2
<1> QED
  BY <1>1, <1>2, PTL DEF Spec

-----------------------------------------------------------------------------
(* A multiple of WordSize more makes no other word.                         *)
LEMMA Wrapped ==
    ASSUME NEW x \in Int, NEW k \in Int
    PROVE  (x + WordSize * k) % WordSize = x % WordSize
<1> DEFINE q == x \div WordSize
           r == x % WordSize
<1>1. WordSize \in Nat \ {0}
  BY WordFacts
<1>2. q \in Int /\ r \in 0 .. WordSize - 1 /\ x = WordSize * q + r
  BY Zenon, <1>1, Division
<1> HIDE DEF q, r
<1> DEFINE y == x + WordSize * k
           n == q + k
<1>3. y \in Int /\ n \in Int /\ y = WordSize * n + r
  <2>1. WordSize * n = WordSize * q + WordSize * k /\ WordSize * q \in Int /\ WordSize * k \in Int
    BY <1>1, <1>2
  <2> QED
    BY <1>1, <1>2, <2>1
<1> HIDE DEF y, n
<1>4. y % WordSize = r
  BY Zenon, <1>1, <1>2, <1>3, Divided
<1> QED
  BY Zenon, <1>4 DEF y, r

LEMMA SignedFacts ==
    ASSUME NEW a \in Words
    PROVE  \E s \in {0, 1} : /\ Signed(a) = a - WordSize * s
                             /\ s = 1 <=> 2 * a >= WordSize
<1>1. a \in Int /\ WordSize \in Int
  BY WordFacts
<1>2. CASE 2 * a >= WordSize
  BY <1>1, <1>2 DEF Signed
<1>3. CASE ~ (2 * a >= WordSize)
  BY <1>1, <1>3 DEF Signed
<1> QED
  BY <1>2, <1>3

LEMMA SumsOfWords ==
    ASSUME NEW a \in Words, NEW b \in Words
    PROVE  /\ Plus(a, b) = Unsigned(Signed(a) + Signed(b))
           /\ Minus(a, b) = Unsigned(Signed(a) - Signed(b))
<1>1. a \in Int /\ b \in Int /\ WordSize \in Int
  BY WordFacts
<1>2. PICK s \in {0, 1} : Signed(a) = a - WordSize * s
  BY SignedFacts
<1>3. PICK t \in {0, 1} : Signed(b) = b - WordSize * t
  BY SignedFacts
<1> DEFINE x == a + b
           y == a - b
           k == -(s + t)
           l == t - s
<1>4. /\ Signed(a) + Signed(b) = x + WordSize * k
      /\ Signed(a) - Signed(b) = y + WordSize * l
  BY <1>1, <1>2, <1>3
<1>5. x \in Int /\ y \in Int /\ k \in Int /\ l \in Int
  BY <1>1
<1> HIDE DEF x, y, k, l
<1>6. /\ (x + WordSize * k) % WordSize = x % WordSize
      /\ (y + WordSize * l) % WordSize = y % WordSize
  BY <1>5, Wrapped
<1> QED
  BY Zenon, <1>4, <1>6 DEF Plus, Minus, Unsigned, x, y

(* The arithmetic shift, which complements negative words before and after. *)
LEMMA ArithmeticShift ==
    ASSUME NEW a \in Words, NEW n \in 0 .. XLEN - 1
    PROVE  BitXor(ShiftRight(BitXor(SignMask(a), a), n), SignMask(a)) =
               Unsigned(Signed(a) \div TwoTo[n])
<1> DEFINE M == SignMask(a)
           m == TwoTo[n]
<1>1. XLEN \in Nat /\ a \in Int /\ WordSize \in Nat \ {0} /\ m \in Nat \ {0}
  <2>1. XLEN \in Nat /\ a \in Int /\ WordSize \in Nat \ {0}
    BY WordFacts
  <2>2. n \in 0 .. XLEN
    BY <2>1
  <2> QED
    BY <2>1, <2>2, Powers
<1>2. SignBit(a) <=> 2 * a >= WordSize
  BY SignIsHighest
<1>3. {} \in SUBSET Positions /\ Positions \in SUBSET Positions
  OBVIOUS
<1>4. CASE ~ SignBit(a)
  <2>1. M = WordOf({}) /\ Bits(M) = {}
    BY Zenon, <1>3, <1>4, BitsAssumption DEF SignMask
  <2> HIDE DEF M
  <2>2. ASSUME NEW w \in Words
        PROVE  BitXor(M, w) = w /\ BitXor(w, M) = w
    <3>1. Bits(w) \in SUBSET Positions /\ WordOf(Bits(w)) = w
      BY Zenon, BitsAssumption
    <3>2. (Bits(M) \ Bits(w)) \cup (Bits(w) \ Bits(M)) = Bits(w)
      BY <2>1
    <3>3. (Bits(w) \ Bits(M)) \cup (Bits(M) \ Bits(w)) = Bits(w)
      BY <2>1
    <3> QED
      BY Zenon, <3>1, <3>2, <3>3 DEF BitXor
  <2>3. ShiftRight(a, n) = a \div m /\ a \div m \in Words
    BY Zenon, ShiftedRight
  <2>4. BitXor(ShiftRight(BitXor(M, a), n), M) = a \div m
    BY Zenon, <2>2, <2>3
  <2>5. Signed(a) = a
    BY <1>1, <1>2, <1>4 DEF Signed
  <2> DEFINE q == a \div m
  <2>6. q % WordSize = q
    <3>1. q \in 0 .. WordSize - 1
      BY Zenon, <2>3, WordFacts
    <3> HIDE DEF q
    <3> QED
      BY <1>1, <3>1
  <2> QED
    BY Zenon, <2>4, <2>5, <2>6 DEF Unsigned, M
<1>5. CASE SignBit(a)
  <2> DEFINE x == WordSize - 1 - a
             q == x \div m
             r == x % m
  <2>1. M = WordOf(Positions) /\ Bits(M) = Positions
    BY Zenon, <1>3, <1>5, BitsAssumption DEF SignMask
  <2> HIDE DEF M
  <2>2. ASSUME NEW w \in Words
        PROVE  BitXor(M, w) = WordSize - 1 - w /\ BitXor(w, M) = WordSize - 1 - w
    <3>1. Bits(w) \in SUBSET Positions
      BY Zenon, BitsAssumption
    <3>2. (Bits(M) \ Bits(w)) \cup (Bits(w) \ Bits(M)) = Positions \ Bits(w)
      BY <2>1, <3>1
    <3>3. (Bits(w) \ Bits(M)) \cup (Bits(M) \ Bits(w)) = Positions \ Bits(w)
      BY <2>1, <3>1
    <3> QED
      BY Zenon, <3>2, <3>3, Complement DEF BitXor
  <2>3. x \in Words /\ BitXor(M, a) = x
    BY Zenon, <2>2, Complement
  <2>4. ShiftRight(x, n) = q /\ q \in Words
    <3> HIDE DEF x
    <3> QED
      BY Zenon, <2>3, ShiftedRight DEF q
  <2>5. BitXor(ShiftRight(BitXor(M, a), n), M) = WordSize - 1 - q
    <3> HIDE DEF x, q
    <3> QED
      BY Zenon, <2>2, <2>3, <2>4
  <2>6. Signed(a) = (-1) - x /\ x \in Int
    BY <1>1, <1>2, <1>5 DEF Signed
  <2> HIDE DEF x
  <2>7. q \in Int /\ r \in 0 .. m - 1 /\ x = m * q + r
    BY Zenon, <1>1, <2>6, Division
  <2> HIDE DEF q, r, m
  <2> DEFINE y == (-1) - x
             p == (-1) - q
             s == (m - 1) - r
  <2>8. y \in Int /\ p \in Int /\ s \in 0 .. m - 1 /\ y = m * p + s
    <3>1. m * p = (-m) - m * q /\ m * q \in Int
      BY <1>1, <2>7
    <3> QED
      BY <1>1, <2>6, <2>7, <3>1
  <2>9. y \div m = p
    <3> HIDE DEF y, p, s
    <3> QED
      BY Zenon, <1>1, <2>8, Divided
  <2>10. p % WordSize = WordSize - 1 - q
    <3>1. q \in 0 .. WordSize - 1
      BY Zenon, <2>4, WordFacts
    <3> DEFINE z == WordSize - 1 - q
    <3>2. z \in 0 .. WordSize - 1 /\ p = WordSize * (-1) + z /\ -1 \in Int
      BY <1>1, <2>7, <3>1
    <3> HIDE DEF z, p
    <3>3. p % WordSize = z
      <4> DEFINE k == -1
      <4>1. k \in Int /\ p = WordSize * k + z
        BY <3>2
      <4>2. p \in Int /\ z \in 0 .. WordSize - 1 /\ WordSize \in Nat \ {0}
        BY Zenon, <1>1, <2>8, <3>2
      <4> HIDE DEF k
      <4> QED
        BY Zenon, <4>1, <4>2, Divided
    <3> QED
      BY Zenon, <3>3 DEF z
  <2>11. Unsigned(Signed(a) \div m) = WordSize - 1 - q
    <3>1. Signed(a) = y
      BY Zenon, <2>6
    <3> HIDE DEF y, p
    <3> QED
      BY Zenon, <2>9, <2>10, <3>1 DEF Unsigned
  <2> QED
    BY Zenon, <2>5, <2>11 DEF M, m
<1> QED
  BY <1>4, <1>5

(* What the ALU is told to do.                                              *)
LEMMA OperationIs ==
    ASSUME NEW oc \in {"ITYPE", "RTYPE"}, NEW f7 \in {0, 32}, NEW f3 \in 0 .. 7
    PROVE  getAluOperation(oc, f7, f3) =
              CASE f3 = 0 -> IF oc = "RTYPE" /\ f7 # 0 THEN "SUB" ELSE "ADD"
                [] f3 = 1 -> "SLL" [] f3 = 2 -> "SLT" [] f3 = 3 -> "SLTU" [] f3 = 4 -> "XOR"
                [] f3 = 5 -> IF f7 = 0 THEN "SRL" ELSE "SRA"
                [] f3 = 6 -> "OR" [] f3 = 7 -> "AND"
<1>1. f3 \in {0, 1, 2, 3, 4, 5, 6, 7}
  OBVIOUS
<1>2. CASE f3 = 5
  BY <1>2 DEF getAluOperation
<1>3. CASE f3 = 0
  <2>1. CASE oc = "RTYPE"
    BY <1>3, <2>1 DEF getAluOperation
  <2>2. CASE oc = "ITYPE"
    BY <1>3, <2>2 DEF getAluOperation
  <2> QED
    BY <2>1, <2>2
<1>4. CASE f3 \in {1, 2, 3}
  BY <1>4 DEF getAluOperation
<1>5. CASE f3 \in {4, 6, 7}
  BY <1>5 DEF getAluOperation
<1> QED
  BY <1>1, <1>2, <1>3, <1>4, <1>5

LEMMA Operated ==
    ASSUME NEW a \in Words, NEW b \in Words, NEW oc \in {"ITYPE", "RTYPE"},
           NEW f7 \in {0, 32}, NEW f3 \in 0 .. 7,
           ~ (f3 \in {1, 5} /\ b >= XLEN), ~ (f3 = 2 /\ Overflows(a, b)),
           NEW r \in execute(a, b, getAluOperation(oc, f7, f3))
    PROVE  r = Reference(a, b, oc, f7, f3)
<1>1. XLEN \in Nat /\ b \in Nat /\ a \in Nat /\ f3 \in {0, 1, 2, 3, 4, 5, 6, 7}
  BY WordFacts
<1>2. b < XLEN => b \in 0 .. XLEN - 1 /\ b % XLEN = b /\ ShiftCounts(b) = {b}
  BY <1>1 DEF ShiftCounts
<1> DEFINE op == getAluOperation(oc, f7, f3)
<1>3. CASE f3 = 0
  <2>1. CASE oc = "RTYPE" /\ f7 # 0
    <3>1. op = "SUB"
      BY <1>3, <2>1, OperationIs
    <3>2. Reference(a, b, oc, f7, f3) = Unsigned(Signed(a) - Signed(b))
      BY <1>3, <2>1 DEF Reference
    <3> HIDE DEF op
    <3>3. execute(a, b, op) = {Minus(a, b)}
      BY <3>1 DEF execute
    <3> QED
      BY Zenon, <3>2, <3>3, SumsOfWords DEF op
  <2>2. CASE ~ (oc = "RTYPE" /\ f7 # 0)
    <3>1. op = "ADD"
      BY <1>3, <2>2, OperationIs
    <3>2. Reference(a, b, oc, f7, f3) = Unsigned(Signed(a) + Signed(b))
      BY <1>3, <2>2 DEF Reference
    <3> HIDE DEF op
    <3>3. execute(a, b, op) = {Plus(a, b)}
      BY <3>1 DEF execute
    <3> QED
      BY Zenon, <3>2, <3>3, SumsOfWords DEF op
  <2> QED
    BY <2>1, <2>2
<1>4. CASE f3 = 1
  <2>1. op = "SLL" /\ b < XLEN
    BY <1>1, <1>4, OperationIs
  <2>2. Reference(a, b, oc, f7, f3) = Unsigned(a * TwoTo[b % XLEN])
    BY <1>4 DEF Reference
  <2> HIDE DEF op
  <2>3. execute(a, b, op) = {ShiftLeft(a, n) : n \in ShiftCounts(b)}
    BY <2>1 DEF execute
  <2>4. r = ShiftLeft(a, b)
    BY Zenon, <1>2, <2>1, <2>3 DEF op
  <2> QED
    BY Zenon, <1>2, <2>1, <2>2, <2>4, ShiftedLeft DEF Unsigned
<1>5. CASE f3 = 2
  <2>1. op = "SLT" /\ ~ Overflows(a, b)
    BY <1>5, OperationIs
  <2>2. Reference(a, b, oc, f7, f3) = IF Signed(a) < Signed(b) THEN 1 ELSE 0
    BY <1>5 DEF Reference
  <2> HIDE DEF op
  <2>3. execute(a, b, op) = {Flag(SignBit(Minus(a, b)))}
    BY <2>1 DEF execute
  <2>4. Minus(a, b) \in Words /\ (SignBit(Minus(a, b)) <=> 2 * Minus(a, b) >= WordSize)
    BY MinusOfWords, SignIsHighest
  <2>5. 2 * Minus(a, b) >= WordSize <=> Signed(a) < Signed(b)
    <3>1. WordSize \in Nat /\ a \in 0 .. WordSize - 1 /\ b \in 0 .. WordSize - 1
      BY WordFacts
    <3> QED
      BY <2>1, <3>1, MinusOfWords DEF Overflows, Signed
  <2>6. r = Flag(SignBit(Minus(a, b)))
    BY Zenon, <2>3 DEF op
  <2> QED
    BY Zenon, <2>2, <2>4, <2>5, <2>6 DEF Flag
<1>6. CASE f3 = 3
  <2>1. op = "SLTU"
    BY <1>6, OperationIs
  <2>2. Reference(a, b, oc, f7, f3) = IF a < b THEN 1 ELSE 0
    BY <1>6 DEF Reference
  <2> HIDE DEF op
  <2>3. execute(a, b, op) = {Flag(a < b)}
    BY <2>1 DEF execute
  <2>4. r = Flag(a < b)
    BY Zenon, <2>3 DEF op
  <2> QED
    BY <2>2, <2>4 DEF Flag
<1>7. CASE f3 = 4
  <2>1. op = "XOR"
    BY <1>7, OperationIs
  <2>2. Reference(a, b, oc, f7, f3) = DigitSum([i \in Positions |-> (Digit(a, i) + Digit(b, i)) % 2])
    BY <1>7 DEF Reference
  <2> HIDE DEF op
  <2>3. execute(a, b, op) = {BitXor(a, b)}
    BY <2>1 DEF execute
  <2> QED
    BY Zenon, <2>2, <2>3, BitwiseIsDigitwise DEF op
<1>8. CASE f3 = 5 /\ f7 = 0
  <2>1. op = "SRL" /\ b < XLEN
    BY <1>1, <1>8, OperationIs
  <2>2. Reference(a, b, oc, f7, f3) = a \div TwoTo[b % XLEN]
    BY <1>8 DEF Reference
  <2> HIDE DEF op
  <2>3. execute(a, b, op) = {ShiftRight(a, n) : n \in ShiftCounts(b)}
    BY <2>1 DEF execute
  <2>4. r = ShiftRight(a, b)
    BY Zenon, <1>2, <2>1, <2>3 DEF op
  <2> QED
    BY Zenon, <1>2, <2>1, <2>2, <2>4, ShiftedRight
<1>9. CASE f3 = 5 /\ f7 # 0
  <2>1. op = "SRA" /\ b < XLEN
    BY <1>1, <1>9, OperationIs
  <2>2. Reference(a, b, oc, f7, f3) = Unsigned(Signed(a) \div TwoTo[b % XLEN])
    BY <1>9 DEF Reference
  <2> HIDE DEF op
  <2>3. execute(a, b, op) =
            {BitXor(ShiftRight(BitXor(SignMask(a), a), n), SignMask(a)) : n \in ShiftCounts(b)}
    BY <2>1 DEF execute
  <2>4. r = BitXor(ShiftRight(BitXor(SignMask(a), a), b), SignMask(a))
    BY Zenon, <1>2, <2>1, <2>3 DEF op
  <2> QED
    BY Zenon, <1>2, <2>1, <2>2, <2>4, ArithmeticShift
<1>10. CASE f3 = 6
  <2>1. op = "OR"
    BY <1>10, OperationIs
  <2>2. Reference(a, b, oc, f7, f3) =
            DigitSum([i \in Positions |-> IF Digit(a, i) + Digit(b, i) > 0 THEN 1 ELSE 0])
    BY <1>10 DEF Reference
  <2> HIDE DEF op
  <2>3. execute(a, b, op) = {BitOr(a, b)}
    BY <2>1 DEF execute
  <2> QED
    BY Zenon, <2>2, <2>3, BitwiseIsDigitwise DEF op
<1>11. CASE f3 = 7
  <2>1. op = "AND"
    BY <1>11, OperationIs
  <2>2. Reference(a, b, oc, f7, f3) = DigitSum([i \in Positions |-> Digit(a, i) * Digit(b, i)])
    BY <1>11 DEF Reference
  <2> HIDE DEF op
  <2>3. execute(a, b, op) = {BitAnd(a, b)}
    BY <2>1 DEF execute
  <2> QED
    BY Zenon, <2>2, <2>3, BitwiseIsDigitwise DEF op
<1> QED
  BY <1>1, <1>3, <1>4, <1>5, <1>6, <1>7, <1>8, <1>9, <1>10, <1>11

(* The ALU computes what RV32I says, for all operands of any width, except  *)
(* shifts that do not fit and comparisons whose difference overflows.       *)
THEOREM ArithmeticAnswered == Spec => []ArithmeticIsRV32I
<1>1. Init => ArithmeticIsRV32I
  BY DEF Init, ArithmeticIsRV32I
<1>2. ArithmeticIsRV32I /\ [Next]_algvars => ArithmeticIsRV32I'
  <2> SUFFICES ASSUME ArithmeticIsRV32I, [Next]_algvars, done', asked' \in Operations,
                      ~ (asked'.funct3 \in {1, 5} /\ asked'.B >= XLEN),
                      ~ (asked'.funct3 = 2 /\ Overflows(asked'.A, asked'.B))
               PROVE  answer'.result =
                          Reference(asked'.A, asked'.B, asked'.opcode, asked'.funct7, asked'.funct3)
    BY DEF ArithmeticIsRV32I
  <2>1. CASE UNCHANGED algvars
    BY <2>1 DEF algvars, ArithmeticIsRV32I
  <2>2. CASE Next
    <3>1. asked' = asked /\ asked \in Operations /\ Operate
      BY <2>2, AnsweredBy
    <3>2. /\ asked.A \in Words /\ asked.B \in Words /\ asked.funct3 \in 0 .. 7
          /\ asked.funct7 \in {0, 32} /\ asked.opcode \in {"ITYPE", "RTYPE"}
      BY <3>1 DEF Operations
    <3>3. PICK r \in execute(asked.A, asked.B,
                             getAluOperation(asked.opcode, asked.funct7, asked.funct3)) :
              answer'.result = r
      BY <3>1 DEF Operate
    <3> DEFINE a == asked.A
               b == asked.B
               oc == asked.opcode
               f7 == asked.funct7
               f3 == asked.funct3
    <3>4. /\ a \in Words /\ b \in Words /\ f3 \in 0 .. 7 /\ f7 \in {0, 32}
          /\ oc \in {"ITYPE", "RTYPE"} /\ r \in execute(a, b, getAluOperation(oc, f7, f3))
          /\ ~ (f3 \in {1, 5} /\ b >= XLEN) /\ ~ (f3 = 2 /\ Overflows(a, b))
      BY Zenon, <3>1, <3>2
    <3> HIDE DEF a, b, oc, f7, f3
    <3>5. r = Reference(a, b, oc, f7, f3)
      BY <3>4, Operated
    <3> QED
      BY Zenon, <3>1, <3>3, <3>5 DEF a, b, oc, f7, f3
  <2> QED
    BY <2>1, <2>2
<1> QED
  BY <1>1, <1>2, PTL DEF Spec

-----------------------------------------------------------------------------
(* A section's place in the map is the first of those of its name.          *)
LEMMA PlaceIsMin ==
    ASSUME NEW sections, NEW name \in DebugSections
    PROVE  LET E == {i \in 1 .. Len(sections) : sections[i] = name}
           IN  Place(sections)[name] = IF E # {} THEN Min(E) ELSE 0
  BY Zenon DEF Place, SelectInSeq

(* The first section of a name is found by its prefix when no section of a  *)
(* longer name is in front of it.                                           *)
LEMMA FirstOfName ==
    ASSUME NEW sections, Len(sections) \in Nat, NEW name \in DebugSections,
           NEW place, place = Place(sections)[name],
           \A i \in 1 .. Len(sections) : IsStrictPrefix(name, sections[i]) => place \in 1 .. i
    PROVE  /\ getSectionHeader(sections, name) = place
           /\ place # 0 <=> \E i \in 1 .. Len(sections) : sections[i] = name
<1> DEFINE E == {i \in 1 .. Len(sections) : sections[i] = name}
           P == {i \in 1 .. Len(sections) : IsPrefix(name, sections[i])}
<1>1. IsPrefix(name, name)
  BY DEF IsPrefix, DebugSections
<1>2. E \subseteq P /\ P \subseteq Nat \ {0}
  BY <1>1
<1>3. place = (IF E # {} THEN Min(E) ELSE 0)
  BY Zenon, PlaceIsMin
<1>4. getSectionHeader(sections, name) = (IF P # {} THEN Min(P) ELSE 0)
  BY DEF getSectionHeader, SelectInSeq
<1>5. \A i \in P : i \in E \/ place \in 1 .. i
  BY DEF IsStrictPrefix
<1>6. E # {} <=> \E i \in 1 .. Len(sections) : sections[i] = name
  OBVIOUS
<1> HIDE DEF E, P
<1> QED
  <2>1. (IF P # {} THEN Min(P) ELSE 0) = place /\ (place # 0 <=> E # {})
    <3>1. CASE E = {}
      <4>1. P = {}
        BY <1>3, <1>5, <3>1
      <4> QED
        BY <1>3, <3>1, <4>1
    <3>2. CASE E # {}
      <4>1. place \in E /\ \A y \in E : place <= y
        BY <1>2, <1>3, <3>2, MinOfNat
      <4>2. place \in P /\ \A y \in P : place <= y
        BY <1>2, <1>5, <4>1
      <4>3. Min(P) \in P /\ \A y \in P : Min(P) <= y
        BY <1>2, <4>2, MinOfNat
      <4>4. /\ Min(P) <= place /\ place <= Min(P)
            /\ place \in Nat \ {0} /\ Min(P) \in Nat
        BY <1>2, <4>2, <4>3
      <4>5. Min(P) = place
        BY <4>4
      <4> QED
        BY <3>2, <4>2, <4>4, <4>5
    <3> QED
      BY <3>1, <3>2
  <2> QED
    BY Zenon, <1>4, <1>6, <2>1

(* The sections of every file are a sequence.                               *)
LEMMA SectionsAreSequence ==
    ASSUME NEW f \in Files
    PROVE  Len(f.sections) \in Nat /\ DOMAIN f.sections = 1 .. Len(f.sections)
<1> DEFINE front == <<<<"debug", "abbrev">>>>
<1>0. PICK T \in SUBSET OtherSections : \E s \in SetToSeqs(T) : f.sections = front \o s
  BY Zenon DEF Files
<1>1. PICK s \in SetToSeqs(T) : f.sections = front \o s
  BY <1>0
<1>2. IsFiniteSet(OtherSections)
  <2> DEFINE S1 == {} \cup {<<"debug", "info">>}
             S2 == S1 \cup {<<"debug", "str">>}
             S3 == S2 \cup {<<"debug", "line", "str">>}
             S4 == S3 \cup {<<"debug", "line">>}
             S5 == S4 \cup {<<"debug", "frame">>}
             S6 == S5 \cup {<<"debug", "str", "offsets">>}
  <2>1. OtherSections \subseteq S6
    BY DEF OtherSections, DebugSections
  <2>2. IsFiniteSet(S1)
    BY FS_EmptySet, FS_AddElement
  <2> HIDE DEF S1
  <2>3. IsFiniteSet(S2)
    BY <2>2, FS_AddElement
  <2> HIDE DEF S2
  <2>4. IsFiniteSet(S3)
    BY <2>3, FS_AddElement
  <2> HIDE DEF S3
  <2>5. IsFiniteSet(S4)
    BY <2>4, FS_AddElement
  <2> HIDE DEF S4
  <2>6. IsFiniteSet(S5)
    BY <2>5, FS_AddElement
  <2> HIDE DEF S5
  <2>7. IsFiniteSet(S6)
    BY <2>6, FS_AddElement
  <2> HIDE DEF S6
  <2> QED
    BY <2>1, <2>7, FS_Subset
<1>3. Cardinality(T) \in Nat
  BY <1>2, FS_Subset, FS_CardinalityType
<1>4. s \in [1 .. Cardinality(T) -> T]
  BY Zenon DEF SetToSeqs
<1>5. s \in Seq(T)
  BY <1>3, <1>4
<1>6. /\ front \in Seq({<<"debug", "abbrev">>} \cup T)
      /\ s \in Seq({<<"debug", "abbrev">>} \cup T)
  BY <1>5
<1>7. f.sections \in Seq({<<"debug", "abbrev">>} \cup T)
  BY <1>1, <1>6
<1> QED
  BY <1>7

(* Each part of the debugging information is read from its own section, and *)
(* the file opens if and only if it has them all.                           *)
LEMMA HeadersOfSections ==
    ASSUME NEW sections, Len(sections) \in Nat, DOMAIN sections = 1 .. Len(sections),
           Misleading(sections) = {}
    PROVE  /\ DebugHeaders(sections) = Place(sections)
           /\ Opens(sections) = (DebugSections \subseteq ToSet(sections))
<1>1. ASSUME NEW name \in DebugSections
      PROVE  /\ getSectionHeader(sections, name) = Place(sections)[name]
             /\ Place(sections)[name] # 0 <=>
                    \E i \in 1 .. Len(sections) : sections[i] = name
  <2>1. \A i \in 1 .. Len(sections) :
            IsStrictPrefix(name, sections[i]) => Place(sections)[name] \in 1 .. i
    BY Zenon DEF Misleading
  <2> QED
    BY ZenonT(60), <2>1, FirstOfName
<1>2. DebugHeaders(sections) = Place(sections)
  <2>1. DebugHeaders(sections) = [name \in DebugSections |-> Place(sections)[name]]
    BY Zenon, <1>1 DEF DebugHeaders
  <2>2. Place(sections) = [name \in DebugSections |-> Place(sections)[name]]
    BY Zenon DEF Place
  <2> QED
    BY Zenon, <2>1, <2>2
<1>3. \A name \in DebugSections :
          name \in ToSet(sections) <=> \E i \in 1 .. Len(sections) : sections[i] = name
  BY Zenon DEF ToSet
<1>4. Opens(sections) <=> \A name \in DebugSections : Place(sections)[name] # 0
  BY Zenon, <1>2 DEF Opens
<1>5. Opens(sections) <=> DebugSections \subseteq ToSet(sections)
  BY Zenon, <1>1, <1>3, <1>4
<1>6. Opens(sections) \in BOOLEAN
  BY Zenon DEF Opens
<1> QED
  BY Zenon, <1>2, <1>5, <1>6

(* Whatever sections a file has, in whatever order, they are found but for  *)
(* the longer names the property excepts.                                   *)
THEOREM SectionsFound == Spec => []SectionsAreFound
<1>1. Init => SectionsAreFound
  BY DEF Init, SectionsAreFound
<1>2. SectionsAreFound /\ [Next]_algvars => SectionsAreFound'
  <2> SUFFICES ASSUME SectionsAreFound, [Next]_algvars,
                      done', asked' \in Files, Misleading(asked'.sections) = {}
               PROVE  /\ answer'.headers = Place(asked'.sections)
                      /\ answer'.opens = (DebugSections \subseteq ToSet(asked'.sections))
    BY Zenon DEF SectionsAreFound
  <2>1. CASE UNCHANGED algvars
    BY Zenon, <2>1 DEF algvars, SectionsAreFound
  <2>2. CASE Next
    <3>1. asked' = asked /\ OpenFile
      BY <2>2, AnsweredBy
    <3>2. /\ answer'.opens = Opens(asked.sections)
          /\ answer'.headers = DebugHeaders(asked.sections)
      BY <3>1 DEF OpenFile
    <3>3. Len(asked.sections) \in Nat /\ DOMAIN asked.sections = 1 .. Len(asked.sections)
      BY <3>1, SectionsAreSequence
    <3> QED
      BY ZenonT(60), <3>1, <3>2, <3>3, HeadersOfSections
  <2> QED
    BY <2>1, <2>2
<1> QED
  BY <1>1, <1>2, PTL DEF Spec

-----------------------------------------------------------------------------
LEMMA AlignedUp ==
    ASSUME NEW n \in Nat
    PROVE  Aligned(n) \in Nat /\ Aligned(n) >= n
  BY DEF Aligned

(* The headers of a linked program are the four of its segments, each once. *)
LEMMA HeadersOfLinks ==
    ASSUME NEW l \in Links
    PROVE  \E p :
             /\ p \in [text : SectionSizes \ {0}, data : SectionSizes, bss : SectionSizes]
             /\ l.program = p
             /\ l.headers \in Seq({RomSegment(p), RamSegment(p), GnuStack, Attributes})
             /\ Len(l.headers) = 4
             /\ \A i, j \in 1 .. 4 : i # j => l.headers[i] # l.headers[j]
             /\ \E i \in 1 .. 4 : l.headers[i] = RomSegment(p)
             /\ \E i \in 1 .. 4 : l.headers[i] = RamSegment(p)
<1>1. PICK p \in [text : SectionSizes \ {0}, data : SectionSizes, bss : SectionSizes] :
          \E h \in SetToSeqs({RomSegment(p), RamSegment(p), GnuStack, Attributes}) :
             l = [program |-> p, headers |-> h]
  BY Zenon DEF Links
<1> DEFINE S == {RomSegment(p), RamSegment(p), GnuStack, Attributes}
<1>2. PICK h \in SetToSeqs(S) : l = [program |-> p, headers |-> h]
  BY <1>1
<1>3. l.program = p /\ l.headers = h
  BY <1>2
<1>4. /\ RomSegment(p) # RamSegment(p) /\ RomSegment(p) # GnuStack
      /\ RomSegment(p) # Attributes /\ RamSegment(p) # GnuStack
      /\ RamSegment(p) # Attributes /\ GnuStack # Attributes
  <2>1. /\ RomSegment(p).paddr = "rom" /\ RamSegment(p).paddr = "ram"
        /\ GnuStack.paddr = "none" /\ Attributes.paddr = "none"
        /\ GnuStack.type = "GNU_STACK" /\ Attributes.type = "RISCV_ATTRIBUTES"
    BY DEF RomSegment, RamSegment, GnuStack, Attributes
  <2> QED
    BY <2>1
<1>5. IsFiniteSet(S) /\ Cardinality(S) = 4
  <2> DEFINE a == RomSegment(p)
             b == RamSegment(p)
             c == GnuStack
             d == Attributes
  <2>1. a # b /\ a # c /\ a # d /\ b # c /\ b # d /\ c # d
    BY Zenon, <1>4
  <2>2. S = {a, b, c, d}
    BY Zenon
  <2> HIDE DEF a, b, c, d, S
  <2>3. IsFiniteSet({a}) /\ Cardinality({a}) = 1
    BY FS_Singleton
  <2>4. \A T, x : IsFiniteSet(T) /\ x \notin T
                    => /\ IsFiniteSet(T \cup {x})
                       /\ Cardinality(T \cup {x}) = Cardinality(T) + 1
    BY FS_AddElement
  <2> DEFINE T1 == {a}
             T2 == T1 \cup {b}
             T3 == T2 \cup {c}
             T4 == T3 \cup {d}
  <2>5. b \notin T1 /\ c \notin T2 /\ d \notin T3
    BY <2>1
  <2>6. S = T4
    BY Zenon, <2>2
  <2> HIDE DEF T1
  <2>7. IsFiniteSet(T2) /\ Cardinality(T2) = Cardinality(T1) + 1
    BY Zenon, <2>3, <2>4, <2>5 DEF T1
  <2> HIDE DEF T2
  <2>8. IsFiniteSet(T3) /\ Cardinality(T3) = Cardinality(T2) + 1
    BY Zenon, <2>4, <2>5, <2>7
  <2> HIDE DEF T3
  <2>9. IsFiniteSet(T4) /\ Cardinality(T4) = Cardinality(T3) + 1
    BY Zenon, <2>4, <2>5, <2>8
  <2> HIDE DEF T4
  <2>10. Cardinality(T1) = 1
    BY <2>3 DEF T1
  <2> QED
    BY <2>6, <2>7, <2>8, <2>9, <2>10
<1> HIDE DEF S
<1>6. h \in [1 .. 4 -> S] /\ \A i, j \in 1 .. 4 : i # j => h[i] # h[j]
  BY <1>5 DEF SetToSeqs
<1>7. h \in Injection(1 .. 4, S)
  BY <1>6 DEF Injection, IsInjective
<1>8. Cardinality(1 .. 4) = 4
  <2>1. \A n \in Nat : n # 0 => Cardinality(1 .. n) = n
    BY FS_Interval
  <2>2. 4 \in Nat /\ 4 # 0
    OBVIOUS
  <2> QED
    BY Zenon, <2>1, <2>2
<1>9. h \in Surjection(1 .. 4, S)
  BY <1>5, <1>7, <1>8, FS_Injection
<1>10. \A x \in S : \E i \in 1 .. 4 : h[i] = x
  BY <1>9 DEF Surjection
<1>11. h \in Seq(S) /\ Len(h) = 4
  <2>1. \A n \in Nat : h \in [1 .. n -> S] => h \in Seq(S) /\ Len(h) = n
    OBVIOUS
  <2> QED
    BY <1>6, <2>1
<1> QED
  BY <1>3, <1>6, <1>10, <1>11 DEF S

(* Only the linked segments are loaded, each for what it is.                *)
LEMMA KindsOfHeaders ==
    ASSUME NEW p
    PROVE  /\ IsRom(RomSegment(p)) /\ ~ IsRam(RomSegment(p))
           /\ IsRam(RamSegment(p)) /\ ~ IsRom(RamSegment(p))
           /\ ~ IsRam(GnuStack) /\ ~ IsRom(GnuStack)
           /\ ~ IsRam(Attributes) /\ ~ IsRom(Attributes)
  BY DEF IsRom, IsRam, Loadable, RomSegment, RamSegment, GnuStack, Attributes

(* The parser finds both segments of a linked program, and never a second   *)
(* RAM.                                                                     *)
LEMMA SegmentsFound ==
    ASSUME NEW l \in Links
    PROVE  /\ Starts(l.headers)
           /\ romHeader(l.headers) = RomSegment(l.program)
           /\ ramHeader(l.headers) = RamSegment(l.program)
<1> DEFINE h == l.headers
           p == l.program
<1>1. /\ h \in Seq({RomSegment(p), RamSegment(p), GnuStack, Attributes})
      /\ Len(h) = 4
      /\ \A i, j \in 1 .. 4 : i # j => h[i] # h[j]
      /\ \E i \in 1 .. 4 : h[i] = RomSegment(p)
      /\ \E i \in 1 .. 4 : h[i] = RamSegment(p)
  BY Zenon, HeadersOfLinks
<1> HIDE DEF h, p
<1>2. PICK rom \in 1 .. 4 : h[rom] = RomSegment(p)
  BY <1>1
<1>3. PICK ram \in 1 .. 4 : h[ram] = RamSegment(p)
  BY <1>1
<1>4. DOMAIN h = 1 .. 4
  BY <1>1
<1>5. \A i \in 1 .. 4 : h[i] \in {RomSegment(p), RamSegment(p), GnuStack, Attributes}
  <2> DEFINE S == {RomSegment(p), RamSegment(p), GnuStack, Attributes}
  <2>1. h \in Seq(S) /\ Len(h) = 4
    BY Zenon, <1>1
  <2> HIDE DEF S
  <2>2. \A i \in 1 .. 4 : h[i] \in S
    <3>1. \A X, s : s \in Seq(X) => \A i \in 1 .. Len(s) : s[i] \in X
      OBVIOUS
    <3> QED
      BY Zenon, <2>1, <3>1
  <2> QED
    BY Zenon, <2>2 DEF S
<1>6. \A i \in 1 .. 4 : (IsRam(h[i]) <=> i = ram) /\ (IsRom(h[i]) <=> i = rom)
  <2> SUFFICES ASSUME NEW i \in 1 .. 4
               PROVE  (IsRam(h[i]) <=> i = ram) /\ (IsRom(h[i]) <=> i = rom)
    OBVIOUS
  <2>1. i = ram <=> h[i] = RamSegment(p)
    BY <1>1, <1>3
  <2>2. i = rom <=> h[i] = RomSegment(p)
    BY <1>1, <1>2
  <2> QED
    BY Zenon, <1>5, <2>1, <2>2, KindsOfHeaders
<1>7. Starts(h)
  <2>1. IsRam(h[ram]) /\ \A j \in DOMAIN h \ {ram} : ~ IsRam(h[j])
    BY Zenon, <1>4, <1>6
  <2>2. IsRom(h[rom])
    BY Zenon, <1>6
  <2> QED
    BY Zenon, <1>4, <2>1, <2>2 DEF Starts
<1>8. \A k \in 1 .. 4 : {k} # {} /\ Min({k}) = k
  BY DEF Min
<1>9. romHeader(h) = h[rom]
  <2>1. {i \in 1 .. Len(h) : IsRom(h[i])} = {rom}
    BY Zenon, <1>1, <1>6
  <2> QED
    BY Zenon, <1>8, <2>1 DEF romHeader, SelectInSeq
<1>10. ramHeader(h) = h[ram]
  <2>1. {i \in 1 .. Len(h) : IsRam(h[i])} = {ram}
    BY Zenon, <1>1, <1>6
  <2> QED
    BY Zenon, <1>8, <2>1 DEF ramHeader, SelectInSeq
<1> QED
  BY Zenon, <1>2, <1>3, <1>7, <1>9, <1>10 DEF h, p

LEMMA ImageIsSequence ==
    ASSUME NEW section, NEW n \in Nat
    PROVE  /\ Image(section, n) \in Seq({<<section, i>> : i \in 1 .. n} \cup {Zero})
           /\ Len(Image(section, n)) = Aligned(n)
           /\ \A i \in 1 .. Aligned(n) :
                 Image(section, n)[i] = IF i <= n THEN <<section, i>> ELSE Zero
<1> DEFINE m == Aligned(n)
           T == {<<section, i>> : i \in 1 .. n} \cup {Zero}
<1>1. m \in Nat
  BY AlignedUp
<1>2. Image(section, n) = [i \in 1 .. m |-> IF i <= n THEN <<section, i>> ELSE Zero]
  BY DEF Image
<1> HIDE DEF m
<1>3. Image(section, n) \in [1 .. m -> T]
  BY <1>1, <1>2
<1>4. \A i \in 1 .. m : Image(section, n)[i] = IF i <= n THEN <<section, i>> ELSE Zero
  BY <1>2
<1> HIDE DEF T
<1>5. Image(section, n) \in Seq(T) /\ Len(Image(section, n)) = m
  BY <1>1, <1>3
<1> QED
  BY <1>4, <1>5 DEF m, T

LEMMA FlashedWhole ==
    ASSUME NEW T, NEW s \in Seq(T), NEW h, h.file = s, h.memsz \in Nat, Len(s) <= h.memsz
    PROVE  Flashed(h) = s
<1>1. (IF h.memsz < Len(h.file) THEN h.memsz ELSE Len(h.file)) = Len(s)
  OBVIOUS
<1>2. SubSeq(s, 1, Len(s)) = s
  OBVIOUS
<1> QED
  BY <1>1, <1>2 DEF Flashed

LEMMA Concatenated ==
    ASSUME NEW T, NEW s \in Seq(T), NEW t \in Seq(T)
    PROVE  /\ Len(s \o t) = Len(s) + Len(t)
           /\ \A a \in 1 .. Len(s) : (s \o t)[a] = s[a]
           /\ \A a \in 1 .. Len(t) : (s \o t)[Len(s) + a] = t[a]
  OBVIOUS

(* What is flashed: the text, and the data right behind it.                 *)
LEMMA RomIsImages ==
    ASSUME NEW l \in Links
    PROVE  LET p == l.program
               A == Image("text", p.text)
               B == Image("data", p.data)
           IN  /\ p.text \in Nat /\ p.data \in Nat /\ p.bss \in Nat
               /\ Flashed(RomSegment(p)) = A
               /\ flashRom(l.headers) = A \o B
               /\ Len(A) = Aligned(p.text) /\ Len(B) = Aligned(p.data)
               /\ \E T : A \in Seq(T) /\ B \in Seq(T)
<1> DEFINE p == l.program
           text == Aligned(p.text)
           data == Aligned(p.data)
           bss == Aligned(p.bss)
<1>1. p.text \in Nat /\ p.data \in Nat /\ p.bss \in Nat
  <2>1. p \in [text : SectionSizes \ {0}, data : SectionSizes, bss : SectionSizes]
    BY Zenon, HeadersOfLinks
  <2> QED
    BY <2>1, SampleAssumption
<1>2. text \in Nat /\ data \in Nat /\ data >= p.data /\ bss \in Nat
  BY <1>1, AlignedUp
<1>3. /\ RomSegment(p).file = Image("text", p.text) /\ RomSegment(p).memsz = text
      /\ RamSegment(p).file = Image("data", p.data) /\ RamSegment(p).memsz = data + bss
  BY DEF RomSegment, RamSegment, Symbols
<1> HIDE DEF p
<1>4. /\ Image("text", p.text) \in Seq({<<"text", i>> : i \in 1 .. p.text} \cup {Zero})
      /\ Image("data", p.data) \in Seq({<<"data", i>> : i \in 1 .. p.data} \cup {Zero})
      /\ Len(Image("text", p.text)) = text /\ Len(Image("data", p.data)) = data
      /\ \A i \in 1 .. data :
            Image("data", p.data)[i] = IF i <= p.data THEN <<"data", i>> ELSE Zero
  BY <1>1, ImageIsSequence
<1>5. Flashed(RomSegment(p)) = Image("text", p.text)
  <2>1. text \in Nat /\ text <= text
    BY <1>2
  <2> QED
    BY Zenon, <1>3, <1>4, <2>1, FlashedWhole
<1>6. Flashed(RamSegment(p)) = Image("data", p.data)
  <2>1. data + bss \in Nat /\ data <= data + bss
    BY <1>2
  <2> QED
    BY Zenon, <1>3, <1>4, <2>1, FlashedWhole
<1>7. flashRom(l.headers) = Image("text", p.text) \o Image("data", p.data)
  BY Zenon, <1>5, <1>6, SegmentsFound DEF flashRom, p
<1> DEFINE A == Image("text", p.text)
           B == Image("data", p.data)
           S == {<<"text", i>> : i \in 1 .. p.text} \cup {Zero}
           T == {<<"data", i>> : i \in 1 .. p.data} \cup {Zero}
<1>8. A \in Seq(S \cup T) /\ B \in Seq(S \cup T)
  <2>1. \A X, Y : Seq(X) \subseteq Seq(X \cup Y) /\ Seq(X) \subseteq Seq(Y \cup X)
    OBVIOUS
  <2> QED
    BY Zenon, <1>4, <2>1
<1> QED
  BY Zenon, <1>1, <1>4, <1>5, <1>7, <1>8 DEF p

LEMMA RomOfLinks ==
    ASSUME NEW l \in Links
    PROVE  LET p == l.program
           IN  /\ Aligned(p.text) \in Nat /\ Aligned(p.data) \in Nat /\ Aligned(p.bss) \in Nat
               /\ p.data \in Nat /\ p.data <= Aligned(p.data)
               /\ Len(flashRom(l.headers)) = Aligned(p.text) + Aligned(p.data)
               /\ \A a \in 1 .. Aligned(p.data) :
                      flashRom(l.headers)[Aligned(p.text) + a] =
                          IF a <= p.data THEN <<"data", a>> ELSE Zero
<1> DEFINE p == l.program
           text == Aligned(p.text)
           data == Aligned(p.data)
           bss == Aligned(p.bss)
           A == Image("text", p.text)
           B == Image("data", p.data)
<1>1. /\ p.text \in Nat /\ p.data \in Nat /\ p.bss \in Nat
      /\ flashRom(l.headers) = A \o B /\ Len(A) = text /\ Len(B) = data
      /\ \E T : A \in Seq(T) /\ B \in Seq(T)
  BY Zenon, RomIsImages
<1>2. text \in Nat /\ data \in Nat /\ data >= p.data /\ bss \in Nat
  BY <1>1, AlignedUp
<1>3. \A a \in 1 .. data : B[a] = IF a <= p.data THEN <<"data", a>> ELSE Zero
  BY Zenon, <1>1, ImageIsSequence
<1> HIDE DEF p, text, data, bss, A, B
<1>4. Len(A \o B) = text + data /\ \A a \in 1 .. data : (A \o B)[text + a] = B[a]
  <2>1. PICK T : A \in Seq(T) /\ B \in Seq(T)
    BY <1>1
  <2>2. /\ Len(A \o B) = Len(A) + Len(B)
        /\ \A a \in 1 .. Len(A) : (A \o B)[a] = A[a]
        /\ \A a \in 1 .. Len(B) : (A \o B)[Len(A) + a] = B[a]
    BY <2>1, Concatenated
  <2> QED
    BY Zenon, <1>1, <2>2
<1>5. /\ Len(flashRom(l.headers)) = text + data
      /\ \A a \in 1 .. data :
            flashRom(l.headers)[text + a] = IF a <= p.data THEN <<"data", a>> ELSE Zero
  BY Zenon, <1>1, <1>3, <1>4
<1>6. p.data <= data
  BY <1>1, <1>2
<1> QED
  BY Zenon, <1>1, <1>2, <1>5, <1>6 DEF p, text, data, bss

LEMMA LinkedIsLoaded ==
    ASSUME NEW l \in Links
    PROVE  load_ram(flashRom(l.headers), Symbols(l.program)) = LinkedRam(l.program)
<1> DEFINE p == l.program
           text == Aligned(p.text)
           data == Aligned(p.data)
           bss == Aligned(p.bss)
           rom == flashRom(l.headers)
<1>1. /\ text \in Nat /\ data \in Nat /\ bss \in Nat
      /\ p.data \in Nat /\ p.data <= data
      /\ Len(rom) = text + data
      /\ \A a \in 1 .. data : rom[text + a] = IF a <= p.data THEN <<"data", a>> ELSE Zero
  BY RomOfLinks
<1>2. load_ram(rom, Symbols(p)) =
          [a \in 0 .. data + bss - 1 |->
              IF data <= a THEN Zero ELSE RomByte(rom, text + (a - 0))]
  <2> DEFINE s == Symbols(p)
  <2>1. s._ebss = data + bss /\ s._sbss = data /\ s._program_end = text /\ s._sdata = 0
    BY DEF Symbols
  <2> HIDE DEF s, p, text, data, bss, rom
  <2>2. load_ram(rom, s) =
            [a \in 0 .. s._ebss - 1 |->
                IF s._sbss <= a THEN Zero ELSE RomByte(rom, s._program_end + (a - s._sdata))]
    BY Zenon DEF load_ram
  <2>3. load_ram(rom, s) =
            [a \in 0 .. data + bss - 1 |->
                IF data <= a THEN Zero ELSE RomByte(rom, text + (a - 0))]
    <3>1. 0 .. s._ebss - 1 = 0 .. data + bss - 1
      BY <1>1, <2>1
    <3>2. ASSUME NEW a
          PROVE  (IF s._sbss <= a THEN Zero ELSE RomByte(rom, s._program_end + (a - s._sdata))) =
                 (IF data <= a THEN Zero ELSE RomByte(rom, text + (a - 0)))
      BY <2>1
    <3> QED
      BY Zenon, <2>2, <3>1, <3>2
  <2> QED
    BY Zenon, <2>3 DEF s
<1>3. LinkedRam(p) =
          [a \in 0 .. data + bss - 1 |-> IF a < p.data THEN <<"data", a + 1>> ELSE Zero]
  BY DEF LinkedRam
<1> HIDE DEF p, text, data, bss, rom
<1>4. ASSUME NEW a \in 0 .. data + bss - 1
      PROVE  (IF data <= a THEN Zero ELSE RomByte(rom, text + (a - 0))) =
             (IF a < p.data THEN <<"data", a + 1>> ELSE Zero)
  <2>1. CASE data <= a
    BY <1>1, <2>1
  <2>2. CASE a < data
    <3>1. a + 1 \in 1 .. data /\ text + (a - 0) < Len(rom)
      BY <1>1, <2>2
    <3>2. RomByte(rom, text + (a - 0)) = rom[text + (a - 0) + 1]
      BY <3>1 DEF RomByte
    <3>3. text + (a - 0) + 1 = text + (a + 1)
      BY <1>1
    <3>4. rom[text + (a + 1)] = IF a + 1 <= p.data THEN <<"data", a + 1>> ELSE Zero
      BY <1>1, <3>1
    <3>5. ~ (data <= a) /\ (a + 1 <= p.data <=> a < p.data)
      BY <1>1, <2>2
    <3> QED
      BY <3>2, <3>3, <3>4, <3>5
  <2> QED
    BY <1>1, <2>1, <2>2
<1>5. [a \in 0 .. data + bss - 1 |->
          IF data <= a THEN Zero ELSE RomByte(rom, text + (a - 0))] =
      [a \in 0 .. data + bss - 1 |-> IF a < p.data THEN <<"data", a + 1>> ELSE Zero]
  BY Zenon, <1>4
<1> QED
  BY Zenon, <1>2, <1>3, <1>5 DEF p, rom

(* Every program with a RAM segment finds its RAM as linked, whatever the   *)
(* sizes of its sections and the order of its headers, and no such file is  *)
(* refused.                                                                 *)
THEOREM ProgramsBoot == Spec => []BootedAsLinked
<1>1. Init => BootedAsLinked
  BY SegmentsFound DEF Init, BootedAsLinked
<1>2. BootedAsLinked /\ [Next]_algvars => BootedAsLinked'
  <2> SUFFICES ASSUME BootedAsLinked, [Next]_algvars, asked' \in Links
               PROVE  /\ Starts(asked'.headers)
                      /\ done' => answer' = LinkedRam(asked'.program)
    BY Zenon DEF BootedAsLinked
  <2>1. CASE UNCHANGED algvars
    BY Zenon, <2>1 DEF algvars, BootedAsLinked
  <2>2. CASE Next
    <3>1. asked' = asked /\ BootProgram
      BY <2>2, AnsweredBy
    <3>2. answer' = load_ram(flashRom(asked.headers), Symbols(asked.program))
      BY <3>1 DEF BootProgram
    <3> QED
      BY Zenon, <3>1, <3>2, SegmentsFound, LinkedIsLoaded
  <2> QED
    BY <2>1, <2>2
<1> QED
  BY <1>1, <1>2, PTL DEF Spec

-----------------------------------------------------------------------------
(* A sum of up to four terms.                                               *)
LEMMA SumUpTo ==
    ASSUME NEW n \in Nat, NEW f, \A i \in 1 .. n + 1 : f[i] \in Int
    PROVE  SumFunctionOnSet(f, 1 .. n + 1) = SumFunctionOnSet(f, 1 .. n) + f[n + 1]
<1> DEFINE S == 1 .. n + 1
           y == n + 1
<1>1. IsFiniteSet(S) /\ IsFiniteSet(S \ {y})
  <2>1. IsFiniteSet(S)
    BY FS_Interval
  <2> HIDE DEF S, y
  <2> QED
    BY <2>1, FS_Subset
<1>2. y \in S /\ S \ {y} = 1 .. n
  OBVIOUS
<1>3. (\A x \in S : f[x] \in Int) /\ \A x \in S \ {y} : f[x] \in Int
  OBVIOUS
<1> HIDE DEF S, y
<1>4. SumFunctionOnSet(f, S) = f[y] + SumFunctionOnSet(f, S \ {y})
  BY <1>1, <1>2, <1>3, SumFacts
<1>5. f[y] \in Int /\ SumFunctionOnSet(f, S \ {y}) \in Int
  BY <1>1, <1>2, <1>3, SumFacts
<1>6. SumFunctionOnSet(f, S) = SumFunctionOnSet(f, 1 .. n) + f[y]
  <2>1. SumFunctionOnSet(f, S \ {y}) = SumFunctionOnSet(f, 1 .. n)
    BY Zenon, <1>2
  <2> QED
    BY <1>4, <1>5, <2>1
<1> QED
  BY Zenon, <1>6 DEF S, y

LEMMA SumOfFour ==
    ASSUME NEW n \in 1 .. 4, NEW f, \A i \in 1 .. n : f[i] \in Int
    PROVE  SumFunctionOnSet(f, 1 .. n) =
              CASE n = 1 -> f[1]
                [] n = 2 -> f[1] + f[2]
                [] n = 3 -> f[1] + f[2] + f[3]
                [] n = 4 -> f[1] + f[2] + f[3] + f[4]
<1> DEFINE s(k) == SumFunctionOnSet(f, 1 .. k)
<1>1. s(0) = 0
  <2>1. 1 .. 0 = {} /\ IsFiniteSet({}) /\ \A x \in {} : f[x] \in Int
    BY FS_EmptySet
  <2>2. SumFunctionOnSet(f, {}) = 0
    BY <2>1, SumFacts
  <2> QED
    BY <2>1, <2>2
<1>2. \A k \in 0 .. n - 1 : s(k + 1) = s(k) + f[k + 1]
  <2> SUFFICES ASSUME NEW k \in 0 .. n - 1
               PROVE  s(k + 1) = s(k) + f[k + 1]
    OBVIOUS
  <2>1. k \in Nat /\ \A i \in 1 .. k + 1 : f[i] \in Int
    OBVIOUS
  <2> QED
    BY <2>1, SumUpTo
<1> HIDE DEF s
<1>3. \A k \in 0 .. n - 1 : f[k + 1] \in Int
  OBVIOUS
<1>4. /\ n >= 1 => s(1) = f[1] /\ f[1] \in Int
      /\ n >= 2 => s(2) = f[1] + f[2] /\ f[2] \in Int
      /\ n >= 3 => s(3) = f[1] + f[2] + f[3] /\ f[3] \in Int
      /\ n >= 4 => s(4) = f[1] + f[2] + f[3] + f[4] /\ f[4] \in Int
  <2>1. 0 + 1 = 1 /\ 1 + 1 = 2 /\ 2 + 1 = 3 /\ 3 + 1 = 4
    OBVIOUS
  <2>2. n >= 1 => s(1) = f[1] /\ f[1] \in Int
    BY <1>1, <1>2, <1>3, <2>1
  <2>3. n >= 2 => s(2) = f[1] + f[2] /\ f[2] \in Int
    BY <1>2, <1>3, <2>1, <2>2
  <2>4. n >= 3 => s(3) = f[1] + f[2] + f[3] /\ f[3] \in Int
    BY <1>2, <1>3, <2>1, <2>3
  <2>5. n >= 4 => s(4) = f[1] + f[2] + f[3] + f[4] /\ f[4] \in Int
    BY <1>2, <1>3, <2>1, <2>4
  <2> QED
    BY <2>2, <2>3, <2>4, <2>5
<1>5. s(n) = CASE n = 1 -> f[1]
               [] n = 2 -> f[1] + f[2]
               [] n = 3 -> f[1] + f[2] + f[3]
               [] n = 4 -> f[1] + f[2] + f[3] + f[4]
  <2>1. n \in {1, 2, 3, 4}
    OBVIOUS
  <2>2. CASE n = 1
    BY <1>4, <2>2
  <2>3. CASE n = 2
    BY <1>4, <2>3
  <2>4. CASE n = 3
    BY <1>4, <2>4
  <2>5. CASE n = 4
    BY <1>4, <2>5
  <2> QED
    BY <2>1, <2>2, <2>3, <2>4, <2>5
<1> QED
  BY Zenon, <1>5 DEF s

(* The groups of seven bits make up the number, modulo what they can hold.  *)
LEMMA GroupsMakeUp ==
    ASSUME NEW n \in 1 .. 4, NEW v \in Int, NEW s,
           \A i \in 1 .. n : s[i] % 128 = (v \div Power128[i]) % 128
    PROVE  Groups(s, n) = v % Power128[n + 1]
<1> DEFINE f == [i \in 1 .. n |-> (s[i] % 128) * Power128[i]]
           d(i) == (v \div Power128[i]) % 128
<1>1. Groups(s, n) = SumFunctionOnSet(f, 1 .. n)
  BY DEF Groups
<1>2. \A i \in 1 .. n : f[i] = d(i) * Power128[i]
  OBVIOUS
<1>3. \A i \in 1 .. n : d(i) \in Int /\ Power128[i] \in Int
  BY DEF Power128
<1>4. \A i \in 1 .. n : f[i] \in Int
  <2> HIDE DEF f, d
  <2> QED
    BY <1>2, <1>3
<1>5. SumFunctionOnSet(f, 1 .. n) =
         CASE n = 1 -> f[1]
           [] n = 2 -> f[1] + f[2]
           [] n = 3 -> f[1] + f[2] + f[3]
           [] n = 4 -> f[1] + f[2] + f[3] + f[4]
  <2> HIDE DEF f
  <2> QED
    BY <1>4, SumOfFour
<1> HIDE DEF f
<1>6. /\ (v % 128) + ((v \div 128) % 128) * 128 = v % 16384
      /\ (v % 16384) + ((v \div 16384) % 128) * 16384 = v % 2097152
      /\ (v % 2097152) + ((v \div 2097152) % 128) * 2097152 = v % 268435456
      /\ v \div 1 = v
  OBVIOUS
<1>7. CASE n = 1
  BY <1>1, <1>2, <1>5, <1>6, <1>7 DEF Power128
<1>8. CASE n = 2
  BY <1>1, <1>2, <1>5, <1>6, <1>8 DEF Power128
<1>9. CASE n = 3
  BY <1>1, <1>2, <1>5, <1>6, <1>9 DEF Power128
<1>10. CASE n = 4
  BY <1>1, <1>2, <1>5, <1>6, <1>10 DEF Power128
<1> QED
  BY <1>7, <1>8, <1>9, <1>10

(* Where the encoding of a number ends, and what its bytes hold.            *)
LEMMA EncodingEnds ==
    ASSUME NEW n \in Numbers
    PROVE  /\ NumberLength(Stream(n)) = n.length
           /\ \A i \in 1 .. n.length :
                 Stream(n)[i] % 128 = (n.number \div Power128[i]) % 128
           /\ Stream(n)[n.length] = (n.number \div Power128[n.length]) % 128
<1> DEFINE s == Stream(n)
           len == n.length
           e == Encoding(len, n.number)
           d(i) == (n.number \div Power128[i]) % 128
<1>1. len \in 1 .. 4 /\ n.number \in Int
  BY SampleAssumption DEF Numbers
<1>2. \A i \in 1 .. len : d(i) \in 0 .. 127
  <2> SUFFICES ASSUME NEW i \in 1 .. len
               PROVE  d(i) \in 0 .. 127
    OBVIOUS
  <2>1. Power128[i] \in Nat \ {0}
    BY <1>1 DEF Power128
  <2>2. n.number \div Power128[i] \in Int
    BY <1>1, <2>1
  <2> QED
    BY <2>2
<1>3. e = [i \in 1 .. len |-> d(i) + (IF i < len THEN 128 ELSE 0)]
  BY DEF Encoding
<1> HIDE DEF d
<1>4. e \in Seq(Int) /\ Len(e) = len
  <2> DEFINE b(i) == d(i) + (IF i < len THEN 128 ELSE 0)
  <2>1. \A i \in 1 .. len : b(i) \in Int
    BY <1>1, <1>2
  <2> HIDE DEF b, e
  <2>2. e = [i \in 1 .. len |-> b(i)]
    BY <1>3 DEF b
  <2>3. len \in Nat
    BY <1>1
  <2> HIDE DEF len
  <2> QED
    BY <2>1, <2>2, <2>3
<1>5. s = e \o <<n.next>>
  BY DEF Stream
<1>6. DOMAIN s = 1 .. len + 1 /\ \A i \in 1 .. len : s[i] = e[i]
  <2> HIDE DEF e, s
  <2>1. n.next \in {0, 255}
    BY DEF Numbers
  <2> QED
    BY <1>1, <1>4, <1>5, <2>1
<1>7. \A i \in 1 .. len : s[i] = d(i) + (IF i < len THEN 128 ELSE 0)
  BY <1>3, <1>6
<1> HIDE DEF s, e
<1>8. \A i \in 1 .. len : s[i] % 128 = d(i) /\ (Continues(s[i]) <=> i < len)
  <2> SUFFICES ASSUME NEW i \in 1 .. len
               PROVE  s[i] % 128 = d(i) /\ (Continues(s[i]) <=> i < len)
    OBVIOUS
  <2>1. CASE i < len
    <3>1. s[i] = d(i) + 128 /\ d(i) \in 0 .. 127
      BY <1>2, <1>7, <2>1
    <3> QED
      BY <2>1, <3>1 DEF Continues
  <2>2. CASE ~ (i < len)
    <3>1. s[i] = d(i) /\ d(i) \in 0 .. 127
      BY <1>2, <1>7, <2>2
    <3> QED
      BY <2>2, <3>1 DEF Continues
  <2> QED
    BY <2>1, <2>2
<1>9. NumberLength(s) = len
  <2> DEFINE Ends(m) == m \in 1 .. len + 1 /\ ~ Continues(s[m]) /\ \A i \in 1 .. m - 1 : Continues(s[i])
  <2>1. NumberLength(s) = CHOOSE m \in DOMAIN s : ~ Continues(s[m]) /\ \A i \in 1 .. m - 1 : Continues(s[i])
    BY DEF NumberLength
  <2>2. Ends(len)
    BY <1>1, <1>8
  <2>3. ASSUME NEW m, Ends(m)
        PROVE  m = len
    <3>1. m \in 1 .. len + 1 /\ len \in 1 .. 4
      BY <1>1, <2>3
    <3>2. m < len => FALSE
      BY <1>8, <2>3, <3>1
    <3>3. m > len => FALSE
      <4> SUFFICES ASSUME m > len
                   PROVE  FALSE
        OBVIOUS
      <4>1. len \in 1 .. m - 1 /\ len \in 1 .. len
        BY <3>1
      <4> QED
        BY <1>8, <2>3, <4>1
    <3> QED
      BY <3>1, <3>2, <3>3
  <2> HIDE DEF Ends
  <2>4. NumberLength(s) = CHOOSE m \in 1 .. len + 1 : Ends(m)
    BY Zenon, <1>6, <2>1 DEF Ends
  <2>5. len \in 1 .. len + 1
    BY <1>1
  <2> QED
    BY Zenon, <2>2, <2>3, <2>4, <2>5
<1>10. len \in 1 .. len /\ ~ (len < len)
  BY <1>1
<1>11. s[len] = d(len)
  BY <1>2, <1>7, <1>10
<1> QED
  BY Zenon, <1>8, <1>9, <1>11 DEF s, d

(* Every number of up to four bytes is decoded to what was encoded.         *)
LEMMA NumberIsDecoded ==
    ASSUME NEW n \in Numbers
    PROVE  (IF n.signed THEN decodeLeb128(Stream(n)) ELSE decodeULeb128(Stream(n)))
           = [value |-> n.number, index |-> n.length]
<1> DEFINE s == Stream(n)
           len == n.length
           v == n.number
           W == Power128[len + 1]
<1>1. len \in 1 .. 4 /\ v \in Int /\ n.signed \in BOOLEAN /\ Holds(n.signed, len, v)
  BY SampleAssumption DEF Numbers
<1>2. /\ NumberLength(s) = len
      /\ \A i \in 1 .. len : s[i] % 128 = (v \div Power128[i]) % 128
      /\ s[len] = (v \div Power128[len]) % 128
  BY EncodingEnds
<1> HIDE DEF s, len, v
<1>3. Groups(s, len) = v % W
  BY <1>1, <1>2, GroupsMakeUp
<1>4. CASE n.signed
  <2>1. - W <= 2 * v /\ 2 * v < W
    BY <1>1, <1>4 DEF Holds
  <2> DEFINE S == SignOf(s[len])
  <2>2. S = (((v \div Power128[len]) % 128) \div 64) % 2
    BY <1>2 DEF SignOf
  <2> HIDE DEF S
  <2>3. (v % W) - S * W = v
    <3>1. CASE len = 1
      BY <1>1, <2>1, <2>2, <3>1 DEF Power128
    <3>2. CASE len = 2
      BY <1>1, <2>1, <2>2, <3>2 DEF Power128
    <3>3. CASE len = 3
      BY <1>1, <2>1, <2>2, <3>3 DEF Power128
    <3>4. CASE len = 4
      BY <1>1, <2>1, <2>2, <3>4 DEF Power128
    <3> QED
      BY <1>1, <3>1, <3>2, <3>3, <3>4
  <2>4. decodeLeb128(s) = [value |-> v, index |-> len]
    BY Zenon, <1>2, <1>3, <2>3 DEF decodeLeb128, S
  <2> QED
    BY Zenon, <1>4, <2>4 DEF s, v, len
<1>5. CASE ~ n.signed
  <2>1. 0 <= v /\ v < W
    BY <1>1, <1>5 DEF Holds
  <2>2. W \in Nat
    BY <1>1 DEF Power128
  <2>3. v % W = v
    <3> HIDE DEF W
    <3> QED
      BY <1>1, <2>1, <2>2
  <2>4. decodeULeb128(s) = [value |-> v, index |-> len]
    BY Zenon, <1>2, <1>3, <2>3 DEF decodeULeb128
  <2> QED
    BY Zenon, <1>5, <2>4 DEF s, v, len
<1> QED
  BY <1>1, <1>4, <1>5

(* Whatever numbers are sampled, of either sign, of up to four bytes and    *)
(* whatever follows them in the stream.                                     *)
THEOREM NumbersAnswered == Spec => []NumbersAreDecoded
<1>1. Init => NumbersAreDecoded
  BY DEF Init, NumbersAreDecoded
<1>2. NumbersAreDecoded /\ [Next]_algvars => NumbersAreDecoded'
  <2> SUFFICES ASSUME NumbersAreDecoded, [Next]_algvars, done', asked' \in Numbers
               PROVE  answer' = [value |-> asked'.number, index |-> asked'.length]
    BY DEF NumbersAreDecoded
  <2>1. CASE UNCHANGED algvars
    BY <2>1 DEF algvars, NumbersAreDecoded
  <2>2. CASE Next
    <3>1. asked' = asked /\ asked \in Numbers /\ DecodeNumber
      BY <2>2, AnsweredBy
    <3> QED
      BY <3>1, NumberIsDecoded DEF DecodeNumber
  <2> QED
    BY <2>1, <2>2
<1> QED
  BY <1>1, <1>2, PTL DEF Spec

-----------------------------------------------------------------------------
(* The fields of an instruction.                                            *)
LEMMA FieldFacts ==
    ASSUME NEW I \in InstructionWords
    PROVE  /\ funct3(I) \in 0 .. 7
           /\ opcode(I) \in ImmediateOpcodes \cup {"unknown"}
           /\ opcode(I) # "unknown" => I \cap 0 .. 6 = OpcodeBits[opcode(I)]
<1>1. \A i \in 0 .. 11 : Power2[i] \in Nat
  BY DEF Power2
<1>2. funct3(I) \in 0 .. 7
  <2> DEFINE S == RightBy(I, 12) \cap 0 .. 14 - 12
             T == 0 .. 2
  <2>1. S \in SUBSET T
    OBVIOUS
  <2>2. IsFiniteSet(T) /\ \A i \in T : Power2[i] \in Nat
    <3>1. IsFiniteSet(T)
      <4>1. 0 \in Int /\ 2 \in Int
        OBVIOUS
      <4> QED
        BY Zenon, <4>1, FS_Interval
    <3>2. \A i \in T : i \in 0 .. 11
      OBVIOUS
    <3> HIDE DEF T
    <3> QED
      BY <1>1, <3>1, <3>2
  <2>3. funct3(I) = SumFunctionOnSet(Power2, S)
    BY DEF funct3, Field, Number
  <2>4. SumFunctionOnSet(Power2, S) <= SumFunctionOnSet(Power2, T)
    <3> HIDE DEF S, T
    <3> QED
      BY <2>1, <2>2, SumIsMonotonic
  <2>5. {} \in SUBSET S /\ IsFiniteSet(S) /\ \A i \in S : Power2[i] \in Nat
    <3> HIDE DEF S, T
    <3> QED
      BY <2>1, <2>2, FS_Subset
  <2>6. SumFunctionOnSet(Power2, {}) <= SumFunctionOnSet(Power2, S)
    <3> HIDE DEF S
    <3> QED
      BY <2>5, SumIsMonotonic
  <2>7. SumFunctionOnSet(Power2, {}) = 0 /\ SumFunctionOnSet(Power2, S) \in Int
    <3>1. \A i \in S : Power2[i] \in Int
      BY <2>5
    <3> HIDE DEF S
    <3> QED
      BY <2>5, <3>1, SumFacts
  <2>8. SumFunctionOnSet(Power2, T) = 7
    <3>1. /\ SumFunctionOnSet(Power2, {0, 1, 2}) = Power2[0] + SumFunctionOnSet(Power2, {1, 2})
          /\ SumFunctionOnSet(Power2, {1, 2}) = Power2[1] + SumFunctionOnSet(Power2, {2})
          /\ SumFunctionOnSet(Power2, {2}) = Power2[2] + SumFunctionOnSet(Power2, {})
      <4>1. /\ IsFiniteSet({0, 1, 2}) /\ IsFiniteSet({1, 2}) /\ IsFiniteSet({2})
            /\ {0, 1, 2} \ {0} = {1, 2} /\ {1, 2} \ {1} = {2} /\ {2} \ {2} = {}
        <5>1. T = {0, 1, 2}
          OBVIOUS
        <5>2. {1, 2} \subseteq {0, 1, 2} /\ {2} \subseteq {0, 1, 2}
          OBVIOUS
        <5>3. IsFiniteSet({1, 2}) /\ IsFiniteSet({2})
          BY <2>2, <5>1, <5>2, FS_Subset
        <5> QED
          BY <2>2, <5>1, <5>3
      <4>2. /\ \A i \in {0, 1, 2} : Power2[i] \in Int
            /\ \A i \in {1, 2} : Power2[i] \in Int
            /\ \A i \in {2} : Power2[i] \in Int
        BY <1>1
      <4>3. SumFunctionOnSet(Power2, {0, 1, 2}) = Power2[0] + SumFunctionOnSet(Power2, {0, 1, 2} \ {0})
        BY <4>1, <4>2, SumFacts
      <4>4. SumFunctionOnSet(Power2, {1, 2}) = Power2[1] + SumFunctionOnSet(Power2, {1, 2} \ {1})
        BY <4>1, <4>2, SumFacts
      <4>5. SumFunctionOnSet(Power2, {2}) = Power2[2] + SumFunctionOnSet(Power2, {2} \ {2})
        BY <4>1, <4>2, SumFacts
      <4> QED
        BY Zenon, <4>1, <4>3, <4>4, <4>5
    <3>2. Power2[0] = 1 /\ Power2[1] = 2 /\ Power2[2] = 4
      BY DEF Power2
    <3>3. T = {0, 1, 2}
      OBVIOUS
    <3> QED
      BY <2>7, <3>1, <3>2, <3>3
  <2> QED
    BY <2>3, <2>4, <2>6, <2>7, <2>8
<1>3. DOMAIN OpcodeBits = ImmediateOpcodes
  BY DEF OpcodeBits, ImmediateOpcodes
<1>4. \/ opcode(I) = "unknown"
      \/ opcode(I) \in ImmediateOpcodes /\ I \cap 0 .. 6 = OpcodeBits[opcode(I)]
  <2> DEFINE matching == {o \in DOMAIN OpcodeBits : OpcodeBits[o] = I \cap 0 .. 6}
  <2>1. opcode(I) = IF matching = {} THEN "unknown" ELSE CHOOSE o \in matching : TRUE
    BY Zenon DEF opcode
  <2>2. CASE matching = {}
    BY Zenon, <2>1, <2>2
  <2>3. CASE matching # {}
    <3> HIDE DEF matching
    <3>1. opcode(I) \in matching
      BY <2>1, <2>3
    <3> QED
      BY Zenon, <1>3, <3>1 DEF matching
  <2> QED
    BY <2>2, <2>3
<1> QED
  BY <1>2, <1>4

(* ECALL and MRET have no operands, and their CSR address tells them apart. *)
LEMMA PrivilegedFields ==
    ASSUME NEW I \in InstructionWords, opcode(I) = "PRIV"
    PROVE  /\ I \ OpcodeBits.PRIV = {} => csrAddr(I) = 0 /\ funct3(I) = 0
           /\ I \ OpcodeBits.PRIV = {21, 28, 29} => csrAddr(I) = 770 /\ funct3(I) = 0
<1>1. OpcodeBits.PRIV = {0, 1, 4, 5, 6}
  BY DEF OpcodeBits
<1>2. I \cap 0 .. 6 = {0, 1, 4, 5, 6}
  BY <1>1, FieldFacts
<1>3. SumFunctionOnSet(Power2, {}) = 0
  BY SumFacts, FS_EmptySet
<1>4. ASSUME I \ OpcodeBits.PRIV \in {{}, {21, 28, 29}}
      PROVE  funct3(I) = 0
  <2>1. RightBy(I, 12) \cap 0 .. 14 - 12 = {}
    BY <1>1, <1>4 DEF RightBy
  <2> QED
    BY Zenon, <1>3, <2>1 DEF funct3, Field, Number
<1>5. ASSUME I \ OpcodeBits.PRIV = {}
      PROVE  csrAddr(I) = 0
  <2>1. RightBy(I, 20) \cap 0 .. 31 - 20 = {}
    BY <1>1, <1>5 DEF RightBy
  <2> QED
    BY Zenon, <1>3, <2>1 DEF csrAddr, Field, Number
<1>6. ASSUME I \ OpcodeBits.PRIV = {21, 28, 29}
      PROVE  csrAddr(I) = 770
  <2>1. RightBy(I, 20) \cap 0 .. 31 - 20 = {1, 8, 9}
    <3>1. \A i \in 0 .. 11 : i + 20 \in I <=> i \in {1, 8, 9}
      BY <1>1, <1>6
    <3> QED
      BY <3>1 DEF RightBy, BitPositions
  <2>2. IsFiniteSet({1, 8, 9}) /\ IsFiniteSet({8, 9}) /\ IsFiniteSet({9})
    <3>1. IsFiniteSet(0 .. 11)
      <4>1. 0 \in Int /\ 11 \in Int
        OBVIOUS
      <4> QED
        BY Zenon, <4>1, FS_Interval
    <3>2. {1, 8, 9} \subseteq 0 .. 11 /\ {8, 9} \subseteq 0 .. 11 /\ {9} \subseteq 0 .. 11
      OBVIOUS
    <3> QED
      BY <3>1, <3>2, FS_Subset
  <2>3. Power2[1] = 2 /\ Power2[8] = 256 /\ Power2[9] = 512
    BY DEF Power2
  <2>4. /\ \A i \in {1, 8, 9} : Power2[i] \in Int
        /\ \A i \in {8, 9} : Power2[i] \in Int
        /\ \A i \in {9} : Power2[i] \in Int
    BY <2>3
  <2>5. {1, 8, 9} \ {1} = {8, 9} /\ {8, 9} \ {8} = {9} /\ {9} \ {9} = {}
    OBVIOUS
  <2>6. SumFunctionOnSet(Power2, {1, 8, 9}) = Power2[1] + SumFunctionOnSet(Power2, {1, 8, 9} \ {1})
    BY <2>2, <2>4, SumFacts
  <2>7. SumFunctionOnSet(Power2, {8, 9}) = Power2[8] + SumFunctionOnSet(Power2, {8, 9} \ {8})
    BY <2>2, <2>4, SumFacts
  <2>8. SumFunctionOnSet(Power2, {9}) = Power2[9] + SumFunctionOnSet(Power2, {9} \ {9})
    BY <2>2, <2>4, SumFacts
  <2>9. SumFunctionOnSet(Power2, {1, 8, 9}) = 770
    BY <1>3, <2>3, <2>5, <2>6, <2>7, <2>8
  <2> QED
    BY Zenon, <2>1, <2>9 DEF csrAddr, Field, Number
<1> QED
  BY <1>4, <1>5, <1>6
(* What the disassembly must deliver for I.                                 *)
IsExecuted(I, name, operands) ==
    IF name \in DOMAIN Meaning THEN Meaning[name] = Performed(I) /\ operands = OperandsOf(I)
    ELSE ~ IsKnown(I)

Mnemonics ==
    {"lui", "auipc", "jal", "jalr", "beq", "bne", "blt", "bge", "bltu", "bgeu",
     "lb", "lh", "lw", "lbu", "lhu", "sb", "sh", "sw",
     "addi", "slli", "slti", "sltiu", "xori", "srli", "srai", "ori", "andi",
     "add", "sub", "sll", "slt", "sltu", "xor", "srl", "sra", "or", "and",
     "mret", "ecall", "csrrw", "csrrs", "csrrc"}

LEMMA Mnemonic ==
    /\ DOMAIN Meaning = Mnemonics
    /\ \A name \in {"nan", "throws", "unwritten", "hex"} : name \notin Mnemonics
<1>1. DOMAIN Meaning = Mnemonics
  BY DEF Meaning, Mnemonics
<1>2. \A name \in {"nan", "throws", "unwritten", "hex"} : name \notin Mnemonics
  BY DEF Mnemonics
<1> QED
  BY <1>1, <1>2

LEMMA OutsideTable ==
    ASSUME NEW table, NEW index, NEW operands, NEW I,
           ~ (index < Len(table)) \/ table[index + 1] = "nan", ~ IsKnown(I)
    PROVE  IsExecuted(I, At(table, index, operands).name, At(table, index, operands).operands)
<1>1. At(table, index, operands).name \in {"nan", "throws"}
  BY DEF At, Throws
<1> QED
  BY Zenon, <1>1, Mnemonic DEF IsExecuted

LEMMA InTable ==
    ASSUME NEW table, NEW index, NEW operands, NEW I,
           index < Len(table), table[index + 1] \in Mnemonics,
           Meaning[table[index + 1]] = Performed(I), operands = OperandsOf(I)
    PROVE  IsExecuted(I, At(table, index, operands).name, At(table, index, operands).operands)
<1>1. At(table, index, operands) = [name |-> table[index + 1], operands |-> operands]
  BY DEF At
<1>2. /\ At(table, index, operands).name = table[index + 1]
      /\ At(table, index, operands).operands = operands
  BY <1>1
<1> QED
  BY Zenon, <1>2, Mnemonic DEF IsExecuted

(* The comparisons of branches, on the words they differ on.                *)
LEMMA BranchMeant ==
    ASSUME NEW a \in {0, 1, WordSize - 1}, NEW b \in {0, 1, WordSize - 1}
    PROVE  /\ branchAlu(a, b, 0) = (a = b)
           /\ branchAlu(a, b, 1) = (a # b)
           /\ branchAlu(a, b, 4) = (AsSigned(a) < AsSigned(b))
           /\ branchAlu(a, b, 5) = (AsSigned(a) >= AsSigned(b))
           /\ branchAlu(a, b, 6) = (a < b)
           /\ branchAlu(a, b, 7) = (a >= b)
<1>1. WordSize \in Nat /\ WordSize >= 8
  BY WidthAssumption, ComparedAssumption
<1>2. a \in Words /\ b \in Words
  BY <1>1 DEF Words
<1>3. AsSigned(a) = Signed(a) /\ AsSigned(b) = Signed(b)
  BY <1>1 DEF AsSigned, Signed
<1>4. ~ Overflows(a, b)
  <2>1. Signed(a) \in -1 .. 1 /\ Signed(b) \in -1 .. 1
    BY <1>1 DEF Signed
  <2> QED
    BY <1>1, <2>1 DEF Overflows
<1>5. \A f \in 0 .. 7 : branchAlu(a, b, f) = ReferenceTaken(a, b, f)
  BY <1>2, <1>4, BranchTaken
<1>6. \A f \in {0, 1, 4, 5, 6, 7} : f \in 0 .. 7
  OBVIOUS
<1>7. /\ branchAlu(a, b, 0) = (a = b)
      /\ branchAlu(a, b, 1) = (a # b)
  BY <1>5, <1>6 DEF ReferenceTaken
<1>8. /\ branchAlu(a, b, 4) = ReferenceTaken(a, b, 4)
      /\ branchAlu(a, b, 5) = ReferenceTaken(a, b, 5)
  BY Zenon, <1>5, <1>6
<1>9. /\ ReferenceTaken(a, b, 4) = (Signed(a) < Signed(b))
      /\ ReferenceTaken(a, b, 5) = (Signed(a) >= Signed(b))
  BY DEF ReferenceTaken
<1>10. /\ branchAlu(a, b, 6) = (a < b)
       /\ branchAlu(a, b, 7) = (a >= b)
  BY <1>5, <1>6 DEF ReferenceTaken
<1>11. branchAlu(a, b, 4) = (AsSigned(a) < AsSigned(b))
  BY Zenon, <1>3, <1>8, <1>9
<1>12. branchAlu(a, b, 5) = (AsSigned(a) >= AsSigned(b))
  BY Zenon, <1>3, <1>8, <1>9
<1> QED
  BY Zenon, <1>7, <1>10, <1>11, <1>12

LEMMA BranchListed ==
    ASSUME NEW I \in InstructionWords, opcode(I) = "BTYPE", NEW operands, operands = OperandsOf(I)
    PROVE  IsExecuted(I, At(branchInstructions, funct3(I), operands).name,
                         At(branchInstructions, funct3(I), operands).operands)
<1> DEFINE f3 == funct3(I)
           D == {0, 1, WordSize - 1} \X {0, 1, WordSize - 1}
           table == branchInstructions
<1>1. f3 \in 0 .. 7
  BY FieldFacts
<1>2. Performed(I) = <<"BTYPE", [p \in D |-> branchAlu(p[1], p[2], f3)]>>
  BY Zenon DEF Performed
<1>3. IsKnown(I) <=> f3 \notin {2, 3}
  BY DEF IsKnown
<1> HIDE DEF f3
<1>4. Len(table) = 8
  BY DEF branchInstructions
<1>5. CASE f3 \in {2, 3}
  <2>1. table[f3 + 1] = "nan"
    BY <1>5 DEF branchInstructions
  <2> QED
    BY <1>3, <1>5, <2>1, OutsideTable DEF f3
<1>6. CASE f3 \notin {2, 3}
  <2>1. /\ f3 = 0 => table[f3 + 1] = "beq"
        /\ f3 = 1 => table[f3 + 1] = "bne"
        /\ f3 = 4 => table[f3 + 1] = "blt"
        /\ f3 = 5 => table[f3 + 1] = "bge"
        /\ f3 = 6 => table[f3 + 1] = "bltu"
        /\ f3 = 7 => table[f3 + 1] = "bgeu"
    BY DEF branchInstructions
  <2>2. /\ Meaning["beq"] = <<"BTYPE", [p \in D |-> p[1] = p[2]]>>
        /\ Meaning["bne"] = <<"BTYPE", [p \in D |-> p[1] # p[2]]>>
        /\ Meaning["blt"] = <<"BTYPE", [p \in D |-> AsSigned(p[1]) < AsSigned(p[2])]>>
        /\ Meaning["bge"] = <<"BTYPE", [p \in D |-> AsSigned(p[1]) >= AsSigned(p[2])]>>
        /\ Meaning["bltu"] = <<"BTYPE", [p \in D |-> p[1] < p[2]]>>
        /\ Meaning["bgeu"] = <<"BTYPE", [p \in D |-> p[1] >= p[2]]>>
    BY DEF Meaning, Compares
  <2>3. \A p \in D : /\ branchAlu(p[1], p[2], 0) = (p[1] = p[2])
                     /\ branchAlu(p[1], p[2], 1) = (p[1] # p[2])
                     /\ branchAlu(p[1], p[2], 4) = (AsSigned(p[1]) < AsSigned(p[2]))
                     /\ branchAlu(p[1], p[2], 5) = (AsSigned(p[1]) >= AsSigned(p[2]))
                     /\ branchAlu(p[1], p[2], 6) = (p[1] < p[2])
                     /\ branchAlu(p[1], p[2], 7) = (p[1] >= p[2])
    <3> TAKE p \in D
    <3> DEFINE a == p[1]
               b == p[2]
    <3>1. a \in {0, 1, WordSize - 1} /\ b \in {0, 1, WordSize - 1}
      OBVIOUS
    <3> HIDE DEF a, b
    <3>2. /\ branchAlu(a, b, 0) = (a = b)
          /\ branchAlu(a, b, 1) = (a # b)
          /\ branchAlu(a, b, 4) = (AsSigned(a) < AsSigned(b))
          /\ branchAlu(a, b, 5) = (AsSigned(a) >= AsSigned(b))
          /\ branchAlu(a, b, 6) = (a < b)
          /\ branchAlu(a, b, 7) = (a >= b)
      BY Zenon, <3>1, BranchMeant
    <3> QED
      BY Zenon, <3>2 DEF a, b
  <2> HIDE DEF D
  <2>4. Meaning[table[f3 + 1]] = Performed(I)
    <3>1. CASE f3 = 0
      BY Zenon, <1>2, <2>1, <2>2, <2>3, <3>1
    <3>2. CASE f3 = 1
      BY Zenon, <1>2, <2>1, <2>2, <2>3, <3>2
    <3>3. CASE f3 = 4
      BY Zenon, <1>2, <2>1, <2>2, <2>3, <3>3
    <3>4. CASE f3 = 5
      BY Zenon, <1>2, <2>1, <2>2, <2>3, <3>4
    <3>5. CASE f3 = 6
      BY Zenon, <1>2, <2>1, <2>2, <2>3, <3>5
    <3>6. CASE f3 = 7
      BY Zenon, <1>2, <2>1, <2>2, <2>3, <3>6
    <3> QED
      BY <1>1, <1>6, <3>1, <3>2, <3>3, <3>4, <3>5, <3>6
  <2>5. table[f3 + 1] \in Mnemonics
    BY <1>1, <1>6 DEF branchInstructions, Mnemonics
  <2>6. f3 < Len(table)
    BY <1>1, <1>4
  <2> QED
    BY Zenon, <2>4, <2>5, <2>6, InTable DEF f3
<1> QED
  BY <1>5, <1>6

(* Loads and stores, by their size.                                         *)
LEMMA AccessListed ==
    ASSUME NEW I \in InstructionWords, NEW table, NEW operands, operands = OperandsOf(I),
           \/ opcode(I) = "LOAD" /\ table = loadInstructions
           \/ opcode(I) = "STORE" /\ table = storeInstructions
    PROVE  IsExecuted(I, At(table, funct3(I), operands).name, At(table, funct3(I), operands).operands)
<1> DEFINE f3 == funct3(I)
<1>1. f3 \in 0 .. 7
  BY FieldFacts
<1>2. Performed(I) = <<opcode(I), getMemSize(f3)>>
  BY DEF Performed
<1>3. /\ opcode(I) = "LOAD" => (IsKnown(I) <=> f3 \in {0, 1, 2, 4, 5})
      /\ opcode(I) = "STORE" => (IsKnown(I) <=> f3 \in {0, 1, 2})
  BY DEF IsKnown
<1> HIDE DEF f3
<1>4. /\ getMemSize(0) = 1 /\ getMemSize(1) = 2 /\ getMemSize(2) = 4
      /\ getMemSize(4) = 1 /\ getMemSize(5) = 2
  BY DEF getMemSize, BYTE, HALFWORD, WORD
<1>5. CASE opcode(I) = "LOAD" /\ table = loadInstructions
  <2>1. CASE f3 \in {0, 1, 2, 4, 5}
    <3>1. /\ f3 = 0 => table[f3 + 1] = "lb"
          /\ f3 = 1 => table[f3 + 1] = "lh"
          /\ f3 = 2 => table[f3 + 1] = "lw"
          /\ f3 = 4 => table[f3 + 1] = "lbu"
          /\ f3 = 5 => table[f3 + 1] = "lhu"
          /\ Len(table) = 6
      BY <1>5 DEF loadInstructions
    <3>2. /\ Meaning["lb"] = <<"LOAD", 1>> /\ Meaning["lh"] = <<"LOAD", 2>>
          /\ Meaning["lw"] = <<"LOAD", 4>> /\ Meaning["lbu"] = <<"LOAD", 1>>
          /\ Meaning["lhu"] = <<"LOAD", 2>>
      BY DEF Meaning
    <3>3. Meaning[table[f3 + 1]] = Performed(I)
      BY <1>2, <1>4, <1>5, <2>1, <3>1, <3>2
    <3>4. table[f3 + 1] \in Mnemonics /\ f3 < Len(table)
      BY <2>1, <3>1 DEF Mnemonics
    <3> QED
      BY Zenon, <3>3, <3>4, InTable DEF f3
  <2>2. CASE f3 \in {3, 6, 7}
    <3>1. ~ (f3 < Len(table)) \/ table[f3 + 1] = "nan"
      BY <1>5, <2>2 DEF loadInstructions
    <3>2. ~ IsKnown(I)
      BY <1>3, <1>5, <2>2
    <3> QED
      BY Zenon, <3>1, <3>2, OutsideTable DEF f3
  <2> QED
    BY <1>1, <2>1, <2>2
<1>6. CASE opcode(I) = "STORE" /\ table = storeInstructions
  <2>1. CASE f3 \in {0, 1, 2}
    <3>1. /\ f3 = 0 => table[f3 + 1] = "sb"
          /\ f3 = 1 => table[f3 + 1] = "sh"
          /\ f3 = 2 => table[f3 + 1] = "sw"
          /\ Len(table) = 3
      BY <1>6 DEF storeInstructions
    <3>2. /\ Meaning["sb"] = <<"STORE", 1>> /\ Meaning["sh"] = <<"STORE", 2>>
          /\ Meaning["sw"] = <<"STORE", 4>>
      BY DEF Meaning
    <3>3. Meaning[table[f3 + 1]] = Performed(I)
      BY <1>2, <1>4, <1>6, <2>1, <3>1, <3>2
    <3>4. table[f3 + 1] \in Mnemonics /\ f3 < Len(table)
      BY <2>1, <3>1 DEF Mnemonics
    <3> QED
      BY Zenon, <3>3, <3>4, InTable DEF f3
  <2>2. CASE f3 \in 3 .. 7
    <3>1. ~ (f3 < Len(table))
      BY <1>6, <2>2 DEF storeInstructions
    <3>2. ~ IsKnown(I)
      BY <1>3, <1>6, <2>2
    <3> QED
      BY Zenon, <3>1, <3>2, OutsideTable DEF f3
  <2> QED
    BY <1>1, <2>1, <2>2
<1> QED
  BY <1>5, <1>6

(* Arithmetic, whose funct7 tells two instructions apart where funct3 does  *)
(* not; another funct7 leaves the text of the line before.                  *)
LEMMA ByFunct7Listed ==
    ASSUME NEW I, NEW zero \in Mnemonics, NEW thirtyTwo \in Mnemonics,
           NEW operands, operands = OperandsOf(I),
           funct7(I) = 0 => Meaning[zero] = Performed(I),
           funct7(I) = 32 => Meaning[thirtyTwo] = Performed(I),
           funct7(I) \notin {0, 32} => ~ IsKnown(I)
    PROVE  IsExecuted(I, ByFunct7(I, zero, thirtyTwo, operands).name,
                         ByFunct7(I, zero, thirtyTwo, operands).operands)
<1> DEFINE text == ByFunct7(I, zero, thirtyTwo, operands)
           f7 == funct7(I)
<1>1. /\ f7 = 0 => text = [name |-> zero, operands |-> operands]
      /\ f7 = 32 => text = [name |-> thirtyTwo, operands |-> operands]
      /\ f7 \notin {0, 32} => text = Unwritten
  BY DEF ByFunct7
<1> HIDE DEF text, f7
<1>2. CASE f7 = 0
  <2>1. text.name = zero /\ text.operands = operands
    BY <1>1, <1>2
  <2> QED
    BY Zenon, <1>2, <2>1, Mnemonic DEF IsExecuted, text, f7
<1>3. CASE f7 = 32
  <2>1. text.name = thirtyTwo /\ text.operands = operands
    BY <1>1, <1>3
  <2> QED
    BY Zenon, <1>3, <2>1, Mnemonic DEF IsExecuted, text, f7
<1>4. CASE f7 \notin {0, 32}
  <2>1. text.name = "unwritten"
    BY <1>1, <1>4 DEF Unwritten
  <2> QED
    BY Zenon, <1>4, <2>1, Mnemonic DEF IsExecuted, text, f7
<1> QED
  BY Zenon, <1>2, <1>3, <1>4

LEMMA ImmediateArithmeticListed ==
    ASSUME NEW I \in InstructionWords, opcode(I) = "ITYPE", NEW operands, operands = OperandsOf(I)
    PROVE  /\ funct3(I) = 5 =>
                 IsExecuted(I, ByFunct7(I, "srli", "srai", operands).name,
                               ByFunct7(I, "srli", "srai", operands).operands)
           /\ funct3(I) # 5 =>
                 IsExecuted(I, At(iInstructions, funct3(I), operands).name,
                               At(iInstructions, funct3(I), operands).operands)
<1> DEFINE f3 == funct3(I)
           f7 == funct7(I)
           table == iInstructions
<1>1. f3 \in 0 .. 7
  BY FieldFacts
<1>2. Performed(I) = <<"ITYPE", getAluOperation("ITYPE", f7, f3)>>
  BY DEF Performed
<1>3. IsKnown(I) <=> (f3 = 1 => f7 = 0) /\ (f3 = 5 => f7 \in {0, 32})
  BY DEF IsKnown
<1> HIDE DEF f3, f7
<1>4. /\ f3 = 0 => getAluOperation("ITYPE", f7, f3) = "ADD"
      /\ f3 = 1 => getAluOperation("ITYPE", f7, f3) = "SLL"
      /\ f3 = 2 => getAluOperation("ITYPE", f7, f3) = "SLT"
      /\ f3 = 3 => getAluOperation("ITYPE", f7, f3) = "SLTU"
      /\ f3 = 4 => getAluOperation("ITYPE", f7, f3) = "XOR"
      /\ f3 = 5 => getAluOperation("ITYPE", f7, f3) = IF f7 = 0 THEN "SRL" ELSE "SRA"
      /\ f3 = 6 => getAluOperation("ITYPE", f7, f3) = "OR"
      /\ f3 = 7 => getAluOperation("ITYPE", f7, f3) = "AND"
  BY DEF getAluOperation
<1>5. /\ Meaning["addi"] = <<"ITYPE", "ADD">> /\ Meaning["slli"] = <<"ITYPE", "SLL">>
      /\ Meaning["slti"] = <<"ITYPE", "SLT">> /\ Meaning["sltiu"] = <<"ITYPE", "SLTU">>
      /\ Meaning["xori"] = <<"ITYPE", "XOR">> /\ Meaning["srli"] = <<"ITYPE", "SRL">>
      /\ Meaning["srai"] = <<"ITYPE", "SRA">> /\ Meaning["ori"] = <<"ITYPE", "OR">>
      /\ Meaning["andi"] = <<"ITYPE", "AND">>
  BY DEF Meaning
<1>6. CASE f3 # 5
  <2>1. /\ f3 = 0 => table[f3 + 1] = "addi"
        /\ f3 = 1 => table[f3 + 1] = "slli"
        /\ f3 = 2 => table[f3 + 1] = "slti"
        /\ f3 = 3 => table[f3 + 1] = "sltiu"
        /\ f3 = 4 => table[f3 + 1] = "xori"
        /\ f3 = 6 => table[f3 + 1] = "ori"
        /\ f3 = 7 => table[f3 + 1] = "andi"
        /\ Len(table) = 8
    BY DEF iInstructions
  <2>2. f3 \in {0, 1, 2, 3, 4, 6, 7}
    BY <1>1, <1>6
  <2> HIDE DEF table
  <2>3. Meaning[table[f3 + 1]] = Performed(I)
    BY Zenon, <1>2, <1>4, <1>5, <2>1, <2>2
  <2>4. table[f3 + 1] \in Mnemonics /\ f3 < Len(table)
    BY <2>1, <2>2 DEF Mnemonics
  <2> QED
    BY Zenon, <1>6, <2>3, <2>4, InTable DEF f3, table
<1>7. CASE f3 = 5
  <2>1. /\ f7 = 0 => Meaning["srli"] = Performed(I)
        /\ f7 = 32 => Meaning["srai"] = Performed(I)
        /\ f7 \notin {0, 32} => ~ IsKnown(I)
    BY <1>2, <1>3, <1>4, <1>5, <1>7
  <2>2. "srli" \in Mnemonics /\ "srai" \in Mnemonics
    BY DEF Mnemonics
  <2> QED
    BY Zenon, <1>7, <2>1, <2>2, ByFunct7Listed DEF f3, f7
<1> QED
  BY Zenon, <1>6, <1>7 DEF f3

LEMMA RegisterArithmeticListed ==
    ASSUME NEW I \in InstructionWords, opcode(I) = "RTYPE", NEW operands, operands = OperandsOf(I)
    PROVE  /\ funct3(I) = 0 =>
                 IsExecuted(I, ByFunct7(I, "add", "sub", operands).name,
                               ByFunct7(I, "add", "sub", operands).operands)
           /\ funct3(I) = 5 =>
                 IsExecuted(I, ByFunct7(I, "srl", "sra", operands).name,
                               ByFunct7(I, "srl", "sra", operands).operands)
           /\ funct3(I) \notin {0, 5} =>
                 IsExecuted(I, At(rInstructions, funct3(I), operands).name,
                               At(rInstructions, funct3(I), operands).operands)
<1> DEFINE f3 == funct3(I)
           f7 == funct7(I)
           table == rInstructions
<1>1. f3 \in 0 .. 7
  BY FieldFacts
<1>2. Performed(I) = <<"RTYPE", getAluOperation("RTYPE", f7, f3)>>
  BY DEF Performed
<1>3. IsKnown(I) <=> f7 = 0 \/ (f7 = 32 /\ f3 \in {0, 5})
  BY DEF IsKnown
<1> HIDE DEF f3, f7
<1>4. /\ getAluOperation("RTYPE", f7, 0) = IF f7 = 0 THEN "ADD" ELSE "SUB"
      /\ getAluOperation("RTYPE", f7, 5) = IF f7 = 0 THEN "SRL" ELSE "SRA"
      /\ f3 = 1 => getAluOperation("RTYPE", f7, f3) = "SLL"
      /\ f3 = 2 => getAluOperation("RTYPE", f7, f3) = "SLT"
      /\ f3 = 3 => getAluOperation("RTYPE", f7, f3) = "SLTU"
      /\ f3 = 4 => getAluOperation("RTYPE", f7, f3) = "XOR"
      /\ f3 = 6 => getAluOperation("RTYPE", f7, f3) = "OR"
      /\ f3 = 7 => getAluOperation("RTYPE", f7, f3) = "AND"
  <2>1. getAluOperation("RTYPE", f7, 0) = IF f7 = 0 THEN "ADD" ELSE "SUB"
    <3>1. f7 = 0 => getAluOperation("RTYPE", f7, 0) = "ADD"
      BY DEF getAluOperation
    <3>2. f7 # 0 => getAluOperation("RTYPE", f7, 0) = "SUB"
      BY DEF getAluOperation
    <3> QED
      BY Zenon, <3>1, <3>2
  <2>3. getAluOperation("RTYPE", f7, 5) = IF f7 = 0 THEN "SRL" ELSE "SRA"
    BY DEF getAluOperation
  <2>2. /\ f3 = 1 => getAluOperation("RTYPE", f7, f3) = "SLL"
        /\ f3 = 2 => getAluOperation("RTYPE", f7, f3) = "SLT"
        /\ f3 = 3 => getAluOperation("RTYPE", f7, f3) = "SLTU"
        /\ f3 = 4 => getAluOperation("RTYPE", f7, f3) = "XOR"
        /\ f3 = 6 => getAluOperation("RTYPE", f7, f3) = "OR"
        /\ f3 = 7 => getAluOperation("RTYPE", f7, f3) = "AND"
    BY DEF getAluOperation
  <2> QED
    BY Zenon, <2>1, <2>2, <2>3
<1>5. /\ Meaning["add"] = <<"RTYPE", "ADD">> /\ Meaning["sub"] = <<"RTYPE", "SUB">>
      /\ Meaning["sll"] = <<"RTYPE", "SLL">> /\ Meaning["slt"] = <<"RTYPE", "SLT">>
      /\ Meaning["sltu"] = <<"RTYPE", "SLTU">> /\ Meaning["xor"] = <<"RTYPE", "XOR">>
      /\ Meaning["srl"] = <<"RTYPE", "SRL">> /\ Meaning["sra"] = <<"RTYPE", "SRA">>
      /\ Meaning["or"] = <<"RTYPE", "OR">> /\ Meaning["and"] = <<"RTYPE", "AND">>
  BY DEF Meaning
<1>6. CASE f3 \notin {0, 5}
  <2>1. /\ f3 = 1 => table[f3 + 1] = "sll"
        /\ f3 = 2 => table[f3 + 1] = "slt"
        /\ f3 = 3 => table[f3 + 1] = "sltu"
        /\ f3 = 4 => table[f3 + 1] = "xor"
        /\ f3 = 6 => table[f3 + 1] = "or"
        /\ f3 = 7 => table[f3 + 1] = "and"
        /\ Len(table) = 8
    BY DEF rInstructions
  <2>2. f3 \in {1, 2, 3, 4, 6, 7}
    BY <1>1, <1>6
  <2> HIDE DEF table
  <2>3. Meaning[table[f3 + 1]] = Performed(I)
    BY Zenon, <1>2, <1>4, <1>5, <2>1, <2>2
  <2>4. table[f3 + 1] \in Mnemonics /\ f3 < Len(table)
    BY <2>1, <2>2 DEF Mnemonics
  <2>5. IsExecuted(I, At(table, f3, operands).name, At(table, f3, operands).operands)
    BY Zenon, <2>3, <2>4, InTable
  <2> QED
    BY Zenon, <1>6, <2>5 DEF f3, table
<1>7. {"add", "sub", "srl", "sra"} \subseteq Mnemonics
  BY DEF Mnemonics
<1>8. CASE f3 = 0
  <2>1. /\ f7 = 0 => Meaning["add"] = Performed(I)
        /\ f7 = 32 => Meaning["sub"] = Performed(I)
        /\ f7 \notin {0, 32} => ~ IsKnown(I)
    BY <1>2, <1>3, <1>4, <1>5, <1>8
  <2>2. "add" \in Mnemonics /\ "sub" \in Mnemonics /\ f3 \in {0, 5} /\ f3 # 5
    BY <1>7, <1>8
  <2> QED
    BY Zenon, <1>8, <2>1, <2>2, ByFunct7Listed DEF f3, f7
<1>9. CASE f3 = 5
  <2>1. /\ f7 = 0 => Meaning["srl"] = Performed(I)
        /\ f7 = 32 => Meaning["sra"] = Performed(I)
        /\ f7 \notin {0, 32} => ~ IsKnown(I)
    BY <1>2, <1>3, <1>4, <1>5, <1>9
  <2>2. "srl" \in Mnemonics /\ "sra" \in Mnemonics /\ f3 \in {0, 5} /\ f3 # 0
    BY <1>7, <1>9
  <2> QED
    BY Zenon, <1>9, <2>1, <2>2, ByFunct7Listed DEF f3, f7
<1> QED
  BY Zenon, <1>6, <1>8, <1>9 DEF f3

LEMMA PrivilegedListed ==
    ASSUME NEW I \in InstructionWords, opcode(I) = "PRIV"
    PROVE  IsExecuted(I, generateInstructionStr(I).name, generateInstructionStr(I).operands)
<1> DEFINE f3 == funct3(I)
           text == generateInstructionStr(I)
           operands == <<rd(I), getCsrName(csrAddr(I)), rs1(I)>>
           table == csrInstructions
<1>1. f3 \in 0 .. 7
  BY FieldFacts
<1>2. Performed(I) = <<"PRIV", IF f3 = 0 THEN csrAddr(I) ELSE f3>>
  BY DEF Performed
<1>3. IsKnown(I) <=> f3 \in {1, 2, 3} \/ I \ OpcodeBits.PRIV \in {{}, {21, 28, 29}}
  BY Zenon DEF IsKnown
<1>4. OperandsOf(I) = IF f3 = 0 THEN << >> ELSE operands
  BY DEF OperandsOf
<1>5. /\ I \ OpcodeBits.PRIV = {} => csrAddr(I) = 0 /\ f3 = 0
      /\ I \ OpcodeBits.PRIV = {21, 28, 29} => csrAddr(I) = 770 /\ f3 = 0
  BY Zenon, PrivilegedFields
<1>6. CASE f3 = 0
  <2>1. text = CASE csrAddr(I) = 770 -> [name |-> "mret", operands |-> << >>]
                 [] csrAddr(I) = 0 -> [name |-> "ecall", operands |-> << >>]
                 [] OTHER -> Unwritten
    BY <1>6 DEF generateInstructionStr
  <2> HIDE DEF text, f3
  <2>2. Meaning["mret"] = <<"PRIV", 770>> /\ Meaning["ecall"] = <<"PRIV", 0>>
    BY DEF Meaning
  <2>3. "mret" \in Mnemonics /\ "ecall" \in Mnemonics
    BY DEF Mnemonics
  <2>4. CASE csrAddr(I) = 770
    <3>1. text.name = "mret" /\ text.operands = << >>
      BY <2>1, <2>4
    <3>2. Performed(I) = <<"PRIV", 770>>
      BY <1>2, <1>6, <2>4
    <3>3. OperandsOf(I) = << >>
      BY Zenon, <1>4, <1>6
    <3>4. IsExecuted(I, "mret", << >>)
      BY Zenon, <2>2, <2>3, <3>2, <3>3, Mnemonic DEF IsExecuted
    <3> QED
      BY Zenon, <3>1, <3>4 DEF text
  <2>5. CASE csrAddr(I) = 0
    <3>1. text.name = "ecall" /\ text.operands = << >>
      BY <2>1, <2>5
    <3>2. Performed(I) = <<"PRIV", 0>>
      BY <1>2, <1>6, <2>5
    <3>3. OperandsOf(I) = << >>
      BY Zenon, <1>4, <1>6
    <3>4. IsExecuted(I, "ecall", << >>)
      BY Zenon, <2>2, <2>3, <3>2, <3>3, Mnemonic DEF IsExecuted
    <3> QED
      BY Zenon, <3>1, <3>4 DEF text
  <2>6. CASE csrAddr(I) \notin {0, 770}
    <3>1. text.name = "unwritten"
      BY <2>1, <2>6 DEF Unwritten
    <3>2. ~ IsKnown(I)
      BY <1>3, <1>5, <1>6, <2>6
    <3> QED
      BY Zenon, <3>1, <3>2, Mnemonic DEF IsExecuted, text
  <2> QED
    BY <2>4, <2>5, <2>6
<1>7. CASE f3 # 0
  <2>1. text = At(table, f3, operands)
    BY <1>7 DEF generateInstructionStr
  <2>2. OperandsOf(I) = operands
    BY <1>4, <1>7
  <2> HIDE DEF text, f3, operands
  <2>3. /\ f3 = 1 => table[f3 + 1] = "csrrw"
        /\ f3 = 2 => table[f3 + 1] = "csrrs"
        /\ f3 = 3 => table[f3 + 1] = "csrrc"
        /\ Len(table) = 4
    BY DEF csrInstructions
  <2> HIDE DEF table
  <2>4. IsExecuted(I, At(table, f3, operands).name, At(table, f3, operands).operands)
    <3>1. CASE f3 \in {1, 2, 3}
      <4>1. /\ Meaning["csrrw"] = <<"PRIV", 1>> /\ Meaning["csrrs"] = <<"PRIV", 2>>
            /\ Meaning["csrrc"] = <<"PRIV", 3>>
        BY DEF Meaning
      <4>2. Meaning[table[f3 + 1]] = Performed(I)
        BY <1>2, <1>7, <2>3, <3>1, <4>1
      <4>3. table[f3 + 1] \in Mnemonics /\ f3 < Len(table)
        BY <2>3, <3>1 DEF Mnemonics
      <4> QED
        BY Zenon, <2>2, <4>2, <4>3, InTable
    <3>2. CASE f3 \notin {1, 2, 3}
      <4>1. ~ (f3 < Len(table))
        BY <1>1, <1>7, <2>3, <3>2
      <4>2. ~ IsKnown(I)
        BY <1>3, <1>5, <1>7, <3>2
      <4> QED
        BY Zenon, <4>1, <4>2, OutsideTable
    <3> QED
      BY <3>1, <3>2
  <2> QED
    BY Zenon, <2>1, <2>4 DEF text
<1> QED
  BY <1>6, <1>7

(* Every instruction word is disassembled to the instruction the processor  *)
(* executes.                                                                *)
LEMMA Disassembled ==
    ASSUME NEW I \in InstructionWords
    PROVE  IsExecuted(I, generateInstructionStr(I).name, generateInstructionStr(I).operands)
<1> DEFINE text == generateInstructionStr(I)
           immediate == getImmediate(opcode(I), I)
           f3 == funct3(I)
<1>1. /\ f3 \in 0 .. 7
      /\ opcode(I) \in ImmediateOpcodes \cup {"unknown"}
  BY FieldFacts
<1>2. opcode(I) # "unknown" => immediate = ImmediateOfRV32I(opcode(I), I)
  BY <1>1, ImmediatesAreRV32I
<1>3. CASE opcode(I) \in {"LUI", "AUIPC"}
  <2> DEFINE name == IF opcode(I) = "LUI" THEN "lui" ELSE "auipc"
             upper == {k \in 0 .. 19 : k + 12 \in immediate}
  <2>1. text = [name |-> name, operands |-> <<rd(I), RightBy(immediate, 12)>>]
    BY Zenon, <1>3 DEF generateInstructionStr
  <2>2. RightBy(immediate, 12) = upper
    <3>1. immediate = I \cap 12 .. 31
      BY <1>3 DEF getImmediate
    <3> HIDE DEF immediate
    <3>2. \A k : k \in RightBy(immediate, 12) <=> k \in upper
      BY <3>1 DEF RightBy, BitPositions
    <3> QED
      BY <3>2
  <2>3. OperandsOf(I) = <<rd(I), upper>>
    BY Zenon, <1>2, <1>3, <2>2 DEF OperandsOf
  <2>4. Meaning[name] = Performed(I)
    <3>1. Performed(I) = <<opcode(I), 0>>
      BY <1>3 DEF Performed
    <3>2. Meaning["lui"] = <<"LUI", 0>> /\ Meaning["auipc"] = <<"AUIPC", 0>>
      BY DEF Meaning
    <3> QED
      BY <1>3, <3>1, <3>2
  <2>5. name \in Mnemonics
    BY DEF Mnemonics
  <2> HIDE DEF name, text
  <2>6. text.name = name /\ text.operands = <<rd(I), RightBy(immediate, 12)>>
    BY <2>1
  <2> QED
    BY Zenon, <2>2, <2>3, <2>4, <2>5, <2>6, Mnemonic DEF IsExecuted, text
<1>4. CASE opcode(I) = "JAL"
  <2>1. text.name = "jal" /\ text.operands = <<rd(I), Target(immediate)>>
    BY <1>4 DEF generateInstructionStr
  <2>2. OperandsOf(I) = <<rd(I), Target(immediate)>>
    BY <1>2, <1>4 DEF OperandsOf
  <2>3. Meaning["jal"] = <<"JAL", 0>> /\ Performed(I) = <<"JAL", 0>>
    BY <1>4 DEF Meaning, Performed
  <2>4. "jal" \in Mnemonics
    BY DEF Mnemonics
  <2> QED
    BY Zenon, <2>1, <2>2, <2>3, <2>4, Mnemonic DEF IsExecuted
<1>5. CASE opcode(I) = "JALR"
  <2>1. text.name = "jalr" /\ text.operands = <<rd(I), immediate, rs1(I)>>
    BY <1>5 DEF generateInstructionStr
  <2>2. OperandsOf(I) = <<rd(I), immediate, rs1(I)>>
    BY <1>2, <1>5 DEF OperandsOf
  <2>3. Meaning["jalr"] = <<"JALR", 0>> /\ Performed(I) = <<"JALR", 0>>
    BY <1>5 DEF Meaning, Performed
  <2>4. "jalr" \in Mnemonics
    BY DEF Mnemonics
  <2> QED
    BY Zenon, <2>1, <2>2, <2>3, <2>4, Mnemonic DEF IsExecuted
<1>6. CASE opcode(I) = "BTYPE"
  <2> DEFINE operands == <<rs1(I), rs2(I), Target(immediate)>>
  <2>1. text = At(branchInstructions, f3, operands)
    BY <1>6 DEF generateInstructionStr
  <2>2. operands = OperandsOf(I)
    BY <1>2, <1>6 DEF OperandsOf
  <2> QED
    BY Zenon, <1>6, <2>1, <2>2, BranchListed
<1>7. CASE opcode(I) = "LOAD"
  <2> DEFINE operands == <<rd(I), immediate, rs1(I)>>
  <2>1. text = At(loadInstructions, f3, operands)
    BY <1>7 DEF generateInstructionStr
  <2>2. operands = OperandsOf(I)
    BY <1>2, <1>7 DEF OperandsOf
  <2> QED
    BY Zenon, <1>7, <2>1, <2>2, AccessListed
<1>8. CASE opcode(I) = "STORE"
  <2> DEFINE operands == <<rs2(I), immediate, rs1(I)>>
  <2>1. text = At(storeInstructions, f3, operands)
    BY <1>8 DEF generateInstructionStr
  <2>2. operands = OperandsOf(I)
    BY <1>2, <1>8 DEF OperandsOf
  <2> QED
    BY Zenon, <1>8, <2>1, <2>2, AccessListed
<1>9. CASE opcode(I) = "ITYPE"
  <2> DEFINE operands == <<rd(I), rs1(I), immediate>>
  <2>1. /\ f3 = 5 => text = ByFunct7(I, "srli", "srai", operands)
        /\ f3 # 5 => text = At(iInstructions, f3, operands)
    BY <1>9 DEF generateInstructionStr
  <2>2. operands = OperandsOf(I)
    BY <1>2, <1>9 DEF OperandsOf
  <2> QED
    BY Zenon, <1>9, <2>1, <2>2, ImmediateArithmeticListed
<1>10. CASE opcode(I) = "RTYPE"
  <2> DEFINE operands == <<rd(I), rs1(I), rs2(I)>>
  <2>1. /\ f3 = 0 => text = ByFunct7(I, "add", "sub", operands)
        /\ f3 = 5 => text = ByFunct7(I, "srl", "sra", operands)
        /\ f3 \notin {0, 5} => text = At(rInstructions, f3, operands)
    BY <1>10 DEF generateInstructionStr
  <2>2. operands = OperandsOf(I)
    BY <1>10 DEF OperandsOf
  <2>3. f3 = 0 \/ f3 = 5 \/ f3 \notin {0, 5}
    OBVIOUS
  <2> HIDE DEF operands
  <2> QED
    BY Zenon, <1>10, <2>1, <2>2, <2>3, RegisterArithmeticListed
<1>11. CASE opcode(I) = "unknown"
  <2>1. text.name = "hex"
    BY <1>11 DEF generateInstructionStr, Hex
  <2>2. ~ IsKnown(I)
    BY <1>11 DEF IsKnown
  <2> QED
    BY Zenon, <2>1, <2>2, Mnemonic DEF IsExecuted
<1>12. opcode(I) \in {"LUI", "AUIPC", "JAL", "JALR", "BTYPE", "LOAD", "STORE", "ITYPE", "PRIV",
                      "RTYPE", "unknown"}
  BY <1>1 DEF ImmediateOpcodes
<1> QED
  BY Zenon, <1>3, <1>4, <1>5, <1>6, <1>7, <1>8, <1>9, <1>10, <1>11, <1>12, PrivilegedListed

(* Whatever instruction words are listed, for words of any width.           *)
THEOREM ListingsExecuted == Spec => []ListingIsExecuted
<1>1. Init => ListingIsExecuted
  BY DEF Init, ListingIsExecuted
<1>2. ListingIsExecuted /\ [Next]_algvars => ListingIsExecuted'
  <2> SUFFICES ASSUME ListingIsExecuted, [Next]_algvars, done', asked' \in Lines
               PROVE  IsExecuted(asked'.instruction, answer'.name, answer'.operands)
    BY Zenon DEF ListingIsExecuted, IsExecuted
  <2>1. CASE UNCHANGED algvars
    <3>1. done /\ asked \in Lines /\ asked' = asked /\ answer' = answer
      BY <2>1 DEF algvars
    <3> QED
      BY Zenon, <3>1 DEF ListingIsExecuted, IsExecuted
  <2>2. CASE Next
    <3>1. asked' = asked /\ asked \in Lines /\ DisassembleInstruction
      BY <2>2, AnsweredBy
    <3>2. asked.instruction \in InstructionWords
      BY <3>1, SampleAssumption DEF Lines
    <3>3. answer' = generateInstructionStr(asked.instruction)
      BY Zenon, <3>1 DEF DisassembleInstruction
    <3> QED
      BY Zenon, <3>1, <3>2, <3>3, Disassembled
  <2> QED
    BY <2>1, <2>2
<1> QED
  BY <1>1, <1>2, PTL DEF Spec

-----------------------------------------------------------------------------
(* The elements of a sequence that are in a set.                            *)
Keep(s, I) == FlattenSeq([i \in DOMAIN s |-> IF s[i] \in I THEN <<s[i]>> ELSE << >>])

LEMMA KeepAppend ==
    ASSUME NEW X, NEW I, NEW s \in Seq(X), NEW e \in X
    PROVE  /\ Keep(s, I) \in Seq(X)
           /\ Keep(Append(s, e), I) = IF e \in I THEN Append(Keep(s, I), e) ELSE Keep(s, I)
<1> DEFINE kept(r) == [i \in DOMAIN r |-> IF r[i] \in I THEN <<r[i]>> ELSE << >>]
           t == IF e \in I THEN <<e>> ELSE << >>
           se == Append(s, e)
<1>1. /\ Len(s) \in Nat /\ DOMAIN s = 1 .. Len(s) /\ DOMAIN se = 1 .. Len(s) + 1
      /\ \A i \in 1 .. Len(s) : s[i] \in X /\ se[i] = s[i]
      /\ se[Len(s) + 1] = e
  OBVIOUS
<1>2. t \in Seq(X)
  OBVIOUS
<1>3. kept(s) \in Seq(Seq(X)) /\ Len(kept(s)) = Len(s)
  <2>1. kept(s) \in [1 .. Len(s) -> Seq(X)]
    BY <1>1
  <2> QED
    BY <1>1, <2>1
<1>4. Append(kept(s), t) = [i \in 1 .. Len(s) + 1 |-> IF i <= Len(s) THEN kept(s)[i] ELSE t]
  <2> DEFINE K == kept(s)
             n == Len(s)
  <2>1. K \in Seq(Seq(X)) /\ Len(K) = n /\ n \in Nat
    BY <1>1, <1>3
  <2> HIDE DEF kept, t, K, n
  <2> DEFINE Kt == Append(K, t)
  <2>2. /\ Kt \in Seq(Seq(X)) /\ Len(Kt) = n + 1 /\ Kt[n + 1] = t
        /\ \A i \in 1 .. n : Kt[i] = K[i]
    BY <1>2, <2>1
  <2> HIDE DEF Kt
  <2>3. Kt = [i \in 1 .. n + 1 |-> Kt[i]]
    BY <2>2
  <2>4. \A i \in 1 .. n + 1 : Kt[i] = IF i <= n THEN K[i] ELSE t
    BY <2>1, <2>2
  <2>5. Kt = [i \in 1 .. n + 1 |-> IF i <= n THEN K[i] ELSE t]
    BY Zenon, <2>3, <2>4
  <2> QED
    BY Zenon, <2>5 DEF K, Kt, n
<1>5. kept(se) = Append(kept(s), t)
  <2> SUFFICES ASSUME NEW i \in 1 .. Len(s) + 1
               PROVE  (IF se[i] \in I THEN <<se[i]>> ELSE << >>) =
                      (IF i <= Len(s) THEN kept(s)[i] ELSE t)
    <3> HIDE DEF se, t
    <3> QED
      BY Zenon, <1>1, <1>4
  <2> HIDE DEF se
  <2>1. CASE i <= Len(s)
    BY <1>1, <2>1
  <2>2. CASE i = Len(s) + 1
    BY <1>1, <2>2
  <2> QED
    BY <1>1, <2>1, <2>2
<1>6. FlattenSeq(Append(kept(s), t)) = FlattenSeq(kept(s)) \o t
  <2> HIDE DEF kept, t
  <2> QED
    BY <1>2, <1>3, FlattenAppend
<1>7. FlattenSeq(kept(s)) \in Seq(X)
  <2> HIDE DEF kept
  <2> QED
    BY Zenon, <1>3, FlattenFacts
<1>8. Keep(s, I) = FlattenSeq(kept(s)) /\ Keep(se, I) = FlattenSeq(kept(se))
  BY Zenon DEF Keep
<1> HIDE DEF kept, se
<1>9. Keep(se, I) = Keep(s, I) \o t /\ Keep(s, I) \in Seq(X)
  BY Zenon, <1>5, <1>6, <1>7, <1>8
<1>10. Keep(s, I) \o t = IF e \in I THEN Append(Keep(s, I), e) ELSE Keep(s, I)
  <2> DEFINE K == Keep(s, I)
  <2>1. K \in Seq(X)
    BY <1>9
  <2> HIDE DEF K
  <2>2. K \o t = IF e \in I THEN Append(K, e) ELSE K
    BY <2>1
  <2> QED
    BY <2>2 DEF K
<1> QED
  BY Zenon, <1>9, <1>10 DEF se

(* A list with one line of a kind for each number, some with another line   *)
(* in front: what becomes of either kind.                                   *)
LinesOf(N, named, lab, ins) ==
    [k \in 1 .. N |-> IF k \in named THEN <<lab[k], ins[k]>> ELSE <<ins[k]>>]
MadeOf(s, X, I, N, named, lab, ins) ==
    /\ s \in Seq(X)
    /\ Keep(s, I) = [k \in 1 .. N |-> ins[k]]
    /\ \A i \in 1 .. Len(s) : s[i] \notin I =>
          \E k \in 1 .. N : /\ k \in named /\ s[i] = lab[k]
                            /\ i < Len(s) /\ s[i + 1] = ins[k]
    /\ \A k \in 1 .. N : k \in named =>
          \E i \in 1 .. Len(s) :
              s[i] = lab[k] /\ \A h \in 1 .. Len(s) : s[h] = lab[k] => h = i

LEMMA ListMakesUp ==
    ASSUME NEW X, NEW I, NEW N \in Nat, NEW named, NEW lab, NEW ins,
           \A k \in 1 .. N : ins[k] \in X /\ ins[k] \in I,
           \A k \in 1 .. N : k \in named => lab[k] \in X /\ lab[k] \notin I,
           \A j, k \in 1 .. N : j \in named /\ k \in named /\ lab[j] = lab[k] => j = k
    PROVE  MadeOf(FlattenSeq(LinesOf(N, named, lab, ins)), X, I, N, named, lab, ins)
<1> DEFINE L(k) == IF k \in named THEN <<lab[k], ins[k]>> ELSE <<ins[k]>>
           U(k) == [j \in 1 .. k |-> L(j)]
           Follows(s, i, k) == /\ k \in named /\ s[i] = lab[k]
                               /\ i < Len(s) /\ s[i + 1] = ins[k]
           Only(s, i, k) == s[i] = lab[k] /\ \A h \in 1 .. Len(s) : s[h] = lab[k] => h = i
           Good(s, k) ==
              /\ s \in Seq(X)
              /\ Keep(s, I) = [j \in 1 .. k |-> ins[j]]
              /\ \A i \in 1 .. Len(s) : s[i] \notin I => \E j \in 1 .. k : Follows(s, i, j)
              /\ \A j \in 1 .. k : j \in named => \E i \in 1 .. Len(s) : Only(s, i, j)
           S == {k \in Nat : k <= N => Good(FlattenSeq(U(k)), k)}
<1>1. \A k \in 1 .. N : L(k) \in Seq(X)
  OBVIOUS
<1>2. 0 \in S
  <2>1. U(0) = << >>
    OBVIOUS
  <2>2. FlattenSeq(<< >>) = << >>
    BY DEF FlattenSeq
  <2>3. Keep(<< >>, I) = << >>
    <3>1. [i \in DOMAIN << >> |-> IF << >>[i] \in I THEN <<<< >>[i]>> ELSE << >>] = << >>
      OBVIOUS
    <3> QED
      BY Zenon, <2>2, <3>1 DEF Keep
  <2>4. Good(<< >>, 0)
    <3>1. << >> \in Seq(X) /\ Len(<< >>) = 0 /\ [j \in 1 .. 0 |-> ins[j]] = << >>
      OBVIOUS
    <3>2. 1 .. 0 = {}
      OBVIOUS
    <3> QED
      BY <2>3, <3>1, <3>2
  <2> HIDE DEF Good
  <2> QED
    BY <2>1, <2>2, <2>4
<1>3. ASSUME NEW k \in S
      PROVE  k + 1 \in S
  <2> DEFINE n == k + 1
             s == FlattenSeq(U(k))
  <2>1. SUFFICES ASSUME n <= N
                 PROVE  Good(FlattenSeq(U(n)), n)
    <3> HIDE DEF Good
    <3> QED
      OBVIOUS
  <2>2. k \in Nat /\ n \in 1 .. N /\ k <= N /\ n # 0
    BY <2>1
  <2>3. Good(s, k)
    <3> HIDE DEF Good
    <3> QED
      BY <2>2
  <2> HIDE DEF S
  <2>4. U(k) \in Seq(Seq(X)) /\ U(n) = Append(U(k), L(n))
    <3>1. \A j \in 1 .. k : L(j) \in Seq(X)
      BY <1>1, <2>2
    <3> HIDE DEF L
    <3>2. U(k) \in Seq(Seq(X)) /\ Len(U(k)) = k
      BY <2>2, <3>1
    <3>3. 1 .. n = 1 .. k + 1
      OBVIOUS
    <3> QED
      BY <2>2, <3>2
  <2>5. FlattenSeq(U(n)) = s \o L(n)
    <3>1. L(n) \in Seq(X)
      BY <1>1, <2>2
    <3> HIDE DEF U, L, n
    <3>2. FlattenSeq(Append(U(k), L(n))) = FlattenSeq(U(k)) \o L(n)
      BY <2>4, <3>1, FlattenAppend
    <3> QED
      BY Zenon, <2>4, <3>2
  <2> HIDE DEF U
  <2>6. ASSUME NEW r, Good(r, k)
        PROVE  Good(r \o L(n), n)
    <3> DEFINE rn == r \o L(n)
               m == Len(r)
               last == ins[n]
               first == lab[n]
    <3>1. r \in Seq(X) /\ m \in Nat /\ last \in X /\ last \in I
      BY <2>2, <2>6
    <3>2. \A j \in 1 .. n : j = n \/ j \in 1 .. k
      BY <2>2
    <3>3. \A j \in 1 .. k : j \in 1 .. n /\ j \in 1 .. N /\ j # n
      BY <2>2
    <3>4. Append([j \in 1 .. k |-> ins[j]], last) = [j \in 1 .. n |-> ins[j]]
      <4>1. \A j \in 1 .. k : ins[j] \in X
        BY <3>3
      <4>2. [j \in 1 .. k |-> ins[j]] \in Seq(X) /\ Len([j \in 1 .. k |-> ins[j]]) = k
        BY <2>2, <4>1
      <4> QED
        BY <2>2, <4>2
    <3>5. CASE n \notin named
      <4>1. /\ rn = Append(r, last)
            /\ rn \in Seq(X) /\ Len(rn) = m + 1 /\ rn[m + 1] = last
            /\ \A i \in 1 .. m : rn[i] = r[i]
        BY <3>1, <3>5
      <4>2. Keep(rn, I) = [j \in 1 .. n |-> ins[j]]
        <5>1. Keep(Append(r, last), I) = Append(Keep(r, I), last)
          <6> HIDE DEF last, Good
          <6> QED
            BY <3>1, KeepAppend
        <5>2. Keep(r, I) = [j \in 1 .. k |-> ins[j]]
          BY <2>6
        <5> HIDE DEF rn, Good, last, n
        <5> QED
          BY Zenon, <3>4, <4>1, <5>1, <5>2
      <4> HIDE DEF rn, last
      <4>3. \A i \in 1 .. Len(rn) : i \in 1 .. m \/ i = m + 1
        BY <3>1, <4>1
      <4>4. ASSUME NEW i \in 1 .. Len(rn), rn[i] \notin I
            PROVE  \E j \in 1 .. n : Follows(rn, i, j)
        <5>1. i \in 1 .. m /\ r[i] \notin I
          BY <3>1, <4>1, <4>3, <4>4
        <5>2. PICK j \in 1 .. k : Follows(r, i, j)
          BY <2>6, <5>1
        <5>3. i + 1 \in 1 .. m /\ i < Len(rn)
          BY <3>1, <4>1, <5>1, <5>2
        <5>4. Follows(rn, i, j)
          BY <4>1, <5>1, <5>2, <5>3
        <5> HIDE DEF Follows
        <5> QED
          BY <3>3, <5>4
      <4>5. ASSUME NEW j \in 1 .. n, j \in named
            PROVE  \E i \in 1 .. Len(rn) : Only(rn, i, j)
        <5>1. j \in 1 .. k
          BY <3>2, <3>5, <4>5
        <5>2. PICK i \in 1 .. m : Only(r, i, j)
          BY <2>6, <4>5, <5>1
        <5>3. lab[j] # last
          BY <3>1, <3>3, <4>5, <5>1
        <5>4. Only(rn, i, j)
          BY <4>1, <4>3, <5>2, <5>3
        <5>5. i \in 1 .. Len(rn)
          BY <3>1, <4>1
        <5> HIDE DEF Only
        <5> QED
          BY <5>4, <5>5
      <4> HIDE DEF Follows, Only
      <4>6. Good(rn, n)
        BY <4>1, <4>2, <4>4, <4>5
      <4> QED
        BY <4>6 DEF rn
    <3>6. CASE n \in named
      <4>0. first \in X /\ first \notin I
        BY <2>2, <3>6
      <4> HIDE DEF first
      <4>1. /\ rn = Append(Append(r, first), last)
            /\ rn \in Seq(X) /\ Len(rn) = m + 2 /\ rn[m + 2] = last /\ rn[m + 1] = first
            /\ \A i \in 1 .. m : rn[i] = r[i]
        BY <3>1, <3>6, <4>0 DEF first
      <4>2. Keep(rn, I) = [j \in 1 .. n |-> ins[j]]
        <5> HIDE DEF last, Good
        <5>1. Keep(Append(r, first), I) = Keep(r, I)
          BY <3>1, <4>0, KeepAppend
        <5>2. Append(r, first) \in Seq(X)
          BY <3>1, <4>0
        <5>3. Keep(Append(Append(r, first), last), I) = Append(Keep(Append(r, first), I), last)
          BY <3>1, <5>2, KeepAppend
        <5>4. Keep(r, I) = [j \in 1 .. k |-> ins[j]]
          BY <2>6 DEF Good
        <5> HIDE DEF rn, n
        <5> QED
          BY Zenon, <3>4, <4>1, <5>1, <5>3, <5>4
      <4> HIDE DEF rn, last
      <4>3. \A i \in 1 .. Len(rn) : i \in 1 .. m \/ i = m + 1 \/ i = m + 2
        BY <3>1, <4>1
      <4>4. ASSUME NEW i \in 1 .. Len(rn), rn[i] \notin I
            PROVE  \E j \in 1 .. n : Follows(rn, i, j)
        <5>1. CASE i \in 1 .. m
          <6>1. r[i] \notin I
            BY <4>1, <4>4, <5>1
          <6>2. PICK j \in 1 .. k : Follows(r, i, j)
            BY <2>6, <5>1, <6>1
          <6>3. i + 1 \in 1 .. m /\ i < Len(rn)
            BY <3>1, <4>1, <5>1, <6>2
          <6>4. Follows(rn, i, j)
            BY <4>1, <5>1, <6>2, <6>3
          <6> HIDE DEF Follows
          <6> QED
            BY <3>3, <6>4
        <5>2. CASE i = m + 1
          <6>1. i + 1 = m + 2 /\ i < Len(rn) /\ n \in 1 .. n
            BY <2>2, <3>1, <4>1, <5>2
          <6>2. Follows(rn, i, n)
            BY <3>6, <4>1, <5>2, <6>1 DEF first, last
          <6> HIDE DEF Follows
          <6> QED
            BY <6>1, <6>2
        <5> QED
          BY <3>1, <4>1, <4>3, <4>4, <5>1, <5>2
      <4>5. ASSUME NEW j \in 1 .. n, j \in named
            PROVE  \E i \in 1 .. Len(rn) : Only(rn, i, j)
        <5>1. CASE j \in 1 .. k
          <6>1. PICK i \in 1 .. m : Only(r, i, j)
            BY <2>6, <4>5, <5>1
          <6>2. lab[j] # last /\ lab[j] # first
            BY <2>2, <3>1, <3>3, <3>6, <4>5, <5>1 DEF first
          <6>3. Only(rn, i, j)
            BY <4>1, <4>3, <6>1, <6>2
          <6>4. i \in 1 .. Len(rn)
            BY <3>1, <4>1
          <6> HIDE DEF Only
          <6> QED
            BY <6>3, <6>4
        <5>2. CASE j = n
          <6>1. ASSUME NEW h \in 1 .. m, r[h] = first
                PROVE  FALSE
            <7>1. PICK l \in 1 .. k : Follows(r, h, l)
              BY <2>6, <4>0, <6>1
            <7>2. lab[l] = lab[n] /\ l \in named
              BY <6>1, <7>1 DEF first
            <7> QED
              BY <2>2, <3>3, <3>6, <7>2
          <6>2. m + 1 \in 1 .. Len(rn) /\ m + 1 # m + 2
            BY <3>1, <4>1
          <6>3. last # first
            BY <3>1, <4>0
          <6>4. \A h \in 1 .. Len(rn) : rn[h] = first => h = m + 1
            BY <4>1, <4>3, <6>1, <6>3
          <6>5. Only(rn, m + 1, j)
            BY <4>1, <5>2, <6>4 DEF first
          <6> HIDE DEF Only
          <6> QED
            BY <6>2, <6>5
        <5> QED
          BY <3>2, <5>1, <5>2
      <4> HIDE DEF Follows, Only
      <4>6. Good(rn, n)
        BY <4>1, <4>2, <4>4, <4>5
      <4> QED
        BY <4>6 DEF rn
    <3> QED
      BY <3>5, <3>6
  <2> HIDE DEF Good
  <2> QED
    BY <2>3, <2>5, <2>6
<1>4. \A k \in Nat : k \in S
  <2>1. S \in SUBSET Nat
    OBVIOUS
  <2> HIDE DEF S
  <2> QED
    BY <1>2, <1>3, <2>1, Induct
<1>5. Good(FlattenSeq(U(N)), N)
  <2> HIDE DEF Good, U
  <2> QED
    BY <1>4
<1> QED
  BY Zenon, <1>5 DEF MadeOf, LinesOf

(* What is flashed has the text in front.                                   *)
LEMMA RomBegins ==
    ASSUME NEW l \in Links
    PROVE  LET p == l.program
               text == Aligned(p.text)
               rom == flashRom(l.headers)
           IN  /\ text \in Nat /\ text \div 4 \in Nat /\ text = 4 * (text \div 4)
               /\ (Len(Flashed(RomSegment(p))) + 3) \div 4 = text \div 4
               /\ \A k \in 1 .. text \div 4 :
                      WordAt(RomSegment(p), 4 * (k - 1)) =
                          [j \in 1 .. 4 |-> RomByte(rom, 4 * (k - 1) + j - 1)]
<1> DEFINE p == l.program
           text == Aligned(p.text)
           n == text \div 4
           rom == flashRom(l.headers)
           A == Image("text", p.text)
           B == Image("data", p.data)
<1>1. /\ p.text \in Nat /\ Flashed(RomSegment(p)) = A /\ rom = A \o B
      /\ Len(A) = text
      /\ \E T : A \in Seq(T) /\ B \in Seq(T)
  BY Zenon, RomIsImages
<1>2. RomSegment(p).file = A
  BY DEF RomSegment
<1>3. text \in Nat /\ n \in Nat /\ text = 4 * n /\ (text + 3) \div 4 = n
  <2>1. p.text \in Nat
    BY Zenon, <1>1
  <2> DEFINE t == p.text
  <2> HIDE DEF p, t
  <2>2. Aligned(t) = ((t + 3) \div 4) * 4
    BY DEF Aligned
  <2>3. t \in Nat
    BY <2>1 DEF t
  <2>4. (t + 3) \div 4 \in Nat
    BY <2>3
  <2> DEFINE q == (t + 3) \div 4
  <2> HIDE DEF q
  <2>5. Aligned(t) = q * 4 /\ q \in Nat
    BY <2>2, <2>4 DEF q
  <2>6. (q * 4) \div 4 = q /\ (q * 4 + 3) \div 4 = q
    BY <2>5
  <2> QED
    BY <2>5, <2>6 DEF t
<1> HIDE DEF p, text, n, rom, A, B
<1>4. PICK T : A \in Seq(T) /\ B \in Seq(T)
  BY <1>1
<1>5. Len(rom) >= text /\ \A a \in 1 .. text : rom[a] = A[a]
  <2>1. /\ Len(A \o B) = Len(A) + Len(B)
        /\ \A a \in 1 .. Len(A) : (A \o B)[a] = A[a]
    BY <1>4, Concatenated
  <2>2. Len(B) \in Nat
    BY <1>4
  <2> QED
    BY <1>1, <1>3, <2>1, <2>2
<1>6. ASSUME NEW k \in 1 .. n
      PROVE  WordAt(RomSegment(p), 4 * (k - 1)) =
                 [j \in 1 .. 4 |-> RomByte(rom, 4 * (k - 1) + j - 1)]
  <2> DEFINE i == 4 * (k - 1)
  <2>1. i \in Nat /\ i + 4 <= text
    BY <1>3
  <2> HIDE DEF i
  <2>2. SubSeq(A, i + 1, i + 4) = [j \in 1 .. 4 |-> A[i + j]]
    <3> DEFINE W == SubSeq(A, i + 1, i + 4)
    <3>1. /\ W \in Seq(T) /\ Len(W) = 4 /\ \A j \in 1 .. 4 : W[j] = A[i + j]
      BY <1>1, <1>4, <2>1
    <3> HIDE DEF W
    <3>2. W = [j \in 1 .. 4 |-> W[j]]
      BY <3>1
    <3> QED
      BY Zenon, <3>1, <3>2 DEF W
  <2>3. \A j \in 1 .. 4 : A[i + j] = RomByte(rom, i + j - 1)
    <3> SUFFICES ASSUME NEW j \in 1 .. 4
                 PROVE  A[i + j] = RomByte(rom, i + j - 1)
      OBVIOUS
    <3>1. i + j \in 1 .. text /\ i + j - 1 + 1 = i + j
      BY <1>3, <2>1
    <3>2. i + j - 1 < Len(rom)
      <4>1. Len(rom) \in Nat
        <5>1. A \o B \in Seq(T)
          BY <1>4
        <5> QED
          BY <1>1, <5>1
      <4> QED
        BY <1>3, <1>5, <2>1, <4>1
    <3> QED
      BY <1>5, <3>1, <3>2 DEF RomByte
  <2>4. WordAt(RomSegment(p), i) = SubSeq(A, i + 1, i + 4)
    BY <1>2 DEF WordAt
  <2>5. WordAt(RomSegment(p), i) = [j \in 1 .. 4 |-> RomByte(rom, i + j - 1)]
    BY Zenon, <2>2, <2>3, <2>4
  <2> QED
    BY Zenon, <2>5 DEF i
<1>7. (Len(Flashed(RomSegment(p))) + 3) \div 4 = n
  BY Zenon, <1>1, <1>3
<1> QED
  BY Zenon, <1>3, <1>6, <1>7 DEF p, text, n, rom

(* Of a linked program only the text is listed.                             *)
LEMMA OnlyTextListed ==
    ASSUME NEW l \in Links, NEW symtab, NEW X,
           SegmentLines(RomSegment(l.program), symtab) \in Seq(X)
    PROVE  generateDisassembledCode(l.headers, symtab) =
               SegmentLines(RomSegment(l.program), symtab)
<1> DEFINE h == l.headers
           p == l.program
           ss == [i \in DOMAIN h |-> IF Executable(h[i]) THEN SegmentLines(h[i], symtab)
                                     ELSE << >>]
<1>1. /\ h \in Seq({RomSegment(p), RamSegment(p), GnuStack, Attributes})
      /\ Len(h) = 4
      /\ \A i, j \in 1 .. 4 : i # j => h[i] # h[j]
      /\ \E i \in 1 .. 4 : h[i] = RomSegment(p)
  BY Zenon, HeadersOfLinks
<1>2. generateDisassembledCode(h, symtab) = FlattenSeq(ss)
  BY Zenon DEF generateDisassembledCode
<1> HIDE DEF h, p
<1>3. PICK r \in 1 .. 4 : h[r] = RomSegment(p)
  BY <1>1
<1>4. DOMAIN h = 1 .. 4
  BY <1>1
<1>5. \A i \in 1 .. 4 : i # r => h[i] \in {RamSegment(p), GnuStack, Attributes}
  <2> DEFINE S == {RomSegment(p), RamSegment(p), GnuStack, Attributes}
  <2>1. h \in Seq(S) /\ Len(h) = 4
    BY Zenon, <1>1
  <2> HIDE DEF S
  <2>2. \A i \in 1 .. 4 : h[i] \in S
    <3>1. \A T, s : s \in Seq(T) => \A i \in 1 .. Len(s) : s[i] \in T
      OBVIOUS
    <3> QED
      BY Zenon, <2>1, <3>1
  <2> QED
    BY Zenon, <1>1, <1>3, <2>2 DEF S
<1>6. SegmentLines(GnuStack, symtab) = << >>
  <2>1. GnuStack.file = << >> /\ GnuStack.memsz = 0
    BY DEF GnuStack
  <2>2. Flashed(GnuStack) = << >>
    <3>1. SubSeq(<< >>, 1, 0) = << >> /\ Len(<< >>) = 0
      OBVIOUS
    <3> QED
      BY <2>1, <3>1 DEF Flashed
  <2>3. (Len(Flashed(GnuStack)) + 3) \div 4 = 0
    <3>1. Len(Flashed(GnuStack)) = 0
      BY <2>2
    <3> QED
      BY <3>1
  <2> DEFINE L(k) == Append(SymbolLines(symtab, <<GnuStack.paddr, 4 * (k - 1)>>),
                            [isInstruction |-> TRUE,
                             address |-> <<GnuStack.paddr, 4 * (k - 1)>>,
                             line |-> WordAt(GnuStack, 4 * (k - 1))])
  <2>4. SegmentLines(GnuStack, symtab) =
            FlattenSeq([k \in 1 .. (Len(Flashed(GnuStack)) + 3) \div 4 |-> L(k)])
    BY Zenon DEF SegmentLines
  <2> HIDE DEF L
  <2>5. [k \in 1 .. 0 |-> L(k)] = << >>
    OBVIOUS
  <2>6. FlattenSeq(<< >>) = << >>
    BY DEF FlattenSeq
  <2> QED
    BY Zenon, <2>3, <2>4, <2>5, <2>6
<1>7. /\ Executable(RomSegment(p))
      /\ ~ Executable(RamSegment(p)) /\ ~ Executable(Attributes)
  BY DEF Executable, RomSegment, RamSegment, Attributes
<1>8. ss[r] = SegmentLines(RomSegment(p), symtab)
  BY Zenon, <1>3, <1>4, <1>7
<1>9. \A k \in 1 .. 4 : k # r => ss[k] = << >>
  <2> SUFFICES ASSUME NEW k \in 1 .. 4, k # r
               PROVE  ss[k] = << >>
    OBVIOUS
  <2>1. ss[k] = IF Executable(h[k]) THEN SegmentLines(h[k], symtab) ELSE << >>
    BY Zenon, <1>4
  <2>2. h[k] \in {RamSegment(p), GnuStack, Attributes}
    BY <1>5
  <2> HIDE DEF ss
  <2>3. CASE h[k] = GnuStack
    BY Zenon, <1>6, <2>1, <2>3
  <2>4. CASE h[k] # GnuStack
    BY Zenon, <1>7, <2>1, <2>2, <2>4
  <2> QED
    BY <2>3, <2>4
<1>10. ss \in Seq(Seq(X)) /\ Len(ss) = 4
  <2>1. \A k \in 1 .. 4 : ss[k] \in Seq(X)
    <3>1. << >> \in Seq(X) /\ ss[r] \in Seq(X)
      BY <1>8 DEF p
    <3> HIDE DEF ss
    <3> QED
      BY <1>9, <3>1
  <2>2. ss = [k \in 1 .. 4 |-> ss[k]]
    BY Zenon, <1>4
  <2> HIDE DEF ss
  <2>3. ss \in [1 .. 4 -> Seq(X)]
    BY Zenon, <2>1, <2>2
  <2>4. \A n \in Nat : ss \in [1 .. n -> Seq(X)] => ss \in Seq(Seq(X)) /\ Len(ss) = n
    OBVIOUS
  <2> QED
    BY <2>3, <2>4
<1>11. FlattenSeq(ss) = ss[r]
  <2> HIDE DEF ss
  <2> QED
    BY <1>9, <1>10, FlattenOne
<1> QED
  BY Zenon, <1>2, <1>8, <1>11 DEF h, p

LEMMA Pair ==
    ASSUME NEW a, NEW b
    PROVE  Append(<<a>>, b) = <<a, b>>
<1> DEFINE u == Append(<<a>>, b)
           v == <<a, b>>
<1>1. u \in Seq({a, b}) /\ Len(u) = 2 /\ u[1] = a /\ u[2] = b
  <2> DEFINE s == <<a>>
             Y == {a, b}
  <2>1. s \in Seq(Y) /\ Len(s) = 1 /\ s[1] = a /\ b \in Y
    OBVIOUS
  <2> HIDE DEF s, Y
  <2>2. Append(s, b) \in Seq(Y) /\ Len(Append(s, b)) = Len(s) + 1
    <3>1. \A T, r, e : r \in Seq(T) /\ e \in T =>
              Append(r, e) \in Seq(T) /\ Len(Append(r, e)) = Len(r) + 1
      OBVIOUS
    <3> QED
      BY Zenon, <2>1, <3>1
  <2>3. Append(s, b)[Len(s) + 1] = b
    <3>1. \A T, r, e : r \in Seq(T) /\ e \in T => Append(r, e)[Len(r) + 1] = e
      OBVIOUS
    <3> QED
      BY Zenon, <2>1, <3>1
  <2>4. \A i \in 1 .. Len(s) : Append(s, b)[i] = s[i]
    BY <2>1
  <2> QED
    BY <2>1, <2>2, <2>3, <2>4 DEF s, Y
<1>2. v \in Seq({a, b}) /\ Len(v) = 2 /\ v[1] = a /\ v[2] = b
  OBVIOUS
<1> HIDE DEF u, v
<1>3. u = [i \in 1 .. 2 |-> u[i]] /\ v = [i \in 1 .. 2 |-> v[i]]
  BY <1>1, <1>2
<1>4. \A i \in 1 .. 2 : u[i] = v[i]
  BY <1>1, <1>2
<1>5. u = v
  BY Zenon, <1>3, <1>4
<1> QED
  BY <1>5 DEF u, v

(* What ListingIsRom says of a list of lines.                               *)
SymbolsAt(symtab, address) ==
    {i \in DOMAIN symtab : Listed(symtab[i]) /\ symtab[i].address = address}
LabelsAt(list, address) ==
    {i \in DOMAIN list : ~ list[i].isInstruction /\ list[i].address = address}
InstructionsOf(list) ==
    FlattenSeq([i \in DOMAIN list |-> IF list[i].isInstruction THEN <<list[i]>> ELSE << >>])
IsListing(link, symtab, list) ==
    /\ InstructionsOf(list) =
          [k \in 1 .. Aligned(link.program.text) \div 4 |->
              [isInstruction |-> TRUE, address |-> <<"rom", 4 * (k - 1)>>,
               line |-> [j \in 1 .. 4 |->
                            RomByte(flashRom(link.headers), 4 * (k - 1) + j - 1)]]]
    /\ \A i \in DOMAIN list : ~ list[i].isInstruction =>
          /\ i < Len(list) /\ list[i + 1].isInstruction
          /\ list[i + 1].address = list[i].address
          /\ SymbolsAt(symtab, list[i].address) # {}
          /\ list[i].line = symtab[Min(SymbolsAt(symtab, list[i].address))].name
    /\ \A k \in DOMAIN InstructionsOf(list) :
          SymbolsAt(symtab, InstructionsOf(list)[k].address) # {} =>
              Cardinality(LabelsAt(list, InstructionsOf(list)[k].address)) = 1

(* The list of a linked program is its ROM, with the names of its symbols.  *)
LEMMA Listing ==
    ASSUME NEW l \in Links, NEW symtab, Len(symtab) \in Nat, DOMAIN symtab = 1 .. Len(symtab)
    PROVE  IsListing(l, symtab, generateDisassembledCode(l.headers, symtab))
<1> DEFINE p == l.program
           text == Aligned(p.text)
           N == text \div 4
           rom == flashRom(l.headers)
           at(k) == <<"rom", 4 * (k - 1)>>
           named(k) == SymbolsAt(symtab, at(k))
           name(k) == symtab[Min(named(k))].name
           Ins(k) == [isInstruction |-> TRUE, address |-> at(k),
                      line |-> [j \in 1 .. 4 |-> RomByte(rom, 4 * (k - 1) + j - 1)]]
           Lab(k) == [isInstruction |-> FALSE, address |-> at(k), line |-> name(k)]
           ins == [k \in 1 .. N |-> Ins(k)]
           lab == [k \in 1 .. N |-> Lab(k)]
           I == {Ins(k) : k \in 1 .. N}
           X == I \cup {Lab(k) : k \in 1 .. N}
           D == {k \in 1 .. N : named(k) # {}}
           lines == [k \in 1 .. N |-> IF k \in D THEN <<lab[k], ins[k]>> ELSE <<ins[k]>>]
<1>1. /\ text \in Nat /\ N \in Nat
      /\ (Len(Flashed(RomSegment(p))) + 3) \div 4 = N
      /\ \A k \in 1 .. N :
             WordAt(RomSegment(p), 4 * (k - 1)) =
                 [j \in 1 .. 4 |-> RomByte(rom, 4 * (k - 1) + j - 1)]
  BY Zenon, RomBegins
<1> HIDE DEF p, text, N, rom
<1>2. \A k \in 1 .. N : ins[k] = Ins(k) /\ lab[k] = Lab(k)
  OBVIOUS
<1>3. \A k \in 1 .. N : named(k) \in SUBSET Nat
                        /\ (named(k) # {} => Min(named(k)) \in named(k) /\ Min(named(k)) # 0)
  <2> SUFFICES ASSUME NEW k \in 1 .. N
               PROVE  /\ named(k) \in SUBSET Nat
                      /\ named(k) # {} => Min(named(k)) \in named(k) /\ Min(named(k)) # 0
    OBVIOUS
  <2>1. named(k) \subseteq 1 .. Len(symtab)
    BY DEF SymbolsAt
  <2> HIDE DEF named
  <2>2. named(k) \in SUBSET Nat
    BY <2>1
  <2>3. named(k) # {} => Min(named(k)) \in named(k)
    BY <2>2, MinOfNat
  <2> QED
    BY <2>1, <2>2, <2>3
<1>4. SegmentLines(RomSegment(p), symtab) = FlattenSeq(lines)
  <2> DEFINE L(k) == Append(SymbolLines(symtab, <<RomSegment(p).paddr, 4 * (k - 1)>>),
                            [isInstruction |-> TRUE,
                             address |-> <<RomSegment(p).paddr, 4 * (k - 1)>>,
                             line |-> WordAt(RomSegment(p), 4 * (k - 1))])
  <2>1. SegmentLines(RomSegment(p), symtab) =
            FlattenSeq([k \in 1 .. (Len(Flashed(RomSegment(p))) + 3) \div 4 |-> L(k)])
    BY Zenon DEF SegmentLines
  <2>2. RomSegment(p).paddr = "rom"
    BY DEF RomSegment
  <2>3. ASSUME NEW k \in 1 .. N
        PROVE  L(k) = lines[k]
    <3>1. L(k) = Append(SymbolLines(symtab, at(k)), Ins(k))
      BY Zenon, <1>1, <2>2
    <3> HIDE DEF L
    <3>2. named(k) = {i \in 1 .. Len(symtab) :
                        Listed(symtab[i]) /\ symtab[i].address = at(k)}
      BY Zenon DEF SymbolsAt
    <3>3. SymbolLines(symtab, at(k)) =
            IF (IF named(k) # {} THEN Min(named(k)) ELSE 0) = 0 THEN << >>
            ELSE << [isInstruction |-> FALSE, address |-> at(k),
                     line |-> symtab[IF named(k) # {} THEN Min(named(k)) ELSE 0].name] >>
      BY Zenon, <3>2 DEF SymbolLines, SelectInSeq
    <3>4. lines[k] = IF k \in D THEN <<Lab(k), Ins(k)>> ELSE <<Ins(k)>>
      BY Zenon, <1>2
    <3>5. k \in D <=> named(k) # {}
      BY Zenon
    <3> DEFINE place == Min(named(k))
               e == Ins(k)
    <3>6. named(k) # {} => place # 0
      BY Zenon, <1>3
    <3> HIDE DEF e, lines, D
    <3>7. CASE named(k) # {}
      <4>1. SymbolLines(symtab, at(k)) = <<Lab(k)>>
        BY Zenon, <3>3, <3>6, <3>7
      <4>2. \A a, b : Append(<<a>>, b) = <<a, b>>
        BY Pair
      <4> QED
        BY Zenon, <3>1, <3>4, <3>5, <3>7, <4>1, <4>2
    <3>8. CASE named(k) = {}
      <4>1. SymbolLines(symtab, at(k)) = << >>
        BY Zenon, <3>3, <3>8
      <4>2. Append(<< >>, e) = <<e>>
        OBVIOUS
      <4> QED
        BY Zenon, <3>1, <3>4, <3>5, <3>8, <4>1, <4>2 DEF e
    <3> QED
      BY Zenon, <3>7, <3>8
  <2>4. [k \in 1 .. N |-> L(k)] = [k \in 1 .. N |-> lines[k]]
    <3> HIDE DEF L, lines
    <3> QED
      BY Zenon, <2>3
  <2>5. lines = [k \in 1 .. N |-> lines[k]]
    <3>1. DOMAIN lines = 1 .. N
      OBVIOUS
    <3> QED
      OBVIOUS
  <2> HIDE DEF L, lines
  <2> QED
    BY Zenon, <1>1, <2>1, <2>4, <2>5
<1>5. \A k \in 1 .. N : /\ Ins(k).isInstruction = TRUE /\ Lab(k).isInstruction = FALSE
                        /\ Ins(k).address = at(k) /\ Lab(k).address = at(k)
  BY Zenon
<1>6. \A j, k \in 1 .. N : at(j) = at(k) => j = k
  <2> SUFFICES ASSUME NEW j \in 1 .. N, NEW k \in 1 .. N, at(j) = at(k)
               PROVE  j = k
    BY Zenon
  <2>1. 4 * (j - 1) = 4 * (k - 1)
    BY Zenon
  <2> QED
    BY <1>1, <2>1
<1>7. /\ \A k \in 1 .. N : ins[k] \in X /\ ins[k] \in I
      /\ \A k \in 1 .. N : k \in D => lab[k] \in X /\ lab[k] \notin I
      /\ \A j, k \in 1 .. N : j \in D /\ k \in D /\ lab[j] = lab[k] => j = k
  <2>1. \A k \in 1 .. N : Ins(k) \in I /\ Lab(k) \in X
    BY Zenon
  <2>2. ASSUME NEW k \in 1 .. N, Lab(k) \in I
        PROVE  FALSE
    <3>1. PICK j \in 1 .. N : Lab(k) = Ins(j)
      BY Zenon, <2>2
    <3> HIDE DEF Lab, Ins
    <3>2. Lab(k).isInstruction = Ins(j).isInstruction
      BY Zenon, <3>1
    <3> QED
      BY Zenon, <1>5, <3>2
  <2>3. \A j, k \in 1 .. N : Lab(j) = Lab(k) => j = k
    <3> SUFFICES ASSUME NEW j \in 1 .. N, NEW k \in 1 .. N, Lab(j) = Lab(k)
                 PROVE  j = k
      BY Zenon
    <3> HIDE DEF Lab, Ins, at
    <3>1. Lab(j).address = Lab(k).address
      BY Zenon
    <3>2. at(j) = at(k)
      BY Zenon, <1>5, <3>1
    <3> QED
      BY Zenon, <1>6, <3>2
  <2> HIDE DEF Lab, Ins, I, ins, lab
  <2> QED
    BY Zenon, <1>2, <2>1, <2>2, <2>3
<1> DEFINE T == [k \in 1 .. N |-> ins[k]]
<1>8. T = [k \in 1 .. N |-> Ins(k)]
  BY Zenon, <1>2
<1> HIDE DEF ins, lab, I, X, D
<1> DEFINE s == FlattenSeq(lines)
<1>9. MadeOf(s, X, I, N, D, lab, ins)
  <2>1. MadeOf(FlattenSeq(LinesOf(N, D, lab, ins)), X, I, N, D, lab, ins)
    BY Zenon, <1>1, <1>7, ListMakesUp
  <2>2. lines = LinesOf(N, D, lab, ins)
    BY Zenon DEF LinesOf
  <2> HIDE DEF lines
  <2> QED
    BY Zenon, <2>1, <2>2
<1>10. s = FlattenSeq(lines)
  OBVIOUS
<1> HIDE DEF s
<1>11. s \in Seq(X) /\ Keep(s, I) = T
  BY Zenon, <1>9 DEF MadeOf
<1>12. \A i \in 1 .. Len(s) : s[i] \notin I =>
          \E k \in 1 .. N : /\ k \in D /\ s[i] = lab[k]
                            /\ i < Len(s) /\ s[i + 1] = ins[k]
  BY Zenon, <1>9 DEF MadeOf
<1>13. \A k \in 1 .. N : k \in D =>
          \E i \in 1 .. Len(s) :
              s[i] = lab[k] /\ \A h \in 1 .. Len(s) : s[h] = lab[k] => h = i
  BY Zenon, <1>9 DEF MadeOf
<1>14. generateDisassembledCode(l.headers, symtab) = s
  <2>1. SegmentLines(RomSegment(l.program), symtab) = s
    BY Zenon, <1>4, <1>10 DEF p
  <2> HIDE DEF lines
  <2>2. SegmentLines(RomSegment(l.program), symtab) \in Seq(X)
    BY Zenon, <1>11, <2>1
  <2> QED
    BY Zenon, <2>1, <2>2, OnlyTextListed
<1>15. DOMAIN s = 1 .. Len(s) /\ \A i \in DOMAIN s : s[i] \in X
  <2>1. \A Y, r : r \in Seq(Y) => DOMAIN r = 1 .. Len(r) /\ \A i \in DOMAIN r : r[i] \in Y
    OBVIOUS
  <2> QED
    BY Zenon, <1>11, <2>1
<1>16. \A r \in X : r \in I <=> r.isInstruction
  <2> SUFFICES ASSUME NEW r \in X
               PROVE  r \in I <=> r.isInstruction
    OBVIOUS
  <2>1. CASE r \in I
    <3>1. PICK k \in 1 .. N : r = Ins(k)
      BY Zenon, <2>1 DEF I
    <3> HIDE DEF Ins
    <3> QED
      BY Zenon, <1>5, <2>1, <3>1
  <2>2. CASE r \notin I
    <3>1. PICK k \in 1 .. N : r = Lab(k)
      BY Zenon, <2>2 DEF X
    <3> HIDE DEF Lab
    <3> QED
      BY Zenon, <1>5, <2>2, <3>1
  <2> QED
    BY Zenon, <2>1, <2>2
<1> HIDE DEF Ins, Lab
<1>17. InstructionsOf(s) = [k \in 1 .. N |-> Ins(k)]
  <2>1. ASSUME NEW i \in DOMAIN s
        PROVE  (IF s[i].isInstruction THEN <<s[i]>> ELSE << >>) =
               (IF s[i] \in I THEN <<s[i]>> ELSE << >>)
    <3>1. s[i] \in I <=> s[i].isInstruction
      BY Zenon, <1>15, <1>16
    <3> QED
      BY Zenon, <3>1
  <2>2. [i \in DOMAIN s |-> IF s[i].isInstruction THEN <<s[i]>> ELSE << >>] =
        [i \in DOMAIN s |-> IF s[i] \in I THEN <<s[i]>> ELSE << >>]
    BY Zenon, <2>1
  <2>3. InstructionsOf(s) = Keep(s, I)
    BY Zenon, <2>2 DEF InstructionsOf, Keep
  <2> HIDE DEF T
  <2> QED
    BY Zenon, <1>8, <1>11, <2>3
<1>18. \A k \in 1 .. N : ins[k] = Ins(k) /\ lab[k] = Lab(k)
  BY Zenon, <1>2 DEF ins, lab
<1>19. ASSUME NEW i \in DOMAIN s, ~ s[i].isInstruction
       PROVE  \E k \in 1 .. N : /\ k \in D /\ s[i] = Lab(k)
                                /\ i < Len(s) /\ s[i + 1] = Ins(k)
  <2>1. s[i] \notin I
    BY Zenon, <1>15, <1>16, <1>19
  <2>2. i \in 1 .. Len(s)
    BY Zenon, <1>15
  <2>3. PICK k \in 1 .. N : /\ k \in D /\ s[i] = lab[k]
                            /\ i < Len(s) /\ s[i + 1] = ins[k]
    BY Zenon, <1>12, <2>1, <2>2
  <2>4. ins[k] = Ins(k) /\ lab[k] = Lab(k)
    BY Zenon, <1>18
  <2> QED
    BY Zenon, <2>3, <2>4
<1>20. \A k \in 1 .. N : k \in D <=> named(k) # {}
  BY Zenon DEF D
<1>21. \A k \in 1 .. N : Lab(k).line = name(k)
  BY Zenon DEF Lab
<1> HIDE DEF at
<1>22. ASSUME NEW i \in DOMAIN s, ~ s[i].isInstruction
       PROVE  /\ i < Len(s) /\ s[i + 1].isInstruction
              /\ s[i + 1].address = s[i].address
              /\ SymbolsAt(symtab, s[i].address) # {}
              /\ s[i].line = symtab[Min(SymbolsAt(symtab, s[i].address))].name
  <2>1. PICK k \in 1 .. N : /\ k \in D /\ s[i] = Lab(k)
                            /\ i < Len(s) /\ s[i + 1] = Ins(k)
    BY Zenon, <1>19, <1>22
  <2>2. s[i].address = at(k) /\ s[i + 1].address = at(k) /\ s[i + 1].isInstruction = TRUE
    BY Zenon, <1>5, <2>1
  <2>3. named(k) # {} /\ s[i].line = name(k)
    BY Zenon, <1>20, <1>21, <2>1
  <2> QED
    BY Zenon, <2>1, <2>2, <2>3
<1>23. ASSUME NEW k \in 1 .. N, named(k) # {}
       PROVE  Cardinality(LabelsAt(s, at(k))) = 1
  <2>1. k \in D
    BY Zenon, <1>20, <1>23
  <2>2. PICK i \in DOMAIN s : /\ s[i] = Lab(k)
                              /\ \A h \in DOMAIN s : s[h] = Lab(k) => h = i
    <3>1. PICK i \in 1 .. Len(s) : /\ s[i] = lab[k]
                                   /\ \A h \in 1 .. Len(s) : s[h] = lab[k] => h = i
      BY Zenon, <1>13, <2>1
    <3>2. lab[k] = Lab(k)
      BY Zenon, <1>18
    <3> QED
      BY Zenon, <1>15, <3>1, <3>2
  <2>3. LabelsAt(s, at(k)) = {i}
    <3>1. ~ s[i].isInstruction /\ s[i].address = at(k)
      BY Zenon, <1>5, <2>2
    <3>2. ASSUME NEW h \in DOMAIN s, ~ s[h].isInstruction, s[h].address = at(k)
          PROVE  h = i
      <4>1. PICK j \in 1 .. N : s[h] = Lab(j)
        BY Zenon, <1>19, <3>2
      <4>2. at(j) = at(k)
        BY Zenon, <1>5, <3>2, <4>1
      <4>3. j = k
        BY Zenon, <1>6, <4>2
      <4> QED
        BY Zenon, <2>2, <4>1, <4>3
    <3> QED
      BY Zenon, <3>1, <3>2 DEF LabelsAt
  <2>4. Cardinality({i}) = 1
    BY FS_Singleton
  <2> QED
    BY Zenon, <2>3, <2>4
<1>24. ASSUME NEW k \in DOMAIN InstructionsOf(s),
              SymbolsAt(symtab, InstructionsOf(s)[k].address) # {}
       PROVE  Cardinality(LabelsAt(s, InstructionsOf(s)[k].address)) = 1
  <2>1. k \in 1 .. N /\ InstructionsOf(s)[k] = Ins(k)
    BY Zenon, <1>17
  <2>2. InstructionsOf(s)[k].address = at(k)
    BY Zenon, <1>5, <2>1
  <2> QED
    BY Zenon, <1>23, <1>24, <2>1, <2>2
<1>25. IsListing(l, symtab, s)
  <2>1. InstructionsOf(s) =
            [k \in 1 .. Aligned(l.program.text) \div 4 |->
                [isInstruction |-> TRUE, address |-> <<"rom", 4 * (k - 1)>>,
                 line |-> [j \in 1 .. 4 |->
                              RomByte(flashRom(l.headers), 4 * (k - 1) + j - 1)]]]
    BY Zenon, <1>17 DEF Ins, at, N, text, p, rom
  <2> QED
    BY Zenon, <1>22, <1>24, <2>1 DEF IsListing
<1> QED
  BY Zenon, <1>14, <1>25

(* The list of instructions is what was flashed, whatever the symbols.      *)
THEOREM ListingsAreRom == Spec => []ListingIsRom
<1>1. Init => ListingIsRom
  BY Zenon DEF Init, ListingIsRom
<1>2. ListingIsRom /\ [Next]_algvars => ListingIsRom'
  <2> SUFFICES ASSUME ListingIsRom, [Next]_algvars, done', asked' \in Listings
               PROVE  IsListing(asked'.link, asked'.symtab, answer')
    BY Zenon DEF ListingIsRom, IsListing, InstructionsOf, SymbolsAt, LabelsAt
  <2>1. CASE UNCHANGED algvars
    <3>1. done /\ asked \in Listings /\ asked' = asked /\ answer' = answer
      BY <2>1 DEF algvars
    <3>2. IsListing(asked.link, asked.symtab, answer)
      BY Zenon, <3>1 DEF ListingIsRom, IsListing, InstructionsOf, SymbolsAt, LabelsAt
    <3> QED
      BY Zenon, <3>1, <3>2
  <2>2. CASE Next
    <3>1. asked' = asked /\ asked \in Listings /\ DisassembleProgram
      BY <2>2, AnsweredBy
    <3>2. /\ asked.link \in Links /\ Len(asked.symtab) \in Nat
          /\ DOMAIN asked.symtab = 1 .. Len(asked.symtab)
      BY <3>1, SampleAssumption DEF Listings
    <3>3. answer' = generateDisassembledCode(asked.link.headers, asked.symtab)
      BY Zenon, <3>1 DEF DisassembleProgram
    <3> QED
      BY Zenon, <3>1, <3>2, <3>3, Listing
  <2> QED
    BY <2>1, <2>2
<1> QED
  BY <1>1, <1>2, PTL DEF Spec

-----------------------------------------------------------------------------
(* What the calls of a program leave in the video memory.                   *)
Texts == STRING \cup {VGA_TEXT_MODE, GRAPHICS_MODE, "blue screen"}
Blocks == [offset : Nat, len : Int, content : Texts]
Terminals == [vram : Seq(Blocks), cursor_index : Nat, faulted : BOOLEAN]

(* A store leaves one block more, unless one was refused before.            *)
Taken(offset, len, size) ==
    IF offset + len <= VIDEO_SIZE + size THEN len ELSE (VIDEO_SIZE - offset) + size
StoredAs(state, after, b, refused) ==
    /\ after \in Terminals /\ after.cursor_index = state.cursor_index
    /\ state.faulted => after = state
    /\ ~ state.faulted => after.vram = <<b>> \o state.vram /\ after.faulted = refused

LEMMA StoresStep ==
    ASSUME NEW state \in Terminals, NEW offset \in Nat, NEW len \in Nat, NEW size \in Nat,
           NEW content \in Texts
    PROVE  StoredAs(state, Stores(state, offset, len, size, content),
                    [offset |-> offset, len |-> Taken(offset, len, size), content |-> content],
                    Taken(offset, len, size) < len)
<1> DEFINE taken == Taken(offset, len, size)
           b == [offset |-> offset, len |-> taken, content |-> content]
           after == Stores(state, offset, len, size, content)
           grown == [state EXCEPT !.vram = <<b>> \o @, !.faulted = taken < len]
<1>1. after = IF state.faulted THEN state ELSE grown
  BY DEF Stores, Taken
<1>2. VIDEO_SIZE \in Int
  BY SMT DEF VIDEO_SIZE, TEXT_HEIGHT, TEXT_WIDTH, SCREEN_WIDTH, SCREEN_HEIGHT
<1>3. taken \in Int /\ (taken < len) \in BOOLEAN
  BY <1>2 DEF Taken
<1> HIDE DEF taken
<1>4. b \in Blocks
  BY <1>3 DEF Blocks
<1> HIDE DEF b
<1>5. <<b>> \o state.vram \in Seq(Blocks)
  <2>1. state.vram \in Seq(Blocks)
    BY DEF Terminals
  <2> QED
    BY <1>4, <2>1
<1>6. /\ grown \in Terminals /\ grown.cursor_index = state.cursor_index
      /\ grown.vram = <<b>> \o state.vram /\ grown.faulted = (taken < len)
  BY <1>3, <1>5 DEF Terminals
<1> HIDE DEF grown, after
<1>7. StoredAs(state, after, b, taken < len)
  BY Zenon, <1>1, <1>6 DEF StoredAs
<1> QED
  BY Zenon, <1>7 DEF after, b, taken

LEMMA StoresTyped ==
    ASSUME NEW state \in Terminals, NEW offset \in Nat, NEW len \in Nat, NEW size \in Nat,
           NEW content \in Texts
    PROVE  Stores(state, offset, len, size, content) \in Terminals
  BY Zenon, StoresStep DEF StoredAs

LEMMA StoresWhole ==
    ASSUME NEW state \in Terminals, NEW offset \in Nat, NEW len \in Nat, NEW size \in Nat,
           NEW content \in Texts, offset + len <= VIDEO_SIZE + size
    PROVE  StoredAs(state, Stores(state, offset, len, size, content),
                    [offset |-> offset, len |-> len, content |-> content], FALSE)
<1>1. Taken(offset, len, size) = len
  BY DEF Taken
<1>2. (len < len) = FALSE
  OBVIOUS
<1>3. StoredAs(state, Stores(state, offset, len, size, content),
               [offset |-> offset, len |-> len, content |-> content], len < len)
  BY Zenon, <1>1, StoresStep
<1> QED
  BY Zenon, <1>2, <1>3

LEMMA StoresPart ==
    ASSUME NEW state \in Terminals, NEW offset \in Nat, NEW len \in Nat, NEW size \in Nat,
           NEW content \in Texts, ~ (offset + len <= VIDEO_SIZE + size)
    PROVE  \E l \in Int :
              StoredAs(state, Stores(state, offset, len, size, content),
                       [offset |-> offset, len |-> l, content |-> content], TRUE)
<1> DEFINE l == Taken(offset, len, size)
<1>1. VIDEO_SIZE \in Int
  BY SMT DEF VIDEO_SIZE, TEXT_HEIGHT, TEXT_WIDTH, SCREEN_WIDTH, SCREEN_HEIGHT
<1>2. l \in Int /\ (l < len) = TRUE
  BY <1>1 DEF Taken
<1>3. StoredAs(state, Stores(state, offset, len, size, content),
               [offset |-> offset, len |-> l, content |-> content], l < len)
  BY Zenon, StoresStep
<1> HIDE DEF l
<1> QED
  BY Zenon, <1>2, <1>3

LEMMA CallStep ==
    ASSUME NEW state \in Terminals, NEW call \in TerminalCalls
    PROVE  Call(state, call) \in Terminals
<1>1. VIDEO_SIZE \div 4 \in Nat
  BY SMT DEF VIDEO_SIZE, TEXT_HEIGHT, TEXT_WIDTH, SCREEN_WIDTH, SCREEN_HEIGHT
<1>2. state.cursor_index \in Nat
  BY DEF Terminals
<1>3. CASE call.name \in {"print_str", "print_str_line"}
  <2>1. call.str \in Texts /\ call.len \in 0 .. VIDEO_SIZE \div 4
    <3>1. call \in [name : {"print_str", "print_str_line"}, str : STRING, len : 0 .. VIDEO_SIZE \div 4]
      BY <1>3 DEF TerminalCalls
    <3>2. call.str \in STRING /\ call.len \in 0 .. VIDEO_SIZE \div 4
      BY <3>1
    <3> QED
      BY Zenon, <3>2 DEF Texts
  <2>9. call.len \in Nat
    BY <1>1, <2>1
  <2> DEFINE s == Stores(state, TEXT_BUFFER + state.cursor_index, call.len, 1, call.str)
  <2> HIDE DEF s
  <2>2. s \in Terminals
    <3>1. TEXT_BUFFER + state.cursor_index \in Nat /\ 1 \in Nat
      BY <1>2 DEF TEXT_BUFFER
    <3> QED
      BY Zenon, <2>1, <2>9, <3>1, StoresTyped DEF s
  <2>3. print_str(state, call.str, call.len) = [s EXCEPT !.cursor_index = @ + call.len]
    BY DEF print_str, s
  <2>4. print_str(state, call.str, call.len) \in Terminals
    BY <2>9, <2>2, <2>3 DEF Terminals
  <2>5. print_str_line(state, call.str, call.len) \in Terminals
    BY <2>4 DEF print_str_line, Terminals
  <2> QED
    BY <1>3, <2>4, <2>5 DEF Call
<1>4. CASE call.name \notin {"print_str", "print_str_line"}
  <2>1. call.name \in {"enable_text_mode", "enable_graphics_mode", "init_blue_screen"}
    BY <1>4 DEF TerminalCalls
  <2>2. /\ 4 * PIXEL_MAX \in Nat /\ GRAPHICS_BUFF \in Nat /\ VIDEO_MEMORY \in Nat
        /\ 1 \in Nat /\ 4 \in Nat
    BY SMT DEF PIXEL_MAX, GRAPHICS_BUFF, VIDEO_MEMORY
  <2>3. VGA_TEXT_MODE \in Texts /\ GRAPHICS_MODE \in Texts /\ "blue screen" \in Texts
    BY DEF Texts
  <2>4. enable_text_mode(state) \in Terminals /\ enable_graphics_mode(state) \in Terminals
    BY Zenon, <2>2, <2>3, StoresTyped DEF enable_text_mode, enable_graphics_mode
  <2>5. init_blue_screen(state) \in Terminals
    BY Zenon, <2>2, <2>3, StoresTyped DEF init_blue_screen
  <2> QED
    BY <2>1, <2>4, <2>5 DEF Call
<1> QED
  BY <1>3, <1>4

(* A block on top of the others hides what it covers.                       *)
LEMMA ByteAtStep ==
    ASSUME NEW vram \in Seq(Blocks), NEW b \in Blocks, NEW a \in Int
    PROVE  ByteAt(<<b>> \o vram, a) =
               IF Covers(b, a) THEN <<b.content, a - b.offset>> ELSE ByteAt(vram, a)
<1> DEFINE w == <<b>> \o vram
           I == {i \in 1 .. Len(vram) : Covers(vram[i], a)}
           J == {i \in 1 .. Len(w) : Covers(w[i], a)}
<1>1. /\ Len(vram) \in Nat /\ Len(w) = Len(vram) + 1 /\ w[1] = b
      /\ \A i \in 1 .. Len(vram) : w[i + 1] = vram[i]
  OBVIOUS
<1>2. /\ ByteAt(vram, a) = LET n == IF I # {} THEN Min(I) ELSE 0
                           IN  IF n = 0 THEN NUL ELSE <<vram[n].content, a - vram[n].offset>>
      /\ ByteAt(w, a) = LET n == IF J # {} THEN Min(J) ELSE 0
                        IN  IF n = 0 THEN NUL ELSE <<w[n].content, a - w[n].offset>>
  <2> HIDE DEF w
  <2> QED
    BY DEF ByteAt, SelectInSeq
<1> HIDE DEF w
<1>3. J \in SUBSET Nat /\ I \in SUBSET Nat /\ J \in SUBSET (1 .. Len(w))
  BY <1>1
<1>4. CASE Covers(b, a)
  <2>1. 1 \in J
    BY <1>1, <1>4
  <2>2. Min(J) = 1
    <3> HIDE DEF J
    <3>1. J \in SUBSET Nat /\ J # {}
      BY <1>3, <2>1
    <3>2. Min(J) \in J /\ Min(J) <= 1
      BY <2>1, <3>1, MinOfNat
    <3>3. Min(J) \in 1 .. Len(w)
      BY Zenon, <1>3, <3>2
    <3> QED
      BY <1>1, <3>2, <3>3
  <2> HIDE DEF I, J
  <2>3. (IF J # {} THEN Min(J) ELSE 0) = 1
    BY <2>1, <2>2
  <2> QED
    BY <1>1, <1>2, <1>4, <2>3 DEF w
<1>5. CASE ~ Covers(b, a)
  <2>1. \A i \in Nat : i \in I <=> i + 1 \in J
    <3> SUFFICES ASSUME NEW i \in Nat PROVE i \in I <=> i + 1 \in J
      OBVIOUS
    <3>1. CASE i \in 1 .. Len(vram)
      <4>1. w[i + 1] = vram[i] /\ i + 1 \in 1 .. Len(w)
        BY <1>1, <3>1
      <4> QED
        BY <3>1, <4>1
    <3>2. CASE i = 0
      BY <1>1, <1>5, <3>2
    <3>3. CASE i > Len(vram)
      BY <1>1, <3>3
    <3> QED
      BY <1>1, <3>1, <3>2, <3>3
  <2>2. 1 \notin J /\ 0 \notin J
    BY <1>1, <1>5
  <2>3. CASE I = {}
    <3>1. J = {}
      <4> SUFFICES ASSUME NEW j \in J PROVE FALSE
        OBVIOUS
      <4>1. j - 1 \in Nat /\ (j - 1) + 1 = j
        BY <1>3, <2>2
      <4> QED
        BY <2>1, <2>3, <4>1
    <3> HIDE DEF I, J
    <3> QED
      BY <1>2, <1>5, <2>3, <3>1 DEF w
  <2>4. CASE I # {}
    <3> DEFINE m == Min(I)
    <3>1. m \in I /\ m \in Nat /\ \A y \in I : m <= y
      <4> HIDE DEF I
      <4> QED
        BY <1>3, <2>4, MinOfNat
    <3>2. m + 1 \in J
      BY <2>1, <3>1
    <3>3. Min(J) \in J /\ Min(J) <= m + 1
      <4> HIDE DEF I, J, m
      <4> QED
        BY <1>3, <3>2, MinOfNat
    <3>4. Min(J) - 1 \in I
      <4> HIDE DEF I, m
      <4>1. Min(J) \in J
        BY <3>3
      <4> HIDE DEF J
      <4>2. Min(J) \in Nat /\ Min(J) # 0
        BY <1>3, <2>2, <4>1
      <4>3. Min(J) - 1 \in Nat /\ (Min(J) - 1) + 1 = Min(J)
        BY <4>2
      <4> QED
        BY Zenon, <2>1, <4>1, <4>3
    <3>5. Min(J) = m + 1 /\ Min(J) \in Nat
      <4> HIDE DEF I, J, m
      <4>1. Min(J) \in Nat
        BY <1>3, <3>3
      <4>2. m <= Min(J) - 1
        BY <3>1, <3>4
      <4> QED
        BY <3>1, <3>3, <4>1, <4>2
    <3>6. w[m + 1] = vram[m] /\ m # 0 /\ m + 1 # 0
      BY <1>1, <3>1
    <3>7. ByteAt(vram, a) = <<vram[m].content, a - vram[m].offset>>
      <4> HIDE DEF I, J
      <4> QED
        BY <1>2, <2>4, <3>6
    <3>8. ByteAt(w, a) = <<w[m + 1].content, a - w[m + 1].offset>>
      <4> HIDE DEF I, J, m
      <4> QED
        BY <1>2, <3>2, <3>5, <3>6
    <3> QED
      BY Zenon, <1>5, <3>6, <3>7, <3>8 DEF w
  <2> QED
    BY <2>3, <2>4
<1> QED
  BY <1>4, <1>5

(* The calls of a program, made one after the other.                        *)
IsRun(states, calls) ==
    /\ states[0] = init_terminal
    /\ \A i \in 1 .. Len(calls) : states[i] = Call(states[i - 1], calls[i])
    /\ states[Len(calls)] = kernel_main(calls)

LEMMA RunExists ==
    ASSUME NEW calls \in Seq(TerminalCalls)
    PROVE  \E states : IsRun(states, calls)
<1> DEFINE D == DOMAIN calls
           c == [T \in SUBSET D |-> Max(T)]
           g == [p \in D \X Terminals |-> Call(p[2], calls[p[1]])]
           Eq(F) == F = [s \in SUBSET D |->
                       IF s = {} THEN init_terminal ELSE Call(F[s \ {Max(s)}], calls[Max(s)])]
           iter == CHOOSE F : Eq(F)
<1>1. Len(calls) \in Nat /\ D = 1 .. Len(calls) /\ \A i \in D : calls[i] \in TerminalCalls
  OBVIOUS
<1>2. init_terminal \in Terminals
  <2>1. << >> \in Seq(Blocks)
    OBVIOUS
  <2> QED
    BY <2>1 DEF init_terminal, Terminals
<1>3. kernel_main(calls) = iter[D]
  BY DEF kernel_main, FoldLeft, MapThenFoldSet
<1>4. \A T \in SUBSET D : T # {} => Max(T) \in T /\ c[T] = Max(T)
  <2> SUFFICES ASSUME NEW T \in SUBSET D, T # {}
               PROVE  Max(T) \in T
    OBVIOUS
  <2>1. T \in SUBSET (0 .. Len(calls))
    BY <1>1
  <2> QED
    BY <1>1, <2>1, GreatestElement
<1>5. g \in [D \X Terminals -> Terminals]
  <2> SUFFICES ASSUME NEW i \in D, NEW state \in Terminals
               PROVE  Call(state, calls[i]) \in Terminals
    OBVIOUS
  <2>1. calls[i] \in TerminalCalls
    BY <1>1
  <2> QED
    BY <2>1, CallStep
<1>6. IsFiniteSet(D)
  BY <1>1, FS_Interval
<1>7. \A i \in D, state \in Terminals : g[<<i, state>>] = Call(state, calls[i])
  OBVIOUS
<1>8. PICK F : Folds(F, D, Terminals, init_terminal, c, g)
  <2> HIDE DEF D, c, g
  <2> QED
    BY <1>2, <1>4, <1>5, <1>6, FoldsExist
<1>9. Eq(F)
  <2>1. F \in [SUBSET D -> Terminals]
    BY <1>8 DEF Folds
  <2>2. ASSUME NEW s \in SUBSET D
        PROVE  F[s] = IF s = {} THEN init_terminal ELSE Call(F[s \ {Max(s)}], calls[Max(s)])
    <3>1. F[s] = IF s = {} THEN init_terminal ELSE g[<<c[s], F[s \ {c[s]}]>>]
      BY Zenon, <1>8 DEF Folds
    <3>2. CASE s # {}
      <4>1. Max(s) \in D /\ c[s] = Max(s) /\ F[s \ {Max(s)}] \in Terminals
        BY <1>4, <2>1, <3>2
      <4>2. g[<<Max(s), F[s \ {Max(s)}]>>] = Call(F[s \ {Max(s)}], calls[Max(s)])
        BY Zenon, <1>7, <4>1
      <4> QED
        BY Zenon, <3>1, <3>2, <4>1, <4>2
    <3> QED
      BY Zenon, <3>1, <3>2
  <2> HIDE DEF D, c, g
  <2>3. F = [s \in SUBSET D |-> F[s]]
    BY <2>1
  <2> QED
    BY <2>2, <2>3
<1>10. Eq(iter)
  <2> HIDE DEF Eq
  <2> QED
    BY Zenon, <1>9
<1>11. \A s \in SUBSET D :
          iter[s] = IF s = {} THEN init_terminal ELSE Call(iter[s \ {Max(s)}], calls[Max(s)])
  <2>1. \A G : Eq(G) => \A s \in SUBSET D :
          G[s] = IF s = {} THEN init_terminal ELSE Call(G[s \ {Max(s)}], calls[Max(s)])
    <3> HIDE DEF D
    <3> QED
      BY Zenon
  <2> HIDE DEF Eq, iter
  <2> QED
    BY Zenon, <1>10, <2>1
<1> DEFINE states == [i \in 0 .. Len(calls) |-> iter[1 .. i]]
<1> HIDE DEF iter, c, g, Eq
<1>12. states[0] = init_terminal
  <2>1. 1 .. 0 = {} /\ 0 \in 0 .. Len(calls)
    BY <1>1
  <2>2. states[0] = iter[{}]
    BY <2>1
  <2>3. {} \in SUBSET D
    OBVIOUS
  <2> QED
    BY Zenon, <1>11, <2>2, <2>3
<1>13. ASSUME NEW i \in D
       PROVE  states[i] = Call(states[i - 1], calls[i])
  <2> DEFINE s == 1 .. i
  <2>1. i \in 1 .. Len(calls) /\ i \in Nat
    BY <1>1
  <2>2. states[i] = iter[s] /\ states[i - 1] = iter[1 .. i - 1]
    BY <1>1, <2>1
  <2>3. s \in SUBSET D /\ s # {} /\ s \in SUBSET (0 .. i) /\ i \in s /\ s \ {i} = 1 .. i - 1
    BY <1>1, <2>1
  <2>4. Max(s) \in s /\ \A y \in s : Max(s) >= y
    <3> HIDE DEF s
    <3> QED
      BY <2>1, <2>3, GreatestElement
  <2>5. Max(s) = i
    <3>1. Max(s) \in 1 .. i /\ Max(s) >= i
      BY <2>3, <2>4
    <3> HIDE DEF s
    <3> QED
      BY <2>1, <3>1
  <2> HIDE DEF s, states
  <2> QED
    BY Zenon, <1>11, <2>2, <2>3, <2>5
<1>14. states[Len(calls)] = iter[D]
  BY <1>1
<1> HIDE DEF states, D
<1>15. IsRun(states, calls)
  BY Zenon, <1>1, <1>3, <1>12, <1>13, <1>14 DEF IsRun
<1> QED
  BY <1>15

(* What is asked of the terminal: a mode, and then up to three calls.       *)
LEMMA CallsOfSessions ==
    ASSUME NEW calls \in CallSequences
    PROVE  /\ calls \in Seq(TerminalCalls)
           /\ Len(calls) \in 1 .. 4 /\ DOMAIN calls = 1 .. Len(calls)
           /\ calls[1].name \in {"enable_text_mode", "enable_graphics_mode"}
<1>1. PICK m \in {"enable_text_mode", "enable_graphics_mode"}, s \in BoundedSeq(SampledCalls, 3) :
          calls = <<EnterMode(m)>> \o s
  <2> DEFINE A == {"enable_text_mode", "enable_graphics_mode"}
             B == BoundedSeq(SampledCalls, 3)
             X(m, s) == <<EnterMode(m)>> \o s
  <2>1. calls \in {X(m, s) : m \in A, s \in B}
    BY DEF CallSequences
  <2> HIDE DEF A, B, X
  <2>2. \E m \in A, s \in B : calls = X(m, s)
    BY <2>1
  <2> QED
    BY <2>2 DEF A, B, X
<1>2. s \in Seq(TerminalCalls) /\ Len(s) \in 0 .. 3
  <2>1. PICK n \in 0 .. 3 : s \in [1 .. n -> SampledCalls]
    BY <1>1 DEF BoundedSeq, SeqOf
  <2>2. s \in Seq(SampledCalls) /\ Len(s) = n
    BY <2>1
  <2>3. SampledCalls \subseteq TerminalCalls
    BY SampleAssumption
  <2>4. s \in [1 .. n -> TerminalCalls] /\ n \in Nat
    BY <2>1, <2>3
  <2>5. s \in Seq(TerminalCalls)
    BY <2>4
  <2> QED
    BY <2>2, <2>5
<1> DEFINE e == EnterMode(m)
<1>3. e \in TerminalCalls /\ e.name = m
  <2>1. e \in [name : {"enable_text_mode", "enable_graphics_mode", "init_blue_screen"}] /\ e.name = m
    BY DEF EnterMode
  <2> HIDE DEF e
  <2> QED
    BY Zenon, <2>1 DEF TerminalCalls
<1> HIDE DEF e
<1>4. calls = <<e>> \o s
  BY <1>1 DEF e
<1>5. calls \in Seq(TerminalCalls) /\ Len(calls) = Len(s) + 1 /\ calls[1] = e
  BY <1>2, <1>3, <1>4
<1>6. DOMAIN calls = 1 .. Len(calls)
  BY <1>5
<1>7. Len(calls) \in 1 .. 4
  <2> DEFINE l == Len(calls)
             n == Len(s)
  <2>1. n \in 0 .. 3 /\ l = n + 1
    BY <1>2, <1>5
  <2> HIDE DEF l, n
  <2>2. l \in 1 .. 4
    BY <2>1
  <2> QED
    BY <2>2 DEF l
<1> QED
  BY <1>3, <1>5, <1>6, <1>7

(* Where the calls print, and that they end within the video memory.        *)
LEMMA StartFacts ==
    ASSUME NEW calls \in CallSequences
    PROVE  /\ Start(calls, 1) = 0
           /\ \A k \in 1 .. Len(calls) :
                 /\ Start(calls, k) \in Nat
                 /\ k \in Prints(calls) =>
                       /\ calls[k].str \in STRING /\ calls[k].len \in Nat
                       /\ 16 + Start(calls, k) + calls[k].len <= VIDEO_SIZE
                       /\ Start(calls, k + 1) = Start(calls, k) + (calls[k].len +
                             IF calls[k].name = "print_str_line" THEN 64 ELSE 0)
                 /\ k \notin Prints(calls) => Start(calls, k + 1) = Start(calls, k)
<1> DEFINE f == [j \in Prints(calls) |->
                    calls[j].len + IF calls[j].name = "print_str_line" THEN 64 ELSE 0]
           T(k) == {j \in Prints(calls) : j < k}
           Q == VIDEO_SIZE \div 4
<1>1. /\ calls \in Seq(TerminalCalls) /\ Len(calls) \in 1 .. 4 /\ DOMAIN calls = 1 .. Len(calls)
      /\ 1 \notin Prints(calls)
  BY CallsOfSessions DEF Prints
<1>2. Q \in Nat /\ 3 * Q + 144 <= VIDEO_SIZE /\ VIDEO_SIZE \in Nat
  BY SMT DEF VIDEO_SIZE, TEXT_HEIGHT, TEXT_WIDTH, SCREEN_WIDTH, SCREEN_HEIGHT
<1>3. \A j \in Prints(calls) : j \in 1 .. Len(calls) /\ calls[j].str \in STRING /\ calls[j].len \in 0 .. Q
  <2> SUFFICES ASSUME NEW j \in Prints(calls)
               PROVE  j \in 1 .. Len(calls) /\ calls[j].str \in STRING /\ calls[j].len \in 0 .. Q
    OBVIOUS
  <2>1. j \in DOMAIN calls /\ calls[j].name \in {"print_str", "print_str_line"}
    BY DEF Prints
  <2>2. calls[j] \in TerminalCalls
    BY <1>1, <2>1
  <2>3. calls[j] \in [name : {"print_str", "print_str_line"}, str : STRING, len : 0 .. Q]
    BY <2>1, <2>2 DEF TerminalCalls
  <2> HIDE DEF Q
  <2> QED
    BY <1>1, <2>1, <2>3
<1> HIDE DEF Q
<1>4. \A j \in Prints(calls) : f[j] \in 0 .. Q + 64 /\ f[j] \in Nat /\ f[j] \in Int
  BY <1>2, <1>3
<1>5. \A k \in Int : Start(calls, k) = SumFunctionOnSet(f, T(k))
  BY DEF Start
<1>6. \A k \in Int : IsFiniteSet(T(k)) /\ T(k) \subseteq Prints(calls)
  <2> SUFFICES ASSUME NEW k \in Int PROVE IsFiniteSet(T(k))
    OBVIOUS
  <2>1. IsFiniteSet(1 .. Len(calls)) /\ T(k) \in SUBSET (1 .. Len(calls))
    BY <1>1, <1>3, FS_Interval
  <2> HIDE DEF T
  <2> QED
    BY <2>1, FS_Subset
<1> HIDE DEF f
<1>7. ASSUME NEW k \in Int
      PROVE  SumFunctionOnSet(f, T(k)) \in Nat
  <2> DEFINE S == T(k)
             E == {}
  <2>1. IsFiniteSet(S) /\ (\A x \in S : f[x] \in Int) /\ (\A x \in S : f[x] \in Nat) /\ E \in SUBSET S
    BY <1>4, <1>6
  <2> HIDE DEF S, E
  <2>2. SumFunctionOnSet(f, {}) = 0 /\ SumFunctionOnSet(f, S) \in Int
    BY <2>1, SumFacts
  <2>3. SumFunctionOnSet(f, E) <= SumFunctionOnSet(f, S)
    BY <2>1, SumIsMonotonic
  <2>4. SumFunctionOnSet(f, E) = 0
    BY <2>2 DEF E
  <2>5. SumFunctionOnSet(f, S) \in Nat
    BY <2>2, <2>3, <2>4
  <2> QED
    BY <2>5 DEF S
<1>8. ASSUME NEW k \in 1 .. Len(calls), k \in Prints(calls)
      PROVE  SumFunctionOnSet(f, T(k + 1)) = SumFunctionOnSet(f, T(k)) + f[k]
  <2> DEFINE S == T(k + 1)
  <2>1. k \in Int /\ k + 1 \in Int
    BY <1>1
  <2>2. IsFiniteSet(S) /\ (\A x \in S : f[x] \in Int)
    BY <1>4, <1>6, <2>1
  <2>3. k \in S /\ S \ {k} = T(k)
    <3>1. \A j \in Prints(calls) : j \in Int
      BY <1>1, <1>3
    <3>2. k < k + 1
      BY <2>1
    <3>3. \A j \in Prints(calls) : j < k + 1 /\ j # k <=> j < k
      BY <2>1, <3>1
    <3> QED
      BY Zenon, <1>8, <3>2, <3>3
  <2> HIDE DEF S, T
  <2>4. SumFunctionOnSet(f, S) = f[k] + SumFunctionOnSet(f, S \ {k})
    BY <2>2, <2>3, SumFacts
  <2>5. SumFunctionOnSet(f, S) = f[k] + SumFunctionOnSet(f, T(k))
    BY Zenon, <2>3, <2>4
  <2>6. f[k] \in Int /\ SumFunctionOnSet(f, T(k)) \in Nat
    BY <1>7, <2>1, <2>2, <2>3
  <2>7. SumFunctionOnSet(f, S) = SumFunctionOnSet(f, T(k)) + f[k]
    BY <2>5, <2>6
  <2> QED
    BY Zenon, <2>7 DEF S
<1>9. ASSUME NEW k \in 1 .. Len(calls), k \notin Prints(calls)
      PROVE  T(k + 1) = T(k)
  BY <1>1, <1>3, <1>9
<1>10. T(1) = {}
  BY <1>1, <1>3
<1> HIDE DEF T
<1>11. Start(calls, 1) = 0
  <2>1. SumFunctionOnSet(f, {}) = 0
    BY FS_EmptySet, SumFacts
  <2>2. Start(calls, 1) = SumFunctionOnSet(f, T(1))
    BY <1>5
  <2> QED
    BY Zenon, <1>10, <2>1, <2>2
<1>12. ASSUME NEW k \in 1 .. Len(calls)
       PROVE  /\ Start(calls, k) \in Nat /\ Start(calls, k + 1) \in Nat
              /\ k \in Prints(calls) => Start(calls, k + 1) = Start(calls, k) + f[k]
              /\ k \notin Prints(calls) => Start(calls, k + 1) = Start(calls, k)
  <2>1. k \in Int /\ k + 1 \in Int
    BY <1>1
  <2> QED
    BY Zenon, <1>5, <1>7, <1>8, <1>9, <2>1
<1>13. ASSUME NEW k \in 1 .. Len(calls)
       PROVE  Start(calls, k + 1) <= Start(calls, k) + Q + 64
  <2>1. CASE k \in Prints(calls)
    <3>1. f[k] \in 0 .. Q + 64
      BY <1>4, <2>1
    <3> QED
      BY <1>2, <1>12, <2>1, <3>1
  <2>2. CASE k \notin Prints(calls)
    BY <1>2, <1>12, <2>2
  <2> QED
    BY <2>1, <2>2
<1>14. ASSUME NEW k \in 1 .. Len(calls), k \in Prints(calls)
       PROVE  16 + Start(calls, k) + calls[k].len <= VIDEO_SIZE
  <2>1. k \in {2, 3, 4} /\ k <= Len(calls) /\ 1 \in 1 .. Len(calls)
    BY <1>1, <1>14
  <2>2. Start(calls, 2) = 0
    <3>1. Start(calls, 1 + 1) = Start(calls, 1)
      BY <1>1, <1>12, <2>1
    <3> QED
      BY <1>11, <3>1
  <2>3. calls[k].len \in 0 .. Q
    BY <1>3, <1>14
  <2>4. k >= 3 => Start(calls, 3) <= Q + 64 /\ Start(calls, 3) \in Nat
    <3> SUFFICES ASSUME k >= 3 PROVE Start(calls, 3) <= Q + 64 /\ Start(calls, 3) \in Nat
      OBVIOUS
    <3>1. 2 \in 1 .. Len(calls)
      BY <1>1, <2>1
    <3>2. Start(calls, 2 + 1) <= Start(calls, 2) + Q + 64 /\ Start(calls, 2 + 1) \in Nat
      BY <1>12, <1>13, <3>1
    <3> QED
      BY <1>2, <2>2, <3>2
  <2>5. k >= 4 => Start(calls, 4) <= 2 * Q + 128 /\ Start(calls, 4) \in Nat
    <3> SUFFICES ASSUME k >= 4 PROVE Start(calls, 4) <= 2 * Q + 128 /\ Start(calls, 4) \in Nat
      OBVIOUS
    <3>1. 3 \in 1 .. Len(calls) /\ k >= 3
      BY <1>1, <2>1
    <3>2. Start(calls, 3 + 1) <= Start(calls, 3) + Q + 64 /\ Start(calls, 3 + 1) \in Nat
      BY <1>12, <1>13, <3>1
    <3> QED
      BY <1>2, <2>4, <3>1, <3>2
  <2>6. Start(calls, k) <= 2 * Q + 128 /\ Start(calls, k) \in Nat
    BY <1>2, <2>1, <2>2, <2>4, <2>5
  <2> DEFINE l == calls[k].len
             at == Start(calls, k)
  <2> HIDE DEF l, at
  <2>7. 16 + at + l <= VIDEO_SIZE
    <3>1. l \in 0 .. Q /\ at <= 2 * Q + 128 /\ at \in Nat
      BY Zenon, <2>3, <2>6 DEF l, at
    <3> QED
      BY <1>2, <3>1
  <2> QED
    BY Zenon, <2>7 DEF l, at
<1>15. ASSUME NEW k \in 1 .. Len(calls), k \in Prints(calls)
       PROVE  /\ calls[k].str \in STRING /\ calls[k].len \in Nat
              /\ f[k] = calls[k].len + IF calls[k].name = "print_str_line" THEN 64 ELSE 0
  BY <1>3, <1>15 DEF f
<1> QED
  BY Zenon, <1>11, <1>12, <1>14, <1>15

(* What one call does to the terminal.                                      *)
Effect(calls, k, state, after) ==
    /\ after \in Terminals /\ after.cursor_index = Start(calls, k + 1)
    /\ after.faulted <=> state.faulted \/ calls[k].name = "init_blue_screen"
    /\ state.faulted => after.vram = state.vram
    /\ k \in Prints(calls) /\ ~ state.faulted =>
          after.vram = <<[offset |-> 16 + Start(calls, k), len |-> calls[k].len,
                          content |-> calls[k].str]>> \o state.vram
    /\ k \in Switches(calls) /\ ~ state.faulted =>
          after.vram = <<[offset |-> 0, len |-> 1,
                          content |-> IF calls[k].name = "enable_text_mode"
                                      THEN VGA_TEXT_MODE ELSE GRAPHICS_MODE]>> \o state.vram
    /\ calls[k].name = "init_blue_screen" /\ ~ state.faulted =>
          \E b \in Blocks : b.offset = GRAPHICS_BUFF /\ after.vram = <<b>> \o state.vram

LEMMA CallEffect ==
    ASSUME NEW calls \in CallSequences, NEW k \in 1 .. Len(calls), NEW state \in Terminals,
           state.cursor_index = Start(calls, k), NEW after, after = Call(state, calls[k])
    PROVE  Effect(calls, k, state, after)
<1> DEFINE call == calls[k]
           c == state.cursor_index
<1>1. /\ calls \in Seq(TerminalCalls) /\ Len(calls) \in 1 .. 4 /\ DOMAIN calls = 1 .. Len(calls)
      /\ call \in TerminalCalls
  BY CallsOfSessions
<1>2. after \in Terminals
  BY <1>1, CallStep
<1>3. c \in Nat /\ c = Start(calls, k)
  BY DEF Terminals
<1>4. /\ k \in Prints(calls) <=> call.name \in {"print_str", "print_str_line"}
      /\ k \in Switches(calls) <=> call.name \in {"enable_text_mode", "enable_graphics_mode"}
  BY <1>1 DEF Prints, Switches
<1>5. VIDEO_SIZE \in Nat /\ VIDEO_MEMORY = 0 /\ TEXT_BUFFER = 16 /\ GRAPHICS_BUFF \in Nat
      /\ 4 * PIXEL_MAX \in Nat /\ 1 <= VIDEO_SIZE
      /\ ~ (GRAPHICS_BUFF + 4 * PIXEL_MAX <= VIDEO_SIZE + 4)
  BY SMT DEF VIDEO_SIZE, TEXT_HEIGHT, TEXT_WIDTH, SCREEN_WIDTH, SCREEN_HEIGHT, VIDEO_MEMORY,
     TEXT_BUFFER, GRAPHICS_BUFF, PIXEL_MAX
<1>6. CASE k \in Prints(calls)
  <2>1. /\ call.str \in Texts /\ call.len \in Nat /\ 16 + c + call.len <= VIDEO_SIZE
        /\ Start(calls, k + 1) = c + (call.len + IF call.name = "print_str_line" THEN 64 ELSE 0)
    <3>1. /\ call.str \in STRING /\ call.len \in Nat
          /\ 16 + Start(calls, k) + call.len <= VIDEO_SIZE
          /\ Start(calls, k + 1) = Start(calls, k) + (call.len +
                IF call.name = "print_str_line" THEN 64 ELSE 0)
      BY Zenon, <1>6, StartFacts
    <3>2. call.str \in Texts
      BY Zenon, <3>1 DEF Texts
    <3> QED
      BY Zenon, <1>3, <3>1, <3>2
  <2> DEFINE o == TEXT_BUFFER + c
             s == Stores(state, o, call.len, 1, call.str)
             b == [offset |-> o, len |-> call.len, content |-> call.str]
  <2>2. o \in Nat /\ o = 16 + Start(calls, k) /\ o + call.len <= VIDEO_SIZE + 1 /\ 1 \in Nat
    <3>1. o \in Nat /\ o = 16 + c
      BY <1>3, <1>5
    <3>2. \A x, y \in Nat : x + y <= VIDEO_SIZE => x + y <= VIDEO_SIZE + 1
      BY <1>5
    <3>3. o + call.len <= VIDEO_SIZE + 1
      BY Zenon, <2>1, <3>1, <3>2
    <3> QED
      BY Zenon, <1>3, <3>1, <3>3
  <2> HIDE DEF o, s, call, c
  <2>3. /\ s \in Terminals /\ s.cursor_index = c
        /\ state.faulted => s = state
        /\ ~ state.faulted => s.vram = <<b>> \o state.vram /\ ~ s.faulted
    <3>1. s = Stores(state, o, call.len, 1, call.str)
      BY DEF s
    <3>2. StoredAs(state, s, b, FALSE)
      BY Zenon, <2>1, <2>2, <3>1, StoresWhole
    <3> QED
      BY Zenon, <3>2 DEF c, StoredAs
  <2> HIDE DEF b
  <2>4. print_str(state, call.str, call.len) = [s EXCEPT !.cursor_index = @ + call.len]
    BY Zenon DEF print_str, s, o, c
  <2> DEFINE p == print_str(state, call.str, call.len)
  <2>5. /\ p.cursor_index = c + call.len /\ p.vram = s.vram /\ p.faulted = s.faulted
        /\ p = [cursor_index |-> p.cursor_index, vram |-> p.vram, faulted |-> p.faulted]
    BY <2>3, <2>4 DEF Terminals
  <2> HIDE DEF p
  <2>6. /\ after.cursor_index = c + (call.len + IF call.name = "print_str_line" THEN 64 ELSE 0)
        /\ after.vram = p.vram /\ after.faulted = p.faulted
    <3>1. CASE call.name = "print_str"
      <4>1. after = p
        BY <3>1 DEF Call, p, call
      <4> QED
        BY <1>3, <2>1, <2>5, <3>1, <4>1
    <3>2. CASE call.name = "print_str_line"
      <4>1. after = [p EXCEPT !.cursor_index = @ + 64]
        BY <3>2 DEF Call, print_str_line, p, call
      <4>2. /\ after.cursor_index = p.cursor_index + 64
            /\ after.vram = p.vram /\ after.faulted = p.faulted
        BY <2>5, <4>1
      <4> QED
        BY <1>3, <2>1, <2>5, <3>2, <4>2
    <3> QED
      BY <1>4, <1>6, <3>1, <3>2 DEF call
  <2>7. /\ call.name # "init_blue_screen" /\ k \notin Switches(calls)
    BY <1>4, <1>6 DEF call
  <2>8. state.faulted => after.vram = state.vram /\ after.faulted
    BY Zenon, <2>3, <2>5, <2>6
  <2>9. ~ state.faulted => after.vram = <<b>> \o state.vram /\ ~ after.faulted
    BY Zenon, <2>3, <2>5, <2>6
  <2>10. b = [offset |-> 16 + Start(calls, k), len |-> calls[k].len, content |-> calls[k].str]
    BY Zenon, <2>2 DEF b, call
  <2>11. after.cursor_index = Start(calls, k + 1)
    BY Zenon, <2>1, <2>6
  <2> QED
    BY Zenon, <1>2, <2>7, <2>8, <2>9, <2>10, <2>11 DEF call, Effect
<1>7. CASE k \in Switches(calls)
  <2> DEFINE m == IF call.name = "enable_text_mode" THEN VGA_TEXT_MODE ELSE GRAPHICS_MODE
             s == Stores(state, VIDEO_MEMORY, 1, 1, m)
  <2>1. after = s
    <3>1. CASE call.name = "enable_text_mode"
      <4>1. after = enable_text_mode(state)
        BY <3>1 DEF Call
      <4> QED
        BY Zenon, <3>1, <4>1 DEF enable_text_mode
    <3>2. CASE call.name = "enable_graphics_mode"
      <4>1. after = enable_graphics_mode(state) /\ call.name # "enable_text_mode"
        BY <3>2 DEF Call
      <4> QED
        BY Zenon, <4>1 DEF enable_graphics_mode
    <3> QED
      BY <1>4, <1>7, <3>1, <3>2
  <2>2. m \in Texts
    BY Zenon DEF Texts
  <2>3. /\ 1 \in Nat /\ 0 \in Nat /\ 0 + 1 <= VIDEO_SIZE + 1
    BY <1>5
  <2>4. Start(calls, k + 1) = c /\ k \notin Prints(calls) /\ call.name # "init_blue_screen"
    <3>1. k \notin Prints(calls) /\ call.name # "init_blue_screen"
      BY <1>4, <1>7
    <3> QED
      BY Zenon, <1>3, <3>1, StartFacts
  <2> HIDE DEF m, s, call, c
  <2>5. /\ s.cursor_index = c
        /\ state.faulted => s = state
        /\ ~ state.faulted => /\ s.vram = <<[offset |-> 0, len |-> 1, content |-> m]>> \o state.vram
                              /\ ~ s.faulted
    <3> DEFINE b == [offset |-> 0, len |-> 1, content |-> m]
    <3>1. s = Stores(state, 0, 1, 1, m)
      BY Zenon, <1>5 DEF s
    <3>2. StoredAs(state, s, b, FALSE)
      BY Zenon, <2>2, <2>3, <3>1, StoresWhole
    <3> QED
      BY Zenon, <3>2 DEF c, StoredAs
  <2> QED
    BY Zenon, <1>2, <2>1, <2>4, <2>5 DEF m, call, Effect
<1>8. CASE call.name = "init_blue_screen"
  <2> DEFINE s == Stores(state, GRAPHICS_BUFF, 4 * PIXEL_MAX, 4, "blue screen")
  <2>1. after = s
    <3>1. after = init_blue_screen(state)
      BY <1>8 DEF Call
    <3> QED
      BY Zenon, <3>1 DEF init_blue_screen
  <2>2. "blue screen" \in Texts /\ 4 \in Nat
    BY Zenon DEF Texts
  <2>3. Start(calls, k + 1) = c /\ k \notin Prints(calls) /\ k \notin Switches(calls)
    <3>1. k \notin Prints(calls) /\ k \notin Switches(calls)
      BY <1>4, <1>8
    <3> QED
      BY Zenon, <1>3, <3>1, StartFacts
  <2>4. PICK l \in Int :
            StoredAs(state, s, [offset |-> GRAPHICS_BUFF, len |-> l, content |-> "blue screen"], TRUE)
    BY Zenon, <1>5, <2>2, StoresPart
  <2> DEFINE b == [offset |-> GRAPHICS_BUFF, len |-> l, content |-> "blue screen"]
  <2>5. b \in Blocks /\ b.offset = GRAPHICS_BUFF
    BY <1>5, <2>2, <2>4 DEF Blocks
  <2>6. StoredAs(state, s, b, TRUE)
    BY <2>4
  <2> HIDE DEF s, call, c, b
  <2>7. /\ s.cursor_index = c
        /\ state.faulted => s = state
        /\ ~ state.faulted => s.vram = <<b>> \o state.vram /\ s.faulted
    BY Zenon, <2>6 DEF StoredAs, c
  <2> QED
    BY Zenon, <1>2, <1>8, <2>1, <2>3, <2>5, <2>7 DEF call, Effect
<1> QED
  <2>1. call.name \in {"print_str", "print_str_line", "enable_text_mode", "enable_graphics_mode",
                       "init_blue_screen"}
    <3> HIDE DEF call
    <3> QED
      BY <1>1 DEF TerminalCalls
  <2>2. k \in Prints(calls) \/ k \in Switches(calls) \/ call.name = "init_blue_screen"
    BY <1>4, <2>1
  <2> QED
    BY Zenon, <1>6, <1>7, <1>8, <2>2

(* The calls that write a byte in front of the picture, and what they write.*)
Puts(calls, i, a) ==
    IF i \in Prints(calls)
    THEN 16 + Start(calls, i) <= a /\ a < 16 + Start(calls, i) + calls[i].len
    ELSE i \in Switches(calls) /\ a = 0
ByteWritten(calls, i, a) ==
    IF i \in Prints(calls) THEN <<calls[i].str, a - (16 + Start(calls, i))>>
    ELSE <<IF calls[i].name = "enable_text_mode" THEN VGA_TEXT_MODE ELSE GRAPHICS_MODE, a>>
Writers(calls, k, a) == {i \in 1 .. k : i \in Made(calls) /\ Puts(calls, i, a)}

(* After k calls: where the next text goes, whether a store was refused, and*)
(* that every byte in front of the picture is the last writer's.            *)
ScreenInv(state, calls, k) ==
    /\ state \in Terminals
    /\ state.cursor_index = Start(calls, k + 1)
    /\ state.faulted <=> \E j \in 1 .. k : calls[j].name = "init_blue_screen"
    /\ \A a \in 0 .. GRAPHICS_BUFF - 1 :
          ByteAt(state.vram, a) = IF Writers(calls, k, a) = {} THEN NUL
                                  ELSE ByteWritten(calls, Max(Writers(calls, k, a)), a)

LEMMA WritersStep ==
    ASSUME NEW calls \in CallSequences, NEW k \in 1 .. Len(calls), NEW a \in Int
    PROVE  /\ k \in Made(calls) /\ Puts(calls, k, a) => /\ k \in Writers(calls, k, a)
                                                       /\ Max(Writers(calls, k, a)) = k
           /\ ~ (k \in Made(calls) /\ Puts(calls, k, a)) =>
                 Writers(calls, k, a) = Writers(calls, k - 1, a)
<1>1. k \in Nat /\ k \in 1 .. k
  BY CallsOfSessions
<1> DEFINE W == Writers(calls, k, a)
<1>2. ASSUME k \in Made(calls), Puts(calls, k, a)
      PROVE  k \in W /\ Max(W) = k
  <2>1. k \in W /\ W \in SUBSET (0 .. k) /\ W # {}
    BY <1>1, <1>2 DEF Writers
  <2> HIDE DEF W
  <2>2. Max(W) \in W /\ \A y \in W : Max(W) >= y
    BY <1>1, <2>1, GreatestElement
  <2>3. Max(W) \in 0 .. k /\ Max(W) >= k
    BY Zenon, <2>1, <2>2
  <2>4. Max(W) = k
    BY <1>1, <2>3
  <2> QED
    BY <2>1, <2>4
<1>3. ASSUME ~ (k \in Made(calls) /\ Puts(calls, k, a))
      PROVE  W = Writers(calls, k - 1, a)
  <2>1. \A i : i \in 1 .. k - 1 <=> i \in 1 .. k /\ i # k
    BY <1>1
  <2> QED
    BY Zenon, <1>3, <2>1 DEF Writers
<1> QED
  BY Zenon, <1>2, <1>3

LEMMA ScreenStep ==
    ASSUME NEW calls \in CallSequences, NEW k \in 1 .. Len(calls), NEW state,
           ScreenInv(state, calls, k - 1)
    PROVE  ScreenInv(Call(state, calls[k]), calls, k)
<1> DEFINE after == Call(state, calls[k])
<1>1. k \in Nat /\ (k - 1) + 1 = k /\ k \in DOMAIN calls /\ calls[k] \in TerminalCalls
      /\ DOMAIN calls = 1 .. Len(calls)
  BY CallsOfSessions
<1>2. /\ state \in Terminals /\ state.cursor_index = Start(calls, k)
      /\ state.faulted <=> \E j \in 1 .. k - 1 : calls[j].name = "init_blue_screen"
  BY Zenon, <1>1 DEF ScreenInv
<1> HIDE DEF after
<1>3. Effect(calls, k, state, after)
  <2>1. after = Call(state, calls[k])
    BY DEF after
  <2> QED
    BY Zenon, <1>2, <2>1, CallEffect
<1>4. after.faulted <=> \E j \in 1 .. k : calls[j].name = "init_blue_screen"
  <2>1. \A j : j \in 1 .. k <=> j \in 1 .. k - 1 \/ j = k
    BY <1>1
  <2> QED
    BY Zenon, <1>2, <1>3, <2>1 DEF Effect
<1>5. k \in Made(calls) <=> ~ state.faulted
  BY Zenon, <1>1, <1>2 DEF Made
<1>6. ASSUME NEW a \in 0 .. GRAPHICS_BUFF - 1
      PROVE  ByteAt(after.vram, a) = IF Writers(calls, k, a) = {} THEN NUL
                                     ELSE ByteWritten(calls, Max(Writers(calls, k, a)), a)
  <2> DEFINE W == Writers(calls, k, a)
             V == Writers(calls, k - 1, a)
  <2>1. ByteAt(state.vram, a) = IF V = {} THEN NUL ELSE ByteWritten(calls, Max(V), a)
    BY Zenon DEF ScreenInv
  <2>2. a \in Int /\ a < GRAPHICS_BUFF /\ GRAPHICS_BUFF \in Int
    BY SMT DEF GRAPHICS_BUFF
  <2>3. /\ k \in Made(calls) /\ Puts(calls, k, a) => k \in W /\ Max(W) = k
        /\ ~ (k \in Made(calls) /\ Puts(calls, k, a)) => W = V
    BY Zenon, <2>2, WritersStep
  <2> HIDE DEF W, V
  <2>4. CASE state.faulted
    BY Zenon, <1>3, <1>5, <2>1, <2>3, <2>4 DEF W, Effect
  <2>5. ASSUME NEW b \in Blocks, ~ state.faulted, after.vram = <<b>> \o state.vram,
               Covers(b, a) <=> Puts(calls, k, a),
               Covers(b, a) => <<b.content, a - b.offset>> = ByteWritten(calls, k, a)
        PROVE  ByteAt(after.vram, a) = IF W = {} THEN NUL ELSE ByteWritten(calls, Max(W), a)
    <3>1. state.vram \in Seq(Blocks)
      BY <1>2 DEF Terminals
    <3>2. ByteAt(<<b>> \o state.vram, a) =
              IF Covers(b, a) THEN <<b.content, a - b.offset>> ELSE ByteAt(state.vram, a)
      BY Zenon, <2>2, <3>1, ByteAtStep
    <3> QED
      BY Zenon, <1>5, <2>1, <2>3, <2>5, <3>2
  <2>6. CASE ~ state.faulted /\ k \in Prints(calls)
    <3> DEFINE b == [offset |-> 16 + Start(calls, k), len |-> calls[k].len,
                     content |-> calls[k].str]
    <3>1. Start(calls, k) \in Nat /\ calls[k].str \in STRING /\ calls[k].len \in Nat
      BY Zenon, <2>6, StartFacts
    <3>2. b \in Blocks
      <4>1. calls[k].str \in Texts
        BY Zenon, <3>1 DEF Texts
      <4> QED
        BY <3>1, <4>1 DEF Blocks
    <3>3. b.offset = 16 + Start(calls, k) /\ b.len = calls[k].len /\ b.content = calls[k].str
      OBVIOUS
    <3>4. after.vram = <<b>> \o state.vram
      BY Zenon, <1>3, <2>6 DEF Effect
    <3> HIDE DEF b
    <3>5. Covers(b, a) <=> Puts(calls, k, a)
      BY Zenon, <2>6, <3>3 DEF Covers, Puts
    <3>6. <<b.content, a - b.offset>> = ByteWritten(calls, k, a)
      BY Zenon, <2>6, <3>3 DEF ByteWritten
    <3> QED
      BY Zenon, <2>5, <2>6, <3>2, <3>4, <3>5, <3>6 DEF W
  <2>7. CASE ~ state.faulted /\ k \in Switches(calls) /\ k \notin Prints(calls)
    <3> DEFINE m == IF calls[k].name = "enable_text_mode" THEN VGA_TEXT_MODE ELSE GRAPHICS_MODE
               b == [offset |-> 0, len |-> 1, content |-> m]
    <3>1. m \in Texts
      BY Zenon DEF Texts
    <3>2. after.vram = <<b>> \o state.vram
      BY Zenon, <1>3, <2>7 DEF Effect, m
    <3> HIDE DEF m
    <3>3. b \in Blocks /\ b.offset = 0 /\ b.len = 1 /\ b.content = m
      BY <3>1 DEF Blocks
    <3> HIDE DEF b
    <3>4. Covers(b, a) <=> a = 0
      BY <2>2, <3>3 DEF Covers
    <3>5. Covers(b, a) <=> Puts(calls, k, a)
      BY Zenon, <2>7, <3>4 DEF Puts
    <3>6. a - b.offset = a
      BY <2>2, <3>3
    <3>7. <<b.content, a - b.offset>> = ByteWritten(calls, k, a)
      BY Zenon, <2>7, <3>3, <3>6 DEF ByteWritten, m
    <3> QED
      BY Zenon, <2>5, <2>7, <3>2, <3>3, <3>5, <3>7 DEF W
  <2>8. CASE ~ state.faulted /\ k \notin Switches(calls) /\ k \notin Prints(calls)
    <3>1. calls[k].name = "init_blue_screen"
      BY <1>1, <2>8 DEF TerminalCalls, Prints, Switches
    <3>2. PICK b \in Blocks : b.offset = GRAPHICS_BUFF /\ after.vram = <<b>> \o state.vram
      BY Zenon, <1>3, <2>8, <3>1 DEF Effect
    <3>3. ~ Covers(b, a)
      BY <2>2, <3>2 DEF Covers
    <3>4. ~ Puts(calls, k, a)
      BY Zenon, <2>8 DEF Puts
    <3> QED
      BY Zenon, <2>5, <2>8, <3>2, <3>3, <3>4 DEF W
  <2> QED
    BY Zenon, <2>4, <2>6, <2>7, <2>8 DEF W
<1> QED
  BY Zenon, <1>3, <1>4, <1>6 DEF ScreenInv, Effect, after

LEMMA ScreenHolds ==
    ASSUME NEW calls \in CallSequences
    PROVE  ScreenInv(kernel_main(calls), calls, Len(calls))
<1>1. calls \in Seq(TerminalCalls) /\ Len(calls) \in Nat
  BY CallsOfSessions
<1>2. PICK states : IsRun(states, calls)
  BY <1>1, RunExists
<1> DEFINE S == {k \in Nat : k <= Len(calls) => ScreenInv(states[k], calls, k)}
<1>3. ScreenInv(init_terminal, calls, 0)
  <2>1. init_terminal \in Terminals
    <3>1. << >> \in Seq(Blocks)
      OBVIOUS
    <3> QED
      BY <3>1 DEF init_terminal, Terminals
  <2>2. /\ init_terminal.cursor_index = 0 /\ init_terminal.faulted = FALSE
        /\ init_terminal.vram = << >>
    BY DEF init_terminal
  <2>3. Start(calls, 0 + 1) = 0
    <3>1. 0 + 1 = 1
      OBVIOUS
    <3> QED
      BY Zenon, <3>1, StartFacts
  <2>4. \A i : i \notin 1 .. 0
    OBVIOUS
  <2>5. \A a : ByteAt(<< >>, a) = NUL /\ Writers(calls, 0, a) = {}
    <3> TAKE a
    <3> DEFINE I == {i \in 1 .. Len(<< >>) : Covers((<< >>)[i], a)}
    <3>1. I = {}
      OBVIOUS
    <3>2. ByteAt(<< >>, a) = LET n == IF I # {} THEN Min(I) ELSE 0
                             IN  IF n = 0 THEN NUL ELSE <<(<< >>)[n].content, a - (<< >>)[n].offset>>
      BY DEF ByteAt, SelectInSeq
    <3>3. ByteAt(<< >>, a) = NUL
      <4> HIDE DEF I
      <4> QED
        BY <3>1, <3>2
    <3>4. Writers(calls, 0, a) = {}
      BY Zenon, <2>4 DEF Writers
    <3> QED
      BY <3>3, <3>4
  <2> QED
    BY Zenon, <2>1, <2>2, <2>3, <2>4, <2>5 DEF ScreenInv
<1>4. 0 \in S
  BY Zenon, <1>2, <1>3 DEF IsRun
<1>5. \A k \in S : k + 1 \in S
  <2> SUFFICES ASSUME NEW k \in Nat, k <= Len(calls) => ScreenInv(states[k], calls, k),
                      k + 1 <= Len(calls)
               PROVE  ScreenInv(states[k + 1], calls, k + 1)
    OBVIOUS
  <2> DEFINE n == k + 1
  <2>1. n \in 1 .. Len(calls) /\ n - 1 = k /\ k <= Len(calls)
    BY <1>1
  <2> HIDE DEF n
  <2>2. states[n] = Call(states[n - 1], calls[n])
    BY Zenon, <1>2, <2>1 DEF IsRun
  <2>3. ScreenInv(states[n - 1], calls, n - 1)
    BY Zenon, <2>1
  <2>4. ScreenInv(states[n], calls, n)
    BY Zenon, <2>1, <2>2, <2>3, ScreenStep
  <2> QED
    BY <2>4 DEF n
<1>6. Len(calls) \in S
  <2> HIDE DEF S
  <2>1. S \in SUBSET Nat
    BY DEF S
  <2> QED
    BY <1>1, <1>4, <1>5, <2>1, Induct
<1> QED
  <2>1. ScreenInv(states[Len(calls)], calls, Len(calls))
    BY <1>1, <1>6
  <2> QED
    BY Zenon, <1>2, <2>1 DEF IsRun

(* What the property says of one program and what the GUI draws.            *)
IsShown(calls, i, j, char) ==
    LET covering == Over(calls, 64 * i + j) \cap Made(calls)
        last == Max(covering)
        k == 64 * i + j - Start(calls, last)
    IN  char = IF covering = {} \/ calls[last].str = "nul" THEN " "
               ELSE <<calls[last].str, k>>
Displays(calls, shown) ==
    ShowsText(calls) =>
        \A i \in 0 .. 20, j \in 0 .. 63 : IsShown(calls, i, j, shown[i][j])

LEMMA TextDrawn ==
    ASSUME NEW calls \in CallSequences
    PROVE  Displays(calls, renderLcdDisplay(kernel_main(calls).vram))
<1> SUFFICES ASSUME ShowsText(calls)
             PROVE  Displays(calls, renderLcdDisplay(kernel_main(calls).vram))
  BY Zenon DEF Displays
<1> DEFINE vram == kernel_main(calls).vram
           n == Len(calls)
           W(a) == Writers(calls, n, a)
<1>1. /\ calls \in Seq(TerminalCalls) /\ n \in 1 .. 4 /\ DOMAIN calls = 1 .. n
      /\ 1 \in Switches(calls) /\ 1 \in Made(calls)
  BY CallsOfSessions DEF Switches, Made
<1>2. \A i \in Prints(calls) : Start(calls, i) \in Nat /\ calls[i].len \in Nat /\ i \in 1 .. n
  <2>1. \A i \in Prints(calls) : i \in 1 .. n
    BY <1>1 DEF Prints
  <2> QED
    BY Zenon, <2>1, StartFacts DEF n
<1>3. Switches(calls) \cap Prints(calls) = {} /\ Switches(calls) \subseteq 1 .. n
  BY <1>1 DEF Switches, Prints
<1> HIDE DEF vram, n
<1>4. \A a \in 0 .. GRAPHICS_BUFF - 1 :
          ByteAt(vram, a) = IF W(a) = {} THEN NUL ELSE ByteWritten(calls, Max(W(a)), a)
  BY Zenon, ScreenHolds DEF ScreenInv, vram, n
<1>5. GRAPHICS_BUFF = 1360
  BY DEF GRAPHICS_BUFF
<1>6. videoMode(vram) = VGA_TEXT_MODE
  <2>1. W(0) = Switches(calls) \cap Made(calls)
    <3>1. \A i \in Prints(calls) : ~ Puts(calls, i, 0)
      BY <1>2 DEF Puts
    <3>2. \A i \in 1 .. n : i \notin Prints(calls) => (Puts(calls, i, 0) <=> i \in Switches(calls))
      BY Zenon DEF Puts
    <3> QED
      BY Zenon, <1>3, <3>1, <3>2 DEF Writers
  <2> DEFINE m == Max(W(0))
  <2>2. m \in W(0)
    <3>1. W(0) \in SUBSET (0 .. n) /\ W(0) # {} /\ n \in Nat
      BY <1>1, <1>3, <2>1
    <3> HIDE DEF W
    <3> QED
      BY <3>1, GreatestElement
  <2>3. m \in Switches(calls) /\ m \notin Prints(calls) /\ calls[m].name = "enable_text_mode"
    <3>1. calls[m].name = "enable_text_mode"
      BY Zenon, <2>1 DEF ShowsText
    <3> QED
      BY Zenon, <1>3, <2>1, <2>2, <3>1
  <2> HIDE DEF m
  <2>4. ByteWritten(calls, m, 0) = <<VGA_TEXT_MODE, 0>>
    BY Zenon, <2>3 DEF ByteWritten
  <2>5. 0 \in 0 .. GRAPHICS_BUFF - 1
    BY <1>5
  <2>6. ByteAt(vram, 0) = <<VGA_TEXT_MODE, 0>>
    BY Zenon, <1>4, <2>2, <2>4, <2>5 DEF m
  <2> QED
    BY <2>6 DEF videoMode
<1>7. ASSUME NEW i \in 0 .. 20, NEW j \in 0 .. 63
      PROVE  IsShown(calls, i, j, Character(ByteAt(vram, 16 + 64 * i + j)))
  <2> DEFINE p == 64 * i + j
             a == 16 + 64 * i + j
             C == Over(calls, p) \cap Made(calls)
             last == Max(C)
  <2>1. p \in Int /\ a = 16 + p /\ a \in 0 .. GRAPHICS_BUFF - 1 /\ a # 0
    BY <1>5
  <2> HIDE DEF p, a
  <2>2. W(a) = C
    <3>1. \A x \in Prints(calls) : Puts(calls, x, a) <=> x \in Over(calls, p)
      <4> SUFFICES ASSUME NEW x \in Prints(calls)
                   PROVE  Puts(calls, x, a) <=> x \in Over(calls, p)
        OBVIOUS
      <4> DEFINE s == Start(calls, x)
                 l == calls[x].len
      <4>1. Puts(calls, x, a) <=> 16 + s <= a /\ a < 16 + s + l
        BY Zenon DEF Puts
      <4>2. x \in Over(calls, p) <=> s <= p /\ p < s + l
        BY Zenon DEF Over
      <4>3. s \in Nat /\ l \in Nat
        BY <1>2
      <4> HIDE DEF s, l
      <4>4. (16 + s <= a <=> s <= p) /\ (a < 16 + s + l <=> p < s + l)
        BY <2>1, <4>3
      <4> QED
        BY Zenon, <4>1, <4>2, <4>4
    <3>2. \A x : x \notin Prints(calls) => ~ Puts(calls, x, a) /\ x \notin Over(calls, p)
      BY Zenon, <2>1 DEF Puts, Over
    <3> QED
      BY Zenon, <1>2, <3>1, <3>2 DEF Writers
  <2>3. ASSUME C = {}
        PROVE  IsShown(calls, i, j, Character(ByteAt(vram, a)))
    <3>1. ByteAt(vram, a) = NUL
      BY Zenon, <1>4, <2>1, <2>2, <2>3
    <3>2. Character(ByteAt(vram, a)) = " "
      BY <3>1 DEF Character, NUL
    <3> QED
      BY Zenon, <2>3, <3>2 DEF IsShown, p
  <2>4. ASSUME C # {}
        PROVE  IsShown(calls, i, j, Character(ByteAt(vram, a)))
    <3>1. last \in C
      <4>1. C \in SUBSET (0 .. n) /\ n \in Nat
        <5>1. \A x \in C : x \in 1 .. n
          BY <1>2 DEF Over
        <5> HIDE DEF C
        <5> QED
          BY <1>1, <5>1
      <4> HIDE DEF C
      <4> QED
        BY <2>4, <4>1, GreatestElement
    <3>2. last \in Prints(calls)
      BY Zenon, <3>1 DEF Over
    <3>3. ByteAt(vram, a) = ByteWritten(calls, last, a)
      BY Zenon, <1>4, <2>1, <2>2, <2>4
    <3> HIDE DEF last
    <3>4. a - (16 + Start(calls, last)) = p - Start(calls, last)
      BY <1>2, <2>1, <3>2
    <3>5. ByteAt(vram, a) = <<calls[last].str, p - Start(calls, last)>>
      BY Zenon, <3>2, <3>3, <3>4 DEF ByteWritten
    <3> DEFINE t == calls[last].str
               d == p - Start(calls, last)
    <3>6. Character(ByteAt(vram, a)) = IF t = "nul" THEN " " ELSE <<t, d>>
      <4>1. ByteAt(vram, a) = <<t, d>>
        BY <3>5
      <4> HIDE DEF t, d
      <4>2. (<<t, d>>)[1] = t
        OBVIOUS
      <4> QED
        BY Zenon, <4>1, <4>2 DEF Character
    <3>7. p - Start(calls, last) = 64 * i + j - Start(calls, last)
      BY <1>2, <3>2 DEF p
    <3> HIDE DEF C
    <3> QED
      BY Zenon, <2>4, <3>6, <3>7 DEF IsShown, last, C, p
  <2>5. IsShown(calls, i, j, Character(ByteAt(vram, a)))
    BY Zenon, <2>3, <2>4
  <2> QED
    BY Zenon, <2>5 DEF a
<1> DEFINE text == [i \in 0 .. TEXT_HEIGHT - 1 |-> [j \in 0 .. TEXT_WIDTH - 1 |->
                       Character(ByteAt(vram, vgaTextBuffer + TEXT_WIDTH * i + j))]]
<1>8. renderLcdDisplay(vram) = text
  <2>1. VGA_TEXT_MODE # GRAPHICS_MODE
    BY DEF VGA_TEXT_MODE, GRAPHICS_MODE
  <2> HIDE DEF text
  <2> QED
    BY <1>6, <2>1 DEF renderLcdDisplay, text
<1>9. \A i \in 0 .. 20, j \in 0 .. 63 : text[i][j] = Character(ByteAt(vram, 16 + 64 * i + j))
  BY DEF TEXT_HEIGHT, TEXT_WIDTH, vgaTextBuffer
<1> HIDE DEF text
<1> QED
  BY Zenon, <1>7, <1>8, <1>9 DEF Displays, vram

(* Whatever a program asks of the terminal, with texts of any length up to  *)
(* a quarter of the video memory.                                           *)
TextInv == done /\ asked \in Sessions => Displays(asked.calls, answer)

THEOREM TextsShown == Spec => []TextIsShown
<1>1. Init => TextInv
  BY DEF Init, TextInv
<1>2. TextInv /\ [Next]_algvars => TextInv'
  <2> SUFFICES ASSUME TextInv, [Next]_algvars, done', asked' \in Sessions
               PROVE  Displays(asked'.calls, answer')
    BY Zenon DEF TextInv
  <2>1. CASE UNCHANGED algvars
    <3>1. done /\ asked \in Sessions /\ asked' = asked /\ answer' = answer
      BY <2>1 DEF algvars
    <3> QED
      BY Zenon, <3>1 DEF TextInv
  <2>2. CASE Next
    <3>1. asked' = asked /\ asked \in Sessions /\ ShowScreen
      BY <2>2, AnsweredBy
    <3>2. asked.calls \in CallSequences
      BY <3>1 DEF Sessions
    <3>3. answer' = renderLcdDisplay(kernel_main(asked.calls).vram)
      BY Zenon, <3>1 DEF ShowScreen
    <3> QED
      BY Zenon, <3>1, <3>2, <3>3, TextDrawn
  <2> QED
    BY <2>1, <2>2
<1>3. TextInv => TextIsShown
  BY Zenon DEF TextInv, TextIsShown, Displays, IsShown
<1> QED
  BY <1>1, <1>2, <1>3, PTL DEF Spec
=============================================================================
