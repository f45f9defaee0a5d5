-------------------------- MODULE VariablesProofs ---------------------------
(***************************************************************************)
(* For any number of units, each of any length and any nesting: the tree   *)
(* the parser builds is the one the compiler flattened, the variables are  *)
(* listed as C scopes them, the emulator does not end, and every variable  *)
(* is where DWARF says.                                                    *)
(***************************************************************************)
EXTENDS Variables, SequenceTheorems, Induction

Stream == debugInfo[unit]
Opens(stream, j) == j \in Entries(stream) /\ stream[j].hasChildren

(* While unit u is parsed: a frame for each list of children that is open   *)
(* at entry i, in the order they were opened.                               *)
AreOpen(calls, u, stream, i) ==
    /\ i \in 1 .. Len(stream)
    /\ Depth(stream, i - 1) = Len(calls)
    /\ \A k \in 1 .. Len(calls) :
          /\ calls[k] = <<u, calls[k][2]>>
          /\ Opens(stream, calls[k][2]) /\ calls[k][2] < i
          /\ Depth(stream, calls[k][2]) = k
          /\ \A m \in calls[k][2] .. i - 1 : Depth(stream, m) >= k
FramesAreOpen == AreOpen(frames, unit, Stream, index)

(* The entries that are behind the parser: not open any more.               *)
Over == {j \in Entries(Stream) : j < index /\ <<unit, j>> \notin ToSet(frames)}

(* Every entry in front of index has its parent in front of it, and those   *)
(* of its children that are over.                                           *)
ListsAreCurrent ==
    \A i \in Entries(Stream) : i < index =>
        /\ i # 1 => /\ Opens(Stream, Parent(Stream, i)) /\ Parent(Stream, i) < i
                    /\ Depth(Stream, Parent(Stream, i)) = Depth(Stream, i - 1)
        /\ Enumerates(children[<<unit, i>>], unit, Offspring(Stream, i) \cap Over)

(* The entries of the units in front of u, and those of u in front of i.    *)
Before(units, u, i) ==
    {n \in Nat \X Nat : /\ n[1] \in DOMAIN units /\ n[2] \in Entries(units[n[1]])
                        /\ (n[1] < u \/ (n[1] = u /\ n[2] < i))}

ParserInv ==
    /\ IsDebugInfo(debugInfo)
    /\ unit \in 1 .. Len(debugInfo) + 1 /\ index \in Nat
    /\ frames \in Seq(Nat \X Nat)
    /\ DOMAIN children = Before(debugInfo, unit, index)
    /\ \A n \in DOMAIN children : children[n] \in Seq(Nat \X Nat)
    /\ \A u \in 1 .. unit - 1 : IsStream(u)
    /\ ~ Parsed => FramesAreOpen /\ ListsAreCurrent

-----------------------------------------------------------------------------
(* Lemmas about streams.                                                    *)
LEMMA CountStep ==
    ASSUME NEW S
    PROVE  /\ \A i \in Nat : Cardinality((1 .. i) \cap S) \in Nat
           /\ Cardinality((1 .. 0) \cap S) = 0
           /\ \A i \in Nat \ {0} :
                 Cardinality((1 .. i) \cap S) =
                     Cardinality((1 .. i - 1) \cap S) + IF i \in S THEN 1 ELSE 0
<1>1. \A i \in Nat : IsFiniteSet((1 .. i) \cap S)
  <2> SUFFICES ASSUME NEW i \in Nat
               PROVE  IsFiniteSet((1 .. i) \cap S)
    OBVIOUS
  <2>1. IsFiniteSet(1 .. i)
    BY FS_Interval
  <2>2. (1 .. i) \cap S \in SUBSET (1 .. i)
    OBVIOUS
  <2> QED
    BY Zenon, <2>1, <2>2, FS_Subset
<1>2. \A i \in Nat : Cardinality((1 .. i) \cap S) \in Nat
  BY <1>1, FS_CardinalityType
<1>3. Cardinality((1 .. 0) \cap S) = 0
  <2>1. (1 .. 0) \cap S = {}
    OBVIOUS
  <2> QED
    BY <2>1, FS_EmptySet
<1>4. ASSUME NEW i \in Nat \ {0}
      PROVE  Cardinality((1 .. i) \cap S) =
                 Cardinality((1 .. i - 1) \cap S) + IF i \in S THEN 1 ELSE 0
  <2> DEFINE B == (1 .. i - 1) \cap S
  <2>0. IsFiniteSet(B) /\ Cardinality(B) \in Nat /\ i \notin B
    BY <1>1, <1>2
  <2>1. (1 .. i) \cap S = IF i \in S THEN B \cup {i} ELSE B
    OBVIOUS
  <2> HIDE DEF B
  <2>2. CASE i \in S
    <3>1. Cardinality(B \cup {i}) = Cardinality(B) + 1
      BY Zenon, <2>0, FS_AddElement
    <3> QED
      BY <2>0, <2>1, <2>2, <3>1 DEF B
  <2>3. CASE i \notin S
    BY <2>0, <2>1, <2>3 DEF B
  <2> QED
    BY <2>2, <2>3
<1> QED
  BY <1>2, <1>3, <1>4

(* An entry with children opens a list, and a 0 ends one.                   *)
LEMMA DepthStep ==
    ASSUME NEW s
    PROVE  /\ \A i \in Nat : Depth(s, i) \in Int
           /\ Depth(s, 0) = 0
           /\ \A i \in Nat \ {0} :
                 Depth(s, i) = IF s[i] = EndOfSiblings THEN Depth(s, i - 1) - 1
                               ELSE IF s[i].hasChildren THEN Depth(s, i - 1) + 1
                               ELSE Depth(s, i - 1)
<1> DEFINE O == {k \in Nat : s[k] # EndOfSiblings /\ s[k].hasChildren}
           C == {k \in Nat : s[k] = EndOfSiblings}
<1>1. ASSUME NEW i \in Nat
      PROVE  Depth(s, i) = Cardinality((1 .. i) \cap O) - Cardinality((1 .. i) \cap C)
  <2>1. {k \in 1 .. i : s[k] # EndOfSiblings /\ s[k].hasChildren} = (1 .. i) \cap O
    OBVIOUS
  <2>2. {k \in 1 .. i : s[k] = EndOfSiblings} = (1 .. i) \cap C
    OBVIOUS
  <2> QED
    BY Zenon, <2>1, <2>2 DEF Depth
<1>2. \A i \in Nat : /\ i \in O <=> s[i] # EndOfSiblings /\ s[i].hasChildren
                     /\ i \in C <=> s[i] = EndOfSiblings
  OBVIOUS
<1> HIDE DEF O, C
<1>3. ASSUME NEW i \in Nat
      PROVE  Depth(s, i) \in Int
  <2> DEFINE a == Cardinality((1 .. i) \cap O)
             b == Cardinality((1 .. i) \cap C)
  <2>1. a \in Nat /\ b \in Nat
    BY Zenon, CountStep
  <2>2. Depth(s, i) = a - b
    BY Zenon, <1>1
  <2> HIDE DEF a, b
  <2>3. a - b \in Int
    BY <2>1
  <2> QED
    BY Zenon, <2>2, <2>3
<1>4. Depth(s, 0) = 0
  <2>1. Cardinality((1 .. 0) \cap O) = 0 /\ Cardinality((1 .. 0) \cap C) = 0
    BY Zenon, CountStep
  <2>2. 0 \in Nat
    OBVIOUS
  <2>3. Depth(s, 0) = 0 - 0
    BY Zenon, <1>1, <2>1, <2>2
  <2> QED
    BY <2>3
<1>5. ASSUME NEW i \in Nat \ {0}
      PROVE  Depth(s, i) = IF s[i] = EndOfSiblings THEN Depth(s, i - 1) - 1
                           ELSE IF s[i].hasChildren THEN Depth(s, i - 1) + 1
                           ELSE Depth(s, i - 1)
  <2> DEFINE a == Cardinality((1 .. i - 1) \cap O)
             b == Cardinality((1 .. i - 1) \cap C)
  <2>0. i \in Nat /\ i - 1 \in Nat
    OBVIOUS
  <2>1. a \in Nat /\ b \in Nat /\ Depth(s, i - 1) = a - b
    BY Zenon, <1>1, <2>0, CountStep
  <2>2. Depth(s, i) = (a + IF i \in O THEN 1 ELSE 0) - (b + IF i \in C THEN 1 ELSE 0)
    <3>1. Cardinality((1 .. i) \cap O) = a + IF i \in O THEN 1 ELSE 0
      BY Zenon, CountStep
    <3>2. Cardinality((1 .. i) \cap C) = b + IF i \in C THEN 1 ELSE 0
      BY Zenon, CountStep
    <3> QED
      BY Zenon, <1>1, <2>0, <3>1, <3>2
  <2> HIDE DEF a, b
  <2> QED
    BY <1>2, <2>1, <2>2
<1> QED
  BY <1>3, <1>4, <1>5

LEMMA UnitFacts ==
    ASSUME NEW s, IsUnit(s)
    PROVE  /\ Len(s) \in Nat \ {0}
           /\ Entries(s) = {i \in 1 .. Len(s) : s[i] # EndOfSiblings}
           /\ \A i \in 0 .. Len(s) : Depth(s, i) \in Int
           /\ Depth(s, 0) = 0 /\ Depth(s, Len(s)) = 0
           /\ \A i \in 1 .. Len(s) - 1 : Depth(s, i) > 0
           /\ \A i \in 1 .. Len(s) :
                 Depth(s, i) = IF s[i] = EndOfSiblings THEN Depth(s, i - 1) - 1
                               ELSE IF s[i].hasChildren THEN Depth(s, i - 1) + 1
                               ELSE Depth(s, i - 1)
<1>1. /\ Len(s) \in Nat \ {0} /\ DOMAIN s = 1 .. Len(s)
      /\ Depth(s, Len(s)) = 0
      /\ \A i \in 1 .. Len(s) - 1 : Depth(s, i) > 0
  BY DEF IsUnit
<1>2. Entries(s) = {i \in 1 .. Len(s) : s[i] # EndOfSiblings}
  BY <1>1 DEF Entries
<1>3. /\ \A i \in 0 .. Len(s) : i \in Nat
      /\ \A i \in 1 .. Len(s) : i \in Nat \ {0}
  BY <1>1
<1>4. /\ \A i \in 0 .. Len(s) : Depth(s, i) \in Int
      /\ Depth(s, 0) = 0
  BY Zenon, <1>3, DepthStep
<1>5. ASSUME NEW i \in 1 .. Len(s)
      PROVE  Depth(s, i) = IF s[i] = EndOfSiblings THEN Depth(s, i - 1) - 1
                           ELSE IF s[i].hasChildren THEN Depth(s, i - 1) + 1
                           ELSE Depth(s, i - 1)
  BY Zenon, <1>3, DepthStep
<1> QED
  BY Zenon, <1>1, <1>2, <1>4, <1>5

(* The parent of what is at i is the last entry in front of it whose list   *)
(* of children has been open ever since.                                    *)
LEMMA LastOpened ==
    ASSUME NEW s, IsUnit(s),
           NEW i \in 1 .. Len(s), NEW c, Opens(s, c), c < i,
           Depth(s, c) = Depth(s, i - 1),
           \A m \in c .. i - 1 : Depth(s, m) >= Depth(s, c)
    PROVE  Parent(s, i) = c
<1> DEFINE S == {j \in Entries(s) :
                    j < i /\ s[j].hasChildren /\ Depth(s, j) = Depth(s, i - 1)}
<1>1. Parent(s, i) = Max(S)
  BY Zenon DEF Parent
<1>2. c \in S
  BY DEF Opens
<1>3. \A j \in S : j \in Entries(s) /\ j < i /\ s[j].hasChildren /\ Depth(s, j) = Depth(s, c)
  OBVIOUS
<1> HIDE DEF S
<1>4. ASSUME NEW j \in S
      PROVE  j \in Nat /\ j <= c
  <2>1. j \in 1 .. Len(s) /\ c \in 1 .. Len(s) /\ s[j] # EndOfSiblings
    BY <1>2, <1>3, UnitFacts
  <2>2. Depth(s, j) = Depth(s, j - 1) + 1 /\ Depth(s, j) = Depth(s, c)
    BY <1>3, <2>1, UnitFacts
  <2>3. j > c => Depth(s, j - 1) >= Depth(s, c)
    BY <1>3, <2>1
  <2>4. Depth(s, j - 1) \in Int
    BY <2>1, UnitFacts
  <2> QED
    BY <2>1, <2>2, <2>3, <2>4
<1>5. \A x \in S : (\A y \in S : x >= y) => x = c
  BY <1>2, <1>4
<1>6. \A y \in S : c >= y
  BY <1>2, <1>4
<1> QED
  BY <1>1, <1>2, <1>5, <1>6 DEF Max

(* A list in the order of the stream stays in order when an entry behind    *)
(* all of its own is added.                                                 *)
LEMMA Enumerated ==
    ASSUME NEW u \in Nat, NEW list \in Seq(Nat \X Nat), NEW entries,
           Enumerates(list, u, entries), NEW t \in Nat, \A e \in entries : e < t
    PROVE  /\ Append(list, <<u, t>>) \in Seq(Nat \X Nat)
           /\ Enumerates(Append(list, <<u, t>>), u, entries \cup {t})
<1> DEFINE new == Append(list, <<u, t>>)
<1>1. /\ new \in Seq(Nat \X Nat) /\ Len(new) = Len(list) + 1
      /\ new[Len(list) + 1] = <<u, t>>
      /\ \A k \in 1 .. Len(list) : new[k] = list[k]
      /\ DOMAIN list = 1 .. Len(list) /\ DOMAIN new = 1 .. Len(list) + 1
      /\ Len(list) \in Nat
  OBVIOUS
<1>2. \A k \in 1 .. Len(list) : \E e \in entries : list[k] = <<u, e>>
  BY <1>1 DEF Enumerates, ToSet
<1>3. \A e \in entries : \E k \in 1 .. Len(list) : list[k] = <<u, e>>
  BY <1>1 DEF Enumerates, ToSet
<1>4. \A k, l \in 1 .. Len(list) : k < l => list[k][2] < list[l][2]
  BY DEF Enumerates
<1> HIDE DEF new
<1>5. ToSet(new) = {<<u, j>> : j \in entries \cup {t}}
  <2>1. ASSUME NEW k \in DOMAIN new
        PROVE  \E j \in entries \cup {t} : new[k] = <<u, j>>
    <3>1. CASE k \in 1 .. Len(list)
      <4>1. PICK e \in entries : list[k] = <<u, e>>
        BY <1>2, <3>1
      <4>2. new[k] = <<u, e>> /\ e \in entries \cup {t}
        BY <1>1, <3>1, <4>1
      <4> QED
        BY Zenon, <4>2
    <3>2. CASE k = Len(list) + 1
      BY <1>1, <3>2
    <3>3. k \in 1 .. Len(list) \/ k = Len(list) + 1
      BY <1>1
    <3> QED
      BY Zenon, <3>1, <3>2, <3>3
  <2>2. ASSUME NEW j \in entries \cup {t}
        PROVE  \E k \in DOMAIN new : new[k] = <<u, j>>
    <3>1. CASE j \in entries
      <4>1. PICK k \in 1 .. Len(list) : list[k] = <<u, j>>
        BY <1>3, <3>1
      <4>2. k \in DOMAIN new /\ new[k] = list[k]
        BY <1>1
      <4> QED
        BY Zenon, <4>1, <4>2
    <3>2. CASE j = t
      <4>1. Len(list) + 1 \in DOMAIN new
        BY <1>1
      <4> QED
        BY <1>1, <3>2, <4>1
    <3> QED
      BY <2>2, <3>1, <3>2
  <2> QED
    BY Zenon, <2>1, <2>2 DEF ToSet
<1>6. ASSUME NEW k \in 1 .. Len(new), NEW l \in 1 .. Len(new), k < l
      PROVE  new[k][2] < new[l][2]
  <2>1. k \in 1 .. Len(list)
    BY <1>1, <1>6
  <2>2. CASE l \in 1 .. Len(list)
    BY <1>1, <1>4, <1>6, <2>1, <2>2
  <2>3. CASE l = Len(list) + 1
    <3>1. PICK e \in entries : list[k] = <<u, e>>
      BY <1>2, <2>1
    <3> QED
      BY <1>1, <2>1, <2>3, <3>1
  <2> QED
    BY <1>1, <2>2, <2>3
<1> QED
  BY <1>1, <1>5, <1>6 DEF Enumerates, new

LEMMA EntriesAreNumbers ==
    ASSUME NEW units, IsDebugInfo(units), NEW u \in DOMAIN units
    PROVE  u \in Nat /\ IsUnit(units[u]) /\ Entries(units[u]) \subseteq 1 .. Len(units[u])
           /\ Len(units[u]) \in Nat \ {0}
<1>1. u \in Nat /\ IsUnit(units[u])
  BY DEF IsDebugInfo
<1> QED
  BY <1>1, UnitFacts

(* The entries in front of the parser grow with index, and those of a unit  *)
(* that is over are all of its entries.                                     *)
LEMMA BeforeFacts ==
    ASSUME NEW units, IsDebugInfo(units), NEW u \in DOMAIN units
    PROVE  /\ \A i \in Entries(units[u]) :
                  Before(units, u, i + 1) = Before(units, u, i) \cup {<<u, i>>}
           /\ \A i \in Nat \ Entries(units[u]) : Before(units, u, i + 1) = Before(units, u, i)
           /\ Before(units, u + 1, 1) = Before(units, u, Len(units[u]) + 1)
<1>1. /\ \A v \in DOMAIN units : v \in Nat
      /\ Entries(units[u]) \subseteq 1 .. Len(units[u]) /\ Len(units[u]) \in Nat
      /\ \A v \in DOMAIN units : Entries(units[v]) \subseteq Nat
  <2>1. \A v \in DOMAIN units : /\ v \in Nat /\ Entries(units[v]) \subseteq 1 .. Len(units[v])
                               /\ Len(units[v]) \in Nat
    BY Zenon, EntriesAreNumbers
  <2> QED
    BY <2>1
<1>2. ASSUME NEW i \in Entries(units[u])
      PROVE  Before(units, u, i + 1) = Before(units, u, i) \cup {<<u, i>>}
  <2>1. <<u, i>> \in Nat \X Nat /\ i \in Nat
    BY <1>1
  <2>2. ASSUME NEW n \in Nat \X Nat
        PROVE  n[1] = u /\ n[2] < i + 1 <=> (n[1] = u /\ n[2] < i) \/ n = <<u, i>>
    BY <1>1, <2>1
  <2> QED
    BY <1>1, <2>1, <2>2 DEF Before
<1>3. ASSUME NEW i \in Nat \ Entries(units[u])
      PROVE  Before(units, u, i + 1) = Before(units, u, i)
  BY <1>1 DEF Before
<1>4. Before(units, u + 1, 1) = Before(units, u, Len(units[u]) + 1)
  <2>1. ASSUME NEW n \in Nat \X Nat, n[1] \in DOMAIN units, n[2] \in Entries(units[n[1]])
        PROVE  (n[1] < u + 1 \/ (n[1] = u + 1 /\ n[2] < 1)) <=>
               (n[1] < u \/ (n[1] = u /\ n[2] < Len(units[u]) + 1))
    <3>1. n[2] \in 1 .. Len(units[n[1]]) /\ n[1] \in Nat
      BY <2>1, EntriesAreNumbers
    <3>2. n[1] = u => n[2] \in 1 .. Len(units[u])
      BY <3>1
    <3> QED
      BY <1>1, <3>1, <3>2
  <2> QED
    BY <2>1 DEF Before
<1> QED
  BY <1>2, <1>3, <1>4

(* The trees of the units that are over are never touched again.            *)
LEMMA TreesAreKept ==
    ASSUME ParserInv, debugInfo' = debugInfo, NEW u \in 1 .. unit - 1,
           NEW v \in Nat, u < v, NEW i,
           DOMAIN children' = Before(debugInfo, v, i),
           \A n \in DOMAIN children : n[1] < unit => children'[n] = children[n]
    PROVE  IsStream(u)'
<1>1. /\ IsDebugInfo(debugInfo) /\ unit \in Nat
      /\ DOMAIN children = Before(debugInfo, unit, index) /\ IsStream(u) /\ u \in DOMAIN debugInfo
  BY DEF ParserInv, IsDebugInfo
<1>2. u \in Nat /\ Entries(debugInfo[u]) \subseteq Nat
  BY <1>1, EntriesAreNumbers
<1>3. \A j \in Entries(debugInfo[u]) : /\ <<u, j>> \in DOMAIN children
                                       /\ <<u, j>> \in DOMAIN children'
  BY <1>1, <1>2 DEF Before
<1>4. {n \in DOMAIN children' : n[1] = u} = {<<u, j>> : j \in Entries(debugInfo[u])}
  <2>1. ASSUME NEW n \in DOMAIN children', n[1] = u
        PROVE  \E j \in Entries(debugInfo[u]) : n = <<u, j>>
    <3>1. n \in Nat \X Nat /\ n[2] \in Entries(debugInfo[u])
      BY <2>1 DEF Before
    <3> QED
      BY <2>1, <3>1
  <2> QED
    BY <1>3, <2>1
<1>5. ASSUME NEW j \in Entries(debugInfo[u])
      PROVE  Enumerates(children'[<<u, j>>], u, Offspring(debugInfo[u], j))
  <2>1. children'[<<u, j>>] = children[<<u, j>>]
    BY <1>1, <1>2, <1>3
  <2>2. Enumerates(children[<<u, j>>], u, Offspring(debugInfo[u], j))
    BY Zenon, <1>1 DEF IsStream, EntriesOf
  <2> QED
    BY <2>1, <2>2
<1>6. /\ {n \in DOMAIN children' : n[1] = u} = {<<u, j>> : j \in Entries(debugInfo'[u])}
      /\ \A j \in Entries(debugInfo'[u]) :
            Enumerates(children'[<<u, j>>], u, Offspring(debugInfo'[u], j))
  BY Zenon, <1>4, <1>5
<1> QED
  BY Zenon, <1>6 DEF IsStream, EntriesOf

(* A call that leaves the parser in the unit.                               *)
LEMMA StayInUnit ==
    ASSUME ParserInv, debugInfo' = debugInfo, unit' = unit, index' = index + 1,
           frames' \in Seq(Nat \X Nat),
           DOMAIN children' = Before(debugInfo, unit, index + 1),
           \A n \in DOMAIN children' : children'[n] \in Seq(Nat \X Nat),
           \A n \in DOMAIN children : n[1] < unit => children'[n] = children[n],
           FramesAreOpen', ListsAreCurrent'
    PROVE  ParserInv'
<1>1. /\ IsDebugInfo(debugInfo) /\ unit \in 1 .. Len(debugInfo) + 1 /\ index \in Nat
      /\ unit \in Nat /\ index + 1 \in Nat
  BY DEF ParserInv, IsDebugInfo
<1>2. ASSUME NEW u \in 1 .. unit - 1
      PROVE  IsStream(u)'
  <2>1. u < unit
    BY <1>1
  <2> QED
    BY Zenon, <1>1, <2>1, TreesAreKept
<1> QED
  BY Zenon, <1>1, <1>2 DEF ParserInv

(* A call that ends the unit.                                               *)
LEMMA LeaveUnit ==
    ASSUME ParserInv, ~ Parsed, debugInfo' = debugInfo, NextUnit, frames' = << >>,
           DOMAIN children' = Before(debugInfo, unit, Len(Stream) + 1),
           \A n \in DOMAIN children' : children'[n] \in Seq(Nat \X Nat),
           \A n \in DOMAIN children : n[1] < unit => children'[n] = children[n],
           \A i \in Entries(Stream) :
              Enumerates(children'[<<unit, i>>], unit, Offspring(Stream, i))
    PROVE  ParserInv'
<1>1. /\ IsDebugInfo(debugInfo) /\ unit \in Nat \ {0} /\ unit \in DOMAIN debugInfo
      /\ unit' = unit + 1 /\ index' = 1 /\ unit' \in 1 .. Len(debugInfo) + 1
      /\ DOMAIN debugInfo = 1 .. Len(debugInfo) /\ Len(debugInfo) \in Nat
  BY DEF ParserInv, IsDebugInfo, Parsed, NextUnit
<1>2. DOMAIN children' = Before(debugInfo, unit', index')
  BY <1>1, BeforeFacts DEF Stream
<1>3. ASSUME NEW u \in 1 .. unit - 1
      PROVE  IsStream(u)'
  BY <1>1, <1>2, TreesAreKept
<1>4. ASSUME NEW u, u = unit
      PROVE  IsStream(u)'
  <2>1. {n \in DOMAIN children' : n[1] = u} = {<<u, j>> : j \in Entries(debugInfo[u])}
    <3>1. /\ u \in Nat /\ u \in DOMAIN debugInfo /\ Len(debugInfo[u]) \in Nat
          /\ Entries(debugInfo[u]) \subseteq 1 .. Len(debugInfo[u])
      BY <1>1, <1>4, EntriesAreNumbers
    <3>2. DOMAIN children' = Before(debugInfo, u, Len(debugInfo[u]) + 1)
      BY <1>4 DEF Stream
    <3>3. ASSUME NEW n \in DOMAIN children', n[1] = u
          PROVE  \E j \in Entries(debugInfo[u]) : n = <<u, j>>
      <4>1. n \in Nat \X Nat /\ n[2] \in Entries(debugInfo[u])
        BY <3>2, <3>3 DEF Before
      <4> QED
        BY <3>3, <4>1
    <3>4. ASSUME NEW j \in Entries(debugInfo[u])
          PROVE  <<u, j>> \in DOMAIN children'
      <4>1. <<u, j>> \in Nat \X Nat /\ j < Len(debugInfo[u]) + 1
        BY <3>1
      <4> QED
        BY <3>1, <3>2, <4>1 DEF Before
    <3> QED
      BY <3>3, <3>4
  <2>2. \A j \in Entries(debugInfo[u]) :
            Enumerates(children'[<<u, j>>], u, Offspring(debugInfo[u], j))
    BY Zenon, <1>4 DEF Stream
  <2>3. /\ {n \in DOMAIN children' : n[1] = u} = {<<u, j>> : j \in Entries(debugInfo'[u])}
        /\ \A j \in Entries(debugInfo'[u]) :
              Enumerates(children'[<<u, j>>], u, Offspring(debugInfo'[u], j))
    BY Zenon, <2>1, <2>2
  <2> QED
    BY Zenon, <2>3 DEF IsStream, EntriesOf
<1>5. \A u \in 1 .. unit' - 1 : IsStream(u)'
  <2> SUFFICES ASSUME NEW u \in 1 .. unit' - 1
               PROVE  IsStream(u)'
    OBVIOUS
  <2>1. u \in 1 .. unit - 1 \/ u = unit
    BY <1>1
  <2> QED
    BY Zenon, <1>3, <1>4, <2>1
<1>6. ~ Parsed' => FramesAreOpen' /\ ListsAreCurrent'
  <2> SUFFICES ASSUME ~ Parsed'
               PROVE  FramesAreOpen' /\ ListsAreCurrent'
    OBVIOUS
  <2> DEFINE s == debugInfo[unit']
  <2>1. unit' \in DOMAIN debugInfo
    BY <1>1 DEF Parsed
  <2>2. IsUnit(s)
    BY <1>1, <2>1, EntriesAreNumbers
  <2>3. Len(s) \in Nat \ {0} /\ Depth(s, 0) = 0 /\ Entries(s) \subseteq 1 .. Len(s)
    BY <2>2, UnitFacts
  <2>4. Stream' = s
    BY DEF Stream
  <2> HIDE DEF s
  <2>5. Len(frames') = 0
    OBVIOUS
  <2>6. FramesAreOpen'
    BY <1>1, <2>3, <2>4, <2>5 DEF FramesAreOpen, AreOpen
  <2>7. ListsAreCurrent'
    BY <1>1, <2>3, <2>4 DEF ListsAreCurrent
  <2> QED
    BY <2>6, <2>7
<1>7. frames' \in Seq(Nat \X Nat) /\ index' \in Nat
  BY <1>1
<1> QED
  BY Zenon, <1>1, <1>2, <1>5, <1>6, <1>7 DEF ParserInv

-----------------------------------------------------------------------------
(* The parser while a unit is parsed.                                       *)
LEMMA ParserFacts ==
    ASSUME ParserInv, ~ Parsed
    PROVE  /\ IsDebugInfo(debugInfo) /\ unit \in DOMAIN debugInfo /\ unit \in Nat
           /\ IsUnit(Stream) /\ index \in 1 .. Len(Stream) /\ Len(Stream) \in Nat
           /\ Entry(<<unit, index>>) = Stream[index]
           /\ index \in Entries(Stream) <=> Stream[index] # EndOfSiblings
           /\ Entries(Stream) \subseteq 1 .. Len(Stream)
           /\ Len(frames) \in Nat /\ DOMAIN frames = 1 .. Len(frames)
           /\ Depth(Stream, index - 1) = Len(frames)
           /\ Len(frames) = 0 <=> index = 1
<1>1. IsDebugInfo(debugInfo) /\ unit \in DOMAIN debugInfo /\ unit \in Nat
  BY DEF ParserInv, IsDebugInfo, Parsed
<1>2. IsUnit(Stream)
  BY <1>1, EntriesAreNumbers DEF Stream
<1>3. index \in 1 .. Len(Stream) /\ Depth(Stream, index - 1) = Len(frames)
  BY DEF ParserInv, FramesAreOpen, AreOpen
<1>4. Len(frames) \in Nat /\ DOMAIN frames = 1 .. Len(frames)
  BY DEF ParserInv
<1>5. Entry(<<unit, index>>) = Stream[index]
  BY DEF Entry, Stream
<1>6. Entries(Stream) = {i \in 1 .. Len(Stream) : Stream[i] # EndOfSiblings}
  BY <1>2, UnitFacts
<1>7. Len(frames) = 0 <=> index = 1
  <2>1. index = 1 => Depth(Stream, index - 1) = 0
    BY <1>2, UnitFacts
  <2>2. index # 1 => index - 1 \in 1 .. Len(Stream) - 1
    BY <1>2, <1>3, UnitFacts
  <2>3. index # 1 => Depth(Stream, index - 1) > 0
    BY <1>2, <2>2, UnitFacts
  <2> QED
    BY <1>3, <1>4, <2>1, <2>3
<1>8. Len(Stream) \in Nat
  BY <1>2, UnitFacts
<1> QED
  BY <1>1, <1>2, <1>3, <1>4, <1>5, <1>6, <1>7, <1>8

(* The innermost frame is the parent of what is at index.                   *)
LEMMA TopFrame ==
    ASSUME ParserInv, ~ Parsed, Len(frames) # 0, NEW c, c = frames[Len(frames)][2]
    PROVE  /\ Opens(Stream, c) /\ c \in Entries(Stream) /\ c < index
           /\ Last(frames) = <<unit, c>> /\ <<unit, c>> \in ToSet(frames)
           /\ Depth(Stream, c) = Depth(Stream, index - 1)
           /\ Parent(Stream, index) = c
           /\ <<unit, c>> \in DOMAIN children
<1>1. /\ IsUnit(Stream) /\ index \in 1 .. Len(Stream) /\ Len(frames) \in Nat \ {0}
      /\ unit \in Nat /\ unit \in DOMAIN debugInfo /\ Entries(Stream) \subseteq 1 .. Len(Stream)
      /\ Depth(Stream, index - 1) = Len(frames) /\ DOMAIN frames = 1 .. Len(frames)
  BY ParserFacts
<1>2. Len(frames) \in 1 .. Len(frames)
  BY <1>1
<1>3. /\ frames[Len(frames)] = <<unit, c>> /\ Opens(Stream, c) /\ c < index
      /\ Depth(Stream, c) = Len(frames)
      /\ \A m \in c .. index - 1 : Depth(Stream, m) >= Len(frames)
  BY Zenon, <1>2 DEF ParserInv, FramesAreOpen, AreOpen
<1>4. Last(frames) = <<unit, c>>
  BY Zenon, <1>3 DEF Last
<1>5. <<unit, c>> \in ToSet(frames)
  BY <1>1, <1>2, <1>3 DEF ToSet
<1>6. Parent(Stream, index) = c
  BY <1>1, <1>3, LastOpened
<1>7. c \in Entries(Stream)
  BY <1>3 DEF Opens
<1>8. <<unit, c>> \in DOMAIN children
  <2>1. DOMAIN children = Before(debugInfo, unit, index) /\ c \in Nat
    BY <1>1, <1>7 DEF ParserInv
  <2>2. c \in Entries(debugInfo[unit])
    BY <1>7 DEF Stream
  <2> QED
    BY <1>1, <1>3, <2>1, <2>2 DEF Before
<1> QED
  BY <1>1, <1>3, <1>4, <1>5, <1>6, <1>7, <1>8

(* Opening an entry: it is in a frame of its own, its list is empty.        *)
LEMMA OpenStep ==
    ASSUME ParserInv, OpenEntry
    PROVE  ParserInv'
<1> DEFINE s == Stream
           node == <<unit, index>>
<1>1. /\ ~ Parsed /\ Stream[index] # EndOfSiblings /\ Stream[index].hasChildren
      /\ index < Len(Stream)
      /\ children' = Construct(children, node)
      /\ frames' = Append(frames, node)
      /\ index' = index + 1 /\ debugInfo' = debugInfo /\ unit' = unit
  BY ParserFacts DEF OpenEntry, Stream
<1>2. /\ IsDebugInfo(debugInfo) /\ unit \in DOMAIN debugInfo /\ unit \in Nat
      /\ IsUnit(s) /\ index \in 1 .. Len(s) /\ Len(s) \in Nat
      /\ index \in Entries(s) /\ Entries(s) \subseteq 1 .. Len(s)
      /\ Len(frames) \in Nat /\ DOMAIN frames = 1 .. Len(frames)
      /\ Depth(s, index - 1) = Len(frames)
      /\ Len(frames) = 0 <=> index = 1
  BY <1>1, ParserFacts
<1>3. /\ frames \in Seq(Nat \X Nat) /\ DOMAIN children = Before(debugInfo, unit, index)
      /\ \A n \in DOMAIN children : children[n] \in Seq(Nat \X Nat)
      /\ FramesAreOpen /\ ListsAreCurrent
  BY <1>1 DEF ParserInv
<1>4. Stream' = s
  BY <1>1 DEF Stream
<1>5. node \in Nat \X Nat /\ node \notin DOMAIN children
  BY <1>2, <1>3 DEF Before
<1>6. /\ frames' \in Seq(Nat \X Nat) /\ Len(frames') = Len(frames) + 1
      /\ DOMAIN frames' = 1 .. Len(frames) + 1 /\ frames'[Len(frames) + 1] = node
      /\ \A k \in 1 .. Len(frames) : frames'[k] = frames[k]
  BY <1>1, <1>2, <1>3, <1>5
<1>7. DOMAIN children' = DOMAIN children \cup {node}
  BY Zenon, <1>1 DEF Construct
<1>8. /\ \A n \in DOMAIN children : children'[n] = children[n]
      /\ children'[node] = << >>
  BY <1>1, <1>5 DEF Construct
<1>9. DOMAIN children' = Before(debugInfo, unit, index + 1)
  BY <1>2, <1>3, <1>7, BeforeFacts DEF Stream
<1>10. \A n \in DOMAIN children' : children'[n] \in Seq(Nat \X Nat)
  <2>1. << >> \in Seq(Nat \X Nat)
    OBVIOUS
  <2> QED
    BY Zenon, <1>3, <1>7, <1>8, <2>1
<1>11. FramesAreOpen'
  <2>1. Depth(s, index) = Len(frames) + 1
    BY <1>1, <1>2, UnitFacts
  <2>2. ASSUME NEW k \in 1 .. Len(frames) + 1
        PROVE  /\ frames'[k] = <<unit, frames'[k][2]>>
               /\ Opens(s, frames'[k][2]) /\ frames'[k][2] < index + 1
               /\ Depth(s, frames'[k][2]) = k
               /\ \A m \in frames'[k][2] .. (index + 1) - 1 : Depth(s, m) >= k
    <3>1. CASE k \in 1 .. Len(frames)
      <4>1. /\ frames[k] = <<unit, frames[k][2]>>
            /\ Opens(s, frames[k][2]) /\ frames[k][2] < index
            /\ Depth(s, frames[k][2]) = k
            /\ \A m \in frames[k][2] .. index - 1 : Depth(s, m) >= k
        BY Zenon, <1>3, <3>1 DEF FramesAreOpen, AreOpen
      <4>2. frames'[k] = frames[k] /\ frames[k][2] \in 1 .. Len(s)
        BY <1>2, <1>6, <3>1, <4>1 DEF Opens
      <4>3. Depth(s, index) >= k
        BY <1>2, <2>1, <3>1
      <4> HIDE DEF s
      <4> QED
        BY <1>2, <4>1, <4>2, <4>3
    <3>2. CASE k = Len(frames) + 1
      <4>1. frames'[k] = <<unit, index>> /\ frames'[k][2] = index
        BY <1>6, <3>2
      <4>2. Opens(s, index)
        BY <1>1, <1>2 DEF Opens
      <4> HIDE DEF s
      <4> QED
        BY <1>2, <2>1, <3>2, <4>1, <4>2
    <3> QED
      BY <1>2, <3>1, <3>2
  <2> HIDE DEF s
  <2>3. index + 1 \in 1 .. Len(s) /\ Depth(s, (index + 1) - 1) = Len(frames')
    BY <1>1, <1>2, <1>6, <2>1 DEF s
  <2>4. AreOpen(frames', unit, s, index + 1)
    <3> DEFINE calls == frames'
    <3>1. Len(calls) = Len(frames) + 1
      BY <1>6
    <3> HIDE DEF calls
    <3>2. \A k \in 1 .. Len(calls) :
             /\ calls[k] = <<unit, calls[k][2]>>
             /\ Opens(s, calls[k][2]) /\ calls[k][2] < index + 1
             /\ Depth(s, calls[k][2]) = k
             /\ \A m \in calls[k][2] .. (index + 1) - 1 : Depth(s, m) >= k
      BY Zenon, <2>2, <3>1 DEF calls
    <3>3. index + 1 \in 1 .. Len(s) /\ Depth(s, (index + 1) - 1) = Len(calls)
      BY Zenon, <2>3 DEF calls
    <3>4. AreOpen(calls, unit, s, index + 1)
      BY Zenon, <3>2, <3>3 DEF AreOpen
    <3> QED
      BY Zenon, <3>4 DEF calls
  <2> QED
    BY Zenon, <1>1, <1>4, <2>4 DEF FramesAreOpen
<1>12. ListsAreCurrent'
  <2>1. Over' = Over
    <3>1. ToSet(frames') = ToSet(frames) \cup {node}
      <4>1. ASSUME NEW k \in DOMAIN frames'
            PROVE  frames'[k] = node \/ \E l \in DOMAIN frames : frames'[k] = frames[l]
        <5>1. k \in DOMAIN frames \/ k = Len(frames) + 1
          BY <1>2, <1>6
        <5> QED
          BY Zenon, <1>2, <1>6, <5>1
      <4>2. \A l \in DOMAIN frames : l \in DOMAIN frames' /\ frames'[l] = frames[l]
        BY <1>2, <1>6
      <4>3. Len(frames) + 1 \in DOMAIN frames'
        BY <1>2, <1>6
      <4> QED
        BY Zenon, <1>6, <4>1, <4>2, <4>3 DEF ToSet
    <3>2. Over' = {j \in Entries(s) : j < index + 1 /\ <<unit, j>> \notin ToSet(frames')}
      BY Zenon, <1>1, <1>4 DEF Over
    <3>3. Over = {j \in Entries(s) : j < index /\ <<unit, j>> \notin ToSet(frames)}
      BY Zenon DEF Over
    <3> HIDE DEF s
    <3> QED
      BY <1>2, <3>1, <3>2, <3>3
  <2>2. index # 1 => /\ Opens(s, Parent(s, index)) /\ Parent(s, index) < index
                     /\ Depth(s, Parent(s, index)) = Depth(s, index - 1)
    BY <1>1, <1>2, TopFrame
  <2>3. ASSUME NEW i \in Entries(s), i < index + 1
        PROVE  /\ i # 1 => /\ Opens(s, Parent(s, i)) /\ Parent(s, i) < i
                           /\ Depth(s, Parent(s, i)) = Depth(s, i - 1)
               /\ Enumerates(children'[<<unit, i>>], unit, Offspring(s, i) \cap Over)
    <3>1. CASE i < index
      <4>1. <<unit, i>> \in DOMAIN children
        <5>1. i \in Nat /\ i \in Entries(debugInfo[unit])
          BY <1>2 DEF Stream
        <5> QED
          BY <1>2, <1>3, <3>1, <5>1 DEF Before
      <4>2. children'[<<unit, i>>] = children[<<unit, i>>]
        BY <1>8, <4>1
      <4> QED
        BY Zenon, <1>3, <3>1, <4>2 DEF ListsAreCurrent
    <3>2. CASE i = index
      <4>1. \A j \in Offspring(s, index) \cap Over : FALSE
        <5> SUFFICES ASSUME NEW j \in Offspring(s, index) \cap Over
                     PROVE  FALSE
          OBVIOUS
        <5>1. j \in Entries(s) /\ j # 1 /\ Parent(s, j) = index
          BY Zenon DEF Offspring
        <5>2. j < index
          BY Zenon DEF Over
        <5>3. Parent(s, j) < j
          BY Zenon, <1>3, <5>1, <5>2 DEF ListsAreCurrent
        <5> HIDE DEF s
        <5> QED
          BY <1>2, <5>1, <5>2, <5>3
      <4>2. Enumerates(<< >>, unit, Offspring(s, index) \cap Over)
        BY <4>1 DEF Enumerates, ToSet
      <4> QED
        BY Zenon, <1>8, <2>2, <3>2, <4>2
    <3> QED
      BY <1>2, <2>3, <3>1, <3>2
  <2> QED
    BY Zenon, <1>1, <1>4, <2>1, <2>3 DEF ListsAreCurrent
<1> QED
  BY Zenon, <1>1, <1>6, <1>8, <1>9, <1>10, <1>11, <1>12, StayInUnit

(* An entry t that is over goes back to its caller, entry c.                *)
LEMMA GoneBack ==
    ASSUME ParserInv, ~ Parsed, debugInfo' = debugInfo, unit' = unit, index' = index + 1,
           NEW t \in Entries(Stream), NEW c \in Entries(Stream),
           t # 1, t <= index, c < t, Parent(Stream, t) = c,
           Over' = Over \cup {t},
           \A e \in Offspring(Stream, c) \cap Over : e < t,
           children'[<<unit, c>>] = Append(children[<<unit, c>>], <<unit, t>>),
           \A i \in Entries(Stream) :
              i < index /\ i # c => children'[<<unit, i>>] = children[<<unit, i>>],
           index \in Entries(Stream) =>
              /\ t = index /\ children'[<<unit, index>>] = << >>
              /\ Opens(Stream, c) /\ Depth(Stream, c) = Depth(Stream, index - 1)
    PROVE  ListsAreCurrent'
<1> DEFINE s == Stream
<1>1. /\ IsDebugInfo(debugInfo) /\ unit \in DOMAIN debugInfo /\ unit \in Nat
      /\ index \in Nat \ {0} /\ Entries(s) \subseteq Nat \ {0}
      /\ DOMAIN children = Before(debugInfo, unit, index)
      /\ \A n \in DOMAIN children : children[n] \in Seq(Nat \X Nat)
      /\ ListsAreCurrent
  BY ParserFacts DEF ParserInv
<1>2. Stream' = s
  BY DEF Stream
<1>3. /\ \A j \in Offspring(s, c) : j \in Entries(s) /\ j # 1 /\ Parent(s, j) = c
      /\ t \in Offspring(s, c)
      /\ \A i : t \in Offspring(s, i) => i = c
      /\ Over \subseteq {j \in Entries(s) : j < index}
  BY Zenon DEF Offspring, Over
<1>4. \A i \in Entries(s) : i < index => <<unit, i>> \in DOMAIN children
  <2> SUFFICES ASSUME NEW i \in Entries(s), i < index
               PROVE  <<unit, i>> \in DOMAIN children
    OBVIOUS
  <2>1. i \in Nat /\ i \in Entries(debugInfo[unit])
    BY <1>1 DEF Stream
  <2> QED
    BY <1>1, <2>1 DEF Before
<1>5. ASSUME NEW i \in Entries(s), i < index
      PROVE  /\ i # 1 => /\ Opens(s, Parent(s, i)) /\ Parent(s, i) < i
                         /\ Depth(s, Parent(s, i)) = Depth(s, i - 1)
             /\ Enumerates(children[<<unit, i>>], unit, Offspring(s, i) \cap Over)
  BY Zenon, <1>1, <1>5 DEF ListsAreCurrent
<1>6. ASSUME NEW i \in Entries(s), i < index + 1
      PROVE  /\ i # 1 => /\ Opens(s, Parent(s, i)) /\ Parent(s, i) < i
                         /\ Depth(s, Parent(s, i)) = Depth(s, i - 1)
             /\ Enumerates(children'[<<unit, i>>], unit, Offspring(s, i) \cap (Over \cup {t}))
  <2>1. CASE i = index
    <3>1. ASSUME NEW j \in Offspring(s, index) \cap (Over \cup {t})
          PROVE  FALSE
      <4>1. j \in Entries(s) /\ j # 1 /\ Parent(s, j) = index
        BY Zenon DEF Offspring
      <4>2. j # t
        BY <1>1, <4>1, <2>1
      <4>3. j \in Over /\ j \in Nat /\ j < index
        BY <1>1, <1>3, <3>1, <4>1, <4>2
      <4>4. Parent(s, j) < j
        BY Zenon, <1>5, <4>1, <4>3
      <4> QED
        BY <1>1, <4>1, <4>3, <4>4
    <3>2. Enumerates(<< >>, unit, Offspring(s, index) \cap (Over \cup {t}))
      BY <3>1 DEF Enumerates, ToSet
    <3> QED
      BY Zenon, <2>1, <3>2
  <2>2. CASE i < index /\ i = c
    <3>1. children[<<unit, c>>] \in Seq(Nat \X Nat)
      BY Zenon, <1>1, <1>4, <2>2
    <3>2. Enumerates(children[<<unit, c>>], unit, Offspring(s, c) \cap Over)
      BY Zenon, <1>5, <2>2
    <3>3. Enumerates(Append(children[<<unit, c>>], <<unit, t>>), unit,
                     (Offspring(s, c) \cap Over) \cup {t})
      <4>1. t \in Nat
        BY <1>1
      <4> QED
        BY Zenon, <1>1, <3>1, <3>2, <4>1, Enumerated
    <3>4. (Offspring(s, c) \cap Over) \cup {t} = Offspring(s, c) \cap (Over \cup {t})
      BY Zenon, <1>3
    <3> QED
      BY Zenon, <1>5, <2>2, <3>3, <3>4
  <2>3. CASE i < index /\ i # c
    <3>1. Offspring(s, i) \cap (Over \cup {t}) = Offspring(s, i) \cap Over
      BY Zenon, <1>3, <2>3
    <3> QED
      BY Zenon, <1>5, <2>3, <3>1
  <2>4. i = index \/ i < index
    BY <1>1, <1>6
  <2> QED
    BY Zenon, <2>1, <2>2, <2>3, <2>4
<1> QED
  BY Zenon, <1>2, <1>6 DEF ListsAreCurrent

(* An entry without children: it goes back at once.                         *)
LEMMA LeafStep ==
    ASSUME ParserInv, LeafEntry
    PROVE  ParserInv'
<1> DEFINE s == Stream
           node == <<unit, index>>
           known == Construct(children, node)
           c == frames[Len(frames)][2]
<1>1. /\ ~ Parsed /\ Stream[index] # EndOfSiblings /\ ~ Stream[index].hasChildren
      /\ frames' = frames /\ debugInfo' = debugInfo
      /\ frames = << >> => children' = known /\ NextUnit
      /\ frames # << >> => /\ children' = Attach(known, Last(frames), node)
                           /\ index' = index + 1 /\ unit' = unit
  BY ParserFacts DEF LeafEntry, Stream
<1>2. /\ IsDebugInfo(debugInfo) /\ unit \in DOMAIN debugInfo /\ unit \in Nat
      /\ IsUnit(s) /\ index \in 1 .. Len(s) /\ Len(s) \in Nat
      /\ index \in Entries(s) /\ Entries(s) \subseteq 1 .. Len(s)
      /\ Len(frames) \in Nat /\ DOMAIN frames = 1 .. Len(frames)
      /\ Depth(s, index - 1) = Len(frames)
      /\ Len(frames) = 0 <=> index = 1
  BY <1>1, ParserFacts
<1>3. /\ frames \in Seq(Nat \X Nat) /\ DOMAIN children = Before(debugInfo, unit, index)
      /\ \A n \in DOMAIN children : children[n] \in Seq(Nat \X Nat)
      /\ FramesAreOpen /\ ListsAreCurrent
  BY <1>1 DEF ParserInv
<1>4. node \in Nat \X Nat /\ node \notin DOMAIN children
  BY <1>2, <1>3 DEF Before
<1>5. /\ DOMAIN known = DOMAIN children \cup {node}
      /\ \A n \in DOMAIN children : known[n] = children[n]
      /\ known[node] = << >>
  BY <1>4 DEF Construct
<1> HIDE DEF known
<1>6. DOMAIN known = Before(debugInfo, unit, index + 1)
  BY <1>2, <1>3, <1>5, BeforeFacts DEF Stream
<1>7. \A n \in DOMAIN known : known[n] \in Seq(Nat \X Nat)
  <2>1. << >> \in Seq(Nat \X Nat)
    OBVIOUS
  <2> QED
    BY Zenon, <1>3, <1>5, <2>1
<1>8. Depth(s, index) = Len(frames) /\ (index < Len(s) <=> Len(frames) # 0)
  <2>1. Depth(s, index) = Len(frames)
    BY <1>1, <1>2, UnitFacts
  <2>2. index < Len(s) => Depth(s, index) > 0
    BY <1>2, UnitFacts
  <2>3. index = Len(s) => Depth(s, index) = 0
    BY <1>2, UnitFacts
  <2> QED
    BY <1>2, <2>1, <2>2, <2>3
<1>9. CASE frames = << >>
  <2>0. Len(frames) = 0
    BY <1>9
  <2>1. index = 1 /\ Len(s) = 1
    <3>1. index = 1 /\ ~ (index < Len(s))
      BY Zenon, <1>2, <1>8, <2>0
    <3>2. index \in 1 .. Len(s) /\ Len(s) \in Nat
      BY Zenon, <1>2
    <3>3. \A n \in Nat : \A i \in 1 .. n : ~ (i < n) => n = i
      OBVIOUS
    <3> QED
      BY Zenon, <3>1, <3>2, <3>3
  <2>2. DOMAIN children' = Before(debugInfo, unit, Len(Stream) + 1)
    BY <1>1, <1>6, <1>9, <2>1
  <2>3. ASSUME NEW i \in Entries(s)
        PROVE  Enumerates(children'[<<unit, i>>], unit, Offspring(s, i))
    <3>1. i = 1 /\ Entries(s) \ {1} = {}
      BY <1>2, <2>1
    <3>2. Offspring(s, i) = {}
      BY Zenon, <3>1 DEF Offspring
    <3>3. Enumerates(<< >>, unit, {})
      BY DEF Enumerates, ToSet
    <3>4. children'[<<unit, i>>] = << >>
      BY <1>1, <1>5, <1>9, <2>1, <3>1
    <3> QED
      BY Zenon, <3>2, <3>3, <3>4
  <2> QED
    BY Zenon, <1>1, <1>5, <1>7, <1>9, <2>2, <2>3, LeaveUnit
<1>10. CASE frames # << >>
  <2>1. Len(frames) # 0 /\ index + 1 \in 1 .. Len(s)
    BY <1>2, <1>3, <1>8, <1>10
  <2>2. /\ Opens(s, c) /\ c \in Entries(s) /\ c < index /\ Last(frames) = <<unit, c>>
        /\ Depth(s, c) = Depth(s, index - 1) /\ Parent(s, index) = c
        /\ <<unit, c>> \in DOMAIN children
    BY <1>1, <2>1, TopFrame
  <2> HIDE DEF s, c
  <2>3. children' = [known EXCEPT ![<<unit, c>>] = Append(@, node)]
    BY Zenon, <1>1, <1>10, <2>2 DEF Attach
  <2>4. /\ DOMAIN children' = DOMAIN known
        /\ children'[<<unit, c>>] = Append(children[<<unit, c>>], node)
        /\ children'[node] = << >>
        /\ \A n \in DOMAIN known : n # <<unit, c>> => children'[n] = known[n]
    BY <1>4, <1>5, <2>2, <2>3
  <2>5. \A n \in DOMAIN children' : children'[n] \in Seq(Nat \X Nat)
    <3>1. Append(children[<<unit, c>>], node) \in Seq(Nat \X Nat)
      BY <1>3, <1>4, <2>2
    <3> QED
      BY Zenon, <1>7, <2>4, <3>1
  <2>6. \A n \in DOMAIN children : n[1] < unit => children'[n] = children[n]
    BY <1>2, <1>5, <2>4
  <2>7. FramesAreOpen'
    <3>1. ASSUME NEW k \in 1 .. Len(frames)
          PROVE  /\ frames[k] = <<unit, frames[k][2]>>
                 /\ Opens(s, frames[k][2]) /\ frames[k][2] < index + 1
                 /\ Depth(s, frames[k][2]) = k
                 /\ \A m \in frames[k][2] .. (index + 1) - 1 : Depth(s, m) >= k
      <4>1. /\ frames[k] = <<unit, frames[k][2]>>
            /\ Opens(s, frames[k][2]) /\ frames[k][2] < index
            /\ Depth(s, frames[k][2]) = k
            /\ \A m \in frames[k][2] .. index - 1 : Depth(s, m) >= k
        BY Zenon, <1>3 DEF FramesAreOpen, AreOpen, s
      <4>2. frames[k][2] \in 1 .. Len(s)
        BY <1>2, <4>1 DEF Opens
      <4> QED
        BY <1>2, <1>8, <4>1, <4>2
    <3>2. Depth(s, (index + 1) - 1) = Len(frames)
      BY <1>2, <1>8
    <3>3. AreOpen(frames, unit, s, index + 1)
      BY Zenon, <2>1, <3>1, <3>2 DEF AreOpen
    <3>4. Stream' = s
      BY <1>1, <1>10 DEF Stream, s
    <3> QED
      BY Zenon, <1>1, <1>10, <3>3, <3>4 DEF FramesAreOpen
  <2>8. ListsAreCurrent'
    <3>1. Over' = Over \cup {index}
      <4>1. Over' = {j \in Entries(s) : j < index + 1 /\ <<unit, j>> \notin ToSet(frames)}
        BY <1>1, <1>10 DEF Over, Stream, s
      <4>2. Over = {j \in Entries(s) : j < index /\ <<unit, j>> \notin ToSet(frames)}
        BY Zenon DEF Over, s
      <4>3. <<unit, index>> \notin ToSet(frames)
        <5> SUFFICES ASSUME NEW k \in 1 .. Len(frames), frames[k] = <<unit, index>>
                     PROVE  FALSE
          BY <1>2 DEF ToSet
        <5>1. frames[k][2] < index
          BY Zenon, <1>3 DEF FramesAreOpen, AreOpen
        <5> QED
          BY <1>2, <5>1
      <4> QED
        BY <1>2, <4>1, <4>2, <4>3
    <3>2. \A e \in Offspring(s, c) \cap Over : e < index
      BY Zenon DEF Over
    <3>3. ASSUME NEW i \in Entries(s), i < index, i # c
          PROVE  children'[<<unit, i>>] = children[<<unit, i>>]
      <4>1. i \in Nat /\ i \in Entries(debugInfo[unit])
        BY <1>2 DEF s, Stream
      <4>2. <<unit, i>> \in DOMAIN children
        BY <1>2, <1>3, <3>3, <4>1 DEF Before
      <4>3. <<unit, i>> # <<unit, c>>
        BY <3>3
      <4> QED
        BY Zenon, <1>5, <2>4, <4>2, <4>3
    <3>4. index # 1 /\ index <= index
      BY <1>2, <2>1
    <3> QED
      BY Zenon, <1>1, <1>2, <1>10, <2>2, <2>4, <3>1, <3>2, <3>3, <3>4, GoneBack DEF s
  <2> QED
    BY Zenon, <1>1, <1>3, <1>6, <1>10, <2>4, <2>5, <2>6, <2>7, <2>8, StayInUnit
<1> QED
  BY <1>9, <1>10

LEMMA FrontFacts ==
    ASSUME NEW S, NEW q \in Seq(S), Len(q) # 0
    PROVE  /\ Front(q) \in Seq(S) /\ Len(Front(q)) = Len(q) - 1
           /\ DOMAIN Front(q) = 1 .. Len(q) - 1
           /\ \A k \in 1 .. Len(q) - 1 : k \in 1 .. Len(q) /\ Front(q)[k] = q[k]
<1>1. Len(q) \in Nat /\ Len(q) - 1 \in Nat /\ \A k \in 1 .. Len(q) : q[k] \in S
  OBVIOUS
<1>2. Front(q) = [k \in 1 .. Len(q) - 1 |-> q[k]]
  BY <1>1 DEF Front
<1>3. \A k \in 1 .. Len(q) - 1 : k \in 1 .. Len(q)
  BY <1>1
<1> QED
  BY <1>1, <1>2, <1>3

(* A 0: the innermost frame is left, and its entry goes back.               *)
LEMMA EndStep ==
    ASSUME ParserInv, EndChildren
    PROVE  ParserInv'
<1> DEFINE s == Stream
           n == Len(frames)
           t == frames[n][2]
           c == frames[n - 1][2]
<1>1. /\ ~ Parsed /\ Stream[index] = EndOfSiblings
      /\ frames' = Front(frames) /\ debugInfo' = debugInfo
      /\ n = 1 => children' = children /\ NextUnit
      /\ n # 1 => /\ children' = Attach(children, Last(Front(frames)), Last(frames))
                  /\ index' = index + 1 /\ unit' = unit
  BY ParserFacts DEF EndChildren, Stream
<1>2. /\ IsDebugInfo(debugInfo) /\ unit \in DOMAIN debugInfo /\ unit \in Nat
      /\ IsUnit(s) /\ index \in 1 .. Len(s) /\ Len(s) \in Nat
      /\ index \notin Entries(s) /\ Entries(s) \subseteq 1 .. Len(s)
      /\ n \in Nat /\ DOMAIN frames = 1 .. n
      /\ Depth(s, index - 1) = n
  BY <1>1, ParserFacts
<1>3. /\ frames \in Seq(Nat \X Nat) /\ DOMAIN children = Before(debugInfo, unit, index)
      /\ \A e \in DOMAIN children : children[e] \in Seq(Nat \X Nat)
      /\ FramesAreOpen /\ ListsAreCurrent
  BY <1>1 DEF ParserInv
<1>4. /\ Depth(s, index) = n - 1
      /\ index < Len(s) => n - 1 > 0
      /\ index = Len(s) => n = 1
  <2>1. Depth(s, index) = n - 1
    BY <1>1, <1>2, UnitFacts
  <2>2. index < Len(s) => Depth(s, index) > 0
    BY <1>2, UnitFacts
  <2>3. index = Len(s) => Depth(s, index) = 0
    BY <1>2, UnitFacts
  <2> QED
    BY <1>2, <2>1, <2>2, <2>3
<1>5. n # 0
  <2>1. index < Len(s) \/ index = Len(s)
    BY <1>2
  <2> QED
    BY <1>2, <1>4, <2>1
<1>6. /\ Opens(s, t) /\ t \in Entries(s) /\ t < index /\ Last(frames) = <<unit, t>>
      /\ frames[n] = <<unit, t>> /\ Depth(s, t) = n
  <2>1. Opens(s, t) /\ t \in Entries(s) /\ t < index /\ Last(frames) = <<unit, t>>
        /\ Depth(s, t) = Depth(s, index - 1)
    BY <1>1, <1>5, TopFrame
  <2>2. frames[n] = <<unit, t>>
    BY Zenon, <2>1 DEF Last
  <2> QED
    BY Zenon, <1>2, <2>1, <2>2
<1>7. Depth(s, t - 1) = n - 1
  <2>1. t \in 1 .. Len(s) /\ s[t] # EndOfSiblings /\ s[t].hasChildren
    BY <1>2, <1>6, UnitFacts DEF Opens
  <2>2. Depth(s, t) = Depth(s, t - 1) + 1 /\ Depth(s, t - 1) \in Int
    BY <1>2, <2>1, UnitFacts
  <2> QED
    BY <1>2, <1>6, <2>2
<1>8. /\ frames' \in Seq(Nat \X Nat) /\ Len(frames') = n - 1 /\ DOMAIN frames' = 1 .. n - 1
      /\ \A k \in 1 .. n - 1 : k \in 1 .. n /\ frames'[k] = frames[k]
  <2>1. /\ Front(frames) \in Seq(Nat \X Nat) /\ Len(Front(frames)) = n - 1
        /\ DOMAIN Front(frames) = 1 .. n - 1
        /\ \A k \in 1 .. n - 1 : k \in 1 .. n /\ Front(frames)[k] = frames[k]
    BY Zenon, <1>3, <1>5, FrontFacts
  <2> QED
    BY Zenon, <1>1, <2>1
<1>9. DOMAIN children = Before(debugInfo, unit, index + 1)
  <2>1. index \in Nat \ Entries(debugInfo[unit])
    BY <1>2 DEF Stream
  <2> QED
    BY Zenon, <1>2, <1>3, <2>1, BeforeFacts
<1>10. \A k \in 1 .. n : /\ frames[k] = <<unit, frames[k][2]>>
                         /\ Opens(s, frames[k][2]) /\ frames[k][2] < index
                         /\ Depth(s, frames[k][2]) = k
                         /\ \A m \in frames[k][2] .. index - 1 : Depth(s, m) >= k
  BY Zenon, <1>3 DEF FramesAreOpen, AreOpen
<1> HIDE DEF t, c
<1>11. CASE n = 1
  <2>1. index = Len(s)
    BY <1>2, <1>4, <1>11
  <2>2. t = 1
    <3>1. t \in 1 .. Len(s)
      BY <1>2, <1>6
    <3>2. t - 1 \notin 1 .. Len(s) - 1
      BY <1>2, <1>7, <1>11, UnitFacts
    <3> QED
      BY <1>2, <3>1, <3>2
  <2>3. ASSUME NEW i \in Entries(s)
        PROVE  Enumerates(children'[<<unit, i>>], unit, Offspring(s, i))
    <3>1. i < index
      BY <1>2, <2>1
    <3>2. Enumerates(children[<<unit, i>>], unit, Offspring(s, i) \cap Over)
      BY Zenon, <1>3, <3>1 DEF ListsAreCurrent
    <3>3. ASSUME NEW j \in Offspring(s, i)
          PROVE  j \in Over
      <4>1. j \in Entries(s) /\ j # 1
        BY Zenon DEF Offspring
      <4>2. j < index
        BY <1>2, <2>1, <4>1
      <4>3. ToSet(frames) = {<<unit, 1>>}
        BY <1>2, <1>6, <1>11, <2>2 DEF ToSet
      <4>4. <<unit, j>> \notin ToSet(frames)
        BY <4>1, <4>3
      <4> QED
        BY Zenon, <4>1, <4>2, <4>4 DEF Over
    <3>4. Offspring(s, i) \cap Over = Offspring(s, i)
      BY Zenon, <3>3
    <3> QED
      BY Zenon, <1>1, <1>11, <3>2, <3>4
  <2>4. frames' = << >>
    BY <1>8, <1>11
  <2>5. DOMAIN children' = Before(debugInfo, unit, Len(Stream) + 1)
    BY Zenon, <1>1, <1>9, <1>11, <2>1
  <2>6. \A e \in DOMAIN children : children'[e] = children[e]
    BY Zenon, <1>1, <1>11
  <2>7. \A e \in DOMAIN children' : children'[e] \in Seq(Nat \X Nat)
    BY Zenon, <1>1, <1>3, <1>11
  <2> QED
    BY Zenon, <1>1, <1>11, <2>3, <2>4, <2>5, <2>6, <2>7, LeaveUnit
<1>12. CASE n # 1
  <2>1. n \in 1 .. n /\ n - 1 \in 1 .. n /\ n - 1 \in 1 .. n - 1
    BY <1>2, <1>5, <1>12
  <2>2. /\ frames[n - 1] = <<unit, c>> /\ Opens(s, c) /\ c \in Entries(s) /\ c < index
        /\ Depth(s, c) = n - 1 /\ \A m \in c .. index - 1 : Depth(s, m) >= n - 1
    BY Zenon, <1>10, <2>1 DEF c, Opens
  <2>3. \A m \in t .. index - 1 : Depth(s, m) >= n
    BY Zenon, <1>10, <2>1 DEF t
  <2>4. c \in 1 .. Len(s) /\ t \in 1 .. Len(s)
    BY <1>2, <1>6, <2>2
  <2> HIDE DEF s
  <2>5. c < t
    <3>1. c # t
      BY <1>2, <1>6, <2>2
    <3>2. ~ (t < c)
      <4> SUFFICES ASSUME t < c
                   PROVE  FALSE
        OBVIOUS
      <4>1. c \in t .. index - 1
        BY <1>2, <2>2, <2>4
      <4>2. Depth(s, c) >= n
        BY <2>3, <4>1
      <4> QED
        BY <1>2, <2>2, <4>2
    <3> QED
      BY <2>4, <3>1, <3>2
  <2>6. Parent(s, t) = c
    <3>1. ASSUME NEW m \in c .. t - 1
          PROVE  Depth(s, m) >= Depth(s, c)
      <4>1. m \in c .. index - 1
        BY <1>2, <1>6, <2>4
      <4> QED
        BY Zenon, <2>2, <4>1
    <3>2. Depth(s, c) = Depth(s, t - 1)
      BY <1>7, <2>2
    <3> QED
      BY <1>2, <2>2, <2>4, <2>5, <3>1, <3>2, LastOpened
  <2>7. Last(Front(frames)) = <<unit, c>>
    <3>1. Last(frames') = frames'[n - 1]
      BY Zenon, <1>8 DEF Last
    <3> QED
      BY Zenon, <1>1, <1>8, <2>1, <2>2, <3>1
  <2>8. <<unit, c>> \in DOMAIN children /\ <<unit, c>> \in Nat \X Nat /\ <<unit, t>> \in Nat \X Nat
    <3>1. c \in Nat /\ t \in Nat /\ c \in Entries(debugInfo[unit])
      BY <2>2, <2>4 DEF s, Stream
    <3> QED
      BY <1>2, <1>3, <2>2, <3>1 DEF Before
  <2>9. children' = [children EXCEPT ![<<unit, c>>] = Append(@, <<unit, t>>)]
    BY Zenon, <1>1, <1>6, <1>12, <2>7 DEF Attach
  <2>10. /\ DOMAIN children' = DOMAIN children
         /\ children'[<<unit, c>>] = Append(children[<<unit, c>>], <<unit, t>>)
         /\ \A e \in DOMAIN children : e # <<unit, c>> => children'[e] = children[e]
    BY <2>8, <2>9
  <2>11. \A e \in DOMAIN children' : children'[e] \in Seq(Nat \X Nat)
    <3>1. Append(children[<<unit, c>>], <<unit, t>>) \in Seq(Nat \X Nat)
      BY <1>3, <2>8
    <3> QED
      BY Zenon, <1>3, <2>10, <3>1
  <2>12. \A e \in DOMAIN children : e[1] < unit => children'[e] = children[e]
    BY <1>2, <2>10
  <2>13. FramesAreOpen'
    <3>1. ASSUME NEW k \in 1 .. n - 1
          PROVE  /\ frames'[k] = <<unit, frames'[k][2]>>
                 /\ Opens(s, frames'[k][2]) /\ frames'[k][2] < index + 1
                 /\ Depth(s, frames'[k][2]) = k
                 /\ \A m \in frames'[k][2] .. (index + 1) - 1 : Depth(s, m) >= k
      <4>1. k \in 1 .. n
        BY <1>2
      <4>2. /\ frames[k] = <<unit, frames[k][2]>>
            /\ Opens(s, frames[k][2]) /\ frames[k][2] < index
            /\ Depth(s, frames[k][2]) = k
            /\ \A m \in frames[k][2] .. index - 1 : Depth(s, m) >= k
        BY Zenon, <1>10, <4>1
      <4>3. frames[k][2] \in 1 .. Len(s) /\ frames'[k] = frames[k]
        BY <1>2, <1>8, <4>2 DEF Opens
      <4>4. Depth(s, index) >= k
        BY <1>2, <1>4
      <4>5. ASSUME NEW m \in frames[k][2] .. (index + 1) - 1
            PROVE  Depth(s, m) >= k
        <5>1. m = index \/ m \in frames[k][2] .. index - 1
          BY <1>2, <4>3
        <5> QED
          BY Zenon, <4>2, <4>4, <5>1
      <4>6. frames[k][2] < index + 1
        BY <1>2, <4>2, <4>3
      <4> QED
        BY Zenon, <4>2, <4>3, <4>5, <4>6
    <3>2. Depth(s, (index + 1) - 1) = Len(frames') /\ index + 1 \in 1 .. Len(s)
      <4>1. (index + 1) - 1 = index
        BY <1>2
      <4>2. Depth(s, index) = n - 1
        BY Zenon, <1>4
      <4>3. index + 1 \in 1 .. Len(s)
        BY <1>2, <1>4, <1>12
      <4> QED
        BY Zenon, <1>8, <4>1, <4>2, <4>3
    <3>3. AreOpen(frames', unit, s, index + 1)
      BY Zenon, <1>8, <3>1, <3>2 DEF AreOpen
    <3>4. Stream' = s
      BY <1>1, <1>12 DEF Stream, s
    <3> QED
      BY Zenon, <1>1, <1>12, <3>3, <3>4 DEF FramesAreOpen
  <2>14. ListsAreCurrent'
    <3>1. <<unit, t>> \notin ToSet(frames')
      <4> SUFFICES ASSUME NEW k \in 1 .. n - 1, frames[k] = <<unit, t>>
                   PROVE  FALSE
        BY <1>8 DEF ToSet
      <4>1. k \in 1 .. n
        BY <1>2
      <4>2. Depth(s, frames[k][2]) = k
        BY Zenon, <1>10, <4>1
      <4>3. frames[k][2] = t
        OBVIOUS
      <4> QED
        BY <1>2, <1>6, <4>2, <4>3
    <3>2. ToSet(frames) = ToSet(frames') \cup {<<unit, t>>}
      <4>1. \A k \in DOMAIN frames : k \in DOMAIN frames' \/ k = n
        BY <1>2, <1>8
      <4>2. \A k \in DOMAIN frames' : k \in DOMAIN frames /\ frames'[k] = frames[k]
        BY Zenon, <1>2, <1>8
      <4>3. n \in DOMAIN frames
        BY <1>2, <1>5
      <4> QED
        BY Zenon, <1>6, <4>1, <4>2, <4>3 DEF ToSet
    <3>3. Over' = Over \cup {t}
      <4>1. Over' = {j \in Entries(s) : j < index + 1 /\ <<unit, j>> \notin ToSet(frames')}
        BY Zenon, <1>1, <1>12 DEF Over, Stream, s
      <4>2. Over = {j \in Entries(s) : j < index /\ <<unit, j>> \notin ToSet(frames)}
        BY Zenon DEF Over, s
      <4>3. ASSUME NEW j \in Entries(s)
            PROVE  j < index + 1 <=> j < index
        BY <1>2
      <4>4. \A j : <<unit, j>> = <<unit, t>> <=> j = t
        OBVIOUS
      <4> QED
        BY Zenon, <1>6, <3>1, <3>2, <4>1, <4>2, <4>3, <4>4
    <3>4. ASSUME NEW e \in Offspring(s, c) \cap Over
          PROVE  e < t
      <4>1. e \in Entries(s) /\ e # 1 /\ Parent(s, e) = c
        BY Zenon DEF Offspring
      <4>2. e < index /\ <<unit, e>> \notin ToSet(frames)
        BY Zenon DEF Over
      <4>3. Depth(s, e - 1) = n - 1
        BY Zenon, <1>3, <2>2, <4>1, <4>2 DEF ListsAreCurrent, s
      <4>4. e # t
        BY Zenon, <3>2, <4>2
      <4>5. e \in 1 .. Len(s)
        BY <1>2, <4>1
      <4>6. e > t => e - 1 \in t .. index - 1
        BY <1>2, <2>4, <4>2, <4>5
      <4>7. ~ (e > t)
        BY <1>2, <2>3, <4>3, <4>6
      <4> QED
        BY <2>4, <4>4, <4>5, <4>7
    <3>5. ASSUME NEW i \in Entries(s), i < index, i # c
          PROVE  children'[<<unit, i>>] = children[<<unit, i>>]
      <4>1. i \in Nat /\ i \in Entries(debugInfo[unit])
        BY <1>2 DEF s, Stream
      <4>2. <<unit, i>> \in DOMAIN children
        BY <1>2, <1>3, <3>5, <4>1 DEF Before
      <4>3. <<unit, i>> # <<unit, c>>
        BY <3>5
      <4> QED
        BY Zenon, <2>10, <4>2, <4>3
    <3>6. t # 1 /\ t <= index
      BY <1>2, <1>6, <2>4, <2>5
    <3> QED
      BY Zenon, <1>1, <1>2, <1>6, <1>12, <2>2, <2>5, <2>6, <2>10, <3>3, <3>4, <3>5, <3>6, GoneBack DEF s
  <2> QED
    BY Zenon, <1>1, <1>8, <1>9, <1>12, <2>10, <2>11, <2>12, <2>13, <2>14, StayInUnit
<1> QED
  BY Zenon, <1>11, <1>12

-----------------------------------------------------------------------------
(* ParserInv, and with it the shape of what is parsed, in every state.      *)
THEOREM ParserIsInductive == Spec => []ParserInv
<1>1. Init => ParserInv
  <2> SUFFICES ASSUME Init
               PROVE  ParserInv
    OBVIOUS
  <2>1. PICK program \in Programs : StartParsing(program.units)
    BY DEF Init
  <2>2. /\ debugInfo = program.units /\ unit = 1 /\ index = 1
        /\ frames = << >> /\ children = << >> /\ IsDebugInfo(debugInfo)
    BY <2>1, StreamsAssumption DEF StartParsing
  <2>3. Len(debugInfo) \in Nat /\ \A u \in DOMAIN debugInfo : u \in Nat \ {0}
    BY <2>2 DEF IsDebugInfo
  <2>4. Before(debugInfo, 1, 1) = {}
    <3> SUFFICES ASSUME NEW e \in Before(debugInfo, 1, 1)
                 PROVE  FALSE
      BY Zenon
    <3>1. /\ e \in Nat \X Nat /\ e[1] \in DOMAIN debugInfo /\ e[2] \in Entries(debugInfo[e[1]])
          /\ e[1] < 1 \/ (e[1] = 1 /\ e[2] < 1)
      BY Zenon DEF Before
    <3>2. e[2] \in 1 .. Len(debugInfo[e[1]])
      BY <2>2, <3>1, EntriesAreNumbers
    <3> QED
      BY <2>3, <3>1, <3>2
  <2>5. ~ Parsed => FramesAreOpen /\ ListsAreCurrent
    <3> SUFFICES ASSUME ~ Parsed
                 PROVE  FramesAreOpen /\ ListsAreCurrent
      OBVIOUS
    <3>1. 1 \in DOMAIN debugInfo
      BY <2>2, <2>3 DEF Parsed, IsDebugInfo
    <3>2. Stream = debugInfo[1] /\ IsUnit(Stream) /\ Entries(Stream) \subseteq 1 .. Len(Stream)
      BY <2>2, <3>1, EntriesAreNumbers DEF Stream
    <3>3. Len(Stream) \in Nat \ {0} /\ Depth(Stream, 0) = 0
      BY <3>2, UnitFacts
    <3>4. FramesAreOpen
      BY <2>2, <3>3 DEF FramesAreOpen, AreOpen
    <3>5. ListsAreCurrent
      BY <2>2, <3>2 DEF ListsAreCurrent
    <3> QED
      BY <3>4, <3>5
  <2>6. /\ unit \in 1 .. Len(debugInfo) + 1 /\ index \in Nat /\ frames \in Seq(Nat \X Nat)
        /\ DOMAIN children = Before(debugInfo, unit, index)
        /\ 1 .. unit - 1 = {}
    BY <2>2, <2>3, <2>4
  <2>7. /\ \A e \in DOMAIN children : children[e] \in Seq(Nat \X Nat)
        /\ \A u \in 1 .. unit - 1 : IsStream(u)
    BY <2>2, <2>6
  <2> QED
    BY Zenon, <2>2, <2>5, <2>6, <2>7 DEF ParserInv
<1>2. ParserInv /\ [Next]_vars => ParserInv'
  <2> SUFFICES ASSUME ParserInv, [Next]_vars
               PROVE  ParserInv'
    OBVIOUS
  <2>1. CASE OpenEntry
    BY <2>1, OpenStep
  <2>2. CASE LeafEntry
    BY <2>2, LeafStep
  <2>3. CASE EndChildren
    BY <2>3, EndStep
  <2>4. CASE UNCHANGED parseVars
    BY <2>4 DEF parseVars, ParserInv, Parsed, FramesAreOpen, AreOpen, ListsAreCurrent, Over, Stream,
                IsStream, EntriesOf
  <2> QED
    BY Zenon, <2>1, <2>2, <2>3, <2>4 DEF Next, Load, Parse, Guest, Render, RenderStops,
                                       RenderOutside, vars, parseVars
<1> QED
  BY <1>1, <1>2, PTL DEF Spec

(* When the parser leaves a unit, the tree of that unit and of every unit   *)
(* before it is the one the compiler flattened: every entry once, under its *)
(* parent, among its siblings in their order.                               *)
THEOREM TreesAreStreams == Spec => TreeIsStream
<1>1. ParserInv /\ ParserInv' /\ [Next]_vars =>
          [unit' # unit => \A u \in 1 .. unit : IsStream(u)']_parseVars
  <2> SUFFICES ASSUME ParserInv, ParserInv', [Next]_vars, unit' # unit
               PROVE  \A u \in 1 .. unit : IsStream(u)'
    OBVIOUS
  <2>1. unit' = unit + 1 /\ unit \in Nat
    BY DEF Next, Load, Parse, OpenEntry, LeafEntry, EndChildren, NextUnit, Guest, Render,
           RenderStops, RenderOutside, vars, parseVars, ParserInv, IsDebugInfo
  <2>2. \A u \in 1 .. unit' - 1 : IsStream(u)'
    BY Zenon DEF ParserInv
  <2> QED
    BY <2>1, <2>2
<1> QED
  BY <1>1, ParserIsInductive, PTL DEF Spec, TreeIsStream

-----------------------------------------------------------------------------
(* What is around an entry, and what is picked out of a list.               *)

(* Every entry but the root has a parent: the one whose list of children    *)
(* has been open since the last time fewer were.                            *)
LEMMA ParentIs ==
    ASSUME NEW s, IsUnit(s), NEW i \in Entries(s), i # 1
    PROVE  /\ Opens(s, Parent(s, i)) /\ Parent(s, i) \in Entries(s) /\ Parent(s, i) < i
           /\ i \in Nat \ {0} /\ Parent(s, i) \in Nat \ {0}
           /\ \A m \in Parent(s, i) .. i - 1 : Depth(s, m) >= Depth(s, Parent(s, i))
           /\ Depth(s, Parent(s, i)) = Depth(s, i - 1)
<1> DEFINE d == Depth(s, i - 1)
           S == {j \in 1 .. i - 1 : Depth(s, j - 1) < d}
           c == Max(S)
<1>1. Len(s) \in Nat \ {0} /\ i \in 2 .. Len(s) /\ d > 0 /\ d \in Int /\ Depth(s, 0) = 0
  <2>1. Len(s) \in Nat \ {0} /\ i \in 1 .. Len(s)
    BY UnitFacts
  <2>2. i \in 2 .. Len(s) /\ i - 1 \in 1 .. Len(s) - 1 /\ i - 1 \in 0 .. Len(s)
    BY <2>1
  <2> QED
    BY <2>1, <2>2, UnitFacts
<1>2. S \in SUBSET (0 .. i - 1) /\ 1 \in S /\ i - 1 \in Nat
  BY <1>1
<1>3. c \in S /\ \A j \in S : c >= j
  <2> HIDE DEF S
  <2> QED
    BY <1>2, GreatestElement
<1>4. c \in 1 .. i - 1 /\ Depth(s, c - 1) < d
  BY <1>3
<1>5. ASSUME NEW m \in c .. i - 1
      PROVE  Depth(s, m) >= d
  <2>1. CASE m = i - 1
    BY <1>1, <2>1
  <2>2. CASE m # i - 1
    <3>1. m + 1 \in 1 .. i - 1 /\ m + 1 > c /\ m \in 0 .. Len(s) /\ (m + 1) - 1 = m
      BY <1>1, <1>4, <2>2
    <3>2. ~ (Depth(s, (m + 1) - 1) < d)
      BY <1>3, <1>4, <3>1
    <3>3. Depth(s, m) \in Int
      BY <3>1, UnitFacts
    <3> QED
      BY <1>1, <3>1, <3>2, <3>3
  <2> QED
    BY <2>1, <2>2
<1>6. c \in 1 .. Len(s) /\ c \in c .. i - 1 /\ c - 1 \in 0 .. Len(s) /\ c < i
  BY <1>1, <1>4
<1> HIDE DEF c, S
<1>7. Opens(s, c) /\ Depth(s, c) = d
  <2>1. /\ Depth(s, c) >= d /\ Depth(s, c - 1) \in Int
        /\ Depth(s, c) = IF s[c] = EndOfSiblings THEN Depth(s, c - 1) - 1
                         ELSE IF s[c].hasChildren THEN Depth(s, c - 1) + 1
                         ELSE Depth(s, c - 1)
    BY <1>5, <1>6, UnitFacts
  <2>2. s[c] # EndOfSiblings /\ s[c].hasChildren /\ Depth(s, c) = d
    BY <1>1, <1>4, <2>1
  <2> QED
    BY <1>6, <2>2, UnitFacts DEF Opens
<1>8. Parent(s, i) = c
  <2>1. i \in 1 .. Len(s) /\ Depth(s, c) = Depth(s, i - 1)
        /\ \A m \in c .. i - 1 : Depth(s, m) >= Depth(s, c)
    BY <1>1, <1>5, <1>7
  <2> QED
    BY <1>6, <1>7, <2>1, LastOpened
<1>9. i \in Nat \ {0} /\ c \in Nat \ {0} /\ \A m \in c .. i - 1 : Depth(s, m) >= Depth(s, c)
  BY <1>1, <1>4, <1>5, <1>7
<1> QED
  BY Zenon, <1>6, <1>7, <1>8, <1>9 DEF Opens

(* Around an entry are its parent and what is around that.                  *)
LEMMA AroundParent ==
    ASSUME NEW s, IsUnit(s), NEW i \in Entries(s)
    PROVE  /\ i = 1 => Around(s, i) = {1}
           /\ i # 1 => Around(s, i) = {i} \cup Around(s, Parent(s, i))
<1>0. /\ Entries(s) \subseteq 1 .. Len(s) /\ Len(s) \in Nat
      /\ \A j \in 0 .. Len(s) : Depth(s, j) \in Int
  BY UnitFacts
<1>1. CASE i = 1
  BY <1>0, <1>1 DEF Around
<1>2. CASE i # 1
  <2> DEFINE c == Parent(s, i)
  <2>1. /\ c \in Entries(s) /\ s[c].hasChildren /\ c < i /\ s[c] # EndOfSiblings
        /\ c \in Nat \ {0} /\ i \in Nat
        /\ Depth(s, c) = Depth(s, i - 1)
        /\ \A m \in c .. i - 1 : Depth(s, m) >= Depth(s, c)
    BY <1>2, ParentIs DEF Opens, Entries
  <2> HIDE DEF c
  <2>2. Depth(s, c) = Depth(s, c - 1) + 1
    BY <1>0, <2>1, UnitFacts
  <2>3. ASSUME NEW j \in Entries(s), j < c, s[j].hasChildren
        PROVE  (\A m \in j .. c - 1 : Depth(s, m) >= Depth(s, j)) <=>
               (\A m \in j .. i - 1 : Depth(s, m) >= Depth(s, j))
    <3>1. ASSUME \A m \in j .. c - 1 : Depth(s, m) >= Depth(s, j), NEW m \in j .. i - 1
          PROVE  Depth(s, m) >= Depth(s, j)
      <4>1. CASE m <= c - 1
        <5>1. m \in j .. c - 1
          BY <1>0, <2>1, <4>1
        <5> QED
          BY <3>1, <5>1
      <4>2. CASE m > c - 1
        <5>1. m \in c .. i - 1 /\ c - 1 \in j .. c - 1 /\ {m, c, c - 1, j} \subseteq 0 .. Len(s)
          BY <1>0, <2>1, <2>3, <4>2
        <5>2. Depth(s, m) >= Depth(s, c) /\ Depth(s, c - 1) >= Depth(s, j)
          BY <2>1, <3>1, <5>1
        <5>3. {Depth(s, m), Depth(s, c), Depth(s, c - 1), Depth(s, j)} \subseteq Int
          BY <1>0, <5>1
        <5> QED
          BY <2>2, <5>2, <5>3
      <4>3. m \in Int /\ c \in Int
        BY <2>1
      <4> QED
        BY <4>1, <4>2, <4>3
    <3>2. \A m \in j .. c - 1 : m \in j .. i - 1
      BY <2>1
    <3> QED
      BY Zenon, <3>1, <3>2
  <2>4. ASSUME NEW j \in Entries(s), j > c, j < i, s[j].hasChildren
        PROVE  ~ \A m \in j .. i - 1 : Depth(s, m) >= Depth(s, j)
    <3>1. /\ i - 1 \in j .. i - 1 /\ j - 1 \in c .. i - 1 /\ j \in 1 .. Len(s)
          /\ {j, c, j - 1} \subseteq 0 .. Len(s)
      BY <1>0, <2>1, <2>4
    <3>2. Depth(s, j) = Depth(s, j - 1) + 1
      BY <2>4, <3>1, UnitFacts DEF Entries
    <3>3. {Depth(s, j), Depth(s, c), Depth(s, j - 1)} \subseteq Int
      BY <1>0, <3>1
    <3>4. Depth(s, j - 1) >= Depth(s, c)
      BY <2>1, <3>1
    <3>5. ~ (Depth(s, i - 1) >= Depth(s, j))
      BY <2>1, <3>2, <3>3, <3>4
    <3> QED
      BY <3>1, <3>5
  <2>5. \A j \in Entries(s) : j \in Nat
    BY <1>0
  <2>6. ASSUME NEW j \in Around(s, i)
        PROVE  j \in {i} \cup Around(s, c)
    BY <2>1, <2>3, <2>4, <2>5, <2>6 DEF Around
  <2>7. ASSUME NEW j \in Around(s, c)
        PROVE  j \in Around(s, i)
    <3>1. CASE j = c
      BY <2>1, <3>1 DEF Around
    <3>2. CASE j # c
      <4>1. /\ j \in Entries(s) /\ j < c /\ s[j].hasChildren
            /\ \A m \in j .. c - 1 : Depth(s, m) >= Depth(s, j)
        BY <3>2 DEF Around
      <4>2. j < i
        BY <2>1, <2>5, <4>1
      <4>3. \A m \in j .. i - 1 : Depth(s, m) >= Depth(s, j)
        BY <2>3, <4>1
      <4> QED
        BY <4>1, <4>2, <4>3 DEF Around
    <3> QED
      BY <3>1, <3>2
  <2>8. i \in Around(s, i)
    BY DEF Around
  <2>9. Around(s, i) = {i} \cup Around(s, c)
    BY Zenon, <2>6, <2>7, <2>8
  <2> QED
    BY <1>2, <2>9 DEF c
<1> QED
  BY <1>1, <1>2

(* Select picks what it is told to, in a list without repetitions once.     *)
LEMMA SelectFacts ==
    ASSUME NEW X, NEW list \in Seq(X), NEW S
    PROVE  /\ Select(list, S) \in Seq(X)
           /\ ToSet(Select(list, S)) = ToSet(list) \cap S
           /\ IsInjective(list) => IsInjective(Select(list, S))
<1> DEFINE ss == [k \in DOMAIN list |-> IF list[k] \in S THEN <<list[k]>> ELSE << >>]
<1>1. /\ ss \in Seq(Seq(X)) /\ DOMAIN ss = DOMAIN list
      /\ \A k \in DOMAIN list : ss[k] = IF list[k] \in S THEN <<list[k]>> ELSE << >>
  <2>1. Len(list) \in Nat /\ DOMAIN list = 1 .. Len(list) /\ \A k \in DOMAIN list : list[k] \in X
    OBVIOUS
  <2>2. \A k \in DOMAIN list : ss[k] \in Seq(X)
    BY <2>1
  <2> QED
    BY <2>1, <2>2
<1>2. \A k \in DOMAIN list : ToSet(ss[k]) = {list[k]} \cap S /\ IsInjective(ss[k])
  BY DEF ToSet, IsInjective
<1>3. Select(list, S) = FlattenSeq(ss)
  BY DEF Select
<1> HIDE DEF ss
<1>4. /\ FlattenSeq(ss) \in Seq(X)
      /\ ToSet(FlattenSeq(ss)) = UNION {ToSet(ss[k]) : k \in DOMAIN ss}
      /\ /\ \A k \in DOMAIN ss : IsInjective(ss[k])
         /\ \A k, l \in DOMAIN ss : k # l => ToSet(ss[k]) \cap ToSet(ss[l]) = {}
         => IsInjective(FlattenSeq(ss))
  BY Zenon, <1>1, FlattenFacts
<1>5. UNION {ToSet(ss[k]) : k \in DOMAIN ss} = ToSet(list) \cap S
  <2>1. \A x : x \in ToSet(list) <=> \E k \in DOMAIN list : x = list[k]
    BY DEF ToSet
  <2>2. \A x : (\E k \in DOMAIN ss : x \in ToSet(ss[k])) <=>
               x \in S /\ \E k \in DOMAIN list : x = list[k]
    BY <1>1, <1>2
  <2>3. \A x : x \in UNION {ToSet(ss[k]) : k \in DOMAIN ss} <=>
               \E k \in DOMAIN ss : x \in ToSet(ss[k])
    BY Zenon
  <2> QED
    BY <2>1, <2>2, <2>3
<1>6. ASSUME IsInjective(list), NEW k \in DOMAIN ss, NEW l \in DOMAIN ss, k # l
      PROVE  ToSet(ss[k]) \cap ToSet(ss[l]) = {}
  <2>1. list[k] # list[l]
    BY <1>1, <1>6 DEF IsInjective
  <2> QED
    BY <1>1, <1>2, <2>1
<1> QED
  BY Zenon, <1>1, <1>2, <1>3, <1>4, <1>5, <1>6

(* Unit u is parsed.                                                        *)
IsTree(u) ==
    /\ u \in Nat /\ IsUnit(debugInfo[u]) /\ IsStream(u)
    /\ \A n \in DOMAIN children : children[n] \in Seq(Nat \X Nat)

Inner(u, i, a) ==
    {j \in EntriesOf(u) \ {1} :
        ParentOf(u, j) = i /\ isScope(<<u, j>>) /\ isPcInRange(<<u, j>>, a)}

(* What the code finds below an entry of the tree, and what there is below  *)
(* it in the stream.                                                        *)
LEMMA ListedBelow ==
    ASSUME NEW u, IsTree(u), NEW i \in EntriesOf(u), NEW a, NEW l
    PROVE  /\ getVariablesAboveLine(<<u, i>>, l) \in Seq(Nat \X Nat)
           /\ IsInjective(getVariablesAboveLine(<<u, i>>, l))
           /\ ToSet(getVariablesAboveLine(<<u, i>>, l)) = VisibleIn(u, {i}, l)
           /\ ScopesInRange(<<u, i>>, a) \in Seq(Nat \X Nat)
           /\ ToSet(ScopesInRange(<<u, i>>, a)) = {<<u, j>> : j \in Inner(u, i, a)}
<1> DEFINE X == Nat \X Nat
           N == DOMAIN children
           list == children[<<u, i>>]
           below == Offspring(debugInfo[u], i)
<1>1. <<u, i>> \in N /\ \A j \in EntriesOf(u) : <<u, j>> \in N
  BY DEF IsTree, IsStream
<1>2. list \in Seq(X) /\ Enumerates(list, u, below)
  BY <1>1 DEF IsTree, IsStream
<1>3. EntriesOf(u) \subseteq Nat
  BY UnitFacts DEF IsTree, EntriesOf
<1>4. below \subseteq EntriesOf(u) /\ ToSet(list) = {<<u, j>> : j \in below}
  BY <1>2 DEF Offspring, EntriesOf, Enumerates
<1>5. IsInjective(list)
  <2>1. Len(list) \in Nat /\ DOMAIN list = 1 .. Len(list)
    BY <1>2
  <2>2. \A k \in 1 .. Len(list) : list[k][2] \in Nat
    BY <1>2
  <2>3. \A k, m \in 1 .. Len(list) : k < m => list[k][2] < list[m][2]
    BY <1>2 DEF Enumerates
  <2> HIDE DEF list
  <2>4. ASSUME NEW k \in 1 .. Len(list), NEW m \in 1 .. Len(list), list[k] = list[m]
        PROVE  k = m
    BY <2>1, <2>2, <2>3, <2>4
  <2> QED
    BY <2>1, <2>4 DEF IsInjective
<1> DEFINE v == Variables(<<u, i>>)
           w == getVariablesAboveLine(<<u, i>>, l)
           c == Scopes(<<u, i>>)
           r == ScopesInRange(<<u, i>>, a)
<1> HIDE DEF list, below
<1>6. /\ v \in Seq(X) /\ ToSet(v) = ToSet(list) \cap {n \in N : isVariable(n)}
      /\ IsInjective(v)
  BY Zenon, <1>2, <1>5, SelectFacts DEF Variables, list
<1>7. c \in Seq(X) /\ ToSet(c) = ToSet(list) \cap {n \in N : isScope(n)}
  BY Zenon, <1>2, SelectFacts DEF Scopes, list
<1>8. /\ w \in Seq(X) /\ ToSet(w) = ToSet(v) \cap {n \in N : DeclaredBy(n, l)}
      /\ IsInjective(w)
  <2> HIDE DEF v
  <2> QED
    BY Zenon, <1>6, SelectFacts DEF getVariablesAboveLine, v
<1>9. r \in Seq(X) /\ ToSet(r) = ToSet(c) \cap {n \in N : isPcInRange(n, a)}
  <2> HIDE DEF c
  <2> QED
    BY Zenon, <1>7, SelectFacts DEF ScopesInRange, c
<1>10. below = {j \in EntriesOf(u) \ {1} : ParentOf(u, j) = i}
  BY Zenon DEF below, Offspring, EntriesOf, ParentOf
<1> HIDE DEF v, w, c, r, N
<1>11. ToSet(w) = VisibleIn(u, {i}, l)
  <2>1. ASSUME NEW n \in ToSet(w)
        PROVE  n \in VisibleIn(u, {i}, l)
    <3>1. n \in ToSet(list) /\ isVariable(n) /\ DeclaredBy(n, l)
      BY <1>6, <1>8, <2>1
    <3>2. PICK j \in below : n = <<u, j>>
      BY <1>4, <3>1
    <3>3. j \in EntriesOf(u) \ {1} /\ ParentOf(u, j) \in {i}
      BY <1>10
    <3> QED
      BY Zenon, <3>1, <3>2, <3>3 DEF VisibleIn
  <2>2. ASSUME NEW n \in VisibleIn(u, {i}, l)
        PROVE  n \in ToSet(w)
    <3>1. PICK j \in EntriesOf(u) \ {1} :
              /\ isVariable(<<u, j>>) /\ ParentOf(u, j) \in {i} /\ DeclaredBy(<<u, j>>, l)
              /\ n = <<u, j>>
      BY Zenon DEF VisibleIn
    <3>2. j \in below /\ <<u, j>> \in N
      BY <1>1, <1>10, <3>1 DEF N
    <3>3. <<u, j>> \in ToSet(list)
      BY Zenon, <1>4, <3>2
    <3> QED
      BY <1>6, <1>8, <3>1, <3>2, <3>3
  <2> QED
    BY Zenon, <2>1, <2>2
<1>12. ToSet(r) = {<<u, j>> : j \in Inner(u, i, a)}
  <2>1. ASSUME NEW n \in ToSet(r)
        PROVE  \E j \in Inner(u, i, a) : n = <<u, j>>
    <3>1. n \in ToSet(list) /\ isScope(n) /\ isPcInRange(n, a)
      BY <1>7, <1>9, <2>1
    <3>2. PICK j \in below : n = <<u, j>>
      BY <1>4, <3>1
    <3>3. j \in EntriesOf(u) \ {1} /\ ParentOf(u, j) = i
      BY <1>10
    <3>4. j \in Inner(u, i, a)
      BY Zenon, <3>1, <3>2, <3>3 DEF Inner
    <3> QED
      BY <3>2, <3>4
  <2>2. ASSUME NEW j \in Inner(u, i, a)
        PROVE  <<u, j>> \in ToSet(r)
    <3>1. /\ j \in EntriesOf(u) \ {1} /\ isScope(<<u, j>>) /\ ParentOf(u, j) = i
          /\ isPcInRange(<<u, j>>, a)
      BY Zenon DEF Inner
    <3>2. j \in below /\ <<u, j>> \in N
      BY <1>1, <1>10, <3>1 DEF N
    <3>3. <<u, j>> \in ToSet(list)
      BY Zenon, <1>4, <3>2
    <3> QED
      BY <1>7, <1>9, <3>1, <3>2, <3>3
  <2> QED
    BY Zenon, <2>1, <2>2
<1> QED
  BY <1>8, <1>9, <1>11, <1>12 DEF w, r

-----------------------------------------------------------------------------
(* The path of scopes.                                                      *)

NodesOf(u) == {n \in DOMAIN children : n[1] = u}

(* The equation of ScopePath's function, at one scope.                      *)
Downwards(f, n, a) ==
    IF ScopesInRange(n, a) = << >> THEN <<n>> ELSE <<n>> \o f[Head(ScopesInRange(n, a))]

(* It holds at the last k entries of the unit.                              *)
Solves(f, u, a, k) ==
    /\ f \in [NodesOf(u) -> Seq(NodesOf(u))]
    /\ \A n \in NodesOf(u) : n[2] > Len(debugInfo[u]) - k => f[n] = Downwards(f, n, a)

(* From n into the first scope in range, and so on to one without any.      *)
Leads(p, u, a, n) ==
    /\ p \in Seq(NodesOf(u)) /\ Len(p) \in Nat \ {0} /\ p[1] = n
    /\ \A k \in 1 .. Len(p) - 1 : p[k + 1] \in ToSet(ScopesInRange(p[k], a))
    /\ ScopesInRange(p[Len(p)], a) = << >>

LEMMA NodeFacts ==
    ASSUME NEW u, IsTree(u)
    PROVE  /\ NodesOf(u) = {<<u, i>> : i \in EntriesOf(u)}
           /\ Len(debugInfo[u]) \in Nat
           /\ \A n \in NodesOf(u) : n[2] \in 1 .. Len(debugInfo[u]) /\ n[2] \in EntriesOf(u)
                                    /\ n = <<u, n[2]>>
<1>1. NodesOf(u) = {<<u, i>> : i \in EntriesOf(u)}
  BY DEF IsTree, IsStream, NodesOf
<1>2. Len(debugInfo[u]) \in Nat /\ EntriesOf(u) \subseteq 1 .. Len(debugInfo[u])
  BY UnitFacts DEF IsTree, EntriesOf
<1> QED
  BY <1>1, <1>2

(* The next scope is further down the stream.                               *)
LEMMA NextFacts ==
    ASSUME NEW u, IsTree(u), NEW a, NEW n \in NodesOf(u), ScopesInRange(n, a) # << >>
    PROVE  /\ Head(ScopesInRange(n, a)) \in ToSet(ScopesInRange(n, a))
           /\ Head(ScopesInRange(n, a)) \in NodesOf(u)
           /\ Head(ScopesInRange(n, a))[2] > n[2]
<1> DEFINE r == ScopesInRange(n, a)
           i == n[2]
<1>1. i \in EntriesOf(u) /\ n = <<u, i>> /\ i \in Nat
  BY NodeFacts
<1>2. r \in Seq(Nat \X Nat) /\ ToSet(r) = {<<u, j>> : j \in Inner(u, i, a)}
  <2>1. /\ ScopesInRange(<<u, i>>, a) \in Seq(Nat \X Nat)
        /\ ToSet(ScopesInRange(<<u, i>>, a)) = {<<u, j>> : j \in Inner(u, i, a)}
    BY <1>1, ListedBelow
  <2>2. ScopesInRange(<<u, i>>, a) = ScopesInRange(n, a)
    BY Zenon, <1>1
  <2> QED
    BY Zenon, <2>1, <2>2
<1> HIDE DEF r
<1>3. Head(r) \in ToSet(r)
  <2>1. Len(r) \in Nat \ {0} /\ DOMAIN r = 1 .. Len(r) /\ Head(r) = r[1]
    BY <1>2 DEF r
  <2>2. 1 \in DOMAIN r
    BY <2>1
  <2> QED
    BY Zenon, <2>1, <2>2 DEF ToSet
<1>4. PICK j \in Inner(u, i, a) : Head(r) = <<u, j>>
  BY <1>2, <1>3
<1>5. j \in EntriesOf(u) /\ j # 1 /\ ParentOf(u, j) = i
  BY DEF Inner
<1>6. IsUnit(debugInfo[u]) /\ j \in Entries(debugInfo[u]) /\ Parent(debugInfo[u], j) = i
  BY Zenon, <1>5 DEF IsTree, EntriesOf, ParentOf
<1>7. j > i /\ j \in Nat
  BY <1>5, <1>6, ParentIs
<1>8. Head(r) \in NodesOf(u)
  BY Zenon, <1>4, <1>5, NodeFacts
<1> QED
  BY <1>3, <1>4, <1>7, <1>8 DEF r, i

LEMMA PathExists ==
    ASSUME NEW u, IsTree(u), NEW a
    PROVE  \E f : f = [n \in NodesOf(u) |-> Downwards(f, n, a)]
<1> DEFINE N == NodesOf(u)
           L == Len(debugInfo[u])
           S == {k \in Nat : \E f : Solves(f, u, a, k)}
<1>0. L \in Nat /\ \A n \in N : n[2] \in 1 .. L
  BY NodeFacts
<1>1. 0 \in S
  <2> DEFINE e == [n \in N |-> << >>]
  <2>1. e \in [N -> Seq(N)]
    OBVIOUS
  <2>2. \A n \in N : ~ (n[2] > L - 0)
    BY <1>0
  <2>3. Solves(e, u, a, 0)
    BY <2>1, <2>2 DEF Solves
  <2> QED
    BY <2>3
<1>2. ASSUME NEW k \in S
      PROVE  k + 1 \in S
  <2>1. k \in Nat
    OBVIOUS
  <2>2. PICK f : Solves(f, u, a, k)
    OBVIOUS
  <2>3. f \in [N -> Seq(N)] /\ \A n \in N : n[2] > L - k => f[n] = Downwards(f, n, a)
    BY <2>2 DEF Solves
  <2> DEFINE g == [n \in N |-> IF n[2] > L - k THEN f[n] ELSE Downwards(f, n, a)]
  <2> HIDE DEF N
  <2>4. ASSUME NEW n \in N
        PROVE  Downwards(f, n, a) \in Seq(N)
    <3>1. CASE ScopesInRange(n, a) = << >>
      BY <3>1 DEF Downwards
    <3>2. CASE ScopesInRange(n, a) # << >>
      <4>1. Head(ScopesInRange(n, a)) \in N
        BY <3>2, NextFacts DEF N
      <4>2. f[Head(ScopesInRange(n, a))] \in Seq(N) /\ <<n>> \in Seq(N)
        BY <2>3, <4>1
      <4>3. <<n>> \o f[Head(ScopesInRange(n, a))] \in Seq(N)
        BY <4>2, ConcatProperties
      <4> QED
        BY <3>2, <4>3 DEF Downwards
    <3> QED
      BY <3>1, <3>2
  <2>5. g \in [N -> Seq(N)]
    BY <2>3, <2>4
  <2>6. \A n \in N : n[2] > L - k => g[n] = f[n]
    OBVIOUS
  <2>7. \A n \in N : ~ (n[2] > L - k) => g[n] = Downwards(f, n, a)
    OBVIOUS
  <2> HIDE DEF g
  <2>8. ASSUME NEW n \in N, n[2] > L - (k + 1)
        PROVE  g[n] = Downwards(g, n, a)
    <3>1. g[n] = Downwards(f, n, a)
      BY <2>3, <2>6, <2>7
    <3>2. Downwards(f, n, a) = Downwards(g, n, a)
      <4>1. CASE ScopesInRange(n, a) = << >>
        BY <4>1 DEF Downwards
      <4>2. CASE ScopesInRange(n, a) # << >>
        <5> DEFINE h == Head(ScopesInRange(n, a))
        <5>1. h \in N /\ h[2] > n[2]
          BY <4>2, NextFacts DEF N
        <5> HIDE DEF h
        <5>2. h[2] \in Int /\ n[2] \in Int
          BY <1>0, <5>1 DEF N
        <5>3. h[2] > L - k
          BY <1>0, <2>1, <2>8, <5>1, <5>2
        <5>4. g[h] = f[h]
          BY <2>6, <5>1, <5>3
        <5> QED
          BY Zenon, <5>4 DEF Downwards, h
      <4> QED
        BY <4>1, <4>2
    <3> QED
      BY <3>1, <3>2
  <2>9. Solves(g, u, a, k + 1)
    BY <2>5, <2>8 DEF Solves, N
  <2> QED
    BY <2>1, <2>9
<1>3. S \in SUBSET Nat
  OBVIOUS
<1>4. \A n \in S : n + 1 \in S
  BY <1>2
<1>5. L \in S
  <2> HIDE DEF S, L
  <2> QED
    BY <1>0, <1>1, <1>3, <1>4, Induct
<1>6. PICK f : Solves(f, u, a, L)
  BY <1>5
<1>7. f \in [N -> Seq(N)] /\ \A n \in N : f[n] = Downwards(f, n, a)
  <2>1. \A n \in N : n[2] > L - L
    BY <1>0
  <2> QED
    BY <1>6, <2>1 DEF Solves
<1>8. f = [n \in N |-> Downwards(f, n, a)]
  <2> HIDE DEF N
  <2> QED
    BY <1>7
<1> QED
  BY <1>8

LEMMA PathLeads ==
    ASSUME NEW u, IsTree(u), NEW a, NEW f, f = [n \in NodesOf(u) |-> Downwards(f, n, a)]
    PROVE  \A n \in NodesOf(u) : Leads(f[n], u, a, n)
<1> DEFINE N == NodesOf(u)
           L == Len(debugInfo[u])
           B == {i \in 0 .. L : \E n \in N : n[2] = i /\ ~ Leads(f[n], u, a, n)}
<1>1. L \in Nat /\ \A n \in N : n[2] \in 1 .. L
  BY NodeFacts
<1> SUFFICES ASSUME NEW x \in N, ~ Leads(f[x], u, a, x)
             PROVE  FALSE
  OBVIOUS
<1>2. x[2] \in B /\ B \in SUBSET (0 .. L)
  BY <1>1
<1>3. Max(B) \in B /\ \A i \in B : Max(B) >= i
  <2> HIDE DEF B, L
  <2> QED
    BY <1>1, <1>2, GreatestElement
<1>4. PICK n \in N : n[2] = Max(B) /\ ~ Leads(f[n], u, a, n)
  BY <1>3
<1>5. f[n] = Downwards(f, n, a)
  BY Zenon
<1>6. CASE ScopesInRange(n, a) = << >>
  <2>1. f[n] = <<n>>
    BY <1>5, <1>6 DEF Downwards
  <2> DEFINE p == <<n>>
  <2>2. /\ p \in Seq(NodesOf(u)) /\ Len(p) = 1 /\ p[1] = n
        /\ 1 .. Len(p) - 1 = {}
    OBVIOUS
  <2> HIDE DEF p
  <2>3. Len(p) \in Nat \ {0} /\ p[Len(p)] = n
    BY <2>2
  <2>4. Leads(p, u, a, n)
    BY Zenon, <1>6, <2>2, <2>3 DEF Leads
  <2> QED
    BY Zenon, <1>4, <2>1, <2>4 DEF p
<1>7. CASE ScopesInRange(n, a) # << >>
  <2> DEFINE h == Head(ScopesInRange(n, a))
             q == f[h]
             p == <<n>> \o q
  <2>1. h \in N /\ h[2] > n[2] /\ h \in ToSet(ScopesInRange(n, a))
    BY <1>7, NextFacts
  <2> HIDE DEF h
  <2>2. h[2] \notin B
    BY <1>1, <1>3, <1>4, <2>1
  <2>3. Leads(q, u, a, h)
    BY <1>1, <2>1, <2>2
  <2> HIDE DEF B, q, N
  <2>4. /\ q \in Seq(N) /\ Len(q) \in Nat \ {0} /\ q[1] = h
        /\ \A k \in 1 .. Len(q) - 1 : q[k + 1] \in ToSet(ScopesInRange(q[k], a))
        /\ ScopesInRange(q[Len(q)], a) = << >>
    BY <2>3 DEF Leads, N
  <2>5. /\ p \in Seq(N) /\ Len(p) = Len(q) + 1 /\ p[1] = n
        /\ \A k \in 1 .. Len(q) : p[k + 1] = q[k]
    BY <2>4
  <2> HIDE DEF p
  <2>6. ASSUME NEW k \in 1 .. Len(p) - 1
        PROVE  p[k + 1] \in ToSet(ScopesInRange(p[k], a))
    <3>1. CASE k = 1
      <4>1. p[k] = n /\ p[k + 1] = h
        BY <2>4, <2>5, <3>1
      <4> QED
        BY <2>1, <4>1
    <3>2. CASE k # 1
      <4>1. k - 1 \in 1 .. Len(q) - 1 /\ k - 1 \in 1 .. Len(q) /\ k \in 1 .. Len(q)
            /\ (k - 1) + 1 = k
        BY <2>4, <2>5, <3>2
      <4>2. p[k] = q[k - 1] /\ p[k + 1] = q[k]
        BY <2>5, <4>1
      <4>3. q[(k - 1) + 1] \in ToSet(ScopesInRange(q[k - 1], a))
        BY <2>4, <4>1
      <4> QED
        BY <4>1, <4>2, <4>3
    <3> QED
      BY <3>1, <3>2
  <2>7. p[Len(p)] = q[Len(q)] /\ Len(p) \in Nat \ {0}
    BY <2>4, <2>5
  <2>8. Leads(p, u, a, n)
    BY <2>4, <2>5, <2>6, <2>7 DEF Leads, N
  <2>9. f[n] = p
    BY Zenon, <1>5, <1>7 DEF Downwards, p, q, h
  <2> QED
    BY <1>4, <2>8, <2>9
<1> QED
  BY <1>6, <1>7

(* The scopes the code goes through.                                        *)
LEMMA ScopePathLeads ==
    ASSUME NEW a, NEW u, u = getCompileUnitAtPc(a), IsTree(u), Root(u) \in NodesOf(u)
    PROVE  Leads(ScopePath(a), u, a, Root(u))
<1> DEFINE f == CHOOSE f : f = [n \in NodesOf(u) |-> Downwards(f, n, a)]
<1>1. f = [n \in NodesOf(u) |-> Downwards(f, n, a)]
  <2>1. \E g : g = [n \in NodesOf(u) |-> Downwards(g, n, a)]
    BY PathExists
  <2> QED
    BY Zenon, <2>1
<1>2. ScopePath(a) = f[Root(u)]
  BY DEF ScopePath, NodesOf, Downwards
<1> HIDE DEF f
<1>3. \A n \in NodesOf(u) : Leads(f[n], u, a, n)
  BY Zenon, <1>1, PathLeads
<1> QED
  BY Zenon, <1>2, <1>3

UpTo(p, k) == {p[m][2] : m \in 1 .. k}

(* Each scope of the path is inside the one before it, and what is around   *)
(* it in the stream is the path up to it.                                   *)
LEMMA PathFacts ==
    ASSUME NEW u, IsTree(u), NEW a, NEW p, Leads(p, u, a, Root(u))
    PROVE  /\ Len(p) \in Nat \ {0} /\ p[1] = Root(u) /\ p[1][2] = 1
           /\ p \in Seq(NodesOf(u))
           /\ ScopesInRange(p[Len(p)], a) = << >>
           /\ \A k \in 1 .. Len(p) : /\ p[k] \in NodesOf(u) /\ p[k] = <<u, p[k][2]>>
                                     /\ p[k][2] \in EntriesOf(u) /\ p[k][2] \in Nat
           /\ \A k \in 1 .. Len(p) - 1 : p[k + 1][2] \in Inner(u, p[k][2], a)
           /\ \A k, m \in 1 .. Len(p) : k < m => p[k][2] < p[m][2]
           /\ \A k \in 1 .. Len(p) : Around(debugInfo[u], p[k][2]) = UpTo(p, k)
<1> DEFINE s == debugInfo[u]
           n == Len(p)
<1>1. /\ p \in Seq(NodesOf(u)) /\ n \in Nat \ {0} /\ p[1] = <<u, 1>>
      /\ \A k \in 1 .. n - 1 : p[k + 1] \in ToSet(ScopesInRange(p[k], a))
      /\ ScopesInRange(p[n], a) = << >>
  BY DEF Leads, Root
<1>2. /\ IsUnit(s) /\ EntriesOf(u) = Entries(s) /\ EntriesOf(u) \subseteq 1 .. Len(s)
  BY UnitFacts DEF IsTree, EntriesOf
<1>3. \A k \in 1 .. n : p[k] \in NodesOf(u)
  BY <1>1
<1>4. \A k \in 1 .. n : p[k] = <<u, p[k][2]>> /\ p[k][2] \in EntriesOf(u)
  BY <1>3, NodeFacts
<1>5. \A k \in 1 .. n : p[k][2] \in Nat /\ p[k][2] \in 1 .. Len(s)
  BY <1>2, <1>4
<1>6. ASSUME NEW k \in 1 .. n - 1
      PROVE  p[k + 1][2] \in Inner(u, p[k][2], a)
  <2> DEFINE i == p[k][2]
  <2>1. k \in 1 .. n /\ k + 1 \in 1 .. n
    BY <1>1
  <2>2. p[k] = <<u, i>> /\ i \in EntriesOf(u)
    BY <1>4, <2>1
  <2> HIDE DEF i
  <2>3. ToSet(ScopesInRange(<<u, i>>, a)) = {<<u, j>> : j \in Inner(u, i, a)}
    BY <2>2, ListedBelow
  <2>4. p[k + 1] \in {<<u, j>> : j \in Inner(u, i, a)}
    BY Zenon, <1>1, <2>2, <2>3
  <2>5. PICK j \in Inner(u, i, a) : p[k + 1] = <<u, j>>
    BY <2>4
  <2> QED
    BY <2>5 DEF i
<1>7. \A k \in 1 .. n - 1 : /\ p[k + 1][2] \in Entries(s) /\ p[k + 1][2] # 1
                            /\ Parent(s, p[k + 1][2]) = p[k][2]
  BY <1>2, <1>6 DEF Inner, ParentOf
<1>8. \A k \in 1 .. n - 1 : p[k][2] < p[k + 1][2]
  BY <1>2, <1>7, ParentIs
<1>9. ASSUME NEW k \in 1 .. n
      PROVE  \A m \in 1 .. n : k < m => p[k][2] < p[m][2]
  <2> DEFINE A == {m \in Nat : k + m + 1 <= n => p[k][2] < p[k + m + 1][2]}
  <2>1. 0 \in A
    BY <1>8
  <2>2. ASSUME NEW m \in A
        PROVE  m + 1 \in A
    <3> SUFFICES ASSUME k + (m + 1) + 1 <= n
                 PROVE  p[k][2] < p[k + (m + 1) + 1][2]
      OBVIOUS
    <3>1. /\ k + m + 1 \in 1 .. n - 1 /\ k + m + 1 \in 1 .. n /\ k + (m + 1) + 1 \in 1 .. n
          /\ (k + m + 1) + 1 = k + (m + 1) + 1
      OBVIOUS
    <3>2. p[k][2] < p[k + m + 1][2] /\ p[k + m + 1][2] < p[(k + m + 1) + 1][2]
      BY <1>8, <3>1
    <3>3. {p[k][2], p[k + m + 1][2], p[k + (m + 1) + 1][2]} \subseteq Nat
      BY <1>5, <3>1
    <3> QED
      BY <3>1, <3>2, <3>3
  <2>3. \A m \in Nat : m \in A
    <3>1. A \in SUBSET Nat
      OBVIOUS
    <3> HIDE DEF A
    <3> QED
      BY <2>1, <2>2, <3>1, Induct
  <2>4. ASSUME NEW m \in 1 .. n, k < m
        PROVE  p[k][2] < p[m][2]
    <3>1. m - k - 1 \in Nat /\ k + (m - k - 1) + 1 = m /\ m <= n
      BY <2>4
    <3>2. m - k - 1 \in A
      BY Zenon, <2>3, <3>1
    <3>3. k + (m - k - 1) + 1 <= n => p[k][2] < p[k + (m - k - 1) + 1][2]
      BY Zenon, <3>2
    <3> QED
      BY Zenon, <3>1, <3>3
  <2> QED
    BY <2>4
<1>10. \A k \in 1 .. n : Around(s, p[k][2]) = {p[m][2] : m \in 1 .. k}
  <2> DEFINE A == {k \in Nat : k + 1 <= n => Around(s, p[k + 1][2]) = {p[m][2] : m \in 1 .. k + 1}}
  <2>1. 0 \in A
    <3>1. p[1][2] = 1 /\ 1 \in Entries(s)
      BY <1>1, <1>2, <1>4
    <3>2. Around(s, 1) = {1}
      BY <1>2, <3>1, AroundParent
    <3>3. {p[m][2] : m \in 1 .. 0 + 1} = {1}
      BY <3>1
    <3> QED
      BY <3>1, <3>2, <3>3
  <2>2. ASSUME NEW k \in A
        PROVE  k + 1 \in A
    <3> SUFFICES ASSUME (k + 1) + 1 <= n
                 PROVE  Around(s, p[(k + 1) + 1][2]) = {p[m][2] : m \in 1 .. (k + 1) + 1}
      OBVIOUS
    <3> DEFINE x == p[(k + 1) + 1][2]
    <3>1. k \in Nat /\ k + 1 \in 1 .. n - 1
      OBVIOUS
    <3>2. Around(s, p[k + 1][2]) = {p[m][2] : m \in 1 .. k + 1}
      BY <3>1
    <3>3. x \in Entries(s) /\ x # 1 /\ Parent(s, x) = p[k + 1][2]
      BY <1>7, <3>1
    <3> HIDE DEF x
    <3>4. Around(s, x) = {x} \cup {p[m][2] : m \in 1 .. k + 1}
      BY <1>2, <3>2, <3>3, AroundParent
    <3>5. \A m : m \in 1 .. (k + 1) + 1 <=> m \in 1 .. k + 1 \/ m = (k + 1) + 1
      BY <3>1
    <3>6. {p[m][2] : m \in 1 .. (k + 1) + 1} = {x} \cup {p[m][2] : m \in 1 .. k + 1}
      BY <3>5 DEF x
    <3> QED
      BY <3>4, <3>6 DEF x
  <2>3. \A k \in Nat : k \in A
    <3>1. A \in SUBSET Nat
      OBVIOUS
    <3> HIDE DEF A
    <3> QED
      BY <2>1, <2>2, <3>1, Induct
  <2>4. ASSUME NEW k \in 1 .. n
        PROVE  Around(s, p[k][2]) = {p[m][2] : m \in 1 .. k}
    <3>1. k - 1 \in Nat /\ (k - 1) + 1 = k /\ k <= n
      OBVIOUS
    <3>2. k - 1 \in A
      BY Zenon, <2>3, <3>1
    <3>3. (k - 1) + 1 <= n => Around(s, p[(k - 1) + 1][2]) = {p[m][2] : m \in 1 .. (k - 1) + 1}
      BY Zenon, <3>2
    <3> QED
      BY Zenon, <3>1, <3>3
  <2> QED
    BY <2>4
<1>11. p[1] = Root(u) /\ p[1][2] = 1
  BY <1>1 DEF Root
<1> QED
  BY <1>1, <1>3, <1>4, <1>5, <1>6, <1>9, <1>10, <1>11 DEF UpTo

(* The address is in every scope of the path.                               *)
LEMMA PathInRange ==
    ASSUME NEW u, IsTree(u), NEW a, isPcInRange(Root(u), a),
           NEW p, Leads(p, u, a, Root(u))
    PROVE  \A k \in 1 .. Len(p) : /\ p[k][2] = 1 \/ isScope(<<u, p[k][2]>>)
                                  /\ isPcInRange(<<u, p[k][2]>>, a)
<1>1. /\ Len(p) \in Nat \ {0} /\ p[1][2] = 1
      /\ \A k \in 1 .. Len(p) - 1 : p[k + 1][2] \in Inner(u, p[k][2], a)
  BY PathFacts
<1> SUFFICES ASSUME NEW k \in 1 .. Len(p)
             PROVE  /\ p[k][2] = 1 \/ isScope(<<u, p[k][2]>>)
                    /\ isPcInRange(<<u, p[k][2]>>, a)
  OBVIOUS
<1>2. CASE k = 1
  BY <1>1, <1>2 DEF Root
<1>3. CASE k # 1
  <2>1. k - 1 \in 1 .. Len(p) - 1 /\ (k - 1) + 1 = k
    BY <1>1, <1>3
  <2>2. p[k][2] \in Inner(u, p[k - 1][2], a)
    BY <1>1, <2>1
  <2> QED
    BY Zenon, <2>2 DEF Inner
<1> QED
  BY <1>2, <1>3

(* The path is all the scopes that hold the address: of those side by side, *)
(* one at most does.                                                        *)
LEMMA PathIsHolding ==
    ASSUME NEW u, IsTree(u), IsCompiled(debugInfo[u]), NEW a \in Nat, isPcInRange(Root(u), a),
           NEW p, Leads(p, u, a, Root(u))
    PROVE  ScopesHolding(u, a) = {p[k][2] : k \in 1 .. Len(p)}
<1> DEFINE s == debugInfo[u]
           H == ScopesHolding(u, a)
           O == {p[k][2] : k \in 1 .. Len(p)}
<1>1. /\ Len(p) \in Nat \ {0} /\ p[1][2] = 1
      /\ ScopesInRange(p[Len(p)], a) = << >>
      /\ \A k \in 1 .. Len(p) : p[k] = <<u, p[k][2]>> /\ p[k][2] \in EntriesOf(u)
      /\ \A k \in 1 .. Len(p) - 1 : p[k + 1][2] \in Inner(u, p[k][2], a)
      /\ \A k \in 1 .. Len(p) : Around(s, p[k][2]) = UpTo(p, k)
  BY PathFacts
<1>2. IsUnit(s) /\ EntriesOf(u) = Entries(s) /\ EntriesOf(u) \subseteq Nat
  BY UnitFacts DEF IsTree, EntriesOf
<1>3. ASSUME NEW k \in 1 .. Len(p)
      PROVE  p[k][2] \in H
  <2>1. \A m \in 1 .. k : m \in 1 .. Len(p)
    BY <1>1
  <2>2. \A j \in Around(s, p[k][2]) : \E m \in 1 .. Len(p) : j = p[m][2]
    <3>1. Around(s, p[k][2]) = {p[m][2] : m \in 1 .. k}
      BY Zenon, <1>1 DEF UpTo
    <3> QED
      BY Zenon, <2>1, <3>1
  <2>3. \A j \in Around(s, p[k][2]) : (j = 1 \/ isScope(<<u, j>>)) /\ isPcInRange(<<u, j>>, a)
    <3>1. \A m \in 1 .. Len(p) : /\ p[m][2] = 1 \/ isScope(<<u, p[m][2]>>)
                                 /\ isPcInRange(<<u, p[m][2]>>, a)
      BY Zenon, PathInRange
    <3> QED
      BY Zenon, <2>2, <3>1
  <2> QED
    BY Zenon, <1>1, <2>3 DEF ScopesHolding
<1>4. ASSUME NEW i \in H, i \notin O, \A j \in H : j < i => j \in O
      PROVE  FALSE
  <2>1. /\ i \in Entries(s)
        /\ \A j \in Around(s, i) : (j = 1 \/ isScope(<<u, j>>)) /\ isPcInRange(<<u, j>>, a)
    BY <1>2 DEF ScopesHolding
  <2>2. i # 1
    <3>1. 1 \in 1 .. Len(p)
      BY <1>1
    <3> QED
      BY Zenon, <1>1, <1>4, <3>1
  <2> DEFINE c == Parent(s, i)
  <2>3. c \in Entries(s) /\ c < i /\ Around(s, i) = {i} \cup Around(s, c)
    BY <1>2, <2>1, <2>2, ParentIs, AroundParent
  <2> HIDE DEF c
  <2>4. c \in H
    BY <1>2, <2>1, <2>3 DEF ScopesHolding
  <2>5. PICK k \in 1 .. Len(p) : p[k][2] = c
    BY <1>4, <2>3, <2>4
  <2>6. isScope(<<u, i>>) /\ isPcInRange(<<u, i>>, a)
    BY <2>1, <2>2, <2>3
  <2>7. i \in Inner(u, c, a)
    BY Zenon, <1>2, <2>1, <2>2, <2>6 DEF Inner, ParentOf, c
  <2>8. k # Len(p)
    <3> SUFFICES ASSUME k = Len(p)
                 PROVE  FALSE
      OBVIOUS
    <3>1. c \in EntriesOf(u) /\ p[k] = <<u, c>>
      BY <1>1, <2>5
    <3>2. ToSet(ScopesInRange(<<u, c>>, a)) = {<<u, j>> : j \in Inner(u, c, a)}
      BY <3>1, ListedBelow
    <3>3. ScopesInRange(<<u, c>>, a) = << >>
      BY Zenon, <1>1, <3>1
    <3>4. ToSet(<< >>) = {}
      BY DEF ToSet
    <3> QED
      BY <2>7, <3>2, <3>3, <3>4
  <2> DEFINE j == p[k + 1][2]
  <2>9. k \in 1 .. Len(p) - 1 /\ k + 1 \in 1 .. Len(p)
    BY <1>1, <2>8
  <2>10. j \in Inner(u, c, a) /\ j \in O
    BY <1>1, <2>5, <2>9
  <2> HIDE DEF j
  <2>11. /\ {i, j} \subseteq Entries(s) \ {1} /\ Parent(s, i) = Parent(s, j) /\ i # j
         /\ s[i].tag \in ScopeTags /\ s[j].tag \in ScopeTags
         /\ isPcInRange(<<u, i>>, a) /\ isPcInRange(<<u, j>>, a)
    BY <1>2, <1>4, <2>7, <2>10 DEF Inner, ParentOf, isScope, Entry
  <2>12. Addresses(s[i]) \cap Addresses(s[j]) = {}
    BY Zenon, <2>11 DEF IsCompiled
  <2>13. \A m \in {i, j} : s[m].lowPc \in Nat /\ s[m].length \in Nat
    BY <2>11 DEF IsCompiled
  <2>14. \A m \in {i, j} : a >= s[m].lowPc /\ a < s[m].lowPc + s[m].length
    BY <2>11 DEF isPcInRange, lowPc, highPc, Entry
  <2>15. ASSUME NEW m \in {i, j}
         PROVE  a \in Addresses(s[m])
    <3> DEFINE low == s[m].lowPc
               n == s[m].length
    <3>1. low \in Nat /\ n \in Nat /\ a >= low /\ a < low + n
      BY <2>13, <2>14
    <3>2. Addresses(s[m]) = low .. low + n - 1
      BY DEF Addresses
    <3> HIDE DEF low, n
    <3> QED
      BY <3>1, <3>2
  <2> QED
    BY <2>12, <2>15
<1>5. ASSUME NEW i \in H
      PROVE  i \in O
  <2> SUFFICES ASSUME i \notin O
               PROVE  FALSE
    OBVIOUS
  <2> DEFINE B == {j \in H : j \notin O}
  <2>1. B \in SUBSET Nat /\ B # {}
    BY <1>2 DEF ScopesHolding
  <2>2. PICK j \in B : \A m \in B : j <= m
    <3> HIDE DEF B
    <3> QED
      BY <2>1, LeastElement
  <2>3. \A m \in H : m < j => m \in O
    <3>1. H \subseteq Nat
      BY <1>2 DEF ScopesHolding
    <3> HIDE DEF H, O
    <3> QED
      BY <2>2, <3>1
  <2> HIDE DEF H, O
  <2> QED
    BY <1>4, <2>2, <2>3
<1> QED
  BY <1>3, <1>5

-----------------------------------------------------------------------------
(* The lists.                                                               *)

(* Every variable is visible in one scope at most: its parent.              *)
LEMMA VisibleFacts ==
    ASSUME NEW u, NEW S, NEW l
    PROVE  /\ \A v : v \in VisibleIn(u, S, l) <=> \E i \in S : v \in VisibleIn(u, {i}, l)
           /\ \A T : S \cap T = {} => VisibleIn(u, S, l) \cap VisibleIn(u, T, l) = {}
<1> DEFINE Is(v, w) == /\ w \in EntriesOf(u) \ {1} /\ isVariable(<<u, w>>)
                       /\ DeclaredBy(<<u, w>>, l) /\ v = <<u, w>>
<1>1. ASSUME NEW T, NEW v
      PROVE  v \in VisibleIn(u, T, l) <=> \E w : Is(v, w) /\ ParentOf(u, w) \in T
  BY Zenon DEF VisibleIn
<1>2. \A v, w, x : Is(v, w) /\ Is(v, x) => w = x
  OBVIOUS
<1> HIDE DEF Is
<1>3. ASSUME NEW v
      PROVE  v \in VisibleIn(u, S, l) <=> \E i \in S : v \in VisibleIn(u, {i}, l)
  BY Zenon, <1>1
<1>4. ASSUME NEW T, S \cap T = {}
      PROVE  VisibleIn(u, S, l) \cap VisibleIn(u, T, l) = {}
  <2> SUFFICES ASSUME NEW v, v \in VisibleIn(u, S, l), v \in VisibleIn(u, T, l)
               PROVE  FALSE
    BY Zenon
  <2>1. PICK w : Is(v, w) /\ ParentOf(u, w) \in S
    BY Zenon, <1>1
  <2>2. PICK x : Is(v, x) /\ ParentOf(u, x) \in T
    BY Zenon, <1>1
  <2>3. w = x
    BY Zenon, <1>2, <2>1, <2>2
  <2> QED
    BY <1>4, <2>1, <2>2, <2>3
<1> QED
  BY Zenon, <1>3, <1>4

(* The last scope of the path gives the local variables, the scopes before  *)
(* it the global ones.                                                      *)
LEMMA ListsOnPath ==
    ASSUME NEW u, IsTree(u), NEW a, NEW p, p = ScopePath(a), Leads(p, u, a, Root(u)), NEW l
    PROVE  /\ getLocalVariables(a, l) \in Seq(Nat \X Nat)
           /\ IsInjective(getLocalVariables(a, l))
           /\ ToSet(getLocalVariables(a, l)) = VisibleIn(u, {p[Len(p)][2]}, l)
           /\ getGlobalVariables(a, l) \in Seq(Nat \X Nat)
           /\ IsInjective(getGlobalVariables(a, l))
           /\ ToSet(getGlobalVariables(a, l)) = VisibleIn(u, UpTo(p, Len(p) - 1), l)
<1> DEFINE n == Len(p)
           X == Nat \X Nat
           list(k) == getVariablesAboveLine(p[k], l)
           ss == [k \in DOMAIN Front(p) |-> getVariablesAboveLine(p[k], l)]
<1>1. /\ n \in Nat \ {0} /\ p \in Seq(NodesOf(u))
      /\ \A k \in 1 .. n : p[k] = <<u, p[k][2]>> /\ p[k][2] \in EntriesOf(u) /\ p[k][2] \in Nat
      /\ \A k, m \in 1 .. n : k < m => p[k][2] < p[m][2]
  BY PathFacts
<1>2. ASSUME NEW k \in 1 .. n
      PROVE  /\ list(k) \in Seq(X) /\ IsInjective(list(k))
             /\ ToSet(list(k)) = VisibleIn(u, {p[k][2]}, l)
  <2> DEFINE i == p[k][2]
  <2>1. i \in EntriesOf(u) /\ p[k] = <<u, i>>
    BY <1>1
  <2> HIDE DEF i
  <2>2. /\ getVariablesAboveLine(<<u, i>>, l) \in Seq(X)
        /\ IsInjective(getVariablesAboveLine(<<u, i>>, l))
        /\ ToSet(getVariablesAboveLine(<<u, i>>, l)) = VisibleIn(u, {i}, l)
    BY <2>1, ListedBelow
  <2>3. getVariablesAboveLine(<<u, i>>, l) = list(k)
    BY Zenon, <2>1
  <2> QED
    BY Zenon, <2>2, <2>3 DEF i
<1>3. /\ getLocalVariables(a, l) = list(n) /\ n \in 1 .. n
  BY <1>1 DEF getLocalVariables, Last
<1>4. DOMAIN Front(p) = 1 .. n - 1 /\ \A k \in 1 .. n - 1 : Front(p)[k] = p[k]
  BY <1>1, FrontFacts
<1>5. getGlobalVariables(a, l) = FlattenSeq(ss)
  BY DEF getGlobalVariables
<1>6. /\ ss \in Seq(Seq(X)) /\ DOMAIN ss = 1 .. n - 1
      /\ \A k \in 1 .. n - 1 : ss[k] = list(k) /\ k \in 1 .. n
  <2>0. \A k \in 1 .. n - 1 : k \in 1 .. n
    BY <1>1
  <2>1. \A k \in 1 .. n - 1 : list(k) \in Seq(X) /\ k \in 1 .. n
    BY Zenon, <1>2, <2>0
  <2>2. ss = [k \in 1 .. n - 1 |-> list(k)]
    BY Zenon, <1>4
  <2> HIDE DEF list, ss
  <2> QED
    BY <1>1, <2>1, <2>2
<1> HIDE DEF list, ss, n
<1>7. \A i, j : i # j => VisibleIn(u, {i}, l) \cap VisibleIn(u, {j}, l) = {}
  <2>1. \A i, j : i # j => {i} \cap {j} = {}
    OBVIOUS
  <2> QED
    BY Zenon, <2>1, VisibleFacts
<1>8. \A k, m \in 1 .. n - 1 : k # m => p[k][2] # p[m][2]
  <2> SUFFICES ASSUME NEW k \in 1 .. n - 1, NEW m \in 1 .. n - 1, k # m
               PROVE  p[k][2] # p[m][2]
    OBVIOUS
  <2>1. k \in 1 .. n /\ m \in 1 .. n /\ (k < m \/ m < k)
    BY <1>1
  <2> QED
    BY <1>1, <2>1
<1>9. /\ FlattenSeq(ss) \in Seq(X) /\ IsInjective(FlattenSeq(ss))
      /\ ToSet(FlattenSeq(ss)) = UNION {ToSet(ss[k]) : k \in DOMAIN ss}
  <2>1. \A k \in DOMAIN ss : IsInjective(ss[k])
    BY Zenon, <1>2, <1>6
  <2>2. \A k, m \in DOMAIN ss : k # m => ToSet(ss[k]) \cap ToSet(ss[m]) = {}
    <3> SUFFICES ASSUME NEW k \in 1 .. n - 1, NEW m \in 1 .. n - 1, k # m
                 PROVE  ToSet(ss[k]) \cap ToSet(ss[m]) = {}
      BY Zenon, <1>6
    <3>1. /\ ToSet(ss[k]) = VisibleIn(u, {p[k][2]}, l)
          /\ ToSet(ss[m]) = VisibleIn(u, {p[m][2]}, l)
      BY Zenon, <1>2, <1>6
    <3>2. p[k][2] # p[m][2]
      BY Zenon, <1>8
    <3> QED
      BY Zenon, <1>7, <3>1, <3>2
  <2> QED
    BY Zenon, <1>6, <2>1, <2>2, FlattenFacts
<1>10. UNION {ToSet(ss[k]) : k \in DOMAIN ss} = VisibleIn(u, UpTo(p, n - 1), l)
  <2>1. ASSUME NEW v
        PROVE  v \in UNION {ToSet(ss[k]) : k \in DOMAIN ss} <=>
               \E k \in 1 .. n - 1 : v \in VisibleIn(u, {p[k][2]}, l)
    <3>1. \A k \in 1 .. n - 1 : ToSet(ss[k]) = VisibleIn(u, {p[k][2]}, l)
      BY Zenon, <1>2, <1>6
    <3> QED
      BY Zenon, <1>6, <3>1
  <2>2. ASSUME NEW v
        PROVE  v \in VisibleIn(u, UpTo(p, n - 1), l) <=>
               \E k \in 1 .. n - 1 : v \in VisibleIn(u, {p[k][2]}, l)
    <3> DEFINE S == UpTo(p, n - 1)
    <3>1. \A i : i \in S <=> \E k \in 1 .. n - 1 : i = p[k][2]
      BY DEF UpTo
    <3> HIDE DEF S
    <3>2. \A x : x \in VisibleIn(u, S, l) <=> \E i \in S : x \in VisibleIn(u, {i}, l)
      BY VisibleFacts
    <3>3. v \in VisibleIn(u, S, l) <=> \E k \in 1 .. n - 1 : v \in VisibleIn(u, {p[k][2]}, l)
      <4>1. ASSUME NEW k \in 1 .. n - 1, v \in VisibleIn(u, {p[k][2]}, l)
            PROVE  \E i \in S : v \in VisibleIn(u, {i}, l)
        BY <3>1, <4>1
      <4>2. ASSUME NEW i \in S, v \in VisibleIn(u, {i}, l)
            PROVE  \E k \in 1 .. n - 1 : v \in VisibleIn(u, {p[k][2]}, l)
        BY <3>1, <4>2
      <4> QED
        BY Zenon, <3>2, <4>1, <4>2
    <3> QED
      BY <3>3 DEF S
  <2> QED
    BY <2>1, <2>2
<1> QED
  BY <1>2, <1>3, <1>5, <1>9, <1>10 DEF n

(* The unit at an address is one of those that hold it.                     *)
LEMMA UnitAt ==
    ASSUME IsDebugInfo(debugInfo), NEW a, UnitsAt(a) # {}
    PROVE  /\ getCompileUnitAtPc(a) \in DOMAIN debugInfo
           /\ isPcInRange(Root(getCompileUnitAtPc(a)), a)
<1>1. DOMAIN debugInfo \subseteq 0 .. Len(debugInfo) /\ Len(debugInfo) \in Nat
  BY DEF IsDebugInfo
<1>2. UnitsAt(a) \in SUBSET (0 .. Len(debugInfo))
  BY <1>1 DEF UnitsAt
<1>3. getCompileUnitAtPc(a) \in UnitsAt(a)
  BY <1>1, <1>2, GreatestElement DEF getCompileUnitAtPc
<1> QED
  BY <1>3 DEF UnitsAt

LEMMA RootIsNode ==
    ASSUME NEW u, IsTree(u)
    PROVE  Root(u) \in NodesOf(u)
<1> DEFINE s == debugInfo[u]
<1>1. /\ Len(s) \in Nat \ {0} /\ Depth(s, 0) = 0 /\ Depth(s, Len(s)) = 0
      /\ \A i \in 1 .. Len(s) - 1 : Depth(s, i) > 0
      /\ s[1] = EndOfSiblings => Depth(s, 1) = Depth(s, 0) - 1
  <2>1. IsUnit(s) /\ 1 - 1 = 0
    BY DEF IsTree
  <2>2. Len(s) \in Nat \ {0}
    BY <2>1, UnitFacts
  <2>3. 1 \in 1 .. Len(s)
    BY <2>2
  <2> QED
    BY <2>1, <2>2, <2>3, UnitFacts
<1>2. s[1] # EndOfSiblings
  <2> DEFINE n == Len(s)
  <2>0. n \in Nat \ {0}
    BY <1>1
  <2> HIDE DEF n
  <2>1. 1 = n \/ 1 \in 1 .. n - 1
    BY <2>0
  <2>2. 0 - 1 # 0 /\ ~ (0 - 1 > 0)
    OBVIOUS
  <2> QED
    BY Zenon, <1>1, <2>1, <2>2 DEF n
<1>3. 1 \in EntriesOf(u)
  BY <1>1, <1>2, UnitFacts DEF IsTree, EntriesOf
<1> QED
  BY Zenon, <1>3, NodeFacts DEF Root

LEMMA ListsThere ==
    ASSUME NEW a \in Nat, NEW u, u = getCompileUnitAtPc(a), IsTree(u),
           isPcInRange(Root(u), a), IsCompiled(debugInfo[u]), NEW l
    PROVE  ListsAreVisible(a, l)
<1> DEFINE p == ScopePath(a)
           n == Len(p)
           H == ScopesHolding(u, a)
           locals == getLocalVariables(a, l)
           globals == getGlobalVariables(a, l)
<1>1. Leads(p, u, a, Root(u))
  BY RootIsNode, ScopePathLeads
<1> HIDE DEF p
<1>2. H = UpTo(p, n)
  BY <1>1, PathIsHolding DEF UpTo
<1>3. /\ n \in Nat \ {0}
      /\ \A k \in 1 .. n : p[k][2] \in Nat
      /\ \A k, m \in 1 .. n : k < m => p[k][2] < p[m][2]
  BY <1>1, PathFacts
<1>4. /\ locals \in Seq(Nat \X Nat) /\ globals \in Seq(Nat \X Nat)
      /\ IsInjective(locals) /\ IsInjective(globals)
      /\ ToSet(locals) = VisibleIn(u, {p[n][2]}, l)
      /\ ToSet(globals) = VisibleIn(u, UpTo(p, n - 1), l)
  BY <1>1, ListsOnPath DEF p
<1> HIDE DEF n, H, locals, globals
<1>5. \A k \in 1 .. n : k # n => k \in 1 .. n - 1 /\ p[k][2] < p[n][2]
  BY <1>3
<1>6. Max(H) = p[n][2]
  <2>1. p[n][2] \in H /\ \A i \in H : p[n][2] >= i /\ i \in Nat
    <3>1. n \in 1 .. n
      BY <1>3
    <3>2. \A i \in H : \E k \in 1 .. n : i = p[k][2]
      BY <1>2 DEF UpTo
    <3>3. p[n][2] \in H
      BY <1>2, <3>1 DEF UpTo
    <3>4. \A k \in 1 .. n : p[n][2] >= p[k][2] /\ p[k][2] \in Nat
      BY <1>3, <1>5
    <3> QED
      BY Zenon, <3>2, <3>3, <3>4
  <2>2. \A x \in H : (\A y \in H : x >= y) => x = p[n][2]
    BY <2>1
  <2>3. \A y \in H : p[n][2] >= y
    BY <2>1
  <2> QED
    BY <2>1, <2>2, <2>3 DEF Max
<1>7. H \ {p[n][2]} = UpTo(p, n - 1)
  <2>1. ASSUME NEW i \in H, i # p[n][2]
        PROVE  i \in UpTo(p, n - 1)
    <3>1. PICK k \in 1 .. n : i = p[k][2]
      BY <1>2 DEF UpTo
    <3>2. k \in 1 .. n - 1
      BY <1>5, <2>1, <3>1
    <3> QED
      BY <3>1, <3>2 DEF UpTo
  <2>2. ASSUME NEW i \in UpTo(p, n - 1)
        PROVE  i \in H /\ i # p[n][2]
    <3>1. PICK k \in 1 .. n - 1 : i = p[k][2]
      BY DEF UpTo
    <3>2. k \in 1 .. n /\ n \in 1 .. n /\ k # n
      BY <1>3
    <3>3. p[k][2] < p[n][2] /\ p[n][2] \in Nat /\ p[k][2] \in Nat
      BY <1>3, <1>5, <3>2
    <3> QED
      BY <1>2, <3>1, <3>2, <3>3 DEF UpTo
  <2> QED
    BY <2>1, <2>2
<1>8. ToSet(locals) \cap ToSet(globals) = {}
  <2>1. p[n][2] \notin UpTo(p, n - 1)
    BY <1>7
  <2>2. {p[n][2]} \cap UpTo(p, n - 1) = {}
    BY <2>1
  <2>3. VisibleIn(u, {p[n][2]}, l) \cap VisibleIn(u, UpTo(p, n - 1), l) = {}
    BY <2>2, VisibleFacts
  <2> QED
    BY Zenon, <1>4, <2>3
<1>9. IsInjective(locals \o globals)
  BY Zenon, <1>4, <1>8, ConcatFacts
<1> QED
  BY Zenon, <1>4, <1>6, <1>7, <1>9 DEF ListsAreVisible, locals, globals, H

-----------------------------------------------------------------------------
(* The theorems.                                                            *)

LEMMA TreesAreThere ==
    ASSUME ParserInv, Parsed
    PROVE  /\ IsDebugInfo(debugInfo)
           /\ \A u \in DOMAIN debugInfo : IsTree(u)
<1>1. /\ IsDebugInfo(debugInfo) /\ unit \in 1 .. Len(debugInfo) + 1
      /\ \A n \in DOMAIN children : children[n] \in Seq(Nat \X Nat)
      /\ \A u \in 1 .. unit - 1 : IsStream(u)
  BY DEF ParserInv
<1>2. unit > Len(debugInfo) /\ DOMAIN debugInfo = 1 .. Len(debugInfo) /\ Len(debugInfo) \in Nat
  BY <1>1 DEF Parsed, IsDebugInfo
<1>3. \A u \in DOMAIN debugInfo : u \in 1 .. unit - 1
  BY <1>1, <1>2
<1>4. \A u \in DOMAIN debugInfo : u \in Nat /\ IsUnit(debugInfo[u])
  BY Zenon, <1>1, EntriesAreNumbers
<1> QED
  BY Zenon, <1>1, <1>3, <1>4 DEF IsTree

(* An entry is the child of its parent only.                                *)
LEMMA ParentEntryIs ==
    ASSUME ParserInv, Parsed, NEW u \in DOMAIN debugInfo, NEW w \in EntriesOf(u) \ {1},
           ParentOf(u, w) \in EntriesOf(u)
    PROVE  getParentEntry(<<u, w>>) = <<u, ParentOf(u, w)>>
<1> DEFINE v == <<u, w>>
           c == <<u, ParentOf(u, w)>>
<1>1. /\ \A x \in DOMAIN debugInfo : IsTree(x)
      /\ \A x \in DOMAIN debugInfo :
            /\ {n \in DOMAIN children : n[1] = x} = {<<x, i>> : i \in EntriesOf(x)}
            /\ \A i \in EntriesOf(x) :
                  ToSet(children[<<x, i>>]) = {<<x, j>> : j \in Offspring(debugInfo[x], i)}
  BY TreesAreThere DEF IsTree, IsStream, Enumerates
<1>2. c \in DOMAIN children /\ v \in ToSet(children[c])
  <2>1. w \in Offspring(debugInfo[u], ParentOf(u, w))
    BY DEF Offspring, EntriesOf, ParentOf
  <2> QED
    BY <1>1, <2>1
<1>3. ASSUME NEW n \in DOMAIN children, v \in ToSet(children[n])
      PROVE  n = c
  <2>1. PICK x \in DOMAIN debugInfo : \E i \in EntriesOf(x) : n = <<x, i>>
    BY DEF ParserInv, Before, EntriesOf
  <2>2. PICK i \in EntriesOf(x) : n = <<x, i>>
    BY <2>1
  <2>3. PICK j \in Offspring(debugInfo[x], i) : v = <<x, j>>
    BY <1>1, <1>3, <2>2
  <2>4. x = u /\ j = w
    BY <2>3
  <2> QED
    BY <2>2, <2>3, <2>4 DEF Offspring, ParentOf
<1> QED
  BY Zenon, <1>2, <1>3 DEF getParentEntry

(* The two lists, of the path named by its definition.                      *)
LEMMA ListsAlong ==
    ASSUME NEW u, IsTree(u), NEW a, Leads(ScopePath(a), u, a, Root(u)), NEW l
    PROVE  /\ getLocalVariables(a, l) \in Seq(Nat \X Nat)
           /\ ToSet(getLocalVariables(a, l)) =
                 VisibleIn(u, {ScopePath(a)[Len(ScopePath(a))][2]}, l)
           /\ getGlobalVariables(a, l) \in Seq(Nat \X Nat)
           /\ ToSet(getGlobalVariables(a, l)) =
                 VisibleIn(u, UpTo(ScopePath(a), Len(ScopePath(a)) - 1), l)
<1> DEFINE p == ScopePath(a)
<1>1. Leads(p, u, a, Root(u))
  OBVIOUS
<1> HIDE DEF p
<1>2. /\ getLocalVariables(a, l) \in Seq(Nat \X Nat)
      /\ ToSet(getLocalVariables(a, l)) = VisibleIn(u, {p[Len(p)][2]}, l)
      /\ getGlobalVariables(a, l) \in Seq(Nat \X Nat)
      /\ ToSet(getGlobalVariables(a, l)) = VisibleIn(u, UpTo(p, Len(p) - 1), l)
  BY <1>1, ListsOnPath DEF p
<1> QED
  BY <1>2 DEF p

(* A variable that is listed is in a scope of the path, which holds the     *)
(* address.                                                                 *)
LEMMA ListedInScope ==
    ASSUME NEW u, u \in DOMAIN debugInfo, u = getCompileUnitAtPc(pc), IsTree(u),
           pc \in Nat, isPcInRange(Root(u), pc), IsCompiled(debugInfo[u]),
           NEW v \in ToSet(Listed)
    PROVE  \E w \in EntriesOf(u) \ {1} :
              /\ v = <<u, w>> /\ ParentOf(u, w) \in EntriesOf(u)
              /\ isPcInRange(<<u, ParentOf(u, w)>>, pc)
<1> DEFINE p == ScopePath(pc)
           n == Len(p)
           locals == getLocalVariables(pc, line)
           globals == getGlobalVariables(pc, line)
<1>1. Leads(p, u, pc, Root(u))
  BY RootIsNode, ScopePathLeads
<1> HIDE DEF p
<1>2. /\ n \in Nat \ {0} /\ p[1][2] = 1
      /\ \A k \in 1 .. n : p[k][2] \in EntriesOf(u)
  BY <1>1, PathFacts
<1>3. /\ locals \in Seq(Nat \X Nat) /\ globals \in Seq(Nat \X Nat)
      /\ ToSet(locals) = VisibleIn(u, {p[n][2]}, line)
      /\ ToSet(globals) = VisibleIn(u, UpTo(p, n - 1), line)
  <2>1. Leads(ScopePath(pc), u, pc, Root(u)) /\ p = ScopePath(pc)
    BY <1>1 DEF p
  <2>2. /\ getLocalVariables(pc, line) \in Seq(Nat \X Nat)
        /\ ToSet(getLocalVariables(pc, line)) = VisibleIn(u, {p[Len(p)][2]}, line)
        /\ getGlobalVariables(pc, line) \in Seq(Nat \X Nat)
        /\ ToSet(getGlobalVariables(pc, line)) = VisibleIn(u, UpTo(p, Len(p) - 1), line)
    BY Zenon, <2>1, ListsAlong
  <2> QED
    BY Zenon, <2>2 DEF n, locals, globals
<1>4. ToSet(Listed) = ToSet(globals) \cup ToSet(locals)
  <2>0. locals \in Seq(Nat \X Nat) /\ globals \in Seq(Nat \X Nat)
    BY <1>3
  <2> HIDE DEF locals, globals
  <2>1. ToSet(globals \o locals) = ToSet(globals) \cup ToSet(locals)
    BY <2>0, ConcatFacts
  <2> QED
    BY <2>1 DEF Listed, locals, globals
<1> HIDE DEF n, locals, globals
<1>5. PICK w \in EntriesOf(u) \ {1} :
          /\ v = <<u, w>> /\ isVariable(<<u, w>>)
          /\ ParentOf(u, w) = p[n][2] \/ ParentOf(u, w) \in UpTo(p, n - 1)
  <2>1. CASE v \in VisibleIn(u, {p[n][2]}, line)
    BY <2>1 DEF VisibleIn
  <2>2. CASE v \in VisibleIn(u, UpTo(p, n - 1), line)
    BY <2>2 DEF VisibleIn
  <2> QED
    BY <1>3, <1>4, <2>1, <2>2
<1>6. PICK k \in 1 .. n : ParentOf(u, w) = p[k][2]
  <2>1. CASE ParentOf(u, w) = p[n][2]
    <3>1. n \in 1 .. n
      BY <1>2
    <3> QED
      BY <2>1, <3>1
  <2>2. CASE ParentOf(u, w) \in UpTo(p, n - 1)
    <3>1. PICK k \in 1 .. n - 1 : ParentOf(u, w) = p[k][2]
      BY <2>2 DEF UpTo
    <3>2. k \in 1 .. n
      BY <1>2
    <3> QED
      BY <3>1, <3>2
  <2> QED
    BY <1>5, <2>1, <2>2
<1>7. p[k][2] \in EntriesOf(u) /\ isPcInRange(<<u, p[k][2]>>, pc)
  <2>1. \A k2 \in 1 .. n : isPcInRange(<<u, p[k2][2]>>, pc)
    BY Zenon, <1>1, PathInRange DEF n
  <2> QED
    BY Zenon, <1>2, <2>1
<1> QED
  BY Zenon, <1>5, <1>6, <1>7

(* In a supported program it is evaluated to its end.                       *)
LEMMA ListedIsSupported ==
    ASSUME ParserInv, Parsed,
           NEW u, u \in DOMAIN debugInfo, u = getCompileUnitAtPc(pc), IsTree(u),
           pc \in Nat, isPcInRange(Root(u), pc), IsCompiled(debugInfo[u]), Supported,
           NEW v \in ToSet(Listed)
    PROVE  Outcome(v) = "running"
<1>1. PICK w \in EntriesOf(u) \ {1} :
          /\ v = <<u, w>> /\ ParentOf(u, w) \in EntriesOf(u)
          /\ isPcInRange(<<u, ParentOf(u, w)>>, pc)
  BY Zenon, ListedInScope
<1>2. getParentEntry(v) = <<u, ParentOf(u, w)>>
  BY Zenon, <1>1, ParentEntryIs
<1> DEFINE entry == debugInfo[u][w]
           c == debugInfo[u][ParentOf(u, w)]
<1>3. /\ entry.location # Absent => entry.location.op \in {"addr", "fbreg"}
      /\ entry.location # Absent /\ entry.location.op = "fbreg" => c.frameBase = "call_frame_cfa"
  BY <1>1 DEF Supported
<1>4. c.frameBase = "call_frame_cfa" => HasCfa
  <2>1. c.frameBase = "call_frame_cfa" =>
            \A a \in Addresses(c) : FdesAt(fdes, a) # {} /\ CanRun(FdeAt(fdes, a))
    BY Zenon, <1>1 DEF Supported
  <2>2. pc \in Addresses(c)
    <3> DEFINE low == c.lowPc
               length == c.length
    <3>1. low \in Nat /\ length \in Nat
      BY <1>1 DEF IsCompiled, EntriesOf
    <3>2. pc >= low /\ pc < low + length
      BY <1>1 DEF isPcInRange, lowPc, highPc, Entry
    <3>3. Addresses(c) = low .. low + length - 1
      BY DEF Addresses
    <3> HIDE DEF low, length
    <3> QED
      BY <3>1, <3>2, <3>3
  <2> QED
    BY Zenon, <2>1, <2>2 DEF HasCfa
<1>5. expression(v) = entry.location /\ frameBase(v) = c.frameBase
  BY <1>1, <1>2 DEF expression, frameBase, Entry
<1>6. expression(v) # Absent =>
          /\ expression(v).op # "unsupported" /\ expression(v).op # "empty"
          /\ IsOnFrame(v) => frameBase(v) = "call_frame_cfa" /\ HasCfa
  <2> HIDE DEF entry, c
  <2> QED
    BY <1>3, <1>4, <1>5 DEF IsOnFrame
<1> QED
  BY <1>6, AbsentAssumption DEF Outcome, Exits, IsUndefined

(* The location of no entry of a supported program is a list.               *)
LEMMA LoadGoesOn ==
    ASSUME ParserInv', Load, Supported
    PROVE  status = "running" /\ status' = "running"
<1>1. debugInfo' = debugInfo
  BY Zenon DEF Load, Parse, OpenEntry, LeafEntry, EndChildren
<1>2. ~ HasLocationList(unit - 1)'
  <2> SUFFICES ASSUME NEW v \in DOMAIN children',
                      Entry(v)'.location # Absent, Entry(v)'.location.op = "loclist"
               PROVE  FALSE
    BY Zenon DEF HasLocationList, Constructed
  <2>1. v[1] \in DOMAIN debugInfo /\ v[2] \in EntriesOf(v[1])
    BY <1>1 DEF ParserInv, Before, EntriesOf
  <2> QED
    BY <1>1, <2>1 DEF Supported, Entry
<1> QED
  BY Zenon, <1>2 DEF Load

(* NeverExits with what it rests on: the parser's invariant, and that the   *)
(* units are what a compiler writes.                                        *)
ListsInv ==
    /\ ParserInv
    /\ pc \in Nat
    /\ \A u \in DOMAIN debugInfo : IsCompiled(debugInfo[u])
    /\ NeverExits

LEMMA ListsAreRightThere == ListsInv => ListsAreRight
<1> SUFFICES ASSUME ListsInv, Parsed, UnitsAt(pc) # {}
             PROVE  ListsAreVisible(pc, line)
  BY DEF ListsAreRight
<1> DEFINE u == getCompileUnitAtPc(pc)
<1>1. IsDebugInfo(debugInfo) /\ \A v \in DOMAIN debugInfo : IsTree(v)
  BY Zenon, TreesAreThere DEF ListsInv
<1>2. u \in DOMAIN debugInfo /\ isPcInRange(Root(u), pc)
  BY Zenon, <1>1, UnitAt
<1> HIDE DEF u
<1>3. IsTree(u) /\ IsCompiled(debugInfo[u]) /\ pc \in Nat
  BY Zenon, <1>1, <1>2 DEF ListsInv
<1> QED
  BY Zenon, <1>2, <1>3, ListsThere DEF u

(* For any programs a compiler writes, any addresses and any lines, the     *)
(* lists are right, and no supported program ends the emulator.             *)
THEOREM ListsInductive == Spec => []ListsInv
<1>1. Init /\ ParserInv => ListsInv
  <2> SUFFICES ASSUME Init, ParserInv
               PROVE  ListsInv
    OBVIOUS
  <2>1. PICK program \in Programs : StartParsing(program.units)
    BY DEF Init
  <2>2. \A u \in DOMAIN debugInfo : IsCompiled(debugInfo[u])
    BY <2>1, CompiledAssumption DEF StartParsing
  <2>3. pc \in Nat /\ status = "running"
    BY AddressesAssumption DEF Init
  <2> QED
    BY Zenon, <2>2, <2>3 DEF ListsInv, NeverExits
<1>2. ParserInv /\ ParserInv' /\ ListsInv /\ [Next]_vars => ListsInv'
  <2> SUFFICES ASSUME ParserInv', ListsInv, [Next]_vars
               PROVE  ListsInv'
    OBVIOUS
  <2>1. debugInfo' = debugInfo /\ fdes' = fdes
    BY DEF Next, Load, Parse, OpenEntry, LeafEntry, EndChildren, Guest, Render,
           RenderStops, RenderOutside, vars, parseVars
  <2>2. \A u \in DOMAIN debugInfo' : IsCompiled(debugInfo'[u])
    BY Zenon, <2>1 DEF ListsInv
  <2>3. pc' \in Nat
    BY AddressesAssumption
       DEF ListsInv, Next, Load, Guest, Render, RenderStops, RenderOutside, vars
  <2>4. Supported' <=> Supported
    BY <2>1 DEF Supported, EntriesOf, ParentOf
  <2>5. NeverExits'
    <3> SUFFICES ASSUME Supported
                 PROVE  status' = "running" \/ (status' = "undefined" /\ (UnitsAt(pc) = {})')
      BY Zenon, <2>4 DEF NeverExits
    <3>1. status = "running" \/ (status = "undefined" /\ UnitsAt(pc) = {})
      BY Zenon DEF ListsInv, NeverExits
    <3>2. CASE Load
      BY Zenon, <3>2, LoadGoesOn
    <3>3. CASE RenderStops
      <4>1. PICK k \in DOMAIN Listed : Outcome(Listed[k]) # "running"
        BY Zenon, <3>3 DEF RenderStops
      <4>2. Parsed /\ UnitsAt(pc) # {}
        BY Zenon, <3>3 DEF RenderStops
      <4>3. Listed[k] \in ToSet(Listed)
        BY Zenon, <4>1 DEF ToSet
      <4> DEFINE u == getCompileUnitAtPc(pc)
      <4>4. IsDebugInfo(debugInfo) /\ \A w \in DOMAIN debugInfo : IsTree(w)
        BY Zenon, <4>2, TreesAreThere DEF ListsInv
      <4>5. u \in DOMAIN debugInfo /\ isPcInRange(Root(u), pc)
        BY Zenon, <4>2, <4>4, UnitAt
      <4> HIDE DEF u
      <4>6. IsTree(u) /\ IsCompiled(debugInfo[u]) /\ pc \in Nat
        BY Zenon, <4>4, <4>5 DEF ListsInv
      <4> QED
        BY Zenon, <4>1, <4>2, <4>3, <4>5, <4>6, ListedIsSupported DEF u, ListsInv
    <3>4. CASE RenderOutside
      <4>1. status' = "undefined" /\ UnitsAt(pc) = {} /\ pc' = pc /\ debugInfo' = debugInfo
        BY Zenon, <3>4 DEF RenderOutside, parseVars
      <4> QED
        BY Zenon, <4>1 DEF UnitsAt, isPcInRange, lowPc, highPc, Root, Entry
    <3>5. CASE status = "running" /\ status' = status
      BY <3>5
    <3>6. CASE UNCHANGED vars
      <4>1. status' = status /\ pc' = pc /\ debugInfo' = debugInfo
        BY Zenon, <3>6 DEF vars, parseVars
      <4>2. UnitsAt(pc) = {} => (UnitsAt(pc) = {})'
        BY Zenon, <4>1 DEF UnitsAt, isPcInRange, lowPc, highPc, Root, Entry
      <4> QED
        BY Zenon, <3>1, <4>1, <4>2
    <3> QED
      BY Zenon, <3>2, <3>3, <3>4, <3>5, <3>6 DEF Next, Guest, Render
  <2> QED
    BY Zenon, <2>2, <2>3, <2>5 DEF ListsInv
<1> QED
  BY <1>1, <1>2, ParserIsInductive, PTL DEF Spec

(* At every address of the program the debugger lists the variables of the  *)
(* innermost function there as local, those around it as global, and        *)
(* nothing else.                                                            *)
THEOREM ListsAreRightThm == Spec => []ListsAreRight
  BY ListsInductive, ListsAreRightThere, PTL

(* Neither loading a program nor listing its variables ends the emulator if *)
(* the program has only what the code has a case for, whatever its units    *)
(* and wherever in them the guest is.                                       *)
THEOREM NeverExitsThm == Spec => []NeverExits
<1>1. ListsInv => NeverExits
  BY DEF ListsInv
<1> QED
  BY <1>1, ListsInductive, PTL

-----------------------------------------------------------------------------
(***************************************************************************)
(* The frame descriptions, and the canonical frame address.                *)
(***************************************************************************)
Descriptions ==
    {fde \in [initialLocation : Nat, addressRange : Nat, instructions : Seq(Instructions)] :
        \E j \in DOMAIN fde.instructions : fde.instructions[j].op = "def_cfa"}

(* The parser of .debug_frame delivers them.                                *)
LEMMA FramesAreDescriptions ==
    ASSUME NEW section, IsDebugFrame(section)
    PROVE  generateFrameInfo(section) \in Seq(Descriptions)
<1> DEFINE ss == [i \in DOMAIN section |->
                    IF IsFde(section[i]) THEN <<Complete(section, section[i])>> ELSE << >>]
<1>1. \A i \in DOMAIN section : IsFde(section[i]) => Complete(section, section[i]) \in Descriptions
  <2> SUFFICES ASSUME NEW i \in DOMAIN section, IsFde(section[i])
               PROVE  Complete(section, section[i]) \in Descriptions
    OBVIOUS
  <2> DEFINE cie == section[section[i].ciePointer].instructions
             own == section[i].instructions
  <2>1. /\ cie \in Seq(Instructions) /\ own \in Seq(Instructions)
        /\ \E j \in DOMAIN cie : cie[j].op = "def_cfa"
        /\ section[i].initialLocation \in Nat /\ section[i].addressRange \in Nat
    BY DEF IsDebugFrame
  <2>2. Complete(section, section[i]) =
           [initialLocation |-> section[i].initialLocation,
            addressRange |-> section[i].addressRange, instructions |-> cie \o own]
    BY DEF Complete
  <2> HIDE DEF cie, own
  <2>3. PICK j \in DOMAIN cie : cie[j].op = "def_cfa"
    BY <2>1
  <2>4. /\ cie \o own \in Seq(Instructions) /\ j \in DOMAIN (cie \o own)
        /\ (cie \o own)[j].op = "def_cfa"
    BY <2>1, <2>3
  <2> QED
    BY <2>1, <2>2, <2>4 DEF Descriptions
<1>2. ss \in Seq(Seq(Descriptions))
  <2>1. \A i \in DOMAIN section : ss[i] \in Seq(Descriptions)
    BY <1>1
  <2>2. DOMAIN ss = 1 .. Len(section) /\ Len(section) \in Nat
    BY DEF IsDebugFrame
  <2> HIDE DEF ss
  <2>3. ss = [i \in 1 .. Len(section) |-> ss[i]]
    BY <2>2 DEF ss
  <2>4. DOMAIN section = 1 .. Len(section)
    BY DEF IsDebugFrame
  <2> QED
    BY <2>1, <2>2, <2>3, <2>4
<1> HIDE DEF ss
<1> QED
  BY <1>2, FlattenFacts DEF generateFrameInfo, ss

Row == [regNum : Nat, regOffset : Nat]

LEMMA InstructionStep ==
    ASSUME NEW row \in Row, NEW ins \in Instructions
    PROVE  /\ ProcessInstruction(row, ins) \in Row
           /\ ins.op \in {"def_cfa", "def_cfa_register"} => ProcessInstruction(row, ins).regNum = ins.reg
           /\ ins.op \notin {"def_cfa", "def_cfa_register"} =>
                 ProcessInstruction(row, ins).regNum = row.regNum
           /\ ins.op \in {"def_cfa", "def_cfa_offset"} => ProcessInstruction(row, ins).regOffset = ins.n
           /\ ins.op \in {"def_cfa_register", "rule", "unsupported"} =>
                 ProcessInstruction(row, ins).regOffset = row.regOffset
<1>1. AdvanceOperand(ins.n) * codeAlignmentFactor \in Nat
  <2>1. AdvanceOperand(ins.n) \in Nat
    BY DEF AdvanceOperand, Instructions
  <2> QED
    BY <2>1, FramesAssumption
<1>2. /\ row.regNum \in Nat /\ row.regOffset \in Nat /\ ins.reg \in Nat /\ ins.n \in Nat
      /\ row = [regNum |-> row.regNum, regOffset |-> row.regOffset]
  BY DEF Row, Instructions
<1> HIDE DEF AdvanceOperand
<1> DEFINE next == ProcessInstruction(row, ins)
<1>3. CASE ins.op = "advance_loc"
  <2>1. next = [row EXCEPT !.regOffset = @ + AdvanceOperand(ins.n) * codeAlignmentFactor]
    BY Zenon, <1>3 DEF ProcessInstruction
  <2> DEFINE delta == AdvanceOperand(ins.n) * codeAlignmentFactor
  <2>2. row.regOffset + delta \in Nat
    <3> HIDE DEF delta
    <3> QED
      BY <1>1, <1>2 DEF delta
  <2> HIDE DEF next, delta
  <2> QED
    BY <1>2, <1>3, <2>1, <2>2 DEF Row, next, delta
<1>4. CASE ins.op = "advance_loc1"
  BY <1>2, <1>4 DEF ProcessInstruction, Row
<1>5. CASE ins.op = "def_cfa"
  BY <1>2, <1>5 DEF ProcessInstruction, Row
<1>6. CASE ins.op = "def_cfa_register"
  BY <1>2, <1>6 DEF ProcessInstruction, Row
<1>7. CASE ins.op = "def_cfa_offset"
  BY <1>2, <1>7 DEF ProcessInstruction, Row
<1>8. CASE ins.op \in {"rule", "unsupported"}
  BY <1>2, <1>8 DEF ProcessInstruction, Row
<1> QED
  BY Zenon, <1>3, <1>4, <1>5, <1>6, <1>7, <1>8 DEF Instructions

(* The table, row by row: what is folded is the last row after each          *)
(* instruction.                                                             *)
IsTable(rows, fde) ==
    /\ rows[0] = FirstRow(fde)
    /\ \A i \in DOMAIN fde.instructions :
          rows[i] = ProcessInstruction(rows[i - 1], fde.instructions[i])
    /\ rows[Len(fde.instructions)] = LastRow(fde)

LEMMA TableExists ==
    ASSUME NEW fde \in Descriptions
    PROVE  \E rows : IsTable(rows, fde)
<1> DEFINE q == fde.instructions
           D == DOMAIN q
           base == FirstRow(fde)
           c == [T \in SUBSET D |-> Max(T)]
           g == [p \in D \X Row |-> ProcessInstruction(p[2], q[p[1]])]
           Eq(F) == F = [s \in SUBSET D |->
                       IF s = {} THEN base ELSE ProcessInstruction(F[s \ {Max(s)}], q[Max(s)])]
           iter == CHOOSE F : Eq(F)
<1>1. q \in Seq(Instructions) /\ Len(q) \in Nat /\ D = 1 .. Len(q) /\ base \in Row
  BY DEF Descriptions, FirstRow, Row
<1>2. LastRow(fde) = iter[D]
  BY DEF LastRow, FoldLeft, MapThenFoldSet
<1>3. \A T \in SUBSET D : T # {} => Max(T) \in T /\ c[T] = Max(T)
  <2> SUFFICES ASSUME NEW T \in SUBSET D, T # {}
               PROVE  Max(T) \in T
    OBVIOUS
  <2>1. T \in SUBSET (0 .. Len(q))
    BY <1>1
  <2> QED
    BY <1>1, <2>1, GreatestElement
<1>4. g \in [D \X Row -> Row]
  <2> SUFFICES ASSUME NEW i \in D, NEW row \in Row
               PROVE  ProcessInstruction(row, q[i]) \in Row
    OBVIOUS
  <2>1. q[i] \in Instructions
    BY <1>1
  <2> QED
    BY <2>1, InstructionStep
<1>5. IsFiniteSet(D)
  BY <1>1, FS_Interval
<1>6. \A i \in D, row \in Row : g[<<i, row>>] = ProcessInstruction(row, q[i])
  OBVIOUS
<1>7. PICK F : Folds(F, D, Row, base, c, g)
  <2> HIDE DEF D, base, c, g
  <2> QED
    BY <1>1, <1>3, <1>4, <1>5, FoldsExist
<1>8. Eq(F)
  <2>1. F \in [SUBSET D -> Row]
    BY <1>7 DEF Folds
  <2>2. ASSUME NEW s \in SUBSET D
        PROVE  F[s] = IF s = {} THEN base ELSE ProcessInstruction(F[s \ {Max(s)}], q[Max(s)])
    <3>1. F[s] = IF s = {} THEN base ELSE g[<<c[s], F[s \ {c[s]}]>>]
      BY Zenon, <1>7 DEF Folds
    <3>2. CASE s # {}
      <4>1. Max(s) \in D /\ c[s] = Max(s) /\ F[s \ {Max(s)}] \in Row
        BY <1>3, <2>1, <3>2
      <4>2. g[<<Max(s), F[s \ {Max(s)}]>>] = ProcessInstruction(F[s \ {Max(s)}], q[Max(s)])
        BY Zenon, <1>6, <4>1
      <4> QED
        BY Zenon, <3>1, <3>2, <4>1, <4>2
    <3> QED
      BY Zenon, <3>1, <3>2
  <2> HIDE DEF D, base, c, g
  <2>3. F = [s \in SUBSET D |-> F[s]]
    BY <2>1
  <2> QED
    BY <2>2, <2>3
<1>9. Eq(iter)
  <2> HIDE DEF Eq
  <2> QED
    BY Zenon, <1>8
<1>10. \A s \in SUBSET D :
          iter[s] = IF s = {} THEN base ELSE ProcessInstruction(iter[s \ {Max(s)}], q[Max(s)])
  <2>1. \A G : Eq(G) => \A s \in SUBSET D :
          G[s] = IF s = {} THEN base ELSE ProcessInstruction(G[s \ {Max(s)}], q[Max(s)])
    <3> HIDE DEF D, base
    <3> QED
      BY Zenon
  <2> HIDE DEF Eq, iter
  <2> QED
    BY Zenon, <1>9, <2>1
<1> DEFINE rows == [i \in 0 .. Len(q) |-> iter[1 .. i]]
<1> HIDE DEF iter, c, g, Eq
<1>11. rows[0] = base
  <2>1. 1 .. 0 = {} /\ 0 \in 0 .. Len(q)
    BY <1>1
  <2>2. rows[0] = iter[{}]
    BY <2>1
  <2>3. {} \in SUBSET D
    OBVIOUS
  <2> QED
    BY Zenon, <1>10, <2>2, <2>3
<1>12. ASSUME NEW i \in D
       PROVE  rows[i] = ProcessInstruction(rows[i - 1], q[i])
  <2> DEFINE s == 1 .. i
  <2>1. i \in 1 .. Len(q) /\ i \in Nat
    BY <1>1
  <2>2. rows[i] = iter[s] /\ rows[i - 1] = iter[1 .. i - 1]
    BY <1>1, <2>1
  <2>3. s \in SUBSET D /\ s # {} /\ s \in SUBSET (0 .. i) /\ i \in s /\ s \ {i} = 1 .. i - 1
    BY <1>1, <2>1
  <2>4. Max(s) \in s /\ \A y \in s : Max(s) >= y
    <3> HIDE DEF s
    <3> QED
      BY <2>1, <2>3, GreatestElement
  <2>5. Max(s) = i
    <3>1. Max(s) \in 1 .. i /\ Max(s) >= i
      BY <2>3, <2>4
    <3> HIDE DEF s
    <3> QED
      BY <2>1, <3>1
  <2> HIDE DEF s, rows
  <2> QED
    BY Zenon, <1>10, <2>2, <2>3, <2>5
<1>13. rows[Len(q)] = iter[D]
  BY <1>1
<1> HIDE DEF rows, D, q, base
<1>14. IsTable(rows, fde)
  BY Zenon, <1>2, <1>11, <1>12, <1>13 DEF IsTable, D, q, base
<1> QED
  BY <1>14

(* No instruction after the last one of ops changes the field they set.     *)
LastOf(fde, ops) == Max({i \in DOMAIN fde.instructions : fde.instructions[i].op \in ops})

LEMMA LastIs ==
    ASSUME NEW fde \in Descriptions, NEW ops,
           \E i \in DOMAIN fde.instructions : fde.instructions[i].op \in ops
    PROVE  /\ LastOf(fde, ops) \in DOMAIN fde.instructions
           /\ fde.instructions[LastOf(fde, ops)].op \in ops
           /\ \A i \in DOMAIN fde.instructions :
                 fde.instructions[i].op \in ops => i <= LastOf(fde, ops)
<1> DEFINE S == {i \in DOMAIN fde.instructions : fde.instructions[i].op \in ops}
           n == Len(fde.instructions)
<1>1. n \in Nat /\ DOMAIN fde.instructions = 1 .. n
  BY DEF Descriptions
<1>2. S \in SUBSET (0 .. n) /\ S # {} /\ S \in SUBSET (1 .. n)
  BY <1>1
<1> HIDE DEF S
<1>3. Max(S) \in S /\ \A y \in S : Max(S) >= y
  BY <1>1, <1>2, GreatestElement
<1>4. \A y \in S : y <= Max(S)
  BY <1>1, <1>2, <1>3
<1>5. LastOf(fde, ops) = Max(S)
  BY DEF LastOf, S
<1> QED
  BY Zenon, <1>3, <1>4, <1>5 DEF S

LEMMA LastRowIs ==
    ASSUME NEW fde \in Descriptions
    PROVE  /\ LastRow(fde).regNum =
                 fde.instructions[LastOf(fde, {"def_cfa", "def_cfa_register"})].reg
           /\ (\E i \in DOMAIN fde.instructions :
                  /\ \A j \in Advances(fde) : i > j
                  /\ fde.instructions[i].op \in {"def_cfa", "def_cfa_offset"}) =>
              LastRow(fde).regOffset =
                 fde.instructions[LastOf(fde, {"def_cfa", "def_cfa_offset"})].n
<1> DEFINE q == fde.instructions
           n == Len(q)
<1>1. /\ q \in Seq(Instructions) /\ n \in Nat /\ DOMAIN q = 1 .. n
      /\ \E j \in DOMAIN q : q[j].op = "def_cfa"
  BY DEF Descriptions
<1>2. PICK rows : IsTable(rows, fde)
  BY TableExists
<1>3. /\ rows[0] \in Row /\ rows[n] = LastRow(fde)
      /\ \A i \in 1 .. n : rows[i] = ProcessInstruction(rows[i - 1], q[i])
  <2>1. FirstRow(fde) \in Row
    BY DEF FirstRow, Row, Descriptions
  <2> QED
    BY <1>1, <1>2, <2>1 DEF IsTable
<1>4. \A i \in 1 .. n : q[i] \in Instructions
  BY <1>1
<1> HIDE DEF q, n
<1> DEFINE R == {k \in Nat : k <= n => rows[k] \in Row}
<1>5. \A k \in Nat : k \in R
  <2>1. 0 \in R
    BY <1>3
  <2>2. ASSUME NEW k \in R
        PROVE  k + 1 \in R
    <3>1. k \in Nat
      OBVIOUS
    <3> SUFFICES ASSUME k + 1 <= n
                 PROVE  rows[k + 1] \in Row
      BY <3>1
    <3>2. rows[k] \in Row /\ k + 1 \in 1 .. n /\ (k + 1) - 1 = k
      BY <1>1, <3>1
    <3> HIDE DEF R
    <3>3. rows[k + 1] = ProcessInstruction(rows[k], q[k + 1]) /\ q[k + 1] \in Instructions
      BY <1>3, <1>4, <3>2
    <3> QED
      BY Zenon, <3>2, <3>3, InstructionStep
  <2>3. R \in SUBSET Nat
    OBVIOUS
  <2> HIDE DEF R
  <2> QED
    BY <2>1, <2>2, <2>3, Induct
<1>6. \A i \in 1 .. n : /\ rows[i - 1] \in Row /\ q[i] \in Instructions
                        /\ rows[i] = ProcessInstruction(rows[i - 1], q[i])
  <2> SUFFICES ASSUME NEW i \in 1 .. n
               PROVE  rows[i - 1] \in Row
    BY <1>3, <1>4
  <2>1. i - 1 \in Nat /\ i - 1 <= n
    BY <1>1
  <2>2. i - 1 \in R
    BY Zenon, <1>5, <2>1
  <2> QED
    BY <2>1, <2>2
<1> HIDE DEF R
<1>7. LastRow(fde).regNum = q[LastOf(fde, {"def_cfa", "def_cfa_register"})].reg
  <2> DEFINE J == LastOf(fde, {"def_cfa", "def_cfa_register"})
  <2>1. /\ J \in 1 .. n /\ q[J].op \in {"def_cfa", "def_cfa_register"}
        /\ \A i \in 1 .. n : q[i].op \in {"def_cfa", "def_cfa_register"} => i <= J
    <3>1. \E j \in DOMAIN q : q[j].op \in {"def_cfa", "def_cfa_register"}
      BY <1>1
    <3> HIDE DEF J
    <3> QED
      BY <1>1, <3>1, LastIs DEF q, J
  <2> HIDE DEF J
  <2> DEFINE C == {k \in Nat : J + k <= n => rows[J + k].regNum = q[J].reg}
  <2>2. J \in Nat /\ J <= n
    BY <1>1, <2>1
  <2>3. 0 \in C
    <3>1. rows[J].regNum = q[J].reg
      <4>1. /\ rows[J - 1] \in Row /\ q[J] \in Instructions
            /\ rows[J] = ProcessInstruction(rows[J - 1], q[J])
        BY Zenon, <1>6, <2>1
      <4> HIDE DEF C
      <4> QED
        BY <2>1, <4>1, InstructionStep
    <3>2. J + 0 = J
      BY <2>2
    <3> QED
      BY <3>1, <3>2
  <2>4. ASSUME NEW k \in C
        PROVE  k + 1 \in C
    <3>1. k \in Nat
      OBVIOUS
    <3> SUFFICES ASSUME J + (k + 1) <= n
                 PROVE  rows[J + (k + 1)].regNum = q[J].reg
      BY <3>1
    <3> DEFINE i == J + (k + 1)
    <3>2. i \in 1 .. n /\ i - 1 = J + k /\ J + k <= n /\ ~ (i <= J)
      BY <1>1, <2>2, <3>1
    <3>3. rows[J + k].regNum = q[J].reg
      BY <3>2
    <3> HIDE DEF i, C
    <3>4. q[i].op \notin {"def_cfa", "def_cfa_register"}
      BY Zenon, <2>1, <3>2
    <3>5. /\ rows[J + k] \in Row /\ q[i] \in Instructions
          /\ rows[i] = ProcessInstruction(rows[J + k], q[i])
      BY Zenon, <1>6, <3>2
    <3>6. rows[i].regNum = rows[J + k].regNum
      BY Zenon, <3>4, <3>5, InstructionStep
    <3> QED
      BY Zenon, <3>3, <3>6 DEF i
  <2>5. C \in SUBSET Nat
    OBVIOUS
  <2>6. n - J \in C
    <3> HIDE DEF C
    <3>1. n - J \in Nat
      BY <1>1, <2>2
    <3> QED
      BY <2>3, <2>4, <2>5, <3>1, Induct
  <2>7. n - J \in Nat /\ J + (n - J) = n
    BY <1>1, <2>2
  <2>8. rows[n].regNum = q[J].reg
    BY <1>1, <2>6, <2>7
  <2> QED
    BY Zenon, <1>3, <2>8 DEF J
<1>8. ASSUME NEW i0 \in DOMAIN q, \A j \in Advances(fde) : i0 > j,
             q[i0].op \in {"def_cfa", "def_cfa_offset"}
      PROVE  LastRow(fde).regOffset = q[LastOf(fde, {"def_cfa", "def_cfa_offset"})].n
  <2> DEFINE J == LastOf(fde, {"def_cfa", "def_cfa_offset"})
  <2>1. /\ J \in 1 .. n /\ q[J].op \in {"def_cfa", "def_cfa_offset"}
        /\ \A i \in 1 .. n : q[i].op \in {"def_cfa", "def_cfa_offset"} => i <= J
    <3>1. \E j \in DOMAIN q : q[j].op \in {"def_cfa", "def_cfa_offset"}
      BY <1>8
    <3> HIDE DEF J
    <3> QED
      BY <1>1, <3>1, LastIs DEF q, J
  <2> HIDE DEF J
  <2>9. \A i \in 1 .. n : q[i].op \in {"advance_loc", "advance_loc1"} => i <= J
    <3> SUFFICES ASSUME NEW i \in 1 .. n, q[i].op \in {"advance_loc", "advance_loc1"}
                 PROVE  i <= J
      OBVIOUS
    <3>1. i \in Advances(fde)
      BY Zenon, <1>1 DEF Advances, q
    <3>2. i0 > i /\ i0 <= J
      BY Zenon, <1>1, <1>8, <2>1, <3>1
    <3> QED
      BY <1>1, <1>8, <2>1, <3>2
  <2> DEFINE C == {k \in Nat : J + k <= n => rows[J + k].regOffset = q[J].n}
  <2>2. J \in Nat /\ J <= n
    BY <1>1, <2>1
  <2>3. 0 \in C
    <3>1. rows[J].regOffset = q[J].n
      BY Zenon, <1>6, <2>1, InstructionStep
    <3>2. J + 0 = J
      BY <2>2
    <3> QED
      BY <3>1, <3>2
  <2>4. ASSUME NEW k \in C
        PROVE  k + 1 \in C
    <3>1. k \in Nat
      OBVIOUS
    <3> SUFFICES ASSUME J + (k + 1) <= n
                 PROVE  rows[J + (k + 1)].regOffset = q[J].n
      BY <3>1
    <3> DEFINE i == J + (k + 1)
    <3>2. i \in 1 .. n /\ i - 1 = J + k /\ J + k <= n /\ ~ (i <= J)
      BY <1>1, <2>2, <3>1
    <3>3. rows[J + k].regOffset = q[J].n
      BY <3>2
    <3> HIDE DEF i, C
    <3>5. /\ rows[J + k] \in Row /\ q[i] \in Instructions
          /\ rows[i] = ProcessInstruction(rows[J + k], q[i])
      BY Zenon, <1>6, <3>2
    <3>4. q[i].op \in {"def_cfa_register", "rule", "unsupported"}
      <4>1. /\ q[i].op \notin {"def_cfa", "def_cfa_offset"}
            /\ q[i].op \notin {"advance_loc", "advance_loc1"}
        BY Zenon, <2>1, <2>9, <3>2
      <4> QED
        BY <3>5, <4>1 DEF Instructions
    <3>6. rows[i].regOffset = rows[J + k].regOffset
      BY Zenon, <3>4, <3>5, InstructionStep
    <3> QED
      BY Zenon, <3>3, <3>6 DEF i
  <2>5. C \in SUBSET Nat
    OBVIOUS
  <2>6. n - J \in C
    <3> HIDE DEF C
    <3>1. n - J \in Nat
      BY <1>1, <2>2
    <3> QED
      BY <2>3, <2>4, <2>5, <3>1, Induct
  <2>7. n - J \in Nat /\ J + (n - J) = n
    BY <1>1, <2>2
  <2>8. rows[n].regOffset = q[J].n
    BY <1>1, <2>6, <2>7
  <2> QED
    BY Zenon, <1>3, <2>8 DEF J
<1> QED
  BY Zenon, <1>7, <1>8 DEF q

(* Up to an address that has the last row every instruction is in force.    *)
LEMMA AllInForce ==
    ASSUME NEW fdes0 \in Seq(Descriptions), NEW a \in Nat,
           FdesAt(fdes0, a) # {}, OffsetSetHere(fdes0, a)
    PROVE  /\ FdeAt(fdes0, a) \in Descriptions
           /\ InForce(FdeAt(fdes0, a), a) = DOMAIN FdeAt(fdes0, a).instructions
           /\ \E i \in DOMAIN FdeAt(fdes0, a).instructions :
                 /\ \A j \in Advances(FdeAt(fdes0, a)) : i > j
                 /\ FdeAt(fdes0, a).instructions[i].op \in {"def_cfa", "def_cfa_offset"}
<1> DEFINE fde == FdeAt(fdes0, a)
           A == Advances(fde)
           q == fde.instructions
           n == Len(q)
           last == Max({0} \cup A)
           g == [j \in DOMAIN q |-> q[j].n]
<1>1. fde \in Descriptions /\ Describes(fde, a)
  <2> DEFINE S == FdesAt(fdes0, a)
  <2>1. S \in SUBSET (0 .. Len(fdes0)) /\ Len(fdes0) \in Nat
    BY DEF FdesAt
  <2>2. Max(S) \in S
    <3> HIDE DEF S
    <3> QED
      BY <2>1, GreatestElement DEF S
  <2> QED
    BY <2>2 DEF FdesAt, FdeAt
<1>2. /\ fde.initialLocation \in Nat /\ q \in Seq(Instructions) /\ n \in Nat /\ DOMAIN q = 1 .. n
      /\ a >= fde.initialLocation
  BY <1>1 DEF Descriptions, Describes
<1>3. A \in SUBSET (1 .. n)
  BY <1>2 DEF Advances
<1>4. /\ last \in InForce(fde, a) \cup {0}
      /\ \E i \in DOMAIN q : i > last /\ q[i].op \in {"def_cfa", "def_cfa_offset"}
  BY DEF OffsetSetHere
<1>5. last \in {0} \cup A /\ \A y \in {0} \cup A : last >= y
  <2>1. {0} \cup A \in SUBSET (0 .. n) /\ {0} \cup A # {}
    BY <1>2, <1>3
  <2> HIDE DEF A, n
  <2> QED
    BY <1>2, <2>1, GreatestElement
<1>6. \A i \in DOMAIN q : g[i] \in Nat
  <2>1. \A i \in DOMAIN q : q[i] \in Instructions
    BY <1>2
  <2> QED
    BY <2>1 DEF Instructions
<1>7. \A i : RowLocation(fde, i) =
                fde.initialLocation
                + codeAlignmentFactor * SumFunctionOnSet(g, A \cap (1 .. i))
  BY DEF RowLocation
<1> HIDE DEF fde, A, q, n, last, g
<1>8. RowLocation(fde, last) <= a
  <2>1. CASE last = 0
    <3>1. A \cap (1 .. 0) = {}
      OBVIOUS
    <3>2. SumFunctionOnSet(g, {}) = 0
      <4>1. IsFiniteSet({}) /\ \A x \in {} : g[x] \in Int
        BY FS_EmptySet
      <4> QED
        BY <4>1, SumFacts
    <3>3. RowLocation(fde, last) = fde.initialLocation + codeAlignmentFactor * 0
      BY Zenon, <1>7, <2>1, <3>1, <3>2
    <3> QED
      BY <1>2, <3>3, FramesAssumption
  <2>2. CASE last # 0
    BY <1>4, <2>2 DEF InForce
  <2> QED
    BY <2>1, <2>2
<1>9. ASSUME NEW i \in DOMAIN q
      PROVE  RowLocation(fde, i) <= a
  <2> DEFINE S == A \cap (1 .. i)
             T == A \cap (1 .. last)
  <2>1. T = A
    <3>1. \A j \in A : j \in 1 .. last
      BY <1>2, <1>3, <1>5
    <3> QED
      BY <3>1
  <2>2. IsFiniteSet(T) /\ S \in SUBSET T /\ \A x \in T : g[x] \in Nat
    <3>1. IsFiniteSet(1 .. n)
      BY <1>2, FS_Interval
    <3>2. T \in SUBSET (1 .. n) /\ S \in SUBSET T
      BY <1>3, <2>1
    <3> HIDE DEF S, T
    <3> QED
      BY <1>2, <1>6, <3>1, <3>2, FS_Subset
  <2> DEFINE s == SumFunctionOnSet(g, S)
             t == SumFunctionOnSet(g, T)
  <2>3. s <= t
    <3> HIDE DEF S, T
    <3> QED
      BY <2>2, SumIsMonotonic
  <2>4. s \in Int /\ t \in Int
    <3>1. IsFiniteSet(S) /\ (\A x \in S : g[x] \in Int) /\ \A x \in T : g[x] \in Int
      BY <2>2, FS_Subset
    <3> HIDE DEF S, T
    <3> QED
      BY <2>2, <3>1, SumFacts
  <2>5. /\ RowLocation(fde, i) = fde.initialLocation + codeAlignmentFactor * s
        /\ RowLocation(fde, last) = fde.initialLocation + codeAlignmentFactor * t
    BY Zenon, <1>7
  <2> HIDE DEF s, t
  <2>6. codeAlignmentFactor * s <= codeAlignmentFactor * t
    <3>1. codeAlignmentFactor \in Nat
      BY FramesAssumption
    <3> QED
      BY <2>3, <2>4, <3>1
  <2>7. codeAlignmentFactor * s \in Int /\ codeAlignmentFactor * t \in Int
    BY <2>4, FramesAssumption
  <2> QED
    BY <1>2, <1>8, <2>5, <2>6, <2>7
<1>10. InForce(fde, a) = DOMAIN q
  BY <1>9 DEF InForce, q
<1>11. PICK i \in DOMAIN q : i > last /\ q[i].op \in {"def_cfa", "def_cfa_offset"}
  BY <1>4
<1>12. \A j \in A : i > j
  <2> SUFFICES ASSUME NEW j \in A
               PROVE  i > j
    OBVIOUS
  <2>1. j \in 1 .. n /\ last >= j /\ last \in 0 .. n /\ i \in 1 .. n
    BY <1>2, <1>3, <1>5
  <2> QED
    BY <1>2, <1>11, <2>1
<1> QED
  BY Zenon, <1>1, <1>10, <1>11, <1>12 DEF fde, q, A

LEMMA CfaIsDwarf ==
    ASSUME NEW fdes0 \in Seq(Descriptions), NEW a \in Nat, NEW r,
           FdesAt(fdes0, a) # {}, OffsetSetHere(fdes0, a)
    PROVE  getCfaAtLocation(fdes0, a, r) = CfaOfDwarf(fdes0, a, r)
<1> DEFINE fde == FdeAt(fdes0, a)
<1>1. /\ fde \in Descriptions /\ InForce(fde, a) = DOMAIN fde.instructions
      /\ \E i \in DOMAIN fde.instructions :
            /\ \A j \in Advances(fde) : i > j
            /\ fde.instructions[i].op \in {"def_cfa", "def_cfa_offset"}
  BY Zenon, AllInForce
<1> HIDE DEF fde
<1>2. \A ops : Setting(fde, a, ops) = fde.instructions[LastOf(fde, ops)]
  BY Zenon, <1>1 DEF Setting, LastOf
<1>3. /\ LastRow(fde).regNum = Setting(fde, a, {"def_cfa", "def_cfa_register"}).reg
      /\ LastRow(fde).regOffset = Setting(fde, a, {"def_cfa", "def_cfa_offset"}).n
  BY Zenon, <1>1, <1>2, LastRowIs
<1> QED
  BY Zenon, <1>3 DEF getCfaAtLocation, CfaOfDwarf, fde

-----------------------------------------------------------------------------
(* LocationsAreDwarf with what it rests on.                                 *)
LocationsInv ==
    /\ fdes \in Seq(Descriptions)
    /\ pc \in Nat
    /\ \A v \in DOMAIN stacks : IsStatic(v) => stacks[v] = expression(v).n

LEMMA LocationStep ==
    ASSUME LocationsInv, [Next]_vars
    PROVE  /\ \A v \in DOMAIN stacks' :
                /\ IsStatic(v) => stacks'[v] = expression(v).n
                /\ v \notin DOMAIN stacks /\ IsOnFrame(v) /\ OffsetSetHere(fdes, pc) =>
                       stacks'[v] = CfaOfDwarf(fdes, pc, regs) + expression(v).n
           /\ LocationsInv'
<1>1. debugInfo' = debugInfo /\ fdes' = fdes
  BY DEF Next, Load, Parse, OpenEntry, LeafEntry, EndChildren, Guest, Render,
         RenderStops, RenderOutside, vars, parseVars
<1>2. pc' \in Nat
  BY AddressesAssumption
     DEF LocationsInv, Next, Load, Guest, Render, RenderStops, RenderOutside, vars
<1>3. ASSUME NEW v \in DOMAIN stacks'
      PROVE  /\ IsStatic(v) => stacks'[v] = expression(v).n
             /\ v \notin DOMAIN stacks /\ IsOnFrame(v) /\ OffsetSetHere(fdes, pc) =>
                    stacks'[v] = CfaOfDwarf(fdes, pc, regs) + expression(v).n
  <2>1. CASE stacks' = stacks
    BY Zenon, <1>3, <2>1 DEF LocationsInv
  <2>2. CASE Render
    <3> DEFINE located == DOMAIN stacks \cup {w \in ToSet(Listed) : expression(w) # Absent}
    <3>1. stacks' = [w \in located |-> Top(w)]
      BY Zenon, <2>2 DEF Render
    <3>2. stacks'[v] = Top(v) /\ (v \in DOMAIN stacks \/ v \in ToSet(Listed))
      BY <1>3, <3>1
    <3>3. CASE v \in DOMAIN stacks
      <4>1. stacks'[v] = stacks[v]
        BY Zenon, <3>2, <3>3 DEF Top
      <4> QED
        BY Zenon, <3>3, <4>1 DEF LocationsInv
    <3>4. CASE v \notin DOMAIN stacks
      <4>1. stacks'[v] = Evaluated(v) /\ v \in ToSet(Listed)
        BY Zenon, <3>2, <3>4 DEF Top
      <4>2. IsStatic(v) => stacks'[v] = expression(v).n /\ ~ IsOnFrame(v)
        BY <4>1 DEF Evaluated, IsStatic, IsOnFrame
      <4>3. ASSUME IsOnFrame(v), OffsetSetHere(fdes, pc)
            PROVE  stacks'[v] = CfaOfDwarf(fdes, pc, regs) + expression(v).n
        <5>1. ~ IsStatic(v)
          BY <4>3 DEF IsStatic, IsOnFrame
        <5>2. stacks'[v] = getCfaAtLocation(fdes, pc, regs) + expression(v).n
          BY Zenon, <4>1, <4>3, <5>1 DEF Evaluated
        <5>3. FdesAt(fdes, pc) # {}
          <6>1. Outcome(v) = "running" /\ expression(v) # Absent /\ expression(v).op = "fbreg"
            BY Zenon, <2>2, <4>1, <4>3 DEF Render, IsOnFrame
          <6>2. ~ Exits(v) /\ ~ IsUndefined(v)
            BY <3>4, <6>1 DEF Outcome
          <6> QED
            BY Zenon, <4>3, <6>2 DEF Exits, IsUndefined, HasCfa
        <5>4. getCfaAtLocation(fdes, pc, regs) = CfaOfDwarf(fdes, pc, regs)
          BY <4>3, <5>3, CfaIsDwarf DEF LocationsInv
        <5> QED
          BY Zenon, <5>2, <5>4
      <4> QED
        BY Zenon, <4>2, <4>3
    <3> QED
      BY <3>3, <3>4
  <2>3. stacks' = stacks \/ Render
    BY DEF Next, Load, Guest, RenderStops, RenderOutside, vars
  <2> QED
    BY <2>1, <2>2, <2>3
<1>4. LocationsInv'
  <2>1. \A v : /\ IsStatic(v)' <=> IsStatic(v)
               /\ expression(v)' = expression(v)
    BY Zenon, <1>1 DEF IsStatic, expression, Entry
  <2>2. \A v \in DOMAIN stacks' : IsStatic(v)' => stacks'[v] = expression(v)'.n
    BY Zenon, <1>3, <2>1
  <2> QED
    BY Zenon, <1>1, <1>2, <2>2 DEF LocationsInv
<1> QED
  BY Zenon, <1>3, <1>4

(* For any programs a compiler writes, any registers and any addresses, a   *)
(* location the debugger shows is the one of the DWARF standard wherever    *)
(* the code's last row is the row in force and sets its offset itself.      *)
THEOREM LocationsAreDwarfThm == Spec => LocationsAreDwarf
<1>1. Init => LocationsInv
  <2> SUFFICES ASSUME Init
               PROVE  LocationsInv
    OBVIOUS
  <2>1. PICK program \in Programs : fdes = generateFrameInfo(program.debugFrame)
    BY DEF Init
  <2>2. IsDebugFrame(program.debugFrame)
    BY FramesAssumption
  <2>3. fdes \in Seq(Descriptions)
    BY <2>1, <2>2, FramesAreDescriptions
  <2>4. pc \in Nat /\ DOMAIN stacks = {}
    BY AddressesAssumption DEF Init
  <2> QED
    BY Zenon, <2>3, <2>4 DEF LocationsInv
<1>2. LocationsInv /\ [Next]_vars => LocationsInv'
  BY LocationStep
<1>3. LocationsInv /\ [Next]_vars =>
        [\A v \in DOMAIN stacks' :
            /\ IsStatic(v) => stacks'[v] = expression(v).n
            /\ v \notin DOMAIN stacks /\ IsOnFrame(v) /\ OffsetSetHere(fdes, pc) =>
                   stacks'[v] = CfaOfDwarf(fdes, pc, regs) + expression(v).n]_vars
  BY Zenon, LocationStep
<1> QED
  BY <1>1, <1>2, <1>3, PTL DEF Spec, LocationsAreDwarf
=============================================================================
