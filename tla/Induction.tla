----------------------------- MODULE Induction ------------------------------
(***************************************************************************)
(* Facts the proofs share: induction over the natural numbers as a fact    *)
(* about sets of them, and, by it, that FlattenSeq and SumFunctionOnSet,   *)
(* which are defined by recursive functions, compute what their names say. *)
(***************************************************************************)
EXTENDS Integers, Sequences, SequencesExt, FiniteSetTheorems, WellFoundedInduction, TLAPS

LEMMA LeastElement ==
    ASSUME NEW S \in SUBSET Nat, S # {}
    PROVE  \E x \in S : \A y \in S : x <= y
<1>1. PICK x \in S : \A y \in S : <<y, x>> \notin OpToRel(<, Nat)
  BY WFMin, NatLessThanWellFounded
<1>2. \A y \in S : ~ (y < x)
  BY <1>1 DEF OpToRel
<1> QED
  BY <1>2

(* Min and Max deliver an element.                                          *)
LEMMA MinOfNat ==
    ASSUME NEW S \in SUBSET Nat, S # {}
    PROVE  Min(S) \in S /\ \A y \in S : Min(S) <= y
  BY LeastElement DEF Min

LEMMA GreatestElement ==
    ASSUME NEW n \in Nat, NEW S \in SUBSET (0 .. n), S # {}
    PROVE  Max(S) \in S /\ \A y \in S : Max(S) >= y
<1> DEFINE T == {m \in Nat : \A y \in S : m >= y}
<1>1. n \in T /\ T \in SUBSET Nat
  OBVIOUS
<1>2. PICK m \in T : \A y \in T : m <= y
  BY <1>1, LeastElement
<1>3. m \in S
  <2> SUFFICES ASSUME m \notin S PROVE FALSE
    OBVIOUS
  <2>1. PICK y0 \in S : TRUE
    OBVIOUS
  <2>2. m - 1 \in Nat /\ \A y \in S : m - 1 >= y
    BY <1>2, <2>1
  <2>3. m - 1 \in T
    BY <2>2
  <2> QED
    BY <1>2, <2>3
<1>4. \A y \in S : m >= y
  BY <1>2
<1> QED
  BY <1>3, <1>4 DEF Max

LEMMA Induct ==
    ASSUME NEW S \in SUBSET Nat, 0 \in S, \A n \in S : n + 1 \in S
    PROVE  \A n \in Nat : n \in S
<1> SUFFICES ASSUME Nat \ S # {}
             PROVE  FALSE
  OBVIOUS
<1>1. PICK x \in Nat \ S : \A y \in Nat \ S : x <= y
  BY LeastElement
<1>2. x # 0 /\ x - 1 \in Nat
  BY <1>1
<1>3. x - 1 \in S
  BY <1>1, <1>2
<1>4. (x - 1) + 1 \in S /\ (x - 1) + 1 = x
  BY <1>1, <1>3
<1> QED
  BY <1>1, <1>4

(* A value for every number up to n, each made from the one before it.      *)
Iterates(F, n, X, start, G) ==
    /\ F \in [0 .. n -> X] /\ F[0] = start
    /\ \A i \in 1 .. n : F[i] = G[<<i, F[i - 1]>>]

LEMMA Recursion ==
    ASSUME NEW n \in Nat, NEW X, NEW start \in X, NEW G \in [Nat \X X -> X]
    PROVE  \E F : Iterates(F, n, X, start, G)
<1> DEFINE IsUpTo(F, k) == Iterates(F, k, X, start, G)
           S == {k \in Nat : \E F : IsUpTo(F, k)}
<1>1. 0 \in S
  <2>1. IsUpTo([i \in 0 .. 0 |-> start], 0)
    BY DEF Iterates
  <2> QED
    BY <2>1
<1>2. ASSUME NEW k \in S
      PROVE  k + 1 \in S
  <2>1. k \in Nat
    OBVIOUS
  <2>2. PICK F : IsUpTo(F, k)
    OBVIOUS
  <2>3. k \in 0 .. k /\ F[k] \in X /\ G[<<k + 1, F[k]>>] \in X
    BY <2>1, <2>2 DEF Iterates
  <2> DEFINE H == [i \in 0 .. k + 1 |-> IF i = k + 1 THEN G[<<k + 1, F[k]>>] ELSE F[i]]
  <2>4. H \in [0 .. k + 1 -> X] /\ H[0] = start
    BY <2>1, <2>2, <2>3 DEF Iterates
  <2>5. ASSUME NEW i \in 1 .. k + 1
        PROVE  H[i] = G[<<i, H[i - 1]>>]
    <3>1. i - 1 \in 0 .. k /\ i - 1 # k + 1 /\ i \in 0 .. k + 1
      BY <2>1
    <3>2. H[i - 1] = F[i - 1]
      BY <2>1, <3>1
    <3>3. CASE i = k + 1
      <4>1. i - 1 = k
        BY <2>1, <3>3
      <4>2. H[i - 1] = F[k] /\ H[i] = G[<<k + 1, F[k]>>]
        BY <3>1, <3>2, <3>3, <4>1
      <4> QED
        BY Zenon, <3>3, <4>2
    <3>4. CASE i # k + 1
      BY <2>1, <2>2, <3>1, <3>2, <3>4 DEF Iterates
    <3> QED
      BY <3>3, <3>4
  <2>6. IsUpTo(H, k + 1)
    BY <2>4, <2>5 DEF Iterates
  <2> HIDE DEF H, IsUpTo
  <2>7. \E G2 : IsUpTo(G2, k + 1)
    BY <2>6
  <2> QED
    BY <2>1, <2>7
<1> HIDE DEF S
<1>3. S \in SUBSET Nat
  BY DEF S
<1>4. n \in S
  BY <1>1, <1>2, <1>3, Induct
<1> QED
  BY <1>4 DEF S

-----------------------------------------------------------------------------
(* Sequences one behind the other.                                          *)
LEMMA ConcatFacts ==
    ASSUME NEW X, NEW s \in Seq(X), NEW t \in Seq(X)
    PROVE  /\ s \o t \in Seq(X)
           /\ ToSet(s \o t) = ToSet(s) \cup ToSet(t)
           /\ IsInjective(s) /\ IsInjective(t) /\ ToSet(s) \cap ToSet(t) = {}
                  => IsInjective(s \o t)
<1> DEFINE st == s \o t
<1>1. /\ st \in Seq(X) /\ Len(s) \in Nat /\ Len(t) \in Nat
      /\ DOMAIN st = 1 .. Len(s) + Len(t)
      /\ DOMAIN s = 1 .. Len(s) /\ DOMAIN t = 1 .. Len(t)
      /\ \A i \in 1 .. Len(s) : st[i] = s[i]
      /\ \A i \in 1 .. Len(t) : st[Len(s) + i] = t[i]
  OBVIOUS
<1> HIDE DEF st
<1>2. \A i \in DOMAIN st : \/ i \in DOMAIN s /\ st[i] = s[i]
                           \/ /\ i - Len(s) \in DOMAIN t /\ st[i] = t[i - Len(s)]
                              /\ i \notin DOMAIN s
  <2> SUFFICES ASSUME NEW i \in 1 .. Len(s) + Len(t), i \notin 1 .. Len(s)
               PROVE  i - Len(s) \in 1 .. Len(t) /\ st[i] = t[i - Len(s)]
    BY <1>1
  <2>1. i - Len(s) \in 1 .. Len(t) /\ Len(s) + (i - Len(s)) = i
    BY <1>1
  <2> QED
    BY <1>1, <2>1
<1>3. ToSet(st) = ToSet(s) \cup ToSet(t)
  <2>1. ToSet(st) \subseteq ToSet(s) \cup ToSet(t)
    BY <1>2 DEF ToSet
  <2>2. ToSet(s) \subseteq ToSet(st)
    <3>1. \A i \in DOMAIN s : i \in DOMAIN st /\ st[i] = s[i]
      BY <1>1
    <3> QED
      BY <3>1 DEF ToSet
  <2>3. ToSet(t) \subseteq ToSet(st)
    <3>1. \A i \in DOMAIN t : Len(s) + i \in DOMAIN st /\ st[Len(s) + i] = t[i]
      BY <1>1
    <3> QED
      BY <3>1 DEF ToSet
  <2> QED
    BY <2>1, <2>2, <2>3
<1>4. ASSUME IsInjective(s), IsInjective(t), ToSet(s) \cap ToSet(t) = {}
      PROVE  IsInjective(st)
  <2> SUFFICES ASSUME NEW i \in DOMAIN st, NEW j \in DOMAIN st, st[i] = st[j]
               PROVE  i = j
    BY DEF IsInjective
  <2>1. \A k \in DOMAIN s, l \in DOMAIN t : s[k] # t[l]
    BY <1>4 DEF ToSet
  <2>2. CASE i \in DOMAIN s /\ j \in DOMAIN s
    BY <1>1, <1>4, <2>2 DEF IsInjective
  <2>3. CASE i \notin DOMAIN s /\ j \notin DOMAIN s
    <3>1. i - Len(s) = j - Len(s)
      BY <1>2, <1>4, <2>3 DEF IsInjective
    <3> QED
      BY <1>1, <3>1
  <2>4. ~ (i \in DOMAIN s /\ j \notin DOMAIN s) /\ ~ (i \notin DOMAIN s /\ j \in DOMAIN s)
    BY <1>2, <2>1
  <2> QED
    BY <2>2, <2>3, <2>4
<1> QED
  BY <1>1, <1>3, <1>4 DEF st

(* FlattenSeq concatenates one after the other, from the front.             *)
LEMMA FlattenPrefixes ==
    ASSUME NEW X, NEW ss \in Seq(Seq(X))
    PROVE  \E f : /\ f[0] = << >> /\ FlattenSeq(ss) = f[Len(ss)]
                  /\ \A k \in 0 .. Len(ss) : f[k] \in Seq(X)
                  /\ \A k \in 1 .. Len(ss) : f[k] = f[k - 1] \o ss[k]
<1> DEFINE n == Len(ss)
           G == [p \in Nat \X Seq(X) |-> IF p[1] \in 1 .. n THEN p[2] \o ss[p[1]] ELSE << >>]
           E(F) == F = [i \in 1 .. n |-> IF i = 1 THEN ss[i] ELSE F[i - 1] \o ss[i]]
           flatten == CHOOSE F : E(F)
<1>1. n \in Nat /\ DOMAIN ss = 1 .. n /\ \A k \in 1 .. n : ss[k] \in Seq(X)
  OBVIOUS
<1>2. n # 0 => FlattenSeq(ss) = flatten[n]
  BY DEF FlattenSeq
<1>3. n = 0 => FlattenSeq(ss) = << >>
  <2>1. n = 0 => FlattenSeq(ss) = ss /\ ss = << >>
    BY DEF FlattenSeq
  <2> QED
    BY <2>1
<1> HIDE DEF n
<1>4. G \in [Nat \X Seq(X) -> Seq(X)] /\ << >> \in Seq(X)
  BY <1>1
<1> HIDE DEF G
<1>5. PICK H : Iterates(H, n, Seq(X), << >>, G)
  BY <1>1, <1>4, Recursion
<1> DEFINE F == [i \in 1 .. n |-> H[i]]
<1>6. H[0] = << >> /\ \A k \in 0 .. n : H[k] \in Seq(X)
  BY <1>5 DEF Iterates
<1>7. \A i \in 1 .. n : i \in Nat /\ i - 1 \in 0 .. n /\ (i # 1 => i - 1 \in 1 .. n)
  BY <1>1
<1>8. ASSUME NEW i \in 1 .. n
      PROVE  H[i] = H[i - 1] \o ss[i]
  <2>1. H[i - 1] \in Seq(X)
    BY <1>6, <1>7
  <2> QED
    BY <1>5, <1>7, <2>1 DEF G, Iterates
<1>9. ASSUME NEW f, E(f)
      PROVE  \A i \in 1 .. n : f[i] = H[i]
  <2> DEFINE S == {k \in Nat : k + 1 <= n => f[k + 1] = H[k + 1]}
  <2>1. \A i \in 1 .. n : f[i] = IF i = 1 THEN ss[i] ELSE f[i - 1] \o ss[i]
    BY Zenon, <1>9
  <2> HIDE DEF E
  <2>2. ASSUME 1 \in 1 .. n
        PROVE  f[1] = H[1]
    <3>1. H[1] = H[0] \o ss[1] /\ ss[1] \in Seq(X)
      <4>1. H[1] = H[1 - 1] \o ss[1]
        BY Zenon, <1>8, <2>2
      <4> QED
        BY <1>1, <2>2, <4>1
    <3>2. f[1] = ss[1]
      BY <2>1, <2>2
    <3> QED
      BY <1>6, <3>1, <3>2
  <2>3. 0 \in S
    BY <1>1, <2>2
  <2>4. ASSUME NEW k \in S
        PROVE  k + 1 \in S
    <3>1. SUFFICES ASSUME (k + 1) + 1 <= n
                   PROVE  f[(k + 1) + 1] = H[(k + 1) + 1]
      OBVIOUS
    <3>2. /\ (k + 1) + 1 \in 1 .. n /\ (k + 1) + 1 # 1
          /\ ((k + 1) + 1) - 1 = k + 1 /\ k + 1 <= n
      BY <1>1, <3>1
    <3>3. f[k + 1] = H[k + 1]
      BY <3>2
    <3> HIDE DEF S
    <3>4. f[(k + 1) + 1] = f[k + 1] \o ss[(k + 1) + 1]
      BY <2>1, <3>2
    <3>5. H[(k + 1) + 1] = H[k + 1] \o ss[(k + 1) + 1]
      BY <1>8, <3>2
    <3> QED
      BY Zenon, <3>3, <3>4, <3>5
  <2>5. \A k \in Nat : k \in S
    <3>1. S \in SUBSET Nat
      OBVIOUS
    <3> HIDE DEF S
    <3> QED
      BY <2>3, <2>4, <3>1, Induct
  <2> SUFFICES ASSUME NEW i \in 1 .. n
               PROVE  f[i] = H[i]
    OBVIOUS
  <2>6. i - 1 \in Nat /\ (i - 1) + 1 = i /\ i <= n
    BY <1>1
  <2>7. i - 1 \in S
    <3> HIDE DEF S
    <3> QED
      BY <2>5, <2>6
  <2> QED
    BY <2>6, <2>7
<1>10. \E f : E(f)
  <2>1. ASSUME NEW i \in 1 .. n
        PROVE  F[i] = IF i = 1 THEN ss[i] ELSE F[i - 1] \o ss[i]
    <3>1. CASE i = 1
      <4>1. H[i] = H[0] \o ss[i] /\ ss[i] \in Seq(X)
        BY <1>1, <1>8, <3>1
      <4> QED
        BY <1>6, <3>1, <4>1
    <3>2. CASE i # 1
      BY <1>7, <1>8, <3>2
    <3> QED
      BY <3>1, <3>2
  <2>2. E(F)
    BY <2>1
  <2> HIDE DEF E, F
  <2> QED
    BY <2>2
<1>11. FlattenSeq(ss) = H[n]
  <2>1. CASE n = 0
    BY <1>3, <1>6, <2>1
  <2>2. CASE n # 0
    <3>1. E(flatten)
      <4> HIDE DEF E
      <4> QED
        BY <1>10
    <3> HIDE DEF E, flatten
    <3>2. \A i \in 1 .. n : flatten[i] = H[i]
      BY <1>9, <3>1
    <3>3. n \in 1 .. n
      BY <1>1, <2>2
    <3> QED
      BY Zenon, <1>2, <2>2, <3>2, <3>3
  <2> QED
    BY <2>1, <2>2
<1> QED
  BY Zenon, <1>6, <1>8, <1>11 DEF n

(* What is appended is concatenated last.                                   *)
LEMMA FlattenAppend ==
    ASSUME NEW X, NEW ss \in Seq(Seq(X)), NEW t \in Seq(X)
    PROVE  FlattenSeq(Append(ss, t)) = FlattenSeq(ss) \o t
<1> DEFINE n == Len(ss)
           st == Append(ss, t)
<1>1. /\ n \in Nat /\ st \in Seq(Seq(X)) /\ Len(st) = n + 1 /\ st[n + 1] = t
      /\ \A k \in 1 .. n : st[k] = ss[k]
  OBVIOUS
<1> HIDE DEF st
<1>2. PICK f : /\ f[0] = << >> /\ FlattenSeq(ss) = f[n]
               /\ \A k \in 0 .. n : f[k] \in Seq(X)
               /\ \A k \in 1 .. n : f[k] = f[k - 1] \o ss[k]
  BY Zenon, FlattenPrefixes
<1>3. PICK g : /\ g[0] = << >> /\ FlattenSeq(st) = g[Len(st)]
               /\ \A k \in 0 .. Len(st) : g[k] \in Seq(X)
               /\ \A k \in 1 .. Len(st) : g[k] = g[k - 1] \o st[k]
  BY Zenon, <1>1, FlattenPrefixes
<1> HIDE DEF n
<1> DEFINE S == {k \in Nat : k <= n => f[k] = g[k]}
<1>4. 0 \in S
  BY <1>2, <1>3
<1>5. ASSUME NEW k \in S
      PROVE  k + 1 \in S
  <2>1. SUFFICES ASSUME k + 1 <= n
                 PROVE  f[k + 1] = g[k + 1]
    OBVIOUS
  <2>2. k \in Nat /\ (k <= n => f[k] = g[k])
    OBVIOUS
  <2> HIDE DEF S
  <2>3. k + 1 \in 1 .. n /\ k + 1 \in 1 .. n + 1 /\ (k + 1) - 1 = k /\ f[k] = g[k]
    BY <1>1, <2>1, <2>2
  <2>4. f[k + 1] = f[k] \o ss[k + 1]
    BY <1>2, <2>3
  <2>5. g[k + 1] = g[k] \o ss[k + 1]
    BY <1>1, <1>3, <2>3
  <2> QED
    BY Zenon, <2>3, <2>4, <2>5
<1>6. n \in S
  <2>1. S \in SUBSET Nat
    OBVIOUS
  <2> HIDE DEF S
  <2> QED
    BY <1>1, <1>4, <1>5, <2>1, Induct
<1>7. f[n] = g[n]
  BY <1>1, <1>6
<1>8. g[n + 1] = g[n] \o t
  <2>1. n + 1 \in 1 .. Len(st) /\ (n + 1) - 1 = n
    BY <1>1
  <2> QED
    BY <1>1, <1>3, <2>1
<1>9. FlattenSeq(st) = FlattenSeq(ss) \o t
  BY Zenon, <1>1, <1>2, <1>3, <1>7, <1>8
<1> QED
  BY <1>9 DEF st

(* Of sequences all but one of which are empty.                             *)
LEMMA FlattenOne ==
    ASSUME NEW X, NEW ss \in Seq(Seq(X)), NEW r \in 1 .. Len(ss),
           \A k \in 1 .. Len(ss) : k # r => ss[k] = << >>
    PROVE  FlattenSeq(ss) = ss[r]
<1> DEFINE n == Len(ss)
<1>1. PICK f : /\ f[0] = << >> /\ FlattenSeq(ss) = f[n]
               /\ \A k \in 0 .. n : f[k] \in Seq(X)
               /\ \A k \in 1 .. n : f[k] = f[k - 1] \o ss[k]
  BY Zenon, FlattenPrefixes
<1>2. n \in Nat /\ ss[r] \in Seq(X)
  OBVIOUS
<1> HIDE DEF n
<1> DEFINE S == {k \in Nat : k <= n => f[k] = IF k < r THEN << >> ELSE ss[r]}
<1>3. 0 \in S
  BY <1>1
<1>4. ASSUME NEW k \in S
      PROVE  k + 1 \in S
  <2>1. SUFFICES ASSUME k + 1 <= n
                 PROVE  f[k + 1] = IF k + 1 < r THEN << >> ELSE ss[r]
    OBVIOUS
  <2>2. k \in Nat /\ (k <= n => f[k] = IF k < r THEN << >> ELSE ss[r])
    OBVIOUS
  <2> HIDE DEF S
  <2>3. /\ k + 1 \in 1 .. n /\ (k + 1) - 1 = k /\ k \in 0 .. n
        /\ f[k] = IF k < r THEN << >> ELSE ss[r]
    BY <1>2, <2>1, <2>2
  <2>4. f[k + 1] = f[k] \o ss[k + 1] /\ f[k] \in Seq(X)
    BY <1>1, <2>3
  <2>5. CASE k + 1 = r
    <3>1. f[k] = << >>
      BY <2>2, <2>3, <2>5
    <3> QED
      BY <1>2, <2>4, <2>5, <3>1
  <2>6. CASE k + 1 # r
    <3>1. ss[k + 1] = << >>
      BY <2>3, <2>6 DEF n
    <3>2. f[k + 1] = f[k]
      BY <2>4, <3>1
    <3> QED
      BY <2>2, <2>3, <2>6, <3>2
  <2> QED
    BY <2>5, <2>6
<1>5. n \in S
  <2>1. S \in SUBSET Nat
    OBVIOUS
  <2> HIDE DEF S
  <2> QED
    BY <1>2, <1>3, <1>4, <2>1, Induct
<1> QED
  BY <1>1, <1>2, <1>5 DEF n

(* So nothing is in the concatenation but what is in one of the sequences. *)
LEMMA FlattenFacts ==
    ASSUME NEW X, NEW ss \in Seq(Seq(X))
    PROVE  /\ FlattenSeq(ss) \in Seq(X)
           /\ ToSet(FlattenSeq(ss)) = UNION {ToSet(ss[k]) : k \in DOMAIN ss}
           /\ /\ \A k \in DOMAIN ss : IsInjective(ss[k])
              /\ \A k, l \in DOMAIN ss : k # l => ToSet(ss[k]) \cap ToSet(ss[l]) = {}
              => IsInjective(FlattenSeq(ss))
<1> DEFINE n == Len(ss)
<1>1. n \in Nat /\ DOMAIN ss = 1 .. n /\ \A k \in 1 .. n : ss[k] \in Seq(X)
  OBVIOUS
<1> HIDE DEF n
<1>2. CASE n = 0
  <2>1. FlattenSeq(ss) = ss /\ ss = << >>
    BY <1>2 DEF FlattenSeq, n
  <2>2. ToSet(ss) = {} /\ DOMAIN ss = {} /\ IsInjective(ss)
    BY <2>1 DEF ToSet, IsInjective
  <2> QED
    BY <2>1, <2>2
<1>3. CASE n # 0
  <2>3. PICK f : /\ f[0] = << >> /\ FlattenSeq(ss) = f[n]
                 /\ \A k \in 0 .. n : f[k] \in Seq(X)
                 /\ \A k \in 1 .. n : f[k] = f[k - 1] \o ss[k]
    BY Zenon, FlattenPrefixes DEF n
  <2>4. \A i \in 1 .. n : f[i] = IF i = 1 THEN ss[i] ELSE f[i - 1] \o ss[i]
    <3>1. CASE 1 \in 1 .. n
      <4>1. f[1] = f[1 - 1] \o ss[1]
        BY Zenon, <2>3, <3>1
      <4>2. 1 - 1 = 0
        OBVIOUS
      <4>3. f[1] = << >> \o ss[1]
        BY Zenon, <2>3, <4>1, <4>2
      <4>4. ss[1] \in Seq(X)
        BY Zenon, <1>1, <3>1
      <4>5. f[1] = ss[1]
        BY <4>3, <4>4
      <4> QED
        BY <2>3, <4>5
    <3> QED
      BY <1>1, <1>3, <3>1
  <2> DEFINE Up(k) == UNION {ToSet(ss[j]) : j \in 1 .. k}
             Good(k) ==
                 /\ f[k] \in Seq(X) /\ ToSet(f[k]) = Up(k)
                 /\ /\ \A j \in 1 .. n : IsInjective(ss[j])
                    /\ \A j, l \in 1 .. n : j # l => ToSet(ss[j]) \cap ToSet(ss[l]) = {}
                    => IsInjective(f[k])
             S == {k \in Nat : k + 1 <= n => Good(k + 1)}
  <2>5. 0 \in S
    <3>1. Up(1) = ToSet(ss[1])
      OBVIOUS
    <3>2. 1 \in 1 .. n /\ f[1] = ss[1]
      BY <1>1, <1>3, <2>4
    <3>3. Good(1)
      BY <1>1, <3>1, <3>2
    <3> HIDE DEF Good
    <3> QED
      BY <3>3
  <2>6. ASSUME NEW k \in S
        PROVE  k + 1 \in S
    <3> DEFINE m == k + 1
    <3>1. k \in Nat /\ m \in Nat /\ m # 0
      OBVIOUS
    <3> SUFFICES ASSUME m + 1 <= n
                 PROVE  Good(m + 1)
      BY <3>1
    <3>2. m \in 1 .. n /\ m + 1 \in 1 .. n /\ m + 1 # 1 /\ (m + 1) - 1 = m
      BY <1>1, <3>1
    <3>3. Good(m)
      <4> HIDE DEF Good
      <4> QED
        BY <3>1, <3>2
    <3> HIDE DEF m, S
    <3>4. f[m + 1] = f[m] \o ss[m + 1]
      BY <2>4, <3>2
    <3>5. Up(m + 1) = Up(m) \cup ToSet(ss[m + 1])
      <4>1. 1 .. m + 1 = (1 .. m) \cup {m + 1}
        BY <3>2
      <4> QED
        BY <4>1
    <3>6. f[m] \in Seq(X) /\ ss[m + 1] \in Seq(X)
      BY <1>1, <3>2, <3>3
    <3>7. /\ f[m + 1] \in Seq(X)
          /\ ToSet(f[m + 1]) = Up(m + 1)
      <4>1. /\ f[m] \o ss[m + 1] \in Seq(X)
            /\ ToSet(f[m] \o ss[m + 1]) = ToSet(f[m]) \cup ToSet(ss[m + 1])
        BY Zenon, <3>6, ConcatFacts
      <4>2. ToSet(f[m]) = Up(m)
        BY <3>3
      <4> HIDE DEF Up
      <4> QED
        BY Zenon, <3>4, <3>5, <4>1, <4>2
    <3>8. ASSUME \A j \in 1 .. n : IsInjective(ss[j]),
                 \A j, l \in 1 .. n : j # l => ToSet(ss[j]) \cap ToSet(ss[l]) = {}
          PROVE  IsInjective(f[m + 1])
      <4>1. IsInjective(f[m]) /\ IsInjective(ss[m + 1])
        BY <3>2, <3>3, <3>8
      <4>2. ToSet(f[m]) \cap ToSet(ss[m + 1]) = {}
        <5>1. \A j \in 1 .. m : j \in 1 .. n /\ j # m + 1
          BY <1>1, <3>2
        <5>2. \A j \in 1 .. m : ToSet(ss[j]) \cap ToSet(ss[m + 1]) = {}
          BY <3>2, <3>8, <5>1
        <5> QED
          BY <3>3, <5>2
      <4> QED
        BY <3>4, <3>6, <4>1, <4>2, ConcatFacts
    <3> QED
      BY <3>7, <3>8
  <2>7. n - 1 \in Nat /\ (n - 1) + 1 = n
    BY <1>1, <1>3
  <2>8. Good(n)
    <3> HIDE DEF Good
    <3>1. n - 1 \in S
      <4> HIDE DEF S
      <4>1. S \in SUBSET Nat
        BY DEF S
      <4> QED
        BY <2>5, <2>6, <2>7, <4>1, Induct
    <3> QED
      BY <1>1, <2>7, <3>1
  <2>9. FlattenSeq(ss) = f[n] /\ DOMAIN ss = 1 .. n
    BY Zenon, <1>1, <2>3
  <2> QED
    BY Zenon, <2>8, <2>9
<1> QED
  BY <1>2, <1>3

-----------------------------------------------------------------------------
(* Sums over finite sets.                                                   *)
LEMMA Smaller ==
    ASSUME NEW S, IsFiniteSet(S), NEW x \in S
    PROVE  /\ IsFiniteSet(S \ {x})
           /\ Cardinality(S) \in Nat \ {0} /\ Cardinality(S \ {x}) = Cardinality(S) - 1
<1>1. IsFiniteSet(S \ {x}) /\ Cardinality(S \ {x}) = Cardinality(S) - 1
  BY FS_RemoveElement
<1>2. Cardinality(S) \in Nat /\ Cardinality(S \ {x}) \in Nat
  BY <1>1, FS_CardinalityType
<1> QED
  BY <1>1, <1>2

(* What holds of the empty set, and of a set when it holds of what is left  *)
(* without any one of its elements, holds of every finite set.              *)
LEMMA InductOnSets ==
    ASSUME NEW S, IsFiniteSet(S), NEW C, {} \in C,
           \A T \in SUBSET S : T # {} /\ (\A x \in T : T \ {x} \in C) => T \in C
    PROVE  \A T \in SUBSET S : T \in C
<1> DEFINE N == {k \in Nat : \A T \in SUBSET S : Cardinality(T) = k => T \in C}
<1>0. \A T \in SUBSET S : IsFiniteSet(T) /\ Cardinality(T) \in Nat
  BY FS_Subset, FS_CardinalityType
<1>1. 0 \in N
  <2> SUFFICES ASSUME NEW T \in SUBSET S, Cardinality(T) = 0
               PROVE  T \in C
    OBVIOUS
  <2>1. T = {}
    BY <1>0, FS_EmptySet
  <2> QED
    BY <2>1
<1>2. ASSUME NEW k \in N
      PROVE  k + 1 \in N
  <2> SUFFICES ASSUME NEW T \in SUBSET S, Cardinality(T) = k + 1
               PROVE  T \in C
    OBVIOUS
  <2>1. k \in Nat /\ \A U \in SUBSET S : Cardinality(U) = k => U \in C
    OBVIOUS
  <2> HIDE DEF N
  <2>2. T # {}
    <3>1. Cardinality({}) = 0
      BY FS_EmptySet
    <3> QED
      BY <2>1, <3>1
  <2>3. ASSUME NEW x \in T
        PROVE  T \ {x} \in C
    <3>1. Cardinality(T \ {x}) = k
      BY <1>0, <2>1, Smaller
    <3> QED
      BY <2>1, <3>1
  <2> QED
    BY <2>2, <2>3
<1> HIDE DEF N
<1>3. N \in SUBSET Nat
  BY DEF N
<1>4. \A k \in Nat : k \in N
  BY <1>1, <1>2, <1>3, Induct
<1> QED
  BY <1>0, <1>4 DEF N

Chosen(s) == CHOOSE x \in s : TRUE
Sums(F, S, g) ==
    F = [s \in SUBSET S |-> IF s = {} THEN 0 ELSE g[Chosen(s)] + F[s \ {Chosen(s)}]]

LEMMA SumsStep ==
    ASSUME NEW S, NEW g, NEW F, Sums(F, S, g)
    PROVE  /\ F[{}] = 0
           /\ \A T \in SUBSET S : T # {} => /\ Chosen(T) \in T
                                          /\ F[T] = g[Chosen(T)] + F[T \ {Chosen(T)}]
<1>1. \A T \in SUBSET S :
          F[T] = IF T = {} THEN 0 ELSE g[Chosen(T)] + F[T \ {Chosen(T)}]
  BY Zenon DEF Sums
<1>2. \A T : T # {} => Chosen(T) \in T
  BY DEF Chosen
<1>3. {} \in SUBSET S
  OBVIOUS
<1> QED
  BY Zenon, <1>1, <1>2, <1>3

(* Two such functions agree where what they add does.                       *)
LEMMA SumsAgree ==
    ASSUME NEW S, NEW R, IsFiniteSet(S), NEW g, NEW h,
           NEW F, Sums(F, S, g), NEW H, Sums(H, R, h),
           S \subseteq R, \A x \in S : g[x] = h[x]
    PROVE  F[S] = H[S]
<1> DEFINE C == {T \in SUBSET S : F[T] = H[T]}
<1>1. {} \in C
  BY SumsStep
<1> HIDE DEF C
<1>2. ASSUME NEW T \in SUBSET S, T # {}, \A x \in T : T \ {x} \in C
      PROVE  T \in C
  <2>1. /\ Chosen(T) \in T /\ F[T] = g[Chosen(T)] + F[T \ {Chosen(T)}]
        /\ H[T] = h[Chosen(T)] + H[T \ {Chosen(T)}]
    <3>0. T # {}
      BY <1>2
    <3>4. Chosen(T) \in T
      BY Zenon, <3>0, SumsStep
    <3>1. F[T] = g[Chosen(T)] + F[T \ {Chosen(T)}]
      BY <3>0, SumsStep
    <3>2. T \in SUBSET R
      OBVIOUS
    <3>3. H[T] = h[Chosen(T)] + H[T \ {Chosen(T)}]
      BY <3>0, <3>2, SumsStep
    <3> QED
      BY <3>1, <3>3, <3>4
  <2>2. F[T \ {Chosen(T)}] = H[T \ {Chosen(T)}]
    BY <1>2, <2>1 DEF C
  <2>3. g[Chosen(T)] = h[Chosen(T)]
    BY <2>1
  <2>4. F[T] = H[T]
    BY Zenon, <2>1, <2>2, <2>3
  <2> QED
    BY <2>4 DEF C
<1>3. S \in C
  BY <1>1, <1>2, InductOnSets
<1> QED
  BY <1>3 DEF C

(* Folding a finite set, by a function g that takes in the element c        *)
(* chooses of what is left.                                                 *)
Folds(F, S, Y, base, c, g) ==
    /\ F \in [SUBSET S -> Y]
    /\ \A T \in SUBSET S : F[T] = IF T = {} THEN base ELSE g[<<c[T], F[T \ {c[T]}]>>]

LEMMA FoldsExist ==
    ASSUME NEW S, IsFiniteSet(S), NEW Y, NEW base \in Y, NEW c,
           \A T \in SUBSET S : T # {} => c[T] \in T, NEW g \in [S \X Y -> Y]
    PROVE  \E F : Folds(F, S, Y, base, c, g)
<1> DEFINE X == [SUBSET S -> Y]
           start == [s \in SUBSET S |-> base]
           Next(F) == [s \in SUBSET S |->
                          IF s = {} THEN base ELSE g[<<c[s], F[s \ {c[s]}]>>]]
           G == [p \in Nat \X X |-> Next(p[2])]
           n == Cardinality(S)
<1>1. n \in Nat /\ \A T \in SUBSET S : Cardinality(T) \in Nat /\ Cardinality(T) <= n
                                  /\ IsFiniteSet(T)
  BY FS_Subset, FS_CardinalityType
<1>2. \A T \in SUBSET S : T # {} => c[T] \in T /\ T \ {c[T]} \in SUBSET S
  OBVIOUS
<1>3. \A F \in X : Next(F) \in X
  <2> SUFFICES ASSUME NEW F \in X, NEW s \in SUBSET S, s # {}
               PROVE  g[<<c[s], F[s \ {c[s]}]>>] \in Y
    OBVIOUS
  <2> QED
    BY <1>2
<1> HIDE DEF n
<1>4. start \in X /\ G \in [Nat \X X -> X]
  <2> HIDE DEF X, Next
  <2>1. G \in [Nat \X X -> X]
    BY <1>3
  <2> HIDE DEF G
  <2>2. start \in X
    BY DEF X
  <2> QED
    BY <2>1, <2>2
<1> HIDE DEF G, start, X
<1>5. PICK H : Iterates(H, n + 1, X, start, G)
  <2>1. n + 1 \in Nat
    BY <1>1
  <2> QED
    BY <1>4, <2>1, Recursion
<1>6. \A k \in 0 .. n : H[k] \in X /\ H[k + 1] = Next(H[k])
  <2> SUFFICES ASSUME NEW k \in 0 .. n
               PROVE  H[k] \in X /\ H[k + 1] = Next(H[k])
    OBVIOUS
  <2>1. k \in Nat /\ k \in 0 .. n + 1 /\ k + 1 \in 1 .. n + 1 /\ (k + 1) - 1 = k /\ k + 1 \in Nat
    BY <1>1
  <2>2. H[k] \in X /\ H[k + 1] = G[<<k + 1, H[k]>>]
    BY <1>5, <2>1 DEF Iterates
  <2> HIDE DEF Next
  <2> QED
    BY <2>1, <2>2 DEF G
<1>7. \A k \in 0 .. n, s \in SUBSET S :
          H[k + 1][s] = IF s = {} THEN base ELSE g[<<c[s], H[k][s \ {c[s]}]>>]
  <2>1. ASSUME NEW k \in 0 .. n, NEW s \in SUBSET S
        PROVE  Next(H[k])[s] = IF s = {} THEN base ELSE g[<<c[s], H[k][s \ {c[s]}]>>]
    BY Zenon
  <2> HIDE DEF Next
  <2> QED
    BY Zenon, <1>6, <2>1
<1> HIDE DEF Next
<1> DEFINE N == {k \in Nat : k <= n => \A s \in SUBSET S :
                                 Cardinality(s) <= k => H[k + 1][s] = H[k][s]}
<1>8. 0 \in N
  <2> SUFFICES ASSUME NEW s \in SUBSET S, Cardinality(s) <= 0
               PROVE  H[0 + 1][s] = H[0][s]
    OBVIOUS
  <2>1. s = {}
    BY <1>1, FS_EmptySet
  <2>2. H[0][s] = base
    BY <1>5 DEF Iterates, start
  <2>3. 0 \in 0 .. n
    BY <1>1
  <2> QED
    BY Zenon, <1>7, <2>1, <2>2, <2>3
<1>9. ASSUME NEW k \in N
      PROVE  k + 1 \in N
  <2>1. k \in Nat
    OBVIOUS
  <2> SUFFICES ASSUME k + 1 <= n, NEW s \in SUBSET S, Cardinality(s) <= k + 1
               PROVE  H[(k + 1) + 1][s] = H[k + 1][s]
    BY <2>1
  <2>2. k \in 0 .. n /\ k + 1 \in 0 .. n
    BY <1>1, <2>1
  <2>6. H[(k + 1) + 1][s] = IF s = {} THEN base ELSE g[<<c[s], H[k + 1][s \ {c[s]}]>>]
    BY Zenon, <1>7, <2>2
  <2>7. H[k + 1][s] = IF s = {} THEN base ELSE g[<<c[s], H[k][s \ {c[s]}]>>]
    BY Zenon, <1>7, <2>2
  <2>3. \A t \in SUBSET S : Cardinality(t) <= k => H[k + 1][t] = H[k][t]
    BY <2>2
  <2> HIDE DEF N
  <2>4. CASE s = {}
    BY Zenon, <2>4, <2>6, <2>7
  <2>5. CASE s # {}
    <3> DEFINE t == s \ {c[s]}
    <3>1. t \in SUBSET S /\ Cardinality(t) <= k
      <4>1. Cardinality(t) = Cardinality(s) - 1
        BY <1>1, <1>2, <2>5, Smaller
      <4> QED
        BY <1>1, <2>1, <4>1
    <3>2. H[k + 1][t] = H[k][t]
      BY <2>3, <3>1
    <3> QED
      BY Zenon, <2>5, <2>6, <2>7, <3>2
  <2> QED
    BY <2>4, <2>5
<1>10. \A s \in SUBSET S : H[n + 1][s] = H[n][s]
  <2> HIDE DEF N
  <2>1. N \in SUBSET Nat
    BY DEF N
  <2>2. n \in N
    BY <1>1, <1>8, <1>9, <2>1, Induct
  <2> QED
    BY <1>1, <2>2 DEF N
<1>11. Folds(H[n], S, Y, base, c, g)
  <2>1. n \in 0 .. n
    BY <1>1
  <2>2. H[n] \in [SUBSET S -> Y]
    BY <1>6, <2>1 DEF X
  <2>3. \A s \in SUBSET S :
           H[n][s] = IF s = {} THEN base ELSE g[<<c[s], H[n][s \ {c[s]}]>>]
    BY Zenon, <1>7, <1>10, <2>1
  <2> QED
    BY <2>2, <2>3 DEF Folds
<1> QED
  BY <1>11

LEMMA SumsExist ==
    ASSUME NEW S, IsFiniteSet(S), NEW g, \A x \in S : g[x] \in Int
    PROVE  \E F : Sums(F, S, g)
<1> DEFINE c == [T \in SUBSET S |-> Chosen(T)]
           G == [p \in S \X Int |-> g[p[1]] + p[2]]
<1>1. \A T \in SUBSET S : T # {} => Chosen(T) \in T
  BY DEF Chosen
<1>2. \A T \in SUBSET S : c[T] = Chosen(T)
  OBVIOUS
<1>3. G \in [S \X Int -> Int] /\ \A x \in S, y \in Int : G[<<x, y>>] = g[x] + y
  OBVIOUS
<1> HIDE DEF c, G
<1>4. \A T \in SUBSET S : T # {} => c[T] \in T
  BY Zenon, <1>1, <1>2
<1>5. PICK F : Folds(F, S, Int, 0, c, G)
  <2>1. 0 \in Int
    OBVIOUS
  <2> QED
    BY <1>3, <1>4, <2>1, FoldsExist
<1>6. /\ F \in [SUBSET S -> Int]
      /\ \A T \in SUBSET S : F[T] = IF T = {} THEN 0 ELSE G[<<c[T], F[T \ {c[T]}]>>]
  BY <1>5 DEF Folds
<1>7. \A T \in SUBSET S : F[T] = IF T = {} THEN 0 ELSE g[Chosen(T)] + F[T \ {Chosen(T)}]
  <2> SUFFICES ASSUME NEW T \in SUBSET S, T # {}
               PROVE  F[T] = g[Chosen(T)] + F[T \ {Chosen(T)}]
    BY Zenon, <1>6
  <2>1. Chosen(T) \in S /\ F[T \ {Chosen(T)}] \in Int
    BY <1>1, <1>6
  <2>2. F[T] = G[<<Chosen(T), F[T \ {Chosen(T)}]>>]
    BY Zenon, <1>2, <1>6
  <2> QED
    BY Zenon, <1>3, <2>1, <2>2
<1> QED
  BY Zenon, <1>6, <1>7 DEF Sums

LEMMA SumIs ==
    ASSUME NEW S, IsFiniteSet(S), NEW g, \A x \in S : g[x] \in Int
    PROVE  \E F : Sums(F, S, g) /\ SumFunctionOnSet(g, S) = F[S]
<1>1. PICK F : Sums(F, S, g)
  BY SumsExist
<1>2. Sums(CHOOSE H : Sums(H, S, g), S, g)
  BY <1>1
<1>3. SumFunctionOnSet(g, S) = (CHOOSE H : Sums(H, S, g))[S]
  BY DEF SumFunctionOnSet, FoldFunctionOnSet, MapThenFoldSet, Sums, Chosen
<1> QED
  BY Zenon, <1>2, <1>3

(* A sum over equal values; g and h need not be otherwise.                  *)
LEMMA SumAgrees ==
    ASSUME NEW S, IsFiniteSet(S), NEW g, NEW h,
           \A x \in S : g[x] \in Int /\ g[x] = h[x]
    PROVE  SumFunctionOnSet(g, S) = SumFunctionOnSet(h, S)
<1>1. \A x \in S : g[x] \in Int /\ h[x] \in Int
  OBVIOUS
<1>2. PICK F : Sums(F, S, g) /\ SumFunctionOnSet(g, S) = F[S]
  BY <1>1, SumIs
<1>3. PICK H : Sums(H, S, h) /\ SumFunctionOnSet(h, S) = H[S]
  BY <1>1, SumIs
<1>4. F[S] = H[S]
  BY <1>2, <1>3, SumsAgree
<1> QED
  BY Zenon, <1>2, <1>3, <1>4

(* Any of its elements may be added last.                                   *)
LEMMA SumFacts ==
    ASSUME NEW S, IsFiniteSet(S), NEW g, \A x \in S : g[x] \in Int
    PROVE  /\ SumFunctionOnSet(g, {}) = 0
           /\ SumFunctionOnSet(g, S) \in Int
           /\ \A x \in S : SumFunctionOnSet(g, S) = g[x] + SumFunctionOnSet(g, S \ {x})
<1> DEFINE Sum(T) == SumFunctionOnSet(g, T)
           I == {T \in SUBSET S : Sum(T) \in Int}
           C == {T \in SUBSET S : \A x \in T : Sum(T) = g[x] + Sum(T \ {x})}
<1>0. \A T \in SUBSET S : IsFiniteSet(T)
  BY FS_Subset
<1>1. Sum({}) = 0
  <2>1. PICK F : Sums(F, {}, g) /\ Sum({}) = F[{}]
    BY FS_EmptySet, SumIs
  <2> QED
    BY <2>1, SumsStep
<1>2. ASSUME NEW T \in SUBSET S, T # {}
      PROVE  Chosen(T) \in T /\ Sum(T) = g[Chosen(T)] + Sum(T \ {Chosen(T)})
  <2> DEFINE c == Chosen(T)
             R == T \ {c}
  <2>1. \A x \in T : g[x] \in Int
    OBVIOUS
  <2>2. PICK F : Sums(F, T, g) /\ Sum(T) = F[T]
    BY <1>0, <2>1, SumIs
  <2>3. \A x \in R : g[x] \in Int
    OBVIOUS
  <2>4. IsFiniteSet(R) /\ R \subseteq T
    BY <1>0
  <2> HIDE DEF R
  <2>5. PICK H : Sums(H, R, g) /\ Sum(R) = H[R]
    BY <2>3, <2>4, SumIs
  <2>6. H[R] = F[R]
    BY <2>2, <2>4, <2>5, SumsAgree
  <2>7. T # {} /\ T \in SUBSET T
    BY <1>2
  <2>8. c \in T
    BY <2>7 DEF Chosen
  <2>9. F[T] = g[c] + F[T \ {c}]
    BY <2>2, <2>7, SumsStep
  <2>10. F[T] = g[c] + F[R]
    BY <2>9 DEF R
  <2>11. Sum(T) = g[c] + Sum(R)
    BY Zenon, <2>2, <2>5, <2>6, <2>10
  <2> QED
    BY <2>8, <2>11 DEF R
<1> HIDE DEF Sum
<1>3. \A T \in SUBSET S : Sum(T) \in Int
  <2>1. {} \in I
    BY <1>1
  <2>2. ASSUME NEW T \in SUBSET S, T # {}, \A x \in T : T \ {x} \in I
        PROVE  T \in I
    <3>1. Chosen(T) \in T /\ Sum(T) = g[Chosen(T)] + Sum(T \ {Chosen(T)})
      BY <1>2, <2>2
    <3>2. g[Chosen(T)] \in Int /\ Sum(T \ {Chosen(T)}) \in Int
      BY <2>2, <3>1
    <3> QED
      BY <3>1, <3>2
  <2> HIDE DEF I
  <2>3. \A T \in SUBSET S : T \in I
    BY <2>1, <2>2, InductOnSets
  <2> QED
    BY <2>3 DEF I
<1>4. {} \in C
  OBVIOUS
<1>5. ASSUME NEW T \in SUBSET S, T # {}, \A x \in T : T \ {x} \in C
      PROVE  T \in C
  <2> DEFINE c == Chosen(T)
  <2>1. c \in T /\ Sum(T) = g[c] + Sum(T \ {c}) /\ T \ {c} \in C
    BY <1>2, <1>5
  <2> HIDE DEF c
  <2>2. ASSUME NEW x \in T, x # c
        PROVE  Sum(T) = g[x] + Sum(T \ {x})
    <3> DEFINE R == (T \ {c}) \ {x}
    <3>1. x \in T \ {c} /\ c \in T \ {x} /\ R = (T \ {x}) \ {c}
      BY <2>1, <2>2
    <3>2. T \ {x} \in C
      BY <1>5
    <3>3. Sum(T \ {c}) = g[x] + Sum(R)
      BY <2>1, <3>1
    <3>4. Sum(T \ {x}) = g[c] + Sum(R)
      BY <3>1, <3>2
    <3>5. g[x] \in Int /\ g[c] \in Int /\ Sum(R) \in Int
      BY <1>3, <2>1
    <3> HIDE DEF R
    <3> QED
      BY <2>1, <3>3, <3>4, <3>5
  <2> QED
    BY <2>1, <2>2
<1> HIDE DEF C
<1>6. S \in C
  <2>1. \A T \in SUBSET S : T \in C
    BY <1>4, <1>5, InductOnSets
  <2> QED
    BY <2>1
<1> QED
  BY <1>1, <1>3, <1>6 DEF C, Sum

(* A value more, and another value for one element.                         *)
LEMMA SumGrows ==
    ASSUME NEW S, IsFiniteSet(S), NEW y, y \notin S, NEW g, NEW h,
           \A x \in S : g[x] \in Int /\ g[x] = h[x], h[y] \in Int
    PROVE  SumFunctionOnSet(h, S \cup {y}) = SumFunctionOnSet(g, S) + h[y]
<1> DEFINE T == S \cup {y}
<1>1. IsFiniteSet(T) /\ y \in T /\ T \ {y} = S
  BY FS_AddElement
<1>2. \A x \in T : h[x] \in Int
  OBVIOUS
<1> HIDE DEF T
<1>3. SumFunctionOnSet(h, T) = h[y] + SumFunctionOnSet(h, T \ {y})
  BY <1>1, <1>2, SumFacts
<1>4. SumFunctionOnSet(g, S) = SumFunctionOnSet(h, S)
  BY SumAgrees
<1>5. \A x \in S : g[x] \in Int
  OBVIOUS
<1>6. SumFunctionOnSet(g, S) \in Int
  BY <1>5, SumFacts
<1>7. SumFunctionOnSet(h, T) = h[y] + SumFunctionOnSet(g, S)
  BY Zenon, <1>1, <1>3, <1>4
<1> QED
  BY <1>6, <1>7 DEF T

LEMMA SumChanges ==
    ASSUME NEW S, IsFiniteSet(S), NEW y \in S, NEW g, NEW h,
           \A x \in S : g[x] \in Int /\ h[x] \in Int,
           \A x \in S \ {y} : g[x] = h[x]
    PROVE  SumFunctionOnSet(h, S) = SumFunctionOnSet(g, S) - g[y] + h[y]
<1> DEFINE R == S \ {y}
<1>1. IsFiniteSet(R) /\ R \subseteq S
  BY FS_Subset
<1>2. /\ SumFunctionOnSet(g, S) = g[y] + SumFunctionOnSet(g, R)
      /\ SumFunctionOnSet(h, S) = h[y] + SumFunctionOnSet(h, R)
  BY SumFacts
<1>3. \A x \in R : g[x] \in Int /\ g[x] = h[x]
  OBVIOUS
<1> HIDE DEF R
<1>4. SumFunctionOnSet(g, R) = SumFunctionOnSet(h, R)
  BY <1>1, <1>3, SumAgrees
<1>5. SumFunctionOnSet(g, R) \in Int
  BY <1>1, <1>3, SumFacts
<1>6. g[y] \in Int /\ h[y] \in Int
  OBVIOUS
<1> QED
  BY <1>2, <1>4, <1>5, <1>6

(* A sum of natural numbers over more of them is not smaller.               *)
LEMMA SumIsMonotonic ==
    ASSUME NEW T, IsFiniteSet(T), NEW S \in SUBSET T, NEW g, \A x \in T : g[x] \in Nat
    PROVE  SumFunctionOnSet(g, S) <= SumFunctionOnSet(g, T)
<1> DEFINE R == T \ S
           Sum(A) == SumFunctionOnSet(g, A)
           C == {D \in SUBSET R : Sum(S) <= Sum(S \cup D)}
<1>1. \A A \in SUBSET T : /\ IsFiniteSet(A) /\ Sum(A) \in Int
                         /\ \A x \in A : Sum(A) = g[x] + Sum(A \ {x})
  <2> SUFFICES ASSUME NEW A \in SUBSET T
               PROVE  /\ IsFiniteSet(A) /\ Sum(A) \in Int
                      /\ \A x \in A : Sum(A) = g[x] + Sum(A \ {x})
    OBVIOUS
  <2>1. IsFiniteSet(A) /\ \A x \in A : g[x] \in Int
    BY FS_Subset
  <2> QED
    BY <2>1, SumFacts
<1> HIDE DEF Sum
<1>2. {} \in C
  <2>1. S \cup {} = S /\ Sum(S) \in Int
    BY <1>1
  <2> QED
    BY <2>1
<1>3. ASSUME NEW D \in SUBSET R, D # {}, \A x \in D : D \ {x} \in C
      PROVE  D \in C
  <2>1. PICK x \in D : TRUE
    BY <1>3
  <2>2. Sum(S) <= Sum(S \cup (D \ {x}))
    BY <1>3, <2>1
  <2>3. (S \cup D) \ {x} = S \cup (D \ {x}) /\ S \cup D \in SUBSET T /\ x \in S \cup D
        /\ S \cup (D \ {x}) \in SUBSET T
    BY <2>1
  <2>4. Sum(S \cup D) = g[x] + Sum(S \cup (D \ {x}))
    BY Zenon, <1>1, <2>3
  <2>5. /\ g[x] \in Nat /\ Sum(S \cup (D \ {x})) \in Int /\ Sum(S) \in Int
        /\ Sum(S \cup D) \in Int
    BY <1>1, <2>1, <2>3
  <2>6. Sum(S) <= Sum(S \cup D)
    BY <2>2, <2>4, <2>5
  <2> QED
    BY <2>6
<1>4. IsFiniteSet(R) /\ R \in SUBSET R
  BY FS_Subset
<1>5. R \in C
  <2> HIDE DEF C, R
  <2> QED
    BY <1>2, <1>3, <1>4, InductOnSets
<1>6. S \cup R = T
  OBVIOUS
<1> QED
  BY <1>5, <1>6 DEF Sum

-----------------------------------------------------------------------------
(* Division with remainder by a positive number is unique, so a sum may be  *)
(* taken apart.                                                             *)
LEMMA Divided ==
    ASSUME NEW M \in Nat \ {0}, NEW a \in Int, NEW k \in Int, NEW r \in 0 .. M - 1,
           a = M * k + r
    PROVE  a \div M = k /\ a % M = r
  BY Z3

LEMMA Division ==
    ASSUME NEW M \in Nat \ {0}, NEW a \in Int
    PROVE  /\ a \div M \in Int /\ a % M \in 0 .. M - 1
           /\ a = M * (a \div M) + (a % M)
  BY Z3

LEMMA RemainderCarries ==
    ASSUME NEW M \in Nat \ {0}, NEW a \in Int, NEW b \in Int
    PROVE  /\ ((a % M) + b) % M = (a + b) % M
           /\ a \div M + ((a % M) + b) \div M = (a + b) \div M
<1> DEFINE k == a \div M
           r == a % M
           j == (r + b) \div M
           t == (r + b) % M
<1>1. k \in Int /\ r \in Int /\ a = M * k + r
  BY Division
<1>2. j \in Int /\ t \in 0 .. M - 1 /\ r + b = M * j + t
  BY <1>1, Division
<1>3. a + b \in Int /\ k + j \in Int
  BY <1>1, <1>2
<1> HIDE DEF k, r, j, t
<1>4. M * (k + j) = M * k + M * j
  BY <1>1, <1>2
<1>5. M * k \in Int /\ M * j \in Int
  BY <1>1, <1>2
<1>6. a + b = M * (k + j) + t
  BY <1>1, <1>2, <1>4, <1>5
<1>7. (a + b) \div M = k + j /\ (a + b) % M = t
  BY <1>2, <1>3, <1>6, Divided
<1> QED
  BY <1>7 DEF k, r, j, t
=============================================================================
