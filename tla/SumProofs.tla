----------------------------- MODULE SumProofs ------------------------------
(***************************************************************************)
(* Sums: what the folds of the community modules compute, for every finite *)
(* set and every sequence, and how it adds up modulo the size of an        *)
(* unsigned integer.  A fold takes its elements in an order that CHOOSE,   *)
(* or Max, decides; a sum does not depend on it.                           *)
(***************************************************************************)
EXTENDS Integers, Sequences, FiniteSetsExt, SequencesExt, FiniteSetTheorems,
        WellFoundedInduction, TLAPS

-----------------------------------------------------------------------------
(* Least and greatest elements.                                            *)

\* A non-empty set of natural numbers has a least element.
LEMMA LeastNat ==
    ASSUME NEW S, S \subseteq Nat, S # {}
    PROVE  \E x \in S : \A y \in S : x <= y
<1> DEFINE R == {ss \in Nat \X Nat : ss[1] < ss[2]}
<1>1. IsWellFoundedOn(R, Nat)
  BY NatLessThanWellFounded DEF OpToRel
<1> HIDE DEF R
<1>2. PICK x \in S : \A y \in S : ~ (<<y, x>> \in R)
  BY <1>1, WFMin
<1>3. \A y \in S : ~ (y < x)
  BY <1>2 DEF R
<1> QED BY <1>3

\* A non-empty set of indexes has a greatest element.
LEMMA GreatestIndex ==
    ASSUME NEW n \in Nat, NEW S, S \subseteq 1 .. n, S # {}
    PROVE  \E x \in S : \A y \in S : y <= x
<1> DEFINE T == {n - x : x \in S}
<1>1. T \subseteq Nat /\ T # {}
  <2>1. \A x \in S : n - x \in Nat
    OBVIOUS
  <2>2. \E x \in S : n - x \in T
    OBVIOUS
  <2> QED BY <2>1, <2>2
<1>2. PICK t \in T : \A u \in T : t <= u
  BY <1>1, LeastNat
<1>3. PICK x \in S : t = n - x
  OBVIOUS
<1>4. \A y \in S : n - y \in T
  OBVIOUS
<1>5. \A y \in S : n - x <= n - y
  BY <1>2, <1>3, <1>4
<1>6. \A y \in S : y <= x
  BY <1>5
<1> QED BY <1>6

-----------------------------------------------------------------------------
(* Induction, over sets instead of predicates.                             *)

LEMMA NaturalInduct ==
    ASSUME NEW N, 0 \in N, \A n \in Nat : n \in N => n + 1 \in N
    PROVE  Nat \subseteq N
<1> SUFFICES ASSUME Nat \ N # {} PROVE FALSE
  OBVIOUS
<1>1. PICK n \in Nat \ N : \A m \in Nat \ N : n <= m
  BY LeastNat
<1>2. n - 1 \in Nat /\ n - 1 \notin Nat \ N
  BY <1>1
<1> QED BY <1>1, <1>2

\* A set of subsets of a finite set that has the empty one, and that adding an
\* element does not leave, has them all.
LEMMA FiniteInduct ==
    ASSUME NEW S, IsFiniteSet(S), NEW Q, {} \in Q,
           \A T \in SUBSET S : \A x \in S \ T : T \in Q => T \cup {x} \in Q
    PROVE  \A T \in SUBSET S : T \in Q
<1> DEFINE N == {n \in Nat : \A T \in SUBSET S : Cardinality(T) = n => T \in Q}
<1>1. \A T \in SUBSET S : IsFiniteSet(T) /\ Cardinality(T) \in Nat
  BY FS_Subset, FS_CardinalityType
<1>2. 0 \in N
  BY <1>1, FS_EmptySet
<1>3. ASSUME NEW n \in Nat, n \in N PROVE n + 1 \in N
  <2> SUFFICES ASSUME NEW T \in SUBSET S, Cardinality(T) = n + 1 PROVE T \in Q
    OBVIOUS
  <2>1. PICK x \in T : TRUE
    BY <1>1, FS_EmptySet
  <2>2. Cardinality(T \ {x}) = n
    <3>1. IsFiniteSet(T)
      BY <1>1
    <3>2. Cardinality(T \ {x}) = Cardinality(T) - 1
      BY <2>1, <3>1, FS_RemoveElement
    <3> QED BY <3>2
  <2>3. T \ {x} \in Q
    BY <1>3, <2>2
  <2>4. (T \ {x}) \cup {x} = T
    BY <2>1
  <2>5. T \ {x} \in SUBSET S /\ x \in S \ (T \ {x})
    BY <2>1
  <2>6. (T \ {x}) \cup {x} \in Q
    BY <2>3, <2>5
  <2> QED BY <2>4, <2>6
<1> HIDE DEF N
<1>4. Nat \subseteq N
  BY <1>2, <1>3, NaturalInduct
<1> QED BY <1>1, <1>4 DEF N

-----------------------------------------------------------------------------
(* Remainders.                                                             *)

LEMMA DivMod ==
    ASSUME NEW m \in Nat \ {0}, NEW a \in Int
    PROVE  a % m \in 0 .. (m - 1) /\ a \div m \in Int /\ a = m * (a \div m) + (a % m)
OBVIOUS

LEMMA OneRemainder ==
    ASSUME NEW m \in Nat \ {0}, NEW k \in Int, NEW l \in Int,
           NEW r \in 0 .. (m - 1), NEW s \in 0 .. (m - 1), m * k + r = m * l + s
    PROVE  r = s
<1>1. m * (k - l) = s - r
  OBVIOUS
<1>2. CASE k > l
  <2>1. m * (k - l) >= m
    BY <1>2
  <2> QED BY <1>1, <2>1
<1>3. CASE k < l
  <2>1. m * (k - l) <= -m
    BY <1>3
  <2> QED BY <1>1, <2>1
<1>4. CASE k = l
  BY <1>4
<1> QED BY <1>2, <1>3, <1>4

\* Numbers with the same remainder keep it when the same is added.
LEMMA SameRemainder ==
    ASSUME NEW m \in Nat \ {0}, NEW a \in Int, NEW b \in Int, NEW c \in Int, a % m = b % m
    PROVE  (a + c) % m = (b + c) % m
<1>1. PICK qa \in Int, ra \in 0 .. (m - 1) : a = m * qa + ra /\ ra = a % m
  BY DivMod
<1>2. PICK qb \in Int : b = m * qb + ra
  BY <1>1, DivMod
<1>3. a + c \in Int /\ b + c \in Int
  OBVIOUS
<1>4. PICK qc \in Int, rc \in 0 .. (m - 1) : a + c = m * qc + rc /\ rc = (a + c) % m
  BY <1>3, DivMod
<1>5. PICK qd \in Int, rd \in 0 .. (m - 1) : b + c = m * qd + rd /\ rd = (b + c) % m
  BY <1>3, DivMod
<1>6. m * (qc - qa) + rc = m * (qd - qb) + rd
  <2>1. m * (qc - qa) = m * qc - m * qa /\ m * (qd - qb) = m * qd - m * qb
    OBVIOUS
  <2> DEFINE ma == m * qa
             mb == m * qb
             mc == m * qc
             md == m * qd
  <2>2. ma \in Int /\ mb \in Int /\ mc \in Int /\ md \in Int
    OBVIOUS
  <2>3. /\ a = ma + ra /\ b = mb + ra /\ a + c = mc + rc /\ b + c = md + rd
        /\ m * (qc - qa) = mc - ma /\ m * (qd - qb) = md - mb
    BY <1>1, <1>2, <1>4, <1>5, <2>1
  <2> HIDE DEF ma, mb, mc, md
  <2>4. mc - ma + rc = md - mb + rd
    BY <2>2, <2>3
  <2> QED BY <2>3, <2>4
<1>7. rc = rd
  <2>1. qc - qa \in Int /\ qd - qb \in Int
    OBVIOUS
  <2> QED BY <1>4, <1>5, <1>6, <2>1, OneRemainder
<1> QED BY <1>4, <1>5, <1>7

\* What is added on both sides may be left out.
LEMMA CancelRemainder ==
    ASSUME NEW m \in Nat \ {0}, NEW a \in Int, NEW b \in Int, NEW c \in Int,
           (a + c) % m = (b + c) % m
    PROVE  a % m = b % m
<1> DEFINE Rem(x) == x % m
           p == a + c
           q == b + c
           r == -c
<1>1. p \in Int /\ q \in Int /\ r \in Int /\ p + r = a /\ q + r = b
  OBVIOUS
<1>2. Rem(p) = Rem(q)
  OBVIOUS
<1>3. \A x, y, z \in Int : Rem(x) = Rem(y) => Rem(x + z) = Rem(y + z)
  BY SameRemainder
<1> HIDE DEF Rem, p, q, r
<1>4. Rem(a) = Rem(b)
  BY <1>1, <1>2, <1>3
<1> QED BY <1>4 DEF Rem

LEMMA SmallRemainder ==
    ASSUME NEW m \in Nat \ {0}, NEW a \in 0 .. (m - 1)
    PROVE  a % m = a
<1>1. a % m \in 0 .. (m - 1) /\ a \div m \in Int /\ a = m * (a \div m) + (a % m)
  BY DivMod
<1>2. m * 0 + a = m * (a \div m) + (a % m)
  BY <1>1
<1> QED BY <1>1, <1>2, OneRemainder

LEMMA RemainderOfSum ==
    ASSUME NEW m \in Nat \ {0}, NEW a \in Int, NEW b \in Int
    PROVE  ((a % m) + b) % m = (a + b) % m
<1>1. a % m \in 0 .. (m - 1)
  BY DivMod
<1>2. (a % m) % m = a % m
  BY <1>1, SmallRemainder
<1>3. a % m \in Int
  BY <1>1
<1> QED BY <1>2, <1>3, SameRemainder

-----------------------------------------------------------------------------
(* Sums over finite sets.                                                  *)

\* The sum of g over S, as MapThenSumSet computes it.
SumOf(g, S) == MapThenSumSet(LAMBDA x : g[x], S)

\* The recursive function that MapThenSumSet chooses.
SumTable(it, g, S) ==
    it = [s \in SUBSET S |-> IF s = {} THEN 0
                             ELSE LET x == CHOOSE x \in s : TRUE IN g[x] + it[s \ {x}]]

\* The sums of g over the subsets of S, whichever element comes first.
AreSums(F, g, S) ==
    /\ F \in [SUBSET S -> Int] /\ F[{}] = 0
    /\ \A s \in SUBSET S : \A x \in s : F[s] = g[x] + F[s \ {x}]

IntOn(g, S) == \A x \in S : g[x] \in Int

LEMMA SumsExist ==
    ASSUME NEW S, IsFiniteSet(S), NEW g, IntOn(g, S)
    PROVE  \E F : AreSums(F, g, S)
<1> DEFINE Q == {T \in SUBSET S : \E F : AreSums(F, g, T)}
<1>1. {} \in Q
  <2>1. [s \in SUBSET {} |-> 0] \in [SUBSET {} -> Int]
    OBVIOUS
  <2>2. AreSums([s \in SUBSET {} |-> 0], g, {})
    BY <2>1 DEF AreSums
  <2> QED BY <2>2
<1>2. ASSUME NEW T \in SUBSET S, NEW x \in S \ T, T \in Q PROVE T \cup {x} \in Q
  <2>1. PICK F : AreSums(F, g, T)
    BY <1>2
  <2> DEFINE G == [s \in SUBSET (T \cup {x}) |-> IF x \in s THEN g[x] + F[s \ {x}] ELSE F[s]]
  <2>2. g[x] \in Int
    BY DEF IntOn
  <2>3. \A s \in SUBSET (T \cup {x}) : s \ {x} \in SUBSET T /\ (x \notin s => s \in SUBSET T)
    OBVIOUS
  <2>4. G \in [SUBSET (T \cup {x}) -> Int]
    BY <2>1, <2>2, <2>3 DEF AreSums
  <2>5. G[{}] = 0
    BY <2>1 DEF AreSums
  <2>6. ASSUME NEW s \in SUBSET (T \cup {x}), NEW y \in s PROVE G[s] = g[y] + G[s \ {y}]
    <3>1. s \ {y} \in SUBSET (T \cup {x})
      OBVIOUS
    <3>2. CASE y = x
      BY <2>3, <3>1, <3>2
    <3>3. CASE y # x /\ x \in s
      <4>1. y \in T /\ g[y] \in Int /\ s \ {x} \in SUBSET T /\ y \in s \ {x}
        BY <2>3, <3>3 DEF IntOn
      <4>2. F[s \ {x}] = g[y] + F[(s \ {x}) \ {y}] /\ F[(s \ {x}) \ {y}] \in Int
        BY <2>1, <4>1 DEF AreSums
      <4>3. (s \ {x}) \ {y} = (s \ {y}) \ {x}
        OBVIOUS
      <4>4. G[s] = g[x] + F[s \ {x}] /\ G[s \ {y}] = g[x] + F[(s \ {y}) \ {x}]
        BY <3>1, <3>3
      <4>5. PICK f \in Int : f = F[(s \ {y}) \ {x}]
        BY <4>2, <4>3
      <4>6. G[s] = g[x] + (g[y] + f) /\ G[s \ {y}] = g[x] + f
        BY <4>2, <4>3, <4>4, <4>5
      <4> HIDE DEF G
      <4> QED BY <2>2, <4>1, <4>5, <4>6
    <3>4. CASE x \notin s
      <4>1. s \in SUBSET T /\ G[s] = F[s] /\ G[s \ {y}] = F[s \ {y}]
        BY <2>3, <3>1, <3>4
      <4> QED BY <2>1, <4>1 DEF AreSums
    <3> QED BY <3>2, <3>3, <3>4
  <2> HIDE DEF G
  <2>7. AreSums(G, g, T \cup {x})
    BY <2>4, <2>5, <2>6 DEF AreSums
  <2> QED BY <2>7
<1> HIDE DEF Q
<1>3. S \in Q
  BY <1>1, <1>2, FiniteInduct
<1> QED BY <1>3 DEF Q

\* Every recursive function of this form is the sums.
LEMMA TableIsSums ==
    ASSUME NEW S, IsFiniteSet(S), NEW g, NEW F, AreSums(F, g, S), NEW it, SumTable(it, g, S)
    PROVE  it[S] = F[S]
<1> DEFINE N == {n \in Nat : \A T \in SUBSET S : Cardinality(T) = n => it[T] = F[T]}
<1>1. \A T \in SUBSET S : IsFiniteSet(T) /\ Cardinality(T) \in Nat
  BY FS_Subset, FS_CardinalityType
<1>2. it[{}] = 0 /\ F[{}] = 0
  BY DEF SumTable, AreSums
<1>3. 0 \in N
  BY <1>1, <1>2, FS_EmptySet
<1>4. ASSUME NEW n \in Nat, n \in N PROVE n + 1 \in N
  <2> SUFFICES ASSUME NEW T \in SUBSET S, Cardinality(T) = n + 1 PROVE it[T] = F[T]
    OBVIOUS
  <2> DEFINE x == CHOOSE x \in T : TRUE
  <2>1. T # {}
    BY FS_EmptySet
  <2>2. x \in T
    BY <2>1
  <2>3. it[T] = g[x] + it[T \ {x}]
    BY <2>1 DEF SumTable
  <2> HIDE DEF x
  <2>4. Cardinality(T \ {x}) = n
    <3>1. IsFiniteSet(T)
      BY <1>1
    <3>2. Cardinality(T \ {x}) = Cardinality(T) - 1
      BY <2>2, <3>1, FS_RemoveElement
    <3> QED BY <3>2
  <2>5. T \ {x} \in SUBSET S /\ it[T \ {x}] = F[T \ {x}]
    BY <1>4, <2>4
  <2>6. F[T] = g[x] + F[T \ {x}]
    BY <2>2 DEF AreSums
  <2> QED BY <2>3, <2>5, <2>6
<1> HIDE DEF N
<1>5. Nat \subseteq N
  BY <1>3, <1>4, NaturalInduct
<1>6. S \in SUBSET S /\ Cardinality(S) \in N
  BY <1>1, <1>5
<1> QED BY <1>6 DEF N

LEMMA SumsAreTable ==
    ASSUME NEW S, NEW g, NEW F, AreSums(F, g, S)
    PROVE  SumTable(F, g, S)
<1>1. ASSUME NEW s \in SUBSET S
      PROVE  F[s] = IF s = {} THEN 0
                    ELSE LET x == CHOOSE x \in s : TRUE IN g[x] + F[s \ {x}]
  BY DEF AreSums
<1>2. F = [s \in SUBSET S |-> F[s]]
  BY DEF AreSums
<1> QED BY <1>1, <1>2 DEF SumTable

LEMMA SumIs ==
    ASSUME NEW S, IsFiniteSet(S), NEW g, NEW F, AreSums(F, g, S)
    PROVE  SumOf(g, S) = F[S]
<1> DEFINE it == CHOOSE it : SumTable(it, g, S)
<1>1. SumOf(g, S) = it[S]
  BY DEF SumOf, MapThenSumSet, MapThenFoldSet, SumTable
<1>2. SumTable(it, g, S)
  BY SumsAreTable
<1> HIDE DEF it
<1> QED BY <1>1, <1>2, TableIsSums

\* The table of the sums over the parts of S gives the sum over each part.
LEMMA PartialSums ==
    ASSUME NEW S, IsFiniteSet(S), NEW g, NEW F, AreSums(F, g, S), NEW T \in SUBSET S
    PROVE  SumOf(g, T) = F[T]
<1> DEFINE G == [s \in SUBSET T |-> F[s]]
<1>1. SUBSET T \subseteq SUBSET S /\ IsFiniteSet(T)
  BY FS_Subset
<1>2. G \in [SUBSET T -> Int] /\ G[{}] = 0
  BY <1>1 DEF AreSums
<1>3. ASSUME NEW s \in SUBSET T, NEW x \in s PROVE G[s] = g[x] + G[s \ {x}]
  <2>1. s \in SUBSET S /\ s \ {x} \in SUBSET T
    BY <1>1
  <2> QED BY <2>1 DEF AreSums
<1>4. G[T] = F[T]
  OBVIOUS
<1> HIDE DEF G
<1>5. AreSums(G, g, T)
  BY <1>2, <1>3 DEF AreSums
<1> QED BY <1>1, <1>4, <1>5, SumIs

\* The sum over a set, by any of its elements.
LEMMA SumAdd ==
    ASSUME NEW S, IsFiniteSet(S), NEW g, IntOn(g, S), NEW x \in S
    PROVE  /\ SumOf(g, S) = g[x] + SumOf(g, S \ {x})
           /\ SumOf(g, S) \in Int /\ SumOf(g, S \ {x}) \in Int
<1>1. PICK F : AreSums(F, g, S)
  BY SumsExist
<1>2. S \in SUBSET S /\ S \ {x} \in SUBSET S
  OBVIOUS
<1>3. SumOf(g, S) = F[S] /\ SumOf(g, S \ {x}) = F[S \ {x}]
  BY <1>1, <1>2, PartialSums
<1> QED BY <1>1, <1>2, <1>3 DEF AreSums

LEMMA SumEmpty == ASSUME NEW g PROVE SumOf(g, {}) = 0
<1>1. IsFiniteSet({}) /\ IntOn(g, {})
  BY FS_EmptySet DEF IntOn
<1>2. PICK F : AreSums(F, g, {})
  BY <1>1, SumsExist
<1>3. SumOf(g, {}) = F[{}]
  BY <1>1, <1>2, SumIs
<1> QED BY <1>2, <1>3 DEF AreSums

LEMMA SumInt ==
    ASSUME NEW S, IsFiniteSet(S), NEW g, IntOn(g, S)
    PROVE  SumOf(g, S) \in Int
<1>1. PICK F : AreSums(F, g, S)
  BY SumsExist
<1>2. SumOf(g, S) = F[S] /\ S \in SUBSET S
  BY <1>1, SumIs
<1> QED BY <1>1, <1>2 DEF AreSums

\* An element more.
LEMMA SumMore ==
    ASSUME NEW S, IsFiniteSet(S), NEW x, x \notin S, NEW g, IntOn(g, S \cup {x})
    PROVE  SumOf(g, S \cup {x}) = g[x] + SumOf(g, S)
<1>1. IsFiniteSet(S \cup {x}) /\ (S \cup {x}) \ {x} = S /\ x \in S \cup {x}
  BY FS_AddElement
<1> QED BY <1>1, SumAdd

\* Sums of equal values are equal.
LEMMA SumCongruence ==
    ASSUME NEW S, IsFiniteSet(S), NEW g, IntOn(g, S), NEW h, \A x \in S : g[x] = h[x]
    PROVE  SumOf(g, S) = SumOf(h, S)
<1>1. PICK F : AreSums(F, g, S)
  BY SumsExist
<1>2. \A s \in SUBSET S : \A x \in s : F[s] = h[x] + F[s \ {x}]
  BY <1>1 DEF AreSums
<1>3. AreSums(F, h, S)
  BY <1>1, <1>2 DEF AreSums
<1> QED BY <1>1, <1>3, SumIs

\* The sum over two disjoint sets.
LEMMA SumUnion ==
    ASSUME NEW A, IsFiniteSet(A), NEW B, IsFiniteSet(B), A \cap B = {},
           NEW g, IntOn(g, A \cup B)
    PROVE  SumOf(g, A \cup B) = SumOf(g, A) + SumOf(g, B)
<1> DEFINE Q == {T \in SUBSET B : SumOf(g, A \cup T) = SumOf(g, A) + SumOf(g, T)}
<1>1. IntOn(g, A) /\ SumOf(g, A) \in Int
  BY SumInt DEF IntOn
<1>2. {} \in Q
  <2>1. A \cup {} = A
    OBVIOUS
  <2> QED BY <1>1, <2>1, SumEmpty
<1>3. ASSUME NEW T \in SUBSET B, NEW x \in B \ T, T \in Q PROVE T \cup {x} \in Q
  <2>1. /\ IsFiniteSet(T) /\ IsFiniteSet(A \cup T) /\ x \notin A \cup T
        /\ IntOn(g, (A \cup T) \cup {x}) /\ IntOn(g, T \cup {x}) /\ IntOn(g, T) /\ g[x] \in Int
    BY FS_Subset, FS_Union DEF IntOn
  <2>2. SumOf(g, (A \cup T) \cup {x}) = g[x] + SumOf(g, A \cup T)
    BY <2>1, SumMore
  <2>3. SumOf(g, T \cup {x}) = g[x] + SumOf(g, T) /\ SumOf(g, T) \in Int
    BY <2>1, SumMore, SumInt
  <2>4. (A \cup T) \cup {x} = A \cup (T \cup {x})
    OBVIOUS
  <2>5. SumOf(g, A \cup T) = SumOf(g, A) + SumOf(g, T)
    BY <1>3
  <2>6. SumOf(g, A \cup (T \cup {x})) = SumOf(g, A) + SumOf(g, T \cup {x})
    <3>1. PICK a \in Int : a = SumOf(g, A)
      BY <1>1
    <3>2. PICK t \in Int : t = SumOf(g, T)
      BY <2>3
    <3>3. g[x] + (a + t) = a + (g[x] + t)
      BY <2>1
    <3> QED BY <2>2, <2>3, <2>4, <2>5, <3>1, <3>2, <3>3
  <2> QED BY <2>6
<1> HIDE DEF Q
<1>4. B \in Q
  BY <1>2, <1>3, FiniteInduct
<1> QED BY <1>4 DEF Q

\* Values added element by element.
LEMMA SumPlus ==
    ASSUME NEW S, IsFiniteSet(S), NEW g, IntOn(g, S), NEW h, IntOn(h, S),
           NEW k, \A x \in S : k[x] = g[x] + h[x]
    PROVE  SumOf(k, S) = SumOf(g, S) + SumOf(h, S)
<1>1. PICK F : AreSums(F, g, S)
  BY SumsExist
<1>2. PICK G : AreSums(G, h, S)
  BY SumsExist
<1> DEFINE H == [s \in SUBSET S |-> F[s] + G[s]]
<1>3. H \in [SUBSET S -> Int] /\ H[{}] = 0
  BY <1>1, <1>2 DEF AreSums
<1>4. ASSUME NEW s \in SUBSET S, NEW x \in s PROVE H[s] = k[x] + H[s \ {x}]
  <2>1. s \ {x} \in SUBSET S /\ g[x] \in Int /\ h[x] \in Int /\ k[x] = g[x] + h[x]
    BY DEF IntOn
  <2>2. PICK f \in Int : f = F[s \ {x}] /\ F[s] = g[x] + f
    BY <1>1, <2>1 DEF AreSums
  <2>3. PICK e \in Int : e = G[s \ {x}] /\ G[s] = h[x] + e
    BY <1>2, <2>1 DEF AreSums
  <2>4. H[s] = (g[x] + f) + (h[x] + e) /\ H[s \ {x}] = f + e
    BY <2>1, <2>2, <2>3
  <2> HIDE DEF H
  <2> QED BY <2>1, <2>2, <2>3, <2>4
<1>5. H[S] = F[S] + G[S]
  OBVIOUS
<1> HIDE DEF H
<1>6. AreSums(H, k, S)
  BY <1>3, <1>4 DEF AreSums
<1> QED BY <1>1, <1>2, <1>5, <1>6, SumIs

LEMMA SumConstant ==
    ASSUME NEW S, IsFiniteSet(S), NEW c \in Int, NEW g, \A x \in S : g[x] = c
    PROVE  SumOf(g, S) = c * Cardinality(S)
<1> DEFINE Q == {T \in SUBSET S : SumOf(g, T) = c * Cardinality(T)}
<1>1. {} \in Q
  BY SumEmpty, FS_EmptySet
<1>2. ASSUME NEW T \in SUBSET S, NEW x \in S \ T, T \in Q PROVE T \cup {x} \in Q
  <2>1. IsFiniteSet(T) /\ IntOn(g, T \cup {x}) /\ g[x] = c
    BY FS_Subset DEF IntOn
  <2>2. PICK n \in Nat : n = Cardinality(T) /\ Cardinality(T \cup {x}) = n + 1
    BY <2>1, FS_AddElement, FS_CardinalityType
  <2>3. SumOf(g, T \cup {x}) = c + SumOf(g, T)
    BY <2>1, SumMore
  <2>4. SumOf(g, T) = c * n
    BY <1>2, <2>2
  <2>5. c + c * n = c * (n + 1)
    OBVIOUS
  <2>6. SumOf(g, T \cup {x}) = c * Cardinality(T \cup {x})
    BY <2>2, <2>3, <2>4, <2>5
  <2> QED BY <2>6
<1> HIDE DEF Q
<1>3. S \in Q
  BY <1>1, <1>2, FiniteInduct
<1> QED BY <1>3 DEF Q

\* A sum of natural numbers is one.
LEMMA SumNat ==
    ASSUME NEW S, IsFiniteSet(S), NEW g, \A x \in S : g[x] \in Nat
    PROVE  SumOf(g, S) \in Nat
<1> DEFINE Q == {T \in SUBSET S : SumOf(g, T) \in Nat}
<1>1. {} \in Q
  BY SumEmpty
<1>2. ASSUME NEW T \in SUBSET S, NEW x \in S \ T, T \in Q PROVE T \cup {x} \in Q
  <2>1. IsFiniteSet(T) /\ IntOn(g, T \cup {x}) /\ x \notin T
    BY <1>2, FS_Subset DEF IntOn
  <2>2. SumOf(g, T \cup {x}) = g[x] + SumOf(g, T)
    BY <2>1, SumMore
  <2>3. SumOf(g, T) \in Nat /\ g[x] \in Nat
    BY <1>2
  <2> QED BY <2>2, <2>3
<1> HIDE DEF Q
<1>3. \A T \in SUBSET S : T \in Q
  BY <1>1, <1>2, FiniteInduct
<1>4. S \in Q
  BY <1>3
<1> QED BY <1>4 DEF Q

\* A sum of smaller terms is smaller.
LEMMA SumMonotone ==
    ASSUME NEW S, IsFiniteSet(S), NEW g, IntOn(g, S), NEW h, IntOn(h, S),
           \A x \in S : g[x] <= h[x]
    PROVE  SumOf(g, S) <= SumOf(h, S)
<1> DEFINE k == [x \in S |-> h[x] - g[x]]
<1>1. \A x \in S : k[x] \in Nat /\ h[x] = g[x] + k[x]
  BY DEF IntOn
<1>2. IntOn(k, S)
  BY <1>1 DEF IntOn
<1> HIDE DEF k
<1>3. SumOf(h, S) = SumOf(g, S) + SumOf(k, S)
  BY <1>1, <1>2, SumPlus
<1>4. SumOf(k, S) \in Nat /\ SumOf(g, S) \in Int
  BY <1>1, SumNat, SumInt
<1> QED BY <1>3, <1>4

\* A sum of natural numbers over a part of a set is smaller.
LEMMA SumPart ==
    ASSUME NEW S, IsFiniteSet(S), NEW T \in SUBSET S, NEW g, \A x \in S : g[x] \in Nat
    PROVE  SumOf(g, T) <= SumOf(g, S)
<1>1. IsFiniteSet(T) /\ IsFiniteSet(S \ T) /\ T \cap (S \ T) = {} /\ T \cup (S \ T) = S
  BY FS_Subset
<1>2. IntOn(g, S)
  BY DEF IntOn
<1>3. SumOf(g, S) = SumOf(g, T) + SumOf(g, S \ T)
  BY <1>1, <1>2, SumUnion
<1>4. SumOf(g, T) \in Nat /\ SumOf(g, S \ T) \in Nat
  BY <1>1, SumNat
<1> QED BY <1>3, <1>4

\* Values that agree modulo m have sums that agree modulo m.
LEMMA SumModulo ==
    ASSUME NEW S, IsFiniteSet(S), NEW g, IntOn(g, S), NEW h, IntOn(h, S),
           NEW m \in Nat \ {0}, \A x \in S : g[x] % m = h[x] % m
    PROVE  SumOf(g, S) % m = SumOf(h, S) % m
<1> DEFINE Q == {T \in SUBSET S : SumOf(g, T) % m = SumOf(h, T) % m}
<1>1. {} \in Q
  BY SumEmpty
<1>2. ASSUME NEW T \in SUBSET S, NEW x \in S \ T, T \in Q PROVE T \cup {x} \in Q
  <2>1. /\ IsFiniteSet(T) /\ IntOn(g, T \cup {x}) /\ IntOn(h, T \cup {x})
        /\ IntOn(g, T) /\ IntOn(h, T)
    BY FS_Subset DEF IntOn
  <2>2. PICK a \in Int, b \in Int : a = g[x] /\ b = h[x] /\ a % m = b % m
    BY DEF IntOn
  <2>3. PICK s \in Int, t \in Int : s = SumOf(g, T) /\ t = SumOf(h, T) /\ s % m = t % m
    BY <1>2, <2>1, SumInt
  <2>4. SumOf(g, T \cup {x}) = a + s /\ SumOf(h, T \cup {x}) = b + t
    BY <2>1, <2>2, <2>3, SumMore
  <2>5. (a + s) % m = (b + s) % m
    BY <2>2, SameRemainder
  <2>6. (s + b) % m = (t + b) % m
    BY <2>3, SameRemainder
  <2>7. b + s = s + b /\ b + t = t + b
    OBVIOUS
  <2>8. SumOf(g, T \cup {x}) % m = SumOf(h, T \cup {x}) % m
    BY <2>4, <2>5, <2>6, <2>7
  <2> QED BY <2>8
<1> HIDE DEF Q
<1>3. S \in Q
  BY <1>1, <1>2, FiniteInduct
<1> QED BY <1>3 DEF Q

\* The elements of A that f maps to y.
Fiber(f, A, y) == {x \in A : f[x] = y}

\* A sum over A, taken for each image under f first.
LEMMA SumByFibers ==
    ASSUME NEW A, IsFiniteSet(A), NEW B, IsFiniteSet(B), NEW f, \A x \in A : f[x] \in B,
           NEW g, IntOn(g, A), NEW h, \A y \in B : h[y] = SumOf(g, Fiber(f, A, y))
    PROVE  /\ SumOf(g, A) = SumOf(h, B)
           /\ \A T \in SUBSET B : SumOf(g, {x \in A : f[x] \in T}) = SumOf(h, T)
<1> DEFINE Over(T) == {x \in A : f[x] \in T}
           Q == {T \in SUBSET B : SumOf(g, Over(T)) = SumOf(h, T)}
<1>1. \A C \in SUBSET A : IsFiniteSet(C) /\ IntOn(g, C)
  BY FS_Subset DEF IntOn
<1>2. IntOn(h, B)
  <2>1. \A y \in B : Fiber(f, A, y) \in SUBSET A
    BY DEF Fiber
  <2> QED BY <1>1, <2>1, SumInt DEF IntOn
<1>3. {} \in Q
  <2>1. Over({}) = {}
    OBVIOUS
  <2> QED BY <2>1, SumEmpty
<1>4. ASSUME NEW T \in SUBSET B, NEW y \in B \ T, T \in Q PROVE T \cup {y} \in Q
  <2>1. /\ Over(T \cup {y}) = Over(T) \cup Fiber(f, A, y) /\ Over(T) \cap Fiber(f, A, y) = {}
        /\ Over(T) \in SUBSET A /\ Fiber(f, A, y) \in SUBSET A
        /\ Over(T) \cup Fiber(f, A, y) \in SUBSET A
    BY DEF Fiber
  <2>2. SumOf(g, Over(T)) = SumOf(h, T)
    BY <1>4
  <2> HIDE DEF Over, Q
  <2>3. SumOf(g, Over(T \cup {y})) = SumOf(g, Over(T)) + SumOf(g, Fiber(f, A, y))
    <3> DEFINE C == Over(T)
               D == Fiber(f, A, y)
    <3>1. IsFiniteSet(C) /\ IsFiniteSet(D) /\ C \cap D = {} /\ IntOn(g, C \cup D)
      BY <1>1, <2>1
    <3>2. Over(T \cup {y}) = C \cup D
      BY <2>1
    <3> HIDE DEF C, D
    <3>3. SumOf(g, C \cup D) = SumOf(g, C) + SumOf(g, D)
      BY <3>1, SumUnion
    <3> QED BY <3>2, <3>3 DEF C, D
  <2>4. SumOf(h, T \cup {y}) = h[y] + SumOf(h, T)
    <3>1. IsFiniteSet(T) /\ IntOn(h, T \cup {y})
      BY <1>2, FS_Subset DEF IntOn
    <3> QED BY <3>1, SumMore
  <2>5. h[y] \in Int /\ SumOf(g, Over(T)) \in Int /\ h[y] = SumOf(g, Fiber(f, A, y))
    BY <1>1, <1>2, <2>1, SumInt DEF IntOn
  <2>6. PICK a \in Int, b \in Int : a = h[y] /\ b = SumOf(g, Over(T)) /\ b + a = a + b
    BY <2>5
  <2>7. SumOf(g, Over(T \cup {y})) = SumOf(h, T \cup {y})
    BY <2>2, <2>3, <2>4, <2>5, <2>6
  <2> QED BY <2>7 DEF Q
<1> HIDE DEF Q
<1>5. \A T \in SUBSET B : T \in Q
  BY <1>3, <1>4, FiniteInduct
<1>6. \A T \in SUBSET B : SumOf(g, {x \in A : f[x] \in T}) = SumOf(h, T)
  BY <1>5 DEF Q
<1>7. B \in SUBSET B /\ {x \in A : f[x] \in B} = A
  OBVIOUS
<1> HIDE DEF Over
<1>8. SumOf(g, A) = SumOf(h, B)
  BY <1>6, <1>7
<1> QED BY <1>6, <1>8

\* A sum over the images of A under an injective f.
LEMMA SumOfImages ==
    ASSUME NEW A, IsFiniteSet(A), NEW B, IsFiniteSet(B), NEW f, \A x \in A : f[x] \in B,
           \A y \in B : \E x \in A : f[x] = y,
           \A x \in A : \A z \in A : f[x] = f[z] => x = z,
           NEW g, NEW h, \A x \in A : g[x] = h[f[x]], IntOn(h, B)
    PROVE  SumOf(g, A) = SumOf(h, B)
<1>1. IntOn(g, A)
  BY DEF IntOn
<1>2. ASSUME NEW y \in B PROVE h[y] = SumOf(g, Fiber(f, A, y))
  <2>1. PICK x \in A : f[x] = y
    OBVIOUS
  <2>2. Fiber(f, A, y) = {} \cup {x}
    BY <2>1 DEF Fiber
  <2>3. IsFiniteSet({}) /\ IntOn(g, {} \cup {x}) /\ g[x] \in Int /\ g[x] = h[y]
    BY <1>1, <2>1, FS_EmptySet DEF IntOn
  <2>4. SumOf(g, {} \cup {x}) = g[x] + SumOf(g, {}) /\ SumOf(g, {}) = 0
    <3>1. x \notin {}
      OBVIOUS
    <3>2. \A U : IsFiniteSet(U) /\ x \notin U /\ IntOn(g, U \cup {x}) =>
            SumOf(g, U \cup {x}) = g[x] + SumOf(g, U)
      BY SumMore
    <3> QED BY <2>3, <3>1, <3>2, SumEmpty
  <2> QED BY <2>2, <2>3, <2>4
<1> QED BY <1>1, <1>2, SumByFibers

-----------------------------------------------------------------------------
(* Folds over sequences: FoldLeft takes the indexes by Max.                *)

LEMMA MaxIndex ==
    ASSUME NEW n \in Nat, NEW s \in SUBSET (1 .. n), s # {}
    PROVE  Max(s) \in s /\ \A y \in s : y <= Max(s)
<1>1. \E x \in s : \A y \in s : y <= x
  BY GreatestIndex
<1>2. \E x \in s : \A y \in s : x >= y
  BY <1>1
<1> QED BY <1>2 DEF Max

LEMMA MaxInterval ==
    ASSUME NEW n \in Nat \ {0}
    PROVE  1 .. n # {} /\ Max(1 .. n) = n /\ (1 .. n) \ {n} = 1 .. (n - 1)
<1>1. n \in 1 .. n /\ 1 .. n \in SUBSET (1 .. n)
  OBVIOUS
<1>2. Max(1 .. n) \in 1 .. n /\ n <= Max(1 .. n)
  BY <1>1, MaxIndex
<1> QED BY <1>1, <1>2

LEMMA IndexOrLast == \A k \in Nat : \A i \in 1 .. k + 1 : i = k + 1 \/ i \in 1 .. k
OBVIOUS

\* The values of a fold with the steps f, for each set of indexes.
AreFolds(it, n, base, f) ==
    \A s \in SUBSET (1 .. n) :
        it[s] = IF s = {} THEN base ELSE f[<<it[s \ {Max(s)}], Max(s)>>]

\* A fold whose steps stay in P has a value in P for every set of indexes.
LEMMA FoldsExist ==
    ASSUME NEW n \in Nat, NEW P, NEW base \in P, NEW f,
           \A a \in P : \A i \in 1 .. n : f[<<a, i>>] \in P
    PROVE  \E it \in [SUBSET (1 .. n) -> P] : AreFolds(it, n, base, f)
<1> DEFINE Good(k) == \E it \in [SUBSET (1 .. k) -> P] : AreFolds(it, k, base, f)
           N == {k \in Nat : k <= n => Good(k)}
<1>1. 0 \in N
  <2> DEFINE it == [s \in SUBSET (1 .. 0) |-> base]
  <2>1. SUBSET (1 .. 0) = {{}}
    OBVIOUS
  <2>2. it \in [SUBSET (1 .. 0) -> P] /\ AreFolds(it, 0, base, f)
    BY <2>1 DEF AreFolds
  <2> QED BY <2>2
<1>2. ASSUME NEW k \in Nat, k \in N PROVE k + 1 \in N
  <2> SUFFICES ASSUME k + 1 <= n PROVE Good(k + 1)
    <3> HIDE DEF Good
    <3> QED OBVIOUS
  <2>1. PICK it \in [SUBSET (1 .. k) -> P] : AreFolds(it, k, base, f)
    <3>1. k <= n
      OBVIOUS
    <3> QED BY <1>2, <3>1
  <2> DEFINE jt == [s \in SUBSET (1 .. k + 1) |->
                       IF k + 1 \in s THEN f[<<it[s \ {k + 1}], k + 1>>] ELSE it[s]]
  <2>2. ASSUME NEW s \in SUBSET (1 .. k + 1)
        PROVE  /\ s \ {k + 1} \in SUBSET (1 .. k)
               /\ k + 1 \notin s => s \in SUBSET (1 .. k)
    <3>1. \A i \in 1 .. k + 1 : i = k + 1 \/ i \in 1 .. k
      BY IndexOrLast
    <3> QED BY <3>1
  <2>3. jt \in [SUBSET (1 .. k + 1) -> P]
    <3>1. k + 1 \in 1 .. n
      OBVIOUS
    <3>2. ASSUME NEW s \in SUBSET (1 .. k + 1)
          PROVE  (IF k + 1 \in s THEN f[<<it[s \ {k + 1}], k + 1>>] ELSE it[s]) \in P
      BY <2>1, <2>2, <3>1
    <3> QED BY <3>2
  <2>4. ASSUME NEW s \in SUBSET (1 .. k + 1)
        PROVE  jt[s] = IF s = {} THEN base ELSE f[<<jt[s \ {Max(s)}], Max(s)>>]
    <3>1. CASE k + 1 \in s
      <4>1. Max(s) \in s /\ k + 1 <= Max(s)
        <5>1. k + 1 \in Nat /\ s # {}
          BY <3>1
        <5> QED BY <3>1, <5>1, MaxIndex
      <4>2. Max(s) = k + 1
        <5>1. Max(s) \in 1 .. k + 1
          BY <4>1
        <5> QED BY <4>1, <5>1
      <4>3. jt[s \ {k + 1}] = it[s \ {k + 1}]
        BY <2>2
      <4> QED BY <3>1, <4>2, <4>3
    <3>2. CASE k + 1 \notin s
      <4>1. s \in SUBSET (1 .. k) /\ s \ {Max(s)} \in SUBSET (1 .. k)
        BY <2>2, <3>2
      <4>2. jt[s] = it[s] /\ jt[s \ {Max(s)}] = it[s \ {Max(s)}]
        BY <3>2, <4>1
      <4> QED BY <2>1, <4>1, <4>2 DEF AreFolds
    <3> QED BY <3>1, <3>2
  <2> HIDE DEF jt
  <2> QED BY <2>3, <2>4 DEF AreFolds
<1> HIDE DEF N
<1>3. Nat \subseteq N
  BY <1>1, <1>2, NaturalInduct
<1>4. n \in N /\ n <= n
  BY <1>3
<1> QED BY <1>4 DEF N

\* it holds the values in P of a fold with the steps f.
FoldsTo(it, n, P, base, f) ==
    /\ n \in Nat /\ base \in P
    /\ \A a \in P : \A i \in 1 .. n : f[<<a, i>>] \in P
    /\ it[{}] = base
    /\ \A s \in SUBSET (1 .. n) : s # {} /\ it[s \ {Max(s)}] \in P =>
            it[s] = f[<<it[s \ {Max(s)}], Max(s)>>]

\* r runs the fold from the first index to the last.
IsRun(r, it, n, P, base, f) ==
    /\ r \in [0 .. n -> P] /\ r[0] = base /\ r[n] = it[1 .. n]
    /\ \A i \in 1 .. n : r[i] = f[<<r[i - 1], i>>]

\* A fold can be run from the first index to the last.
LEMMA FoldRun ==
    ASSUME NEW it, NEW n, NEW P, NEW base, NEW f, FoldsTo(it, n, P, base, f)
    PROVE  \E r : IsRun(r, it, n, P, base, f)
<1> USE DEF FoldsTo
<1> DEFINE r == [k \in 0 .. n |-> it[1 .. k]]
           N == {k \in Nat : k <= n => it[1 .. k] \in P}
<1>1. 1 .. 0 = {}
  OBVIOUS
<1>2. ASSUME NEW k \in 1 .. n, it[1 .. (k - 1)] \in P
      PROVE  it[1 .. k] = f[<<it[1 .. (k - 1)], k>>] /\ it[1 .. k] \in P
  <2>1. k \in Nat \ {0} /\ 1 .. k \in SUBSET (1 .. n)
    OBVIOUS
  <2>2. 1 .. k # {} /\ Max(1 .. k) = k /\ (1 .. k) \ {k} = 1 .. (k - 1)
    BY <2>1, MaxInterval
  <2>3. it[1 .. k] = f[<<it[1 .. (k - 1)], k>>]
    BY <1>2, <2>1, <2>2
  <2> QED BY <1>2, <2>3
<1>3. 0 \in N
  BY <1>1
<1>4. ASSUME NEW k \in Nat, k \in N PROVE k + 1 \in N
  <2> SUFFICES ASSUME k + 1 <= n PROVE it[1 .. k + 1] \in P
    OBVIOUS
  <2>1. k + 1 \in 1 .. n /\ (k + 1) - 1 = k /\ it[1 .. k] \in P
    BY <1>4
  <2> QED BY <1>2, <2>1
<1> HIDE DEF N
<1>5. \A k \in 0 .. n : it[1 .. k] \in P
  <2>1. Nat \subseteq N
    BY <1>3, <1>4, NaturalInduct
  <2>2. \A k \in 0 .. n : k \in Nat /\ k <= n
    OBVIOUS
  <2> QED BY <2>1, <2>2 DEF N
<1>6. r \in [0 .. n -> P]
  BY <1>5
<1>7. \A i \in 1 .. n : r[i] = f[<<r[i - 1], i>>]
  <2> SUFFICES ASSUME NEW i \in 1 .. n PROVE r[i] = f[<<r[i - 1], i>>]
    OBVIOUS
  <2>1. i - 1 \in 0 .. n /\ i \in 0 .. n
    OBVIOUS
  <2>2. it[1 .. i] = f[<<it[1 .. (i - 1)], i>>]
    BY <1>2, <1>5, <2>1
  <2> QED BY <2>1, <2>2
<1>8. r[0] = base /\ r[n] = it[1 .. n]
  BY <1>1
<1> HIDE DEF r
<1> QED BY <1>6, <1>7, <1>8 DEF IsRun
=============================================================================
