---------------------------- MODULE SharedLemmas ----------------------------
(***************************************************************************)
(* Lemmas that the proofs about several components share: remainders,      *)
(* least and greatest elements, sequences and sums over finite sets.       *)
(***************************************************************************)
EXTENDS Integers, Sequences, FiniteSets, FiniteSetsExt, FiniteSetTheorems, NaturalsInduction,
        WellFoundedInduction, TLAPS

-----------------------------------------------------------------------------
(***************************************************************************)
(* Remainders.                                                             *)
(***************************************************************************)
LEMMA Divided ==
  ASSUME NEW n \in Nat \ {0}, NEW a \in Int
  PROVE  \E p \in Int, r \in 0..(n - 1) : a = p * n + r /\ a % n = r
<1>1. a = (a \div n) * n + (a % n)
  BY Z3
<1>2. a \div n \in Int
  OBVIOUS
<1>3. a % n \in 0..(n - 1)
  OBVIOUS
<1> QED BY <1>1, <1>2, <1>3

\* Multiples of n less than n apart are one.
LEMMA OneMultiple ==
  ASSUME NEW n \in Nat \ {0}, NEW p \in Int, NEW q \in Int, NEW r \in Int,
         p * n - q * n = r, r < n, -n < r
  PROVE  p = q
<1>1. CASE p >= q + 1
  <2>1. PICK d \in Nat : p = q + 1 + d
    BY <1>1
  <2>2. d * n >= 0
    BY <2>1
  <2>3. (q + 1 + d) * n = q * n + n + d * n
    BY <2>1
  <2> QED BY <2>1, <2>2, <2>3
<1>2. CASE q >= p + 1
  <2>1. PICK d \in Nat : q = p + 1 + d
    BY <1>2
  <2>2. d * n >= 0
    BY <2>1
  <2>3. (p + 1 + d) * n = p * n + n + d * n
    BY <2>1
  <2> QED BY <2>1, <2>2, <2>3
<1> QED BY <1>1, <1>2

\* Numbers less than n apart with one remainder are one.
LEMMA SameRemainder ==
  ASSUME NEW n \in Nat \ {0}, NEW a \in Int, NEW b \in Int,
         a % n = b % n, a - b < n, b - a < n
  PROVE  a = b
<1>1. PICK p \in Int, r \in 0..(n - 1) : a = p * n + r /\ a % n = r
  BY Divided
<1>2. PICK q \in Int, s \in 0..(n - 1) : b = q * n + s /\ b % n = s
  BY Divided
<1>3. p * n - q * n = a - b /\ p * n \in Int /\ q * n \in Int
  BY <1>1, <1>2
<1>4. p = q
  BY <1>3, OneMultiple
<1> QED BY <1>1, <1>2, <1>4

LEMMA RemainderIs ==
  ASSUME NEW n \in Nat \ {0}, NEW q \in Int, NEW r \in 0..(n - 1), NEW a \in Int,
         a = q * n + r
  PROVE  a % n = r
<1>1. PICK p \in Int, s \in 0..(n - 1) : a = p * n + s /\ a % n = s
  BY Divided
<1>2. p * n - q * n = r - s /\ r - s \in Int /\ r - s < n /\ -n < r - s
  BY <1>1
<1>3. p = q
  BY <1>2, OneMultiple
<1> QED BY <1>1, <1>3

LEMMA NextRemainder ==
  ASSUME NEW n \in Nat \ {0}, NEW a \in Int
  PROVE  (a + 1) % n = IF (a % n) + 1 < n THEN (a % n) + 1 ELSE 0
<1>1. PICK p \in Int, r \in 0..(n - 1) : a = p * n + r /\ a % n = r
  BY Divided
<1>2. PICK b \in Int : b = a + 1
  OBVIOUS
<1>3. CASE r + 1 < n
  <2>1. PICK s \in 0..(n - 1) : s = r + 1
    BY <1>3
  <2>2. b = p * n + s
    BY <1>1, <1>2, <2>1
  <2>3. b % n = s
    BY <2>2, RemainderIs
  <2> QED BY <1>1, <1>2, <1>3, <2>1, <2>3
<1>4. CASE r + 1 = n
  <2>1. PICK q \in Int : q = p + 1
    OBVIOUS
  <2>2. q * n = p * n + n /\ q * n \in Int
    BY <2>1
  <2>3. PICK s \in 0..(n - 1) : s = 0
    OBVIOUS
  <2>4. b = q * n + s
    BY <1>1, <1>2, <1>4, <2>2, <2>3
  <2>5. b % n = s
    BY <2>4, RemainderIs
  <2> QED BY <1>1, <1>2, <1>4, <2>3, <2>5
<1> QED BY <1>1, <1>3, <1>4

-----------------------------------------------------------------------------
\* A nonempty set of numbers has a least element.
LEMMA NatMin ==
  ASSUME NEW D, D \subseteq Nat, D # {}
  PROVE  \E n \in D : \A k \in D : n <= k
<1>1. IsWellFoundedOn(OpToRel(<, Nat), Nat)
  BY NatLessThanWellFounded
<1>2. PICK n \in D : \A k \in D : ~(<<k, n>> \in OpToRel(<, Nat))
  BY <1>1, WFMin
<1>3. \A k \in Nat : k < n => <<k, n>> \in OpToRel(<, Nat)
  BY DEF OpToRel
<1>4. ASSUME NEW k \in D
      PROVE  n <= k
  <2>1. k \in Nat /\ n \in Nat
    OBVIOUS
  <2>2. ~(k < n)
    BY <1>2, <1>3, <2>1
  <2> QED BY ONLY <2>1, <2>2
<1> QED BY <1>4

LEMMA MinOf ==
  ASSUME NEW D, D \subseteq Nat, D # {}
  PROVE  Min(D) \in D /\ \A k \in D : Min(D) <= k
<1>1. \E n \in D : \A k \in D : n <= k
  BY NatMin
<1>2. PICK m : m = Min(D)
  OBVIOUS
<1>3. m \in D /\ \A k \in D : m <= k
  BY ONLY <1>1, <1>2 DEF Min
<1> QED BY ONLY <1>2, <1>3

LEMMA MaxIs ==
  ASSUME NEW S, S \subseteq Nat, NEW m \in S, \A x \in S : x <= m
  PROVE  Max(S) = m
<1>1. \A x \in S : m >= x
  OBVIOUS
<1>2. PICK y : y = CHOOSE x \in S : \A z \in S : x >= z
  OBVIOUS
<1>3. y \in S /\ \A z \in S : y >= z
  BY <1>1, <1>2
<1>4. y >= m /\ y <= m /\ y \in Nat /\ m \in Nat
  BY <1>3
<1>5. y = m
  BY <1>4
<1> QED BY <1>2, <1>5 DEF Max

LEMMA MaxOf ==
  ASSUME NEW n \in Nat, NEW D, D \subseteq 0..n, D # {}
  PROVE  Max(D) \in D /\ Max(D) \in Nat /\ \A k \in D : k <= Max(D)
<1>1. PICK E : E = {n - k : k \in D}
  OBVIOUS
<1>2. E \subseteq Nat /\ E # {}
  <2>1. \A k \in D : n - k \in Nat /\ n - k \in E
    BY <1>1
  <2>2. PICK k \in D : TRUE
    OBVIOUS
  <2> QED BY <1>1, <2>1, <2>2
<1>3. PICK m \in E : \A k \in E : m <= k
  BY <1>2, NatMin
<1>4. PICK d \in D : m = n - d
  <2>1. m \in {n - k : k \in D}
    BY <1>1, <1>3
  <2> QED BY ONLY <2>1
<1>5. \A k \in D : k <= d
  <2>1. ASSUME NEW k \in D PROVE k <= d
    <3>1. n - k \in E /\ k \in Nat /\ d \in Nat
      BY <1>1
    <3> QED BY <1>3, <1>4, <3>1
  <2> QED BY <2>1
<1>6. Max(D) = d
  <2>1. D \subseteq Nat
    OBVIOUS
  <2> QED BY ONLY <1>5, <2>1, MaxIs
<1>7. d \in Nat
  OBVIOUS
<1> QED BY ONLY <1>4, <1>5, <1>6, <1>7

-----------------------------------------------------------------------------
(***************************************************************************)
(* Sequences as functions.                                                 *)
(***************************************************************************)
\* A sequence under Append.
LEMMA FunctionGrown ==
  ASSUME NEW n \in Nat, NEW base, base = [x \in 1..n |-> base[x]], NEW v
  PROVE  /\ Len(base) = n
         /\ Append(base, v) = [x \in 1..(n + 1) |-> IF x = n + 1 THEN v ELSE base[x]]
         /\ Len(Append(base, v)) = n + 1
<1>1. PICK V : V = {base[x] : x \in 1..n} \cup {v}
  OBVIOUS
<1>2. base \in [1..n -> V]
  BY <1>1
<1>3. base \in Seq(V) /\ Len(base) = n
  BY <1>2
<1>4. PICK w : w = Append(base, v)
  OBVIOUS
<1>5. w \in Seq(V) /\ Len(w) = n + 1
  BY <1>1, <1>3, <1>4
<1>6. w = [x \in 1..(n + 1) |-> w[x]]
  BY <1>5
<1>7. \A x \in 1..(n + 1) : w[x] = IF x = n + 1 THEN v ELSE base[x]
  BY <1>3, <1>4, <1>5
<1>8. w = [x \in 1..(n + 1) |-> IF x = n + 1 THEN v ELSE base[x]]
  BY ONLY <1>6, <1>7
<1> QED BY ONLY <1>3, <1>4, <1>5, <1>8

LEMMA FunctionLength ==
  ASSUME NEW n \in Nat, NEW f, f = [x \in 1..n |-> f[x]]
  PROVE  Len(f) = n
BY FunctionGrown

-----------------------------------------------------------------------------
(***************************************************************************)
(* Sums over finite sets.                                                  *)
(***************************************************************************)
\* The member a sum takes next.
Pick(s) == CHOOSE x \in s : TRUE

\* f sums g over every part of S, member by member.
Tally(f, g, S) ==
  f = [s \in SUBSET S |-> IF s = {} THEN 0 ELSE g[Pick(s)] + f[s \ {Pick(s)}]]

Total(g, S) == (CHOOSE f : Tally(f, g, S))[S]

\* The members of a family of numbers.
Numbers(g, S) == \A x \in S : g[x] \in Int

\* What a set lacks that holds of the empty set and of a set when it holds of
\* the set without one member.
LEMMA LeastPart ==
  ASSUME NEW S, IsFiniteSet(S), NEW B, B \subseteq SUBSET S, B # {}
  PROVE  \E s \in B : \A t \in SUBSET s : t # s => t \notin B
<1> DEFINE D == {Cardinality(s) : s \in B}
<1>1. \A s \in B : IsFiniteSet(s) /\ Cardinality(s) \in Nat
  BY FS_Subset, FS_CardinalityType
<1>2. D \subseteq Nat /\ D # {}
  BY <1>1
<1>3. PICK n \in D : \A k \in D : n <= k
  <2> HIDE DEF D
  <2> QED BY <1>2, NatMin
<1>4. PICK s \in B : Cardinality(s) = n
  BY <1>3
<1>5. ASSUME NEW t \in SUBSET s, t # s
      PROVE  t \notin B
  <2>1. IsFiniteSet(s) /\ Cardinality(s) \in Nat
    BY <1>1
  <2>2. Cardinality(t) <= Cardinality(s) /\ Cardinality(t) # Cardinality(s)
        /\ IsFiniteSet(t)
    BY <1>5, <2>1, FS_Subset
  <2>3. Cardinality(t) \in Nat
    BY <2>2, FS_CardinalityType
  <2>4. t \in B => n <= Cardinality(t)
    BY <1>3
  <2> QED BY <1>4, <2>1, <2>2, <2>3, <2>4
<1> QED BY <1>5

LEMMA PickIs ==
  ASSUME NEW s, s # {}
  PROVE  Pick(s) \in s
BY DEF Pick

\* A sum can be taken of every finite set.
LEMMA TallyExists ==
  ASSUME NEW S, IsFiniteSet(S), NEW g
  PROVE  \E f : Tally(f, g, S)
<1> DEFINE Upto(n) == \E f : /\ DOMAIN f = SUBSET S
                              /\ \A s \in SUBSET S : Cardinality(s) <= n =>
                                   f[s] = IF s = {} THEN 0
                                          ELSE g[Pick(s)] + f[s \ {Pick(s)}]
<1>1. \A s \in SUBSET S : IsFiniteSet(s) /\ Cardinality(s) \in Nat
  BY FS_Subset, FS_CardinalityType
<1>2. Upto(0)
  <2>1. PICK f : f = [s \in SUBSET S |-> 0]
    OBVIOUS
  <2>2. \A s \in SUBSET S : Cardinality(s) <= 0 => s = {}
    <3> SUFFICES ASSUME NEW s \in SUBSET S, Cardinality(s) <= 0 PROVE s = {}
      OBVIOUS
    <3>1. Cardinality(s) = 0
      BY <1>1
    <3> QED BY <1>1, <3>1, FS_EmptySet
  <2> QED BY <2>1, <2>2
<1>3. ASSUME NEW n \in Nat, Upto(n)
      PROVE  Upto(n + 1)
  <2>1. PICK f : /\ DOMAIN f = SUBSET S
                 /\ \A s \in SUBSET S : Cardinality(s) <= n =>
                      f[s] = IF s = {} THEN 0 ELSE g[Pick(s)] + f[s \ {Pick(s)}]
    BY <1>3
  <2>2. PICK e : e = [s \in SUBSET S |-> IF s = {} THEN 0 ELSE g[Pick(s)] + f[s \ {Pick(s)}]]
    OBVIOUS
  <2>3. ASSUME NEW s \in SUBSET S, Cardinality(s) <= n
        PROVE  e[s] = f[s]
    BY <2>1, <2>2, <2>3
  <2>4. ASSUME NEW s \in SUBSET S, Cardinality(s) <= n + 1, s # {}
        PROVE  e[s \ {Pick(s)}] = f[s \ {Pick(s)}]
    <3>1. IsFiniteSet(s) /\ Cardinality(s) \in Nat /\ Pick(s) \in s
      BY <1>1, <2>4, PickIs
    <3>2. Cardinality(s \ {Pick(s)}) = Cardinality(s) - 1
      BY <3>1, FS_RemoveElement
    <3>3. Cardinality(s \ {Pick(s)}) <= n
      BY <2>4, <3>1, <3>2
    <3>4. s \ {Pick(s)} \in SUBSET S
      OBVIOUS
    <3> QED BY <2>3, <3>3, <3>4
  <2>5. ASSUME NEW s \in SUBSET S, Cardinality(s) <= n + 1
        PROVE  e[s] = IF s = {} THEN 0 ELSE g[Pick(s)] + e[s \ {Pick(s)}]
    BY <2>2, <2>4, <2>5
  <2> QED BY <2>2, <2>5
<1>4. \A n \in Nat : Upto(n)
  <2> HIDE DEF Upto
  <2> DEFINE B == {n \in Nat : ~Upto(n)}
  <2>1. CASE B = {}
    BY <2>1
  <2>2. CASE B # {}
    <3>1. PICK n \in B : \A k \in B : n <= k
      <4>1. B \subseteq Nat
        OBVIOUS
      <4> HIDE DEF B
      <4> QED BY <2>2, <4>1, NatMin
    <3>2. n # 0 /\ n \in Nat
      BY <1>2, <3>1
    <3>3. n - 1 \in Nat /\ n - 1 \notin B
      BY <3>1, <3>2
    <3>4. Upto(n - 1)
      BY <3>3
    <3>5. Upto((n - 1) + 1)
      BY <1>3, <3>3, <3>4
    <3>6. (n - 1) + 1 = n
      BY <3>2
    <3> QED BY <3>1, <3>5, <3>6
  <2> QED BY <2>1, <2>2
<1>5. PICK n \in Nat : n = Cardinality(S)
  BY <1>1
<1>6. PICK f : /\ DOMAIN f = SUBSET S
               /\ \A s \in SUBSET S : Cardinality(s) <= n =>
                    f[s] = IF s = {} THEN 0 ELSE g[Pick(s)] + f[s \ {Pick(s)}]
  BY <1>4
<1>7. \A s \in SUBSET S : Cardinality(s) <= n
  BY <1>5, FS_Subset
<1>8. PICK e : e = [s \in SUBSET S |-> IF s = {} THEN 0 ELSE g[Pick(s)] + f[s \ {Pick(s)}]]
  OBVIOUS
<1>9. \A s \in SUBSET S : e[s] = f[s]
  BY <1>6, <1>7, <1>8
<1>10. \A s \in SUBSET S : s \ {Pick(s)} \in SUBSET S
  OBVIOUS
<1>11. Tally(e, g, S)
  BY <1>8, <1>9, <1>10 DEF Tally
<1> QED BY <1>11

LEMMA TallyAt ==
  ASSUME NEW S, NEW g, NEW f, Tally(f, g, S), NEW s \in SUBSET S
  PROVE  /\ s = {} => f[s] = 0
         /\ s # {} => f[s] = g[Pick(s)] + f[s \ {Pick(s)}]
<1>1. f[s] = IF s = {} THEN 0 ELSE g[Pick(s)] + f[s \ {Pick(s)}]
  BY DEF Tally
<1> QED BY <1>1

LEMMA TallyInt ==
  ASSUME NEW S, IsFiniteSet(S), NEW g, Numbers(g, S), NEW f, Tally(f, g, S)
  PROVE  \A s \in SUBSET S : f[s] \in Int
<1> DEFINE B == {s \in SUBSET S : f[s] \notin Int}
<1>1. SUFFICES ASSUME B # {} PROVE FALSE
  OBVIOUS
<1>2. PICK s \in B : \A t \in SUBSET s : t # s => t \notin B
  <2>1. B \subseteq SUBSET S
    OBVIOUS
  <2> HIDE DEF B
  <2> QED BY <1>1, <2>1, LeastPart
<1>3. s \in SUBSET S /\ f[s] \notin Int
  BY <1>2
<1> HIDE DEF B
<1>4. s = {} => f[s] = 0
  BY <1>3, TallyAt
<1>5. s # {}
  BY <1>3, <1>4
<1>6. PICK x : x = Pick(s)
  OBVIOUS
<1>7. f[s] = g[x] + f[s \ {x}]
  BY <1>3, <1>5, <1>6, TallyAt
<1>8. x \in s /\ g[x] \in Int
  BY <1>3, <1>5, <1>6, PickIs DEF Numbers
<1>9. s \ {x} \notin B /\ s \ {x} \in SUBSET S
  BY <1>2, <1>3, <1>8
<1>10. f[s \ {x}] \in Int
  BY <1>9 DEF B
<1> QED BY ONLY <1>3, <1>7, <1>8, <1>10

\* Any member may be taken first.
LEMMA TallyStep ==
  ASSUME NEW S, IsFiniteSet(S), NEW g, Numbers(g, S), NEW f, Tally(f, g, S)
  PROVE  \A s \in SUBSET S : \A x \in s : f[s] = g[x] + f[s \ {x}]
<1> DEFINE B == {s \in SUBSET S : \E x \in s : f[s] # g[x] + f[s \ {x}]}
<1>1. SUFFICES ASSUME B # {} PROVE FALSE
  OBVIOUS
<1>2. PICK s \in B : \A t \in SUBSET s : t # s => t \notin B
  <2>1. B \subseteq SUBSET S
    OBVIOUS
  <2> HIDE DEF B
  <2> QED BY <1>1, <2>1, LeastPart
<1>3. PICK x \in s : f[s] # g[x] + f[s \ {x}]
  BY <1>2
<1>4. PICK y : y = Pick(s)
  OBVIOUS
<1>5. s \in SUBSET S /\ y \in s /\ f[s] = g[y] + f[s \ {y}]
  <2>1. s \in SUBSET S /\ s # {}
    BY <1>2, <1>3
  <2>2. y \in s
    BY <1>4, <2>1, PickIs
  <2> HIDE DEF B
  <2>3. f[s] = g[y] + f[s \ {y}]
    BY <1>4, <2>1, TallyAt
  <2> QED BY <2>1, <2>2, <2>3
<1>6. x # y
  BY <1>3, <1>5
<1>7. s \ {x} \in SUBSET s /\ s \ {x} # s /\ s \ {y} \in SUBSET s /\ s \ {y} # s
  BY <1>3, <1>5
<1>8. f[s \ {x}] = g[y] + f[(s \ {x}) \ {y}]
  <2>1. s \ {x} \notin B /\ y \in s \ {x} /\ s \ {x} \in SUBSET S
    BY <1>2, <1>5, <1>6, <1>7
  <2> QED BY <2>1
<1>9. f[s \ {y}] = g[x] + f[(s \ {y}) \ {x}]
  <2>1. s \ {y} \notin B /\ x \in s \ {y} /\ s \ {y} \in SUBSET S
    BY <1>2, <1>3, <1>5, <1>6, <1>7
  <2> QED BY <2>1
<1>10. (s \ {y}) \ {x} = (s \ {x}) \ {y} /\ (s \ {x}) \ {y} \in SUBSET S
  BY <1>5
<1>11. g[x] \in Int /\ g[y] \in Int /\ f[(s \ {x}) \ {y}] \in Int
  BY <1>3, <1>5, <1>10, TallyInt DEF Numbers
<1>12. PICK u : u = (s \ {x}) \ {y}
  OBVIOUS
<1>13. f[s \ {x}] = g[y] + f[u] /\ f[s \ {y}] = g[x] + f[u] /\ f[u] \in Int
  BY ONLY <1>8, <1>9, <1>10, <1>11, <1>12
<1>14. f[s] = g[y] + (g[x] + f[u])
  BY ONLY <1>5, <1>13
<1>15. g[x] + f[s \ {x}] = g[x] + (g[y] + f[u])
  BY ONLY <1>13
<1>16. g[y] + (g[x] + f[u]) = g[x] + (g[y] + f[u])
  BY ONLY <1>11, <1>13
<1> QED BY ONLY <1>3, <1>14, <1>15, <1>16

\* Two sums of the same numbers are equal.
LEMMA TallySame ==
  ASSUME NEW S, IsFiniteSet(S), NEW g, NEW f, Tally(f, g, S),
         NEW T, NEW h, NEW e, Tally(e, h, T), NEW r, r \subseteq S, r \subseteq T,
         \A x \in r : g[x] = h[x]
  PROVE  f[r] = e[r]
<1> DEFINE B == {s \in SUBSET r : f[s] # e[s]}
<1>1. SUFFICES ASSUME B # {} PROVE FALSE
  OBVIOUS
<1>2. PICK s \in B : \A t \in SUBSET s : t # s => t \notin B
  <2>1. B \subseteq SUBSET S
    OBVIOUS
  <2> HIDE DEF B
  <2> QED BY <1>1, <2>1, LeastPart
<1>3. s \in SUBSET r /\ s \in SUBSET S /\ s \in SUBSET T /\ f[s] # e[s]
  BY <1>2
<1> HIDE DEF B
<1>4. s # {}
  <2>1. s = {} => f[s] = 0
    BY <1>3, TallyAt
  <2>2. s = {} => e[s] = 0
    BY <1>3, TallyAt
  <2> QED BY <1>3, <2>1, <2>2
<1>5. PICK x : x = Pick(s)
  OBVIOUS
<1>6. f[s] = g[x] + f[s \ {x}]
  <2>1. s # {} => f[s] = g[Pick(s)] + f[s \ {Pick(s)}]
    BY <1>3, TallyAt
  <2> QED BY <1>4, <1>5, <2>1
<1>7. e[s] = h[x] + e[s \ {x}]
  <2>1. s # {} => e[s] = h[Pick(s)] + e[s \ {Pick(s)}]
    BY <1>3, TallyAt
  <2> QED BY <1>4, <1>5, <2>1
<1>8. x \in s /\ g[x] = h[x]
  <2>1. x \in s
    BY <1>4, <1>5, PickIs
  <2> QED BY <1>3, <2>1
<1>9. s \ {x} \notin B /\ s \ {x} \in SUBSET r
  BY <1>2, <1>3, <1>8
<1>10. f[s \ {x}] = e[s \ {x}]
  BY <1>9 DEF B
<1> QED BY ONLY <1>3, <1>6, <1>7, <1>8, <1>10

\* The sum that is chosen.
LEMMA TotalTally ==
  ASSUME NEW S, IsFiniteSet(S), NEW g
  PROVE  \E f : Tally(f, g, S) /\ Total(g, S) = f[S]
<1>1. PICK f : f = CHOOSE e : Tally(e, g, S)
  OBVIOUS
<1>2. \E e : Tally(e, g, S)
  BY TallyExists
<1>3. Tally(f, g, S)
  BY <1>1, <1>2
<1>4. Total(g, S) = f[S]
  BY <1>1 DEF Total
<1> QED BY <1>3, <1>4

\* Sums of the same numbers are equal.
LEMMA TotalSame ==
  ASSUME NEW S, IsFiniteSet(S), NEW g, NEW h, \A x \in S : g[x] = h[x]
  PROVE  Total(g, S) = Total(h, S)
<1>1. PICK f : Tally(f, g, S) /\ Total(g, S) = f[S]
  BY TotalTally
<1>2. PICK e : Tally(e, h, S) /\ Total(h, S) = e[S]
  BY TotalTally
<1>3. f[S] = e[S]
  BY <1>1, <1>2, TallySame
<1> QED BY <1>1, <1>2, <1>3

\* The library's sum over a set, of the entries of a function.
LEMMA SumIs ==
  ASSUME NEW S, NEW g
  PROVE  MapThenSumSet(LAMBDA x : g[x], S) = Total(g, S)
BY DEF MapThenSumSet, MapThenFoldSet, Total, Tally, Pick

LEMMA TotalNone ==
  ASSUME NEW g
  PROVE  Total(g, {}) = 0
<1>1. IsFiniteSet({})
  BY FS_EmptySet
<1>2. PICK f : Tally(f, g, {}) /\ Total(g, {}) = f[{}]
  BY <1>1, TotalTally
<1>3. {} \in SUBSET {}
  OBVIOUS
<1> QED BY <1>2, <1>3, TallyAt

LEMMA TotalInt ==
  ASSUME NEW S, IsFiniteSet(S), NEW g, Numbers(g, S)
  PROVE  Total(g, S) \in Int
<1>1. PICK f : Tally(f, g, S) /\ Total(g, S) = f[S]
  BY TotalTally
<1>2. S \in SUBSET S
  OBVIOUS
<1> QED BY <1>1, <1>2, TallyInt

\* One member taken out.
LEMMA TotalStep ==
  ASSUME NEW S, IsFiniteSet(S), NEW g, Numbers(g, S), NEW x \in S
  PROVE  Total(g, S) = g[x] + Total(g, S \ {x})
<1>1. PICK f : Tally(f, g, S) /\ Total(g, S) = f[S]
  BY TotalTally
<1>2. IsFiniteSet(S \ {x})
  BY FS_RemoveElement
<1>3. PICK e : Tally(e, g, S \ {x}) /\ Total(g, S \ {x}) = e[S \ {x}]
  BY <1>2, TotalTally
<1>4. f[S \ {x}] = e[S \ {x}]
  <2>1. S \ {x} \subseteq S
    OBVIOUS
  <2> QED BY <1>1, <1>3, <2>1, TallySame
<1>5. f[S] = g[x] + f[S \ {x}]
  <2>1. S \in SUBSET S
    OBVIOUS
  <2> QED BY <1>1, <2>1, TallyStep
<1> QED BY <1>1, <1>3, <1>4, <1>5

\* One entry changes.
LEMMA TotalAfter ==
  ASSUME NEW S, IsFiniteSet(S), NEW g, Numbers(g, S), NEW h, NEW x \in S,
         h[x] \in Int, \A y \in S \ {x} : h[y] = g[y]
  PROVE  /\ Total(h, S) = Total(g, S) - g[x] + h[x]
         /\ Total(g, S) \in Int /\ g[x] \in Int
<1>1. IsFiniteSet(S \ {x}) /\ Numbers(g, S \ {x}) /\ g[x] \in Int
  BY FS_RemoveElement DEF Numbers
<1>2. Numbers(h, S)
  BY DEF Numbers
<1>3. Total(g, S) = g[x] + Total(g, S \ {x})
  BY TotalStep
<1>4. Total(h, S) = h[x] + Total(h, S \ {x})
  BY <1>2, TotalStep
<1>5. Total(h, S \ {x}) = Total(g, S \ {x})
  BY <1>1, TotalSame
<1>6. PICK k \in Int : k = Total(g, S \ {x})
  BY <1>1, TotalInt
<1>7. PICK a \in Int : a = g[x]
  BY <1>1
<1>8. PICK b \in Int : b = h[x]
  OBVIOUS
<1>9. Total(g, S) = a + k /\ Total(h, S) = b + k
  BY ONLY <1>3, <1>4, <1>5, <1>6, <1>7, <1>8
<1> QED BY ONLY <1>7, <1>8, <1>9

\* One member more.
LEMMA TotalMore ==
  ASSUME NEW S, IsFiniteSet(S), NEW g, Numbers(g, S), NEW x, x \notin S, g[x] \in Int
  PROVE  Total(g, S \cup {x}) = Total(g, S) + g[x]
<1>1. PICK T : T = S \cup {x}
  OBVIOUS
<1>2. IsFiniteSet(T) /\ Numbers(g, T) /\ x \in T /\ T \ {x} = S
  BY <1>1, FS_AddElement DEF Numbers
<1>3. Total(g, T) = g[x] + Total(g, S)
  BY <1>2, TotalStep
<1>4. Total(g, S) \in Int
  BY TotalInt
<1> QED BY ONLY <1>1, <1>3, <1>4, g[x] \in Int

\* A part taken out.
LEMMA TotalParts ==
  ASSUME NEW S, IsFiniteSet(S), NEW g, Numbers(g, S), NEW P \in SUBSET S
  PROVE  Total(g, S) = Total(g, P) + Total(g, S \ P)
<1> DEFINE B == {s \in SUBSET S : Total(g, S) # Total(g, s) + Total(g, S \ s)}
<1>1. SUFFICES ASSUME B # {} PROVE FALSE
  OBVIOUS
<1>2. PICK s \in B : \A t \in SUBSET s : t # s => t \notin B
  <2>1. B \subseteq SUBSET S
    OBVIOUS
  <2> HIDE DEF B
  <2> QED BY <1>1, <2>1, LeastPart
<1>3. s \in SUBSET S /\ Total(g, S) # Total(g, s) + Total(g, S \ s)
  BY <1>2
<1>4. s # {}
  <2>1. S \ {} = S /\ Total(g, S) \in Int
    BY TotalInt
  <2> QED BY <1>3, <2>1, TotalNone
<1>5. PICK x \in s : TRUE
  BY <1>4
<1>6. PICK t : t = s \ {x}
  OBVIOUS
<1>7. Total(g, S) = Total(g, t) + Total(g, S \ t)
  <2>1. t \in SUBSET s /\ t # s /\ t \in SUBSET S
    BY <1>3, <1>5, <1>6
  <2>2. t \notin B
    BY <1>2, <2>1
  <2> QED BY <2>1, <2>2
<1>8. /\ IsFiniteSet(s) /\ IsFiniteSet(t) /\ IsFiniteSet(S \ s) /\ IsFiniteSet(S \ t)
      /\ Numbers(g, s) /\ Numbers(g, t) /\ Numbers(g, S \ s) /\ Numbers(g, S \ t)
  <2>1. s \in SUBSET S /\ t \in SUBSET S /\ S \ s \in SUBSET S /\ S \ t \in SUBSET S
    BY <1>3, <1>6
  <2> QED BY <2>1, FS_Subset DEF Numbers
<1>9. Total(g, s) = g[x] + Total(g, t)
  BY <1>5, <1>6, <1>8, TotalStep
<1>10. Total(g, S \ t) = g[x] + Total(g, S \ s)
  <2>1. x \in S \ t /\ (S \ t) \ {x} = S \ s
    BY <1>3, <1>5, <1>6
  <2> QED BY <1>8, <2>1, TotalStep
<1>11. g[x] \in Int /\ Total(g, t) \in Int /\ Total(g, S \ s) \in Int
  BY <1>3, <1>5, <1>8, TotalInt DEF Numbers
<1> QED BY <1>3, <1>7, <1>9, <1>10, <1>11

LEMMA TotalZero ==
  ASSUME NEW S, IsFiniteSet(S), NEW g, \A x \in S : g[x] = 0
  PROVE  Total(g, S) = 0
<1> DEFINE B == {s \in SUBSET S : Total(g, s) # 0}
<1>1. SUFFICES ASSUME B # {} PROVE FALSE
  OBVIOUS
<1>2. PICK s \in B : \A t \in SUBSET s : t # s => t \notin B
  <2>1. B \subseteq SUBSET S
    OBVIOUS
  <2> HIDE DEF B
  <2> QED BY <1>1, <2>1, LeastPart
<1>3. s \in SUBSET S /\ Total(g, s) # 0 /\ IsFiniteSet(s)
  BY <1>2, FS_Subset
<1>4. PICK x \in s : g[x] = 0
  BY <1>3, TotalNone
<1>5. Total(g, s) = g[x] + Total(g, s \ {x})
  <2>1. Numbers(g, s)
    BY <1>3 DEF Numbers
  <2> QED BY <1>3, <2>1, TotalStep
<1>6. Total(g, s \ {x}) = 0
  BY <1>2, <1>3, <1>4
<1> QED BY <1>3, <1>4, <1>5, <1>6
=============================================================================
