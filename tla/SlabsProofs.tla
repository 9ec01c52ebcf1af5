----------------------------- MODULE SlabsProofs -----------------------------
(***************************************************************************)
(* Proofs about the slab allocator (Slabs): the cache of objects known to  *)
(* be black never knows a white one, the memory of a slab is accounted     *)
(* for, and so are the bytes its region is charged with.                   *)
(***************************************************************************)
EXTENDS Slabs, SharedLemmas

-----------------------------------------------------------------------------
(***************************************************************************)
(* The record of a slab.                                                   *)
(***************************************************************************)
Descriptors == Types \cup {None, Conservative}

\* The fields of a slab and what they range over.  How they hang together is
\* ListHolds and NumbersHold below.
IsSlab(s) ==
  /\ s = [cls |-> s.cls, bump |-> s.bump, free |-> s.free, avail |-> s.avail,
          occ |-> s.occ, mark |-> s.mark, tid |-> s.tid, ttab |-> s.ttab,
          index |-> s.index, last |-> s.last, want |-> s.want]
  /\ s.last = [type |-> s.last.type, num |-> s.last.num]
  /\ s.cls \in Classes /\ s.bump \in Int /\ s.free \in Int /\ s.avail \in BOOLEAN
  /\ s.occ \subseteq Slots /\ s.mark \subseteq Slots
  /\ s.tid \in [Slots -> Int] /\ s.want \in [Slots -> Descriptors]
  /\ s.ttab \in Seq(Types \cup {Conservative})

LEMMA NewSlabIs ==
  ASSUME NEW c \in Classes
  PROVE  IsSlab(NewSlab(c))
<1>1. <<Conservative>> \in Seq(Types \cup {Conservative})
  OBVIOUS
<1>2. [i \in Slots |-> 0] \in [Slots -> Int] /\ [i \in Slots |-> None] \in [Slots -> Descriptors]
  BY DEF Descriptors
<1> QED BY <1>1, <1>2 DEF IsSlab, NewSlab

\* The lookup of a descriptor touches the type table, its index and the last type only.
LEMMA TypedKeeps ==
  ASSUME NEW s, IsSlab(s), NEW t \in Descriptors
  PROVE  /\ IsSlab(Typed(s, t))
         /\ Typed(s, t).cls = s.cls /\ Typed(s, t).bump = s.bump /\ Typed(s, t).free = s.free
         /\ Typed(s, t).avail = s.avail /\ Typed(s, t).occ = s.occ /\ Typed(s, t).mark = s.mark
         /\ Typed(s, t).tid = s.tid /\ Typed(s, t).want = s.want
<1>1. CASE t = None \/ t = s.last.type
  BY <1>1 DEF Typed
<1>2. CASE ~(t = None \/ t = s.last.type)
  <2>1. PICK tt, ix : tt = Append(s.ttab, t) /\ ix = WithType(s, t).index
    OBVIOUS
  <2>2. PICK k : k = IF t = Conservative THEN 1 ELSE Known(s, t)
    OBVIOUS
  <2>3. t \in Types \cup {Conservative} /\ tt \in Seq(Types \cup {Conservative})
    BY <1>2, <2>1 DEF Descriptors, IsSlab
  <2>4. CASE k = 0
    <3>1. PICK w : w = WithType(s, t)
      OBVIOUS
    <3>2. w = [s EXCEPT !.ttab = tt, !.index = ix]
      BY <2>1, <3>1 DEF WithType, IsSlab
    <3>3. PICK n : n = Len(w.ttab)
      OBVIOUS
    <3>4. Typed(s, t) = [w EXCEPT !.last = [type |-> t, num |-> n]]
      BY <1>2, <2>2, <2>4, <3>1, <3>3 DEF Typed
    <3>5. IsSlab(w) /\ w.cls = s.cls /\ w.bump = s.bump /\ w.free = s.free
          /\ w.avail = s.avail /\ w.occ = s.occ /\ w.mark = s.mark
          /\ w.tid = s.tid /\ w.want = s.want
      BY ONLY <2>3, <3>2, IsSlab(s) DEF IsSlab
    <3>6. IsSlab([w EXCEPT !.last = [type |-> t, num |-> n]])
      BY ONLY <3>5 DEF IsSlab
    <3> QED BY ONLY <3>4, <3>5, <3>6 DEF IsSlab
  <2>5. CASE k # 0
    <3>1. Typed(s, t) = [s EXCEPT !.last = [type |-> t, num |-> k]]
      BY <1>2, <2>2, <2>5 DEF Typed
    <3> QED BY ONLY <3>1, IsSlab(s) DEF IsSlab
  <2> QED BY <2>4, <2>5
<1> QED BY <1>1, <1>2

-----------------------------------------------------------------------------
(***************************************************************************)
(* The type table and its index.                                           *)
(***************************************************************************)
Used(ix, cap) == {c \in 0..(cap - 1) : ix[c] # 0}

\* A probe for tt[k] comes to a cell that holds k before it comes to an empty one.
ProbeMeets(ix, cap, tt, k) ==
  \E i \in 0..(cap - 1) :
    /\ ix[i] = k
    /\ \A j \in 0..(cap - 1) :
         (j - (TypeHash[tt[k]] % cap)) % cap <= (i - (TypeHash[tt[k]] % cap)) % cap => ix[j] # 0

\* ix is an index of cap cells for the numbers 2 .. m of table tt.
Indexed(ix, cap, tt, m) ==
  /\ ix \in [0..(cap - 1) -> Nat]
  /\ \A c \in 0..(cap - 1) : ix[c] = 0 \/ ix[c] \in 2..m
  /\ \A k \in 2..m : ProbeMeets(ix, cap, tt, k)
  /\ Cardinality(Used(ix, cap)) = m - 1

LEMMA PlaceIs ==
  ASSUME NEW cap \in Nat \ {0}, NEW ix, NEW t \in Types, Cardinality(Used(ix, cap)) < cap
  PROVE  /\ Place(ix, cap, t) \in 0..(cap - 1)
         /\ ix[Place(ix, cap, t)] = 0
         /\ \A j \in 0..(cap - 1) :
              ix[j] = 0 => (Place(ix, cap, t) - (TypeHash[t] % cap)) % cap
                             <= (j - (TypeHash[t] % cap)) % cap
<1>1. PICK h \in 0..(cap - 1) : h = TypeHash[t] % cap
  <2>1. TypeHash[t] \in Nat
    BY SlabsAssumption
  <2> QED BY <2>1
<1> DEFINE E == {c \in 0..(cap - 1) : ix[c] = 0}
           D == {(c - h) % cap : c \in E}
<1>2. E # {}
  <2>1. SUFFICES ASSUME E = {} PROVE FALSE
    OBVIOUS
  <2>2. Used(ix, cap) = 0..(cap - 1)
    BY <2>1 DEF Used
  <2>3. Cardinality(0..(cap - 1)) = cap
    BY FS_Interval
  <2> QED BY <2>2, <2>3
<1>3. D \subseteq Nat /\ D # {}
  BY <1>2
<1>4. PICK m \in D : \A x \in D : m <= x
  BY ONLY <1>3, NatMin
<1>5. PICK i \in E : m = (i - h) % cap
  BY <1>4
<1>6. \A j \in 0..(cap - 1) : ix[j] = 0 => (i - h) % cap <= (j - h) % cap
  BY <1>4, <1>5
<1>7. i \in 0..(cap - 1) /\ ix[i] = 0
  BY <1>5
<1> HIDE DEF E, D
<1> QED BY ONLY <1>1, <1>6, <1>7 DEF Place

\* A number enters the index at the end of its probe.
LEMMA IndexAdd ==
  ASSUME NEW cap \in Nat \ {0}, NEW m \in Nat \ {0}, NEW ix, NEW tt,
         Indexed(ix, cap, tt, m), m <= cap, tt[m + 1] \in Types
  PROVE  Indexed([ix EXCEPT ![Place(ix, cap, tt[m + 1])] = m + 1], cap, tt, m + 1)
<1>1. PICK t \in Types : t = tt[m + 1]
  OBVIOUS
<1>2. Cardinality(Used(ix, cap)) = m - 1 /\ ix \in [0..(cap - 1) -> Nat]
  BY DEF Indexed
<1>3. PICK p : p = Place(ix, cap, t)
  OBVIOUS
<1>4. /\ p \in 0..(cap - 1) /\ ix[p] = 0
      /\ \A j \in 0..(cap - 1) :
           ix[j] = 0 => (p - (TypeHash[t] % cap)) % cap <= (j - (TypeHash[t] % cap)) % cap
  BY <1>2, <1>3, PlaceIs
<1>5. PICK n : n = [ix EXCEPT ![p] = m + 1]
  OBVIOUS
<1>6. n \in [0..(cap - 1) -> Nat] /\ n[p] = m + 1
      /\ \A c \in 0..(cap - 1) : c # p => n[c] = ix[c]
  BY <1>2, <1>4, <1>5
<1>7. \A c \in 0..(cap - 1) : n[c] = 0 \/ n[c] \in 2..(m + 1)
  <2>1. \A c \in 0..(cap - 1) : ix[c] = 0 \/ ix[c] \in 2..m
    BY DEF Indexed
  <2>2. 2..m \subseteq 2..(m + 1) /\ m + 1 \in 2..(m + 1)
    OBVIOUS
  <2> QED BY ONLY <1>6, <2>1, <2>2
<1>8. PICK h \in 0..(cap - 1) : h = TypeHash[t] % cap
  <2>1. TypeHash[t] \in Nat
    BY SlabsAssumption
  <2> QED BY <2>1
<1>9. ProbeMeets(n, cap, tt, m + 1)
  <2>1. ASSUME NEW j \in 0..(cap - 1), (j - h) % cap <= (p - h) % cap, n[j] = 0
        PROVE  FALSE
    <3>1. j # p /\ ix[j] = 0
      BY <1>6, <2>1
    <3>2. (p - h) % cap <= (j - h) % cap
      BY <1>4, <1>8, <3>1
    <3>3. (p - h) % cap \in Int /\ (j - h) % cap \in Int /\ p - h \in Int /\ j - h \in Int
      BY <1>4
    <3>4. (p - h) % cap = (j - h) % cap
      BY <2>1, <3>2, <3>3
    <3>5. (p - h) - (j - h) < cap /\ (j - h) - (p - h) < cap
      BY <1>4
    <3>6. p - h = j - h
      BY ONLY <3>3, <3>4, <3>5, cap \in Nat \ {0}, SameRemainder
    <3> QED BY <1>4, <3>1, <3>6
  <2> QED BY <1>1, <1>4, <1>6, <1>8, <2>1 DEF ProbeMeets
<1>10. ASSUME NEW k \in 2..(m + 1)
       PROVE  ProbeMeets(n, cap, tt, k)
  <2>1. CASE k = m + 1
    BY <1>9, <2>1
  <2>2. CASE k # m + 1
    <3>1. k \in 2..m
      BY <2>2
    <3>2. PICK g : g = TypeHash[tt[k]] % cap
      OBVIOUS
    <3>3. PICK i \in 0..(cap - 1) :
            /\ ix[i] = k
            /\ \A j \in 0..(cap - 1) : (j - g) % cap <= (i - g) % cap => ix[j] # 0
      BY <3>1, <3>2 DEF Indexed, ProbeMeets
    <3>4. i # p
      BY <1>4, <3>1, <3>3
    <3>5. n[i] = k /\ \A j \in 0..(cap - 1) : ix[j] # 0 => n[j] # 0
      BY <1>6, <3>3, <3>4
    <3> QED BY ONLY <3>2, <3>3, <3>5 DEF ProbeMeets
  <2> QED BY <2>1, <2>2
<1>11. Cardinality(Used(n, cap)) = (m + 1) - 1
  <2>1. Used(n, cap) = Used(ix, cap) \cup {p} /\ p \notin Used(ix, cap)
    BY <1>4, <1>6 DEF Used
  <2>2. IsFiniteSet(0..(cap - 1)) /\ Used(ix, cap) \subseteq 0..(cap - 1)
    <3>1. 0 \in Int /\ cap - 1 \in Int
      OBVIOUS
    <3> QED BY ONLY <3>1, FS_Interval DEF Used
  <2>3. IsFiniteSet(Used(ix, cap))
    BY ONLY <2>2, FS_Subset
  <2>4. Cardinality(Used(n, cap)) = Cardinality(Used(ix, cap)) + 1
    BY <2>1, <2>3, FS_AddElement
  <2> QED BY <1>2, <2>4
<1>12. Indexed(n, cap, tt, m + 1)
  BY ONLY <1>6, <1>7, <1>10, <1>11 DEF Indexed
<1> QED BY <1>1, <1>3, <1>5, <1>12

\* fill[k] is the index after the numbers 2 .. k have entered it.
Fills(fill, n, cap, tt) ==
  fill = [k \in 1..n |-> IF k = 1 THEN [i \in 0..(cap - 1) |-> 0]
                         ELSE [fill[k - 1] EXCEPT ![Place(fill[k - 1], cap, tt[k])] = k]]

\* The index can be filled number by number.
LEMMA FillExists ==
  ASSUME NEW n \in Nat \ {0}, NEW cap, NEW tt
  PROVE  \E fill : Fills(fill, n, cap, tt)
<1> DEFINE D == {k \in Nat \ {0} : ~ \E fill : Fills(fill, k, cap, tt)}
<1>1. SUFFICES ASSUME D # {} PROVE FALSE
  BY n \in Nat \ {0}
<1>2. D \subseteq Nat
  OBVIOUS
<1>3. PICK m \in D : \A x \in D : m <= x
  <2> HIDE DEF D
  <2> QED BY ONLY <1>1, <1>2, NatMin
<1>4. m \in Nat \ {0} /\ ~ \E fill : Fills(fill, m, cap, tt)
  OBVIOUS
<1>5. CASE m = 1
  <2>1. Fills([k \in 1..1 |-> [i \in 0..(cap - 1) |-> 0]], 1, cap, tt)
    BY DEF Fills
  <2> QED BY <1>4, <1>5, <2>1
<1>6. CASE m # 1
  <2>1. m - 1 \in Nat \ {0} /\ m - 1 \notin D
    BY <1>3, <1>4, <1>6
  <2>2. PICK f : Fills(f, m - 1, cap, tt)
    BY <2>1
  <2> DEFINE g == [k \in 1..m |-> IF k = m
                       THEN [f[m - 1] EXCEPT ![Place(f[m - 1], cap, tt[m])] = m]
                       ELSE f[k]]
  <2>3. /\ g[m] = [f[m - 1] EXCEPT ![Place(f[m - 1], cap, tt[m])] = m]
        /\ \A k \in 1..m : k # m => g[k] = f[k]
        /\ g = [k \in 1..m |-> g[k]]
    BY <1>4
  <2> HIDE DEF g
  <2>4. ASSUME NEW k \in 1..m
        PROVE  g[k] = IF k = 1 THEN [i \in 0..(cap - 1) |-> 0]
                      ELSE [g[k - 1] EXCEPT ![Place(g[k - 1], cap, tt[k])] = k]
    <3>1. CASE k = m
      <4>1. m - 1 \in 1..m /\ m - 1 # m
        BY <2>1
      <4>2. g[m - 1] = f[m - 1]
        BY <2>3, <4>1
      <4> QED BY ONLY <1>6, <2>3, <3>1, <4>2
    <3>2. CASE k # m
      <4>1. k \in 1..(m - 1)
        BY <1>4, <3>2
      <4>2. f[k] = IF k = 1 THEN [i \in 0..(cap - 1) |-> 0]
                   ELSE [f[k - 1] EXCEPT ![Place(f[k - 1], cap, tt[k])] = k]
        BY ONLY <2>2, <4>1 DEF Fills
      <4>3. k # 1 => k - 1 \in 1..m /\ k - 1 # m
        BY <1>4, <4>1
      <4>4. k # 1 => g[k - 1] = f[k - 1]
        BY <2>3, <4>3
      <4> QED BY ONLY <2>3, <3>2, <4>2, <4>4, k \in 1..m
    <3> QED BY <3>1, <3>2
  <2>5. Fills(g, m, cap, tt)
    BY ONLY <2>3, <2>4 DEF Fills
  <2> QED BY <1>4, <2>5
<1> QED BY <1>5, <1>6

LEMMA FillIndexed ==
  ASSUME NEW cap \in Nat \ {0}, NEW n \in Nat \ {0}, NEW tt, n - 1 <= cap,
         \A k \in 2..n : tt[k] \in Types,
         NEW fill, Fills(fill, n, cap, tt)
  PROVE  Indexed(fill[n], cap, tt, n)
<1> DEFINE D == {k \in 1..n : ~Indexed(fill[k], cap, tt, k)}
<1>0. \A k \in 1..n : fill[k] = IF k = 1 THEN [i \in 0..(cap - 1) |-> 0]
                      ELSE [fill[k - 1] EXCEPT ![Place(fill[k - 1], cap, tt[k])] = k]
  BY ONLY Fills(fill, n, cap, tt) DEF Fills
<1>1. SUFFICES ASSUME D # {} PROVE FALSE
  BY n \in Nat \ {0}
<1>2. D \subseteq Nat
  OBVIOUS
<1>3. PICK m \in D : \A x \in D : m <= x
  <2> HIDE DEF D
  <2> QED BY ONLY <1>1, <1>2, NatMin
<1>4. m \in 1..n /\ ~Indexed(fill[m], cap, tt, m)
  OBVIOUS
<1>5. CASE m = 1
  <2>1. PICK ix : ix = [i \in 0..(cap - 1) |-> 0]
    OBVIOUS
  <2>2. Used(ix, cap) = {}
    BY <2>1 DEF Used
  <2>3. Cardinality(Used(ix, cap)) = 1 - 1
    BY <2>2, FS_EmptySet
  <2>4. ix \in [0..(cap - 1) -> Nat] /\ \A c \in 0..(cap - 1) : ix[c] = 0
    BY <2>1
  <2>5. 2..1 = {}
    OBVIOUS
  <2>6. Indexed(ix, cap, tt, 1)
    BY ONLY <2>3, <2>4, <2>5 DEF Indexed
  <2>7. fill[1] = ix
    BY <1>0, <1>4, <1>5, <2>1
  <2> QED BY <1>4, <1>5, <2>6, <2>7
<1>6. CASE m # 1
  <2>1. m - 1 \in 1..n /\ m - 1 \notin D
    BY <1>3, <1>4, <1>6
  <2>2. PICK k \in Nat \ {0} : k = m - 1
    BY <2>1
  <2>3. Indexed(fill[k], cap, tt, k)
    BY <2>1, <2>2
  <2>4. k <= cap /\ k + 1 = m /\ tt[k + 1] \in Types
    BY <1>4, <1>6, <2>2
  <2>5. Indexed([fill[k] EXCEPT ![Place(fill[k], cap, tt[k + 1])] = k + 1], cap, tt, k + 1)
    BY ONLY cap \in Nat \ {0}, k \in Nat \ {0}, <2>3, <2>4, IndexAdd
  <2>6. fill[m] = [fill[m - 1] EXCEPT ![Place(fill[m - 1], cap, tt[m])] = m]
    BY ONLY <1>0, <1>4, <1>6
  <2>7. Indexed(fill[m], cap, tt, m)
    BY ONLY <2>2, <2>4, <2>5, <2>6
  <2> QED BY <1>4, <2>7
<1> QED BY <1>5, <1>6

\* extc_rc_ttabIndexBuild makes an index of the whole table.
LEMMA BuildIndexed ==
  ASSUME NEW cap \in Nat \ {0}, NEW tt, Len(tt) \in Nat \ {0}, Len(tt) - 1 <= cap,
         \A k \in 2..Len(tt) : tt[k] \in Types
  PROVE  Indexed(IndexBuild(tt, cap), cap, tt, Len(tt))
<1>1. PICK n \in Nat \ {0} : n = Len(tt)
  OBVIOUS
<1>2. PICK fill : fill = CHOOSE f : Fills(f, n, cap, tt)
  OBVIOUS
<1>3. Fills(fill, n, cap, tt)
  BY ONLY n \in Nat \ {0}, <1>2, FillExists
<1>4. IndexBuild(tt, cap) = fill[n]
  BY ONLY <1>1, <1>2 DEF IndexBuild, Fills
<1>5. Indexed(fill[n], cap, tt, n)
  BY <1>1, <1>3, FillIndexed
<1> QED BY ONLY <1>1, <1>4, <1>5

\* The type table of a slab: the fallback first, then descriptors, each once.
TableHolds(tt) ==
  /\ tt \in Seq(Types \cup {Conservative})
  /\ Len(tt) >= 1 /\ tt[1] = Conservative
  /\ \A k \in 2..Len(tt) : tt[k] \in Types
  /\ \A j, k \in 1..Len(tt) : tt[j] = tt[k] => j = k

\* The index, once there is one, is an index of the whole table.
IndexHolds(ix, tt) ==
  IF ix = <<>> THEN Len(tt) - 1 <= LinearMax
  ELSE \E cap \in Nat \ {0} : Indexed(ix, cap, tt, Len(tt)) /\ Len(tt) - 1 <= cap

\* The type numbers of a slab's objects and its last type mean what they meant.
NumbersHold(s) ==
  /\ TableHolds(s.ttab)
  /\ IndexHolds(s.index, s.ttab)
  /\ s.last.type # None => s.last.num \in 1..Len(s.ttab) /\ s.ttab[s.last.num] = s.last.type
  /\ \A i \in s.occ : IF s.want[i] = None THEN s.tid[i] = 0
                      ELSE s.tid[i] \in 1..Len(s.ttab) /\ s.ttab[s.tid[i]] = s.want[i]

LEMMA IndexCells ==
  ASSUME NEW ix, NEW cap \in Nat \ {0}, NEW tt, NEW m, Indexed(ix, cap, tt, m)
  PROVE  ix # <<>> /\ DOMAIN ix = 0..(cap - 1) /\ Cardinality(DOMAIN ix) = cap
<1>1. DOMAIN ix = 0..(cap - 1)
  BY DEF Indexed
<1>2. Cardinality(0..(cap - 1)) = cap
  <2>1. 0 \in Int /\ cap - 1 \in Int /\ cap = (cap - 1) - 0 + 1 /\ ~(0 > cap - 1)
    OBVIOUS
  <2> QED BY <2>1, FS_Interval
<1>3. 0 \in 0..(cap - 1)
  OBVIOUS
<1>4. DOMAIN <<>> = {}
  OBVIOUS
<1> QED BY ONLY <1>1, <1>2, <1>3, <1>4

\* A lookup finds the number of a descriptor exactly when there is one.
LEMMA KnownIs ==
  ASSUME NEW s, TableHolds(s.ttab), IndexHolds(s.index, s.ttab), NEW t \in Types
  PROVE  \/ Known(s, t) = 0 /\ \A k \in 1..Len(s.ttab) : s.ttab[k] # t
         \/ Known(s, t) \in 2..Len(s.ttab) /\ s.ttab[Known(s, t)] = t
<1>1. PICK tt, ix : tt = s.ttab /\ ix = s.index
  OBVIOUS
<1>2. TableHolds(tt) /\ IndexHolds(ix, tt)
  BY <1>1
<1>3. PICK N : N = IF ix = <<>> THEN 2..Len(tt) ELSE Met(s, t)
  OBVIOUS
<1>4. N \subseteq 2..Len(tt) /\ \A k \in 2..Len(tt) : tt[k] = t => k \in N
  <2>1. CASE ix = <<>>
    BY <1>3, <2>1
  <2>2. CASE ix # <<>>
    <3>1. PICK cap \in Nat \ {0} : Indexed(ix, cap, tt, Len(tt))
      BY <1>2, <2>2 DEF IndexHolds
    <3>2. DOMAIN ix = 0..(cap - 1) /\ Cardinality(DOMAIN ix) = cap
      BY <3>1, IndexCells
    <3>3. PICK h \in 0..(cap - 1) : h = TypeHash[t] % cap
      <4>1. TypeHash[t] \in Nat
        BY SlabsAssumption
      <4> QED BY <4>1
    <3>4. N = {ix[i] : i \in {i \in 0..(cap - 1) :
                 \A j \in 0..(cap - 1) : (j - h) % cap <= (i - h) % cap => ix[j] # 0}}
      BY ONLY <1>1, <1>3, <2>2, <3>2, <3>3 DEF Met
    <3>5. \A i \in 0..(cap - 1) : ix[i] = 0 \/ ix[i] \in 2..Len(tt)
      BY <3>1 DEF Indexed
    <3>6. ASSUME NEW x \in N
          PROVE  x \in 2..Len(tt)
      <4>1. PICK i \in 0..(cap - 1) :
              /\ x = ix[i]
              /\ \A j \in 0..(cap - 1) : (j - h) % cap <= (i - h) % cap => ix[j] # 0
        BY <3>4
      <4>2. (i - h) % cap \in Int
        OBVIOUS
      <4>3. ix[i] # 0
        BY <4>1, <4>2
      <4> QED BY <3>5, <4>1, <4>3
    <3>7. ASSUME NEW k \in 2..Len(tt), tt[k] = t
          PROVE  k \in N
      <4>1. ProbeMeets(ix, cap, tt, k)
        BY <3>1 DEF Indexed
      <4> QED BY <3>3, <3>4, <3>7, <4>1 DEF ProbeMeets
    <3> QED BY <3>6, <3>7
  <2> QED BY <2>1, <2>2
<1>5. PICK ks : ks = {k \in N : tt[k] = t}
  OBVIOUS
<1>6. Known(s, t) = IF ks = {} THEN 0 ELSE CHOOSE k \in ks : TRUE
  BY ONLY <1>1, <1>3, <1>5 DEF Known
<1>7. tt[1] # t
  BY <1>2, SlabsAssumption DEF TableHolds
<1>8. CASE ks = {}
  <2>1. \A k \in 1..Len(tt) : k = 1 \/ k \in 2..Len(tt)
    BY <1>2 DEF TableHolds
  <2> QED BY <1>1, <1>4, <1>5, <1>6, <1>7, <1>8, <2>1
<1>9. CASE ks # {}
  <2>1. Known(s, t) \in ks
    BY <1>6, <1>9
  <2> QED BY <1>1, <1>4, <1>5, <2>1
<1> QED BY <1>8, <1>9

\* A descriptor that is not in the table enters it, and the index with it.
LEMMA WithTypeHolds ==
  ASSUME NEW s, IsSlab(s), TableHolds(s.ttab), IndexHolds(s.index, s.ttab),
         NEW t \in Types, \A k \in 1..Len(s.ttab) : s.ttab[k] # t
  PROVE  /\ WithType(s, t).ttab = Append(s.ttab, t)
         /\ WithType(s, t).last = s.last
         /\ TableHolds(Append(s.ttab, t))
         /\ IndexHolds(WithType(s, t).index, Append(s.ttab, t))
         /\ Len(Append(s.ttab, t)) = Len(s.ttab) + 1
         /\ Append(s.ttab, t)[Len(s.ttab) + 1] = t
         /\ \A k \in 1..Len(s.ttab) : Append(s.ttab, t)[k] = s.ttab[k]
<1>1. PICK tt, ix : tt = s.ttab /\ ix = s.index
  OBVIOUS
<1>2. PICK uu : uu = Append(tt, t)
  OBVIOUS
<1>3. TableHolds(tt) /\ IndexHolds(ix, tt) /\ \A k \in 1..Len(tt) : tt[k] # t
  BY <1>1
<1>4. PICK m \in Nat \ {0} : m = Len(tt)
  BY <1>3 DEF TableHolds
<1>5. /\ uu \in Seq(Types \cup {Conservative}) /\ Len(uu) = m + 1 /\ uu[m + 1] = t
      /\ \A k \in 1..m : uu[k] = tt[k]
  BY <1>2, <1>3, <1>4 DEF TableHolds
<1>6. /\ m >= 1 /\ tt[1] = Conservative
      /\ \A k \in 2..m : tt[k] \in Types
      /\ \A j, k \in 1..m : tt[j] = tt[k] => j = k
  BY <1>3, <1>4 DEF TableHolds
<1>7. TableHolds(uu)
  <2>1. uu[1] = Conservative
    BY <1>5, <1>6
  <2>2. ASSUME NEW k \in 2..(m + 1)
        PROVE  uu[k] \in Types
    <3>1. k = m + 1 \/ (k \in 2..m /\ k \in 1..m)
      OBVIOUS
    <3> QED BY <1>5, <1>6, <3>1
  <2>3. ASSUME NEW j \in 1..(m + 1), NEW k \in 1..(m + 1), uu[j] = uu[k]
        PROVE  j = k
    <3>1. (j = m + 1 \/ j \in 1..m) /\ (k = m + 1 \/ k \in 1..m)
      OBVIOUS
    <3> QED BY <1>3, <1>4, <1>5, <1>6, <2>3, <3>1
  <2>4. m + 1 >= 1
    OBVIOUS
  <2> QED BY ONLY <1>5, <2>1, <2>2, <2>3, <2>4 DEF TableHolds
<1>8. PICK w : w = WithType(s, t)
  OBVIOUS
<1>9. PICK cc : cc = Cardinality(DOMAIN ix)
  OBVIOUS
<1>10. /\ w.ttab = uu /\ w.last = s.last
       /\ w.index = IF ix = <<>>
                    THEN IF Len(uu) - 1 > LinearMax THEN IndexBuild(uu, IndexCap) ELSE <<>>
                    ELSE IF Len(uu) - 1 > cc \div 2 THEN IndexBuild(uu, 2 * cc)
                    ELSE [ix EXCEPT ![Place(ix, cc, t)] = Len(uu)]
  BY ONLY <1>1, <1>2, <1>8, <1>9, IsSlab(s) DEF WithType, IsSlab
<1>11. IndexHolds(w.index, uu)
  <2>0. \A k \in 2..Len(uu) : uu[k] \in Types
    BY <1>7 DEF TableHolds
  <2>1. ASSUME NEW cap \in Nat \ {0}, m <= cap, w.index = IndexBuild(uu, cap)
        PROVE  IndexHolds(w.index, uu)
    <3>1. Len(uu) \in Nat \ {0} /\ Len(uu) - 1 <= cap
      BY <1>5, <2>1
    <3>2. Indexed(IndexBuild(uu, cap), cap, uu, Len(uu))
      BY ONLY cap \in Nat \ {0}, <2>0, <3>1, BuildIndexed
    <3>3. w.index # <<>>
      BY <2>1, <3>2, IndexCells
    <3> QED BY <2>1, <3>1, <3>2, <3>3 DEF IndexHolds
  <2>2. CASE ix = <<>>
    <3>1. m - 1 <= LinearMax /\ LinearMax \in Nat /\ LinearMax < IndexCap /\ IndexCap \in Nat \ {0}
      BY <1>3, <1>4, <2>2, SlabsAssumption DEF IndexHolds
    <3>2. m <= IndexCap
      BY <3>1
    <3>3. CASE Len(uu) - 1 > LinearMax
      BY <1>10, <2>1, <2>2, <3>1, <3>2, <3>3
    <3>4. CASE ~(Len(uu) - 1 > LinearMax)
      <4>1. w.index = <<>>
        BY <1>10, <2>2, <3>4
      <4> QED BY <1>5, <3>1, <3>4, <4>1 DEF IndexHolds
    <3> QED BY <3>3, <3>4
  <2>3. CASE ix # <<>>
    <3>1. PICK cap \in Nat \ {0} : Indexed(ix, cap, tt, m) /\ m - 1 <= cap
      BY <1>3, <1>4, <2>3 DEF IndexHolds
    <3>2. cc = cap
      BY <1>9, <3>1, IndexCells
    <3>3. CASE Len(uu) - 1 > cap \div 2
      <4>1. 2 * cap \in Nat \ {0} /\ m <= 2 * cap
        BY <3>1
      <4>2. w.index = IndexBuild(uu, 2 * cap)
        BY <1>10, <2>3, <3>2, <3>3
      <4> QED BY <2>1, <4>1, <4>2
    <3>4. CASE ~(Len(uu) - 1 > cap \div 2)
      <4>1. m <= cap
        BY <1>5, <3>4
      <4>2. Indexed(ix, cap, uu, m)
        <5>1. \A k \in 2..m : uu[k] = tt[k]
          BY <1>5
        <5> QED BY <3>1, <5>1 DEF Indexed, ProbeMeets
      <4>3. uu[m + 1] \in Types
        BY <1>5
      <4>4. Indexed([ix EXCEPT ![Place(ix, cap, uu[m + 1])] = m + 1], cap, uu, m + 1)
        BY ONLY cap \in Nat \ {0}, m \in Nat \ {0}, <4>1, <4>2, <4>3, IndexAdd
      <4>5. w.index = [ix EXCEPT ![Place(ix, cap, uu[m + 1])] = m + 1]
        BY <1>5, <1>10, <2>3, <3>2, <3>4
      <4>6. Indexed(w.index, cap, uu, Len(uu)) /\ Len(uu) - 1 <= cap
        BY <1>5, <4>1, <4>4, <4>5
      <4>7. w.index # <<>>
        BY <4>6, IndexCells
      <4> QED BY <4>6, <4>7 DEF IndexHolds
    <3> QED BY <3>3, <3>4
  <2> QED BY <2>2, <2>3
<1> QED BY ONLY <1>1, <1>2, <1>4, <1>5, <1>7, <1>8, <1>10, <1>11

\* extc_rc_typeIdx answers a number of the descriptor and moves no other number.
LEMMA TypedHolds ==
  ASSUME NEW s, IsSlab(s), NumbersHold(s), NEW t \in Descriptors
  PROVE  /\ TableHolds(Typed(s, t).ttab)
         /\ IndexHolds(Typed(s, t).index, Typed(s, t).ttab)
         /\ Typed(s, t).last.type # None =>
              /\ Typed(s, t).last.num \in 1..Len(Typed(s, t).ttab)
              /\ Typed(s, t).ttab[Typed(s, t).last.num] = Typed(s, t).last.type
         /\ IF t = None THEN Number(Typed(s, t), t) = 0
            ELSE /\ Number(Typed(s, t), t) \in 1..Len(Typed(s, t).ttab)
                 /\ Typed(s, t).ttab[Number(Typed(s, t), t)] = t
         /\ Len(s.ttab) <= Len(Typed(s, t).ttab)
         /\ \A k \in 1..Len(s.ttab) : Typed(s, t).ttab[k] = s.ttab[k]
<1>0. Len(s.ttab) \in Nat /\ Len(s.ttab) >= 1 /\ s.ttab[1] = Conservative
  BY DEF NumbersHold, TableHolds
<1>1. CASE t = None \/ t = s.last.type
  <2>1. Typed(s, t) = s
    BY <1>1 DEF Typed
  <2> QED BY <1>0, <1>1, <2>1 DEF NumbersHold, Number
<1>2. CASE ~(t = None \/ t = s.last.type)
  <2>1. PICK k : k = IF t = Conservative THEN 1 ELSE Known(s, t)
    OBVIOUS
  <2>2. PICK w : w = IF k = 0 THEN WithType(s, t) ELSE s
    OBVIOUS
  <2>3. PICK n : n = IF k = 0 THEN Len(w.ttab) ELSE k
    OBVIOUS
  <2>4. PICK u : u = Typed(s, t)
    OBVIOUS
  <2>5. u = [w EXCEPT !.last = [type |-> t, num |-> n]]
    BY ONLY <1>2, <2>1, <2>2, <2>3, <2>4 DEF Typed
  <2>6. /\ TableHolds(w.ttab) /\ IndexHolds(w.index, w.ttab)
        /\ Len(s.ttab) <= Len(w.ttab)
        /\ \A j \in 1..Len(s.ttab) : w.ttab[j] = s.ttab[j]
        /\ n \in 1..Len(w.ttab) /\ w.ttab[n] = t
        /\ \E x, y : w = [s EXCEPT !.ttab = x, !.index = y]
    <3>0. \E x, y : s = [s EXCEPT !.ttab = x, !.index = y]
      <4>1. s = [s EXCEPT !.ttab = s.ttab, !.index = s.index]
        BY DEF IsSlab
      <4> QED BY <4>1
    <3>1. CASE t = Conservative
      <4>1. k = 1 /\ w = s /\ n = 1
        BY <2>1, <2>2, <2>3, <3>1
      <4>2. TableHolds(s.ttab) /\ IndexHolds(s.index, s.ttab)
        BY DEF NumbersHold
      <4>3. 1 \in 1..Len(s.ttab)
        BY <1>0
      <4>4. \E x, y : w = [s EXCEPT !.ttab = x, !.index = y]
        BY ONLY <3>0, <4>1
      <4>5. /\ TableHolds(w.ttab) /\ IndexHolds(w.index, w.ttab)
            /\ Len(s.ttab) <= Len(w.ttab)
            /\ \A j \in 1..Len(s.ttab) : w.ttab[j] = s.ttab[j]
            /\ n \in 1..Len(w.ttab) /\ w.ttab[n] = t
        BY ONLY <1>0, <3>1, <4>1, <4>2, <4>3
      <4> QED BY ONLY <4>4, <4>5
    <3>2. CASE t # Conservative /\ k # 0
      <4>1. k = Known(s, t) /\ w = s /\ n = k /\ t \in Types
        BY <1>2, <2>1, <2>2, <2>3, <3>2 DEF Descriptors
      <4>2. k \in 2..Len(s.ttab) /\ s.ttab[k] = t
        BY <3>2, <4>1, KnownIs DEF NumbersHold
      <4>3. TableHolds(s.ttab) /\ IndexHolds(s.index, s.ttab)
        BY DEF NumbersHold
      <4>4. k \in 1..Len(s.ttab)
        BY <1>0, <4>2
      <4>5. \E x, y : w = [s EXCEPT !.ttab = x, !.index = y]
        BY ONLY <3>0, <4>1
      <4>6. /\ TableHolds(w.ttab) /\ IndexHolds(w.index, w.ttab)
            /\ Len(s.ttab) <= Len(w.ttab)
            /\ \A j \in 1..Len(s.ttab) : w.ttab[j] = s.ttab[j]
            /\ n \in 1..Len(w.ttab) /\ w.ttab[n] = t
        BY ONLY <1>0, <4>1, <4>2, <4>3, <4>4
      <4> QED BY ONLY <4>5, <4>6
    <3>3. CASE t # Conservative /\ k = 0
      <4>1. k = Known(s, t) /\ w = WithType(s, t) /\ n = Len(w.ttab) /\ t \in Types
        BY <1>2, <2>1, <2>2, <2>3, <3>3 DEF Descriptors
      <4>2. TableHolds(s.ttab) /\ IndexHolds(s.index, s.ttab)
        BY DEF NumbersHold
      <4>3. \A j \in 1..Len(s.ttab) : s.ttab[j] # t
        BY <3>3, <4>1, <4>2, KnownIs
      <4>4. /\ w.ttab = Append(s.ttab, t)
            /\ TableHolds(Append(s.ttab, t)) /\ IndexHolds(w.index, Append(s.ttab, t))
            /\ Len(Append(s.ttab, t)) = Len(s.ttab) + 1
            /\ Append(s.ttab, t)[Len(s.ttab) + 1] = t
            /\ \A j \in 1..Len(s.ttab) : Append(s.ttab, t)[j] = s.ttab[j]
        BY <4>1, <4>2, <4>3, WithTypeHolds
      <4>5. n \in 1..Len(w.ttab) /\ w.ttab[n] = t /\ Len(s.ttab) <= Len(w.ttab)
        BY <1>0, <4>1, <4>4
      <4>6. \E x, y : w = [s EXCEPT !.ttab = x, !.index = y]
        BY <4>1 DEF WithType
      <4> QED BY ONLY <4>4, <4>5, <4>6
    <3> QED BY <3>1, <3>2, <3>3
  <2>7. u.ttab = w.ttab /\ u.index = w.index /\ u.last = [type |-> t, num |-> n]
    <3>1. PICK x, y : w = [s EXCEPT !.ttab = x, !.index = y]
      BY <2>6
    <3> QED BY ONLY <2>5, <3>1, IsSlab(s) DEF IsSlab
  <2>8. u.last.type = t /\ u.last.num = n
    BY <2>7
  <2>9. Number(u, t) = n /\ t # None
    BY <1>2, <2>8 DEF Number
  <2> QED BY ONLY <2>4, <2>6, <2>7, <2>8, <2>9
<1> QED BY <1>1, <1>2

-----------------------------------------------------------------------------
(***************************************************************************)
(* The free list of a slab.                                                *)
(***************************************************************************)
\* f is the free list: it starts at free, is threaded through the numbers of
\* the free slots, and holds each slot handed out and not in use once.
Threads(f, n, free, bump, occ, tid) ==
  /\ f \in [1..n -> Slots]
  /\ free = IF n = 0 THEN -1 ELSE f[1]
  /\ \A k \in 1..n : /\ f[k] < bump /\ f[k] \notin occ
                     /\ tid[f[k]] = IF k = n THEN 0 ELSE f[k + 1] + 1
  /\ \A j, k \in 1..n : f[j] = f[k] => j = k
  /\ \A i \in Slots : i < bump /\ i \notin occ => \E k \in 1..n : f[k] = i
  /\ \A i \in occ : i < bump
  /\ occ \subseteq Slots /\ bump \in 0..NSlots /\ tid \in [Slots -> Int]

Threaded(free, bump, occ, tid) ==
  \E n \in Nat : \E f \in [1..n -> Slots] : Threads(f, n, free, bump, occ, tid)

ListHolds(s) == Threaded(s.free, s.bump, s.occ, s.tid)

LEMMA SlotNumbers ==
  /\ NSlots \in Nat \ {0} /\ Slots \subseteq Nat
  /\ \A i \in Slots : i < NSlots
  /\ \A i \in Nat : i < NSlots => i \in Slots
  /\ -1 \notin Slots
BY SlabsAssumption DEF Slots

\* A slot is taken from the head of the list.
LEMMA ThreadTaken ==
  ASSUME NEW free, NEW bump, NEW occ, NEW tid, NEW x \in Int,
         Threaded(free, bump, occ, tid), free # -1
  PROVE  /\ free \in Slots /\ free < bump /\ free \notin occ
         /\ Threaded(tid[free] - 1, bump, occ \cup {free}, [tid EXCEPT ![free] = x])
<1>1. PICK n \in Nat : \E f \in [1..n -> Slots] : Threads(f, n, free, bump, occ, tid)
  BY DEF Threaded
<1>2. PICK f \in [1..n -> Slots] : Threads(f, n, free, bump, occ, tid)
  BY <1>1
<1>3. /\ \A k \in 1..n : /\ f[k] < bump /\ f[k] \notin occ
                         /\ tid[f[k]] = IF k = n THEN 0 ELSE f[k + 1] + 1
      /\ \A j, k \in 1..n : f[j] = f[k] => j = k
      /\ \A i \in Slots : i < bump /\ i \notin occ => \E k \in 1..n : f[k] = i
      /\ \A i \in occ : i < bump
      /\ occ \subseteq Slots /\ bump \in 0..NSlots /\ tid \in [Slots -> Int]
  BY <1>2 DEF Threads
<1>4. n > 0 /\ 1 \in 1..n /\ f[1] = free /\ free \in Slots
  BY <1>2 DEF Threads
<1>5. free < bump /\ free \notin occ
  BY <1>3, <1>4
<1> DEFINE g == [k \in 1..(n - 1) |-> f[k + 1]]
<1>6. /\ g \in [1..(n - 1) -> Slots]
      /\ \A k \in 1..(n - 1) : g[k] = f[k + 1] /\ k + 1 \in 1..n /\ k \in 1..n
      /\ n - 1 \in Nat
  BY <1>4
<1> HIDE DEF g
<1>7. \A k \in 1..(n - 1) : g[k] # free /\ g[k] \in Slots
  BY <1>3, <1>4, <1>6
<1>8. PICK t2 : t2 = [tid EXCEPT ![free] = x]
  OBVIOUS
<1>9. t2 \in [Slots -> Int] /\ \A i \in Slots : i # free => t2[i] = tid[i]
  BY <1>3, <1>8
<1>10. tid[free] - 1 = IF n - 1 = 0 THEN -1 ELSE g[1]
  <2>1. tid[free] = IF 1 = n THEN 0 ELSE f[1 + 1] + 1
    BY <1>3, <1>4
  <2>2. n # 1 => g[1] = f[1 + 1] /\ f[1 + 1] \in Slots /\ 1 \in 1..(n - 1)
    BY <1>4, <1>6
  <2>3. CASE n = 1
    BY <2>1, <2>3
  <2>4. CASE n # 1
    <3>0. g[1] = f[1 + 1] /\ f[1 + 1] \in Slots
      BY ONLY <2>2, <2>4
    <3>4. PICK y \in Slots : y = f[1 + 1]
      BY ONLY <3>0
    <3>5. y \in Int
      BY SlotNumbers
    <3>1. g[1] = f[1 + 1] /\ f[1 + 1] \in Int
      BY ONLY <3>0, <3>4, <3>5
    <3>2. tid[free] = f[1 + 1] + 1
      BY ONLY <2>1, <2>4
    <3>3. tid[free] - 1 = g[1]
      BY ONLY <3>1, <3>2
    <3> QED BY <1>4, <2>4, <3>3
  <2> QED BY <2>3, <2>4
<1>11. ASSUME NEW k \in 1..(n - 1)
       PROVE  /\ g[k] < bump /\ g[k] \notin occ \cup {free}
              /\ t2[g[k]] = IF k = n - 1 THEN 0 ELSE g[k + 1] + 1
  <2>1. g[k] = f[k + 1] /\ k + 1 \in 1..n /\ g[k] # free /\ g[k] \in Slots
    BY <1>6, <1>7
  <2>2. /\ f[k + 1] < bump /\ f[k + 1] \notin occ
        /\ tid[f[k + 1]] = IF k + 1 = n THEN 0 ELSE f[k + 1 + 1] + 1
    BY <1>3, <2>1
  <2>3. k # n - 1 => g[k + 1] = f[k + 1 + 1]
    BY <1>6
  <2> QED BY <1>9, <2>1, <2>2, <2>3
<1>12. \A j, k \in 1..(n - 1) : g[j] = g[k] => j = k
  BY <1>3, <1>6
<1>13. ASSUME NEW i \in Slots, i < bump, i \notin occ \cup {free}
       PROVE  \E k \in 1..(n - 1) : g[k] = i
  <2>1. PICK k \in 1..n : f[k] = i
    BY <1>3, <1>13
  <2>2. k # 1 /\ k - 1 \in 1..(n - 1)
    BY <1>4, <1>13, <2>1
  <2>3. g[k - 1] = i
    BY <1>6, <2>1, <2>2
  <2> QED BY <2>2, <2>3
<1>14. occ \cup {free} \subseteq Slots /\ \A i \in occ \cup {free} : i < bump
  BY <1>3, <1>4, <1>5
<1>15. Threads(g, n - 1, tid[free] - 1, bump, occ \cup {free}, t2)
  BY ONLY <1>3, <1>6, <1>9, <1>10, <1>11, <1>12, <1>13, <1>14 DEF Threads
<1>16. Threaded(tid[free] - 1, bump, occ \cup {free}, t2)
  BY ONLY <1>6, <1>15 DEF Threaded
<1> QED BY ONLY <1>4, <1>5, <1>8, <1>16

\* The list is empty: a slot is taken at the bump cursor.
LEMMA ThreadBumped ==
  ASSUME NEW free, NEW bump, NEW occ, NEW tid, NEW x \in Int,
         Threaded(free, bump, occ, tid), free < 0, bump < NSlots
  PROVE  /\ bump \in Slots /\ bump \notin occ
         /\ Threaded(-1, bump + 1, occ \cup {bump}, [tid EXCEPT ![bump] = x])
<1>1. PICK n \in Nat : \E f \in [1..n -> Slots] : Threads(f, n, free, bump, occ, tid)
  BY DEF Threaded
<1>2. PICK f \in [1..n -> Slots] : Threads(f, n, free, bump, occ, tid)
  BY <1>1
<1>3. /\ f \in [1..n -> Slots]
      /\ free = IF n = 0 THEN -1 ELSE f[1]
      /\ \A i \in Slots : i < bump /\ i \notin occ => \E k \in 1..n : f[k] = i
      /\ \A i \in occ : i < bump
      /\ occ \subseteq Slots /\ bump \in 0..NSlots /\ tid \in [Slots -> Int]
  BY <1>2 DEF Threads
<1>4. n = 0
  <2>1. ASSUME n # 0 PROVE FALSE
    <3>1. f[1] \in Slots /\ free = f[1]
      BY <1>3, <2>1
    <3> QED BY <3>1, SlotNumbers
  <2> QED BY <2>1
<1>5. bump \in Slots /\ bump \in Nat /\ bump + 1 \in 0..NSlots
  BY <1>3, SlotNumbers
<1>6. bump \notin occ
  BY <1>3, <1>5
<1>7. PICK t2 : t2 = [tid EXCEPT ![bump] = x]
  OBVIOUS
<1>8. t2 \in [Slots -> Int]
  BY <1>3, <1>7
<1>9. 1..0 = {}
  OBVIOUS
<1>10. \A i \in Slots : i < bump => i \in occ
  BY <1>3, <1>4, <1>9
<1>11. occ \cup {bump} \subseteq Slots /\ \A i \in occ \cup {bump} : i < bump + 1
  BY <1>3, <1>5, SlotNumbers
<1>12. \A i \in Slots : i < bump + 1 => i \in occ \cup {bump}
  BY <1>5, <1>10, SlotNumbers
<1>13. f \in [1..0 -> Slots]
  BY <1>3, <1>4
<1>14. Threads(f, 0, -1, bump + 1, occ \cup {bump}, t2)
  BY ONLY <1>5, <1>8, <1>9, <1>11, <1>12, <1>13 DEF Threads
<1>15. Threaded(-1, bump + 1, occ \cup {bump}, t2)
  BY ONLY <1>13, <1>14, 0 \in Nat DEF Threaded
<1> QED BY ONLY <1>5, <1>6, <1>7, <1>15

\* A slot in use goes to the head of the list.
LEMMA ThreadPushed ==
  ASSUME NEW free, NEW bump, NEW occ, NEW tid, NEW i \in occ,
         Threaded(free, bump, occ, tid)
  PROVE  Threaded(i, bump, occ \ {i}, [tid EXCEPT ![i] = free + 1])
<1>1. PICK n \in Nat : \E f \in [1..n -> Slots] : Threads(f, n, free, bump, occ, tid)
  BY DEF Threaded
<1>2. PICK f \in [1..n -> Slots] : Threads(f, n, free, bump, occ, tid)
  BY <1>1
<1>3. /\ free = IF n = 0 THEN -1 ELSE f[1]
      /\ \A k \in 1..n : /\ f[k] < bump /\ f[k] \notin occ
                         /\ tid[f[k]] = IF k = n THEN 0 ELSE f[k + 1] + 1
      /\ \A j, k \in 1..n : f[j] = f[k] => j = k
      /\ \A j \in Slots : j < bump /\ j \notin occ => \E k \in 1..n : f[k] = j
      /\ \A j \in occ : j < bump
      /\ occ \subseteq Slots /\ bump \in 0..NSlots /\ tid \in [Slots -> Int]
  BY <1>2 DEF Threads
<1>4. i \in Slots /\ i < bump
  BY <1>3
<1> DEFINE g == [k \in 1..(n + 1) |-> IF k = 1 THEN i ELSE f[k - 1]]
<1>5. /\ g \in [1..(n + 1) -> Slots] /\ n + 1 \in Nat /\ g[1] = i
      /\ \A k \in 1..(n + 1) : k # 1 => k - 1 \in 1..n /\ g[k] = f[k - 1]
      /\ \A k \in 1..n : g[k + 1] = f[k] /\ k + 1 \in 1..(n + 1)
  BY <1>4
<1> HIDE DEF g
<1>6. \A k \in 1..n : f[k] # i /\ f[k] \in Slots
  BY <1>3
<1>7. PICK t2 : t2 = [tid EXCEPT ![i] = free + 1]
  OBVIOUS
<1>8. free \in Int
  BY <1>3, SlotNumbers
<1>9. t2 \in [Slots -> Int] /\ t2[i] = free + 1 /\ \A j \in Slots : j # i => t2[j] = tid[j]
  BY <1>3, <1>4, <1>7, <1>8
<1>10. i = IF n + 1 = 0 THEN -1 ELSE g[1]
  BY <1>5
<1>11. ASSUME NEW k \in 1..(n + 1)
       PROVE  /\ g[k] < bump /\ g[k] \notin occ \ {i}
              /\ t2[g[k]] = IF k = n + 1 THEN 0 ELSE g[k + 1] + 1
  <2>1. CASE k = 1
    <3>1. n # 0 => 1 \in 1..n /\ g[1 + 1] = f[1]
      BY <1>5
    <3>2. t2[i] = IF n = 0 THEN 0 ELSE f[1] + 1
      BY <1>3, <1>9
    <3> QED BY <1>4, <1>5, <2>1, <3>1, <3>2
  <2>2. CASE k # 1
    <3>1. PICK j \in 1..n : j = k - 1 /\ g[k] = f[j] /\ k = j + 1
      BY <1>5, <2>2
    <3>2. /\ f[j] < bump /\ f[j] \notin occ
          /\ tid[f[j]] = IF j = n THEN 0 ELSE f[j + 1] + 1
      BY <1>3
    <3>3. t2[f[j]] = tid[f[j]]
      BY <1>6, <1>9
    <3>4. k # n + 1 => g[k + 1] = f[j + 1]
      BY <1>5, <3>1
    <3> QED BY <3>1, <3>2, <3>3, <3>4
  <2> QED BY <2>1, <2>2
<1>12. ASSUME NEW j \in 1..(n + 1), NEW k \in 1..(n + 1), g[j] = g[k]
       PROVE  j = k
  <2>1. j # 1 => j - 1 \in 1..n /\ g[j] = f[j - 1] /\ f[j - 1] # i
    BY ONLY <1>5, <1>6, j \in 1..(n + 1)
  <2>2. k # 1 => k - 1 \in 1..n /\ g[k] = f[k - 1] /\ f[k - 1] # i
    BY ONLY <1>5, <1>6, k \in 1..(n + 1)
  <2>3. g[1] = i
    BY <1>5
  <2>4. CASE j # 1 /\ k # 1
    <3>1. j - 1 = k - 1
      BY ONLY <1>3, <1>12, <2>1, <2>2, <2>4
    <3> QED BY <3>1
  <2> QED BY ONLY <1>12, <2>1, <2>2, <2>3, <2>4
<1>13. ASSUME NEW j \in Slots, j < bump, j \notin occ \ {i}
       PROVE  \E k \in 1..(n + 1) : g[k] = j
  <2>1. CASE j = i
    BY <1>5, <2>1
  <2>2. CASE j # i
    <3>1. PICK k \in 1..n : f[k] = j
      BY <1>3, <1>13, <2>2
    <3> QED BY <1>5, <3>1
  <2> QED BY <2>1, <2>2
<1>14. occ \ {i} \subseteq Slots /\ \A j \in occ \ {i} : j < bump
  BY <1>3
<1>15. Threads(g, n + 1, i, bump, occ \ {i}, t2)
  BY ONLY <1>3, <1>5, <1>9, <1>10, <1>11, <1>12, <1>13, <1>14 DEF Threads
<1>16. Threaded(i, bump, occ \ {i}, t2)
  BY ONLY <1>5, <1>15 DEF Threaded
<1> QED BY ONLY <1>7, <1>16

\* Several slots of a slab are freed, the lowest first.
FreedTid(s, dead) ==
  [i \in Slots |-> IF i \in dead THEN HeadAfter(s, {j \in dead : j < i}) + 1 ELSE s.tid[i]]

ThreadedAfter(s, dead) ==
  Threaded(HeadAfter(s, dead), s.bump, s.occ \ dead, FreedTid(s, dead))

LEMMA ThreadFreed ==
  ASSUME NEW s, IsSlab(s), ListHolds(s), NEW dead, dead \subseteq s.occ
  PROVE  ThreadedAfter(s, dead)
<1> DEFINE below(m) == {j \in dead : j < m}
           D == {m \in 0..NSlots : ~ThreadedAfter(s, below(m))}
<1>0. dead \subseteq Slots /\ s.tid \in [Slots -> Int] /\ dead \subseteq Nat /\ \A j \in dead : j < NSlots
  BY SlotNumbers DEF IsSlab
<1>1. ASSUME D # {} PROVE FALSE
  <2>1. D \subseteq Nat
    BY SlotNumbers
  <2>2. PICK n \in D : \A x \in D : n <= x
    <3> HIDE DEF D
    <3> QED BY ONLY <1>1, <2>1, NatMin
  <2>3. n \in 0..NSlots /\ ~ThreadedAfter(s, below(n))
    BY <2>2
  <2>4. CASE n = 0
    <3>1. below(n) = {}
      <4>1. \A j \in dead : ~(j < n)
        BY ONLY <1>0, <2>4
      <4> QED BY ONLY <4>1 DEF below
    <3>2. FreedTid(s, {}) = s.tid
      BY <1>0 DEF FreedTid
    <3>3. HeadAfter(s, {}) = s.free /\ s.occ \ {} = s.occ
      BY DEF HeadAfter
    <3>4. ThreadedAfter(s, {})
      BY <3>2, <3>3 DEF ThreadedAfter, ListHolds
    <3> QED BY <2>3, <3>1, <3>4
  <2>5. CASE n # 0
    <3>1. PICK m \in Nat : m = n - 1
      BY <2>3, <2>5, SlotNumbers
    <3>2. m \in 0..NSlots /\ m + 1 = n /\ m < n
      BY <2>3, <3>1, SlotNumbers
    <3>3. ThreadedAfter(s, below(m))
      BY <2>2, <3>1, <3>2
    <3>4. CASE m \notin dead
      <4>1. below(n) = below(m)
        <5>1. \A j \in dead : j < n <=> j < m
          BY ONLY <1>0, m \in Nat, <3>2, <3>4
        <5> QED BY ONLY <5>1 DEF below
      <4> QED BY <2>3, <3>3, <4>1
    <3>5. CASE m \in dead
      <4>1. PICK B, C : B = below(m) /\ C = below(n)
        OBVIOUS
      <4>2. C = B \cup {m} /\ m \notin B /\ B \subseteq dead
        <5>1. \A j \in dead : j < n <=> j < m \/ j = m
          BY ONLY <1>0, m \in Nat, <3>2
        <5>2. ~(m < m)
          OBVIOUS
        <5> QED BY ONLY <3>5, <4>1, <5>1, <5>2 DEF below
      <4>3. HeadAfter(s, C) = m
        <5>1. C \subseteq Nat /\ m \in C /\ \A x \in C : x <= m
          <6>1. \A j \in B : j < m
            BY ONLY <4>1 DEF below
          <6> QED BY ONLY m \in Nat, <1>0, <3>5, <4>2, <6>1
        <5>2. C # {}
          BY <5>1
        <5> QED BY ONLY <5>1, <5>2, MaxIs DEF HeadAfter
      <4>4. m \in s.occ \ B /\ (s.occ \ B) \ {m} = s.occ \ C
        BY <3>5, <4>2
      <4>5. PICK h, t : h = HeadAfter(s, B) /\ t = FreedTid(s, B)
        OBVIOUS
      <4>6. Threaded(h, s.bump, s.occ \ B, t)
        BY ONLY <3>3, <4>1, <4>5 DEF ThreadedAfter
      <4>7. Threaded(m, s.bump, (s.occ \ B) \ {m}, [t EXCEPT ![m] = h + 1])
        BY ONLY <4>4, <4>6, ThreadPushed
      <4>8. FreedTid(s, C) = [t EXCEPT ![m] = h + 1]
        <5>1. /\ {j \in C : j < m} = B
              /\ \A i \in B : {j \in C : j < i} = {j \in B : j < i}
          <6>1. \A j \in C : j \in B <=> j < m
            <7>1. \A j \in B : j < m
              BY ONLY <4>1 DEF below
            <7> QED BY ONLY m \in Nat, <4>2, <7>1
          <6>2. \A i \in B : \A j \in C : j < i => j \in B
            BY ONLY <1>0, m \in Nat, <4>2, <6>1
          <6> QED BY ONLY <4>2, <6>1, <6>2
        <5>2. ASSUME NEW i \in Slots
              PROVE  FreedTid(s, C)[i] = [t EXCEPT ![m] = h + 1][i]
          <6>1. t[i] = IF i \in B THEN HeadAfter(s, {j \in B : j < i}) + 1 ELSE s.tid[i]
            BY <4>5 DEF FreedTid
          <6>2. FreedTid(s, C)[i] = IF i \in C THEN HeadAfter(s, {j \in C : j < i}) + 1 ELSE s.tid[i]
            BY DEF FreedTid
          <6>3. m \in DOMAIN t
            BY <1>0, <3>5, <4>5 DEF FreedTid
          <6>4. CASE i = m
            <7>1. {j \in C : j < i} = B
              BY <3>5, <4>2, <5>1, <6>4
            <7> QED BY <4>2, <4>5, <6>2, <6>3, <6>4, <7>1
          <6>5. CASE i # m /\ i \in B
            <7>1. {j \in C : j < i} = {j \in B : j < i}
              BY <4>2, <5>1, <6>5
            <7> QED BY <4>2, <6>1, <6>2, <6>5, <7>1
          <6>6. CASE i # m /\ i \notin B
            BY <4>2, <6>1, <6>2, <6>6
          <6> QED BY <6>4, <6>5, <6>6
        <5>3. FreedTid(s, C) = [i \in Slots |-> FreedTid(s, C)[i]]
          BY DEF FreedTid
        <5>4. [t EXCEPT ![m] = h + 1] = [i \in Slots |-> [t EXCEPT ![m] = h + 1][i]]
          BY <4>5 DEF FreedTid
        <5> HIDE DEF below, D
        <5> QED BY ONLY <5>2, <5>3, <5>4
      <4>9. ThreadedAfter(s, C)
        BY ONLY <4>3, <4>4, <4>7, <4>8 DEF ThreadedAfter
      <4> QED BY <2>3, <4>1, <4>9
    <3> QED BY <3>4, <3>5
  <2> QED BY <2>4, <2>5
<1>2. below(NSlots) = dead
  BY <1>0
<1>3. NSlots \in 0..NSlots
  BY SlotNumbers
<1> QED BY <1>1, <1>2, <1>3

\* Walk of m links over numbers tid from head, as the property follows it.
Follows(at, m, head, tid) ==
  at = [q \in 0..m |-> IF q = 0 THEN head ELSE IF at[q - 1] < 0 THEN -1 ELSE tid[at[q - 1]] - 1]

\* The list f as such a walk.
AlongList(f, n, m) == [k \in 0..m |-> IF k < n THEN f[k + 1] ELSE -1]

LEMMA FollowsList ==
  ASSUME NEW m \in Nat, NEW n \in Nat, NEW f, NEW head, NEW bump, NEW occ, NEW tid,
         Threads(f, n, head, bump, occ, tid)
  PROVE  \A at : Follows(at, m, head, tid) <=> at = AlongList(f, n, m)
<1> DEFINE g == [k \in 0..m |-> IF k < n THEN f[k + 1] ELSE -1]
<1>1. /\ f \in [1..n -> Slots]
      /\ head = IF n = 0 THEN -1 ELSE f[1]
      /\ \A k \in 1..n : tid[f[k]] = IF k = n THEN 0 ELSE f[k + 1] + 1
  BY DEF Threads
<1>2. \A k \in 1..n : f[k] \in Nat
  BY <1>1, SlotNumbers
<1>3. \A k \in 0..m : g[k] = IF k < n THEN f[k + 1] ELSE -1
  OBVIOUS
<1>4. g[0] = head
  BY <1>1, <1>3
<1>5. ASSUME NEW k \in 1..m
      PROVE  g[k] = IF g[k - 1] < 0 THEN -1 ELSE tid[g[k - 1]] - 1
  <2>1. k - 1 \in 0..m /\ k \in 0..m
    OBVIOUS
  <2>2. CASE k - 1 < n
    <3>1. k \in 1..n /\ g[k - 1] = f[k] /\ (k = n <=> ~(k < n))
      BY <1>3, <2>1, <2>2
    <3>2. PICK x \in Nat : x = f[k]
      BY <1>2, <3>1
    <3>3. ~(g[k - 1] < 0) /\ tid[g[k - 1]] = IF k = n THEN 0 ELSE f[k + 1] + 1
      BY <1>1, <3>1, <3>2
    <3>4. CASE k = n
      BY <1>3, <2>1, <3>1, <3>3, <3>4
    <3>5. CASE k # n
      <4>1. k + 1 \in 1..n
        BY <3>1, <3>5
      <4>2. PICK y \in Nat : y = f[k + 1]
        BY <1>2, <4>1
      <4>3. g[k] = y
        BY <1>3, <2>1, <3>1, <3>5, <4>2
      <4> QED BY <3>3, <3>5, <4>2, <4>3
    <3> QED BY <3>4, <3>5
  <2>3. CASE ~(k - 1 < n)
    BY <1>3, <2>1, <2>3
  <2> QED BY <2>2, <2>3
<1>6. Follows(g, m, head, tid)
  <2>1. \A k \in 0..m : k # 0 => k \in 1..m
    OBVIOUS
  <2>2. g = [k \in 0..m |-> g[k]]
    OBVIOUS
  <2> HIDE DEF g
  <2>3. \A k \in 0..m : g[k] = IF k = 0 THEN head ELSE IF g[k - 1] < 0 THEN -1
                               ELSE tid[g[k - 1]] - 1
    BY <1>4, <1>5, <2>1
  <2> QED BY ONLY <2>2, <2>3 DEF Follows
<1>7. ASSUME NEW at, Follows(at, m, head, tid)
      PROVE  at = g
  <2>1. \A k \in 0..m : at[k] = IF k = 0 THEN head ELSE IF at[k - 1] < 0 THEN -1
                                ELSE tid[at[k - 1]] - 1
    BY <1>7 DEF Follows
  <2>2. at = [k \in 0..m |-> at[k]] /\ g = [k \in 0..m |-> g[k]]
    BY <1>7 DEF Follows
  <2> HIDE DEF g
  <2> DEFINE D == {k \in 0..m : at[k] # g[k]}
  <2>3. ASSUME D # {} PROVE FALSE
    <3>1. PICK k \in D : \A j \in D : k <= j
      <4>1. D \subseteq Nat
        OBVIOUS
      <4> HIDE DEF D
      <4> QED BY <2>3, <4>1, NatMin
    <3>2. k # 0
      BY <1>4, <2>1
    <3>3. k \in 1..m /\ k - 1 \in 0..m /\ k - 1 < k
      BY <3>2
    <3>4. at[k - 1] = g[k - 1]
      BY <3>1, <3>3
    <3>5. at[k] = IF at[k - 1] < 0 THEN -1 ELSE tid[at[k - 1]] - 1
      BY <2>1, <3>2
    <3>6. at[k] = g[k]
      BY <1>5, <3>3, <3>4, <3>5
    <3> QED BY <3>6
  <2>4. \A k \in 0..m : at[k] = g[k]
    BY <2>3
  <2> HIDE DEF D
  <2> QED BY ONLY <2>2, <2>4
<1> QED BY ONLY <1>6, <1>7 DEF g, AlongList

\* The list of a slab is what FreeListExact says of it.
LEMMA SlabListExact ==
  ASSUME NEW s, ListHolds(s)
  PROVE  LET nth[q \in 0..NSlots] ==
               IF q = 0 THEN s.free ELSE IF nth[q - 1] < 0 THEN -1 ELSE s.tid[nth[q - 1]] - 1
             idle == {i \in Slots : i < s.bump /\ i \notin s.occ}
         IN /\ {nth[q] : q \in 0..NSlots} \ {-1} = idle
            /\ nth[Cardinality(idle)] = -1
            /\ \A i \in s.occ : i < s.bump
<1> DEFINE idle == {i \in Slots : i < s.bump /\ i \notin s.occ}
<1>1. PICK n \in Nat : \E f \in [1..n -> Slots] : Threads(f, n, s.free, s.bump, s.occ, s.tid)
  BY DEF ListHolds, Threaded
<1>2. PICK f \in [1..n -> Slots] : Threads(f, n, s.free, s.bump, s.occ, s.tid)
  BY <1>1
<1>3. /\ \A k \in 1..n : f[k] < s.bump /\ f[k] \notin s.occ
      /\ \A j, k \in 1..n : f[j] = f[k] => j = k
      /\ \A i \in Slots : i < s.bump /\ i \notin s.occ => \E k \in 1..n : f[k] = i
      /\ \A i \in s.occ : i < s.bump
  BY <1>2 DEF Threads
<1>4. PICK I : I = idle
  OBVIOUS
<1>5. Cardinality(I) = n
  <2>1. f \in [1..n -> I]
    BY <1>3, <1>4
  <2>2. \A i \in I : \E k \in 1..n : f[k] = i
    BY <1>3, <1>4
  <2>3. f \in Bijection(1..n, I)
    BY ONLY <1>3, <2>1, <2>2 DEF Bijection, Injection, Surjection, IsInjective
  <2>4. IsFiniteSet(1..n) /\ Cardinality(1..n) = n
    BY FS_Interval
  <2>5. ExistsBijection(1..n, I)
    BY ONLY <2>3 DEF ExistsBijection
  <2> QED BY ONLY <2>4, <2>5, FS_Bijection
<1>6. n <= NSlots
  <2>1. IsFiniteSet(Slots) /\ Cardinality(Slots) = NSlots
    BY SlotNumbers, FS_Interval DEF Slots
  <2>2. I \subseteq Slots
    BY <1>4
  <2>3. Cardinality(I) <= Cardinality(Slots)
    BY ONLY <2>1, <2>2, FS_Subset
  <2> QED BY <1>5, <2>1, <2>3
<1>7. PICK nth : nth = CHOOSE at : Follows(at, NSlots, s.free, s.tid)
  OBVIOUS
<1>8. nth = [k \in 0..NSlots |-> IF k < n THEN f[k + 1] ELSE -1]
  <2>0. NSlots \in Nat
    BY SlotNumbers
  <2>1. \A at : Follows(at, NSlots, s.free, s.tid) <=> at = AlongList(f, n, NSlots)
    BY ONLY <2>0, n \in Nat, <1>2, FollowsList
  <2>2. nth = AlongList(f, n, NSlots)
    BY ONLY <1>7, <2>1
  <2> QED BY ONLY <2>2 DEF AlongList
<1>9. \A k \in 0..NSlots : nth[k] = IF k < n THEN f[k + 1] ELSE -1
  BY ONLY <1>8
<1>10. {nth[q] : q \in 0..NSlots} \ {-1} = I
  <2>1. ASSUME NEW q \in 0..NSlots, nth[q] # -1
        PROVE  nth[q] \in I
    <3>1. q < n /\ q + 1 \in 1..n /\ nth[q] = f[q + 1]
      BY <1>9, <2>1
    <3> QED BY <1>3, <1>4, <3>1
  <2>2. ASSUME NEW i \in I
        PROVE  i # -1 /\ \E q \in 0..NSlots : nth[q] = i
    <3>1. PICK k \in 1..n : f[k] = i
      BY <1>3, <1>4
    <3>2. k - 1 \in 0..NSlots /\ k - 1 < n /\ (k - 1) + 1 = k
      BY <1>6, SlotNumbers
    <3>3. nth[k - 1] = f[k]
      BY <1>9, <3>2
    <3>4. i # -1
      BY <1>4, SlotNumbers
    <3> QED BY <3>1, <3>2, <3>3, <3>4
  <2> QED BY ONLY <2>1, <2>2
<1>11. nth[n] = -1
  <2>1. n \in 0..NSlots /\ ~(n < n)
    BY <1>6
  <2> QED BY <1>9, <2>1
<1> QED BY ONLY <1>3, <1>4, <1>5, <1>7, <1>10, <1>11 DEF Follows

-----------------------------------------------------------------------------
(***************************************************************************)
(* The invariant of one slab, and what a step does to a slab.              *)
(***************************************************************************)
SlabHolds(s) == IsSlab(s) /\ NumbersHold(s) /\ ListHolds(s)

LEMMA NewSlabHolds ==
  ASSUME NEW c \in Classes
  PROVE  /\ SlabHolds(NewSlab(c)) /\ ~Full(NewSlab(c))
         /\ NewSlab(c).cls = c /\ NewSlab(c).avail = TRUE /\ NewSlab(c).occ = {}
<1>1. PICK s : s = NewSlab(c)
  OBVIOUS
<1>2. /\ s.cls = c /\ s.bump = 0 /\ s.free = -1 /\ s.avail = TRUE /\ s.occ = {}
      /\ s.tid = [i \in Slots |-> 0] /\ s.ttab = <<Conservative>> /\ s.index = <<>>
      /\ s.last.type = None
  BY <1>1 DEF NewSlab
<1>3. IsSlab(s)
  BY <1>1, NewSlabIs
<1>4. PICK tt : tt = <<Conservative>>
  OBVIOUS
<1>5. tt \in Seq(Types \cup {Conservative}) /\ Len(tt) = 1 /\ tt[1] = Conservative
  BY <1>4
<1>6. TableHolds(tt)
  <2>1. 2..1 = {} /\ 1..1 = {1}
    OBVIOUS
  <2> QED BY ONLY <1>5, <2>1 DEF TableHolds
<1>7. NumbersHold(s)
  <2>1. LinearMax \in Nat
    BY SlabsAssumption
  <2>2. IndexHolds(<<>>, tt)
    BY <1>5, <2>1 DEF IndexHolds
  <2> QED BY ONLY <1>2, <1>4, <1>6, <2>2 DEF NumbersHold
<1>8. ListHolds(s)
  <2>1. PICK f : f = [k \in 1..0 |-> 0]
    OBVIOUS
  <2>2. 1..0 = {} /\ 0 \in 0..NSlots /\ 0 \in Nat
    BY SlotNumbers
  <2>3. f \in [1..0 -> Slots]
    BY <2>1, <2>2
  <2>4. \A i \in Slots : ~(i < 0)
    BY SlotNumbers
  <2>5. s.tid \in [Slots -> Int]
    BY <1>2
  <2>6. Threads(f, 0, -1, 0, {}, s.tid)
    BY ONLY <2>2, <2>3, <2>4, <2>5 DEF Threads
  <2> QED BY ONLY <1>2, <2>2, <2>3, <2>6 DEF ListHolds, Threaded
<1>9. ~Full(s)
  BY <1>2, SlotNumbers DEF Full
<1> QED BY ONLY <1>1, <1>2, <1>3, <1>7, <1>8, <1>9 DEF SlabHolds

\* A mark or the chain flag of a slab changes.
LEMMA MarkHolds ==
  ASSUME NEW s, SlabHolds(s), NEW M \in SUBSET Slots
  PROVE  /\ SlabHolds([s EXCEPT !.mark = M])
         /\ [s EXCEPT !.mark = M].cls = s.cls /\ [s EXCEPT !.mark = M].avail = s.avail
         /\ [s EXCEPT !.mark = M].occ = s.occ /\ [s EXCEPT !.mark = M].mark = M
         /\ Full([s EXCEPT !.mark = M]) <=> Full(s)
<1>1. PICK u : u = [s EXCEPT !.mark = M]
  OBVIOUS
<1>2. /\ IsSlab(u) /\ u.cls = s.cls /\ u.bump = s.bump /\ u.free = s.free /\ u.avail = s.avail
      /\ u.occ = s.occ /\ u.mark = M /\ u.tid = s.tid /\ u.ttab = s.ttab /\ u.index = s.index
      /\ u.last = s.last /\ u.want = s.want
  BY ONLY <1>1, SlabHolds(s), M \in SUBSET Slots DEF SlabHolds, IsSlab
<1>3. NumbersHold(u) /\ ListHolds(u) /\ (Full(u) <=> Full(s))
  BY <1>2 DEF SlabHolds, NumbersHold, ListHolds, Full
<1> QED BY ONLY <1>1, <1>2, <1>3 DEF SlabHolds

LEMMA AvailHolds ==
  ASSUME NEW s, SlabHolds(s), NEW a \in BOOLEAN
  PROVE  /\ SlabHolds([s EXCEPT !.avail = a])
         /\ [s EXCEPT !.avail = a].cls = s.cls /\ [s EXCEPT !.avail = a].avail = a
         /\ [s EXCEPT !.avail = a].occ = s.occ /\ [s EXCEPT !.avail = a].mark = s.mark
         /\ Full([s EXCEPT !.avail = a]) <=> Full(s)
<1>1. PICK u : u = [s EXCEPT !.avail = a]
  OBVIOUS
<1>2. /\ IsSlab(u) /\ u.cls = s.cls /\ u.bump = s.bump /\ u.free = s.free /\ u.avail = a
      /\ u.occ = s.occ /\ u.mark = s.mark /\ u.tid = s.tid /\ u.ttab = s.ttab
      /\ u.index = s.index /\ u.last = s.last /\ u.want = s.want
  BY ONLY <1>1, SlabHolds(s), a \in BOOLEAN DEF SlabHolds, IsSlab
<1>3. NumbersHold(u) /\ ListHolds(u) /\ (Full(u) <=> Full(s))
  BY <1>2 DEF SlabHolds, NumbersHold, ListHolds, Full
<1> QED BY ONLY <1>1, <1>2, <1>3 DEF SlabHolds

\* A slot is taken, from the free list or at the bump cursor.
LEMMA TakenKeeps ==
  ASSUME NEW s, IsSlab(s), NEW i, NEW t \in Descriptors, NEW black
  PROVE  Taken(s, i, t, black).cls = s.cls /\ Taken(s, i, t, black).avail = s.avail
<1>1. PICK v : v = Typed(s, t)
  OBVIOUS
<1>2. IsSlab(v) /\ v.cls = s.cls /\ v.avail = s.avail
  BY <1>1, TypedKeeps
<1>3. PICK f, n, o, m : Taken(s, i, t, black) =
        [[v EXCEPT !.free = f, !.bump = n, !.occ = o, !.mark = m]
           EXCEPT !.tid[i] = Number([v EXCEPT !.free = f, !.bump = n, !.occ = o, !.mark = m], t),
                  !.want[i] = t]
  BY <1>1 DEF Taken
<1> QED BY ONLY <1>2, <1>3 DEF IsSlab

LEMMA TakenHolds ==
  ASSUME NEW s, SlabHolds(s), ~Full(s), NEW t \in Descriptors, NEW black \in BOOLEAN
  PROVE  LET i == TakenSlot(s)
             u == Taken(s, i, t, black)
         IN /\ SlabHolds(u) /\ i \in Slots /\ i \notin s.occ
            /\ u.cls = s.cls /\ u.avail = s.avail /\ u.occ = s.occ \cup {i}
            /\ u.mark = IF black THEN s.mark \cup {i} ELSE s.mark
<1>1. PICK i : i = TakenSlot(s)
  OBVIOUS
<1>2. PICK v : v = Typed(s, t)
  OBVIOUS
<1>3. IsSlab(s) /\ NumbersHold(s) /\ ListHolds(s)
  BY DEF SlabHolds
<1>4. /\ IsSlab(v) /\ v.cls = s.cls /\ v.bump = s.bump /\ v.free = s.free /\ v.avail = s.avail
      /\ v.occ = s.occ /\ v.mark = s.mark /\ v.tid = s.tid /\ v.want = s.want
  BY ONLY t \in Descriptors, <1>2, <1>3, TypedKeeps
<1>5. PICK x : x = Number(v, t)
  OBVIOUS
<1>6. /\ TableHolds(v.ttab) /\ IndexHolds(v.index, v.ttab)
      /\ v.last.type # None => v.last.num \in 1..Len(v.ttab) /\ v.ttab[v.last.num] = v.last.type
      /\ IF t = None THEN x = 0 ELSE x \in 1..Len(v.ttab) /\ v.ttab[x] = t
      /\ Len(s.ttab) <= Len(v.ttab)
      /\ \A k \in 1..Len(s.ttab) : v.ttab[k] = s.ttab[k]
  BY ONLY t \in Descriptors, <1>2, <1>3, <1>5, TypedHolds
<1>7. x \in Int
  BY <1>6
<1>8. s.free \in Int /\ s.bump \in Int /\ s.tid \in [Slots -> Int]
  BY <1>3 DEF IsSlab
<1>9. PICK fr, bu : /\ fr = IF s.free >= 0 THEN s.tid[i] - 1 ELSE -1
                    /\ bu = IF s.free >= 0 THEN s.bump ELSE s.bump + 1
  OBVIOUS
<1>10. PICK td : td = [s.tid EXCEPT ![i] = x]
  OBVIOUS
<1>11. i \in Slots /\ i \notin s.occ /\ Threaded(fr, bu, s.occ \cup {i}, td)
  <2>0. Threaded(s.free, s.bump, s.occ, s.tid)
    BY <1>3 DEF ListHolds
  <2>1. CASE s.free >= 0
    <3>1. i = s.free /\ s.free # -1 /\ fr = s.tid[i] - 1 /\ bu = s.bump
      BY <1>1, <1>9, <2>1 DEF TakenSlot
    <3> QED BY ONLY <1>7, <1>10, <2>0, <3>1, ThreadTaken
  <2>2. CASE ~(s.free >= 0)
    <3>1. i = s.bump /\ fr = -1 /\ bu = s.bump + 1
      BY <1>1, <1>9, <2>2 DEF TakenSlot
    <3>2. s.free < 0 /\ s.bump < NSlots
      BY <1>8, <2>2, SlotNumbers DEF Full
    <3> QED BY ONLY <1>7, <1>10, <2>0, <3>1, <3>2, ThreadBumped
  <2> QED BY <2>1, <2>2
<1>12. PICK M : M = IF black THEN s.mark \cup {i} ELSE s.mark
  OBVIOUS
<1>13. PICK w : w = [v EXCEPT !.free = fr, !.bump = bu, !.occ = s.occ \cup {i}, !.mark = M]
  OBVIOUS
<1>14. /\ w.cls = v.cls /\ w.bump = bu /\ w.free = fr /\ w.avail = v.avail
       /\ w.occ = s.occ \cup {i} /\ w.mark = M /\ w.tid = v.tid /\ w.ttab = v.ttab
       /\ w.index = v.index /\ w.last = v.last /\ w.want = v.want
       /\ w = [cls |-> w.cls, bump |-> w.bump, free |-> w.free, avail |-> w.avail,
               occ |-> w.occ, mark |-> w.mark, tid |-> w.tid, ttab |-> w.ttab,
               index |-> w.index, last |-> w.last, want |-> w.want]
  BY ONLY <1>4, <1>13 DEF IsSlab
<1>15. PICK u : u = Taken(s, i, t, black)
  OBVIOUS
<1>16. Number(w, t) = x
  BY <1>5, <1>14 DEF Number
<1>17. w = [Typed(s, t) EXCEPT
              !.free = IF s.free >= 0 THEN s.tid[i] - 1 ELSE -1,
              !.bump = IF s.free >= 0 THEN @ ELSE @ + 1,
              !.occ = @ \cup {i},
              !.mark = IF black THEN @ \cup {i} ELSE @]
  BY ONLY <1>2, <1>4, <1>9, <1>12, <1>13
<1>18. u = [w EXCEPT !.tid[i] = x, !.want[i] = t]
  BY ONLY <1>15, <1>16, <1>17 DEF Taken
<1>19. PICK wt : wt = [s.want EXCEPT ![i] = t]
  OBVIOUS
<1>20. u = [w EXCEPT !.tid = td, !.want = wt]
  BY ONLY <1>4, <1>10, <1>14, <1>18, <1>19
<1>21. /\ u.cls = s.cls /\ u.bump = bu /\ u.free = fr /\ u.avail = s.avail
       /\ u.occ = s.occ \cup {i} /\ u.mark = M /\ u.tid = td /\ u.ttab = v.ttab
       /\ u.index = v.index /\ u.last = v.last /\ u.want = wt
       /\ u = [cls |-> u.cls, bump |-> u.bump, free |-> u.free, avail |-> u.avail,
               occ |-> u.occ, mark |-> u.mark, tid |-> u.tid, ttab |-> u.ttab,
               index |-> u.index, last |-> u.last, want |-> u.want]
  BY ONLY <1>4, <1>14, <1>20
<1>22. IsSlab(u)
  <2>1. fr \in Int /\ bu \in Int
    BY <1>8, <1>9, <1>11
  <2>2. td \in [Slots -> Int]
    BY <1>7, <1>8, <1>10
  <2>3. wt \in [Slots -> Descriptors]
    BY <1>3, <1>19 DEF IsSlab
  <2>4. M \subseteq Slots /\ s.occ \cup {i} \subseteq Slots
    BY <1>3, <1>11, <1>12 DEF IsSlab
  <2>5. /\ v.last = [type |-> v.last.type, num |-> v.last.num]
        /\ s.cls \in Classes /\ s.avail \in BOOLEAN
        /\ v.ttab \in Seq(Types \cup {Conservative})
    BY <1>3, <1>4 DEF IsSlab
  <2> QED BY ONLY <1>21, <2>1, <2>2, <2>3, <2>4, <2>5 DEF IsSlab
<1>23. NumbersHold(u)
  <2>1. ASSUME NEW j \in s.occ \cup {i}
        PROVE  IF wt[j] = None THEN td[j] = 0
               ELSE td[j] \in 1..Len(v.ttab) /\ v.ttab[td[j]] = wt[j]
    <3>1. CASE j = i
      <4>1. wt[j] = t /\ td[j] = x
        BY <1>3, <1>8, <1>10, <1>11, <1>19, <3>1 DEF IsSlab
      <4> QED BY <1>6, <4>1
    <3>2. CASE j # i
      <4>1. wt[j] = s.want[j] /\ td[j] = s.tid[j] /\ j \in s.occ
        BY <1>3, <1>8, <1>10, <1>19, <3>2 DEF IsSlab
      <4>2. IF s.want[j] = None THEN s.tid[j] = 0
            ELSE s.tid[j] \in 1..Len(s.ttab) /\ s.ttab[s.tid[j]] = s.want[j]
        BY <1>3, <4>1 DEF NumbersHold
      <4>3. Len(s.ttab) \in Nat /\ Len(v.ttab) \in Nat
        BY <1>3, <1>4 DEF IsSlab
      <4> QED BY <1>6, <4>1, <4>2, <4>3
    <3> QED BY <3>1, <3>2
  <2> QED BY ONLY <1>6, <1>21, <2>1 DEF NumbersHold
<1>24. ListHolds(u)
  BY ONLY <1>11, <1>21 DEF ListHolds
<1> QED BY ONLY <1>1, <1>11, <1>12, <1>15, <1>21, <1>22, <1>23, <1>24 DEF SlabHolds

\* Some slots in use are freed: the slab has room, and nothing else changes.
LEMMA FreedHolds ==
  ASSUME NEW s, SlabHolds(s), NEW dead, dead \subseteq s.occ
  PROVE  /\ SlabHolds(Freed(s, dead))
         /\ Freed(s, dead).cls = s.cls /\ Freed(s, dead).avail = TRUE
         /\ Freed(s, dead).occ = s.occ \ dead /\ Freed(s, dead).mark = s.mark
<1>1. PICK u : u = Freed(s, dead)
  OBVIOUS
<1>2. IsSlab(s) /\ NumbersHold(s) /\ ListHolds(s)
  BY DEF SlabHolds
<1>3. PICK h, td : h = HeadAfter(s, dead) /\ td = FreedTid(s, dead)
  OBVIOUS
<1>4. Threaded(h, s.bump, s.occ \ dead, td)
  BY ONLY dead \subseteq s.occ, <1>2, <1>3, ThreadFreed DEF ThreadedAfter
<1>5. u = [s EXCEPT !.occ = s.occ \ dead, !.avail = TRUE, !.free = h, !.tid = td]
  BY ONLY <1>1, <1>2, <1>3 DEF Freed, FreedTid, IsSlab
<1>6. td \in [Slots -> Int] /\ h \in Int
  <2>1. PICK n \in Nat : \E f \in [1..n -> Slots] : Threads(f, n, h, s.bump, s.occ \ dead, td)
    BY <1>4 DEF Threaded
  <2>2. PICK f \in [1..n -> Slots] : Threads(f, n, h, s.bump, s.occ \ dead, td)
    BY <2>1
  <2> QED BY <2>2, SlotNumbers DEF Threads
<1>7. /\ u.cls = s.cls /\ u.bump = s.bump /\ u.free = h /\ u.avail = TRUE
      /\ u.occ = s.occ \ dead /\ u.mark = s.mark /\ u.tid = td /\ u.ttab = s.ttab
      /\ u.index = s.index /\ u.last = s.last /\ u.want = s.want /\ IsSlab(u)
  BY ONLY <1>2, <1>5, <1>6 DEF IsSlab
<1>8. NumbersHold(u)
  <2>1. \A i \in s.occ \ dead : td[i] = s.tid[i]
    BY <1>2, <1>3 DEF FreedTid, IsSlab
  <2> QED BY ONLY <1>2, <1>7, <2>1 DEF NumbersHold
<1>9. ListHolds(u)
  BY ONLY <1>4, <1>7 DEF ListHolds
<1> QED BY ONLY <1>1, <1>7, <1>8, <1>9 DEF SlabHolds

-----------------------------------------------------------------------------
(***************************************************************************)
(* The slabs of the region and the chains of slabs with room.              *)
(***************************************************************************)
SlabSeq == Len(slab) \in Nat /\ slab = [b \in Ids |-> slab[b]]

\* q is a chain of class c among slabs S numbered by I.
ChainOf(q, c, S, I) ==
  /\ q \in Seq(Nat)
  /\ \A p \in 1..Len(q) : q[p] \in I /\ S[q[p]].cls = c /\ S[q[p]].avail
  /\ \A p, r \in 1..Len(q) : q[p] = q[r] => p = r

\* A slab that says so is on the chain of its class, and one with room says so.
OnChain(b, S, C) ==
  /\ S[b].avail => \E p \in 1..Len(C[S[b].cls]) : C[S[b].cls][p] = b
  /\ ~Full(S[b]) => S[b].avail

Chained(S, C, H, I) ==
  /\ C \in [Classes -> Seq(Nat)] /\ H \in [Classes -> Nat]
  /\ \A c \in Classes : ChainOf(C[c], c, S, I)
  /\ \A b \in I : OnChain(b, S, C)
  /\ \A c \in Classes : H[c] # 0 => H[c] \in I /\ S[H[c]].cls = c

ChainInv == Chained(slab, chain, hot, Ids)

\* The words ahead of the sweep are words of the region's slabs.
SweepInv == phase = "sweep" => swPos \in Seq(Ids \X Nat)

SlabsInv ==
  /\ SlabSeq
  /\ \A b \in Ids : SlabHolds(slab[b])
  /\ ChainInv
  /\ SweepInv

\* A step that changes neither class, flag nor room of a slab.
LEMMA ChainKept ==
  ASSUME NEW S, NEW C, NEW H, NEW I, Chained(S, C, H, I), NEW T,
         \A b \in I : T[b].cls = S[b].cls /\ T[b].avail = S[b].avail /\ (Full(T[b]) <=> Full(S[b]))
  PROVE  Chained(T, C, H, I)
<1>1. \A c \in Classes : ChainOf(C[c], c, T, I)
  <2>1. ASSUME NEW c \in Classes
        PROVE  ChainOf(C[c], c, T, I)
    <3>1. PICK q : q = C[c]
      OBVIOUS
    <3>2. ChainOf(q, c, S, I)
      BY <3>1 DEF Chained
    <3>3. ChainOf(q, c, T, I)
      BY ONLY <3>2, \A b \in I : T[b].cls = S[b].cls /\ T[b].avail = S[b].avail DEF ChainOf
    <3> QED BY <3>1, <3>3
  <2> QED BY <2>1
<1>2. ASSUME NEW b \in I
      PROVE  OnChain(b, T, C)
  <2>1. OnChain(b, S, C)
    BY DEF Chained
  <2> QED BY <2>1 DEF OnChain
<1>3. \A c \in Classes : H[c] # 0 => H[c] \in I /\ T[H[c]].cls = c
  BY DEF Chained
<1>4. C \in [Classes -> Seq(Nat)] /\ H \in [Classes -> Nat]
  BY DEF Chained
<1> QED BY ONLY <1>1, <1>2, <1>3, <1>4 DEF Chained

\* A sequence with one more element in front.
LEMMA InFront ==
  ASSUME NEW q \in Seq(Nat), NEW b \in Nat, NEW r, r = <<b>> \o q
  PROVE  /\ r \in Seq(Nat) /\ Len(r) = Len(q) + 1 /\ r[1] = b /\ Len(q) \in Nat
         /\ \A p \in 2..Len(r) : r[p] = q[p - 1] /\ p - 1 \in 1..Len(q)
         /\ \A p \in 1..Len(q) : r[p + 1] = q[p] /\ p + 1 \in 1..Len(r)
<1>1. Len(q) \in Nat /\ Len(<<b>>) = 1 /\ <<b>> \in Seq(Nat)
  OBVIOUS
<1>2. r \in Seq(Nat) /\ Len(r) = Len(q) + 1
  OBVIOUS
<1>3. \A p \in 1..Len(r) : r[p] = IF p <= 1 THEN <<b>>[p] ELSE q[p - 1]
  BY <1>1, <1>2
<1>4. r[1] = b
  BY <1>1, <1>2, <1>3
<1>5. \A p \in 2..Len(r) : r[p] = q[p - 1] /\ p - 1 \in 1..Len(q)
  BY <1>1, <1>2, <1>3
<1>6. ASSUME NEW p \in 1..Len(q)
      PROVE  r[p + 1] = q[p] /\ p + 1 \in 1..Len(r)
  <2>1. PICK n \in 2..Len(r) : n = p + 1
    BY <1>1, <1>2
  <2>2. r[n] = q[n - 1] /\ n - 1 = p
    BY <1>5, <2>1
  <2> QED BY <1>1, <1>2, <2>1, <2>2
<1> QED BY ONLY <1>1, <1>2, <1>4, <1>5, <1>6

\* A slab that has room again goes back to the head of its chain.
LEMMA ChainPushed ==
  ASSUME NEW S, NEW C, NEW H, NEW I, Chained(S, C, H, I), I \subseteq Nat,
         NEW b \in I, S[b].cls \in Classes, S[b].avail \in BOOLEAN,
         NEW T, T[b].cls = S[b].cls, T[b].avail = TRUE,
         \A x \in I \ {b} : T[x] = S[x],
         NEW D, D = [C EXCEPT ![S[b].cls] = IF S[b].avail THEN @ ELSE <<b>> \o @]
  PROVE  Chained(T, D, H, I)
<1>1. PICK c \in Classes : c = S[b].cls
  OBVIOUS
<1>2. PICK q \in Seq(Nat) : q = C[c]
  BY DEF Chained
<1>3. /\ \A p \in 1..Len(q) : q[p] \in I /\ S[q[p]].cls = c /\ S[q[p]].avail
      /\ \A p, r \in 1..Len(q) : q[p] = q[r] => p = r
  BY <1>2 DEF Chained, ChainOf
<1>4. PICK r : r = IF S[b].avail THEN q ELSE <<b>> \o q
  OBVIOUS
<1>5. D = [C EXCEPT ![c] = r]
  BY <1>1, <1>2, <1>4
<1>6. C \in [Classes -> Seq(Nat)] /\ H \in [Classes -> Nat]
  BY DEF Chained
<1>7. /\ r \in Seq(Nat)
      /\ \A p \in 1..Len(r) : r[p] \in I /\ T[r[p]].cls = c /\ T[r[p]].avail
      /\ \A p, n \in 1..Len(r) : r[p] = r[n] => p = n
      /\ \A p \in 1..Len(q) : \E n \in 1..Len(r) : r[n] = q[p]
      /\ \E n \in 1..Len(r) : r[n] = b
  <2>1. CASE S[b].avail
    <3>1. r = q
      BY <1>4, <2>1
    <3>2. \E n \in 1..Len(q) : q[n] = b
      BY <1>1, <1>2, <2>1 DEF Chained, OnChain
    <3>3. \A p \in 1..Len(q) : T[q[p]].cls = c /\ T[q[p]].avail
      BY <1>1, <1>3
    <3> QED BY ONLY <1>3, <3>1, <3>2, <3>3, q \in Seq(Nat)
  <2>2. CASE ~S[b].avail
    <3>1. r = <<b>> \o q
      BY <1>4, <2>2
    <3>2. /\ r \in Seq(Nat) /\ Len(r) = Len(q) + 1 /\ r[1] = b
          /\ \A p \in 2..Len(r) : r[p] = q[p - 1] /\ p - 1 \in 1..Len(q)
          /\ \A p \in 1..Len(q) : r[p + 1] = q[p] /\ p + 1 \in 1..Len(r)
          /\ Len(q) \in Nat
      <4>1. b \in Nat
        OBVIOUS
      <4> QED BY ONLY <3>1, <4>1, q \in Seq(Nat), InFront
    <3>3. \A p \in 1..Len(q) : q[p] # b
      BY <1>3, <2>2
    <3>4. \A p \in 1..Len(r) : p = 1 \/ p \in 2..Len(r)
      BY <3>2
    <3>5. ASSUME NEW p \in 1..Len(r)
          PROVE  r[p] \in I /\ T[r[p]].cls = c /\ T[r[p]].avail
      <4>1. CASE p = 1
        BY <1>1, <3>2, <4>1
      <4>2. CASE p \in 2..Len(r)
        <5>1. PICK n \in 1..Len(q) : n = p - 1 /\ r[p] = q[n]
          BY <3>2, <4>2
        <5> QED BY <1>3, <3>3, <5>1
      <4> QED BY <3>4, <4>1, <4>2
    <3>6. ASSUME NEW p \in 1..Len(r), NEW n \in 1..Len(r), r[p] = r[n]
          PROVE  p = n
      <4>1. CASE p \in 2..Len(r) /\ n \in 2..Len(r)
        <5>1. q[p - 1] = q[n - 1] /\ p - 1 \in 1..Len(q) /\ n - 1 \in 1..Len(q)
          BY <3>2, <3>6, <4>1
        <5>2. p - 1 = n - 1
          BY ONLY <1>3, <5>1
        <5> QED BY <5>2
      <4>2. CASE p = 1 \/ n = 1
        <5>1. \A x \in 2..Len(r) : r[x] # r[1]
          BY ONLY <3>2, <3>3
        <5>2. p = 1 => n \notin 2..Len(r)
          BY <3>6, <5>1
        <5>3. n = 1 => p \notin 2..Len(r)
          BY <3>6, <5>1
        <5> QED BY <3>4, <4>2, <5>2, <5>3
      <4> QED BY <3>4, <4>1, <4>2
    <3>7. 1 \in 1..Len(r)
      BY <3>2
    <3>8. \E n \in 1..Len(r) : r[n] = b
      BY ONLY <3>2, <3>7
    <3>9. ASSUME NEW p \in 1..Len(q)
          PROVE  \E n \in 1..Len(r) : r[n] = q[p]
      <4>1. r[p + 1] = q[p] /\ p + 1 \in 1..Len(r)
        BY ONLY <3>2, p \in 1..Len(q)
      <4> QED BY ONLY <4>1
    <3>10. r \in Seq(Nat)
      BY ONLY <3>2
    <3> QED BY ONLY <3>5, <3>6, <3>8, <3>9, <3>10
  <2> QED BY <2>1, <2>2
<1>8. D \in [Classes -> Seq(Nat)] /\ D[c] = r /\ \A d \in Classes : d # c => D[d] = C[d]
  <2>1. PICK Q : Q = Seq(Nat)
    OBVIOUS
  <2>2. C \in [Classes -> Q] /\ r \in Q
    BY ONLY <1>6, <1>7, <2>1
  <2>3. D \in [Classes -> Q] /\ D[c] = r /\ \A d \in Classes : d # c => D[d] = C[d]
    BY ONLY <1>5, <2>2, c \in Classes
  <2> QED BY ONLY <2>1, <2>3
<1>9. ASSUME NEW d \in Classes
      PROVE  ChainOf(D[d], d, T, I)
  <2>1. CASE d = c
    BY ONLY <1>7, <1>8, <2>1 DEF ChainOf
  <2>2. CASE d # c
    <3>1. ChainOf(C[d], d, S, I) /\ D[d] = C[d]
      BY <1>8, <2>2 DEF Chained
    <3>2. \A p \in 1..Len(C[d]) : C[d][p] # b
      BY <1>1, <2>2, <3>1 DEF ChainOf
    <3>3. PICK e : e = C[d]
      OBVIOUS
    <3>4. ChainOf(e, d, S, I) /\ \A p \in 1..Len(e) : e[p] # b
      BY <3>1, <3>2, <3>3
    <3>5. \A x \in I : x # b => T[x] = S[x]
      OBVIOUS
    <3>6. ChainOf(e, d, T, I)
      BY ONLY <3>4, <3>5 DEF ChainOf
    <3> QED BY <3>1, <3>3, <3>6
  <2> QED BY <2>1, <2>2
<1>10. ASSUME NEW x \in I
       PROVE  OnChain(x, T, D)
  <2>1. CASE x = b
    BY <1>1, <1>7, <1>8, <2>1 DEF OnChain
  <2>2. CASE x # b
    <3>1. T[x] = S[x] /\ OnChain(x, S, C)
      BY <2>2 DEF Chained
    <3>2. ASSUME S[x].avail
          PROVE  \E p \in 1..Len(D[S[x].cls]) : D[S[x].cls][p] = x
      <4>1. PICK p \in 1..Len(C[S[x].cls]) : C[S[x].cls][p] = x
        BY <3>1, <3>2 DEF OnChain
      <4>2. CASE S[x].cls = c
        <5>1. PICK k \in 1..Len(q) : q[k] = x
          BY <1>2, <4>1, <4>2
        <5>2. \E n \in 1..Len(r) : r[n] = x
          BY <1>7, <5>1
        <5> QED BY <1>8, <4>2, <5>2
      <4>3. CASE S[x].cls # c
        <5>1. D[S[x].cls] = C[S[x].cls]
          BY ONLY <1>5, <4>3
        <5> QED BY <4>1, <5>1
      <4> QED BY <4>2, <4>3
    <3> QED BY <3>1, <3>2 DEF OnChain
  <2> QED BY <2>1, <2>2
<1>11. \A d \in Classes : H[d] # 0 => H[d] \in I /\ T[H[d]].cls = d
  BY DEF Chained
<1> QED BY ONLY <1>6, <1>8, <1>9, <1>10, <1>11 DEF Chained

\* The full slabs at the first k places of chain q lose their place.
Cut(T, S, I, q, k) ==
  \A x \in I : /\ T[x].cls = S[x].cls
               /\ T[x].avail = IF \E p \in 1..k : q[p] = x THEN FALSE ELSE S[x].avail
               /\ ~Full(T[x]) => ~Full(S[x])

LeftAfter(r, q, k) == Len(r) = Len(q) - k /\ \A p \in 1..Len(r) : r[p] = q[p + k]

\* The full slabs in front of a chain leave it.
LEMMA ChainCut ==
  ASSUME NEW S, NEW C, NEW H, NEW I, Chained(S, C, H, I), NEW c \in Classes,
         NEW q \in Seq(Nat), q = C[c], NEW k \in 0..Len(q),
         \A p \in 1..k : Full(S[q[p]]), NEW T, Cut(T, S, I, q, k),
         NEW r \in Seq(Nat), LeftAfter(r, q, k),
         NEW D, D = [C EXCEPT ![c] = r]
  PROVE  Chained(T, D, H, I)
<1> USE DEF Cut, LeftAfter
<1>0. C \in [Classes -> Seq(Nat)] /\ H \in [Classes -> Nat]
  BY DEF Chained
<1>1. PICK Q : Q = Seq(Nat)
  OBVIOUS
<1>2. D \in [Classes -> Q] /\ D[c] = r /\ \A d \in Classes : d # c => D[d] = C[d]
  <2>1. C \in [Classes -> Q] /\ r \in Q
    BY <1>0, <1>1
  <2> QED BY ONLY <2>1, c \in Classes, D = [C EXCEPT ![c] = r]
<1>3. /\ \A p \in 1..Len(q) : q[p] \in I /\ S[q[p]].cls = c /\ S[q[p]].avail
      /\ \A p, n \in 1..Len(q) : q[p] = q[n] => p = n
      /\ Len(q) \in Nat
  <2>1. ChainOf(q, c, S, I)
    BY DEF Chained
  <2>2. Len(q) \in Nat
    BY ONLY q \in Seq(Nat)
  <2> QED BY ONLY <2>1, <2>2 DEF ChainOf
<1>4. /\ \A p \in 1..Len(r) : p + k \in 1..Len(q) /\ r[p] = q[p + k]
      /\ \A p \in 1..k : p \in 1..Len(q)
  <2>1. Len(q) \in Nat /\ k \in Nat /\ k <= Len(q)
    BY <1>3
  <2>2. \A p \in 1..(Len(q) - k) : p + k \in 1..Len(q)
    BY ONLY <2>1
  <2>3. \A p \in 1..k : p \in 1..Len(q)
    BY ONLY <2>1
  <2> QED BY <2>2, <2>3
<1>5. ChainOf(r, c, T, I)
  <2>1. ASSUME NEW p \in 1..Len(r)
        PROVE  r[p] \in I /\ T[r[p]].cls = c /\ T[r[p]].avail
    <3>1. PICK n \in 1..Len(q) : n = p + k /\ r[p] = q[n] /\ n > k
      BY <1>3, <1>4
    <3>2. ~ \E m \in 1..k : q[m] = q[n]
      BY <1>3, <1>4, <3>1
    <3>3. q[n] \in I /\ S[q[n]].cls = c /\ S[q[n]].avail
      BY ONLY <1>3, n \in 1..Len(q)
    <3>4. T[q[n]].cls = c /\ T[q[n]].avail
      BY <3>2, <3>3
    <3> QED BY ONLY <3>1, <3>3, <3>4
  <2>2. ASSUME NEW p \in 1..Len(r), NEW n \in 1..Len(r), r[p] = r[n]
        PROVE  p = n
    <3>1. p + k \in 1..Len(q) /\ n + k \in 1..Len(q) /\ q[p + k] = q[n + k]
      BY <1>4, <2>2
    <3>2. p + k = n + k
      BY ONLY <1>3, <3>1
    <3> QED BY <3>2
  <2> QED BY ONLY <2>1, <2>2, r \in Seq(Nat) DEF ChainOf
<1>6. ASSUME NEW d \in Classes
      PROVE  ChainOf(D[d], d, T, I)
  <2>1. CASE d = c
    BY <1>2, <1>5, <2>1
  <2>2. CASE d # c
    <3>1. PICK e : e = C[d]
      OBVIOUS
    <3>2. ChainOf(e, d, S, I)
      BY <3>1 DEF Chained
    <3>3. \A p \in 1..k : S[q[p]].cls = c
      BY <1>3, <1>4
    <3>4. ASSUME NEW p \in 1..Len(e)
          PROVE  e[p] \in I /\ T[e[p]].cls = d /\ T[e[p]].avail
      <4>1. e[p] \in I /\ S[e[p]].cls = d /\ S[e[p]].avail
        BY <3>2 DEF ChainOf
      <4>2. ~ \E m \in 1..k : q[m] = e[p]
        BY <2>2, <3>3, <4>1
      <4> QED BY <4>1, <4>2
    <3>5. ChainOf(e, d, T, I)
      BY ONLY <3>2, <3>4 DEF ChainOf
    <3> QED BY <1>2, <2>2, <3>1, <3>5
  <2> QED BY <2>1, <2>2
<1>7. ASSUME NEW x \in I
      PROVE  OnChain(x, T, D)
  <2>1. OnChain(x, S, C) /\ T[x].cls = S[x].cls
    BY DEF Chained
  <2>2. CASE \E p \in 1..k : q[p] = x
    <3>1. Full(S[x]) /\ ~T[x].avail
      BY <2>2
    <3> QED BY <3>1 DEF OnChain
  <2>3. CASE ~ \E p \in 1..k : q[p] = x
    <3>1. T[x].avail = S[x].avail
      BY <2>3
    <3>2. ASSUME S[x].avail
          PROVE  \E p \in 1..Len(D[S[x].cls]) : D[S[x].cls][p] = x
      <4>1. PICK p \in 1..Len(C[S[x].cls]) : C[S[x].cls][p] = x
        BY <2>1, <3>2 DEF OnChain
      <4>2. CASE S[x].cls = c
        <5>1. p \in 1..Len(q) /\ q[p] = x /\ p \notin 1..k
          BY <2>3, <4>1, <4>2
        <5>2. p - k \in 1..Len(r) /\ (p - k) + k = p
          <6>1. k \in Nat /\ Len(q) \in Nat /\ Len(r) = Len(q) - k /\ p \in Int
            BY <1>3, <1>4, <5>1
          <6> QED BY ONLY <5>1, <6>1
        <5>3. r[p - k] = x
          <6>1. PICK m \in 1..Len(r) : m = p - k /\ m + k = p
            BY ONLY <5>2
          <6>2. r[m] = q[m + k]
            BY ONLY <1>4, m \in 1..Len(r)
          <6> QED BY ONLY <5>1, <6>1, <6>2
        <5> QED BY <1>2, <4>2, <5>2, <5>3
      <4>3. CASE S[x].cls # c
        <5>1. D[S[x].cls] = C[S[x].cls]
          BY ONLY D = [C EXCEPT ![c] = r], <4>3
        <5> QED BY <4>1, <5>1
      <4> QED BY <4>2, <4>3
    <3>3. ~Full(T[x]) => S[x].avail
      BY <2>1 DEF OnChain
    <3> QED BY <2>1, <3>1, <3>2, <3>3 DEF OnChain
  <2> QED BY <2>2, <2>3
<1>8. \A d \in Classes : H[d] # 0 => H[d] \in I /\ T[H[d]].cls = d
  BY DEF Chained
<1> QED BY ONLY <1>0, <1>1, <1>2, <1>6, <1>7, <1>8 DEF Chained

\* A new slab begins an empty chain.
LEMMA ChainNew ==
  ASSUME NEW S, NEW C, NEW H, NEW I, Chained(S, C, H, I), NEW c \in Classes,
         Len(C[c]) = 0, NEW b \in Nat, b \notin I, NEW T, T[b].cls = c, T[b].avail = TRUE,
         \A x \in I : T[x] = S[x],
         NEW D, D = [C EXCEPT ![c] = <<b>>]
  PROVE  Chained(T, D, H, I \cup {b})
<1>0. C \in [Classes -> Seq(Nat)] /\ H \in [Classes -> Nat]
  BY DEF Chained
<1>1. PICK Q : Q = Seq(Nat)
  OBVIOUS
<1>2. PICK r : r = <<b>>
  OBVIOUS
<1>3. r \in Seq(Nat) /\ Len(r) = 1 /\ r[1] = b /\ 1..1 = {1}
  BY <1>2
<1>4. D \in [Classes -> Q] /\ D[c] = r /\ \A d \in Classes : d # c => D[d] = C[d]
  <2>1. C \in [Classes -> Q] /\ r \in Q
    BY <1>0, <1>1, <1>3
  <2> QED BY ONLY <1>2, <2>1, c \in Classes, D = [C EXCEPT ![c] = <<b>>]
<1>5. ChainOf(r, c, T, I \cup {b})
  BY ONLY <1>3, T[b].cls = c, T[b].avail = TRUE DEF ChainOf
<1>6. ASSUME NEW d \in Classes
      PROVE  ChainOf(D[d], d, T, I \cup {b})
  <2>1. CASE d = c
    BY <1>4, <1>5, <2>1
  <2>2. CASE d # c
    <3>1. PICK e : e = C[d]
      OBVIOUS
    <3>2. ChainOf(e, d, S, I)
      BY <3>1 DEF Chained
    <3>3. ChainOf(e, d, T, I \cup {b})
      BY ONLY <3>2, \A x \in I : T[x] = S[x] DEF ChainOf
    <3> QED BY <1>4, <2>2, <3>1, <3>3
  <2> QED BY <2>1, <2>2
<1>7. ASSUME NEW x \in I \cup {b}
      PROVE  OnChain(x, T, D)
  <2>1. CASE x = b
    BY <1>3, <1>4, <2>1 DEF OnChain
  <2>2. CASE x \in I
    <3>1. OnChain(x, S, C) /\ T[x] = S[x]
      BY <2>2 DEF Chained
    <3>2. ASSUME S[x].avail
          PROVE  \E p \in 1..Len(D[S[x].cls]) : D[S[x].cls][p] = x
      <4>1. PICK p \in 1..Len(C[S[x].cls]) : C[S[x].cls][p] = x
        BY <3>1, <3>2 DEF OnChain
      <4>2. S[x].cls # c
        BY <4>1
      <4>3. D[S[x].cls] = C[S[x].cls]
        BY ONLY D = [C EXCEPT ![c] = <<b>>], <4>2
      <4> QED BY <4>1, <4>3
    <3> QED BY <3>1, <3>2 DEF OnChain
  <2> QED BY <2>1, <2>2
<1>8. \A d \in Classes : H[d] # 0 => H[d] \in I \cup {b} /\ T[H[d]].cls = d
  BY DEF Chained
<1> QED BY ONLY <1>0, <1>1, <1>4, <1>6, <1>7, <1>8 DEF Chained

LEMMA ChainHot ==
  ASSUME NEW S, NEW C, NEW H, NEW I, Chained(S, C, H, I), NEW c \in Classes,
         NEW b \in I, b \in Nat, S[b].cls = c
  PROVE  Chained(S, C, [H EXCEPT ![c] = b], I)
BY DEF Chained

-----------------------------------------------------------------------------
(***************************************************************************)
(* An allocation.                                                          *)
(***************************************************************************)
\* What an allocation leaves of a chain.
LEMMA LeftOf ==
  ASSUME NEW q \in Seq(Nat), NEW k \in 0..Len(q)
  PROVE  /\ SubSeq(q, k + 1, Len(q)) \in Seq(Nat)
         /\ Len(SubSeq(q, k + 1, Len(q))) = Len(q) - k
         /\ \A p \in 1..(Len(q) - k) : SubSeq(q, k + 1, Len(q))[p] = q[p + k]
<1>1. Len(q) \in Nat /\ k \in Nat /\ k <= Len(q)
  OBVIOUS
<1>2. PICK r : r = SubSeq(q, k + 1, Len(q))
  OBVIOUS
<1>3. r \in Seq(Nat) /\ Len(r) = Len(q) - k
  BY <1>1, <1>2
<1>4. ASSUME NEW p \in 1..(Len(q) - k)
      PROVE  r[p] = q[p + k]
  <2>1. r[p] = q[(k + 1) + p - 1]
    BY <1>1, <1>2, <1>3
  <2> QED BY <1>1, <2>1
<1> QED BY <1>2, <1>3, <1>4

\* The slabs an allocation pops are full, and what is left begins with room.
LEMMA PoppedIs ==
  ASSUME NEW c \in Classes, NEW q \in Seq(Nat), q = chain[c], ~HotUsable(c)
  PROVE  /\ Popped(c) \in 0..Len(q)
         /\ \A p \in 1..Popped(c) : Full(slab[q[p]])
         /\ Popped(c) < Len(q) => ~Full(slab[q[Popped(c) + 1]])
<1>0. Len(q) \in Nat
  OBVIOUS
<1>1. PICK R : R = Room(c)
  OBVIOUS
<1>2. R = {p \in 1..Len(q) : ~Full(slab[q[p]])}
  BY <1>1 DEF Room
<1>3. CASE R = {}
  <2>1. Popped(c) = Len(q)
    BY <1>1, <1>3 DEF Popped
  <2> QED BY <1>0, <1>2, <1>3, <2>1
<1>4. CASE R # {}
  <2>1. R \subseteq Nat
    BY <1>0, <1>2
  <2>2. PICK m : m = Min(R)
    OBVIOUS
  <2>3. m \in R /\ \A x \in R : m <= x
    <3>1. \E x \in R : \A y \in R : x <= y
      BY ONLY <1>4, <2>1, NatMin
    <3> QED BY ONLY <2>2, <3>1 DEF Min
  <2>4. m \in 1..Len(q) /\ ~Full(slab[q[m]])
    BY ONLY <1>2, <2>3
  <2>5. PICK k \in Nat : k = m - 1 /\ k + 1 = m
    BY <1>0, <2>4
  <2>6. \A p \in 1..k : p \in 1..Len(q) /\ ~(m <= p)
    BY <1>0, <2>4, <2>5
  <2>7. \A p \in 1..k : Full(slab[q[p]])
    BY ONLY <1>2, <2>3, <2>6
  <2>8. Popped(c) = k
    BY <1>1, <1>4, <2>2, <2>5 DEF Popped
  <2>9. k \in 0..Len(q)
    BY <1>0, <2>4, <2>5
  <2> QED BY <2>4, <2>5, <2>7, <2>8, <2>9
<1> QED BY <1>3, <1>4

\* The parts of an allocation.
Left(c) == SubSeq(chain[c], Popped(c) + 1, Len(chain[c]))
Fresh(c) == ~HotUsable(c) /\ Left(c) = <<>>
Source(c) == IF HotUsable(c) THEN hot[c] ELSE IF Fresh(c) THEN Len(slab) + 1 ELSE Head(Left(c))
Out(c) == {chain[c][p] : p \in 1..Popped(c)}
Base(c) == [x \in Ids |-> IF x \in Out(c) THEN [slab[x] EXCEPT !.avail = FALSE] ELSE slab[x]]
Sources(c) == IF Fresh(c) THEN Append(Base(c), NewSlab(c)) ELSE Base(c)
SlotTaken(c) == TakenSlot(Sources(c)[Source(c)])

LEMMA AllocParts ==
  ASSUME NEW c, NEW t, Alloc(c, t)
  PROVE  /\ Fresh(c) => phase # "sweep"
         /\ slab' = [Sources(c) EXCEPT ![Source(c)] =
                       Taken(@, SlotTaken(c), t, BornBlack(Source(c), SlotTaken(c)))]
         /\ chain' = [chain EXCEPT ![c] = IF Fresh(c) THEN <<Source(c)>> ELSE Left(c)]
         /\ hot' = [hot EXCEPT ![c] = Source(c)]
BY DEF Alloc, Left, Fresh, Source, Out, Base, Sources, SlotTaken

\* What an allocation does to the slabs: b is the slab it takes a slot of, s
\* what that slab was, and some full slabs lose their place on the chain.
AllocOf(c, t, b, s) ==
  /\ SlabSeq' /\ Ids' = Ids \cup {b}
  /\ \/ b \in Ids /\ s = slab[b]
     \/ b \notin Ids /\ s = NewSlab(c) /\ phase # "sweep"
  /\ SlabHolds(s) /\ ~Full(s) /\ s.cls = c /\ s.avail
  /\ slab'[b] = Taken(s, TakenSlot(s), t, BornBlack(b, TakenSlot(s)))
  /\ \A x \in Ids \ {b} : slab'[x] = slab[x] \/ slab'[x] = [slab[x] EXCEPT !.avail = FALSE]
  /\ ChainInv'

LEMMA AllocShape ==
  ASSUME SlabsInv, NEW c \in Classes, NEW t \in Descriptors, Alloc(c, t)
  PROVE  \E b \in Nat \ {0} : \E s : AllocOf(c, t, b, s)
<1>1. PICK n \in Nat : n = Len(slab)
  BY DEF SlabsInv, SlabSeq
<1>2. Ids = 1..n
  BY <1>1 DEF Ids
<1>3. /\ slab = [x \in 1..n |-> slab[x]]
      /\ \A x \in 1..n : SlabHolds(slab[x])
      /\ Chained(slab, chain, hot, 1..n)
  BY <1>2 DEF SlabsInv, SlabSeq, ChainInv
<1>4. PICK q \in Seq(Nat) : q = chain[c]
  BY <1>3 DEF Chained
<1>5. Len(q) \in Nat /\ \A p \in 1..Len(q) : q[p] \in 1..n /\ slab[q[p]].cls = c /\ slab[q[p]].avail
  BY <1>3, <1>4 DEF Chained, ChainOf
<1>6. \A p, r \in 1..Len(q) : q[p] = q[r] => p = r
  BY <1>3, <1>4 DEF Chained, ChainOf
<1>7. PICK k \in 0..Len(q) :
        /\ k = Popped(c)
        /\ HotUsable(c) => k = 0
        /\ \A p \in 1..k : Full(slab[q[p]])
        /\ ~HotUsable(c) /\ k < Len(q) => ~Full(slab[q[k + 1]])
  <2>1. CASE HotUsable(c)
    <3>1. Popped(c) = 0 /\ 0 \in 0..Len(q) /\ 1..0 = {}
      BY <1>5, <2>1 DEF Popped
    <3> QED BY <2>1, <3>1
  <2>2. CASE ~HotUsable(c)
    BY <1>4, <2>2, PoppedIs
  <2> QED BY <2>1, <2>2
<1>8. PICK left : left = Left(c)
  OBVIOUS
<1>9. LeftAfter(left, q, k) /\ left \in Seq(Nat)
  <2>1. left = SubSeq(q, k + 1, Len(q))
    BY <1>4, <1>7, <1>8 DEF Left
  <2> QED BY <2>1, LeftOf DEF LeftAfter
<1>10. left = <<>> <=> k = Len(q)
  BY <1>5, <1>9 DEF LeftAfter
<1>11. PICK fresh \in BOOLEAN : fresh = Fresh(c)
  BY DEF Fresh
<1>12. PICK b : b = Source(c)
  OBVIOUS
<1>13. PICK out : out = Out(c)
  OBVIOUS
<1>14. PICK base : base = Base(c)
  OBVIOUS
<1>15. /\ base = [x \in 1..n |-> base[x]]
       /\ \A x \in 1..n : base[x] = IF x \in out THEN [slab[x] EXCEPT !.avail = FALSE] ELSE slab[x]
       /\ out = {q[p] : p \in 1..k}
  BY <1>2, <1>4, <1>7, <1>13, <1>14 DEF Base, Out
<1>16. PICK all : all = Sources(c)
  OBVIOUS
<1>17. PICK i : i = TakenSlot(all[b])
  OBVIOUS
<1>18. PICK u : u = Taken(all[b], i, t, BornBlack(b, i))
  OBVIOUS
<1>19. /\ fresh => phase # "sweep"
       /\ slab' = [all EXCEPT ![b] = u]
       /\ chain' = [chain EXCEPT ![c] = IF fresh THEN <<b>> ELSE left]
       /\ hot' = [hot EXCEPT ![c] = b]
  <2>1. i = SlotTaken(c)
    BY <1>12, <1>16, <1>17 DEF SlotTaken
  <2> QED BY <1>8, <1>11, <1>12, <1>16, <1>18, <2>1, AllocParts
<1>22. /\ b = IF HotUsable(c) THEN hot[c] ELSE IF fresh THEN n + 1 ELSE Head(left)
       /\ fresh = (~HotUsable(c) /\ left = <<>>)
       /\ all = IF fresh THEN Append(base, NewSlab(c)) ELSE base
  BY <1>1, <1>8, <1>11, <1>12, <1>14, <1>16 DEF Source, Fresh, Sources
\* The slab the slot is taken of.
<1>20. CASE ~fresh
  <2>1. b \in 1..n /\ b \notin out /\ ~Full(slab[b]) /\ slab[b].cls = c /\ slab[b].avail
    <3>1. CASE HotUsable(c)
      <4>1. b = hot[c] /\ hot[c] # 0 /\ ~Full(slab[b])
        BY <1>22, <3>1 DEF HotUsable
      <4>2. b \in 1..n /\ slab[b].cls = c
        BY <1>3, <4>1 DEF Chained
      <4>3. slab[b].avail
        BY <1>3, <4>1, <4>2 DEF Chained, OnChain
      <4>4. out = {}
        BY <1>7, <1>15, <3>1
      <4> QED BY <4>1, <4>2, <4>3, <4>4
    <3>2. CASE ~HotUsable(c)
      <4>1. left # <<>> /\ b = Head(left)
        BY <1>20, <1>22, <3>2
      <4>2. k < Len(q) /\ Len(left) >= 1 /\ Len(left) \in Nat
        BY <1>5, <1>9, <1>10, <4>1 DEF LeftAfter
      <4>3. Head(left) = left[1]
        BY <1>9, <4>1
      <4>4. b = q[k + 1] /\ k + 1 \in 1..Len(q)
        <5>1. 1 \in 1..Len(left) /\ k + 1 \in 1..Len(q) /\ 1 + k = k + 1
          BY <1>5, <4>2
        <5> QED BY <1>9, <4>1, <4>3, <5>1 DEF LeftAfter
      <4>5. b \notin out
        <5>1. \A p \in 1..k : p \in 1..Len(q) /\ p # k + 1
          BY <1>5
        <5> QED BY <1>6, <1>15, <4>4, <5>1
      <4> QED BY <1>5, <1>7, <3>2, <4>2, <4>4, <4>5
    <3> QED BY <3>1, <3>2
  <2>2. all = base /\ all[b] = slab[b]
    BY <1>15, <1>20, <1>22, <2>1
  <2>3. PICK s : s = slab[b]
    OBVIOUS
  <2>4. SlabHolds(s)
    BY <1>3, <2>1, <2>3
  <2>5. u = Taken(s, TakenSlot(s), t, BornBlack(b, TakenSlot(s)))
    BY ONLY <1>17, <1>18, <2>2, <2>3
  <2>7. u.cls = s.cls /\ u.avail = s.avail
    BY ONLY <2>4, <2>5, t \in Descriptors, TakenKeeps DEF SlabHolds
  <2>8. /\ slab' = [x \in 1..n |-> slab'[x]]
        /\ slab'[b] = u /\ \A x \in 1..n : x # b => slab'[x] = base[x]
    BY ONLY <1>15, <1>19, <2>1, <2>2
  <2>9. Len(slab') = n
    BY ONLY <2>8, n \in Nat, FunctionLength
  <2>10. Ids' = 1..n
    BY <2>9 DEF Ids
  <2>11. SlabSeq'
    BY <2>8, <2>9, <2>10 DEF SlabSeq
  <2>12. ASSUME NEW x \in 1..n
         PROVE  /\ slab'[x].cls = slab[x].cls
                /\ slab'[x].avail = IF \E p \in 1..k : q[p] = x THEN FALSE ELSE slab[x].avail
                /\ ~Full(slab'[x]) => ~Full(slab[x])
    <3>1. CASE x = b
      <4>1. ~ \E p \in 1..k : q[p] = b
        BY <1>15, <2>1
      <4> QED BY <2>1, <2>3, <2>7, <2>8, <3>1, <4>1
    <3>2. CASE x # b /\ x \in out
      <4>1. slab'[x] = [slab[x] EXCEPT !.avail = FALSE] /\ \E p \in 1..k : q[p] = x
        BY <1>15, <2>8, <3>2
      <4>2. SlabHolds(slab[x])
        BY <1>3
      <4> QED BY <4>1, <4>2, AvailHolds
    <3>3. CASE x # b /\ x \notin out
      BY <1>15, <2>8, <3>3
    <3> QED BY <3>1, <3>2, <3>3
  <2>13. chain' = [chain EXCEPT ![c] = left]
    BY ONLY <1>19, <1>20
  <2>14. Chained(slab', chain', hot, 1..n)
    <3>1. Cut(slab', slab, 1..n, q, k)
      BY ONLY <2>12 DEF Cut
    <3> QED BY ONLY <1>3, <1>4, <1>7, <1>9, <2>13, <3>1, c \in Classes, q \in Seq(Nat), k \in 0..Len(q), ChainCut
  <2>15. slab'[b].cls = c
    BY <2>1, <2>3, <2>7, <2>8
  <2>16. Chained(slab', chain', hot', 1..n)
    <3>1. b \in 1..n /\ b \in Nat
      BY <2>1
    <3>2. Chained(slab', chain', [hot EXCEPT ![c] = b], 1..n)
      BY ONLY <2>14, <2>15, <3>1, c \in Classes, ChainHot
    <3> QED BY ONLY <1>19, <3>2
  <2>17. ChainInv'
    BY <2>10, <2>16 DEF ChainInv
  <2>18. AllocOf(c, t, b, s)
    <3>1. \A x \in Ids \ {b} : slab'[x] = slab[x] \/ slab'[x] = [slab[x] EXCEPT !.avail = FALSE]
      BY <1>2, <1>15, <2>8
    <3>2. Ids' = Ids \cup {b} /\ b \in Ids
      BY <1>2, <2>1, <2>10
    <3> QED BY <2>1, <2>3, <2>4, <2>5, <2>8, <2>11, <2>17, <3>1, <3>2 DEF AllocOf
  <2>19. b \in Nat \ {0}
    BY <2>1
  <2> QED BY <2>18, <2>19
<1>21. CASE fresh
  <2>1. ~HotUsable(c) /\ left = <<>> /\ b = n + 1 /\ k = Len(q)
    BY <1>10, <1>21, <1>22
  <2>2. all = Append(base, NewSlab(c))
    BY <1>21, <1>22
  <2>3. all = [x \in 1..(n + 1) |-> IF x = n + 1 THEN NewSlab(c) ELSE base[x]]
    BY ONLY <1>15, <2>2, n \in Nat, FunctionGrown
  <2>4. PICK s : s = NewSlab(c)
    OBVIOUS
  <2>5. all[b] = s /\ b \in 1..(n + 1) /\ \A x \in 1..n : all[x] = base[x] /\ x # b
    BY ONLY <2>1, <2>3, <2>4, n \in Nat
  <2>6. SlabHolds(s) /\ ~Full(s) /\ s.cls = c /\ s.avail = TRUE
    BY <2>4, NewSlabHolds
  <2>7. u = Taken(s, TakenSlot(s), t, BornBlack(b, TakenSlot(s)))
    BY ONLY <1>17, <1>18, <2>5
  <2>9. u.cls = s.cls /\ u.avail = s.avail
    BY ONLY <2>6, <2>7, t \in Descriptors, TakenKeeps DEF SlabHolds
  <2>10. /\ slab' = [x \in 1..(n + 1) |-> slab'[x]]
         /\ slab'[b] = u /\ \A x \in 1..n : slab'[x] = base[x]
    <3>1. slab' = [all EXCEPT ![b] = u]
      BY <1>19
    <3>2. DOMAIN all = 1..(n + 1)
      BY ONLY <2>3
    <3>3. slab' = [x \in 1..(n + 1) |-> slab'[x]]
      BY ONLY <3>1, <3>2
    <3>4. \A x \in 1..n : x \in 1..(n + 1)
      BY n \in Nat
    <3>5. slab'[b] = u
      BY ONLY <2>5, <3>1, <3>2
    <3>6. \A x \in 1..n : slab'[x] = all[x]
      BY ONLY <2>5, <3>1, <3>2, <3>4
    <3> QED BY ONLY <2>5, <3>3, <3>5, <3>6
  <2>11. n + 1 \in Nat
    OBVIOUS
  <2>12. Len(slab') = n + 1
    BY ONLY <2>10, <2>11, FunctionLength
  <2>13. Ids' = 1..(n + 1) /\ 1..(n + 1) = 1..n \cup {b} /\ b \notin 1..n
    BY <2>1, <2>12 DEF Ids
  <2>14. SlabSeq'
    BY <2>10, <2>11, <2>12, <2>13 DEF SlabSeq
  <2>15. PICK e : e = <<>>
    OBVIOUS
  <2>16. e \in Seq(Nat) /\ LeftAfter(e, q, k)
    BY <1>9, <2>1, <2>15 DEF LeftAfter
  <2>17. PICK C : C = [chain EXCEPT ![c] = e]
    OBVIOUS
  <2>18. ASSUME NEW x \in 1..n
         PROVE  /\ base[x].cls = slab[x].cls
                /\ base[x].avail = IF \E p \in 1..k : q[p] = x THEN FALSE ELSE slab[x].avail
                /\ ~Full(base[x]) => ~Full(slab[x])
    <3>1. CASE x \in out
      <4>1. base[x] = [slab[x] EXCEPT !.avail = FALSE] /\ \E p \in 1..k : q[p] = x
        BY <1>15, <3>1
      <4>2. SlabHolds(slab[x])
        BY <1>3
      <4> QED BY <4>1, <4>2, AvailHolds
    <3>2. CASE x \notin out
      BY <1>15, <3>2
    <3> QED BY <3>1, <3>2
  <2>19. Chained(base, C, hot, 1..n)
    <3>1. Cut(base, slab, 1..n, q, k)
      BY ONLY <2>18 DEF Cut
    <3> QED BY ONLY <1>3, <1>4, <1>7, <2>16, <2>17, <3>1, c \in Classes, q \in Seq(Nat), k \in 0..Len(q), ChainCut
  <2>20. C[c] = e /\ chain' = [C EXCEPT ![c] = <<b>>]
    <3>1. DOMAIN chain = Classes
      BY <1>3 DEF Chained
    <3> QED BY ONLY <1>19, <1>21, <2>17, <3>1, c \in Classes
  <2>21. Len(C[c]) = 0
    BY <2>15, <2>20
  <2>22. slab'[b].cls = c /\ slab'[b].avail = TRUE
    BY <2>6, <2>9, <2>10
  <2>23. b \in Nat \ {0}
    BY <2>1
  <2>24. Chained(slab', chain', hot, 1..n \cup {b})
    BY ONLY <2>10, <2>13, <2>19, <2>20, <2>21, <2>22, <2>23, c \in Classes, ChainNew
  <2>25. Chained(slab', chain', hot', 1..n \cup {b})
    <3>1. b \in 1..n \cup {b} /\ b \in Nat
      BY <2>23
    <3>2. Chained(slab', chain', [hot EXCEPT ![c] = b], 1..n \cup {b})
      BY ONLY <2>22, <2>24, <3>1, c \in Classes, ChainHot
    <3> QED BY ONLY <1>19, <3>2
  <2>26. ChainInv'
    BY <2>13, <2>25 DEF ChainInv
  <2>27. AllocOf(c, t, b, s)
    <3>1. \A x \in Ids \ {b} : slab'[x] = slab[x] \/ slab'[x] = [slab[x] EXCEPT !.avail = FALSE]
      BY <1>2, <1>15, <2>10
    <3>2. Ids' = Ids \cup {b} /\ b \notin Ids
      BY <1>2, <2>13
    <3>3. phase # "sweep"
      BY <1>19, <1>21
    <3> QED BY <2>4, <2>6, <2>7, <2>10, <2>14, <2>26, <3>1, <3>2, <3>3 DEF AllocOf
  <2> QED BY <2>23, <2>27
<1> QED BY <1>20, <1>21

-----------------------------------------------------------------------------
(***************************************************************************)
(* The steps.                                                              *)
(***************************************************************************)
\* One slab changes.
LEMMA OneSlab ==
  ASSUME SlabSeq, NEW b \in Ids, NEW v, slab' = [slab EXCEPT ![b] = v]
  PROVE  SlabSeq' /\ Ids' = Ids /\ slab'[b] = v /\ \A x \in Ids : x # b => slab'[x] = slab[x]
<1>1. PICK n \in Nat : n = Len(slab) /\ Ids = 1..n
  BY DEF SlabSeq, Ids
<1>2. slab = [x \in 1..n |-> slab[x]]
  BY <1>1 DEF SlabSeq
<1>3. slab' = [x \in 1..n |-> slab'[x]] /\ slab'[b] = v /\ \A x \in 1..n : x # b => slab'[x] = slab[x]
  <2>1. b \in 1..n
    BY <1>1
  <2> QED BY ONLY <1>2, <2>1, slab' = [slab EXCEPT ![b] = v]
<1>4. Len(slab') = n
  BY ONLY <1>3, n \in Nat, FunctionLength
<1>5. Ids' = 1..n
  BY <1>4 DEF Ids
<1> QED BY ONLY <1>1, <1>3, <1>4, <1>5, n \in Nat DEF SlabSeq

LEMMA SlabsInit == Init => SlabsInv
<1> SUFFICES ASSUME Init PROVE SlabsInv
  OBVIOUS
<1>1. /\ slab = <<>> /\ chain = [c \in Classes |-> <<>>] /\ hot = [c \in Classes |-> 0]
      /\ phase = "idle"
  BY DEF Init
<1>2. Len(slab) = 0 /\ Ids = {} /\ slab = [b \in {} |-> slab[b]]
  BY <1>1 DEF Ids
<1>3. SlabSeq
  BY <1>2 DEF SlabSeq
<1>4. Chained(slab, chain, hot, {})
  <2>1. PICK e : e = <<>>
    OBVIOUS
  <2>2. e \in Seq(Nat) /\ Len(e) = 0 /\ 1..0 = {}
    BY <2>1
  <2>3. chain = [c \in Classes |-> e]
    BY <1>1, <2>1
  <2>4. PICK Q : Q = Seq(Nat)
    OBVIOUS
  <2>5. chain \in [Classes -> Q] /\ \A c \in Classes : chain[c] = e
    BY ONLY <2>2, <2>3, <2>4
  <2>6. \A c \in Classes : ChainOf(chain[c], c, slab, {})
    BY ONLY <2>2, <2>5 DEF ChainOf
  <2>7. hot \in [Classes -> Nat] /\ \A c \in Classes : hot[c] = 0
    BY <1>1
  <2> QED BY ONLY <2>4, <2>5, <2>6, <2>7 DEF Chained
<1>5. ChainInv /\ SweepInv
  BY <1>1, <1>2, <1>4 DEF ChainInv, SweepInv
<1> QED BY <1>2, <1>3, <1>5 DEF SlabsInv

\* A slab without slots in use is not on the chains of a new region.
LEMMA RegionFreeStep ==
  ASSUME RegionFree
  PROVE  SlabsInv'
<1>1. /\ slab' = <<>> /\ chain' = [c \in Classes |-> <<>>] /\ hot' = [c \in Classes |-> 0]
      /\ phase' = "idle"
  BY DEF RegionFree
<1>2. Len(slab') = 0 /\ Ids' = {} /\ slab' = [b \in {} |-> slab'[b]]
  BY <1>1 DEF Ids
<1>3. SlabSeq'
  BY <1>2 DEF SlabSeq
<1>4. Chained(slab', chain', hot', {})
  <2>1. PICK e : e = <<>>
    OBVIOUS
  <2>2. e \in Seq(Nat) /\ Len(e) = 0 /\ 1..0 = {}
    BY <2>1
  <2>3. chain' = [c \in Classes |-> e]
    BY <1>1, <2>1
  <2>4. PICK Q : Q = Seq(Nat)
    OBVIOUS
  <2>5. chain' \in [Classes -> Q] /\ \A c \in Classes : chain'[c] = e
    BY ONLY <2>2, <2>3, <2>4
  <2>6. \A c \in Classes : ChainOf(chain'[c], c, slab', {})
    BY ONLY <2>2, <2>5 DEF ChainOf
  <2>7. hot' \in [Classes -> Nat] /\ \A c \in Classes : hot'[c] = 0
    BY <1>1
  <2> QED BY ONLY <2>4, <2>5, <2>6, <2>7 DEF Chained
<1>5. ChainInv' /\ SweepInv'
  BY <1>1, <1>2, <1>4 DEF ChainInv, SweepInv
<1> QED BY <1>2, <1>3, <1>5 DEF SlabsInv

\* A mark is set or cleared.
LEMMA MarkStep ==
  ASSUME SlabsInv, NEW b \in Ids, NEW M \in SUBSET Slots,
         slab' = [slab EXCEPT ![b] = [slab[b] EXCEPT !.mark = M]], UNCHANGED <<chain, hot>>
  PROVE  /\ SlabSeq' /\ Ids' = Ids /\ ChainInv'
         /\ \A x \in Ids : /\ SlabHolds(slab'[x]) /\ slab'[x].occ = slab[x].occ
                           /\ slab'[x].cls = slab[x].cls
                           /\ slab'[x].mark = IF x = b THEN M ELSE slab[x].mark
<1>1. SlabSeq /\ ChainInv /\ \A x \in Ids : SlabHolds(slab[x])
  BY DEF SlabsInv
<1>2. PICK v : v = [slab[b] EXCEPT !.mark = M]
  OBVIOUS
<1>3. SlabSeq' /\ Ids' = Ids /\ slab'[b] = v /\ \A x \in Ids : x # b => slab'[x] = slab[x]
  BY <1>1, <1>2, OneSlab
<1>4. /\ SlabHolds(v) /\ v.cls = slab[b].cls /\ v.avail = slab[b].avail /\ v.occ = slab[b].occ
      /\ v.mark = M /\ (Full(v) <=> Full(slab[b]))
  BY <1>1, <1>2, MarkHolds
<1>5. \A x \in Ids : /\ slab'[x].cls = slab[x].cls /\ slab'[x].avail = slab[x].avail
                     /\ (Full(slab'[x]) <=> Full(slab[x]))
  BY <1>3, <1>4
<1>6. Chained(slab', chain, hot, Ids)
  BY ONLY <1>1, <1>5, ChainKept DEF ChainInv
<1>7. ChainInv'
  BY <1>3, <1>6 DEF ChainInv
<1> QED BY <1>1, <1>3, <1>4, <1>7

\* Slots are freed, and marks cleared with them.
LEMMA FreeStep ==
  ASSUME SlabsInv, NEW b \in Ids, NEW dead, dead \subseteq slab[b].occ, NEW M \in SUBSET Slots,
         NEW v, v = [Freed(slab[b], dead) EXCEPT !.mark = M] \/ v = Freed(slab[b], dead),
         slab' = [slab EXCEPT ![b] = v], chain' = Pushed(b), UNCHANGED hot
  PROVE  /\ SlabSeq' /\ Ids' = Ids /\ ChainInv'
         /\ \A x \in Ids : /\ SlabHolds(slab'[x]) /\ slab'[x].cls = slab[x].cls
                           /\ slab'[x].occ = IF x = b THEN slab[b].occ \ dead ELSE slab[x].occ
<1>1. SlabSeq /\ ChainInv /\ \A x \in Ids : SlabHolds(slab[x])
  BY DEF SlabsInv
<1>2. PICK w : w = Freed(slab[b], dead)
  OBVIOUS
<1>3. SlabHolds(w) /\ w.cls = slab[b].cls /\ w.avail = TRUE /\ w.occ = slab[b].occ \ dead
  BY <1>1, <1>2, FreedHolds
<1>4. SlabHolds(v) /\ v.cls = slab[b].cls /\ v.avail = TRUE /\ v.occ = slab[b].occ \ dead
  <2>1. v = w \/ v = [w EXCEPT !.mark = M]
    BY <1>2
  <2>2. /\ SlabHolds([w EXCEPT !.mark = M])
        /\ [w EXCEPT !.mark = M].cls = w.cls /\ [w EXCEPT !.mark = M].avail = w.avail
        /\ [w EXCEPT !.mark = M].occ = w.occ
    BY ONLY <1>3, MarkHolds, M \in SUBSET Slots
  <2>3. CASE v = w
    BY ONLY <1>3, <2>3
  <2>4. CASE v = [w EXCEPT !.mark = M]
    BY ONLY <1>3, <2>2, <2>4
  <2> QED BY ONLY <2>1, <2>3, <2>4
<1>5. SlabSeq' /\ Ids' = Ids /\ slab'[b] = v /\ \A x \in Ids : x # b => slab'[x] = slab[x]
  BY ONLY <1>1, b \in Ids, slab' = [slab EXCEPT ![b] = v], OneSlab
<1>6. Chained(slab', chain', hot, Ids)
  <2>1. slab[b].cls \in Classes /\ slab[b].avail \in BOOLEAN
    BY <1>1 DEF SlabHolds, IsSlab
  <2>2. chain' = [chain EXCEPT ![slab[b].cls] = IF slab[b].avail THEN @ ELSE <<b>> \o @]
    BY DEF Pushed
  <2>3. slab'[b].cls = slab[b].cls /\ slab'[b].avail = TRUE /\ \A x \in Ids \ {b} : slab'[x] = slab[x]
    BY <1>4, <1>5
  <2>4. Chained(slab, chain, hot, Ids) /\ Ids \subseteq Nat
    BY <1>1 DEF ChainInv, Ids, SlabSeq
  <2> QED BY ONLY <2>1, <2>2, <2>3, <2>4, b \in Ids, ChainPushed
<1>7. ChainInv'
  BY <1>5, <1>6 DEF ChainInv
<1> QED BY <1>1, <1>4, <1>5, <1>7

\* A step that makes no object white: each was white before, or is black now.
NoNewWhite ==
  \A x \in Ids' : \A i \in slab'[x].occ :
     i \in slab'[x].mark \/ (x \in Ids /\ i \in slab[x].occ /\ i \notin slab[x].mark)

LEMMA AllocStep ==
  ASSUME SlabsInv, NEW c \in Classes, NEW t \in Descriptors, Alloc(c, t)
  PROVE  SlabsInv' /\ (phase = "mark" => NoNewWhite)
<1>1. PICK b \in Nat \ {0} : \E s : AllocOf(c, t, b, s)
  BY AllocShape
<1>2. PICK s : AllocOf(c, t, b, s)
  BY <1>1
<1>3. SlabHolds(s) /\ ~Full(s)
  BY <1>2 DEF AllocOf
<1>4. PICK i : i = TakenSlot(s)
  OBVIOUS
<1>5. PICK black : black = BornBlack(b, i)
  OBVIOUS
<1>6. black \in BOOLEAN /\ (phase = "mark" => black)
  BY <1>5 DEF BornBlack
<1>7. PICK u : u = Taken(s, i, t, black)
  OBVIOUS
<1>8. /\ SlabHolds(u) /\ u.occ = s.occ \cup {i}
      /\ u.mark = IF black THEN s.mark \cup {i} ELSE s.mark
  BY <1>3, <1>4, <1>6, <1>7, TakenHolds
<1>9. slab'[b] = u
  BY <1>2, <1>4, <1>5, <1>7 DEF AllocOf
<1>10. ASSUME NEW x \in Ids \ {b}
       PROVE  SlabHolds(slab'[x]) /\ slab'[x].occ = slab[x].occ /\ slab'[x].mark = slab[x].mark
  <2>1. slab'[x] = slab[x] \/ slab'[x] = [slab[x] EXCEPT !.avail = FALSE]
    BY <1>2 DEF AllocOf
  <2>2. SlabHolds(slab[x])
    BY DEF SlabsInv
  <2>3. FALSE \in BOOLEAN
    OBVIOUS
  <2>4. /\ SlabHolds([slab[x] EXCEPT !.avail = FALSE])
        /\ [slab[x] EXCEPT !.avail = FALSE].occ = slab[x].occ
        /\ [slab[x] EXCEPT !.avail = FALSE].mark = slab[x].mark
    BY ONLY <2>2, <2>3, AvailHolds
  <2> QED BY ONLY <2>1, <2>2, <2>4
<1>11. Ids' = Ids \cup {b} /\ SlabSeq' /\ ChainInv'
  BY <1>2 DEF AllocOf
<1>12. \A x \in Ids' : SlabHolds(slab'[x])
  BY ONLY <1>8, <1>9, <1>10, <1>11
<1>13. SweepInv'
  <2>1. phase' = phase /\ swPos' = swPos
    BY DEF Alloc
  <2>2. SUFFICES ASSUME phase = "sweep"
                 PROVE  swPos \in Seq(Ids' \X Nat)
    BY <2>1 DEF SweepInv
  <2>3. b \in Ids
    BY <1>2, <2>2 DEF AllocOf
  <2>4. Ids' = Ids
    BY <1>11, <2>3
  <2>5. swPos \in Seq(Ids \X Nat)
    BY <2>2 DEF SlabsInv, SweepInv
  <2> QED BY ONLY <2>4, <2>5
<1>14. phase = "mark" => NoNewWhite
  <2>1. SUFFICES ASSUME phase = "mark", NEW x \in Ids', NEW j \in slab'[x].occ
                 PROVE  j \in slab'[x].mark \/ (x \in Ids /\ j \in slab[x].occ /\ j \notin slab[x].mark)
    BY DEF NoNewWhite
  <2>2. CASE x \in Ids \ {b}
    BY <1>10, <2>1, <2>2
  <2>3. CASE x = b /\ b \in Ids
    <3>1. s = slab[b]
      BY <1>2, <2>3 DEF AllocOf
    <3> QED BY <1>6, <1>8, <1>9, <2>1, <2>3, <3>1
  <2>4. CASE x = b /\ b \notin Ids
    <3>1. s = NewSlab(c)
      BY <1>2, <2>4 DEF AllocOf
    <3>2. s.occ = {}
      BY <3>1, NewSlabHolds
    <3> QED BY <1>6, <1>8, <1>9, <2>1, <2>4, <3>2
  <2> QED BY <1>11, <2>1, <2>2, <2>3, <2>4
<1> QED BY <1>11, <1>12, <1>13, <1>14 DEF SlabsInv

\* The marking of an object, by the walk or by the barrier.
LEMMA BlackenStep ==
  ASSUME SlabsInv, NEW b \in Ids, NEW i \in Slots,
         slab' = [slab EXCEPT ![b].mark = @ \cup {i}], UNCHANGED <<chain, hot, phase, swPos>>
  PROVE  /\ SlabsInv' /\ NoNewWhite /\ Ids' = Ids /\ i \in slab'[b].mark
         /\ \A x \in Ids : /\ slab'[x].occ = slab[x].occ /\ slab'[x].cls = slab[x].cls
                           /\ slab[x].mark \subseteq slab'[x].mark
<1>1. PICK M : M = slab[b].mark \cup {i}
  OBVIOUS
<1>2. SlabHolds(slab[b])
  BY DEF SlabsInv
<1>3. M \in SUBSET Slots
  BY <1>1, <1>2 DEF SlabHolds, IsSlab
<1>4. slab' = [slab EXCEPT ![b] = [slab[b] EXCEPT !.mark = M]]
  BY <1>1
<1>5. /\ SlabSeq' /\ Ids' = Ids /\ ChainInv'
      /\ \A x \in Ids : /\ SlabHolds(slab'[x]) /\ slab'[x].occ = slab[x].occ
                        /\ slab'[x].cls = slab[x].cls
                        /\ slab'[x].mark = IF x = b THEN M ELSE slab[x].mark
  <2>1. UNCHANGED <<chain, hot>>
    OBVIOUS
  <2> QED BY ONLY SlabsInv, b \in Ids, <1>3, <1>4, <2>1, MarkStep
<1>6. \A x \in Ids : slab[x].mark \subseteq slab'[x].mark
  BY <1>1, <1>5
<1>7. SweepInv'
  BY <1>5 DEF SweepInv, SlabsInv
<1>8. NoNewWhite
  BY <1>5, <1>6 DEF NoNewWhite
<1>9. \A x \in Ids' : SlabHolds(slab'[x])
  BY ONLY <1>5
<1>10. SlabsInv'
  BY ONLY <1>5, <1>7, <1>9 DEF SlabsInv
<1>11. i \in slab'[b].mark
  BY <1>1, <1>5
<1> QED BY ONLY <1>5, <1>6, <1>8, <1>10, <1>11

\* The cursor of a sweep that starts.
LEMMA FirstWords ==
  ASSUME SlabSeq, NEW q, q = [p \in 1 .. Len(slab) * Cardinality(Words) |->
                    <<Len(slab) - (p - 1) \div Cardinality(Words), (p - 1) % Cardinality(Words)>>]
  PROVE  q \in Seq(Ids \X Nat)
<1>1. PICK n \in Nat : n = Len(slab)
  BY DEF SlabSeq
<1>2. PICK m \in Nat \ {0} : m = Cardinality(Words)
  <2>1. PICK k \in Int : k = (NSlots - 1) \div WordSlots
    BY SlabsAssumption
  <2>2. k >= 0
    <3>1. NSlots - 1 \in Nat /\ WordSlots \in Nat \ {0}
      BY SlabsAssumption
    <3>2. PICK a \in Nat, d \in Nat \ {0} : a = NSlots - 1 /\ d = WordSlots
      BY <3>1
    <3>3. a \div d >= 0
      BY ONLY a \in Nat, d \in Nat \ {0}
    <3> QED BY <2>1, <3>2, <3>3
  <2>3. Words = 0..k
    BY <2>1 DEF Words
  <2>4. Cardinality(0..k) = k - 0 + 1
    BY <2>1, <2>2, FS_Interval
  <2> QED BY <2>1, <2>2, <2>3, <2>4
<1>3. ASSUME NEW p \in 1..(n * m)
      PROVE  n - (p - 1) \div m \in 1..n /\ (p - 1) % m \in Nat
  <2>1. PICK a \in Nat : a = p - 1 /\ a < n * m
    BY <1>1, <1>2
  <2>2. PICK d \in Int : d = a \div m
    BY <1>2
  <2>3. PICK r \in Int : r = a % m
    BY <1>2
  <2>4. a = d * m + r /\ r >= 0 /\ r < m
    <3>1. a = (a \div m) * m + (a % m)
      BY ONLY a \in Nat, m \in Nat \ {0}, Z3
    <3>2. a % m \in 0..(m - 1)
      BY ONLY a \in Nat, m \in Nat \ {0}
    <3> QED BY <2>2, <2>3, <3>1, <3>2
  <2>5. d >= 0
    BY ONLY a \in Nat, m \in Nat \ {0}, <2>2
  <2>6. d < n
    <3>1. SUFFICES ASSUME d >= n
                   PROVE  FALSE
      BY <1>1, <2>2
    <3>2. PICK e \in Nat : d = n + e
      BY <1>1, <2>2, <3>1
    <3>3. e * m >= 0
      BY <1>2, <3>2
    <3>4. (n + e) * m = n * m + e * m
      BY <1>1, <1>2, <3>2
    <3> QED BY <2>1, <2>4, <3>2, <3>3, <3>4
  <2> QED BY <1>1, <2>1, <2>2, <2>3, <2>4, <2>5, <2>6
<1>4. n * m \in Nat
  BY <1>1, <1>2
<1>5. q = [p \in 1..(n * m) |-> <<n - (p - 1) \div m, (p - 1) % m>>]
  BY <1>1, <1>2
<1>6. q \in [1..(n * m) -> (1..n) \X Nat]
  BY ONLY <1>3, <1>5
<1>7. q \in Seq((1..n) \X Nat)
  BY ONLY <1>4, <1>6
<1> QED BY <1>1, <1>7 DEF Ids

LEMMA SweepWordStep ==
  ASSUME SlabsInv, SweepWord
  PROVE  SlabsInv'
<1>1. phase = "sweep" /\ phase' = phase /\ swPos # <<>> /\ swPos' = Tail(swPos) /\ UNCHANGED hot
  BY DEF SweepWord
<1>2. swPos \in Seq(Ids \X Nat)
  BY <1>1 DEF SlabsInv, SweepInv
<1>3. Head(swPos) \in Ids \X Nat /\ Tail(swPos) \in Seq(Ids \X Nat)
  BY ONLY <1>1, <1>2
<1>4. PICK b \in Ids, w \in Nat : b = Head(swPos)[1] /\ w = Head(swPos)[2]
  BY <1>3
<1>5. PICK dead : dead = (slab[b].occ \ slab[b].mark) \cap SlotsOf(w)
  OBVIOUS
<1>6. PICK M : M = slab[b].mark \ SlotsOf(w)
  OBVIOUS
<1>7. SlabHolds(slab[b])
  BY DEF SlabsInv
<1>8. M \in SUBSET Slots /\ dead \subseteq slab[b].occ
  BY <1>5, <1>6, <1>7 DEF SlabHolds, IsSlab
<1>9. /\ slab' = [slab EXCEPT ![b] = [(IF dead = {} THEN slab[b] ELSE Freed(slab[b], dead)) EXCEPT
                                          !.mark = @ \ SlotsOf(w)]]
      /\ chain' = IF dead = {} THEN chain ELSE Pushed(b)
  BY <1>4, <1>5 DEF SweepWord
<1>10. SlabSeq' /\ Ids' = Ids /\ ChainInv' /\ \A x \in Ids : SlabHolds(slab'[x])
  <2>1. CASE dead = {}
    <3>1. slab' = [slab EXCEPT ![b] = [slab[b] EXCEPT !.mark = M]]
      BY <1>6, <1>9, <2>1
    <3>2. UNCHANGED <<chain, hot>>
      BY <1>1, <1>9, <2>1
    <3> QED BY ONLY SlabsInv, <1>8, <3>1, <3>2, MarkStep
  <2>2. CASE dead # {}
    <3>1. PICK u : u = Freed(slab[b], dead)
      OBVIOUS
    <3>2. u.mark = slab[b].mark
      BY <1>7, <1>8, <3>1, FreedHolds
    <3>3. PICK v : v = [u EXCEPT !.mark = M]
      OBVIOUS
    <3>4. slab' = [slab EXCEPT ![b] = v]
      BY <1>6, <1>9, <2>2, <3>1, <3>2, <3>3
    <3>5. chain' = Pushed(b)
      BY <1>9, <2>2
    <3>6. v = [Freed(slab[b], dead) EXCEPT !.mark = M] \/ v = Freed(slab[b], dead)
      BY <3>1, <3>3
    <3>7. UNCHANGED hot
      BY <1>1
    <3> QED BY ONLY SlabsInv, <1>8, <3>4, <3>5, <3>6, <3>7, FreeStep
  <2> QED BY <2>1, <2>2
<1>11. SweepInv'
  BY <1>1, <1>3, <1>10 DEF SweepInv
<1>12. \A x \in Ids' : SlabHolds(slab'[x])
  BY ONLY <1>10
<1> QED BY ONLY <1>10, <1>11, <1>12 DEF SlabsInv

LEMMA ReleaseStep ==
  ASSUME SlabsInv, NEW b \in Ids, NEW i \in Slots, Release(b, i)
  PROVE  SlabsInv'
<1>1. /\ phase = "idle" /\ phase' = phase /\ swPos' = swPos /\ UNCHANGED hot
      /\ chain' = Pushed(b) /\ i \in slab[b].occ
  BY DEF Release
<1>2. PICK v : v = Freed(slab[b], {i})
  OBVIOUS
<1>3. slab' = [slab EXCEPT ![b] = v]
  BY <1>2 DEF Release
<1>4. PICK dead : dead = {i}
  OBVIOUS
<1>5. PICK M : M = {}
  OBVIOUS
<1>6. /\ dead \subseteq slab[b].occ /\ M \in SUBSET Slots
      /\ v = [Freed(slab[b], dead) EXCEPT !.mark = M] \/ v = Freed(slab[b], dead)
  BY <1>1, <1>2, <1>4, <1>5
<1>7. SlabSeq' /\ Ids' = Ids /\ ChainInv' /\ \A x \in Ids : SlabHolds(slab'[x])
  <2>1. chain' = Pushed(b) /\ UNCHANGED hot
    BY <1>1
  <2> QED BY ONLY SlabsInv, <1>3, <1>6, <2>1, FreeStep
<1>8. SweepInv'
  BY <1>1 DEF SweepInv
<1>9. \A x \in Ids' : SlabHolds(slab'[x])
  BY ONLY <1>7
<1> QED BY ONLY <1>7, <1>8, <1>9 DEF SlabsInv

\* A step that leaves the slabs and their chains alone.
LEMMA SlabsKept ==
  ASSUME SlabsInv, UNCHANGED <<slab, chain, hot>>, SweepInv'
  PROVE  SlabsInv'
<1>1. SlabSeq' /\ Ids' = Ids
  BY DEF SlabsInv, SlabSeq, Ids
<1>2. ChainInv'
  BY <1>1 DEF SlabsInv, ChainInv
<1>3. \A x \in Ids' : SlabHolds(slab'[x])
  BY <1>1 DEF SlabsInv
<1> QED BY ONLY <1>1, <1>2, <1>3, SweepInv' DEF SlabsInv

LEMMA FinishStep ==
  ASSUME SlabsInv, Finish
  PROVE  SlabsInv'
<1>1. UNCHANGED <<slab, chain, hot>>
  BY DEF Finish
<1>2. PICK q : q = swPos'
  OBVIOUS
<1>3. q = [p \in 1 .. Len(slab) * Cardinality(Words) |->
             <<Len(slab) - (p - 1) \div Cardinality(Words), (p - 1) % Cardinality(Words)>>]
  BY <1>2 DEF Finish
<1>4. SlabSeq
  BY DEF SlabsInv
<1>5. q \in Seq(Ids \X Nat)
  BY ONLY <1>3, <1>4, FirstWords
<1>6. Ids' = Ids
  BY <1>1 DEF Ids
<1>7. SweepInv'
  BY <1>2, <1>5, <1>6 DEF SweepInv
<1> QED BY ONLY SlabsInv, <1>1, <1>7, SlabsKept

\* The next-state relation, one action a time.
LEMMA SlabsCases ==
  ASSUME [Next]_vars
  PROVE  \/ \E c \in Classes, t \in Descriptors : Alloc(c, t)
         \/ \E b \in Ids, i \in Slots : Walk(b, i)
         \/ \E b \in Ids, i \in Slots : Shade(b, i)
         \/ \E b \in Ids, i \in Slots : Release(b, i)
         \/ Begin \/ Finish \/ SweepWord \/ SweepEnd \/ RegionFree \/ UNCHANGED vars
<1>1. ASSUME NEW site \in Sites
      PROVE  site[1] \in Classes /\ site[2] \in Descriptors
  BY SlabsAssumption DEF Descriptors
<1>2. CASE Next
  BY <1>1, <1>2 DEF Next
<1> QED BY <1>2

LEMMA SlabsStep == SlabsInv /\ [Next]_vars => SlabsInv'
<1>1. SUFFICES ASSUME SlabsInv, [Next]_vars
               PROVE  SlabsInv'
  OBVIOUS
<1>2. ASSUME NEW c \in Classes, NEW t \in Descriptors, Alloc(c, t)
      PROVE  SlabsInv'
  BY ONLY <1>1, <1>2, AllocStep
<1>3. ASSUME NEW b \in Ids, NEW i \in Slots, Walk(b, i)
      PROVE  SlabsInv'
  <2>1. slab' = [slab EXCEPT ![b].mark = @ \cup {i}] /\ UNCHANGED <<chain, hot, phase, swPos>>
    BY <1>3 DEF Walk
  <2> QED BY ONLY <1>1, <1>3, <2>1, BlackenStep
<1>4. ASSUME NEW b \in Ids, NEW i \in Slots, Shade(b, i)
      PROVE  SlabsInv'
  <2>1. slab' = [slab EXCEPT ![b].mark = @ \cup {i}] /\ UNCHANGED <<chain, hot, phase, swPos>>
    BY <1>4 DEF Shade
  <2> QED BY ONLY <1>1, <1>4, <2>1, BlackenStep
<1>5. ASSUME NEW b \in Ids, NEW i \in Slots, Release(b, i)
      PROVE  SlabsInv'
  BY ONLY <1>1, <1>5, ReleaseStep
<1>6. CASE Begin
  <2>1. UNCHANGED <<slab, chain, hot>> /\ SweepInv'
    BY <1>6 DEF Begin, SweepInv
  <2> QED BY ONLY <1>1, <2>1, SlabsKept
<1>7. CASE Finish
  BY ONLY <1>1, <1>7, FinishStep
<1>8. CASE SweepWord
  BY ONLY <1>1, <1>8, SweepWordStep
<1>9. CASE SweepEnd
  <2>1. UNCHANGED <<slab, chain, hot>> /\ SweepInv'
    BY <1>9 DEF SweepEnd, SweepInv
  <2> QED BY ONLY <1>1, <2>1, SlabsKept
<1>10. CASE RegionFree
  BY ONLY <1>1, <1>10, RegionFreeStep
<1>11. CASE UNCHANGED vars
  <2>1. UNCHANGED <<slab, chain, hot, phase, swPos>>
    BY <1>11 DEF vars
  <2>2. SweepInv'
    BY <1>1, <2>1 DEF SlabsInv, SweepInv, Ids
  <2> QED BY ONLY <1>1, <2>1, <2>2, SlabsKept
<1> QED BY <1>1, <1>2, <1>3, <1>4, <1>5, <1>6, <1>7, <1>8, <1>9, <1>10, <1>11, SlabsCases

\* One slab on the chains is there once.
LEMMA RoomHolds ==
  ASSUME SlabsInv, NEW b \in Ids
  PROVE  LET at == {p \in 1 .. Len(chain[slab[b].cls]) : chain[slab[b].cls][p] = b}
         IN /\ ~Full(slab[b]) => at # {}
            /\ Cardinality(at) = IF slab[b].avail THEN 1 ELSE 0
<1>1. SlabHolds(slab[b]) /\ Chained(slab, chain, hot, Ids)
  BY DEF SlabsInv, ChainInv
<1>2. slab[b].cls \in Classes /\ slab[b].avail \in BOOLEAN
  BY <1>1 DEF SlabHolds, IsSlab
<1>3. PICK q : q = chain[slab[b].cls]
  OBVIOUS
<1>4. /\ \A p \in 1..Len(q) : slab[q[p]].avail
      /\ \A p, r \in 1..Len(q) : q[p] = q[r] => p = r
  BY <1>1, <1>2, <1>3 DEF Chained, ChainOf
<1>5. /\ slab[b].avail => \E p \in 1..Len(q) : q[p] = b
      /\ ~Full(slab[b]) => slab[b].avail
  BY <1>1, <1>3 DEF Chained, OnChain
<1>6. PICK at : at = {p \in 1..Len(q) : q[p] = b}
  OBVIOUS
<1>7. CASE slab[b].avail
  <2>1. PICK p \in 1..Len(q) : q[p] = b
    BY <1>5, <1>7
  <2>2. at = {p}
    BY <1>4, <1>6, <2>1
  <2>3. Cardinality({p}) = 1
    BY FS_Singleton
  <2> QED BY <1>3, <1>6, <1>7, <2>2, <2>3
<1>8. CASE ~slab[b].avail
  <2>1. at = {}
    BY <1>4, <1>6, <1>8
  <2>2. Cardinality({}) = 0
    BY FS_EmptySet
  <2> QED BY <1>3, <1>5, <1>6, <1>8, <2>1, <2>2
<1> QED BY <1>7, <1>8

LEMMA SlotsExactHolds == SlabsInv => SlotsExact
<1>1. SUFFICES ASSUME SlabsInv
               PROVE  SlotsExact
  OBVIOUS
<1>2. ASSUME NEW b \in Ids
      PROVE  ListHolds(slab[b]) /\ NumbersHold(slab[b])
  BY <1>1 DEF SlabsInv, SlabHolds
<1>3. FreeListExact
  BY <1>2, SlabListExact DEF FreeListExact
<1>4. RoomIsFound
  BY <1>1, RoomHolds DEF RoomIsFound
<1>5. TypeKept
  <2>1. ASSUME NEW b \in Ids, NEW i \in slab[b].occ
        PROVE  TypeOf(slab[b], i) = slab[b].want[i]
    <3>1. /\ TableHolds(slab[b].ttab)
          /\ IF slab[b].want[i] = None THEN slab[b].tid[i] = 0
             ELSE /\ slab[b].tid[i] \in 1..Len(slab[b].ttab)
                  /\ slab[b].ttab[slab[b].tid[i]] = slab[b].want[i]
      BY <1>2, <2>1 DEF NumbersHold
    <3> QED BY ONLY <3>1 DEF TypeOf
  <2>2. ASSUME NEW b \in Ids
        PROVE  IsInjective(slab[b].ttab)
    <3>1. PICK tt : tt = slab[b].ttab
      OBVIOUS
    <3>2. TableHolds(tt)
      BY <1>2, <3>1 DEF NumbersHold
    <3>3. DOMAIN tt = 1..Len(tt) /\ \A j, k \in 1..Len(tt) : tt[j] = tt[k] => j = k
      BY ONLY <3>2 DEF TableHolds
    <3> QED BY ONLY <3>1, <3>3 DEF IsInjective
  <2> QED BY <2>1, <2>2 DEF TypeKept
<1> QED BY <1>3, <1>4, <1>5 DEF SlotsExact

\* The memory of every slab is accounted for, in every region and whatever is
\* allocated and freed: the free list holds the idle slots once each, a slab with
\* room is found by an allocation of its class, and the type number of an object
\* names the descriptor it was allocated with (extc_rc_alloc,
\* extc_rc_freeSlotLink, extc_rc_typeIdx).
THEOREM SlabMemoryExact == Spec => []SlotsExact
<1>1. Spec => []SlabsInv
  BY SlabsInit, SlabsStep, PTL DEF Spec
<1> QED BY <1>1, SlotsExactHolds, PTL

-----------------------------------------------------------------------------
(***************************************************************************)
(* The cache of black objects.  What it holds was put there in one of the  *)
(* generations since it was cleared, at that generation's cell; so nothing *)
(* in it is at its cell of a generation that begins.                       *)
(***************************************************************************)
CacheInv ==
  /\ gen \in Nat /\ cache \in [0..(GenCells - 1) -> Int]
  /\ \A c \in 0..(GenCells - 1) : cache[c] # -1 =>
        \E g \in Nat : gen - (gen % GenCells) <= g /\ g <= gen /\ c = (cache[c] + g) % GenCells

LEMMA CellRange ==
  ASSUME NEW a \in Int, NEW g \in Int
  PROVE  Cell(a, g) \in 0..(GenCells - 1)
<1>1. PICK n \in Nat \ {0} : n = GenCells
  BY SlabsAssumption
<1>2. a + g \in Int
  OBVIOUS
<1>3. (a + g) % n \in 0..(n - 1)
  BY ONLY <1>1, <1>2
<1> QED BY <1>1, <1>3 DEF Cell

\* Slots of slabs have addresses of their own.
LEMMA AddrIs ==
  ASSUME NEW b \in Nat, NEW i \in Slots
  PROVE  /\ Addr(b, i) \in Nat
         /\ \A c \in Nat : \A j \in Slots : Addr(b, i) = Addr(c, j) => b = c /\ i = j
<1>1. PICK n \in Nat \ {0} : n = NSlots
  BY SlotNumbers
<1>2. \A k \in Slots : k \in Nat /\ k < n
  BY <1>1, SlotNumbers
<1>3. \A k \in Nat : k * n \in Nat
  BY <1>1
<1>4. Addr(b, i) \in Nat
  BY <1>1, <1>2, <1>3 DEF Addr
<1>5. ASSUME NEW c \in Nat, NEW j \in Slots, Addr(b, i) = Addr(c, j)
      PROVE  b = c /\ i = j
  <2>1. PICK x \in Nat, y \in Nat : x = i /\ y = j /\ x < n /\ y < n
    BY <1>2
  <2>2. b * n \in Nat /\ c * n \in Nat
    BY <1>3
  <2>3. b * n + x = c * n + y
    BY <1>1, <1>5, <2>1 DEF Addr
  <2>4. PICK r \in Int : r = y - x
    BY <2>1
  <2>5. b * n - c * n = r /\ r < n /\ -n < r
    BY ONLY <1>1, <2>1, <2>2, <2>3, <2>4, x \in Nat, y \in Nat, r \in Int
  <2>6. b = c
    BY ONLY <2>5, n \in Nat \ {0}, b \in Nat, c \in Nat, r \in Int, OneMultiple
  <2> QED BY <2>1, <2>2, <2>3, <2>6
<1> QED BY <1>4, <1>5

\* A generation begins: the cache knows nothing.
LEMMA NextGenStep ==
  ASSUME CacheInv, NextGen
  PROVE  CacheInv' /\ \A a \in Nat : ~ShadeHit(a)'
<1>1. PICK n \in Nat \ {0} : n = GenCells
  BY SlabsAssumption
<1>2. PICK g0 \in Nat : g0 = gen
  BY DEF CacheInv
<1>3. PICK r \in 0..(n - 1) : r = g0 % n
  BY <1>1
<1>4. gen' = g0 + 1 /\ gen' \in Nat
  BY <1>2 DEF NextGen
<1>5. (g0 + 1) % n = IF r + 1 < n THEN r + 1 ELSE 0
  <2>1. g0 \in Int
    OBVIOUS
  <2> QED BY ONLY <1>3, <2>1, n \in Nat \ {0}, NextRemainder
<1>6. CASE (g0 + 1) % n = 0
  <2>1. cache' = [c \in 0..(n - 1) |-> -1]
    BY <1>1, <1>2, <1>6 DEF NextGen
  <2>2. CacheInv'
    BY <1>1, <1>4, <2>1 DEF CacheInv
  <2>3. ASSUME NEW a \in Nat
        PROVE  ~ShadeHit(a)'
    <3>1. Cell(a, gen') \in 0..(n - 1)
      BY <1>1, <1>4, CellRange
    <3>2. cache'[Cell(a, gen')] = -1
      BY ONLY <2>1, <3>1
    <3> QED BY <3>2 DEF ShadeHit
  <2> QED BY <2>2, <2>3
<1>7. CASE (g0 + 1) % n # 0
  <2>1. cache' = cache
    BY <1>1, <1>2, <1>7 DEF NextGen
  <2>2. r + 1 < n /\ (g0 + 1) % n = r + 1
    BY <1>5, <1>7
  <2>3. ASSUME NEW c \in 0..(n - 1), cache[c] # -1
        PROVE  \E g \in Nat : g0 - r <= g /\ g <= g0 /\ c = (cache[c] + g) % n
    BY <1>1, <1>2, <1>3, <2>3 DEF CacheInv
  <2>4. CacheInv'
    <3>1. cache' \in [0..(n - 1) -> Int]
      BY <1>1, <2>1 DEF CacheInv
    <3>2. ASSUME NEW c \in 0..(n - 1), cache'[c] # -1
          PROVE  \E g \in Nat : gen' - (gen' % n) <= g /\ g <= gen' /\ c = (cache'[c] + g) % n
      <4>1. PICK g \in Nat : g0 - r <= g /\ g <= g0 /\ c = (cache'[c] + g) % n
        BY <2>1, <2>3, <3>2
      <4>2. gen' - (gen' % n) <= g /\ g <= gen'
        BY <1>4, <2>2, <4>1
      <4> QED BY <4>1, <4>2
    <3> QED BY <1>1, <1>4, <3>1, <3>2 DEF CacheInv
  <2>5. ASSUME NEW a \in Nat, ShadeHit(a)'
        PROVE  FALSE
    <3>1. PICK c \in 0..(n - 1) : c = Cell(a, gen')
      BY <1>1, <1>4, CellRange
    <3>2. cache[c] = a /\ c = (a + gen') % n
      BY <1>1, <2>1, <2>5, <3>1 DEF ShadeHit, Cell
    <3>3. PICK g \in Nat : g0 - r <= g /\ g <= g0 /\ c = (a + g) % n
      BY <2>3, <3>2
    <3>4. PICK x \in Int, y \in Int : x = a + gen' /\ y = a + g
      BY <1>4
    <3>5. x % n = y % n
      BY <3>2, <3>3, <3>4
    <3>6. x - y < n /\ y - x < n /\ x # y
      BY <1>4, <2>2, <3>3, <3>4
    <3> QED BY ONLY <3>5, <3>6, n \in Nat \ {0}, x \in Int, y \in Int, SameRemainder
  <2> QED BY <2>4, <2>5
<1> QED BY <1>6, <1>7

\* The barrier remembers an object at the cell of this generation.
LEMMA RememberStep ==
  ASSUME CacheInv, NEW a \in Nat, Remember(a), UNCHANGED gen
  PROVE  CacheInv' /\ \A x \in Nat : ShadeHit(x)' => x = a \/ ShadeHit(x)
<1>1. PICK n \in Nat \ {0} : n = GenCells
  BY SlabsAssumption
<1>2. gen \in Nat /\ cache \in [0..(n - 1) -> Int]
  BY <1>1 DEF CacheInv
<1>3. PICK d \in 0..(n - 1) : d = Cell(a, gen)
  <2>1. a \in Int /\ gen \in Int
    BY <1>2
  <2> QED BY ONLY <1>1, <2>1, CellRange
<1>4. cache' = [cache EXCEPT ![d] = a]
  BY <1>3 DEF Remember
<1>5. /\ cache' \in [0..(n - 1) -> Int] /\ cache'[d] = a
      /\ \A c \in 0..(n - 1) : c # d => cache'[c] = cache[c]
  BY <1>2, <1>4
<1>6. ASSUME NEW c \in 0..(n - 1), cache'[c] # -1
      PROVE  \E g \in Nat : gen - (gen % n) <= g /\ g <= gen /\ c = (cache'[c] + g) % n
  <2>1. CASE c = d
    <3>1. c = (cache'[c] + gen) % n
      BY <1>1, <1>3, <1>5, <2>1 DEF Cell
    <3>2. gen - (gen % n) <= gen
      BY ONLY <1>2, n \in Nat \ {0}
    <3> QED BY <1>2, <3>1, <3>2
  <2>2. CASE c # d
    BY <1>1, <1>5, <1>6, <2>2 DEF CacheInv
  <2> QED BY <2>1, <2>2
<1>7. CacheInv'
  BY <1>1, <1>2, <1>5, <1>6 DEF CacheInv
<1>8. ASSUME NEW x \in Nat, ShadeHit(x)'
      PROVE  x = a \/ ShadeHit(x)
  <2>1. PICK c \in 0..(n - 1) : c = Cell(x, gen)
    <3>1. x \in Int /\ gen \in Int
      BY <1>2
    <3> QED BY ONLY <1>1, <3>1, CellRange
  <2>2. cache'[c] = x
    BY <1>8, <2>1 DEF ShadeHit
  <2> QED BY <1>5, <2>1, <2>2 DEF ShadeHit
<1> QED BY <1>7, <1>8

-----------------------------------------------------------------------------
\* The numbers of slabs.
LEMMA SlabNumber ==
  ASSUME SlabSeq, NEW b \in Ids
  PROVE  b \in Nat
BY DEF SlabSeq, Ids

ShadeInv == SlabsInv /\ CacheInv /\ KnownIsBlack

\* Nothing turns white and the cache stays as it is.
LEMMA KnownKept ==
  ASSUME ShadeInv, SlabsInv', NoNewWhite, UNCHANGED <<gen, cache>>, phase = "mark"
  PROVE  ShadeInv'
<1>1. CacheInv'
  BY DEF ShadeInv, CacheInv
<1>2. ASSUME NEW b \in Ids', NEW i \in slab'[b].occ, ShadeHit(Addr(b, i))'
      PROVE  i \in slab'[b].mark
  <2>1. ShadeHit(Addr(b, i))
    BY <1>2 DEF ShadeHit, Cell
  <2>2. b \in Ids /\ i \in slab[b].occ => i \in slab[b].mark
    BY <2>1 DEF ShadeInv, KnownIsBlack
  <2> QED BY <1>2, <2>2 DEF NoNewWhite
<1>3. KnownIsBlack'
  BY <1>2 DEF KnownIsBlack, Addr
<1> QED BY <1>1, <1>3 DEF ShadeInv

\* The barrier makes an object black before it remembers it.
LEMMA ShadeStep ==
  ASSUME ShadeInv, NEW b \in Ids, NEW i \in Slots, Shade(b, i)
  PROVE  ShadeInv'
<1>1. /\ slab' = [slab EXCEPT ![b].mark = @ \cup {i}] /\ UNCHANGED <<chain, hot, phase, swPos>>
      /\ phase = "mark" /\ Remember(Addr(b, i)) /\ UNCHANGED gen
  BY DEF Shade
<1>2. SlabsInv /\ CacheInv /\ KnownIsBlack
  BY DEF ShadeInv
<1>3. /\ SlabsInv' /\ Ids' = Ids /\ i \in slab'[b].mark
      /\ \A x \in Ids : slab'[x].occ = slab[x].occ /\ slab[x].mark \subseteq slab'[x].mark
  BY ONLY <1>1, <1>2, b \in Ids, i \in Slots, BlackenStep
<1>4. \A x \in Ids : x \in Nat /\ slab[x].occ \subseteq Slots
  BY <1>2, SlabNumber DEF SlabsInv, SlabHolds, IsSlab
<1>5. PICK a \in Nat : a = Addr(b, i)
  BY <1>4, AddrIs
<1>6. CacheInv' /\ \A x \in Nat : ShadeHit(x)' => x = a \/ ShadeHit(x)
  BY <1>1, <1>2, <1>5, RememberStep
<1>7. ASSUME NEW x \in Ids, NEW j \in slab'[x].occ, ShadeHit(Addr(x, j))'
      PROVE  j \in slab'[x].mark
  <2>1. x \in Nat /\ b \in Nat /\ j \in Slots /\ j \in slab[x].occ
    BY <1>3, <1>4
  <2>2. PICK e \in Nat : e = Addr(x, j)
    BY <2>1, AddrIs
  <2>3. ShadeHit(e)'
    BY <1>7, <2>2
  <2>4. e = a \/ ShadeHit(e)
    BY <1>6, <2>3
  <2>5. CASE e = a
    <3>1. x = b /\ j = i
      <4>1. \A c \in Nat : \A k \in Slots : Addr(b, i) = Addr(c, k) => b = c /\ i = k
        BY ONLY <2>1, i \in Slots, AddrIs
      <4>2. Addr(b, i) = Addr(x, j)
        BY <1>5, <2>2, <2>5
      <4> QED BY ONLY <2>1, <4>1, <4>2
    <3> QED BY <1>3, <3>1
  <2>6. CASE ShadeHit(e)
    <3>1. j \in slab[x].mark
      BY <1>1, <1>2, <2>1, <2>2, <2>6 DEF KnownIsBlack
    <3> QED BY <1>3, <3>1
  <2> QED BY <2>4, <2>5, <2>6
<1>8. KnownIsBlack'
  BY <1>3, <1>7 DEF KnownIsBlack
<1> QED BY <1>3, <1>6, <1>8 DEF ShadeInv

\* A step after which no round marks.
LEMMA KnownIdle ==
  ASSUME ShadeInv, SlabsInv', phase' # "mark", NextGen \/ UNCHANGED <<gen, cache>>
  PROVE  ShadeInv'
<1>1. CacheInv'
  <2>1. CASE NextGen
    BY <2>1, NextGenStep DEF ShadeInv
  <2>2. CASE UNCHANGED <<gen, cache>>
    BY <2>2 DEF ShadeInv, CacheInv
  <2> QED BY <2>1, <2>2
<1>2. KnownIsBlack'
  BY DEF KnownIsBlack
<1> QED BY <1>1, <1>2 DEF ShadeInv

LEMMA BeginStep ==
  ASSUME ShadeInv, SlabsInv', Begin
  PROVE  ShadeInv'
<1>1. CacheInv' /\ \A a \in Nat : ~ShadeHit(a)'
  BY NextGenStep DEF ShadeInv, Begin
<1>2. ASSUME NEW b \in Ids', NEW i \in slab'[b].occ
      PROVE  ~ShadeHit(Addr(b, i))'
  <2>1. b \in Nat
    BY DEF SlabsInv, SlabSeq, Ids
  <2>2. slab'[b].occ \subseteq Slots
    BY DEF SlabsInv, SlabHolds, IsSlab
  <2>3. PICK e \in Nat : e = Addr(b, i)
    BY <2>1, <2>2, AddrIs
  <2> QED BY <1>1, <2>3
<1>3. KnownIsBlack'
  BY <1>2 DEF KnownIsBlack
<1> QED BY <1>1, <1>3 DEF ShadeInv

LEMMA ShadeInit == Init => ShadeInv
<1>1. SUFFICES ASSUME Init
               PROVE  ShadeInv
  OBVIOUS
<1>2. SlabsInv
  BY <1>1, SlabsInit
<1>3. gen = 1 /\ cache = [c \in 0..(GenCells - 1) |-> -1] /\ phase = "idle"
  BY <1>1 DEF Init
<1>4. CacheInv
  BY <1>3 DEF CacheInv
<1>5. KnownIsBlack
  BY <1>3 DEF KnownIsBlack
<1> QED BY <1>2, <1>4, <1>5 DEF ShadeInv

LEMMA ShadeNext == ShadeInv /\ [Next]_vars => ShadeInv'
<1>1. SUFFICES ASSUME ShadeInv, [Next]_vars
               PROVE  ShadeInv'
  OBVIOUS
<1>2. SlabsInv'
  BY <1>1, SlabsStep DEF ShadeInv
<1>3. ASSUME NEW c \in Classes, NEW t \in Descriptors, Alloc(c, t)
      PROVE  ShadeInv'
  <2>1. UNCHANGED <<gen, cache>> /\ phase' = phase
    BY <1>3 DEF Alloc
  <2>2. phase = "mark" => NoNewWhite
    BY <1>1, <1>3, AllocStep DEF ShadeInv
  <2>3. CASE phase = "mark"
    BY ONLY <1>1, <1>2, <2>1, <2>2, <2>3, KnownKept
  <2>4. CASE phase # "mark"
    BY ONLY <1>1, <1>2, <2>1, <2>4, KnownIdle
  <2> QED BY <2>3, <2>4
<1>4. ASSUME NEW b \in Ids, NEW i \in Slots, Walk(b, i)
      PROVE  ShadeInv'
  <2>1. /\ slab' = [slab EXCEPT ![b].mark = @ \cup {i}] /\ UNCHANGED <<chain, hot, phase, swPos>>
        /\ UNCHANGED <<gen, cache>> /\ phase = "mark"
    BY <1>4 DEF Walk
  <2>2. SlabsInv
    BY <1>1 DEF ShadeInv
  <2>3. NoNewWhite
    BY ONLY <1>4, <2>1, <2>2, BlackenStep
  <2> QED BY ONLY <1>1, <1>2, <2>1, <2>3, KnownKept
<1>5. ASSUME NEW b \in Ids, NEW i \in Slots, Shade(b, i)
      PROVE  ShadeInv'
  BY ONLY <1>1, <1>5, ShadeStep
<1>6. ASSUME NEW b \in Ids, NEW i \in Slots, Release(b, i)
      PROVE  ShadeInv'
  <2>1. phase' # "mark" /\ NextGen
    BY <1>6 DEF Release
  <2> QED BY ONLY <1>1, <1>2, <2>1, KnownIdle
<1>7. CASE Begin
  BY ONLY <1>1, <1>2, <1>7, BeginStep
<1>8. CASE Finish
  <2>1. phase' # "mark" /\ NextGen
    BY <1>8 DEF Finish
  <2> QED BY ONLY <1>1, <1>2, <2>1, KnownIdle
<1>9. CASE SweepWord
  <2>1. phase' # "mark" /\ UNCHANGED <<gen, cache>>
    BY <1>9 DEF SweepWord
  <2> QED BY ONLY <1>1, <1>2, <2>1, KnownIdle
<1>10. CASE SweepEnd
  <2>1. phase' # "mark" /\ UNCHANGED <<gen, cache>>
    BY <1>10 DEF SweepEnd
  <2> QED BY ONLY <1>1, <1>2, <2>1, KnownIdle
<1>11. CASE RegionFree
  <2>1. phase' # "mark" /\ NextGen
    BY <1>11 DEF RegionFree
  <2> QED BY ONLY <1>1, <1>2, <2>1, KnownIdle
<1>12. CASE UNCHANGED vars
  <2>1. UNCHANGED <<slab, phase, gen, cache>>
    BY <1>12 DEF vars
  <2>2. CASE phase = "mark"
    <3>1. NoNewWhite
      BY <2>1 DEF NoNewWhite, Ids
    <3> QED BY ONLY <1>1, <1>2, <2>1, <2>2, <3>1, KnownKept
  <2>3. CASE phase # "mark"
    BY ONLY <1>1, <1>2, <2>1, <2>3, KnownIdle
  <2> QED BY <2>2, <2>3
<1> QED BY <1>1, <1>3, <1>4, <1>5, <1>6, <1>7, <1>8, <1>9, <1>10, <1>11, <1>12, SlabsCases

\* The barrier never skips a white object: while a round marks, whatever the shade
\* cache knows is black, over any number of rounds, frees and new regions at the
\* same addresses (extc_rc_shade, extc_rc_shadeNextGen and the paths that start
\* a generation).
THEOREM ShadeCacheSound == Spec => []KnownIsBlack
<1>1. Spec => []ShadeInv
  BY ShadeInit, ShadeNext, PTL DEF Spec
<1>2. ShadeInv => KnownIsBlack
  BY DEF ShadeInv
<1> QED BY <1>1, <1>2, PTL


-----------------------------------------------------------------------------
(***************************************************************************)
(* The account of bytes: the slots in use, each with the size of its       *)
(* class, summed over the slabs.                                           *)
(***************************************************************************)
Weight(s) == Cardinality(s.occ) * s.cls
Weights(S, I) == [b \in I |-> Weight(S[b])]

AccountInv ==
  /\ SlabsInv
  /\ bytes = Total(Weights(slab, Ids), Ids)
  /\ thr = ThrUpd(live, scale)

LEMMA WeightsSum ==
  MapThenSumSet(LAMBDA b : Cardinality(slab[b].occ) * slab[b].cls, Ids)
    = Total(Weights(slab, Ids), Ids)
BY DEF MapThenSumSet, MapThenFoldSet, Total, Tally, Pick, Weights, Weight

LEMMA OccFinite ==
  ASSUME NEW s, SlabHolds(s)
  PROVE  /\ IsFiniteSet(s.occ) /\ Cardinality(s.occ) \in Nat
         /\ s.cls \in Nat /\ Weight(s) \in Int
<1>1. s.occ \subseteq Slots /\ s.cls \in Nat
  BY SlabsAssumption DEF SlabHolds, IsSlab
<1>2. IsFiniteSet(Slots)
  <2>1. NSlots - 1 \in Int
    BY SlabsAssumption
  <2> QED BY <2>1, FS_Interval DEF Slots
<1>3. IsFiniteSet(s.occ) /\ Cardinality(s.occ) \in Nat
  BY <1>1, <1>2, FS_Subset, FS_CardinalityType
<1> QED BY <1>1, <1>3 DEF Weight

LEMMA IdsFinite ==
  ASSUME SlabsInv
  PROVE  IsFiniteSet(Ids) /\ Numbers(Weights(slab, Ids), Ids)
<1>1. IsFiniteSet(Ids)
  <2>1. Len(slab) \in Nat
    BY DEF SlabsInv, SlabSeq
  <2> QED BY <2>1, FS_Interval DEF Ids
<1>2. ASSUME NEW b \in Ids
      PROVE  Weights(slab, Ids)[b] \in Int
  <2>1. SlabHolds(slab[b])
    BY DEF SlabsInv
  <2> QED BY <2>1, OccFinite DEF Weights
<1> QED BY <1>1, <1>2 DEF Numbers

\* The slots of every slab are as before.
LEMMA WeightsKept ==
  ASSUME SlabsInv, Ids' = Ids,
         \A x \in Ids : slab'[x].occ = slab[x].occ /\ slab'[x].cls = slab[x].cls
  PROVE  Total(Weights(slab, Ids), Ids)' = Total(Weights(slab, Ids), Ids)
<1>1. PICK I : I = Ids
  OBVIOUS
<1>2. PICK T : T = slab'
  OBVIOUS
<1>3. \A x \in I : Weights(slab, I)[x] = Weights(T, I)[x]
  BY <1>1, <1>2 DEF Weights, Weight
<1>4. IsFiniteSet(I)
  BY <1>1, IdsFinite
<1>5. Total(Weights(slab, I), I) = Total(Weights(T, I), I)
  BY <1>3, <1>4, TotalSame
<1>6. Total(Weights(slab, Ids), Ids)' = Total(Weights(T, I), I)
  BY <1>1, <1>2
<1> QED BY <1>1, <1>5, <1>6

\* The slots of one slab change.
LEMMA WeightsOne ==
  ASSUME SlabsInv, Ids' = Ids, NEW b \in Ids, Weight(slab'[b]) \in Int,
         \A x \in Ids \ {b} : slab'[x].occ = slab[x].occ /\ slab'[x].cls = slab[x].cls
  PROVE  /\ Total(Weights(slab, Ids), Ids)'
              = Total(Weights(slab, Ids), Ids) - Weight(slab[b]) + Weight(slab'[b])
         /\ Total(Weights(slab, Ids), Ids) \in Int /\ Weight(slab[b]) \in Int
<1>1. PICK I : I = Ids
  OBVIOUS
<1>2. PICK T : T = slab'
  OBVIOUS
<1>3. PICK g, h : g = Weights(slab, I) /\ h = Weights(T, I)
  OBVIOUS
<1>4. IsFiniteSet(I) /\ Numbers(g, I) /\ b \in I
  BY <1>1, <1>3, IdsFinite
<1>5. g[b] = Weight(slab[b]) /\ h[b] = Weight(T[b])
  BY <1>3, <1>4 DEF Weights
<1>6. \A x \in I \ {b} : h[x] = g[x]
  BY <1>1, <1>2, <1>3 DEF Weights, Weight
<1>7. /\ Total(h, I) = Total(g, I) - g[b] + h[b]
      /\ Total(g, I) \in Int /\ g[b] \in Int
  <2>1. h[b] \in Int
    BY <1>2, <1>5
  <2> QED BY ONLY <1>4, <1>6, <2>1, TotalAfter
<1>8. Total(Weights(slab, Ids), Ids)' = Total(h, I)
  BY <1>1, <1>2, <1>3
<1> QED BY <1>1, <1>2, <1>3, <1>5, <1>7, <1>8

\* One slot more of a slab, or some less.
LEMMA WeightMore ==
  ASSUME NEW s, SlabHolds(s), NEW u, NEW i, i \notin s.occ, u.occ = s.occ \cup {i}, u.cls = s.cls
  PROVE  Weight(u) = Weight(s) + s.cls /\ Weight(u) \in Int /\ Weight(s) \in Int /\ s.cls \in Nat
<1>1. IsFiniteSet(s.occ)
  BY OccFinite
<1>2. Cardinality(u.occ) = Cardinality(s.occ) + 1
  BY <1>1, FS_AddElement
<1>3. PICK n, k \in Nat : n = Cardinality(s.occ) /\ k = s.cls
  BY OccFinite
<1>4. (n + 1) * k = n * k + k /\ n * k \in Int
  OBVIOUS
<1>5. Weight(s) = n * k /\ Weight(u) = (n + 1) * k
  BY <1>2, <1>3 DEF Weight
<1> QED BY ONLY <1>3, <1>4, <1>5

LEMMA WeightLess ==
  ASSUME NEW s, SlabHolds(s), NEW u, NEW dead, dead \subseteq s.occ,
         u.occ = s.occ \ dead, u.cls = s.cls
  PROVE  /\ Weight(u) = Weight(s) - Cardinality(dead) * s.cls
         /\ Weight(u) \in Int /\ Weight(s) \in Int
         /\ Cardinality(dead) \in Nat /\ s.cls \in Nat
<1>1. IsFiniteSet(s.occ) /\ IsFiniteSet(dead)
  BY OccFinite, FS_Subset
<1>2. Cardinality(u.occ) = Cardinality(s.occ) - Cardinality(s.occ \cap dead) /\ s.occ \cap dead = dead
  BY <1>1, FS_Difference
<1>3. PICK n, k, d \in Nat : n = Cardinality(s.occ) /\ k = s.cls /\ d = Cardinality(dead)
  BY <1>1, OccFinite, FS_CardinalityType
<1>4. (n - d) * k = n * k - d * k /\ n * k \in Int /\ d * k \in Int
  OBVIOUS
<1>5. Weight(s) = n * k /\ Weight(u) = (n - d) * k
  BY <1>2, <1>3 DEF Weight
<1> QED BY ONLY <1>3, <1>4, <1>5

LEMMA AllocAccount ==
  ASSUME SlabsInv, NEW c \in Classes, NEW t \in Descriptors, Alloc(c, t),
         bytes = Total(Weights(slab, Ids), Ids)
  PROVE  bytes' = Total(Weights(slab, Ids), Ids)'
<1>1. PICK b \in Nat \ {0} : \E s : AllocOf(c, t, b, s)
  BY AllocShape
<1>2. PICK s : AllocOf(c, t, b, s)
  BY <1>1
<1>3. SlabHolds(s) /\ ~Full(s) /\ s.cls = c /\ Ids' = Ids \cup {b}
  BY <1>2 DEF AllocOf
<1>4. PICK i : i = TakenSlot(s)
  OBVIOUS
<1>5. PICK black : black = BornBlack(b, i)
  OBVIOUS
<1>6. PICK u : u = Taken(s, i, t, black)
  OBVIOUS
<1>7. u.occ = s.occ \cup {i} /\ i \notin s.occ /\ u.cls = s.cls
  <2>1. black \in BOOLEAN
    BY <1>5 DEF BornBlack
  <2> QED BY <1>3, <1>4, <1>6, <2>1, TakenHolds
<1>8. slab'[b] = u
  BY <1>2, <1>4, <1>5, <1>6 DEF AllocOf
<1>9. Weight(u) = Weight(s) + c /\ Weight(u) \in Int /\ Weight(s) \in Int /\ c \in Nat
  BY <1>3, <1>7, WeightMore
<1>10. ASSUME NEW x \in Ids \ {b}
       PROVE  slab'[x].occ = slab[x].occ /\ slab'[x].cls = slab[x].cls
  <2>1. slab'[x] = slab[x] \/ slab'[x] = [slab[x] EXCEPT !.avail = FALSE]
    BY <1>2 DEF AllocOf
  <2>2. SlabHolds(slab[x])
    BY DEF SlabsInv
  <2>3. FALSE \in BOOLEAN
    OBVIOUS
  <2>4. /\ [slab[x] EXCEPT !.avail = FALSE].occ = slab[x].occ
        /\ [slab[x] EXCEPT !.avail = FALSE].cls = slab[x].cls
    BY ONLY <2>2, <2>3, AvailHolds
  <2> QED BY ONLY <2>1, <2>4
<1>11. bytes' = bytes + c
  BY DEF Alloc
<1>12. CASE b \in Ids
  <2>1. s = slab[b]
    BY <1>2, <1>12 DEF AllocOf
  <2>2. Ids' = Ids /\ Weight(slab'[b]) \in Int
    BY <1>3, <1>8, <1>9, <1>12
  <2>3. /\ Total(Weights(slab, Ids), Ids)'
              = Total(Weights(slab, Ids), Ids) - Weight(slab[b]) + Weight(slab'[b])
        /\ Total(Weights(slab, Ids), Ids) \in Int /\ Weight(slab[b]) \in Int
    BY <1>10, <1>12, <2>2, WeightsOne
  <2> QED BY <1>8, <1>9, <1>11, <2>1, <2>3
<1>13. CASE b \notin Ids
  <2>1. s.occ = {}
    BY <1>2, <1>13, NewSlabHolds DEF AllocOf
  <2>2. Weight(s) = 0
    <3>1. Cardinality(s.occ) = 0 /\ s.cls \in Int
      BY <1>3, <1>9, <2>1, FS_EmptySet
    <3> QED BY <3>1 DEF Weight
  <2>3. PICK I, J : I = Ids /\ J = Ids'
    OBVIOUS
  <2>4. PICK T : T = slab'
    OBVIOUS
  <2>5. PICK g, h : g = Weights(slab, I) /\ h = Weights(T, J)
    OBVIOUS
  <2>6. IsFiniteSet(I) /\ Numbers(g, I) /\ b \notin I /\ J = I \cup {b}
    BY <1>3, <1>13, <2>3, <2>5, IdsFinite
  <2>7. \A x \in I : g[x] = h[x]
    <3>1. \A x \in I : x \in J /\ x \in Ids \ {b}
      BY <2>3, <2>6
    <3>2. \A x \in I : T[x].occ = slab[x].occ /\ T[x].cls = slab[x].cls
      BY <1>10, <2>4, <3>1
    <3> QED BY ONLY <2>5, <3>1, <3>2 DEF Weights, Weight
  <2>8. h[b] = c
    <3>1. h[b] = Weight(u)
      BY <1>8, <2>4, <2>5, <2>6 DEF Weights
    <3> QED BY <1>9, <2>2, <3>1
  <2>9. Total(g, I) = Total(h, I)
    BY ONLY <2>6, <2>7, TotalSame
  <2>10. Total(h, J) = Total(h, I) + c
    <3>1. Numbers(h, I)
      BY <2>6, <2>7 DEF Numbers
    <3>2. h[b] \in Int
      BY <1>9, <2>8
    <3>3. Total(h, I \cup {b}) = Total(h, I) + h[b]
      BY ONLY <2>6, <3>1, <3>2, TotalMore
    <3> QED BY <2>6, <2>8, <3>3
  <2>11. bytes = Total(g, I)
    BY <2>3, <2>5
  <2>12. Total(Weights(slab, Ids), Ids)' = Total(h, J)
    BY <2>3, <2>4, <2>5
  <2> QED BY ONLY <1>11, <2>9, <2>10, <2>11, <2>12
<1> QED BY <1>12, <1>13

\* Some slots of a slab are freed.
LEMMA FreeAccount ==
  ASSUME SlabsInv, NEW b \in Ids, NEW dead, dead \subseteq slab[b].occ, Ids' = Ids,
         slab'[b].occ = slab[b].occ \ dead, slab'[b].cls = slab[b].cls,
         \A x \in Ids \ {b} : slab'[x].occ = slab[x].occ /\ slab'[x].cls = slab[x].cls,
         bytes = Total(Weights(slab, Ids), Ids),
         bytes' = bytes - Cardinality(dead) * slab[b].cls
  PROVE  bytes' = Total(Weights(slab, Ids), Ids)'
<1>1. SlabHolds(slab[b])
  BY DEF SlabsInv
<1>2. PICK s, u : s = slab[b] /\ u = slab'[b]
  OBVIOUS
<1>3. /\ Weight(u) = Weight(s) - Cardinality(dead) * s.cls
      /\ Weight(u) \in Int /\ Weight(s) \in Int
      /\ Cardinality(dead) \in Nat /\ s.cls \in Nat
  <2>1. SlabHolds(s) /\ dead \subseteq s.occ /\ u.occ = s.occ \ dead /\ u.cls = s.cls
    BY <1>1, <1>2
  <2> QED BY ONLY <2>1, WeightLess
<1>4. /\ Total(Weights(slab, Ids), Ids)'
            = Total(Weights(slab, Ids), Ids) - Weight(slab[b]) + Weight(slab'[b])
      /\ Total(Weights(slab, Ids), Ids) \in Int
  BY <1>2, <1>3, WeightsOne
<1>5. PICK k \in Int : k = Cardinality(dead) * s.cls
  BY <1>3
<1> QED BY <1>2, <1>3, <1>4, <1>5

\* The threshold of a region without live bytes.
LEMMA FirstThreshold == ThrUpd(0, 0) = Floor
<1>1. Floor \in Nat
  BY SlabsAssumption
<1>2. Larger(2 * 0, Floor) = Floor
  BY <1>1 DEF Larger
<1>3. Floor * 1 = Floor
  BY <1>1
<1> QED BY <1>1, <1>2, <1>3 DEF ThrUpd

LEMMA NothingWeighs ==
  ASSUME NEW T, NEW I, I = {}
  PROVE  Total(Weights(T, I), I) = 0
BY TotalNone

LEMMA AccountInit == Init => AccountInv
<1>1. SUFFICES ASSUME Init PROVE AccountInv
  OBVIOUS
<1>2. SlabsInv
  BY <1>1, SlabsInit
<1>3. slab = <<>> /\ bytes = 0 /\ live = 0 /\ scale = 0 /\ thr = Floor
  BY <1>1 DEF Init
<1>4. Ids = {}
  BY <1>3 DEF Ids
<1>5. Total(Weights(slab, Ids), Ids) = 0
  BY <1>4, NothingWeighs
<1>6. thr = ThrUpd(live, scale)
  BY <1>3, FirstThreshold
<1> QED BY <1>2, <1>3, <1>5, <1>6 DEF AccountInv

LEMMA SweepWordAccount ==
  ASSUME SlabsInv, SweepWord, bytes = Total(Weights(slab, Ids), Ids)
  PROVE  bytes' = Total(Weights(slab, Ids), Ids)'
<1>1. phase = "sweep" /\ swPos # <<>> /\ UNCHANGED hot
  BY DEF SweepWord
<1>2. swPos \in Seq(Ids \X Nat)
  BY <1>1 DEF SlabsInv, SweepInv
<1>3. Head(swPos) \in Ids \X Nat
  BY ONLY <1>1, <1>2
<1>4. PICK b \in Ids, w \in Nat : b = Head(swPos)[1] /\ w = Head(swPos)[2]
  BY <1>3
<1>5. PICK dead : dead = (slab[b].occ \ slab[b].mark) \cap SlotsOf(w)
  OBVIOUS
<1>6. PICK M : M = slab[b].mark \ SlotsOf(w)
  OBVIOUS
<1>7. SlabHolds(slab[b])
  BY DEF SlabsInv
<1>8. M \in SUBSET Slots /\ dead \subseteq slab[b].occ
  BY <1>5, <1>6, <1>7 DEF SlabHolds, IsSlab
<1>9. /\ slab' = [slab EXCEPT ![b] = [(IF dead = {} THEN slab[b] ELSE Freed(slab[b], dead)) EXCEPT
                                          !.mark = @ \ SlotsOf(w)]]
      /\ chain' = IF dead = {} THEN chain ELSE Pushed(b)
      /\ bytes' = bytes - Cardinality(dead) * slab[b].cls
  BY <1>4, <1>5 DEF SweepWord
<1>10. /\ Ids' = Ids
       /\ slab'[b].occ = slab[b].occ \ dead /\ slab'[b].cls = slab[b].cls
       /\ \A x \in Ids \ {b} : slab'[x].occ = slab[x].occ /\ slab'[x].cls = slab[x].cls
  <2>1. CASE dead = {}
    <3>1. slab' = [slab EXCEPT ![b] = [slab[b] EXCEPT !.mark = M]]
      BY <1>6, <1>9, <2>1
    <3>2. UNCHANGED <<chain, hot>>
      BY <1>1, <1>9, <2>1
    <3>3. /\ Ids' = Ids
          /\ \A x \in Ids : slab'[x].occ = slab[x].occ /\ slab'[x].cls = slab[x].cls
      BY ONLY SlabsInv, <1>8, <3>1, <3>2, MarkStep
    <3> QED BY <2>1, <3>3
  <2>2. CASE dead # {}
    <3>1. PICK u : u = Freed(slab[b], dead)
      OBVIOUS
    <3>2. u.mark = slab[b].mark
      BY <1>7, <1>8, <3>1, FreedHolds
    <3>3. PICK v : v = [u EXCEPT !.mark = M]
      OBVIOUS
    <3>4. slab' = [slab EXCEPT ![b] = v]
      BY <1>6, <1>9, <2>2, <3>1, <3>2, <3>3
    <3>5. chain' = Pushed(b)
      BY <1>9, <2>2
    <3>6. v = [Freed(slab[b], dead) EXCEPT !.mark = M] \/ v = Freed(slab[b], dead)
      BY <3>1, <3>3
    <3>7. UNCHANGED hot
      BY <1>1
    <3>8. /\ Ids' = Ids
          /\ \A x \in Ids : /\ slab'[x].cls = slab[x].cls
                            /\ slab'[x].occ = IF x = b THEN slab[b].occ \ dead ELSE slab[x].occ
      BY ONLY SlabsInv, <1>8, <3>4, <3>5, <3>6, <3>7, FreeStep
    <3> QED BY <3>8
  <2> QED BY <2>1, <2>2
<1> QED BY <1>8, <1>9, <1>10, FreeAccount

LEMMA ReleaseAccount ==
  ASSUME SlabsInv, NEW b \in Ids, NEW i \in Slots, Release(b, i),
         bytes = Total(Weights(slab, Ids), Ids)
  PROVE  bytes' = Total(Weights(slab, Ids), Ids)'
<1>1. UNCHANGED hot /\ chain' = Pushed(b) /\ i \in slab[b].occ /\ bytes' = bytes - slab[b].cls
  BY DEF Release
<1>2. PICK v : v = Freed(slab[b], {i})
  OBVIOUS
<1>3. slab' = [slab EXCEPT ![b] = v]
  BY <1>2 DEF Release
<1>4. PICK dead : dead = {i}
  OBVIOUS
<1>5. PICK M : M = {}
  OBVIOUS
<1>6. /\ dead \subseteq slab[b].occ /\ M \in SUBSET Slots
      /\ v = [Freed(slab[b], dead) EXCEPT !.mark = M] \/ v = Freed(slab[b], dead)
  BY <1>1, <1>2, <1>4, <1>5
<1>7. /\ Ids' = Ids
      /\ \A x \in Ids : /\ slab'[x].cls = slab[x].cls
                        /\ slab'[x].occ = IF x = b THEN slab[b].occ \ dead ELSE slab[x].occ
  <2>1. chain' = Pushed(b) /\ UNCHANGED hot
    BY <1>1
  <2> QED BY ONLY SlabsInv, <1>3, <1>6, <2>1, FreeStep
<1>8. bytes' = bytes - Cardinality(dead) * slab[b].cls
  <2>1. SlabHolds(slab[b])
    BY DEF SlabsInv
  <2>2. Cardinality(dead) = 1 /\ slab[b].cls \in Nat
    BY <1>4, <2>1, OccFinite, FS_Singleton
  <2> QED BY <1>1, <2>2
<1> QED BY <1>6, <1>7, <1>8, FreeAccount

LEMMA AccountStep == AccountInv /\ [Next]_vars => AccountInv'
<1>1. SUFFICES ASSUME AccountInv, [Next]_vars
               PROVE  AccountInv'
  OBVIOUS
<1>2. SlabsInv /\ bytes = Total(Weights(slab, Ids), Ids) /\ thr = ThrUpd(live, scale)
  BY <1>1 DEF AccountInv
<1>3. SlabsInv'
  BY ONLY <1>1, <1>2, SlabsStep
<1>4. SUFFICES /\ bytes' = Total(Weights(slab, Ids), Ids)'
               /\ thr' = ThrUpd(live', scale')
  BY <1>3 DEF AccountInv, ThrUpd, Larger
<1> DEFINE Paced == bytes' = Total(Weights(slab, Ids), Ids)' /\ thr' = ThrUpd(live', scale')
<1>5. ASSUME NEW c \in Classes, NEW t \in Descriptors, Alloc(c, t)
      PROVE  Paced
  <2>1. UNCHANGED <<live, scale, thr>>
    BY <1>5 DEF Alloc
  <2>2. bytes' = Total(Weights(slab, Ids), Ids)'
    BY ONLY <1>2, <1>5, AllocAccount
  <2> QED BY <1>2, <2>1, <2>2
<1>6. ASSUME UNCHANGED <<live, scale, thr, bytes>>, Ids' = Ids,
             \A x \in Ids : slab'[x].occ = slab[x].occ /\ slab'[x].cls = slab[x].cls
      PROVE  Paced
  <2>1. Total(Weights(slab, Ids), Ids)' = Total(Weights(slab, Ids), Ids)
    BY ONLY <1>2, <1>6, WeightsKept
  <2> QED BY <1>2, <1>6, <2>1
<1>7. ASSUME NEW b \in Ids, NEW i \in Slots, Walk(b, i)
      PROVE  Paced
  <2>1. slab' = [slab EXCEPT ![b].mark = @ \cup {i}] /\ UNCHANGED <<chain, hot, phase, swPos>>
    BY <1>7 DEF Walk
  <2>2. Ids' = Ids /\ \A x \in Ids : slab'[x].occ = slab[x].occ /\ slab'[x].cls = slab[x].cls
    BY ONLY <1>2, <1>7, <2>1, BlackenStep
  <2>3. UNCHANGED <<live, scale, thr, bytes>>
    BY <1>7 DEF Walk
  <2> QED BY <1>6, <2>2, <2>3
<1>8. ASSUME NEW b \in Ids, NEW i \in Slots, Shade(b, i)
      PROVE  Paced
  <2>1. slab' = [slab EXCEPT ![b].mark = @ \cup {i}] /\ UNCHANGED <<chain, hot, phase, swPos>>
    BY <1>8 DEF Shade
  <2>2. Ids' = Ids /\ \A x \in Ids : slab'[x].occ = slab[x].occ /\ slab'[x].cls = slab[x].cls
    BY ONLY <1>2, <1>8, <2>1, BlackenStep
  <2>3. UNCHANGED <<live, scale, thr, bytes>>
    BY <1>8 DEF Shade, pace
  <2> QED BY <1>6, <2>2, <2>3
<1>9. ASSUME NEW b \in Ids, NEW i \in Slots, Release(b, i)
      PROVE  Paced
  <2>1. UNCHANGED <<live, scale, thr>>
    BY <1>9 DEF Release
  <2>2. bytes' = Total(Weights(slab, Ids), Ids)'
    BY ONLY <1>2, <1>9, ReleaseAccount
  <2> QED BY <1>2, <2>1, <2>2
<1>10. CASE SweepWord
  <2>1. UNCHANGED <<live, scale, thr>>
    BY <1>10 DEF SweepWord
  <2>2. bytes' = Total(Weights(slab, Ids), Ids)'
    BY ONLY <1>2, <1>10, SweepWordAccount
  <2> QED BY <1>2, <2>1, <2>2
<1>11. ASSUME UNCHANGED <<slab, bytes>>
       PROVE  bytes' = Total(Weights(slab, Ids), Ids)'
  BY <1>2, <1>11 DEF Ids
<1>12. CASE Begin
  BY <1>2, <1>11, <1>12 DEF Begin
<1>13. CASE Finish
  BY <1>11, <1>13 DEF Finish
<1>14. CASE SweepEnd
  BY <1>11, <1>14 DEF SweepEnd
<1>15. CASE RegionFree
  <2>1. slab' = <<>> /\ bytes' = 0 /\ live' = 0 /\ scale' = 0 /\ thr' = Floor
    BY <1>15 DEF RegionFree
  <2>2. Ids' = {}
    BY <2>1 DEF Ids
  <2>3. Total(Weights(slab, Ids), Ids)' = 0
    BY <2>2, NothingWeighs
  <2> QED BY <2>1, <2>3, FirstThreshold
<1>16. CASE UNCHANGED vars
  BY <1>2, <1>11, <1>16 DEF vars, pace
<1> QED BY <1>1, <1>5, <1>7, <1>8, <1>9, <1>10, <1>12, <1>13, <1>14, <1>15, <1>16, SlabsCases

\* The bytes a region is charged with are those of its slots in use, and the
\* threshold is the one of its live bytes and its scale, in every state a
\* region is in (extc_rc_alloc, extc_rc_freeSlotWord, extc_rc_thrUpd).
THEOREM RegionBytesExact == Spec => []AccountExact
<1>1. AccountInv => AccountExact
  <2>1. SUFFICES ASSUME AccountInv PROVE AccountExact
    OBVIOUS
  <2>2. bytes = MapThenSumSet(LAMBDA b : Cardinality(slab[b].occ) * slab[b].cls, Ids)
    BY <2>1, WeightsSum DEF AccountInv
  <2> QED BY <2>1, <2>2 DEF AccountInv, AccountExact
<1> QED BY <1>1, AccountInit, AccountStep, PTL DEF Spec
=============================================================================
