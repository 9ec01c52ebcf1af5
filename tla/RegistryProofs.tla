--------------------------- MODULE RegistryProofs ---------------------------
(***************************************************************************)
(* Proofs about the slab registry (Registry): open addressing with         *)
(* deletions that move entries back keeps every entry where its probe      *)
(* finds it, and lookups that take no lock answer what the registry says.  *)
(***************************************************************************)
EXTENDS Registry, SharedLemmas

-----------------------------------------------------------------------------
(***************************************************************************)
(* Cells and distances.                                                    *)
(***************************************************************************)
LEMMA DistIs ==
  ASSUME NEW cap \in Nat \ {0}, NEW i \in 0..(cap - 1), NEW j \in 0..(cap - 1)
  PROVE  Dist(i, j, cap) = IF i <= j THEN j - i ELSE j - i + cap
<1>1. PICK a \in Int : a = j - i
  OBVIOUS
<1>2. CASE i <= j
  <2>1. a \in 0..(cap - 1) /\ a = 0 * cap + a /\ 0 \in Int
    BY <1>1, <1>2
  <2>2. a % cap = a
    BY ONLY <2>1, cap \in Nat \ {0}, a \in Int, RemainderIs
  <2> QED BY <1>1, <1>2, <2>2 DEF Dist
<1>3. CASE ~(i <= j)
  <2>1. PICK r \in 0..(cap - 1) : r = a + cap
    BY <1>1, <1>3
  <2>2. a = (-1) * cap + r /\ -1 \in Int
    BY <2>1
  <2>3. a % cap = r
    BY ONLY <2>2, cap \in Nat \ {0}, a \in Int, r \in 0..(cap - 1), RemainderIs
  <2> QED BY <1>1, <1>3, <2>1, <2>3 DEF Dist
<1> QED BY <1>2, <1>3

LEMMA NextCell ==
  ASSUME NEW cap \in Nat \ {0}, NEW j \in 0..(cap - 1)
  PROVE  (j + 1) % cap = IF j + 1 < cap THEN j + 1 ELSE 0
<1>1. PICK a \in Int : a = j + 1
  OBVIOUS
<1>2. CASE a < cap
  <2>1. a \in 0..(cap - 1) /\ a = 0 * cap + a /\ 0 \in Int
    BY <1>1, <1>2
  <2>2. a % cap = a
    BY ONLY <2>1, cap \in Nat \ {0}, a \in Int, RemainderIs
  <2> QED BY <1>1, <1>2, <2>2
<1>3. CASE ~(a < cap)
  <2>1. PICK r \in 0..(cap - 1) : r = 0
    OBVIOUS
  <2>2. a = 1 * cap + r /\ 1 \in Int
    BY <1>1, <1>3, <2>1
  <2>3. a % cap = r
    BY ONLY <2>2, cap \in Nat \ {0}, a \in Int, r \in 0..(cap - 1), RemainderIs
  <2> QED BY <1>1, <1>3, <2>1, <2>3
<1> QED BY <1>2, <1>3

LEMMA ProbeRange ==
  ASSUME NEW cap \in Nat \ {0}, NEW k \in Keys
  PROVE  ProbeOf(k, cap) \in 0..(cap - 1)
<1>1. PICK a \in Nat : a = Hash[k]
  BY RegistryAssumption
<1>2. a % cap \in 0..(cap - 1)
  BY ONLY a \in Nat, cap \in Nat \ {0}
<1> QED BY <1>1, <1>2 DEF ProbeOf

\* The cells in probing order from h: distances tell cells apart.
LEMMA Distances ==
  ASSUME NEW cap \in Nat \ {0}, NEW h \in 0..(cap - 1)
  PROVE  /\ \A i \in 0..(cap - 1) : Dist(h, i, cap) \in 0..(cap - 1)
         /\ \A i, j \in 0..(cap - 1) : Dist(h, i, cap) = Dist(h, j, cap) => i = j
         /\ Dist(h, h, cap) = 0
<1>1. ASSUME NEW i \in 0..(cap - 1)
      PROVE  Dist(h, i, cap) \in 0..(cap - 1)
  BY <1>1, DistIs
<1>2. ASSUME NEW i \in 0..(cap - 1), NEW j \in 0..(cap - 1), Dist(h, i, cap) = Dist(h, j, cap)
      PROVE  i = j
  <2>1. Dist(h, i, cap) = IF h <= i THEN i - h ELSE i - h + cap
    BY DistIs
  <2>2. Dist(h, j, cap) = IF h <= j THEN j - h ELSE j - h + cap
    BY DistIs
  <2>3. PICK x \in 0..(cap - 1), y \in 0..(cap - 1), z \in 0..(cap - 1) : x = i /\ y = j /\ z = h
    OBVIOUS
  <2>4. (IF z <= x THEN x - z ELSE x - z + cap) = (IF z <= y THEN y - z ELSE y - z + cap)
    BY ONLY <1>2, <2>1, <2>2, <2>3
  <2>5. x = y
    BY ONLY <2>4, cap \in Nat \ {0}, x \in 0..(cap - 1), y \in 0..(cap - 1), z \in 0..(cap - 1)
  <2> QED BY ONLY <2>3, <2>5
<1>3. Dist(h, h, cap) = 0
  BY DistIs
<1> QED BY <1>1, <1>2, <1>3

\* The nearest cell of a set.
LEMMA Nearest ==
  ASSUME NEW cap \in Nat \ {0}, NEW h \in 0..(cap - 1), NEW D, D \subseteq 0..(cap - 1), D # {}
  PROVE  \E i \in D : \A j \in D : Dist(h, i, cap) <= Dist(h, j, cap)
<1>1. PICK E : E = {Dist(h, i, cap) : i \in D}
  OBVIOUS
<1>2. \A i \in D : Dist(h, i, cap) \in Nat
  BY Distances
<1>3. E \subseteq Nat /\ E # {}
  BY <1>1, <1>2
<1>4. PICK m \in E : \A e \in E : m <= e
  BY ONLY <1>3, NatMin
<1> QED BY <1>1, <1>4

\* A cell beyond i in probing order from h.
LEMMA Beyond ==
  ASSUME NEW cap \in Nat \ {0}, NEW h \in 0..(cap - 1), NEW i \in 0..(cap - 1), NEW c \in 0..(cap - 1),
         Dist(h, i, cap) < Dist(h, c, cap),
         NEW y \in 0..(cap - 1), Dist(i, y, cap) < Dist(i, c, cap)
  PROVE  Dist(h, y, cap) < Dist(h, c, cap)
<1>1. Dist(h, i, cap) = IF h <= i THEN i - h ELSE i - h + cap
  BY DistIs
<1>2. Dist(h, c, cap) = IF h <= c THEN c - h ELSE c - h + cap
  BY DistIs
<1>3. Dist(h, y, cap) = IF h <= y THEN y - h ELSE y - h + cap
  BY DistIs
<1>4. Dist(i, y, cap) = IF i <= y THEN y - i ELSE y - i + cap
  BY DistIs
<1>5. Dist(i, c, cap) = IF i <= c THEN c - i ELSE c - i + cap
  BY DistIs
<1>6. PICK m \in Int, u \in Int, v \in Int, w \in Int, z \in Int :
        m = cap /\ u = h /\ v = i /\ w = c /\ z = y
  OBVIOUS
<1>7. /\ 0 <= u /\ u < m /\ 0 <= v /\ v < m /\ 0 <= w /\ w < m /\ 0 <= z /\ z < m
      /\ (IF u <= v THEN v - u ELSE v - u + m) < (IF u <= w THEN w - u ELSE w - u + m)
      /\ (IF v <= z THEN z - v ELSE z - v + m) < (IF v <= w THEN w - v ELSE w - v + m)
  BY <1>1, <1>2, <1>4, <1>5, <1>6
<1>8. (IF u <= z THEN z - u ELSE z - u + m) < (IF u <= w THEN w - u ELSE w - u + m)
  BY ONLY <1>7, m \in Int, u \in Int, v \in Int, w \in Int, z \in Int
<1> QED BY ONLY <1>2, <1>3, <1>6, <1>8

\* The cell after j is the next in probing order, until the order comes round.
LEMMA NextDistance ==
  ASSUME NEW cap \in Nat \ {0}, NEW i \in 0..(cap - 1), NEW j \in 0..(cap - 1),
         NEW q, q = (j + 1) % cap
  PROVE  /\ q \in 0..(cap - 1)
         /\ q # i => Dist(i, q, cap) = Dist(i, j, cap) + 1
         /\ q = i => Dist(i, j, cap) = cap - 1
<1>1. q = IF j + 1 < cap THEN j + 1 ELSE 0
  BY NextCell
<1>2. PICK r \in 0..(cap - 1) : r = q
  BY <1>1
<1>3. Dist(i, j, cap) = IF i <= j THEN j - i ELSE j - i + cap
  BY DistIs
<1>4. Dist(i, r, cap) = IF i <= r THEN r - i ELSE r - i + cap
  BY DistIs
<1>5. PICK x \in 0..(cap - 1), y \in 0..(cap - 1) : x = i /\ y = j
  OBVIOUS
<1>6. r = IF y + 1 < cap THEN y + 1 ELSE 0
  BY <1>1, <1>2, <1>5
<1>7. r # x => (IF x <= r THEN r - x ELSE r - x + cap) = (IF x <= y THEN y - x ELSE y - x + cap) + 1
  BY ONLY <1>6, cap \in Nat \ {0}, x \in 0..(cap - 1), y \in 0..(cap - 1), r \in 0..(cap - 1)
<1>8. r = x => (IF x <= y THEN y - x ELSE y - x + cap) = cap - 1
  BY ONLY <1>6, cap \in Nat \ {0}, x \in 0..(cap - 1), y \in 0..(cap - 1), r \in 0..(cap - 1)
<1> QED BY ONLY <1>2, <1>3, <1>4, <1>5, <1>7, <1>8, r \in 0..(cap - 1)

\* Knuth's condition in terms of distances.
LEMMA MovesIs ==
  ASSUME NEW cap \in Nat \ {0}, NEW h \in 0..(cap - 1), NEW i \in 0..(cap - 1), NEW j \in 0..(cap - 1),
         i # j
  PROVE  Moves(h, i, j) <=> Dist(h, i, cap) < Dist(h, j, cap)
<1>1. Dist(h, i, cap) = IF h <= i THEN i - h ELSE i - h + cap
  BY DistIs
<1>2. Dist(h, j, cap) = IF h <= j THEN j - h ELSE j - h + cap
  BY DistIs
<1>3. Moves(h, i, j) <=> IF i <= j THEN h <= i \/ h > j ELSE h <= i /\ h > j
  BY DEF Moves
<1>4. PICK x \in 0..(cap - 1), y \in 0..(cap - 1), z \in 0..(cap - 1) : x = i /\ y = j /\ z = h
  OBVIOUS
<1>5. (IF x <= y THEN z <= x \/ z > y ELSE z <= x /\ z > y)
      <=> (IF z <= x THEN x - z ELSE x - z + cap) < (IF z <= y THEN y - z ELSE y - z + cap)
  BY ONLY <1>4, i # j, cap \in Nat \ {0}, x \in 0..(cap - 1), y \in 0..(cap - 1), z \in 0..(cap - 1)
<1> QED BY ONLY <1>1, <1>2, <1>3, <1>4, <1>5

-----------------------------------------------------------------------------
(***************************************************************************)
(* A table of cap cells that holds the keys S, m of them.                  *)
(***************************************************************************)
Entries == Keys \cup {None}
Used(tab, cap) == {c \in 0..(cap - 1) : tab[c] # None}
Held(tab, cap) == {tab[c] : c \in 0..(cap - 1)} \ {None}

\* The probe of the entry at cell c meets no empty cell before c.
Reaches(tab, cap, c) ==
  \A x \in 0..(cap - 1) :
     Dist(ProbeOf(tab[c], cap), x, cap) < Dist(ProbeOf(tab[c], cap), c, cap) => tab[x] # None

Table(tab, cap, S, m) ==
  /\ cap \in Nat /\ cap >= 2 /\ m \in Nat /\ 2 * m <= cap
  /\ tab \in [0..(cap - 1) -> Entries]
  /\ \A c \in 0..(cap - 1) : tab[c] # None => Reaches(tab, cap, c)
  /\ \A c, d \in 0..(cap - 1) : tab[c] = tab[d] /\ tab[c] # None => c = d
  /\ S = Held(tab, cap)
  /\ IsFiniteSet(S) /\ Cardinality(S) = m /\ Cardinality(Used(tab, cap)) = m

LEMMA CellsFinite ==
  ASSUME NEW cap \in Nat \ {0}
  PROVE  /\ IsFiniteSet(0..(cap - 1)) /\ Cardinality(0..(cap - 1)) = cap
         /\ \A tab : IsFiniteSet(Used(tab, cap))
<1>1. 0 \in Int /\ cap - 1 \in Int /\ 0 <= cap - 1 /\ (cap - 1) - 0 + 1 = cap
  OBVIOUS
<1>2. IsFiniteSet(0..(cap - 1)) /\ Cardinality(0..(cap - 1)) = cap
  BY ONLY <1>1, FS_Interval
<1>3. \A tab : Used(tab, cap) \subseteq 0..(cap - 1)
  BY DEF Used
<1> QED BY ONLY <1>2, <1>3, FS_Subset

\* Where the probe from h ends in a table with an empty cell.
LEMMA HoleFromIs ==
  ASSUME NEW cap \in Nat \ {0}, NEW h \in 0..(cap - 1), NEW tab, NEW m \in Nat, m < cap,
         Cardinality(Used(tab, cap)) = m
  PROVE  /\ HoleFrom(tab, cap, h) \in 0..(cap - 1) /\ tab[HoleFrom(tab, cap, h)] = None
         /\ \A x \in 0..(cap - 1) :
              Dist(h, x, cap) < Dist(h, HoleFrom(tab, cap, h), cap) => tab[x] # None
<1>1. PICK E : E = {c \in 0..(cap - 1) : tab[c] = None}
  OBVIOUS
<1>2. E # {}
  <2>1. SUFFICES ASSUME E = {} PROVE FALSE
    OBVIOUS
  <2>2. Used(tab, cap) = 0..(cap - 1)
    BY <1>1, <2>1 DEF Used
  <2> QED BY <2>2, CellsFinite
<1>3. E \subseteq 0..(cap - 1)
  BY <1>1
<1>4. PICK i \in E : \A j \in E : Dist(h, i, cap) <= Dist(h, j, cap)
  BY ONLY <1>2, <1>3, cap \in Nat \ {0}, h \in 0..(cap - 1), Nearest
<1>5. PICK p : p = HoleFrom(tab, cap, h)
  OBVIOUS
<1>6. /\ p \in 0..(cap - 1) /\ tab[p] = None
      /\ \A q \in 0..(cap - 1) : tab[q] = None => Dist(h, p, cap) <= Dist(h, q, cap)
  <2>1. /\ i \in 0..(cap - 1) /\ tab[i] = None
        /\ \A q \in 0..(cap - 1) : tab[q] = None => Dist(h, i, cap) <= Dist(h, q, cap)
    BY ONLY <1>1, <1>4
  <2> QED BY ONLY <1>5, <2>1 DEF HoleFrom
<1>7. \A x \in 0..(cap - 1) : Dist(h, x, cap) \in Int
  BY Distances
<1>8. \A x \in 0..(cap - 1) : Dist(h, x, cap) < Dist(h, p, cap) => tab[x] # None
  BY <1>6, <1>7
<1> QED BY <1>5, <1>6, <1>8

\* Where the probe for a key in the table ends.
LEMMA SlotOfPresent ==
  ASSUME NEW tab, NEW cap, NEW S, NEW m, Table(tab, cap, S, m), NEW k \in S
  PROVE  /\ SlotOf(tab, cap, k) \in 0..(cap - 1) /\ tab[SlotOf(tab, cap, k)] = k
         /\ k \in Keys
<1>1. /\ cap \in Nat \ {0} /\ tab \in [0..(cap - 1) -> Entries] /\ k # None
      /\ \A c, d \in 0..(cap - 1) : tab[c] = tab[d] /\ tab[c] # None => c = d
  BY DEF Table, Held
<1>2. PICK c \in 0..(cap - 1) : tab[c] = k
  BY DEF Table, Held
<1>3. k \in Keys
  BY <1>1, <1>2 DEF Entries
<1>4. PICK h \in 0..(cap - 1) : h = ProbeOf(k, cap)
  BY <1>1, <1>3, ProbeRange
<1>5. \A x \in 0..(cap - 1) : Dist(h, x, cap) < Dist(h, c, cap) => tab[x] # None
  <2>1. Reaches(tab, cap, c)
    BY <1>1, <1>2 DEF Table
  <2> QED BY ONLY <1>2, <1>4, <2>1 DEF Reaches
<1>6. /\ \A x \in 0..(cap - 1) : Dist(h, x, cap) \in Int
      /\ \A x, y \in 0..(cap - 1) : Dist(h, x, cap) = Dist(h, y, cap) => x = y
  <2>1. \A x \in 0..(cap - 1) : Dist(h, x, cap) \in 0..(cap - 1)
    BY <1>1, Distances
  <2>2. \A x, y \in 0..(cap - 1) : Dist(h, x, cap) = Dist(h, y, cap) => x = y
    BY <1>1, Distances
  <2> QED BY ONLY <1>1, <2>1, <2>2
<1>7. \A j \in 0..(cap - 1) : tab[j] \in {None, k} => Dist(h, c, cap) <= Dist(h, j, cap)
  <2>1. ASSUME NEW j \in 0..(cap - 1), tab[j] \in {None, k}
        PROVE  Dist(h, c, cap) <= Dist(h, j, cap)
    <3>1. CASE tab[j] = None
      BY <1>5, <1>6, <3>1
    <3>2. CASE tab[j] = k
      <4>1. j = c
        BY <1>1, <1>2, <3>2
      <4> QED BY <1>6, <4>1
    <3> QED BY <2>1, <3>1, <3>2
  <2> QED BY <2>1
<1>8. PICK p : p = SlotOf(tab, cap, k)
  OBVIOUS
<1>9. /\ p \in 0..(cap - 1) /\ tab[p] \in {None, k}
      /\ \A j \in 0..(cap - 1) : tab[j] \in {None, k} => Dist(h, p, cap) <= Dist(h, j, cap)
  BY ONLY <1>2, <1>4, <1>7, <1>8 DEF SlotOf
<1>10. Dist(h, p, cap) = Dist(h, c, cap)
  <2>1. Dist(h, p, cap) <= Dist(h, c, cap) /\ Dist(h, c, cap) <= Dist(h, p, cap)
    BY ONLY <1>2, <1>7, <1>9
  <2> QED BY ONLY <1>6, <1>9, <2>1, c \in 0..(cap - 1)
<1>11. p = c
  BY <1>6, <1>9, <1>10
<1> QED BY <1>2, <1>3, <1>8, <1>11

\* Where the probe for a key not in the table ends: where the key will go.
LEMMA SlotOfAbsent ==
  ASSUME NEW tab, NEW cap, NEW S, NEW m, Table(tab, cap, S, m), NEW k \in Keys, k \notin S
  PROVE  /\ SlotOf(tab, cap, k) \in 0..(cap - 1) /\ tab[SlotOf(tab, cap, k)] = None
         /\ \A x \in 0..(cap - 1) :
              Dist(ProbeOf(k, cap), x, cap) < Dist(ProbeOf(k, cap), SlotOf(tab, cap, k), cap)
                => tab[x] # None
<1>1. /\ cap \in Nat \ {0} /\ Cardinality(Used(tab, cap)) = m /\ m \in Nat /\ m < cap
  BY DEF Table
<1>2. PICK h \in 0..(cap - 1) : h = ProbeOf(k, cap)
  BY <1>1, ProbeRange
<1>3. \A c \in 0..(cap - 1) : tab[c] # k
  BY RegistryAssumption DEF Table, Held
<1>4. PICK c \in 0..(cap - 1) :
        tab[c] = None /\ \A x \in 0..(cap - 1) : Dist(h, x, cap) < Dist(h, c, cap) => tab[x] # None
  BY <1>1, HoleFromIs
<1>5. \A x \in 0..(cap - 1) : Dist(h, x, cap) \in Int
  BY <1>1, Distances
<1>6. \A j \in 0..(cap - 1) : tab[j] \in {None, k} => Dist(h, c, cap) <= Dist(h, j, cap)
  BY <1>3, <1>4, <1>5
<1>7. PICK p : p = SlotOf(tab, cap, k)
  OBVIOUS
<1>8. /\ p \in 0..(cap - 1) /\ tab[p] \in {None, k}
      /\ \A j \in 0..(cap - 1) : tab[j] \in {None, k} => Dist(h, p, cap) <= Dist(h, j, cap)
  BY ONLY <1>2, <1>4, <1>6, <1>7 DEF SlotOf
<1>9. tab[p] = None
  BY <1>3, <1>8
<1>10. \A x \in 0..(cap - 1) : Dist(h, x, cap) < Dist(h, p, cap) => tab[x] # None
  BY <1>5, <1>8
<1> QED BY ONLY <1>2, <1>7, <1>8, <1>9, <1>10

\* A key enters the table at the end of its probe.
LEMMA TableAdd ==
  ASSUME NEW tab, NEW cap, NEW S, NEW m, Table(tab, cap, S, m), 2 * (m + 1) <= cap,
         NEW k \in Keys, k \notin S, NEW p \in 0..(cap - 1), tab[p] = None,
         \A x \in 0..(cap - 1) :
            Dist(ProbeOf(k, cap), x, cap) < Dist(ProbeOf(k, cap), p, cap) => tab[x] # None,
         NEW u, u = [tab EXCEPT ![p] = k]
  PROVE  Table(u, cap, S \cup {k}, m + 1)
<1>1. /\ cap \in Nat \ {0} /\ cap >= 2 /\ m \in Nat /\ tab \in [0..(cap - 1) -> Entries]
      /\ \A c \in 0..(cap - 1) : tab[c] # None => Reaches(tab, cap, c)
      /\ \A c, d \in 0..(cap - 1) : tab[c] = tab[d] /\ tab[c] # None => c = d
      /\ S = Held(tab, cap)
      /\ IsFiniteSet(S) /\ Cardinality(S) = m /\ Cardinality(Used(tab, cap)) = m
  BY DEF Table
<1>2. k # None
  BY RegistryAssumption
<1>3. /\ u \in [0..(cap - 1) -> Entries] /\ u[p] = k
      /\ \A c \in 0..(cap - 1) : c # p => u[c] = tab[c]
  BY <1>1 DEF Entries
<1>4. \A c \in 0..(cap - 1) : tab[c] # k
  BY <1>1, <1>2 DEF Held
<1>5. ASSUME NEW c \in 0..(cap - 1), u[c] # None
      PROVE  Reaches(u, cap, c)
  <2>1. \A x \in 0..(cap - 1) : tab[x] # None => u[x] # None
    BY <1>2, <1>3
  <2>2. CASE c = p
    <3>1. \A x \in 0..(cap - 1) :
             Dist(ProbeOf(k, cap), x, cap) < Dist(ProbeOf(k, cap), p, cap) => u[x] # None
      BY <2>1
    <3> QED BY ONLY <1>3, <2>2, <3>1 DEF Reaches
  <2>3. CASE c # p
    <3>1. u[c] = tab[c] /\ tab[c] # None
      BY <1>3, <1>5, <2>3
    <3>2. Reaches(tab, cap, c)
      BY <1>1, <3>1
    <3> QED BY ONLY <2>1, <3>1, <3>2 DEF Reaches
  <2> QED BY <2>2, <2>3
<1>6. ASSUME NEW c \in 0..(cap - 1), NEW d \in 0..(cap - 1), u[c] = u[d], u[c] # None
      PROVE  c = d
  BY <1>1, <1>3, <1>4, <1>6
<1>7. S \cup {k} = Held(u, cap)
  <2>1. ASSUME NEW e \in S
        PROVE  e # None /\ \E c \in 0..(cap - 1) : u[c] = e
    <3>1. PICK c \in 0..(cap - 1) : tab[c] = e /\ e # None
      BY <1>1, <2>1 DEF Held
    <3>2. c # p
      BY <3>1
    <3> QED BY <1>3, <3>1, <3>2
  <2>2. ASSUME NEW c \in 0..(cap - 1), u[c] # None
        PROVE  u[c] \in S \cup {k}
    <3>1. CASE c = p
      BY <1>3, <3>1
    <3>2. CASE c # p
      BY <1>1, <1>3, <2>2, <3>2 DEF Held
    <3> QED BY <3>1, <3>2
  <2> QED BY ONLY <1>2, <1>3, <2>1, <2>2, p \in 0..(cap - 1) DEF Held
<1>8. Cardinality(S \cup {k}) = m + 1 /\ IsFiniteSet(S \cup {k})
  BY <1>1, FS_AddElement
<1>9. Cardinality(Used(u, cap)) = m + 1
  <2>1. Used(u, cap) = Used(tab, cap) \cup {p} /\ p \notin Used(tab, cap)
    BY <1>2, <1>3 DEF Used
  <2>2. IsFiniteSet(Used(tab, cap))
    BY <1>1, CellsFinite
  <2>3. Cardinality(Used(tab, cap) \cup {p}) = Cardinality(Used(tab, cap)) + 1
    BY ONLY <2>1, <2>2, FS_AddElement
  <2> QED BY <1>1, <2>1, <2>3
<1> QED BY ONLY <1>1, <1>3, <1>5, <1>6, <1>7, <1>8, <1>9, 2 * (m + 1) <= cap DEF Table

\* The entries of the cells before i have entered table fill[i].
Fills(fill, m, nc, tab) ==
  fill = [i \in 0..m |-> IF i = 0 THEN [c \in 0..(nc - 1) |-> None]
                         ELSE IF tab[i - 1] = None THEN fill[i - 1]
                         ELSE Rehash(fill[i - 1], nc, tab[i - 1])]

LEMMA FillExists ==
  ASSUME NEW m \in Nat, NEW nc, NEW tab
  PROVE  \E fill : Fills(fill, m, nc, tab)
<1> DEFINE D == {k \in Nat : ~ \E fill : Fills(fill, k, nc, tab)}
<1>1. SUFFICES ASSUME D # {} PROVE FALSE
  BY m \in Nat
<1>2. D \subseteq Nat
  OBVIOUS
<1>3. PICK k \in D : \A x \in D : k <= x
  <2> HIDE DEF D
  <2> QED BY ONLY <1>1, <1>2, NatMin
<1>4. k \in Nat /\ ~ \E fill : Fills(fill, k, nc, tab)
  OBVIOUS
<1>5. PICK e : e = [c \in 0..(nc - 1) |-> None]
  OBVIOUS
<1>6. CASE k = 0
  <2>1. Fills([i \in 0..0 |-> e], 0, nc, tab)
    BY <1>5 DEF Fills
  <2> QED BY <1>4, <1>6, <2>1
<1>7. CASE k # 0
  <2>1. k - 1 \in Nat /\ k - 1 \notin D
    BY <1>3, <1>4, <1>7
  <2>2. PICK f : Fills(f, k - 1, nc, tab)
    BY <2>1
  <2>3. PICK z : z = IF tab[k - 1] = None THEN f[k - 1] ELSE Rehash(f[k - 1], nc, tab[k - 1])
    OBVIOUS
  <2> DEFINE g == [i \in 0..k |-> IF i = k THEN z ELSE f[i]]
  <2>4. g[k] = z /\ (\A i \in 0..k : i # k => g[i] = f[i]) /\ g = [i \in 0..k |-> g[i]]
    BY <1>4
  <2> HIDE DEF g
  <2>5. ASSUME NEW i \in 0..k
        PROVE  g[i] = IF i = 0 THEN e ELSE IF tab[i - 1] = None THEN g[i - 1]
                      ELSE Rehash(g[i - 1], nc, tab[i - 1])
    <3>1. CASE i = k
      <4>1. k - 1 \in 0..k /\ k - 1 # k
        BY <2>1
      <4>2. g[k - 1] = f[k - 1]
        BY <2>4, <4>1
      <4> QED BY ONLY <1>7, <2>3, <2>4, <3>1, <4>2
    <3>2. CASE i # k
      <4>1. i \in 0..(k - 1)
        BY <1>4, <3>2
      <4>2. f[i] = IF i = 0 THEN e ELSE IF tab[i - 1] = None THEN f[i - 1]
                   ELSE Rehash(f[i - 1], nc, tab[i - 1])
        BY ONLY <1>5, <2>2, <4>1 DEF Fills
      <4>3. i # 0 => i - 1 \in 0..k /\ i - 1 # k
        BY <1>4, <4>1
      <4>4. i # 0 => g[i - 1] = f[i - 1]
        BY <2>4, <4>3
      <4> QED BY ONLY <2>4, <3>2, <4>2, <4>4, i \in 0..k
    <3> QED BY <3>1, <3>2
  <2>6. Fills(g, k, nc, tab)
    BY ONLY <1>5, <2>4, <2>5 DEF Fills
  <2> QED BY <1>4, <2>6
<1> QED BY <1>6, <1>7

\* The table of the next generation holds what the table before it holds.
LEMMA FillHolds ==
  ASSUME NEW m \in Nat, NEW nc \in Nat, nc >= 2, 2 * m <= nc, NEW tab, tab \in [0..(m - 1) -> Entries],
         \A c, d \in 0..(m - 1) : tab[c] = tab[d] /\ tab[c] # None => c = d,
         NEW fill, Fills(fill, m, nc, tab)
  PROVE  \E q \in 0..m : Table(fill[m], nc, Held(tab, m), q)
<1> DEFINE Done(k) == \E q \in 0..k : Table(fill[k], nc, Held(tab, k), q)
           D == {k \in 0..m : ~Done(k)}
<1>0. \A k \in 0..m : fill[k] = IF k = 0 THEN [c \in 0..(nc - 1) |-> None]
                         ELSE IF tab[k - 1] = None THEN fill[k - 1]
                         ELSE Rehash(fill[k - 1], nc, tab[k - 1])
  BY ONLY Fills(fill, m, nc, tab) DEF Fills
<1>1. SUFFICES ASSUME D # {} PROVE FALSE
  BY m \in Nat
<1>2. D \subseteq Nat
  OBVIOUS
<1>3. PICK k \in D : \A x \in D : k <= x
  <2> HIDE DEF D
  <2> QED BY ONLY <1>1, <1>2, NatMin
<1>4. k \in 0..m /\ ~Done(k)
  OBVIOUS
<1>5. CASE k = 0
  <2>1. PICK e : e = [c \in 0..(nc - 1) |-> None]
    OBVIOUS
  <2>2. e \in [0..(nc - 1) -> Entries] /\ \A c \in 0..(nc - 1) : e[c] = None
    BY <2>1 DEF Entries
  <2>3. Used(e, nc) = {}
    BY <2>2 DEF Used
  <2>4. Held(tab, 0) = {} /\ Held(e, nc) = {}
    BY <2>2 DEF Held
  <2>5. IsFiniteSet({}) /\ Cardinality({}) = 0
    BY FS_EmptySet
  <2>6. 0 \in Nat /\ 2 * 0 <= nc /\ 0 \in 0..0
    OBVIOUS
  <2>7. Table(e, nc, {}, 0)
    BY ONLY <2>2, <2>3, <2>4, <2>5, <2>6, nc \in Nat, nc >= 2 DEF Table
  <2>8. fill[0] = e
    BY <1>0, <1>4, <1>5, <2>1
  <2> QED BY <1>4, <1>5, <2>4, <2>6, <2>7, <2>8
<1>6. CASE k # 0
  <2>1. PICK j \in 0..m : j = k - 1 /\ j \notin D /\ j + 1 = k /\ j \in 0..(m - 1)
    BY <1>3, <1>4, <1>6
  <2>2. PICK q \in 0..j : Table(fill[j], nc, Held(tab, j), q)
    BY <2>1
  <2>3. fill[k] = IF tab[j] = None THEN fill[j] ELSE Rehash(fill[j], nc, tab[j])
    BY <1>0, <1>4, <1>6, <2>1
  <2>4. 0..(k - 1) = 0..(j - 1) \cup {j} /\ 0..(j - 1) \subseteq 0..(m - 1) /\ j \notin 0..(j - 1)
    BY <2>1
  <2>5. CASE tab[j] = None
    <3>1. Held(tab, k) = Held(tab, j)
      BY ONLY <2>4, <2>5 DEF Held
    <3>2. q \in 0..k
      BY <2>1
    <3> QED BY <1>4, <2>2, <2>3, <2>5, <3>1, <3>2
  <2>6. CASE tab[j] # None
    <3>1. PICK e \in Keys : e = tab[j]
      BY <2>1, <2>6 DEF Entries
    <3>2. Held(tab, k) = Held(tab, j) \cup {e}
      BY ONLY <2>4, <2>6, <3>1 DEF Held
    <3>3. e \notin Held(tab, j)
      BY ONLY <2>1, <2>4, <2>6, <3>1, \A c, d \in 0..(m - 1) : tab[c] = tab[d] /\ tab[c] # None => c = d
         DEF Held
    <3>4. PICK h \in 0..(nc - 1) : h = ProbeOf(e, nc)
      BY ProbeRange
    <3>5. PICK f : f = fill[j]
      OBVIOUS
    <3>6. q \in Nat /\ q < nc /\ 2 * (q + 1) <= nc /\ q + 1 \in 0..k
      BY <2>1
    <3>7. Cardinality(Used(f, nc)) = q /\ nc \in Nat \ {0}
      BY <2>2, <3>5 DEF Table
    <3>8. PICK p : p = HoleFrom(f, nc, h)
      OBVIOUS
    <3>9. /\ p \in 0..(nc - 1) /\ f[p] = None
          /\ \A x \in 0..(nc - 1) : Dist(h, x, nc) < Dist(h, p, nc) => f[x] # None
      BY ONLY <3>6, <3>7, <3>8, h \in 0..(nc - 1), HoleFromIs
    <3>10. PICK u : u = [f EXCEPT ![p] = e]
      OBVIOUS
    <3>11. Table(u, nc, Held(tab, j) \cup {e}, q + 1)
      BY ONLY <2>2, <3>3, <3>4, <3>5, <3>6, <3>9, <3>10, e \in Keys, TableAdd
    <3>12. fill[k] = u
      BY <2>3, <2>6, <3>1, <3>4, <3>5, <3>8, <3>10 DEF Rehash
    <3> QED BY <1>4, <3>2, <3>6, <3>11, <3>12
  <2> QED BY <2>5, <2>6
<1> QED BY <1>5, <1>6

\* A table and the generation it belongs to.
Holds(g, S, m) ==
  \/ g = Gen0 /\ S = {} /\ m = 0
  \/ Table(g.tab, g.cap, S, m)

\* A new generation holds what the one before it holds, and has room for one more.
LEMMA NextRegHolds ==
  ASSUME NEW g, NEW S, NEW m, Holds(g, S, m)
  PROVE  /\ Table(NextReg(g).tab, NextReg(g).cap, S, m)
         /\ 2 * (m + 1) <= NextReg(g).cap
         /\ NextReg(g) = [tab |-> NextReg(g).tab, cap |-> NextReg(g).cap]
         /\ NextReg(g).cap = IF g.cap = 0 THEN FirstCap ELSE 2 * g.cap
<1>1. PICK cap : cap = g.cap
  OBVIOUS
<1>2. PICK tab : tab = g.tab
  OBVIOUS
<1>3. /\ cap \in Nat /\ S = Held(tab, cap) /\ m \in Nat /\ Cardinality(S) = m
      /\ cap = 0 => m = 0
      /\ cap # 0 => cap >= 2 /\ 2 * m <= cap
      /\ tab \in [0..(cap - 1) -> Entries]
      /\ \A c, d \in 0..(cap - 1) : tab[c] = tab[d] /\ tab[c] # None => c = d
  <2>1. CASE g = Gen0 /\ S = {} /\ m = 0
    <3>1. cap = 0 /\ tab = <<>> /\ 0..(0 - 1) = {}
      BY <1>1, <1>2, <2>1 DEF Gen0
    <3>2. Held(tab, 0) = {}
      BY <3>1 DEF Held
    <3>3. <<>> \in [{} -> Entries]
      OBVIOUS
    <3>4. Cardinality(S) = 0
      BY <2>1, FS_EmptySet
    <3> QED BY <2>1, <3>1, <3>2, <3>3, <3>4
  <2>2. CASE Table(g.tab, g.cap, S, m)
    BY <1>1, <1>2, <2>2 DEF Table
  <2> QED BY <2>1, <2>2 DEF Holds
<1>4. PICK nc : nc = IF cap = 0 THEN FirstCap ELSE 2 * cap
  OBVIOUS
<1>5. nc \in Nat /\ nc >= 2 /\ 2 * cap <= nc /\ 2 * (m + 1) <= nc
  <2>1. FirstCap \in Nat /\ FirstCap >= 2
    BY RegistryAssumption
  <2> QED BY ONLY <1>3, <1>4, <2>1
<1>6. PICK fill : fill = CHOOSE f : Fills(f, cap, nc, tab)
  OBVIOUS
<1>7. Fills(fill, cap, nc, tab)
  BY ONLY <1>3, <1>6, FillExists
<1>8. NextReg(g) = [tab |-> fill[cap], cap |-> nc]
  BY ONLY <1>1, <1>2, <1>4, <1>6 DEF NextReg, Fills
<1>9. PICK q \in 0..cap : Table(fill[cap], nc, S, q)
  BY ONLY <1>3, <1>5, <1>7, FillHolds
<1>10. q = m
  BY <1>3, <1>9 DEF Table
<1> QED BY <1>1, <1>4, <1>5, <1>8, <1>9, <1>10

-----------------------------------------------------------------------------
(***************************************************************************)
(* A deletion: table t has its hole at i, and the cells from i to j are    *)
(* done.  An entry farther on may still have the hole in its probe.        *)
(***************************************************************************)
Reached(t, cap, i, j, c) ==
  \A x \in 0..(cap - 1) :
     Dist(ProbeOf(t[c], cap), x, cap) < Dist(ProbeOf(t[c], cap), c, cap) =>
       t[x] # None \/ (x = i /\ Dist(i, j, cap) < Dist(i, c, cap))

Gap(t, cap, S, m, i, j) ==
  /\ cap \in Nat /\ cap >= 2 /\ m \in Nat /\ 2 * (m + 1) <= cap
  /\ i \in 0..(cap - 1) /\ j \in 0..(cap - 1)
  /\ t \in [0..(cap - 1) -> Entries] /\ t[i] = None
  /\ \A c \in 0..(cap - 1) : t[c] # None => Reached(t, cap, i, j, c)
  /\ \A c, d \in 0..(cap - 1) : t[c] = t[d] /\ t[c] # None => c = d
  /\ S = Held(t, cap)
  /\ IsFiniteSet(S) /\ Cardinality(S) = m /\ Cardinality(Used(t, cap)) = m
  /\ \A x \in 0..(cap - 1) : x # i /\ Dist(i, x, cap) <= Dist(i, j, cap) => t[x] # None

\* The entry of k is taken out.
LEMMA GapBegins ==
  ASSUME NEW tab, NEW cap, NEW S, NEW m, Table(tab, cap, S, m),
         NEW i \in 0..(cap - 1), NEW k, tab[i] = k, k # None,
         NEW t, t = [tab EXCEPT ![i] = None]
  PROVE  m - 1 \in Nat /\ Gap(t, cap, S \ {k}, m - 1, i, i)
<1>1. /\ cap \in Nat \ {0} /\ cap >= 2 /\ m \in Nat /\ 2 * m <= cap
      /\ tab \in [0..(cap - 1) -> Entries]
      /\ \A c \in 0..(cap - 1) : tab[c] # None => Reaches(tab, cap, c)
      /\ \A c, d \in 0..(cap - 1) : tab[c] = tab[d] /\ tab[c] # None => c = d
      /\ S = Held(tab, cap)
      /\ IsFiniteSet(S) /\ Cardinality(S) = m /\ Cardinality(Used(tab, cap)) = m
  BY DEF Table
<1>2. t \in [0..(cap - 1) -> Entries] /\ t[i] = None /\ \A c \in 0..(cap - 1) : c # i => t[c] = tab[c]
  BY <1>1 DEF Entries
<1>3. S \ {k} = Held(t, cap) /\ k \in S
  <2>1. \A c \in 0..(cap - 1) : c # i /\ tab[c] # None => tab[c] # k
    BY <1>1
  <2>2. k \in S
    BY <1>1 DEF Held
  <2>3. \A e : e \in S \ {k} <=> e \in Held(t, cap)
    BY ONLY <1>1, <1>2, <2>1, tab[i] = k DEF Held
  <2> QED BY <2>2, <2>3
<1>4. Cardinality(S \ {k}) = m - 1 /\ IsFiniteSet(S \ {k})
  BY ONLY <1>1, <1>3, FS_RemoveElement
<1>5. m - 1 \in Nat
  <2>1. IsFiniteSet(S \ {k})
    BY <1>4
  <2> QED BY ONLY <1>4, <2>1, FS_CardinalityType
<1>6. Cardinality(Used(t, cap)) = m - 1
  <2>1. Used(t, cap) = Used(tab, cap) \ {i} /\ i \in Used(tab, cap)
    BY <1>2 DEF Used
  <2>2. IsFiniteSet(Used(tab, cap))
    BY <1>1, CellsFinite
  <2>3. Cardinality(Used(tab, cap) \ {i}) = Cardinality(Used(tab, cap)) - 1
    BY ONLY <2>1, <2>2, FS_RemoveElement
  <2> QED BY <1>1, <2>1, <2>3
<1>8. Dist(i, i, cap) = 0
  BY <1>1, Distances
<1>7. \A c \in 0..(cap - 1) : Dist(i, c, cap) \in Nat /\ (Dist(i, c, cap) = 0 => c = i)
  <2>1. \A c \in 0..(cap - 1) : Dist(i, c, cap) \in 0..(cap - 1)
    BY <1>1, Distances
  <2>2. \A c, d \in 0..(cap - 1) : Dist(i, c, cap) = Dist(i, d, cap) => c = d
    BY <1>1, Distances
  <2> QED BY ONLY <1>1, <1>8, <2>1, <2>2, i \in 0..(cap - 1)
<1>9. ASSUME NEW c \in 0..(cap - 1), t[c] # None
      PROVE  Reached(t, cap, i, i, c)
  <2>1. c # i /\ t[c] = tab[c]
    BY <1>2, <1>9
  <2>2. Reaches(tab, cap, c)
    BY <1>1, <1>9, <2>1
  <2>3. Dist(i, i, cap) < Dist(i, c, cap)
    BY <1>7, <1>8, <2>1
  <2> QED BY ONLY <1>2, <2>1, <2>2, <2>3 DEF Reaches, Reached
<1>10. ASSUME NEW c \in 0..(cap - 1), NEW d \in 0..(cap - 1), t[c] = t[d], t[c] # None
       PROVE  c = d
  BY <1>1, <1>2, <1>10
<1>11. \A x \in 0..(cap - 1) : x # i /\ Dist(i, x, cap) <= Dist(i, i, cap) => t[x] # None
  BY <1>7, <1>8
<1>12. 2 * ((m - 1) + 1) <= cap
  BY <1>1
<1> QED BY ONLY <1>1, <1>2, <1>3, <1>4, <1>5, <1>6, <1>9, <1>10, <1>11, <1>12, i \in 0..(cap - 1) DEF Gap

\* The next cell is not the hole: some other cell is empty, and none behind j is.
LEMMA GapNext ==
  ASSUME NEW t, NEW cap, NEW S, NEW m, NEW i, NEW j, Gap(t, cap, S, m, i, j),
         NEW q, q = (j + 1) % cap
  PROVE  q \in 0..(cap - 1) /\ q # i /\ Dist(i, q, cap) = Dist(i, j, cap) + 1
<1>1. /\ cap \in Nat \ {0} /\ cap >= 2 /\ m \in Nat /\ 2 * (m + 1) <= cap
      /\ i \in 0..(cap - 1) /\ j \in 0..(cap - 1) /\ Cardinality(Used(t, cap)) = m /\ t[i] = None
      /\ \A x \in 0..(cap - 1) : x # i /\ Dist(i, x, cap) <= Dist(i, j, cap) => t[x] # None
  BY DEF Gap
<1>2. /\ q \in 0..(cap - 1)
      /\ q # i => Dist(i, q, cap) = Dist(i, j, cap) + 1
      /\ q = i => Dist(i, j, cap) = cap - 1
  BY ONLY <1>1, q = (j + 1) % cap, NextDistance
<1>3. SUFFICES ASSUME q = i
               PROVE  FALSE
  BY <1>2
<1>4. \A x \in 0..(cap - 1) : Dist(i, x, cap) <= cap - 1
  BY <1>1, Distances
<1>5. \A x \in 0..(cap - 1) : x # i => t[x] # None
  BY <1>1, <1>2, <1>3, <1>4
<1>6. Used(t, cap) = (0..(cap - 1)) \ {i}
  BY ONLY <1>1, <1>5 DEF Used
<1>7. Cardinality((0..(cap - 1)) \ {i}) = cap - 1
  <2>1. IsFiniteSet(0..(cap - 1)) /\ Cardinality(0..(cap - 1)) = cap
    BY <1>1, CellsFinite
  <2>2. Cardinality((0..(cap - 1)) \ {i}) = Cardinality(0..(cap - 1)) - 1
    BY ONLY <1>1, <2>1, FS_RemoveElement
  <2> QED BY ONLY <2>1, <2>2
<1> QED BY <1>1, <1>6, <1>7

\* The entry after the cells done stays: its probe does not meet the hole.
LEMMA GapSkips ==
  ASSUME NEW t, NEW cap, NEW S, NEW m, NEW i, NEW j, Gap(t, cap, S, m, i, j),
         NEW q, q = (j + 1) % cap, t[q] # None, ~Moves(ProbeOf(t[q], cap), i, q)
  PROVE  Gap(t, cap, S, m, i, q)
<1>1. /\ cap \in Nat \ {0} /\ i \in 0..(cap - 1) /\ j \in 0..(cap - 1)
      /\ t \in [0..(cap - 1) -> Entries] /\ t[i] = None
      /\ \A c \in 0..(cap - 1) : t[c] # None => Reached(t, cap, i, j, c)
      /\ \A x \in 0..(cap - 1) : x # i /\ Dist(i, x, cap) <= Dist(i, j, cap) => t[x] # None
  BY DEF Gap
<1>2. q \in 0..(cap - 1) /\ q # i /\ Dist(i, q, cap) = Dist(i, j, cap) + 1
  BY ONLY Gap(t, cap, S, m, i, j), q = (j + 1) % cap, GapNext
<1>3. /\ \A x \in 0..(cap - 1) : Dist(i, x, cap) \in Nat
      /\ \A x \in 0..(cap - 1) : Dist(i, x, cap) = Dist(i, q, cap) => x = q
  <2>1. \A c \in 0..(cap - 1) : Dist(i, c, cap) \in 0..(cap - 1)
    BY <1>1, Distances
  <2>2. \A c, d \in 0..(cap - 1) : Dist(i, c, cap) = Dist(i, d, cap) => c = d
    BY <1>1, Distances
  <2>3. \A x \in 0..(cap - 1) : Dist(i, x, cap) \in Nat
    BY ONLY <1>1, <2>1
  <2> QED BY ONLY <1>2, <2>2, <2>3
<1>4. ASSUME NEW c \in 0..(cap - 1), t[c] # None
      PROVE  Reached(t, cap, i, q, c)
  <2>1. PICK h \in 0..(cap - 1) : h = ProbeOf(t[c], cap)
    <3>1. t[c] \in Keys
      BY <1>1, <1>4 DEF Entries
    <3> QED BY <1>1, <3>1, ProbeRange
  <2>2. \A x \in 0..(cap - 1) : Dist(h, x, cap) < Dist(h, c, cap) =>
           t[x] # None \/ (x = i /\ Dist(i, j, cap) < Dist(i, c, cap))
    BY <1>1, <1>4, <2>1 DEF Reached
  <2>3. Dist(h, i, cap) < Dist(h, c, cap) /\ Dist(i, j, cap) < Dist(i, c, cap)
          => Dist(i, q, cap) < Dist(i, c, cap)
    <3>1. SUFFICES ASSUME Dist(h, i, cap) < Dist(h, c, cap), Dist(i, j, cap) < Dist(i, c, cap)
                   PROVE  Dist(i, q, cap) < Dist(i, c, cap)
      OBVIOUS
    <3>2. c # q
      <4>1. SUFFICES ASSUME c = q PROVE FALSE
        OBVIOUS
      <4>2. Moves(h, i, q) <=> Dist(h, i, cap) < Dist(h, q, cap)
        BY ONLY <1>1, <1>2, h \in 0..(cap - 1), MovesIs
      <4> QED BY <2>1, <3>1, <4>1, <4>2
    <3>3. PICK a \in Nat, b \in Nat, d \in Nat :
            a = Dist(i, q, cap) /\ b = Dist(i, c, cap) /\ d = Dist(i, j, cap)
      BY <1>1, <1>2, <1>3
    <3>4. a # b
      BY <1>3, <3>2, <3>3
    <3> QED BY <1>2, <3>1, <3>3, <3>4
  <2> QED BY ONLY <2>1, <2>2, <2>3 DEF Reached
<1>5. \A x \in 0..(cap - 1) : x # i /\ Dist(i, x, cap) <= Dist(i, q, cap) => t[x] # None
  <2>1. ASSUME NEW x \in 0..(cap - 1), x # i, Dist(i, x, cap) <= Dist(i, q, cap)
        PROVE  t[x] # None
    <3>1. CASE Dist(i, x, cap) = Dist(i, q, cap)
      BY <1>3, <3>1
    <3>2. CASE Dist(i, x, cap) # Dist(i, q, cap)
      <4>1. Dist(i, x, cap) <= Dist(i, j, cap)
        <5>1. Dist(i, x, cap) \in Nat /\ Dist(i, j, cap) \in Nat
          BY <1>1, <1>3
        <5> QED BY ONLY <1>2, <2>1, <3>2, <5>1
      <4> QED BY <1>1, <2>1, <4>1
    <3> QED BY <3>1, <3>2
  <2> QED BY <2>1
<1> QED BY ONLY <1>2, <1>4, <1>5, Gap(t, cap, S, m, i, j) DEF Gap

\* An empty cell ends the deletion: no entry still has the hole in its probe.
LEMMA GapEnds ==
  ASSUME NEW t, NEW cap, NEW S, NEW m, NEW i, NEW j, Gap(t, cap, S, m, i, j),
         NEW q, q = (j + 1) % cap, t[q] = None
  PROVE  Table(t, cap, S, m)
<1>1. /\ cap \in Nat \ {0} /\ cap >= 2 /\ i \in 0..(cap - 1) /\ j \in 0..(cap - 1)
      /\ m \in Nat /\ 2 * (m + 1) <= cap
      /\ t \in [0..(cap - 1) -> Entries] /\ t[i] = None
      /\ \A c \in 0..(cap - 1) : t[c] # None => Reached(t, cap, i, j, c)
  BY DEF Gap
<1>2. q \in 0..(cap - 1) /\ q # i /\ Dist(i, q, cap) = Dist(i, j, cap) + 1
  BY ONLY Gap(t, cap, S, m, i, j), q = (j + 1) % cap, GapNext
<1>3. \A x \in 0..(cap - 1) : Dist(i, x, cap) \in 0..(cap - 1)
  BY <1>1, Distances
<1>4. \A x, y \in 0..(cap - 1) : Dist(i, x, cap) = Dist(i, y, cap) => x = y
  BY <1>1, Distances
<1>5. ASSUME NEW c \in 0..(cap - 1), t[c] # None
      PROVE  Reaches(t, cap, c)
  <2>1. PICK h \in 0..(cap - 1) : h = ProbeOf(t[c], cap)
    <3>1. t[c] \in Keys
      BY <1>1, <1>5 DEF Entries
    <3> QED BY <1>1, <3>1, ProbeRange
  <2>2. \A x \in 0..(cap - 1) : Dist(h, x, cap) < Dist(h, c, cap) =>
           t[x] # None \/ (x = i /\ Dist(i, j, cap) < Dist(i, c, cap))
    BY <1>1, <1>5, <2>1 DEF Reached
  <2>3. ~(Dist(h, i, cap) < Dist(h, c, cap) /\ Dist(i, j, cap) < Dist(i, c, cap))
    <3>1. SUFFICES ASSUME Dist(h, i, cap) < Dist(h, c, cap), Dist(i, j, cap) < Dist(i, c, cap)
                   PROVE  FALSE
      OBVIOUS
    <3>2. c # q
      BY <1>5
    <3>3. Dist(i, c, cap) # Dist(i, q, cap)
      BY ONLY <1>2, <1>4, <3>2, c \in 0..(cap - 1)
    <3>4. Dist(i, q, cap) < Dist(i, c, cap)
      <4>1. Dist(i, q, cap) \in Int /\ Dist(i, c, cap) \in Int /\ Dist(i, j, cap) \in Int
        BY <1>1, <1>2, <1>3
      <4> QED BY ONLY <1>2, <3>1, <3>3, <4>1
    <3>5. Dist(h, q, cap) < Dist(h, c, cap)
      BY ONLY <1>1, <1>2, <3>1, <3>4, h \in 0..(cap - 1), c \in 0..(cap - 1), Beyond
    <3>6. q = i
      BY ONLY <1>2, <2>2, <3>5, t[q] = None
    <3> QED BY <1>2, <3>6
  <2> QED BY ONLY <2>1, <2>2, <2>3 DEF Reaches
<1>6. 2 * m <= cap
  BY <1>1
<1> QED BY ONLY <1>1, <1>5, <1>6, Gap(t, cap, S, m, i, j) DEF Gap, Table

\* The entry after the cells done moves back to the hole, and leaves the next one.
LEMMA GapMoves ==
  ASSUME NEW t, NEW cap, NEW S, NEW m, NEW i, NEW j, Gap(t, cap, S, m, i, j),
         NEW q, q = (j + 1) % cap, t[q] # None, Moves(ProbeOf(t[q], cap), i, q),
         NEW u, u = [[t EXCEPT ![i] = t[q]] EXCEPT ![q] = None]
  PROVE  Gap(u, cap, S, m, q, q)
<1>1. /\ cap \in Nat \ {0} /\ i \in 0..(cap - 1) /\ j \in 0..(cap - 1)
      /\ t \in [0..(cap - 1) -> Entries] /\ t[i] = None
      /\ \A c \in 0..(cap - 1) : t[c] # None => Reached(t, cap, i, j, c)
      /\ \A c, d \in 0..(cap - 1) : t[c] = t[d] /\ t[c] # None => c = d
      /\ S = Held(t, cap) /\ Cardinality(Used(t, cap)) = m /\ m \in Nat
      /\ \A x \in 0..(cap - 1) : x # i /\ Dist(i, x, cap) <= Dist(i, j, cap) => t[x] # None
  BY DEF Gap
<1>2. q \in 0..(cap - 1) /\ q # i /\ Dist(i, q, cap) = Dist(i, j, cap) + 1
  BY ONLY Gap(t, cap, S, m, i, j), q = (j + 1) % cap, GapNext
<1>3. \A x \in 0..(cap - 1) : Dist(i, x, cap) \in 0..(cap - 1)
  BY <1>1, Distances
<1>4. \A x, y \in 0..(cap - 1) : Dist(i, x, cap) = Dist(i, y, cap) => x = y
  BY <1>1, Distances
<1>5. /\ u \in [0..(cap - 1) -> Entries] /\ u[i] = t[q] /\ u[q] = None
      /\ \A x \in 0..(cap - 1) : x # i /\ x # q => u[x] = t[x]
  BY <1>1, <1>2 DEF Entries
<1>6. \A x \in 0..(cap - 1) : u[x] # None => \E y \in 0..(cap - 1) : y # i /\ t[y] = u[x]
                                             /\ (x = i => y = q) /\ (x # i => y = x)
  BY ONLY <1>1, <1>2, <1>5
<1>7. ASSUME NEW c \in 0..(cap - 1), NEW d \in 0..(cap - 1), u[c] = u[d], u[c] # None
      PROVE  c = d
  BY ONLY <1>1, <1>2, <1>5, <1>7
<1>8. S = Held(u, cap)
  <2>1. \A e : e \in Held(t, cap) <=> e \in Held(u, cap)
    BY ONLY <1>1, <1>2, <1>5 DEF Held
  <2> QED BY <1>1, <2>1
<1>9. Cardinality(Used(u, cap)) = m
  <2>1. IsFiniteSet(Used(t, cap))
    BY <1>1, CellsFinite
  <2>2. PICK U : U = Used(t, cap) \cup {i}
    OBVIOUS
  <2>3. i \notin Used(t, cap) /\ q \in U /\ Used(u, cap) = U \ {q}
    BY <1>1, <1>2, <1>5, <2>2 DEF Used
  <2>4. IsFiniteSet(U) /\ Cardinality(U) = Cardinality(Used(t, cap)) + 1
    BY ONLY <2>1, <2>2, <2>3, FS_AddElement
  <2>5. Cardinality(U \ {q}) = Cardinality(U) - 1
    BY ONLY <2>3, <2>4, FS_RemoveElement
  <2> QED BY ONLY <1>1, <2>3, <2>4, <2>5
<1>10. PICK e \in Keys : e = t[q]
  BY <1>1, <1>2 DEF Entries
<1>11. PICK h \in 0..(cap - 1) : h = ProbeOf(e, cap)
  BY <1>1, ProbeRange
<1>12. Dist(h, i, cap) < Dist(h, q, cap)
  <2>1. Moves(h, i, q) <=> Dist(h, i, cap) < Dist(h, q, cap)
    BY ONLY <1>1, <1>2, h \in 0..(cap - 1), MovesIs
  <2> QED BY <1>10, <1>11, <2>1
<1>13. Dist(q, q, cap) = 0 /\ \A c \in 0..(cap - 1) : Dist(q, c, cap) \in 0..(cap - 1)
  BY <1>1, <1>2, Distances
<1>14. \A x, y \in 0..(cap - 1) : Dist(q, x, cap) = Dist(q, y, cap) => x = y
  BY <1>1, <1>2, Distances
<1>15. \A c \in 0..(cap - 1) : c # q => Dist(q, q, cap) < Dist(q, c, cap)
  <2>1. ASSUME NEW c \in 0..(cap - 1), c # q
        PROVE  Dist(q, q, cap) < Dist(q, c, cap)
    <3>1. Dist(q, c, cap) # 0
      BY ONLY <1>2, <1>13, <1>14, <2>1, c \in 0..(cap - 1)
    <3>2. Dist(q, c, cap) \in 0..(cap - 1)
      BY <1>13
    <3> QED BY ONLY <1>1, <1>13, <3>1, <3>2
  <2> QED BY <2>1
<1>16. ASSUME NEW c \in 0..(cap - 1), u[c] # None
       PROVE  Reached(u, cap, q, q, c)
  <2>1. c # q
    BY <1>5, <1>16
  <2>2. CASE c = i
    <3>1. u[c] = e
      BY <1>5, <1>10, <2>2
    <3>2. ASSUME NEW x \in 0..(cap - 1), Dist(h, x, cap) < Dist(h, i, cap)
          PROVE  u[x] # None
      <4>1. \A y \in 0..(cap - 1) : Dist(h, y, cap) \in 0..(cap - 1)
        BY <1>1, <1>11, Distances
      <4>2. Dist(h, x, cap) < Dist(h, q, cap) /\ x # i /\ x # q
        <5>1. Dist(h, x, cap) \in Int /\ Dist(h, i, cap) \in Int /\ Dist(h, q, cap) \in Int
          BY <1>1, <1>2, <4>1
        <5>2. Dist(h, x, cap) # Dist(h, i, cap) /\ Dist(h, x, cap) # Dist(h, q, cap)
          BY ONLY <1>12, <3>2, <5>1
        <5>3. Dist(h, x, cap) < Dist(h, q, cap)
          BY ONLY <1>12, <3>2, <5>1
        <5> QED BY ONLY <5>2, <5>3
      <4>3. Reached(t, cap, i, j, q)
        BY <1>1, <1>2
      <4>4. t[x] # None \/ x = i
        BY ONLY <1>10, <1>11, <4>2, <4>3, x \in 0..(cap - 1) DEF Reached
      <4> QED BY ONLY <1>5, <4>2, <4>4, x \in 0..(cap - 1)
    <3> QED BY ONLY <1>11, <2>2, <3>1, <3>2 DEF Reached
  <2>3. CASE c # i
    <3>1. u[c] = t[c]
      BY <1>5, <2>1, <2>3
    <3>2. Reached(t, cap, i, j, c)
      BY <1>1, <1>16, <3>1
    <3>3. \A x \in 0..(cap - 1) : t[x] # None \/ x = i => u[x] # None \/ x = q
      BY ONLY <1>2, <1>5, <1>10, t[q] # None
    <3>4. Dist(q, q, cap) < Dist(q, c, cap)
      BY <1>15, <2>1
    <3> QED BY ONLY <3>1, <3>2, <3>3, <3>4 DEF Reached
  <2> QED BY <2>2, <2>3
<1>17. \A x \in 0..(cap - 1) : x # q /\ Dist(q, x, cap) <= Dist(q, q, cap) => u[x] # None
  <2>1. ASSUME NEW x \in 0..(cap - 1), x # q, Dist(q, x, cap) <= Dist(q, q, cap)
        PROVE  FALSE
    <3>1. Dist(q, q, cap) < Dist(q, x, cap) /\ Dist(q, x, cap) \in 0..(cap - 1)
      BY <1>13, <1>15, <2>1
    <3> QED BY ONLY <1>1, <1>13, <2>1, <3>1
  <2> QED BY <2>1
<1> QED BY ONLY <1>1, <1>2, <1>5, <1>7, <1>8, <1>9, <1>16, <1>17, Gap(t, cap, S, m, i, j) DEF Gap

-----------------------------------------------------------------------------
(***************************************************************************)
(* The inductive invariant of the tables.                                  *)
(***************************************************************************)
AddPcs == {"addLock", "addGrow", "addMirTab", "addMirCap", "addCell", "addMap", "addSeq"}
DelPcs == {"delErase", "delSeq"}
LookPcs == {"map", "fastSeq", "fastFirst", "fastTab", "fastCap", "probe", "deref", "miss",
            "findGen", "findLock", "bigGen", "bigSeq", "done"}

Adds(r) == r \in [pc : AddPcs, key : Keys, b : Kinds]
Erases(r) == r \in [pc : DelPcs, key : Keys, b : Kinds, i : {r.i}, j : {r.j}]
Looks(r) == r \in [pc : LookPcs, key : Keys, b : {r.b}, ans : {r.ans}, s0 : {r.s0}, g : {r.g},
                   cap : {r.cap}, i : {r.i}, tries : {r.tries}]

\* What a thread is doing.
ThreadsOK ==
  /\ DOMAIN th = Threads
  /\ \A t \in Threads : th[t] = Idle \/ Adds(th[t]) \/ Erases(th[t]) \/ Looks(th[t])

\* The generations, the published one is the last.
Gens == UNION {[tab : [0..(c - 1) -> Entries], cap : {c}] : c \in Nat \ {1}}
GensOK ==
  /\ gens \in [Kinds -> Seq(Gens)] /\ cur \in [Kinds -> Nat] /\ n \in [Kinds -> Nat]
  /\ \A b \in Kinds : cur[b] = Len(gens[b]) /\ cur[b] >= 1

\* The thread that changes the tables holds the lock.
Locked == Writing \ {"addLock"}
LockOK == \A t \in Threads : th[t].pc \in Locked <=> lock = t

\* A slab being added or deleted is neither live nor gone, and is in one hand.
KeysOK ==
  /\ live \subseteq Keys /\ gone \subseteq Keys /\ live \cap gone = {}
  /\ \A t \in Threads : th[t].pc \in Writing =>
        th[t].key \notin live \cup gone /\ th[t].b = KindOf(th[t].key)
  /\ \A t, u \in Threads : th[t].pc \in Writing /\ th[u].pc \in Writing /\ th[t].key = th[u].key => t = u

Current(b) == gens[b][cur[b]]
Mine(b) == {k \in live : KindOf(k) = b}

\* The published tables hold the live slabs; the table the lock holder works on
\* also has the slab it has just entered, or the hole it is about to close.
Busy == {"addMap", "addSeq", "delErase"}
TablesOK ==
  /\ \A b \in Kinds :
        (\A t \in Threads : th[t].pc \in Busy => th[t].b # b) => Holds(Current(b), Mine(b), n[b])
  /\ \A t \in Threads : th[t].pc \in {"addMap", "addSeq"} =>
        LET b == th[t].b
        IN Table(Current(b).tab, Current(b).cap, Mine(b) \cup {th[t].key}, n[b])
  /\ \A t \in Threads : th[t].pc = "delErase" =>
        LET b == th[t].b
        IN /\ n[b] # 0
           /\ Gap([Current(b).tab EXCEPT ![th[t].i] = None], Current(b).cap, Mine(b), n[b] - 1,
                  th[t].i, th[t].j)
  /\ \A t \in Threads : th[t].pc \in {"addMirTab", "addMirCap", "addCell"} =>
        LET b == th[t].b IN Current(b).cap # 0 /\ 2 * (n[b] + 1) <= Current(b).cap

RegistryInv == ThreadsOK /\ GensOK /\ LockOK /\ KeysOK /\ TablesOK

LEMMA PcIs ==
  ASSUME ThreadsOK, NEW t \in Threads
  PROVE  /\ th[t].pc \in {"idle"} \cup AddPcs \cup DelPcs \cup LookPcs
         /\ th[t].pc = "idle" => th[t] = Idle
         /\ th[t].pc \in AddPcs => Adds(th[t])
         /\ th[t].pc \in DelPcs => Erases(th[t])
         /\ th[t].pc \in LookPcs => Looks(th[t])
<1>1. th[t] = Idle \/ Adds(th[t]) \/ Erases(th[t]) \/ Looks(th[t])
  BY DEF ThreadsOK
<1>2. CASE th[t] = Idle
  BY <1>2 DEF Idle, AddPcs, DelPcs, LookPcs
<1>3. CASE Adds(th[t])
  <2>1. th[t].pc \in AddPcs
    BY <1>3 DEF Adds
  <2> QED BY <1>3, <2>1 DEF AddPcs, DelPcs, LookPcs
<1>4. CASE Erases(th[t])
  <2>1. th[t].pc \in DelPcs
    BY <1>4 DEF Erases
  <2> QED BY <1>4, <2>1 DEF AddPcs, DelPcs, LookPcs
<1>5. CASE Looks(th[t])
  <2>1. th[t].pc \in LookPcs
    BY <1>5 DEF Looks
  <2> QED BY <1>5, <2>1 DEF AddPcs, DelPcs, LookPcs
<1> QED BY <1>1, <1>2, <1>3, <1>4, <1>5

\* One thread goes on to r.
Becomes(t, r) == th' = [th EXCEPT ![t] = r]

LEMMA BecomesIs ==
  ASSUME ThreadsOK, NEW t \in Threads, NEW r, Becomes(t, r)
  PROVE  /\ DOMAIN th' = Threads /\ th'[t] = r
         /\ \A u \in Threads : u # t => th'[u] = th[u]
         /\ (r = Idle \/ Adds(r) \/ Erases(r) \/ Looks(r)) => ThreadsOK'
<1>1. DOMAIN th' = Threads /\ th'[t] = r /\ \A u \in Threads : u # t => th'[u] = th[u]
  BY DEF Becomes, ThreadsOK
<1>2. ASSUME r = Idle \/ Adds(r) \/ Erases(r) \/ Looks(r)
      PROVE  ThreadsOK'
  <2>1. \A u \in Threads : th'[u] = Idle \/ Adds(th'[u]) \/ Erases(th'[u]) \/ Looks(th'[u])
    BY ONLY <1>1, <1>2, ThreadsOK DEF ThreadsOK
  <2> QED BY ONLY <1>1, <2>1 DEF ThreadsOK
<1> QED BY <1>1, <1>2

LEMMA GoesOn ==
  ASSUME ThreadsOK, NEW t \in Threads, NEW pc, Go(t, pc)
  PROVE  /\ Becomes(t, [th[t] EXCEPT !.pc = pc])
         /\ Adds(th[t]) /\ pc \in AddPcs =>
              /\ Adds([th[t] EXCEPT !.pc = pc]) /\ [th[t] EXCEPT !.pc = pc].pc = pc
              /\ [th[t] EXCEPT !.pc = pc].key = th[t].key /\ [th[t] EXCEPT !.pc = pc].b = th[t].b
         /\ Erases(th[t]) /\ pc \in DelPcs =>
              /\ Erases([th[t] EXCEPT !.pc = pc]) /\ [th[t] EXCEPT !.pc = pc].pc = pc
              /\ [th[t] EXCEPT !.pc = pc].key = th[t].key /\ [th[t] EXCEPT !.pc = pc].b = th[t].b
         /\ Looks(th[t]) /\ pc \in LookPcs => Looks([th[t] EXCEPT !.pc = pc])
<1>1. Becomes(t, [th[t] EXCEPT !.pc = pc])
  BY DEF Go, Becomes, ThreadsOK
<1>2. PICK r : r = th[t]
  OBVIOUS
<1>3. PICK s : s = [r EXCEPT !.pc = pc]
  OBVIOUS
<1>4. ASSUME Adds(r), pc \in AddPcs
      PROVE  Adds(s) /\ s.pc = pc /\ s.key = r.key /\ s.b = r.b
  BY ONLY <1>3, <1>4 DEF Adds
<1>5. ASSUME Erases(r), pc \in DelPcs
      PROVE  Erases(s) /\ s.pc = pc /\ s.key = r.key /\ s.b = r.b
  BY ONLY <1>3, <1>5 DEF Erases
<1>6. ASSUME Looks(r), pc \in LookPcs
      PROVE  Looks(s)
  BY ONLY <1>3, <1>6 DEF Looks
<1> QED BY ONLY <1>1, <1>2, <1>3, <1>4, <1>5, <1>6

\* The steps of a lookup, and of a thread that begins or ends one.
Reads(t) ==
  \/ \E k \in Keys : Lookup(t, k)
  \/ LookupMap(t) \/ FastSeq(t) \/ Fast(t) \/ Probe(t) \/ ProbeOutside(t) \/ Deref(t)
  \/ MissCounts(t) \/ MissRetries(t) \/ FindGen(t) \/ FindLock(t) \/ BigGen(t) \/ BigSeq(t) \/ Return(t)

LEMMA StartIs ==
  ASSUME ThreadsOK, NEW t \in Threads, Looks(th[t]), NEW g, NEW cap, NEW pc \in LookPcs, Start(t, g, cap, pc)
  PROVE  \E r : Becomes(t, r) /\ Looks(r)
<1>1. PICK q \in LookPcs : q = IF pc # "probe" THEN pc ELSE IF cap = 0 THEN "miss" ELSE "probe"
  BY DEF LookPcs
<1>2. PICK i : i = IF cap = 0 THEN 0 ELSE ProbeOf(th[t].key, cap)
  OBVIOUS
<1>3. PICK r : r = [th[t] EXCEPT !.g = g, !.cap = cap, !.pc = q, !.i = i]
  OBVIOUS
<1>4. Looks(r)
  BY ONLY <1>3, Looks(th[t]), q \in LookPcs DEF Looks
<1>5. th' = [th EXCEPT ![t].g = g, ![t].cap = cap, ![t].pc = q, ![t].i = i]
  BY ONLY <1>1, <1>2, Start(t, g, cap, pc) DEF Start
<1>6. Becomes(t, r)
  BY ONLY <1>3, <1>5, ThreadsOK, t \in Threads DEF Becomes, ThreadsOK
<1> QED BY <1>4, <1>6

LEMMA AnswerIs ==
  ASSUME ThreadsOK, NEW t \in Threads, Looks(th[t]), NEW s, Answer(t, s)
  PROVE  \E r : Becomes(t, r) /\ Looks(r)
<1>1. PICK r : r = [th[t] EXCEPT !.pc = "done", !.ans = s]
  OBVIOUS
<1>2. "done" \in LookPcs
  BY DEF LookPcs
<1>3. Looks(r)
  BY ONLY <1>1, <1>2, Looks(th[t]) DEF Looks
<1>4. Becomes(t, r)
  BY ONLY <1>1, Answer(t, s), ThreadsOK, t \in Threads DEF Becomes, ThreadsOK, Answer
<1> QED BY <1>3, <1>4

LEMMA AnswerSlabIs ==
  ASSUME ThreadsOK, NEW t \in Threads, Looks(th[t]), NEW s, AnswerSlab(t, s)
  PROVE  \E r : Becomes(t, r) /\ Looks(r)
<1>1. CASE s = th[t].key
  <2>1. Answer(t, s)
    BY <1>1 DEF AnswerSlab
  <2> QED BY <2>1, AnswerIs
<1>2. CASE s # th[t].key
  <2>1. Go(t, "bigGen") /\ "bigGen" \in LookPcs
    BY <1>2 DEF AnswerSlab, LookPcs
  <2> QED BY <2>1, GoesOn
<1> QED BY <1>1, <1>2

LEMMA ReadsIs ==
  ASSUME ThreadsOK, NEW t \in Threads, Reads(t)
  PROVE  /\ th[t].pc \in {"idle"} \cup LookPcs
         /\ \E r : Becomes(t, r) /\ (r = Idle \/ Looks(r))
         /\ UNCHANGED <<tables, lock, live, gone>>
<1>0. "probe" \in LookPcs /\ "fastTab" \in LookPcs /\ "fastCap" \in LookPcs /\ "miss" \in LookPcs
      /\ "bigGen" \in LookPcs /\ "done" \in LookPcs /\ "fastSeq" \in LookPcs /\ "findLock" \in LookPcs
      /\ "deref" \in LookPcs /\ "findGen" \in LookPcs /\ "bigSeq" \in LookPcs /\ "fastFirst" \in LookPcs
      /\ "map" \in LookPcs
  BY DEF LookPcs
<1>1. CASE \E k \in Keys : Lookup(t, k)
  <2>1. PICK k \in Keys : Lookup(t, k)
    BY <1>1
  <2>2. th[t] = Idle /\ UNCHANGED <<tables, lock, live, gone>>
    BY <2>1 DEF Lookup
  <2>3. PICK q \in LookPcs : q = IF ownHot[t] = k /\ k \in Normal THEN "done" ELSE "map"
    BY <1>0
  <2>4. PICK a : a = IF k \in Normal THEN ownHot[t] ELSE None
    OBVIOUS
  <2>5. PICK r : r = [pc |-> q, key |-> k, b |-> "slab", ans |-> a, s0 |-> 0, g |-> 1, cap |-> 0,
                      i |-> 0, tries |-> 0]
    OBVIOUS
  <2>6. Becomes(t, r)
    BY ONLY <2>1, <2>3, <2>4, <2>5 DEF Lookup, Becomes
  <2>7. Looks(r)
    BY ONLY <2>5, q \in LookPcs, k \in Keys DEF Looks
  <2> QED BY <2>2, <2>6, <2>7 DEF Idle
<1>2. ASSUME th[t].pc \in LookPcs, (\E r : Becomes(t, r) /\ (r = Idle \/ Looks(r))),
             UNCHANGED <<tables, lock, live, gone>>
      PROVE  /\ th[t].pc \in {"idle"} \cup LookPcs
             /\ \E r : Becomes(t, r) /\ (r = Idle \/ Looks(r))
             /\ UNCHANGED <<tables, lock, live, gone>>
  BY <1>2
<1>3. th[t].pc \in LookPcs => Looks(th[t])
  BY PcIs
<1>4. CASE LookupMap(t)
  <2>1. th[t].pc \in LookPcs /\ UNCHANGED <<tables, lock, live, gone>>
    BY <1>0, <1>4 DEF LookupMap, ghosts
  <2>2. AnswerSlab(t, th[t].key) \/ Go(t, "fastSeq")
    BY <1>4 DEF LookupMap
  <2>3. \E r : Becomes(t, r) /\ Looks(r)
    BY <1>0, <1>3, <2>1, <2>2, AnswerSlabIs, GoesOn
  <2> QED BY <1>2, <2>1, <2>3
<1>5. CASE FastSeq(t)
  <2>1. th[t].pc \in LookPcs /\ UNCHANGED <<tables, lock, live, gone>>
    BY <1>0, <1>5 DEF FastSeq, ghosts
  <2>2. PICK r : r = [th[t] EXCEPT !.s0 = seq, !.pc = "fastFirst"]
    OBVIOUS
  <2>3. Looks(r)
    BY ONLY <1>0, <1>3, <2>1, <2>2 DEF Looks
  <2>4. Becomes(t, r)
    BY ONLY <1>5, <2>2, ThreadsOK, t \in Threads DEF FastSeq, Becomes, ThreadsOK
  <2> QED BY <1>2, <2>1, <2>3, <2>4
<1>6. CASE Fast(t)
  <2>1. th[t].pc \in LookPcs /\ UNCHANGED <<tables, lock, live, gone>>
    BY <1>6 DEF Fast, FastCap, FastCapTab, FastTab, FastTabCap, LookPcs
  <2>2. \E g, cap : \E pc \in LookPcs : Start(t, g, cap, pc)
    BY <1>0, <1>6 DEF Fast, FastCap, FastCapTab, FastTab, FastTabCap
  <2>3. \E r : Becomes(t, r) /\ Looks(r)
    BY <1>3, <2>1, <2>2, StartIs
  <2> QED BY <1>2, <2>1, <2>3
<1>7. CASE Probe(t)
  <2>1. th[t].pc \in LookPcs /\ UNCHANGED <<tables, lock, live, gone>>
    BY <1>0, <1>7 DEF Probe, ghosts
  <2>2. PICK e : e = gens[th[t].b][th[t].g].tab[th[t].i]
    OBVIOUS
  <2>3. PICK r : r = IF e \notin {None, th[t].key} THEN [th[t] EXCEPT !.i = (@ + 1) % th[t].cap]
                     ELSE [th[t] EXCEPT !.pc = "deref", !.ans = e]
    OBVIOUS
  <2>4. Looks(r)
    BY ONLY <1>0, <1>3, <2>1, <2>3 DEF Looks
  <2>5. Becomes(t, r)
    BY ONLY <1>7, <2>2, <2>3, ThreadsOK, t \in Threads DEF Probe, Becomes, ThreadsOK
  <2> QED BY <1>2, <2>1, <2>4, <2>5
<1>8. CASE Deref(t)
  <2>1. th[t].pc \in LookPcs /\ UNCHANGED <<tables, lock, live, gone>>
    BY <1>0, <1>8 DEF Deref
  <2>2. \E s : Go(t, "miss") \/ AnswerSlab(t, s) \/ Answer(t, s)
    BY <1>8 DEF Deref
  <2>3. \E r : Becomes(t, r) /\ Looks(r)
    BY <1>0, <1>3, <2>1, <2>2, AnswerSlabIs, AnswerIs, GoesOn
  <2> QED BY <1>2, <2>1, <2>3
<1>9. CASE MissRetries(t)
  <2>1. th[t].pc \in LookPcs /\ UNCHANGED <<tables, lock, live, gone>>
    BY <1>0, <1>9 DEF MissRetries, ghosts
  <2>2. CASE th' = [th EXCEPT ![t].s0 = seq, ![t].pc = "findGen", ![t].tries = @ + 1]
    <3>1. PICK r : r = [th[t] EXCEPT !.s0 = seq, !.pc = "findGen", !.tries = @ + 1]
      OBVIOUS
    <3>2. Looks(r)
      BY ONLY <1>0, <1>3, <2>1, <3>1 DEF Looks
    <3>3. Becomes(t, r)
      BY ONLY <2>2, <3>1, ThreadsOK, t \in Threads DEF Becomes, ThreadsOK
    <3> QED BY <1>2, <2>1, <3>2, <3>3
  <2>3. CASE Go(t, "findLock")
    <3>1. \E r : Becomes(t, r) /\ Looks(r)
      BY <1>0, <1>3, <2>1, <2>3, GoesOn
    <3> QED BY <1>2, <2>1, <3>1
  <2> QED BY <1>9, <2>2, <2>3 DEF MissRetries
<1>15. CASE MissCounts(t)
  <2>1. th[t].pc \in LookPcs /\ UNCHANGED <<tables, lock, live, gone>>
    BY <1>0, <1>15 DEF MissCounts
  <2>2. Go(t, "bigGen") \/ Answer(t, None)
    BY <1>15 DEF MissCounts
  <2>3. \E r : Becomes(t, r) /\ Looks(r)
    BY <1>0, <1>3, <2>1, <2>2, AnswerIs, GoesOn
  <2> QED BY <1>2, <2>1, <2>3
<1>16. CASE ProbeOutside(t)
  <2>1. th[t].pc \in LookPcs /\ UNCHANGED <<tables, lock, live, gone>>
    BY <1>0, <1>16 DEF ProbeOutside, Outside, ghosts
  <2>2. \E s : Answer(t, s)
    BY <1>16 DEF ProbeOutside
  <2>3. \E r : Becomes(t, r) /\ Looks(r)
    BY <1>3, <2>1, <2>2, AnswerIs
  <2> QED BY <1>2, <2>1, <2>3
<1>10. CASE FindGen(t)
  <2>1. th[t].pc \in LookPcs /\ UNCHANGED <<tables, lock, live, gone>>
    BY <1>0, <1>10 DEF FindGen
  <2>2. \E g, cap : \E pc \in LookPcs : Start(t, g, cap, pc)
    BY <1>0, <1>10 DEF FindGen
  <2>3. \E r : Becomes(t, r) /\ Looks(r)
    BY <1>3, <2>1, <2>2, StartIs
  <2> QED BY <1>2, <2>1, <2>3
<1>11. CASE FindLock(t)
  <2>1. th[t].pc \in LookPcs /\ UNCHANGED <<tables, lock, live, gone>>
    BY <1>0, <1>11 DEF FindLock, ghosts
  <2>2. \E s : AnswerSlab(t, s) \/ Answer(t, s)
    BY <1>11 DEF FindLock
  <2>3. \E r : Becomes(t, r) /\ Looks(r)
    BY <1>3, <2>1, <2>2, AnswerSlabIs, AnswerIs
  <2> QED BY <1>2, <2>1, <2>3
<1>12. CASE BigGen(t)
  <2>1. th[t].pc \in LookPcs /\ UNCHANGED <<tables, lock, live, gone>>
    BY <1>0, <1>12 DEF BigGen, ghosts
  <2>2. CASE Answer(t, None)
    <3>1. \E r : Becomes(t, r) /\ Looks(r)
      BY <1>3, <2>1, <2>2, AnswerIs
    <3> QED BY <1>2, <2>1, <3>1
  <2>3. CASE ~Answer(t, None)
    <3>1. PICK cap : cap = gens["big"][cur["big"]].cap
      OBVIOUS
    <3>2. PICK i : i = ProbeOf(th[t].key, cap)
      OBVIOUS
    <3>3. PICK r : r = [th[t] EXCEPT !.b = "big", !.g = cur["big"], !.cap = cap, !.tries = 0,
                                     !.pc = "bigSeq", !.i = i]
      OBVIOUS
    <3>4. Looks(r)
      BY ONLY <1>0, <1>3, <2>1, <3>3 DEF Looks
    <3>5. th' = [th EXCEPT ![t].b = "big", ![t].g = cur["big"], ![t].cap = cap, ![t].tries = 0,
                           ![t].pc = "bigSeq", ![t].i = i]
      BY ONLY <1>12, <2>3, <3>1, <3>2 DEF BigGen
    <3>6. Becomes(t, r)
      BY ONLY <3>3, <3>5, ThreadsOK, t \in Threads DEF Becomes, ThreadsOK
    <3> QED BY <1>2, <2>1, <3>4, <3>6
  <2> QED BY <2>2, <2>3
<1>13. CASE BigSeq(t)
  <2>1. th[t].pc \in LookPcs /\ UNCHANGED <<tables, lock, live, gone>>
    BY <1>0, <1>13 DEF BigSeq
  <2>2. PICK r : r = [th[t] EXCEPT !.s0 = seq, !.pc = "probe"]
    OBVIOUS
  <2>3. Looks(r)
    BY ONLY <1>0, <1>3, <2>1, <2>2 DEF Looks
  <2>4. Becomes(t, r)
    BY ONLY <1>13, <2>2, ThreadsOK, t \in Threads DEF BigSeq, Becomes, ThreadsOK
  <2> QED BY <1>2, <2>1, <2>3, <2>4
<1>14. CASE Return(t)
  <2>1. th[t].pc \in LookPcs /\ UNCHANGED <<tables, lock, live, gone>>
    BY <1>0, <1>14 DEF Return
  <2>2. Becomes(t, Idle)
    BY <1>14 DEF Return, Becomes
  <2> QED BY <1>2, <2>1, <2>2
<1> QED BY <1>1, <1>4, <1>5, <1>6, <1>7, <1>8, <1>9, <1>10, <1>11, <1>12, <1>13, <1>14,
       <1>15, <1>16 DEF Reads

LEMMA GenIs ==
  ASSUME NEW g
  PROVE  g \in Gens <=> /\ g = [tab |-> g.tab, cap |-> g.cap]
                        /\ g.cap \in Nat \ {1} /\ g.tab \in [0..(g.cap - 1) -> Entries]
<1>1. ASSUME g \in Gens
      PROVE  g = [tab |-> g.tab, cap |-> g.cap] /\ g.cap \in Nat \ {1} /\ g.tab \in [0..(g.cap - 1) -> Entries]
  <2>1. PICK c \in Nat \ {1} : g \in [tab : [0..(c - 1) -> Entries], cap : {c}]
    BY <1>1 DEF Gens
  <2> QED BY ONLY <2>1, c \in Nat \ {1}
<1>2. ASSUME g = [tab |-> g.tab, cap |-> g.cap], g.cap \in Nat \ {1}, g.tab \in [0..(g.cap - 1) -> Entries]
      PROVE  g \in Gens
  <2>1. PICK c \in Nat \ {1} : c = g.cap
    BY <1>2
  <2>2. PICK f : f = g.tab
    OBVIOUS
  <2>3. g = [tab |-> f, cap |-> c] /\ f \in [0..(c - 1) -> Entries]
    BY ONLY <1>2, <2>1, <2>2
  <2>4. g \in [tab : [0..(c - 1) -> Entries], cap : {c}]
    BY ONLY <2>3
  <2> QED BY <2>4 DEF Gens
<1> QED BY <1>1, <1>2

LEMMA CurrentIs ==
  ASSUME GensOK, NEW b \in Kinds
  PROVE  /\ cur[b] \in 1..Len(gens[b]) /\ n[b] \in Nat /\ Current(b) \in Gens
<1>1. gens[b] \in Seq(Gens) /\ cur[b] \in Nat /\ n[b] \in Nat /\ cur[b] = Len(gens[b]) /\ cur[b] >= 1
  BY DEF GensOK
<1>2. cur[b] \in 1..Len(gens[b])
  BY ONLY <1>1
<1>3. gens[b][cur[b]] \in Gens
  BY ONLY <1>1, <1>2
<1> QED BY <1>1, <1>2, <1>3 DEF Current

\* One cell of a published table is written.
LEMMA CellWritten ==
  ASSUME GensOK, NEW b \in Kinds, NEW x \in 0..(Current(b).cap - 1), NEW e \in Entries,
         gens' = [gens EXCEPT ![b][cur[b]].tab[x] = e], cur' = cur
  PROVE  /\ gens' \in [Kinds -> Seq(Gens)]
         /\ \A d \in Kinds : Len(gens'[d]) = Len(gens[d])
         /\ Current(b)' = [tab |-> [Current(b).tab EXCEPT ![x] = e], cap |-> Current(b).cap]
         /\ \A d \in Kinds : d # b => gens'[d] = gens[d]
         /\ \A y \in 1..Len(gens[b]) : y # cur[b] => gens'[b][y] = gens[b][y]
<1>1. PICK s \in Seq(Gens) : s = gens[b]
  BY DEF GensOK
<1>2. PICK z \in 1..Len(s) : z = cur[b]
  BY <1>1, CurrentIs
<1>3. PICK g : g = Current(b)
  OBVIOUS
<1>4. g = s[z] /\ g \in Gens
  BY <1>1, <1>2, <1>3, CurrentIs DEF Current
<1>5. /\ g = [tab |-> g.tab, cap |-> g.cap]
      /\ g.cap \in Nat \ {1} /\ g.tab \in [0..(g.cap - 1) -> Entries]
  BY ONLY <1>4, GenIs
<1>6. PICK f : f = [g.tab EXCEPT ![x] = e]
  OBVIOUS
<1>7. f \in [0..(g.cap - 1) -> Entries]
  BY ONLY <1>5, <1>6, e \in Entries
<1>8. PICK h : h = [tab |-> f, cap |-> g.cap]
  OBVIOUS
<1>9. h \in Gens
  <2>1. h = [tab |-> h.tab, cap |-> h.cap] /\ h.cap \in Nat \ {1} /\ h.tab \in [0..(h.cap - 1) -> Entries]
    BY ONLY <1>5, <1>7, <1>8
  <2> QED BY ONLY <2>1, GenIs
<1>10. h = [g EXCEPT !.tab[x] = e]
  <2>1. [g EXCEPT !.tab[x] = e] = [g EXCEPT !.tab = [g.tab EXCEPT ![x] = e]]
    OBVIOUS
  <2>2. h = [g EXCEPT !.tab = f]
    BY ONLY <1>5, <1>8
  <2> QED BY ONLY <1>6, <2>1, <2>2
<1>11. PICK r : r = [s EXCEPT ![z] = h]
  OBVIOUS
<1>12. r \in Seq(Gens) /\ Len(r) = Len(s) /\ r[z] = h /\ \A y \in 1..Len(s) : y # z => r[y] = s[y]
  BY ONLY <1>9, <1>11, s \in Seq(Gens), z \in 1..Len(s)
<1>13. gens \in [Kinds -> Seq(Gens)]
  BY DEF GensOK
<1>14. gens' = [gens EXCEPT ![b] = r]
  <2>1. gens' = [gens EXCEPT ![b] = [gens[b] EXCEPT ![cur[b]] = [gens[b][cur[b]] EXCEPT !.tab[x] = e]]]
    BY ONLY gens' = [gens EXCEPT ![b][cur[b]].tab[x] = e]
  <2> QED BY ONLY <1>1, <1>2, <1>4, <1>10, <1>11, <2>1
<1>15. gens'[b] = r /\ \A d \in Kinds : d # b => gens'[d] = gens[d]
  BY ONLY <1>13, <1>14, b \in Kinds
<1>16. gens' \in [Kinds -> Seq(Gens)]
  BY ONLY <1>12, <1>13, <1>14, b \in Kinds
<1>17. \A d \in Kinds : Len(gens'[d]) = Len(gens[d])
  BY ONLY <1>1, <1>12, <1>15
<1>18. Current(b)' = h
  BY ONLY <1>2, <1>12, <1>15, cur' = cur DEF Current
<1> QED BY ONLY <1>1, <1>2, <1>3, <1>6, <1>8, <1>12, <1>15, <1>16, <1>17, <1>18

\* A new generation is published.
LEMMA GenAdded ==
  ASSUME GensOK, NEW b \in Kinds, NEW g \in Gens,
         gens' = [gens EXCEPT ![b] = Append(@, g)], cur' = [cur EXCEPT ![b] = Len(gens[b]) + 1],
         n' = n
  PROVE  /\ GensOK' /\ Current(b)' = g
         /\ \A d \in Kinds : d # b => gens'[d] = gens[d] /\ cur'[d] = cur[d]
         /\ \A y \in 1..Len(gens[b]) : gens'[b][y] = gens[b][y]
         /\ Len(gens'[b]) = Len(gens[b]) + 1
<1>1. PICK s \in Seq(Gens) : s = gens[b]
  BY DEF GensOK
<1>2. PICK r : r = Append(s, g)
  OBVIOUS
<1>3. /\ r \in Seq(Gens) /\ Len(r) = Len(s) + 1 /\ r[Len(s) + 1] = g
      /\ \A y \in 1..Len(s) : r[y] = s[y]
  BY ONLY <1>2, s \in Seq(Gens), g \in Gens
<1>4. Len(s) \in Nat
  BY ONLY s \in Seq(Gens)
<1>5. /\ gens \in [Kinds -> Seq(Gens)] /\ cur \in [Kinds -> Nat] /\ n \in [Kinds -> Nat]
      /\ \A d \in Kinds : cur[d] = Len(gens[d]) /\ cur[d] >= 1
  BY DEF GensOK
<1>6. gens' = [gens EXCEPT ![b] = r] /\ cur' = [cur EXCEPT ![b] = Len(s) + 1]
  BY <1>1, <1>2
<1>7. /\ gens' \in [Kinds -> Seq(Gens)] /\ gens'[b] = r
      /\ \A d \in Kinds : d # b => gens'[d] = gens[d]
  BY ONLY <1>3, <1>5, <1>6, b \in Kinds
<1>8. Len(s) + 1 \in Nat /\ Len(s) + 1 >= 1
  BY ONLY <1>4
<1>9. /\ cur' \in [Kinds -> Nat] /\ cur'[b] = Len(s) + 1
      /\ \A d \in Kinds : d # b => cur'[d] = cur[d]
  BY ONLY <1>5, <1>6, <1>8, b \in Kinds
<1>10. \A d \in Kinds : cur'[d] = Len(gens'[d]) /\ cur'[d] >= 1
  BY ONLY <1>3, <1>5, <1>7, <1>8, <1>9
<1>11. GensOK'
  BY ONLY <1>5, <1>7, <1>9, <1>10, n' = n DEF GensOK
<1>12. Current(b)' = g
  BY ONLY <1>3, <1>7, <1>9 DEF Current
<1> QED BY ONLY <1>1, <1>3, <1>7, <1>9, <1>11, <1>12

\* What the lock holder and everybody else does.
LEMMA Holder ==
  ASSUME RegistryInv, NEW t \in Threads, th[t].pc \in Locked
  PROVE  \A u \in Threads : u # t => th[u].pc \notin Locked
BY DEF RegistryInv, LockOK

LEMMA NoHolder ==
  ASSUME RegistryInv, lock = None
  PROVE  /\ \A u \in Threads : th[u].pc \notin Locked
         /\ \A b \in Kinds : Holds(Current(b), Mine(b), n[b])
<1>1. \A u \in Threads : th[u].pc \notin Locked
  BY RegistryAssumption DEF RegistryInv, LockOK
<1>2. \A u \in Threads : th[u].pc \notin Busy
  BY <1>1 DEF Locked, Busy, Writing
<1> QED BY <1>1, <1>2 DEF RegistryInv, TablesOK

\* The lock holder goes from one step of a writer to the next.
LEMMA Advance ==
  ASSUME RegistryInv, NEW t \in Threads, NEW r, Becomes(t, r),
         th[t].pc \in Locked, r.pc \in Locked, r.key = th[t].key, r.b = th[t].b,
         UNCHANGED <<lock, live, gone>>
  PROVE  LockOK' /\ KeysOK'
<1>1. th'[t] = r /\ \A u \in Threads : u # t => th'[u] = th[u]
  BY BecomesIs DEF RegistryInv
<1>2. LockOK'
  BY ONLY <1>1, RegistryInv, th[t].pc \in Locked, r.pc \in Locked, lock' = lock, t \in Threads
     DEF RegistryInv, LockOK
<1>3. \A u \in Threads : /\ th'[u].pc \in Writing => th[u].pc \in Writing
                         /\ th'[u].pc \in Writing => th'[u].key = th[u].key /\ th'[u].b = th[u].b
  BY <1>1 DEF Locked
<1>4. KeysOK'
  BY ONLY <1>3, RegistryInv, live' = live, gone' = gone DEF RegistryInv, KeysOK
<1> QED BY <1>2, <1>4

\* Two threads' tables apart: what a step of the lock holder t owes the others.
LEMMA TablesFrom ==
  ASSUME NEW t \in Threads, \A u \in Threads : u # t => th'[u].pc \notin Locked,
         \A b \in Kinds : (th'[t].pc \in Busy => th'[t].b # b) => Holds(Current(b)', Mine(b)', n'[b]),
         NEW d, d = th'[t].b, NEW g, g = Current(d)',
         th'[t].pc \in {"addMap", "addSeq"} => Table(g.tab, g.cap, Mine(d)' \cup {th'[t].key}, n'[d]),
         th'[t].pc = "delErase" =>
            /\ n'[d] # 0
            /\ Gap([g.tab EXCEPT ![th'[t].i] = None], g.cap, Mine(d)', n'[d] - 1, th'[t].i, th'[t].j),
         th'[t].pc \in {"addMirTab", "addMirCap", "addCell"} => g.cap # 0 /\ 2 * (n'[d] + 1) <= g.cap
  PROVE  TablesOK'
<1>1. \A u \in Threads : u # t => th'[u].pc \notin Busy \cup {"addMirTab", "addMirCap", "addCell"}
  BY DEF Locked, Writing, Busy
<1>2. \A b \in Kinds :
        (\A u \in Threads : th'[u].pc \in Busy => th'[u].b # b) => Holds(Current(b)', Mine(b)', n'[b])
  OBVIOUS
<1>3. \A u \in Threads : th'[u].pc \in {"addMap", "addSeq"} =>
         Table(Current(th[u].b)'.tab, Current(th[u].b)'.cap, Mine(th[u].b)' \cup {th'[u].key}, n'[th'[u].b])
  BY <1>1 DEF Busy
<1>4. \A u \in Threads : th'[u].pc = "delErase" =>
         /\ n'[th'[u].b] # 0
         /\ Gap([Current(th[u].b)'.tab EXCEPT ![th'[u].i] = None], Current(th[u].b)'.cap, Mine(th[u].b)',
                n'[th'[u].b] - 1, th'[u].i, th'[u].j)
  BY <1>1 DEF Busy
<1>5. \A u \in Threads : th'[u].pc \in {"addMirTab", "addMirCap", "addCell"} =>
         Current(th[u].b)'.cap # 0 /\ 2 * (n'[th'[u].b] + 1) <= Current(th[u].b)'.cap
  BY <1>1
<1> QED BY ONLY <1>2, <1>3, <1>4, <1>5 DEF TablesOK

\* A step that changes no table and no thread with the lock.
LEMMA Quiet ==
  ASSUME TablesOK, UNCHANGED <<gens, cur, n, live>>,
         \A u \in Threads : th[u].pc \in Locked \/ th'[u].pc \in Locked => th'[u] = th[u]
  PROVE  TablesOK'
<1>1. \A b \in Kinds : Current(b)' = Current(b) /\ Mine(b)' = Mine(b) /\ n'[b] = n[b]
  BY DEF Current, Mine
<1>3. \A u \in Threads : th[u].pc \in Busy \cup {"addMirTab", "addMirCap", "addCell"} \/
                         th'[u].pc \in Busy \cup {"addMirTab", "addMirCap", "addCell"} => th'[u] = th[u]
  BY DEF Locked, Writing, Busy
<1>4. ASSUME NEW b \in Kinds, \A u \in Threads : th'[u].pc \in Busy => th'[u].b # b
      PROVE  Holds(Current(b)', Mine(b)', n'[b])
  <2>1. \A u \in Threads : th[u].pc \in Busy => th[u].b # b
    BY ONLY <1>3, <1>4
  <2>2. Holds(Current(b), Mine(b), n[b])
    BY ONLY TablesOK, <2>1, b \in Kinds DEF TablesOK
  <2> QED BY ONLY <1>1, <2>2, b \in Kinds
<1>5. ASSUME NEW u \in Threads, th'[u].pc \in {"addMap", "addSeq"}
      PROVE  (LET b == th[u].b
              IN Table(Current(b).tab, Current(b).cap, Mine(b) \cup {th[u].key}, n[b]))'
  <2>1. th'[u] = th[u]
    BY <1>3, <1>5 DEF Busy
  <2>2. LET b == th[u].b IN Table(Current(b).tab, Current(b).cap, Mine(b) \cup {th[u].key}, n[b])
    BY ONLY <1>5, <2>1, TablesOK DEF TablesOK
  <2> QED BY ONLY <2>1, <2>2, UNCHANGED <<gens, cur, n, live>> DEF Current, Mine
<1>6. ASSUME NEW u \in Threads, th'[u].pc = "delErase"
      PROVE  (LET b == th[u].b
              IN /\ n[b] # 0
                 /\ Gap([Current(b).tab EXCEPT ![th[u].i] = None], Current(b).cap, Mine(b), n[b] - 1,
                        th[u].i, th[u].j))'
  <2>1. th'[u] = th[u]
    BY <1>3, <1>6 DEF Busy
  <2>2. LET b == th[u].b
        IN /\ n[b] # 0
           /\ Gap([Current(b).tab EXCEPT ![th[u].i] = None], Current(b).cap, Mine(b), n[b] - 1,
                  th[u].i, th[u].j)
    BY ONLY <1>6, <2>1, TablesOK DEF TablesOK
  <2> QED BY ONLY <2>1, <2>2, UNCHANGED <<gens, cur, n, live>> DEF Current, Mine
<1>7. ASSUME NEW u \in Threads, th'[u].pc \in {"addMirTab", "addMirCap", "addCell"}
      PROVE  (LET b == th[u].b IN Current(b).cap # 0 /\ 2 * (n[b] + 1) <= Current(b).cap)'
  <2>1. th'[u] = th[u]
    BY <1>3, <1>7
  <2>2. LET b == th[u].b IN Current(b).cap # 0 /\ 2 * (n[b] + 1) <= Current(b).cap
    BY ONLY <1>7, <2>1, TablesOK DEF TablesOK
  <2> QED BY ONLY <2>1, <2>2, UNCHANGED <<gens, cur, n, live>> DEF Current, Mine
<1> QED BY ONLY <1>4, <1>5, <1>6, <1>7 DEF TablesOK

LEMMA ReadsKeep ==
  ASSUME RegistryInv, NEW t \in Threads, Reads(t)
  PROVE  RegistryInv'
<1>1. /\ th[t].pc \in {"idle"} \cup LookPcs
      /\ UNCHANGED <<tables, lock, live, gone>>
  BY ReadsIs DEF RegistryInv
<1>2. PICK r : Becomes(t, r) /\ (r = Idle \/ Looks(r))
  BY ReadsIs DEF RegistryInv
<1>3. r.pc \in {"idle"} \cup LookPcs
  BY <1>2 DEF Looks, Idle
<1>4. th'[t] = r /\ (\A u \in Threads : u # t => th'[u] = th[u]) /\ ThreadsOK'
  BY <1>2, BecomesIs DEF RegistryInv
<1>5. \A u \in Threads : th[u].pc \in Writing \/ th'[u].pc \in Writing => th'[u] = th[u]
  BY ONLY <1>1, <1>3, <1>4 DEF Writing, LookPcs
<1>6. GensOK'
  BY <1>1 DEF RegistryInv, GensOK, tables
<1>7. LockOK'
  BY ONLY <1>1, <1>5, RegistryInv DEF RegistryInv, LockOK, Locked
<1>8. KeysOK'
  BY ONLY <1>1, <1>5, RegistryInv DEF RegistryInv, KeysOK
<1>9. TablesOK'
  <2>1. UNCHANGED <<gens, cur, n, live>>
    BY <1>1 DEF tables
  <2>2. \A u \in Threads : th[u].pc \in Locked \/ th'[u].pc \in Locked => th'[u] = th[u]
    BY <1>5 DEF Locked
  <2> QED BY ONLY <2>1, <2>2, RegistryInv, Quiet DEF RegistryInv
<1> QED BY ONLY <1>4, <1>6, <1>7, <1>8, <1>9 DEF RegistryInv

LEMMA AddCallKeeps ==
  ASSUME RegistryInv, NEW t \in Threads, NEW k \in Keys, AddCall(t, k)
  PROVE  RegistryInv'
<1>1. /\ th[t] = Idle /\ k \in gone /\ gone' = gone \ {k}
      /\ UNCHANGED <<gens, cur, n, mir, lock, live>>
  BY DEF AddCall, tables
<1>2. PICK b \in Kinds : b = KindOf(k)
  BY DEF KindOf, Kinds
<1>3. PICK r : r = [pc |-> "addLock", key |-> k, b |-> b]
  OBVIOUS
<1>4. Becomes(t, r)
  BY ONLY AddCall(t, k), <1>2, <1>3 DEF AddCall, Becomes
<1>5. Adds(r) /\ r.pc = "addLock" /\ r.key = k /\ r.b = KindOf(k)
  BY ONLY <1>2, <1>3, k \in Keys, b \in Kinds DEF Adds, AddPcs
<1>6. th'[t] = r /\ (\A u \in Threads : u # t => th'[u] = th[u]) /\ ThreadsOK'
  BY <1>4, <1>5, BecomesIs DEF RegistryInv
<1>7. th[t].pc = "idle"
  BY <1>1 DEF Idle
<1>8. \A u \in Threads : th[u].pc \in Locked \/ th'[u].pc \in Locked => th'[u] = th[u]
  BY ONLY <1>5, <1>6, <1>7 DEF Locked, Writing
<1>9. GensOK'
  BY <1>1 DEF RegistryInv, GensOK
<1>10. LockOK'
  BY ONLY <1>1, <1>5, <1>6, <1>7, <1>8, RegistryInv DEF RegistryInv, LockOK, Locked, Writing
<1>11. KeysOK'
  <2>1. /\ live \subseteq Keys /\ gone \subseteq Keys /\ live \cap gone = {}
        /\ \A u \in Threads : th[u].pc \in Writing =>
              th[u].key \notin live \cup gone /\ th[u].b = KindOf(th[u].key)
        /\ \A u, v \in Threads : th[u].pc \in Writing /\ th[v].pc \in Writing /\ th[u].key = th[v].key => u = v
    BY DEF RegistryInv, KeysOK
  <2>2. \A u \in Threads : th'[u].pc \in Writing =>
           th'[u].key \notin live' \cup gone' /\ th'[u].b = KindOf(th'[u].key)
    BY ONLY <1>1, <1>5, <1>6, <2>1
  <2>3. \A u, v \in Threads : th'[u].pc \in Writing /\ th'[v].pc \in Writing /\ th'[u].key = th'[v].key => u = v
    BY ONLY <1>1, <1>5, <1>6, <2>1
  <2>4. live' \subseteq Keys /\ gone' \subseteq Keys /\ live' \cap gone' = {}
    BY ONLY <1>1, <2>1
  <2> QED BY ONLY <2>2, <2>3, <2>4 DEF KeysOK
<1>12. TablesOK'
  BY ONLY <1>1, <1>8, RegistryInv, Quiet DEF RegistryInv
<1> QED BY ONLY <1>6, <1>9, <1>10, <1>11, <1>12 DEF RegistryInv

LEMMA HoldsIs ==
  ASSUME NEW g, NEW S, NEW m, Holds(g, S, m), g.cap # 0 \/ S # {}
  PROVE  Table(g.tab, g.cap, S, m)
BY DEF Holds, Gen0

LEMMA AddLockKeeps ==
  ASSUME RegistryInv, NEW t \in Threads, AddLock(t)
  PROVE  RegistryInv'
<1>1. /\ th[t].pc = "addLock" /\ lock = None /\ lock' = t
      /\ UNCHANGED <<gens, cur, n, mir, live, gone>>
  BY DEF AddLock, tables, ghosts
<1>2. Adds(th[t]) /\ ThreadsOK
  BY <1>1, PcIs DEF RegistryInv, AddPcs
<1>3. PICK b \in Kinds : b = th[t].b
  BY <1>2 DEF Adds
<1>4. PICK pc \in {"addGrow", "addCell"} :
        /\ Go(t, pc)
        /\ pc = IF Current(b).cap = 0 \/ (n[b] + 1) * 2 > Current(b).cap THEN "addGrow" ELSE "addCell"
  BY <1>3 DEF AddLock, Current
<1>5. PICK r : r = [th[t] EXCEPT !.pc = pc]
  OBVIOUS
<1>6. Becomes(t, r) /\ Adds(r) /\ r.pc = pc /\ r.key = th[t].key /\ r.b = b
  BY <1>2, <1>3, <1>4, <1>5, GoesOn DEF AddPcs
<1>7. th'[t] = r /\ (\A u \in Threads : u # t => th'[u] = th[u]) /\ ThreadsOK'
  BY <1>2, <1>6, BecomesIs
<1>8. (\A u \in Threads : th[u].pc \notin Locked) /\ \A d \in Kinds : Holds(Current(d), Mine(d), n[d])
  BY <1>1, NoHolder
<1>9. GensOK'
  BY <1>1 DEF RegistryInv, GensOK
<1>10. LockOK'
  <2>1. pc \in Locked
    BY DEF Locked, Writing
  <2> QED BY ONLY <1>1, <1>6, <1>7, <1>8, <2>1 DEF LockOK
<1>11. KeysOK'
  <2>1. \A u \in Threads : /\ th'[u].pc \in Writing => th[u].pc \in Writing
                           /\ th'[u].pc \in Writing => th'[u].key = th[u].key /\ th'[u].b = th[u].b
    BY <1>1, <1>3, <1>6, <1>7 DEF Writing
  <2> QED BY ONLY <1>1, <2>1, RegistryInv DEF RegistryInv, KeysOK
<1>12. TablesOK'
  <2>1. \A u \in Threads : u # t => th'[u].pc \notin Locked
    BY <1>7, <1>8
  <2>2. \A d \in Kinds : Holds(Current(d)', Mine(d)', n'[d])
    <3>1. \A d \in Kinds : Current(d)' = Current(d) /\ Mine(d)' = Mine(d) /\ n'[d] = n[d]
      BY <1>1 DEF Current, Mine
    <3> QED BY ONLY <1>8, <3>1
  <2>3. PICK g : g = Current(b)' /\ g = Current(b)
    BY <1>1 DEF Current
  <2>4. n[b] \in Nat /\ g.cap \in Nat
    BY <2>3, CurrentIs, GenIs DEF RegistryInv
  <2>5. pc = "addCell" => g.cap # 0 /\ 2 * (n'[b] + 1) <= g.cap
    BY ONLY <1>1, <1>4, <2>3, <2>4
  <2>6. th'[t].pc \in {"addGrow", "addCell"} /\ th'[t].b = b
    BY <1>6, <1>7
  <2> QED BY ONLY <1>6, <1>7, <2>1, <2>2, <2>3, <2>5, <2>6, t \in Threads, TablesFrom DEF Busy
<1> QED BY ONLY <1>7, <1>9, <1>10, <1>11, <1>12 DEF RegistryInv

\* The thread of a writer's step: what it holds, and that nobody else has the lock.
LEMMA WriterIs ==
  ASSUME RegistryInv, NEW t \in Threads, th[t].pc \in AddPcs \cup DelPcs
  PROVE  /\ Adds(th[t]) \/ Erases(th[t])
         /\ th[t].key \in Keys /\ th[t].b = KindOf(th[t].key) /\ th[t].b \in Kinds
         /\ th[t].key \notin live \cup gone
<1>1. Adds(th[t]) \/ Erases(th[t])
  BY PcIs DEF RegistryInv
<1>2. th[t].key \in Keys /\ th[t].b \in Kinds
  BY ONLY <1>1 DEF Adds, Erases
<1>3. th[t].pc \in Writing
  BY DEF Writing, AddPcs, DelPcs
<1> QED BY ONLY <1>1, <1>2, <1>3, RegistryInv, t \in Threads DEF RegistryInv, KeysOK

LEMMA AddGrowKeeps ==
  ASSUME RegistryInv, NEW t \in Threads, AddGrow(t)
  PROVE  RegistryInv'
<1>1. /\ th[t].pc = "addGrow"
      /\ UNCHANGED <<n, lock, live, gone>>
  BY DEF AddGrow, ghosts
<1>2. Adds(th[t]) /\ ThreadsOK
  BY <1>1, PcIs DEF RegistryInv, AddPcs
<1>3. PICK b \in Kinds : b = th[t].b
  BY <1>2 DEF Adds
<1>4. PICK pc \in {"addCell", "addMirTab"} : Go(t, pc)
  BY <1>3 DEF AddGrow
<1>5. PICK r : r = [th[t] EXCEPT !.pc = pc]
  OBVIOUS
<1>6. Becomes(t, r) /\ Adds(r) /\ r.pc = pc /\ r.key = th[t].key /\ r.b = b
  BY <1>2, <1>3, <1>4, <1>5, GoesOn DEF AddPcs
<1>7. th'[t] = r /\ (\A u \in Threads : u # t => th'[u] = th[u]) /\ ThreadsOK'
  BY <1>2, <1>6, BecomesIs
<1>8. th[t].pc \in Locked /\ r.pc \in Locked
  BY <1>1, <1>6 DEF Locked, Writing
<1>9. LockOK' /\ KeysOK'
  BY ONLY <1>1, <1>3, <1>6, <1>8, RegistryInv, t \in Threads, Advance
<1>10. \A u \in Threads : u # t => th[u].pc \notin Locked
  BY <1>8, Holder
<1>11. \A d \in Kinds : Holds(Current(d), Mine(d), n[d])
  <2>1. \A u \in Threads : th[u].pc \notin Busy
    BY <1>1, <1>10 DEF Locked, Writing, Busy
  <2> QED BY <2>1 DEF RegistryInv, TablesOK
<1>12. PICK g : g = NextReg(Current(b))
  OBVIOUS
<1>13. Table(g.tab, g.cap, Mine(b), n[b]) /\ 2 * (n[b] + 1) <= g.cap /\ g = [tab |-> g.tab, cap |-> g.cap]
  BY <1>11, <1>12, NextRegHolds
<1>14. g \in Gens
  <2>1. g.cap \in Nat \ {1} /\ g.tab \in [0..(g.cap - 1) -> Entries]
    BY <1>13 DEF Table
  <2> QED BY ONLY <1>13, <2>1, GenIs
<1>15. gens' = [gens EXCEPT ![b] = Append(@, g)] /\ cur' = [cur EXCEPT ![b] = Len(gens[b]) + 1]
  BY ONLY <1>3, <1>12, AddGrow(t) DEF AddGrow, Current
<1>16. /\ GensOK' /\ Current(b)' = g
       /\ \A d \in Kinds : d # b => gens'[d] = gens[d] /\ cur'[d] = cur[d]
  BY ONLY <1>1, <1>14, <1>15, RegistryInv, b \in Kinds, GenAdded DEF RegistryInv
<1>17. TablesOK'
  <2>1. \A u \in Threads : u # t => th'[u].pc \notin Locked
    BY <1>7, <1>10
  <2>2. \A d : Mine(d)' = Mine(d)
    BY <1>1 DEF Mine
  <2>3. ASSUME NEW d \in Kinds
        PROVE  Holds(Current(d)', Mine(d)', n'[d])
    <3>1. CASE d = b
      BY <1>1, <1>13, <1>16, <2>2, <3>1 DEF Holds
    <3>2. CASE d # b
      <4>1. Current(d)' = Current(d)
        BY <1>16, <3>2 DEF Current
      <4> QED BY <1>1, <1>11, <2>2, <4>1
    <3> QED BY <3>1, <3>2
  <2>4. g.cap # 0 /\ 2 * (n'[b] + 1) <= g.cap
    BY <1>1, <1>13 DEF Table
  <2>5. th'[t].pc \in {"addMirTab", "addCell"} /\ th'[t].b = b
    BY <1>6, <1>7
  <2> QED BY ONLY <1>16, <2>1, <2>3, <2>4, <2>5, t \in Threads, TablesFrom DEF Busy
<1> QED BY ONLY <1>7, <1>9, <1>16, <1>17 DEF RegistryInv

\* The stores to the mirror.
LEMMA AddMirKeeps ==
  ASSUME RegistryInv, NEW t \in Threads, AddMirTab(t) \/ AddMirCap(t)
  PROVE  RegistryInv'
<1>1. /\ th[t].pc \in {"addMirTab", "addMirCap"}
      /\ UNCHANGED <<gens, cur, n, lock, live, gone>>
  BY DEF AddMirTab, AddMirCap, ghosts
<1>2. Adds(th[t]) /\ ThreadsOK
  BY <1>1, PcIs DEF RegistryInv, AddPcs
<1>3. PICK b \in Kinds : b = th[t].b
  BY <1>2 DEF Adds
<1>4. PICK pc \in {"addMirCap", "addCell"} : Go(t, pc)
  BY DEF AddMirTab, AddMirCap
<1>5. PICK r : r = [th[t] EXCEPT !.pc = pc]
  OBVIOUS
<1>6. Becomes(t, r) /\ Adds(r) /\ r.pc = pc /\ r.key = th[t].key /\ r.b = b
  BY <1>2, <1>3, <1>4, <1>5, GoesOn DEF AddPcs
<1>7. th'[t] = r /\ (\A u \in Threads : u # t => th'[u] = th[u]) /\ ThreadsOK'
  BY <1>2, <1>6, BecomesIs
<1>8. th[t].pc \in Locked /\ r.pc \in Locked
  BY <1>1, <1>6 DEF Locked, Writing
<1>9. LockOK' /\ KeysOK'
  BY ONLY <1>1, <1>3, <1>6, <1>8, RegistryInv, t \in Threads, Advance
<1>10. \A u \in Threads : u # t => th[u].pc \notin Locked
  BY <1>8, Holder
<1>11. \A d \in Kinds : Holds(Current(d), Mine(d), n[d])
  <2>1. \A u \in Threads : th[u].pc \notin Busy
    BY <1>1, <1>10 DEF Locked, Writing, Busy
  <2> QED BY <2>1 DEF RegistryInv, TablesOK
<1>12. Current(b).cap # 0 /\ 2 * (n[b] + 1) <= Current(b).cap
  BY <1>1, <1>3 DEF RegistryInv, TablesOK
<1>13. GensOK'
  BY <1>1 DEF RegistryInv, GensOK
<1>14. TablesOK'
  <2>1. \A u \in Threads : u # t => th'[u].pc \notin Locked
    BY <1>7, <1>10
  <2>2. \A d : Mine(d)' = Mine(d) /\ Current(d)' = Current(d)
    BY <1>1 DEF Mine, Current
  <2>3. \A d \in Kinds : Holds(Current(d)', Mine(d)', n'[d])
    BY <1>1, <1>11, <2>2
  <2>4. PICK g : g = Current(b)' /\ g.cap # 0 /\ 2 * (n'[b] + 1) <= g.cap
    BY <1>1, <1>12, <2>2
  <2>5. th'[t].pc \in {"addMirCap", "addCell"} /\ th'[t].b = b
    BY <1>6, <1>7
  <2> QED BY ONLY <2>1, <2>3, <2>4, <2>5, t \in Threads, TablesFrom DEF Busy
<1> QED BY ONLY <1>7, <1>9, <1>13, <1>14 DEF RegistryInv

LEMMA AddCellKeeps ==
  ASSUME RegistryInv, NEW t \in Threads, AddCell(t)
  PROVE  RegistryInv'
<1>1. /\ th[t].pc = "addCell"
      /\ UNCHANGED <<cur, lock, live, gone>>
  BY DEF AddCell, ghosts
<1>2. Adds(th[t]) /\ ThreadsOK
  BY <1>1, PcIs DEF RegistryInv, AddPcs
<1>3. PICK b \in Kinds, k \in Keys : b = th[t].b /\ k = th[t].key /\ k \notin live
  BY <1>1, WriterIs DEF AddPcs
<1>4. PICK pc \in {"addMap", "addSeq"} : Go(t, pc)
  BY <1>3 DEF AddCell
<1>5. PICK r : r = [th[t] EXCEPT !.pc = pc]
  OBVIOUS
<1>6. Becomes(t, r) /\ Adds(r) /\ r.pc = pc /\ r.key = k /\ r.b = b
  BY <1>2, <1>3, <1>4, <1>5, GoesOn DEF AddPcs
<1>7. th'[t] = r /\ (\A u \in Threads : u # t => th'[u] = th[u]) /\ ThreadsOK'
  BY <1>2, <1>6, BecomesIs
<1>8. th[t].pc \in Locked /\ r.pc \in Locked
  BY <1>1, <1>6 DEF Locked, Writing
<1>9. LockOK' /\ KeysOK'
  BY ONLY <1>1, <1>3, <1>6, <1>8, RegistryInv, t \in Threads, Advance
<1>10. \A u \in Threads : u # t => th[u].pc \notin Locked
  BY <1>8, Holder
<1>11. \A d \in Kinds : Holds(Current(d), Mine(d), n[d])
  <2>1. \A u \in Threads : th[u].pc \notin Busy
    BY <1>1, <1>10 DEF Locked, Writing, Busy
  <2> QED BY <2>1 DEF RegistryInv, TablesOK
<1>12. Current(b).cap # 0 /\ 2 * (n[b] + 1) <= Current(b).cap
  BY <1>1, <1>3 DEF RegistryInv, TablesOK
<1>13. PICK g : g = Current(b)
  OBVIOUS
<1>14. Table(g.tab, g.cap, Mine(b), n[b])
  BY <1>11, <1>12, <1>13, HoldsIs
<1>15. k \notin Mine(b)
  BY <1>3 DEF Mine
<1>16. PICK x : x = SlotOf(g.tab, g.cap, k)
  OBVIOUS
<1>17. /\ x \in 0..(g.cap - 1) /\ g.tab[x] = None
       /\ \A y \in 0..(g.cap - 1) :
            Dist(ProbeOf(k, g.cap), y, g.cap) < Dist(ProbeOf(k, g.cap), x, g.cap) => g.tab[y] # None
  BY ONLY <1>14, <1>15, <1>16, k \in Keys, SlotOfAbsent
<1>18. PICK f : f = [g.tab EXCEPT ![x] = k]
  OBVIOUS
<1>19. n[b] \in Nat
  BY CurrentIs DEF RegistryInv
<1>20. Table(f, g.cap, Mine(b) \cup {k}, n[b] + 1)
  BY ONLY <1>12, <1>13, <1>14, <1>15, <1>17, <1>18, <1>19, k \in Keys, TableAdd
<1>21. gens' = [gens EXCEPT ![b][cur[b]].tab[x] = k] /\ n' = [n EXCEPT ![b] = @ + 1]
  BY ONLY <1>3, <1>13, <1>16, AddCell(t) DEF AddCell, Current
<1>22. /\ gens' \in [Kinds -> Seq(Gens)]
       /\ \A d \in Kinds : Len(gens'[d]) = Len(gens[d])
       /\ Current(b)' = [tab |-> f, cap |-> g.cap]
       /\ \A d \in Kinds : d # b => gens'[d] = gens[d]
  <2>1. k \in Entries
    BY DEF Entries
  <2> QED BY ONLY <1>1, <1>13, <1>17, <1>18, <1>21, <2>1, RegistryInv, b \in Kinds, CellWritten DEF RegistryInv
<1>23. /\ n' \in [Kinds -> Nat] /\ n'[b] = n[b] + 1
       /\ \A d \in Kinds : d # b => n'[d] = n[d]
  BY <1>19, <1>21 DEF RegistryInv, GensOK
<1>24. GensOK'
  BY ONLY <1>1, <1>22, <1>23, RegistryInv DEF RegistryInv, GensOK
<1>25. TablesOK'
  <2>1. \A u \in Threads : u # t => th'[u].pc \notin Locked
    BY <1>7, <1>10
  <2>2. \A d : Mine(d)' = Mine(d)
    BY <1>1 DEF Mine
  <2>3. th'[t].pc \in {"addMap", "addSeq"} /\ th'[t].b = b /\ th'[t].key = k
    BY <1>6, <1>7
  <2>4. \A d \in Kinds : d # b => Holds(Current(d)', Mine(d)', n'[d])
    <3>1. \A d \in Kinds : d # b => Current(d)' = Current(d)
      BY <1>1, <1>22 DEF Current
    <3> QED BY <1>11, <1>23, <2>2, <3>1
  <2>5. PICK h : h = Current(b)'
    OBVIOUS
  <2>6. Table(h.tab, h.cap, Mine(b)' \cup {th'[t].key}, n'[b])
    <3>1. h.tab = f /\ h.cap = g.cap
      BY ONLY <1>22, <2>5
    <3> QED BY ONLY <1>20, <1>23, <2>2, <2>3, <3>1
  <2>7. \A d \in Kinds : (th'[t].pc \in Busy => th'[t].b # d) => Holds(Current(d)', Mine(d)', n'[d])
    BY <2>3, <2>4 DEF Busy
  <2> QED BY ONLY <2>1, <2>3, <2>5, <2>6, <2>7, t \in Threads, TablesFrom
<1> QED BY ONLY <1>7, <1>9, <1>24, <1>25 DEF RegistryInv

LEMMA AddMapKeeps ==
  ASSUME RegistryInv, NEW t \in Threads, AddMap(t)
  PROVE  RegistryInv'
<1>1. /\ th[t].pc = "addMap" /\ Go(t, "addSeq")
      /\ UNCHANGED <<gens, cur, n, lock, live, gone>>
  BY DEF AddMap, ghosts, tables
<1>2. Adds(th[t]) /\ ThreadsOK
  BY <1>1, PcIs DEF RegistryInv, AddPcs
<1>3. PICK b \in Kinds : b = th[t].b
  BY <1>2 DEF Adds
<1>4. PICK r : r = [th[t] EXCEPT !.pc = "addSeq"]
  OBVIOUS
<1>5. Becomes(t, r) /\ Adds(r) /\ r.pc = "addSeq" /\ r.key = th[t].key /\ r.b = b
  BY <1>1, <1>2, <1>3, <1>4, GoesOn DEF AddPcs
<1>6. th'[t] = r /\ (\A u \in Threads : u # t => th'[u] = th[u]) /\ ThreadsOK'
  BY <1>2, <1>5, BecomesIs
<1>7. th[t].pc \in Locked /\ r.pc \in Locked
  BY <1>1, <1>5 DEF Locked, Writing
<1>8. LockOK' /\ KeysOK'
  BY ONLY <1>1, <1>3, <1>5, <1>7, RegistryInv, t \in Threads, Advance
<1>9. \A u \in Threads : u # t => th[u].pc \notin Locked
  BY <1>7, Holder
<1>10. GensOK'
  BY <1>1 DEF RegistryInv, GensOK
<1>11. TablesOK'
  <2>1. \A u \in Threads : u # t => th'[u].pc \notin Locked
    BY <1>6, <1>9
  <2>2. \A d : Mine(d)' = Mine(d) /\ Current(d)' = Current(d)
    BY <1>1 DEF Mine, Current
  <2>3. th'[t].pc = "addSeq" /\ th'[t].b = b /\ th'[t].key = th[t].key
    BY <1>5, <1>6
  <2>4. \A d \in Kinds : d # b => Holds(Current(d), Mine(d), n[d])
    <3>1. \A u \in Threads : th[u].pc \in Busy => th[u].b = b
      BY <1>3, <1>9 DEF Locked, Writing, Busy
    <3> QED BY <3>1 DEF RegistryInv, TablesOK
  <2>5. Table(Current(b).tab, Current(b).cap, Mine(b) \cup {th[t].key}, n[b])
    BY <1>1, <1>3 DEF RegistryInv, TablesOK
  <2>6. PICK h : h = Current(b)'
    OBVIOUS
  <2>7. Table(h.tab, h.cap, Mine(b)' \cup {th'[t].key}, n'[b])
    BY <1>1, <2>2, <2>3, <2>5, <2>6
  <2>8. \A d \in Kinds : (th'[t].pc \in Busy => th'[t].b # d) => Holds(Current(d)', Mine(d)', n'[d])
    BY <1>1, <2>2, <2>3, <2>4 DEF Busy
  <2> QED BY ONLY <2>1, <2>3, <2>6, <2>7, <2>8, t \in Threads, TablesFrom
<1> QED BY ONLY <1>6, <1>8, <1>10, <1>11 DEF RegistryInv

LEMMA AddSeqKeeps ==
  ASSUME RegistryInv, NEW t \in Threads, AddSeq(t)
  PROVE  RegistryInv'
<1>1. /\ th[t].pc = "addSeq" /\ Becomes(t, Idle) /\ lock' = None
      /\ live' = live \cup {th[t].key}
      /\ UNCHANGED <<gens, cur, n, gone>>
  BY DEF AddSeq, tables, Becomes
<1>2. th'[t] = Idle /\ (\A u \in Threads : u # t => th'[u] = th[u]) /\ ThreadsOK'
  BY <1>1, BecomesIs DEF RegistryInv
<1>3. PICK b \in Kinds, k \in Keys : b = th[t].b /\ k = th[t].key /\ k \notin live \cup gone /\ b = KindOf(k)
  BY <1>1, WriterIs DEF AddPcs
<1>4. Idle.pc = "idle" /\ th[t].pc \in Locked
  BY <1>1 DEF Idle, Locked, Writing
<1>5. \A u \in Threads : u # t => th[u].pc \notin Locked
  BY <1>4, Holder
<1>6. \A u \in Threads : th'[u].pc \notin Locked
  BY <1>2, <1>4, <1>5 DEF Locked, Writing
<1>7. GensOK'
  BY <1>1 DEF RegistryInv, GensOK
<1>8. LockOK'
  BY <1>1, <1>6, RegistryAssumption DEF LockOK
<1>9. KeysOK'
  <2>1. /\ live \subseteq Keys /\ gone \subseteq Keys /\ live \cap gone = {}
        /\ \A u \in Threads : th[u].pc \in Writing =>
              th[u].key \notin live \cup gone /\ th[u].b = KindOf(th[u].key)
        /\ \A u, v \in Threads : th[u].pc \in Writing /\ th[v].pc \in Writing /\ th[u].key = th[v].key => u = v
    BY DEF RegistryInv, KeysOK
  <2>2. \A u \in Threads : th'[u].pc \in Writing => u # t /\ th'[u] = th[u] /\ th[u].pc \in Writing
    BY <1>2, <1>4 DEF Writing
  <2>3. th[t].pc \in Writing
    BY <1>1 DEF Writing
  <2>4. \A u \in Threads : th'[u].pc \in Writing =>
           th'[u].key \notin live' \cup gone' /\ th'[u].b = KindOf(th'[u].key)
    BY ONLY <1>1, <2>1, <2>2, <2>3, t \in Threads
  <2>5. \A u, v \in Threads : th'[u].pc \in Writing /\ th'[v].pc \in Writing /\ th'[u].key = th'[v].key => u = v
    BY ONLY <2>1, <2>2
  <2>6. live' \subseteq Keys /\ gone' \subseteq Keys /\ live' \cap gone' = {}
    BY ONLY <1>1, <1>3, <2>1, k \in Keys
  <2> QED BY ONLY <2>4, <2>5, <2>6 DEF KeysOK
<1>10. TablesOK'
  <2>1. \A d : Current(d)' = Current(d)
    BY <1>1 DEF Current
  <2>2. Mine(b)' = Mine(b) \cup {k}
    BY <1>1, <1>3 DEF Mine
  <2>3. \A d \in Kinds : d # b => Mine(d)' = Mine(d)
    BY <1>1, <1>3 DEF Mine
  <2>4. \A d \in Kinds : d # b => Holds(Current(d), Mine(d), n[d])
    <3>1. \A u \in Threads : th[u].pc \in Busy => th[u].b = b
      BY <1>3, <1>5 DEF Locked, Writing, Busy
    <3> QED BY <3>1 DEF RegistryInv, TablesOK
  <2>5. Table(Current(b).tab, Current(b).cap, Mine(b) \cup {k}, n[b])
    BY <1>1, <1>3 DEF RegistryInv, TablesOK
  <2>6. ASSUME NEW d \in Kinds
        PROVE  Holds(Current(d)', Mine(d)', n'[d])
    <3>1. CASE d = b
      BY <1>1, <2>1, <2>2, <2>5, <3>1 DEF Holds
    <3>2. CASE d # b
      BY <1>1, <2>1, <2>3, <2>4, <3>2
    <3> QED BY <3>1, <3>2
  <2>7. \A u \in Threads : th'[u].pc \notin Busy \cup {"addMirTab", "addMirCap", "addCell"}
    BY <1>6 DEF Locked, Writing, Busy
  <2> QED BY <2>6, <2>7 DEF TablesOK, Busy
<1> QED BY ONLY <1>2, <1>7, <1>8, <1>9, <1>10 DEF RegistryInv

LEMMA DelLockKeeps ==
  ASSUME RegistryInv, NEW t \in Threads, NEW k \in Keys, DelLock(t, k)
  PROVE  RegistryInv'
<1>1. /\ th[t] = Idle /\ k \in live /\ lock = None /\ lock' = t
      /\ live' = live \ {k}
      /\ UNCHANGED <<gens, cur, n, gone>>
  BY DEF DelLock, tables
<1>2. PICK b \in Kinds : b = KindOf(k)
  BY DEF KindOf, Kinds
<1>3. PICK g : g = Current(b)
  OBVIOUS
<1>4. PICK i : i = SlotOf(g.tab, g.cap, k)
  OBVIOUS
<1>5. PICK r : r = [pc |-> "delErase", key |-> k, b |-> b, i |-> i, j |-> i]
  OBVIOUS
<1>6. Becomes(t, r)
  BY ONLY DelLock(t, k), <1>2, <1>3, <1>4, <1>5 DEF DelLock, Becomes, Current
<1>7. Erases(r) /\ r.pc = "delErase" /\ r.key = k /\ r.b = b /\ r.i = i /\ r.j = i
  BY ONLY <1>5, k \in Keys, b \in Kinds DEF Erases, DelPcs
<1>8. th'[t] = r /\ (\A u \in Threads : u # t => th'[u] = th[u]) /\ ThreadsOK'
  BY <1>6, <1>7, BecomesIs DEF RegistryInv
<1>9. (\A u \in Threads : th[u].pc \notin Locked) /\ \A d \in Kinds : Holds(Current(d), Mine(d), n[d])
  BY <1>1, NoHolder
<1>10. th[t].pc = "idle" /\ "delErase" \in Locked
  BY <1>1 DEF Idle, Locked, Writing
<1>11. GensOK'
  BY <1>1 DEF RegistryInv, GensOK
<1>12. LockOK'
  BY ONLY <1>1, <1>7, <1>8, <1>9, <1>10 DEF LockOK
<1>13. KeysOK'
  <2>1. /\ live \subseteq Keys /\ gone \subseteq Keys /\ live \cap gone = {}
        /\ \A u \in Threads : th[u].pc \in Writing =>
              th[u].key \notin live \cup gone /\ th[u].b = KindOf(th[u].key)
        /\ \A u, v \in Threads : th[u].pc \in Writing /\ th[v].pc \in Writing /\ th[u].key = th[v].key => u = v
    BY DEF RegistryInv, KeysOK
  <2>2. \A u \in Threads : th'[u].pc \in Writing =>
           th'[u].key \notin live' \cup gone' /\ th'[u].b = KindOf(th'[u].key)
    BY ONLY <1>1, <1>2, <1>7, <1>8, <2>1
  <2>3. \A u, v \in Threads : th'[u].pc \in Writing /\ th'[v].pc \in Writing /\ th'[u].key = th'[v].key => u = v
    BY ONLY <1>1, <1>7, <1>8, <2>1
  <2>4. live' \subseteq Keys /\ gone' \subseteq Keys /\ live' \cap gone' = {}
    BY ONLY <1>1, <2>1
  <2> QED BY ONLY <2>2, <2>3, <2>4 DEF KeysOK
<1>14. TablesOK'
  <2>1. \A u \in Threads : u # t => th'[u].pc \notin Locked
    BY <1>8, <1>9
  <2>2. \A d : Current(d)' = Current(d)
    BY <1>1 DEF Current
  <2>3. k \in Mine(b) /\ Mine(b)' = Mine(b) \ {k}
    BY <1>1, <1>2 DEF Mine
  <2>4. \A d \in Kinds : d # b => Mine(d)' = Mine(d)
    BY <1>1, <1>2 DEF Mine
  <2>5. Table(g.tab, g.cap, Mine(b), n[b])
    BY <1>3, <1>9, <2>3, HoldsIs
  <2>6. i \in 0..(g.cap - 1) /\ g.tab[i] = k
    BY ONLY <1>4, <2>3, <2>5, SlotOfPresent
  <2>7. k # None
    BY RegistryAssumption
  <2>8. n[b] - 1 \in Nat /\ Gap([g.tab EXCEPT ![i] = None], g.cap, Mine(b) \ {k}, n[b] - 1, i, i)
    BY ONLY <2>5, <2>6, <2>7, GapBegins
  <2>9. n[b] # 0
    BY ONLY <2>8
  <2>10. th'[t].pc = "delErase" /\ th'[t].b = b /\ th'[t].i = i /\ th'[t].j = i
    BY <1>7, <1>8
  <2>11. g = Current(b)'
    BY <1>3, <2>2
  <2>12. /\ n'[b] # 0
         /\ Gap([g.tab EXCEPT ![th'[t].i] = None], g.cap, Mine(b)', n'[b] - 1, th'[t].i, th'[t].j)
    BY <1>1, <2>3, <2>8, <2>9, <2>10
  <2>13. \A d \in Kinds : (th'[t].pc \in Busy => th'[t].b # d) => Holds(Current(d)', Mine(d)', n'[d])
    BY <1>1, <1>9, <2>2, <2>4, <2>10 DEF Busy
  <2> QED BY ONLY <2>1, <2>10, <2>11, <2>12, <2>13, t \in Threads, TablesFrom
<1> QED BY ONLY <1>8, <1>11, <1>12, <1>13, <1>14 DEF RegistryInv

LEMMA DelSeqKeeps ==
  ASSUME RegistryInv, NEW t \in Threads, DelSeq(t)
  PROVE  RegistryInv'
<1>1. /\ th[t].pc = "delSeq" /\ Becomes(t, Idle) /\ lock' = None
      /\ gone' = gone \cup {th[t].key}
      /\ UNCHANGED <<gens, cur, n, live>>
  BY DEF DelSeq, tables, Becomes
<1>2. th'[t] = Idle /\ (\A u \in Threads : u # t => th'[u] = th[u]) /\ ThreadsOK'
  BY <1>1, BecomesIs DEF RegistryInv
<1>3. PICK k \in Keys : k = th[t].key /\ k \notin live
  BY <1>1, WriterIs DEF DelPcs
<1>4. Idle.pc = "idle" /\ th[t].pc \in Locked
  BY <1>1 DEF Idle, Locked, Writing
<1>5. \A u \in Threads : u # t => th[u].pc \notin Locked
  BY <1>4, Holder
<1>6. \A u \in Threads : th'[u].pc \notin Locked
  BY <1>2, <1>4, <1>5 DEF Locked, Writing
<1>7. GensOK'
  BY <1>1 DEF RegistryInv, GensOK
<1>8. LockOK'
  BY <1>1, <1>6, RegistryAssumption DEF LockOK
<1>9. KeysOK'
  <2>1. /\ live \subseteq Keys /\ gone \subseteq Keys /\ live \cap gone = {}
        /\ \A u \in Threads : th[u].pc \in Writing =>
              th[u].key \notin live \cup gone /\ th[u].b = KindOf(th[u].key)
        /\ \A u, v \in Threads : th[u].pc \in Writing /\ th[v].pc \in Writing /\ th[u].key = th[v].key => u = v
    BY DEF RegistryInv, KeysOK
  <2>2. \A u \in Threads : th'[u].pc \in Writing => u # t /\ th'[u] = th[u] /\ th[u].pc \in Writing
    BY <1>2, <1>4 DEF Writing
  <2>3. th[t].pc \in Writing
    BY <1>1 DEF Writing
  <2>4. \A u \in Threads : th'[u].pc \in Writing =>
           th'[u].key \notin live' \cup gone' /\ th'[u].b = KindOf(th'[u].key)
    BY ONLY <1>1, <2>1, <2>2, <2>3, t \in Threads
  <2>5. \A u, v \in Threads : th'[u].pc \in Writing /\ th'[v].pc \in Writing /\ th'[u].key = th'[v].key => u = v
    BY ONLY <2>1, <2>2
  <2>6. live' \subseteq Keys /\ gone' \subseteq Keys /\ live' \cap gone' = {}
    BY ONLY <1>1, <1>3, <2>1, k \in Keys
  <2> QED BY ONLY <2>4, <2>5, <2>6 DEF KeysOK
<1>10. TablesOK'
  <2>1. \A d : Current(d)' = Current(d) /\ Mine(d)' = Mine(d)
    BY <1>1 DEF Current, Mine
  <2>2. \A d \in Kinds : Holds(Current(d), Mine(d), n[d])
    <3>1. \A u \in Threads : th[u].pc \notin Busy
      BY <1>1, <1>5 DEF Locked, Writing, Busy
    <3> QED BY <3>1 DEF RegistryInv, TablesOK
  <2>3. \A d \in Kinds : Holds(Current(d)', Mine(d)', n'[d])
    BY <1>1, <2>1, <2>2
  <2>4. \A u \in Threads : th'[u].pc \notin Busy \cup {"addMirTab", "addMirCap", "addCell"}
    BY <1>6 DEF Locked, Writing, Busy
  <2> QED BY <2>3, <2>4 DEF TablesOK, Busy
<1> QED BY ONLY <1>2, <1>7, <1>8, <1>9, <1>10 DEF RegistryInv

LEMMA DelEraseKeeps ==
  ASSUME RegistryInv, NEW t \in Threads, DelErase(t)
  PROVE  RegistryInv'
<1>1. /\ th[t].pc = "delErase"
      /\ UNCHANGED <<cur, lock, live, gone>>
  BY DEF DelErase, ghosts
<1>2. Erases(th[t]) /\ ThreadsOK
  BY <1>1, PcIs DEF RegistryInv, DelPcs
<1>3. PICK b \in Kinds : b = th[t].b
  BY <1>2 DEF Erases
<1>4. PICK g : g = Current(b)
  OBVIOUS
<1>5. PICK i : i = th[t].i
  OBVIOUS
<1>6. PICK j : j = th[t].j
  OBVIOUS
<1>7. PICK q : q = (j + 1) % g.cap
  OBVIOUS
<1>8. PICK e : e = g.tab[q]
  OBVIOUS
<1>9. PICK f : f = [g.tab EXCEPT ![i] = None]
  OBVIOUS
<1>10. n[b] \in Nat /\ g.cap \in Nat \ {1} /\ g.tab \in [0..(g.cap - 1) -> Entries]
  BY <1>4, CurrentIs, GenIs DEF RegistryInv
<1>11. n[b] # 0 /\ Gap(f, g.cap, Mine(b), n[b] - 1, i, j)
  BY <1>1, <1>3, <1>4, <1>5, <1>6, <1>9 DEF RegistryInv, TablesOK
<1>12. i \in 0..(g.cap - 1) /\ q \in 0..(g.cap - 1) /\ q # i
  <2>1. i \in 0..(g.cap - 1)
    BY <1>11 DEF Gap
  <2> QED BY ONLY <1>7, <1>11, <2>1, GapNext
<1>13. f[q] = e /\ e \in Entries /\ None \in Entries
  BY <1>8, <1>9, <1>10, <1>12 DEF Entries
<1>14. th[t].pc \in Locked /\ \A u \in Threads : u # t => th[u].pc \notin Locked
  <2>1. th[t].pc \in Locked
    BY <1>1 DEF Locked, Writing
  <2> QED BY <2>1, Holder
<1>15. \A d \in Kinds : d # b => Holds(Current(d), Mine(d), n[d])
  <2>1. \A u \in Threads : th[u].pc \in Busy => th[u].b = b
    BY <1>3, <1>14 DEF Locked, Writing, Busy
  <2> QED BY <2>1 DEF RegistryInv, TablesOK
<1>16. \A d : Mine(d)' = Mine(d)
  BY <1>1 DEF Mine
<1>17. /\ gens \in [Kinds -> Seq(Gens)] /\ cur \in [Kinds -> Nat] /\ n \in [Kinds -> Nat]
       /\ \A d \in Kinds : cur[d] = Len(gens[d]) /\ cur[d] >= 1
  BY DEF RegistryInv, GensOK
<1>18. CASE e = None
  <2>1. /\ gens' = [gens EXCEPT ![b][cur[b]].tab[i] = None] /\ n' = [n EXCEPT ![b] = @ - 1]
        /\ Go(t, "delSeq")
    BY ONLY <1>3, <1>4, <1>5, <1>6, <1>7, <1>8, <1>18, DelErase(t) DEF DelErase, Current
  <2>2. PICK r : r = [th[t] EXCEPT !.pc = "delSeq"]
    OBVIOUS
  <2>3. Becomes(t, r) /\ Erases(r) /\ r.pc = "delSeq" /\ r.key = th[t].key /\ r.b = b
    BY <1>2, <1>3, <2>1, <2>2, GoesOn DEF DelPcs
  <2>4. th'[t] = r /\ (\A u \in Threads : u # t => th'[u] = th[u]) /\ ThreadsOK'
    BY <1>2, <2>3, BecomesIs
  <2>5. LockOK' /\ KeysOK'
    <3>1. r.pc \in Locked
      BY <2>3 DEF Locked, Writing
    <3> QED BY ONLY <1>1, <1>3, <1>14, <2>3, <3>1, RegistryInv, t \in Threads, Advance
  <2>6. /\ gens' \in [Kinds -> Seq(Gens)]
        /\ \A d \in Kinds : Len(gens'[d]) = Len(gens[d])
        /\ Current(b)' = [tab |-> f, cap |-> g.cap]
        /\ \A d \in Kinds : d # b => gens'[d] = gens[d]
    <3>1. GensOK /\ cur' = cur /\ i \in 0..(Current(b).cap - 1) /\ None \in Entries
      BY <1>1, <1>4, <1>12, <1>13 DEF RegistryInv
    <3>2. gens' = [gens EXCEPT ![b][cur[b]].tab[i] = None]
      BY <2>1
    <3>3. /\ gens' \in [Kinds -> Seq(Gens)]
          /\ \A d \in Kinds : Len(gens'[d]) = Len(gens[d])
          /\ Current(b)' = [tab |-> [Current(b).tab EXCEPT ![i] = None], cap |-> Current(b).cap]
          /\ \A d \in Kinds : d # b => gens'[d] = gens[d]
      BY ONLY <3>1, <3>2, b \in Kinds, CellWritten, ZenonT(40)
    <3> QED BY ONLY <1>4, <1>9, <3>3
  <2>7. n' \in [Kinds -> Nat] /\ n'[b] = n[b] - 1 /\ \A d \in Kinds : d # b => n'[d] = n[d]
    BY ONLY <1>10, <1>11, <1>17, <2>1, b \in Kinds
  <2>8. GensOK'
    BY ONLY <1>1, <1>17, <2>6, <2>7 DEF GensOK
  <2>9. Table(f, g.cap, Mine(b), n[b] - 1)
    BY ONLY <1>7, <1>11, <1>13, <1>18, GapEnds
  <2>10. TablesOK'
    <3>1. \A u \in Threads : u # t => th'[u].pc \notin Locked
      BY <1>14, <2>4
    <3>2. \A d \in Kinds : d # b => Current(d)' = Current(d)
      BY <1>1, <2>6 DEF Current
    <3>3. ASSUME NEW d \in Kinds
          PROVE  Holds(Current(d)', Mine(d)', n'[d])
      <4>1. CASE d = b
        <5>1. PICK h : h = Current(b)'
          OBVIOUS
        <5>2. h.tab = f /\ h.cap = g.cap
          BY ONLY <2>6, <5>1
        <5>3. Holds(h, Mine(b), n'[b])
          BY ONLY <2>7, <2>9, <5>2 DEF Holds
        <5> QED BY <1>16, <4>1, <5>1, <5>3
      <4>2. CASE d # b
        BY <1>15, <1>16, <2>7, <3>2, <4>2
      <4> QED BY <4>1, <4>2
    <3>4. \A u \in Threads : th'[u].pc \notin Busy \cup {"addMirTab", "addMirCap", "addCell"}
      BY <2>3, <2>4, <3>1 DEF Locked, Writing, Busy
    <3> QED BY <3>3, <3>4 DEF TablesOK, Busy
  <2> QED BY ONLY <2>4, <2>5, <2>8, <2>10 DEF RegistryInv
<1>19. CASE e # None /\ Moves(ProbeOf(e, g.cap), i, q)
  <2>1. /\ gens' = [gens EXCEPT ![b][cur[b]].tab[i] = e] /\ n' = n
        /\ th' = [th EXCEPT ![t].i = q, ![t].j = q]
    BY ONLY <1>3, <1>4, <1>5, <1>6, <1>7, <1>8, <1>19, DelErase(t) DEF DelErase, Current
  <2>2. PICK r : r = [th[t] EXCEPT !.i = q, !.j = q]
    OBVIOUS
  <2>3. Becomes(t, r)
    BY ONLY <1>2, <2>1, <2>2, t \in Threads DEF Becomes, ThreadsOK
  <2>4. Erases(r) /\ r.pc = "delErase" /\ r.key = th[t].key /\ r.b = b /\ r.i = q /\ r.j = q
    BY ONLY <1>1, <1>2, <1>3, <2>2 DEF Erases
  <2>5. th'[t] = r /\ (\A u \in Threads : u # t => th'[u] = th[u]) /\ ThreadsOK'
    BY <1>2, <2>3, <2>4, BecomesIs
  <2>6. LockOK' /\ KeysOK'
    <3>1. r.pc \in Locked
      BY <2>4 DEF Locked, Writing
    <3> QED BY ONLY <1>1, <1>3, <1>14, <2>3, <2>4, <3>1, RegistryInv, t \in Threads, Advance
  <2>7. PICK v : v = [g.tab EXCEPT ![i] = e]
    OBVIOUS
  <2>8. /\ gens' \in [Kinds -> Seq(Gens)]
        /\ \A d \in Kinds : Len(gens'[d]) = Len(gens[d])
        /\ Current(b)' = [tab |-> v, cap |-> g.cap]
        /\ \A d \in Kinds : d # b => gens'[d] = gens[d]
    <3>1. GensOK /\ cur' = cur /\ i \in 0..(Current(b).cap - 1) /\ e \in Entries
      BY <1>1, <1>4, <1>12, <1>13 DEF RegistryInv
    <3>2. gens' = [gens EXCEPT ![b][cur[b]].tab[i] = e]
      BY <2>1
    <3>3. /\ gens' \in [Kinds -> Seq(Gens)]
          /\ \A d \in Kinds : Len(gens'[d]) = Len(gens[d])
          /\ Current(b)' = [tab |-> [Current(b).tab EXCEPT ![i] = e], cap |-> Current(b).cap]
          /\ \A d \in Kinds : d # b => gens'[d] = gens[d]
      BY ONLY <3>1, <3>2, b \in Kinds, CellWritten, ZenonT(40)
    <3> QED BY ONLY <1>4, <2>7, <3>3
  <2>9. GensOK'
    BY ONLY <1>1, <1>17, <2>1, <2>8 DEF GensOK
  <2>10. PICK w : w = [v EXCEPT ![q] = None]
    OBVIOUS
  <2>11. w = [[f EXCEPT ![i] = f[q]] EXCEPT ![q] = None]
    BY ONLY <1>9, <1>10, <1>12, <1>13, <2>7, <2>10
  <2>12. Gap(w, g.cap, Mine(b), n[b] - 1, q, q)
    BY ONLY <1>7, <1>11, <1>13, <1>19, <2>11, GapMoves
  <2>13. TablesOK'
    <3>1. \A u \in Threads : u # t => th'[u].pc \notin Locked
      BY <1>14, <2>5
    <3>2. \A d \in Kinds : d # b => Current(d)' = Current(d)
      BY <1>1, <2>8 DEF Current
    <3>3. th'[t].pc = "delErase" /\ th'[t].b = b /\ th'[t].i = q /\ th'[t].j = q
      BY <2>4, <2>5
    <3>4. PICK h : h = Current(b)'
      OBVIOUS
    <3>5. h.tab = v /\ h.cap = g.cap
      BY ONLY <2>8, <3>4
    <3>6. /\ n'[b] # 0
          /\ Gap([h.tab EXCEPT ![th'[t].i] = None], h.cap, Mine(b)', n'[b] - 1, th'[t].i, th'[t].j)
      BY <1>11, <1>16, <2>1, <2>10, <2>12, <3>3, <3>5
    <3>7. \A d \in Kinds : (th'[t].pc \in Busy => th'[t].b # d) => Holds(Current(d)', Mine(d)', n'[d])
      BY <1>15, <1>16, <2>1, <3>2, <3>3 DEF Busy
    <3> QED BY ONLY <3>1, <3>3, <3>4, <3>6, <3>7, t \in Threads, TablesFrom
  <2> QED BY ONLY <2>5, <2>6, <2>9, <2>13 DEF RegistryInv
<1>20. CASE e # None /\ ~Moves(ProbeOf(e, g.cap), i, q)
  <2>1. gens' = gens /\ n' = n /\ th' = [th EXCEPT ![t].j = q]
    BY ONLY <1>3, <1>4, <1>5, <1>6, <1>7, <1>8, <1>20, DelErase(t) DEF DelErase, Current
  <2>2. PICK r : r = [th[t] EXCEPT !.j = q]
    OBVIOUS
  <2>3. Becomes(t, r)
    BY ONLY <1>2, <2>1, <2>2, t \in Threads DEF Becomes, ThreadsOK
  <2>4. Erases(r) /\ r.pc = "delErase" /\ r.key = th[t].key /\ r.b = b /\ r.i = i /\ r.j = q
    BY ONLY <1>1, <1>2, <1>3, <1>5, <2>2 DEF Erases
  <2>5. th'[t] = r /\ (\A u \in Threads : u # t => th'[u] = th[u]) /\ ThreadsOK'
    BY <1>2, <2>3, <2>4, BecomesIs
  <2>6. LockOK' /\ KeysOK'
    <3>1. r.pc \in Locked
      BY <2>4 DEF Locked, Writing
    <3> QED BY ONLY <1>1, <1>3, <1>14, <2>3, <2>4, <3>1, RegistryInv, t \in Threads, Advance
  <2>7. GensOK'
    BY ONLY <1>1, <1>17, <2>1 DEF GensOK
  <2>8. Gap(f, g.cap, Mine(b), n[b] - 1, i, q)
    BY ONLY <1>7, <1>11, <1>13, <1>20, GapSkips
  <2>9. TablesOK'
    <3>1. \A u \in Threads : u # t => th'[u].pc \notin Locked
      BY <1>14, <2>5
    <3>2. \A d \in Kinds : Current(d)' = Current(d)
      BY <1>1, <2>1 DEF Current
    <3>3. th'[t].pc = "delErase" /\ th'[t].b = b /\ th'[t].i = i /\ th'[t].j = q
      BY <2>4, <2>5
    <3>4. g = Current(b)'
      BY <1>4, <3>2
    <3>5. /\ n'[b] # 0
          /\ Gap([g.tab EXCEPT ![th'[t].i] = None], g.cap, Mine(b)', n'[b] - 1, th'[t].i, th'[t].j)
      BY <1>9, <1>11, <1>16, <2>1, <2>8, <3>3
    <3>6. \A d \in Kinds : (th'[t].pc \in Busy => th'[t].b # d) => Holds(Current(d)', Mine(d)', n'[d])
      BY <1>15, <1>16, <2>1, <3>2, <3>3 DEF Busy
    <3> QED BY ONLY <3>1, <3>3, <3>4, <3>5, <3>6, t \in Threads, TablesFrom
  <2> QED BY ONLY <2>5, <2>6, <2>7, <2>9 DEF RegistryInv
<1> QED BY <1>18, <1>19, <1>20

LEMMA InitRegistry ==
  Init => RegistryInv
<1>1. SUFFICES ASSUME Init
               PROVE  RegistryInv
  OBVIOUS
<1>2. /\ gens = [b \in Kinds |-> <<Gen0>>] /\ cur = [b \in Kinds |-> 1] /\ n = [b \in Kinds |-> 0]
      /\ lock = None /\ th = [t \in Threads |-> Idle] /\ live = {} /\ gone = Keys
  BY <1>1 DEF Init
<1>3. \A t \in Threads : th[t] = Idle /\ th[t].pc = "idle"
  BY <1>2 DEF Idle
<1>4. Gen0 \in Gens
  <2>1. PICK g : g = Gen0
    OBVIOUS
  <2>2. g.tab = <<>> /\ g.cap = 0 /\ g = [tab |-> g.tab, cap |-> g.cap]
    BY <2>1 DEF Gen0
  <2>3. 0..(0 - 1) = {}
    OBVIOUS
  <2>4. <<>> \in [{} -> Entries]
    OBVIOUS
  <2>5. g.tab \in [0..(g.cap - 1) -> Entries] /\ g.cap \in Nat \ {1}
    BY ONLY <2>2, <2>3, <2>4
  <2> QED BY ONLY <2>1, <2>2, <2>5, GenIs
<1>5. GensOK
  <2>1. <<Gen0>> \in Seq(Gens) /\ Len(<<Gen0>>) = 1
    BY <1>4
  <2>2. gens \in [Kinds -> Seq(Gens)]
    BY ONLY <1>2, <2>1
  <2>3. cur \in [Kinds -> Nat] /\ n \in [Kinds -> Nat]
    BY ONLY <1>2
  <2>4. \A b \in Kinds : cur[b] = Len(gens[b]) /\ cur[b] >= 1
    BY ONLY <1>2, <2>1
  <2> QED BY ONLY <2>2, <2>3, <2>4 DEF GensOK
<1>6. ThreadsOK
  BY <1>2 DEF ThreadsOK
<1>7. LockOK
  BY <1>2, <1>3, RegistryAssumption DEF LockOK, Locked, Writing
<1>8. KeysOK
  BY <1>2, <1>3 DEF KeysOK, Writing
<1>9. TablesOK
  <2>1. ASSUME NEW b \in Kinds
        PROVE  Holds(Current(b), Mine(b), n[b])
    <3>1. Current(b) = Gen0
      BY <1>2 DEF Current
    <3>2. Mine(b) = {} /\ n[b] = 0
      BY <1>2 DEF Mine
    <3> QED BY <3>1, <3>2 DEF Holds
  <2> QED BY <1>3, <2>1 DEF TablesOK
<1> QED BY <1>5, <1>6, <1>7, <1>8, <1>9 DEF RegistryInv

LEMMA RegistryInvIsInvariant ==
  Spec => []RegistryInv
<1>1. ASSUME RegistryInv, [Next]_vars
      PROVE  RegistryInv'
  <2>1. CASE Next
    <3>1. PICK t \in Threads : Step(t)
      BY <2>1 DEF Next
    <3>2. CASE Reads(t)
      BY <1>1, <3>2, ReadsKeep
    <3>3. CASE \E k \in Keys : AddCall(t, k)
      BY <1>1, <3>3, AddCallKeeps
    <3>4. CASE \E k \in Keys : DelLock(t, k)
      BY <1>1, <3>4, DelLockKeeps
    <3>5. CASE AddLock(t)
      BY <1>1, <3>5, AddLockKeeps
    <3>6. CASE AddGrow(t)
      BY <1>1, <3>6, AddGrowKeeps
    <3>7. CASE AddMirTab(t) \/ AddMirCap(t)
      BY <1>1, <3>7, AddMirKeeps
    <3>8. CASE AddCell(t)
      BY <1>1, <3>8, AddCellKeeps
    <3>9. CASE AddMap(t)
      BY <1>1, <3>9, AddMapKeeps
    <3>10. CASE AddSeq(t)
      BY <1>1, <3>10, AddSeqKeeps
    <3>11. CASE DelErase(t)
      BY <1>1, <3>11, DelEraseKeeps
    <3>12. CASE DelSeq(t)
      BY <1>1, <3>12, DelSeqKeeps
    <3> QED BY <3>1, <3>2, <3>3, <3>4, <3>5, <3>6, <3>7, <3>8, <3>9, <3>10, <3>11, <3>12 DEF Step, Reads
  <2>2. CASE UNCHANGED vars
    <3>1. UNCHANGED <<gens, cur, n, lock, live, gone, th>>
      BY <2>2 DEF vars, tables, ghosts
    <3>2. TablesOK'
      BY ONLY <1>1, <3>1, Quiet DEF RegistryInv
    <3>3. ThreadsOK' /\ GensOK' /\ LockOK' /\ KeysOK'
      BY <1>1, <3>1 DEF RegistryInv, ThreadsOK, GensOK, LockOK, KeysOK
    <3> QED BY <3>2, <3>3 DEF RegistryInv
  <2> QED BY <1>1, <2>1, <2>2
<1> QED BY <1>1, InitRegistry, PTL DEF Spec

\* ChainsUnbroken: between two writers the published tables hold exactly the live slabs,
\* each where its own probe finds it, and an empty cell ends every probe that misses.
\* A deletion in an open-addressed table has to move back each entry whose probe passes
\* over the cell it empties (extc_rc_ownErase), across the end of the table too.
THEOREM ProbesReach == Spec => []ChainsUnbroken
<1>1. ASSUME RegistryInv
      PROVE  ChainsUnbroken
  <2>1. SUFFICES ASSUME lock = None, NEW b \in Kinds, NEW g, g = Current(b), NEW S, S = Mine(b)
                 PROVE  /\ Cells(b, cur[b]) \ {None} = S
                        /\ n[b] = Cardinality(S)
                        /\ \A k \in S : g.tab[SlotOf(g.tab, g.cap, k)] = k
                        /\ S # {} => None \in Cells(b, cur[b])
    BY DEF ChainsUnbroken, Current, Mine
  <2>2. Holds(g, S, n[b])
    BY <1>1, <2>1, NoHolder
  <2>3. Cells(b, cur[b]) = {g.tab[c] : c \in DOMAIN g.tab}
    BY <2>1 DEF Cells, Current
  <2>4. CASE g = Gen0 /\ S = {} /\ n[b] = 0
    <3>1. DOMAIN g.tab = {}
      BY <2>4 DEF Gen0
    <3>2. Cells(b, cur[b]) = {}
      BY <2>3, <3>1
    <3> QED BY <2>4, <3>2, FS_EmptySet
  <2>5. CASE Table(g.tab, g.cap, S, n[b])
    <3>1. /\ g.cap \in Nat \ {0} /\ n[b] \in Nat /\ n[b] < g.cap /\ DOMAIN g.tab = 0..(g.cap - 1)
          /\ S = Held(g.tab, g.cap) /\ Cardinality(S) = n[b] /\ Cardinality(Used(g.tab, g.cap)) = n[b]
      BY <2>5 DEF Table
    <3>2. Cells(b, cur[b]) \ {None} = S
      BY ONLY <2>3, <3>1 DEF Held
    <3>3. \A k \in S : g.tab[SlotOf(g.tab, g.cap, k)] = k
      BY <2>5, SlotOfPresent
    <3>4. None \in Cells(b, cur[b])
      <4>1. PICK h \in 0..(g.cap - 1) : h = 0
        BY <3>1
      <4>2. PICK p : p = HoleFrom(g.tab, g.cap, h)
        OBVIOUS
      <4>3. p \in 0..(g.cap - 1) /\ g.tab[p] = None
        BY ONLY <3>1, <4>2, h \in 0..(g.cap - 1), HoleFromIs
      <4> QED BY ONLY <2>3, <3>1, <4>3
    <3> QED BY <3>1, <3>2, <3>3, <3>4
  <2> QED BY <2>2, <2>4, <2>5 DEF Holds
<1> QED BY <1>1, RegistryInvIsInvariant, PTL

-----------------------------------------------------------------------------
(***************************************************************************)
(* Every generation keeps an empty cell, and a deletion fills each hole it *)
(* leaves before it goes on.                                               *)
(***************************************************************************)

\* Generation g has an empty cell, if it has cells.
HasRoom(g) == g.cap # 0 => \E c \in 0 .. g.cap - 1 : g.tab[c] = None

CurrentOK == \A b \in Kinds : HasRoom(Current(b))
RoomOK == \A b \in Kinds : \A y \in 1 .. Len(gens[b]) : HasRoom(gens[b][y])

\* The cell a deletion is about to empty or to overwrite holds an entry.
TakenOK == \A t \in Threads : th[t].pc = "delErase" => Current(th[t].b).tab[th[t].i] # None

SearchInv == RoomOK /\ TakenOK

\* The cells from j on before the nearest one of Z.
Before(cap, Z, j) == {c \in 0..(cap - 1) : \A z \in Z : Dist(j, c, cap) < Dist(j, z, cap)}

\* From a cell j outside Z to the next cell there are fewer of them.
LEMMA AheadShrinks ==
  ASSUME NEW cap \in Nat \ {0}, NEW Z, Z \subseteq 0..(cap - 1), Z # {},
         NEW j \in 0..(cap - 1), j \notin Z, NEW q, q = (j + 1) % cap
  PROVE  Before(cap, Z, q) \subseteq Before(cap, Z, j) /\ Before(cap, Z, q) # Before(cap, Z, j)
<1>1. q = (IF j + 1 < cap THEN j + 1 ELSE 0) /\ q \in 0..(cap - 1)
  <2>1. (j + 1) % cap = IF j + 1 < cap THEN j + 1 ELSE 0
    BY NextCell
  <2>2. q = IF j + 1 < cap THEN j + 1 ELSE 0
    BY ONLY <2>1, q = (j + 1) % cap
  <2> QED BY ONLY <2>2, cap \in Nat \ {0}, j \in 0..(cap - 1)
<1>2. PICK p \in 0..(cap - 1) : p = q
  BY <1>1
<1>3. ASSUME NEW c \in 0..(cap - 1)
      PROVE  /\ Dist(j, c, cap) \in 0..(cap - 1) /\ Dist(q, c, cap) \in 0..(cap - 1)
             /\ c # j => Dist(j, c, cap) = Dist(q, c, cap) + 1
             /\ c = j => Dist(j, c, cap) = 0 /\ Dist(q, c, cap) = cap - 1
  <2>1. Dist(j, c, cap) = IF j <= c THEN c - j ELSE c - j + cap
    BY DistIs
  <2>2. Dist(p, c, cap) = IF p <= c THEN c - p ELSE c - p + cap
    BY DistIs
  <2>3. Dist(j, c, cap) \in 0..(cap - 1) /\ Dist(p, c, cap) \in 0..(cap - 1)
    BY Distances
  <2>4. PICK x \in 0..(cap - 1), y \in 0..(cap - 1) : x = j /\ y = c
    OBVIOUS
  <2>5. p = IF x + 1 < cap THEN x + 1 ELSE 0
    BY <1>1, <1>2, <2>4
  <2>6. y # x => (IF x <= y THEN y - x ELSE y - x + cap) = (IF p <= y THEN y - p ELSE y - p + cap) + 1
    BY ONLY <2>5, cap \in Nat \ {0}, x \in 0..(cap - 1), y \in 0..(cap - 1), p \in 0..(cap - 1)
  <2>7. y = x => /\ (IF x <= y THEN y - x ELSE y - x + cap) = 0
                 /\ (IF p <= y THEN y - p ELSE y - p + cap) = cap - 1
    BY ONLY <2>5, cap \in Nat \ {0}, x \in 0..(cap - 1), y \in 0..(cap - 1), p \in 0..(cap - 1)
  <2> QED BY ONLY <1>2, <2>1, <2>2, <2>3, <2>4, <2>6, <2>7
<1>4. \A z \in Z : z \in 0..(cap - 1) /\ z # j
  OBVIOUS
<1>5. ASSUME NEW c \in Before(cap, Z, q)
      PROVE  c \in Before(cap, Z, j)
  <2>1. c \in 0..(cap - 1) /\ \A z \in Z : Dist(q, c, cap) < Dist(q, z, cap)
    BY ONLY <1>5 DEF Before
  <2>2. ASSUME NEW z \in Z
        PROVE  Dist(j, c, cap) < Dist(j, z, cap)
    <3>1. PICK a \in 0..(cap - 1), b \in 0..(cap - 1) : a = Dist(q, c, cap) /\ b = Dist(q, z, cap)
      BY <1>3, <1>4, <2>1, <2>2
    <3>2. a < b /\ Dist(j, z, cap) = b + 1
      BY <1>3, <1>4, <2>1, <2>2, <3>1
    <3>3. Dist(j, c, cap) = a + 1 \/ Dist(j, c, cap) = 0
      BY <1>3, <2>1, <3>1
    <3> QED BY ONLY <3>2, <3>3, a \in 0..(cap - 1), b \in 0..(cap - 1), cap \in Nat \ {0}
  <2> QED BY ONLY <2>1, <2>2 DEF Before
<1>6. j \in Before(cap, Z, j)
  <2>1. ASSUME NEW z \in Z
        PROVE  Dist(j, j, cap) < Dist(j, z, cap)
    <3>1. Dist(j, j, cap) = 0 /\ Dist(j, z, cap) = Dist(q, z, cap) + 1 /\ Dist(q, z, cap) \in 0..(cap - 1)
      BY <1>3, <1>4, <2>1
    <3> QED BY ONLY <3>1, cap \in Nat \ {0}
  <2> QED BY ONLY <2>1, j \in 0..(cap - 1) DEF Before
<1>7. j \notin Before(cap, Z, q)
  <2>1. PICK z \in Z : TRUE
    OBVIOUS
  <2>2. Dist(q, j, cap) = cap - 1 /\ Dist(q, z, cap) \in 0..(cap - 1)
    BY <1>3, <1>4, <2>1
  <2>3. ~(Dist(q, j, cap) < Dist(q, z, cap))
    BY ONLY <2>2, cap \in Nat \ {0}
  <2> QED BY ONLY <2>1, <2>3 DEF Before
<1> QED BY ONLY <1>5, <1>6, <1>7

LEMMA TableRoom ==
  ASSUME NEW g, NEW S, NEW m, Holds(g, S, m)
  PROVE  HasRoom(g)
<1>1. CASE g = Gen0
  BY <1>1 DEF HasRoom, Gen0
<1>2. CASE Table(g.tab, g.cap, S, m)
  <2>1. /\ g.cap \in Nat \ {0} /\ m \in Nat /\ m < g.cap /\ Cardinality(Used(g.tab, g.cap)) = m
    BY <1>2 DEF Table
  <2>2. 0 \in 0..(g.cap - 1)
    BY <2>1
  <2>3. PICK p : p = HoleFrom(g.tab, g.cap, 0)
    OBVIOUS
  <2>4. p \in 0..(g.cap - 1) /\ g.tab[p] = None
    BY ONLY <2>1, <2>2, <2>3, HoleFromIs
  <2> QED BY <2>4 DEF HasRoom
<1> QED BY <1>1, <1>2 DEF Holds

\* While the hole at i is open, there is an empty cell besides it.
LEMMA GapRoom ==
  ASSUME NEW t, NEW cap, NEW S, NEW m, NEW i, NEW j, Gap(t, cap, S, m, i, j)
  PROVE  \E c \in 0..(cap - 1) : c # i /\ t[c] = None
<1>1. /\ cap \in Nat \ {0} /\ cap >= 2 /\ m \in Nat /\ 2 * (m + 1) <= cap
      /\ i \in 0..(cap - 1) /\ Cardinality(Used(t, cap)) = m /\ t[i] = None
  BY DEF Gap
<1>2. SUFFICES ASSUME \A c \in 0..(cap - 1) : c # i => t[c] # None
               PROVE  FALSE
  OBVIOUS
<1>3. Used(t, cap) = (0..(cap - 1)) \ {i}
  BY ONLY <1>1, <1>2 DEF Used
<1>4. Cardinality((0..(cap - 1)) \ {i}) = cap - 1
  <2>1. IsFiniteSet(0..(cap - 1)) /\ Cardinality(0..(cap - 1)) = cap
    BY <1>1, CellsFinite
  <2>2. Cardinality((0..(cap - 1)) \ {i}) = Cardinality(0..(cap - 1)) - 1
    BY ONLY <1>1, <2>1, FS_RemoveElement
  <2> QED BY ONLY <2>1, <2>2
<1> QED BY <1>1, <1>3, <1>4

LEMMA CurrentRoom ==
  ASSUME RegistryInv, NEW b \in Kinds
  PROVE  HasRoom(Current(b))
<1>1. PICK g : g = Current(b)
  OBVIOUS
<1>2. CASE \A u \in Threads : th[u].pc \in Busy => th[u].b # b
  <2>1. Holds(g, Mine(b), n[b])
    BY <1>1, <1>2 DEF RegistryInv, TablesOK
  <2> QED BY <1>1, <2>1, TableRoom
<1>3. CASE \E u \in Threads : th[u].pc \in {"addMap", "addSeq"} /\ th[u].b = b
  <2>1. PICK u \in Threads : th[u].pc \in {"addMap", "addSeq"} /\ th[u].b = b
    BY <1>3
  <2>2. Table(g.tab, g.cap, Mine(b) \cup {th[u].key}, n[b])
    BY <1>1, <2>1 DEF RegistryInv, TablesOK
  <2>3. Holds(g, Mine(b) \cup {th[u].key}, n[b])
    BY <2>2 DEF Holds
  <2> QED BY <1>1, <2>3, TableRoom
<1>4. CASE \E u \in Threads : th[u].pc = "delErase" /\ th[u].b = b
  <2>1. PICK u \in Threads : th[u].pc = "delErase" /\ th[u].b = b
    BY <1>4
  <2>2. PICK i, j : i = th[u].i /\ j = th[u].j
    OBVIOUS
  <2>3. PICK f : f = [g.tab EXCEPT ![i] = None]
    OBVIOUS
  <2>4. Gap(f, g.cap, Mine(b), n[b] - 1, i, j)
    BY <1>1, <2>1, <2>2, <2>3 DEF RegistryInv, TablesOK
  <2>5. PICK c \in 0..(g.cap - 1) : c # i /\ f[c] = None
    BY ONLY <2>4, GapRoom
  <2>6. g.tab \in [0..(g.cap - 1) -> Entries]
    BY <1>1, CurrentIs, GenIs DEF RegistryInv
  <2>7. g.tab[c] = None
    BY ONLY <2>3, <2>5, <2>6
  <2> QED BY <1>1, <2>7 DEF HasRoom
<1> QED BY <1>2, <1>3, <1>4 DEF Busy

\* A step is one thread's: which thread goes on with a search, and by which action.
LEMMA Acts ==
  ASSUME RegistryInv, NEW t \in Threads, Step(t)
  PROVE  /\ \A u \in Threads : u # t => th'[u] = th[u]
         /\ th[t].pc = "probe" => Probe(t) \/ ProbeOutside(t)
         /\ th[t].pc = "delErase" => DelErase(t)
         /\ th'[t].pc = "delErase" => DelErase(t) \/ \E k \in Keys : DelLock(t, k)
         /\ UNCHANGED <<gens, cur>> \/ AddGrow(t) \/ AddCell(t) \/ DelErase(t)
<1>1. ThreadsOK /\ DOMAIN th = Threads
  BY DEF RegistryInv, ThreadsOK
<1>2. CASE Reads(t)
  <2>1. PICK r : Becomes(t, r) /\ (r = Idle \/ Looks(r))
    BY <1>1, <1>2, ReadsIs
  <2>2. th'[t] = r /\ \A u \in Threads : u # t => th'[u] = th[u]
    BY ONLY <1>1, <2>1, t \in Threads, BecomesIs
  <2>3. UNCHANGED <<gens, cur>> /\ th[t].pc \in {"idle"} \cup LookPcs
    BY <1>1, <1>2, ReadsIs DEF tables
  <2>4. r.pc # "delErase"
    BY <2>1 DEF Idle, Looks, LookPcs
  <2>5. th[t].pc # "delErase"
    BY <2>3 DEF LookPcs
  <2>6. th[t].pc = "probe" => Probe(t) \/ ProbeOutside(t)
    BY <1>2 DEF Reads, Lookup, LookupMap, FastSeq, Fast, FastCap, FastCapTab, FastTab, FastTabCap, Deref,
                MissCounts, MissRetries, FindGen, FindLock, BigGen, BigSeq, Return, Idle
  <2> QED BY ONLY <2>2, <2>3, <2>4, <2>5, <2>6
<1>3. CASE \E k \in Keys : AddCall(t, k) \/ DelLock(t, k)
  <2>1. PICK k \in Keys : AddCall(t, k) \/ DelLock(t, k)
    BY <1>3
  <2>2. th[t].pc = "idle" /\ UNCHANGED <<gens, cur>>
    BY <2>1 DEF AddCall, DelLock, Idle, tables
  <2>3. \E r : Becomes(t, r) /\ (r.pc = "delErase" => DelLock(t, k))
    <3>1. CASE AddCall(t, k)
      <4>1. PICK r : r = [pc |-> "addLock", key |-> k, b |-> KindOf(k)]
        OBVIOUS
      <4>2. Becomes(t, r) /\ r.pc = "addLock"
        BY ONLY <3>1, <4>1 DEF AddCall, Becomes
      <4> QED BY <4>2
    <3>2. CASE DelLock(t, k)
      <4>1. PICK i : i = SlotOf(gens[KindOf(k)][cur[KindOf(k)]].tab, gens[KindOf(k)][cur[KindOf(k)]].cap, k)
        OBVIOUS
      <4>2. PICK r : r = [pc |-> "delErase", key |-> k, b |-> KindOf(k), i |-> i, j |-> i]
        OBVIOUS
      <4>3. Becomes(t, r)
        BY ONLY <3>2, <4>1, <4>2 DEF DelLock, Becomes
      <4> QED BY <3>2, <4>3
    <3> QED BY <2>1, <3>1, <3>2
  <2>4. PICK r : Becomes(t, r) /\ (r.pc = "delErase" => DelLock(t, k))
    BY <2>3
  <2>5. th'[t] = r /\ \A u \in Threads : u # t => th'[u] = th[u]
    BY ONLY <1>1, <2>4, t \in Threads, BecomesIs
  <2> QED BY ONLY <2>2, <2>4, <2>5, k \in Keys
<1>4. CASE AddLock(t) \/ AddGrow(t) \/ AddMirTab(t) \/ AddMirCap(t) \/ AddCell(t) \/ AddMap(t)
  <2>1. \E pc \in AddPcs : Go(t, pc)
    BY <1>4 DEF AddLock, AddGrow, AddMirTab, AddMirCap, AddCell, AddMap, AddPcs
  <2>2. PICK pc \in AddPcs : Go(t, pc)
    BY <2>1
  <2>3. th'[t].pc = pc /\ \A u \in Threads : u # t => th'[u] = th[u]
    <3>1. th[t].pc \in AddPcs
      BY <1>4 DEF AddLock, AddGrow, AddMirTab, AddMirCap, AddCell, AddMap, AddPcs
    <3>2. Adds(th[t])
      BY <1>1, <3>1, PcIs
    <3>3. PICK r : r = [th[t] EXCEPT !.pc = pc]
      OBVIOUS
    <3>4. Becomes(t, r) /\ r.pc = pc
      BY ONLY <1>1, <2>2, <3>2, <3>3, t \in Threads, pc \in AddPcs, GoesOn
    <3>5. th'[t] = r /\ \A u \in Threads : u # t => th'[u] = th[u]
      BY ONLY <1>1, <3>4, t \in Threads, BecomesIs
    <3> QED BY <3>4, <3>5
  <2>4. th[t].pc # "probe" /\ th[t].pc # "delErase" /\ pc # "delErase"
    BY <1>4, <2>2 DEF AddLock, AddGrow, AddMirTab, AddMirCap, AddCell, AddMap, AddPcs
  <2>5. UNCHANGED <<gens, cur>> \/ AddGrow(t) \/ AddCell(t)
    BY <1>4 DEF AddLock, AddMirTab, AddMirCap, AddMap, tables
  <2> QED BY ONLY <2>3, <2>4, <2>5
<1>5. CASE AddSeq(t) \/ DelSeq(t)
  <2>1. Becomes(t, Idle) /\ UNCHANGED <<gens, cur>> /\ th[t].pc \in {"addSeq", "delSeq"}
    BY <1>5 DEF AddSeq, DelSeq, Becomes, tables
  <2>2. th'[t] = Idle /\ \A u \in Threads : u # t => th'[u] = th[u]
    BY ONLY <1>1, <2>1, t \in Threads, BecomesIs
  <2> QED BY ONLY <2>1, <2>2 DEF Idle
<1>6. CASE DelErase(t)
  <2>1. th[t].pc = "delErase"
    BY <1>6 DEF DelErase
  <2>2. \A u \in Threads : u # t => th'[u] = th[u]
    BY <1>1, <1>6 DEF DelErase, Go
  <2> QED BY ONLY <1>6, <2>1, <2>2
<1> QED BY <1>2, <1>3, <1>4, <1>5, <1>6 DEF Step, Reads

\* Only the published generation changes; the ones before it are kept.
LEMMA OldGens ==
  ASSUME RegistryInv, NEW t \in Threads, Step(t),
         NEW b \in Kinds, NEW y \in 1 .. Len(gens'[b]), y # cur'[b]
  PROVE  y \in 1 .. Len(gens[b]) /\ gens'[b][y] = gens[b][y]
<1>1. GensOK /\ ThreadsOK
  BY DEF RegistryInv
<1>2. CASE UNCHANGED <<gens, cur>>
  BY <1>2
<1>3. CASE AddGrow(t)
  <2>1. th[t].pc = "addGrow" /\ n' = n
    BY <1>3 DEF AddGrow
  <2>2. PICK d \in Kinds : d = th[t].b
    BY <2>1, WriterIs DEF AddPcs
  <2>3. PICK g : g = NextReg(Current(d))
    OBVIOUS
  <2>4. g \in Gens
    <3>1. \A u \in Threads : th[u].pc \notin Busy
      <4>1. th[t].pc \in Locked
        BY <2>1 DEF Locked, Writing
      <4>2. \A u \in Threads : u # t => th[u].pc \notin Locked
        BY <4>1, Holder
      <4> QED BY <2>1, <4>2 DEF Locked, Writing, Busy
    <3>2. Holds(Current(d), Mine(d), n[d])
      BY <3>1 DEF RegistryInv, TablesOK
    <3>3. Table(g.tab, g.cap, Mine(d), n[d]) /\ g = [tab |-> g.tab, cap |-> g.cap]
      BY <2>3, <3>2, NextRegHolds
    <3>4. g.cap \in Nat \ {1} /\ g.tab \in [0..(g.cap - 1) -> Entries]
      BY <3>3 DEF Table
    <3> QED BY ONLY <3>3, <3>4, GenIs
  <2>5. gens' = [gens EXCEPT ![d] = Append(@, g)] /\ cur' = [cur EXCEPT ![d] = Len(gens[d]) + 1]
    BY ONLY <1>3, <2>2, <2>3 DEF AddGrow, Current
  <2>6. /\ \A e \in Kinds : e # d => gens'[e] = gens[e] /\ cur'[e] = cur[e]
        /\ \A z \in 1..Len(gens[d]) : gens'[d][z] = gens[d][z]
        /\ Len(gens'[d]) = Len(gens[d]) + 1
    BY ONLY <1>1, <2>1, <2>4, <2>5, d \in Kinds, GenAdded
  <2>7. Len(gens[d]) \in Nat /\ cur'[d] = Len(gens[d]) + 1
    BY <1>1, <2>5 DEF GensOK
  <2>8. CASE b = d
    BY ONLY <2>6, <2>7, <2>8, y \in 1 .. Len(gens'[b]), y # cur'[b]
  <2>9. CASE b # d
    BY <2>6, <2>9
  <2> QED BY <2>8, <2>9
<1>4. ASSUME NEW d \in Kinds, NEW x \in 0..(Current(d).cap - 1), NEW e \in Entries,
             gens' = [gens EXCEPT ![d][cur[d]].tab[x] = e], cur' = cur
      PROVE  y \in 1 .. Len(gens[b]) /\ gens'[b][y] = gens[b][y]
  <2>1. /\ \A c \in Kinds : Len(gens'[c]) = Len(gens[c])
        /\ \A c \in Kinds : c # d => gens'[c] = gens[c]
        /\ \A z \in 1..Len(gens[d]) : z # cur[d] => gens'[d][z] = gens[d][z]
    BY ONLY <1>1, <1>4, CellWritten, ZenonT(40)
  <2> QED BY ONLY <1>4, <2>1, b \in Kinds, y \in 1 .. Len(gens'[b]), y # cur'[b]
<1>5. CASE AddCell(t)
  <2>1. th[t].pc = "addCell" /\ cur' = cur
    BY <1>5 DEF AddCell
  <2>2. PICK d \in Kinds, k \in Keys : d = th[t].b /\ k = th[t].key /\ k \notin live
    BY <2>1, WriterIs DEF AddPcs
  <2>3. PICK g : g = Current(d)
    OBVIOUS
  <2>4. Table(g.tab, g.cap, Mine(d), n[d])
    <3>1. \A u \in Threads : th[u].pc \notin Busy
      <4>1. th[t].pc \in Locked
        BY <2>1 DEF Locked, Writing
      <4>2. \A u \in Threads : u # t => th[u].pc \notin Locked
        BY <4>1, Holder
      <4> QED BY <2>1, <4>2 DEF Locked, Writing, Busy
    <3>2. Holds(g, Mine(d), n[d])
      BY <2>3, <3>1 DEF RegistryInv, TablesOK
    <3>3. g.cap # 0
      BY <2>1, <2>2, <2>3 DEF RegistryInv, TablesOK
    <3> QED BY <3>2, <3>3, HoldsIs
  <2>5. PICK x : x = SlotOf(g.tab, g.cap, k)
    OBVIOUS
  <2>6. x \in 0..(g.cap - 1)
    <3>1. k \notin Mine(d)
      BY <2>2 DEF Mine
    <3> QED BY ONLY <2>4, <2>5, <3>1, k \in Keys, SlotOfAbsent
  <2>7. gens' = [gens EXCEPT ![d][cur[d]].tab[x] = k]
    BY ONLY <1>5, <2>2, <2>3, <2>5 DEF AddCell, Current
  <2>8. k \in Entries
    BY DEF Entries
  <2> QED BY <1>4, <2>1, <2>3, <2>6, <2>7, <2>8
<1>6. CASE DelErase(t)
  <2>1. th[t].pc = "delErase" /\ cur' = cur
    BY <1>6 DEF DelErase
  <2>2. Erases(th[t])
    BY <1>1, <2>1, PcIs DEF DelPcs
  <2>3. PICK d \in Kinds : d = th[t].b
    BY <2>2 DEF Erases
  <2>4. PICK g : g = Current(d)
    OBVIOUS
  <2>5. PICK i, j : i = th[t].i /\ j = th[t].j
    OBVIOUS
  <2>6. PICK f : f = [g.tab EXCEPT ![i] = None]
    OBVIOUS
  <2>7. Gap(f, g.cap, Mine(d), n[d] - 1, i, j)
    BY <2>1, <2>3, <2>4, <2>5, <2>6 DEF RegistryInv, TablesOK
  <2>8. PICK q : q = (j + 1) % g.cap
    OBVIOUS
  <2>9. q \in 0..(g.cap - 1) /\ i \in 0..(g.cap - 1)
    <3>1. i \in 0..(g.cap - 1)
      BY <2>7 DEF Gap
    <3> QED BY ONLY <2>7, <2>8, <3>1, GapNext
  <2>10. g.tab \in [0..(g.cap - 1) -> Entries]
    BY <1>1, <2>4, CurrentIs, GenIs
  <2>11. PICK e : e = g.tab[q]
    OBVIOUS
  <2>12. e \in Entries /\ None \in Entries
    BY <2>9, <2>10, <2>11 DEF Entries
  <2>13. \/ gens' = gens
         \/ gens' = [gens EXCEPT ![d][cur[d]].tab[i] = None]
         \/ gens' = [gens EXCEPT ![d][cur[d]].tab[i] = e]
    BY ONLY <1>6, <2>3, <2>4, <2>5, <2>8, <2>11 DEF DelErase, Current
  <2>14. i \in 0..(Current(d).cap - 1)
    BY <2>4, <2>9
  <2>15. CASE gens' = gens
    BY <2>1, <2>15
  <2>16. CASE gens' = [gens EXCEPT ![d][cur[d]].tab[i] = None]
    BY ONLY <1>4, <2>1, <2>12, <2>14, <2>16, d \in Kinds
  <2>17. CASE gens' = [gens EXCEPT ![d][cur[d]].tab[i] = e]
    BY ONLY <1>4, <2>1, <2>12, <2>14, <2>17, d \in Kinds
  <2> QED BY <2>13, <2>15, <2>16, <2>17
<1>7. UNCHANGED <<gens, cur>> \/ AddGrow(t) \/ AddCell(t) \/ DelErase(t)
  BY Acts
<1> QED BY <1>2, <1>3, <1>5, <1>6, <1>7

\* A deletion of kind b in generation g has its hole at i, is done up to j and looks at
\* the entry e of the next cell q: it moves e to the hole, passes it by or has ended.
ErasesAt(t, b, g, i, j, q, e) ==
  /\ b \in Kinds /\ b = th[t].b /\ g = Current(b) /\ i = th[t].i /\ j = th[t].j /\ q = (j + 1) % g.cap
  /\ g.cap \in Nat \ {0} /\ g.tab \in [0..(g.cap - 1) -> Entries]
  /\ i \in 0..(g.cap - 1) /\ j \in 0..(g.cap - 1) /\ q \in 0..(g.cap - 1) /\ q # i
  /\ g.tab[i] # None /\ g.tab[j] # None /\ e \in Entries /\ e = g.tab[q]
  /\ cur' = cur /\ th'[t].b = b /\ th'[t].pc \in DelPcs
  /\ th'[t].pc = "delErase" =>
       /\ e # None /\ th'[t].j = q /\ met' = met
       /\ \/ th'[t].i = q /\ gens' = [gens EXCEPT ![b][cur[b]].tab[i] = e]
          \/ th'[t].i = i /\ gens' = gens
  /\ th'[t].pc = "delSeq" =>
       /\ gens' = [gens EXCEPT ![b][cur[b]].tab[i] = None]
       /\ Meet(PastCell(b, i), "emptied")

LEMMA Erasing ==
  ASSUME RegistryInv, TakenOK, NEW t \in Threads, DelErase(t)
  PROVE  \E b, g, i, j, q, e : ErasesAt(t, b, g, i, j, q, e)
<1>13. PICK b, g, i, j : b = th[t].b /\ g = Current(b) /\ i = th[t].i /\ j = th[t].j
  OBVIOUS
<1>14. PICK q, e : q = (j + 1) % g.cap /\ e = g.tab[q]
  OBVIOUS
<1>1. th[t].pc = "delErase" /\ cur' = cur /\ ThreadsOK /\ DOMAIN th = Threads
  BY DEF DelErase, RegistryInv, ThreadsOK
<1>2. Erases(th[t])
  BY <1>1, PcIs DEF DelPcs
<1>3. b \in Kinds
  BY <1>2, <1>13 DEF Erases
<1>4. PICK f : f = [g.tab EXCEPT ![i] = None]
  OBVIOUS
<1>5. Gap(f, g.cap, Mine(b), n[b] - 1, i, j)
  BY <1>1, <1>4, <1>13 DEF RegistryInv, TablesOK
<1>6. /\ g.cap \in Nat \ {0} /\ i \in 0..(g.cap - 1) /\ j \in 0..(g.cap - 1)
      /\ \A x \in 0..(g.cap - 1) : x # i /\ Dist(i, x, g.cap) <= Dist(i, j, g.cap) => f[x] # None
  BY <1>5 DEF Gap
<1>7. q \in 0..(g.cap - 1) /\ q # i
  BY ONLY <1>5, <1>14, GapNext
<1>8. g.tab \in [0..(g.cap - 1) -> Entries]
  BY <1>3, <1>13, CurrentIs, GenIs DEF RegistryInv
<1>9. g.tab[i] # None
  BY <1>1, <1>13 DEF TakenOK
<1>10. g.tab[j] # None
  <2>1. CASE j = i
    BY <1>9, <2>1
  <2>2. CASE j # i
    <3>1. Dist(i, j, g.cap) \in 0..(g.cap - 1)
      BY <1>6, Distances
    <3>2. Dist(i, j, g.cap) <= Dist(i, j, g.cap)
      BY ONLY <1>6, <3>1
    <3>3. f[j] # None
      BY <1>6, <2>2, <3>2
    <3> QED BY ONLY <1>4, <1>6, <1>8, <2>2, <3>3
  <2> QED BY <2>1, <2>2
<1>11. e \in Entries
  BY ONLY <1>7, <1>8, <1>14
<1>12. /\ th'[t].b = b /\ th'[t].pc \in DelPcs
       /\ th'[t].pc = "delErase" =>
            /\ e # None /\ th'[t].j = q /\ met' = met
            /\ \/ th'[t].i = q /\ gens' = [gens EXCEPT ![b][cur[b]].tab[i] = e]
               \/ th'[t].i = i /\ gens' = gens
       /\ th'[t].pc = "delSeq" =>
            /\ gens' = [gens EXCEPT ![b][cur[b]].tab[i] = None]
            /\ Meet(PastCell(b, i), "emptied")
  <2>1. PICK r : r = th[t]
    OBVIOUS
  <2>2. r = [pc |-> "delErase", key |-> r.key, b |-> b, i |-> i, j |-> j]
    BY ONLY <1>1, <1>2, <1>13, <2>1 DEF Erases
  <2>3. \/ /\ e = None /\ Go(t, "delSeq") /\ gens' = [gens EXCEPT ![b][cur[b]].tab[i] = None]
           /\ Meet(PastCell(b, i), "emptied")
        \/ /\ e # None /\ gens' = [gens EXCEPT ![b][cur[b]].tab[i] = e] /\ met' = met
           /\ th' = [th EXCEPT ![t].i = q, ![t].j = q]
        \/ e # None /\ gens' = gens /\ met' = met /\ th' = [th EXCEPT ![t].j = q]
    BY ONLY <1>13, <1>14, DelErase(t) DEF DelErase, Current
  <2>4. CASE /\ Go(t, "delSeq") /\ gens' = [gens EXCEPT ![b][cur[b]].tab[i] = None]
             /\ Meet(PastCell(b, i), "emptied")
    <3>1. th'[t] = [r EXCEPT !.pc = "delSeq"]
      BY ONLY <1>1, <2>1, <2>4, t \in Threads DEF Go
    <3>2. th'[t].pc = "delSeq" /\ th'[t].b = b
      BY ONLY <2>2, <3>1
    <3> QED BY <2>4, <3>2 DEF DelPcs
  <2>5. CASE /\ e # None /\ gens' = [gens EXCEPT ![b][cur[b]].tab[i] = e] /\ met' = met
             /\ th' = [th EXCEPT ![t].i = q, ![t].j = q]
    <3>1. th'[t] = [r EXCEPT !.i = q, !.j = q]
      BY ONLY <1>1, <2>1, <2>5, t \in Threads
    <3>2. th'[t].i = q /\ th'[t].j = q /\ th'[t].b = b /\ th'[t].pc = "delErase"
      BY ONLY <2>2, <3>1
    <3> QED BY <2>5, <3>2 DEF DelPcs
  <2>6. CASE e # None /\ gens' = gens /\ met' = met /\ th' = [th EXCEPT ![t].j = q]
    <3>1. th'[t] = [r EXCEPT !.j = q]
      BY ONLY <1>1, <2>1, <2>6, t \in Threads
    <3>2. th'[t].i = i /\ th'[t].j = q /\ th'[t].b = b /\ th'[t].pc = "delErase"
      BY ONLY <2>2, <3>1
    <3> QED BY <2>6, <3>2 DEF DelPcs
  <2> QED BY <2>3, <2>4, <2>5, <2>6
<1>15. ErasesAt(t, b, g, i, j, q, e)
  BY ONLY <1>1, <1>3, <1>6, <1>7, <1>8, <1>9, <1>10, <1>11, <1>12, <1>13, <1>14 DEF ErasesAt
<1> QED BY ONLY <1>15

LEMMA RoomStays ==
  ASSUME RegistryInv, CurrentOK', RoomOK, NEW t \in Threads, Step(t)
  PROVE  RoomOK'
<1>1. SUFFICES ASSUME NEW b \in Kinds, NEW y \in 1 .. Len(gens'[b])
               PROVE  HasRoom(gens'[b][y])
  BY DEF RoomOK
<1>2. CASE y = cur'[b]
  BY <1>2 DEF Current, CurrentOK
<1>3. CASE y # cur'[b]
  <2>1. y \in 1 .. Len(gens[b]) /\ gens'[b][y] = gens[b][y]
    BY <1>3, OldGens
  <2> QED BY <2>1 DEF RoomOK
<1> QED BY <1>2, <1>3

LEMMA TakenStays ==
  ASSUME RegistryInv, TakenOK, NEW t \in Threads, Step(t)
  PROVE  TakenOK'
<1>1. SUFFICES ASSUME NEW u \in Threads, th'[u].pc = "delErase"
               PROVE  gens'[th'[u].b][cur'[th'[u].b]].tab[th'[u].i] # None
  BY DEF TakenOK, Current
<1>2. CASE u # t
  <2>1. th'[u] = th[u]
    BY <1>2, Acts
  <2>2. th[u].pc \in Locked
    BY <1>1, <2>1 DEF Locked, Writing
  <2>3. th[t].pc \notin Locked
    BY <1>2, <2>2, Holder
  <2>4. ~AddGrow(t) /\ ~AddCell(t) /\ ~DelErase(t)
    BY <2>3 DEF AddGrow, AddCell, DelErase, Locked, Writing
  <2>5. UNCHANGED <<gens, cur>>
    BY <2>4, Acts
  <2> QED BY <1>1, <2>1, <2>5 DEF TakenOK, Current
<1>3. CASE u = t /\ DelErase(t)
  <2>1. PICK b, g, i, j, q, e : ErasesAt(t, b, g, i, j, q, e)
    BY <1>3, Erasing
  <2>2. g = Current(b)
    BY <2>1 DEF ErasesAt
  <2>5. e = g.tab[q]
    BY <2>1 DEF ErasesAt
  <2>6. /\ b \in Kinds /\ g.tab \in [0..(g.cap - 1) -> Entries]
        /\ i \in 0..(g.cap - 1) /\ q \in 0..(g.cap - 1) /\ q # i
        /\ g.tab[i] # None /\ e \in Entries
        /\ e # None /\ cur' = cur /\ th'[t].b = b
        /\ \/ th'[t].i = q /\ gens' = [gens EXCEPT ![b][cur[b]].tab[i] = e]
           \/ th'[t].i = i /\ gens' = gens
    BY <1>1, <1>3, <2>1 DEF ErasesAt
  <2>7. CASE th'[t].i = i /\ gens' = gens
    BY <1>3, <2>2, <2>6, <2>7 DEF Current
  <2>8. CASE th'[t].i = q /\ gens' = [gens EXCEPT ![b][cur[b]].tab[i] = e]
    <3>1. GensOK /\ i \in 0..(Current(b).cap - 1) /\ b \in Kinds /\ e \in Entries /\ cur' = cur
      BY <2>2, <2>6 DEF RegistryInv
    <3>5. gens' = [gens EXCEPT ![b][cur[b]].tab[i] = e]
      BY <2>8
    <3>2. Current(b)' = [tab |-> [Current(b).tab EXCEPT ![i] = e], cap |-> Current(b).cap]
      BY ONLY <3>1, <3>5, CellWritten, ZenonT(40)
    <3>3. gens'[b][cur'[b]].tab = [g.tab EXCEPT ![i] = e]
      BY ONLY <2>2, <3>2 DEF Current
    <3>4. gens'[b][cur'[b]].tab[q] = e
      BY ONLY <2>5, <2>6, <3>3
    <3> QED BY <1>3, <2>6, <2>8, <3>4
  <2> QED BY <2>6, <2>7, <2>8
<1>4. CASE u = t /\ \E k \in Keys : DelLock(t, k)
  <2>1. PICK k \in Keys : DelLock(t, k)
    BY <1>4
  <2>2. PICK b : b = KindOf(k)
    OBVIOUS
  <2>3. b \in Kinds
    BY <2>2 DEF KindOf, Kinds
  <2>4. PICK g : g = Current(b)
    OBVIOUS
  <2>5. PICK i : i = SlotOf(g.tab, g.cap, k)
    OBVIOUS
  <2>6. k \in live /\ lock = None /\ UNCHANGED <<gens, cur>>
    BY <2>1 DEF DelLock, tables
  <2>7. th' = [th EXCEPT ![t] = [pc |-> "delErase", key |-> k, b |-> b, i |-> i, j |-> i]]
    BY ONLY <2>1, <2>2, <2>4, <2>5 DEF DelLock, Current
  <2>8. th'[t].b = b /\ th'[t].i = i
    BY <2>7 DEF RegistryInv, ThreadsOK
  <2>9. k \in Mine(b) /\ Holds(g, Mine(b), n[b])
    BY <2>2, <2>3, <2>4, <2>6, NoHolder DEF Mine
  <2>10. Table(g.tab, g.cap, Mine(b), n[b])
    BY <2>9 DEF Holds
  <2>11. g.tab[i] = k /\ k # None
    <3>1. g.tab[i] = k
      BY ONLY <2>5, <2>9, <2>10, SlotOfPresent
    <3> QED BY <3>1, RegistryAssumption
  <2> QED BY <1>4, <2>4, <2>6, <2>8, <2>11 DEF Current
<1> QED BY <1>1, <1>2, <1>3, <1>4, Acts

LEMMA SearchInvIsInvariant ==
  Spec => [](RegistryInv /\ SearchInv)
<1>1. Init => SearchInv
  <2>1. SUFFICES ASSUME Init
                 PROVE  SearchInv
    OBVIOUS
  <2>2. gens = [b \in Kinds |-> <<Gen0>>] /\ th = [t \in Threads |-> Idle]
    BY <2>1 DEF Init
  <2>3. HasRoom(Gen0)
    BY DEF HasRoom, Gen0
  <2>4. RoomOK
    BY <2>2, <2>3 DEF RoomOK
  <2>5. TakenOK
    BY <2>2 DEF TakenOK, Idle
  <2> QED BY <2>4, <2>5 DEF SearchInv
<1>2. RegistryInv => CurrentOK
  BY CurrentRoom DEF CurrentOK
<1>3. ASSUME RegistryInv, CurrentOK', SearchInv, [Next]_vars
      PROVE  SearchInv'
  <2>1. CASE Next
    <3>1. PICK t \in Threads : Step(t)
      BY <2>1 DEF Next
    <3>2. RoomOK'
      BY <1>3, <3>1, RoomStays DEF SearchInv
    <3>3. TakenOK'
      BY <1>3, <3>1, TakenStays DEF SearchInv
    <3> QED BY <3>2, <3>3 DEF SearchInv
  <2>2. CASE UNCHANGED vars
    <3>1. UNCHANGED <<gens, cur, th>>
      BY <2>2 DEF vars, tables
    <3> QED BY ONLY <1>3, <3>1 DEF SearchInv, RoomOK, TakenOK, Current
  <2> QED BY <1>3, <2>1, <2>2
<1>4. RegistryInv /\ CurrentOK' /\ SearchInv /\ [Next]_vars => SearchInv'
  BY <1>3
<1> QED BY <1>1, <1>2, <1>4, RegistryInvIsInvariant, PTL DEF Spec


-----------------------------------------------------------------------------
(***************************************************************************)
(* Lookups without the lock, at every point of registrations, deletions    *)
(* and growth by other threads.                                            *)
(***************************************************************************)

\* What ownMap remembers is not gone.
MapOK ==
  /\ ownMap \in [0 .. MapSize - 1 -> Normal \cup {None}]
  /\ \A c \in 0 .. MapSize - 1 : ownMap[c] # None => MapCell(ownMap[c]) = c /\ ownMap[c] \notin gone
  /\ \A t \in Threads : th[t].pc \in {"addMirTab", "addMirCap", "addMap"} => th[t].b = "slab"

\* The mirror names the published generation, or the one before it, which holds as much;
\* its capacity is never larger than its table.
MirrorOK ==
  /\ mir = [tab |-> mir.tab, cap |-> mir.cap] /\ mir.cap \in Nat
  /\ mir.tab \in 1 .. Len(gens["slab"]) /\ mir.cap <= gens["slab"][mir.tab].cap
  /\ (\A t \in Threads : th[t].pc # "addMirTab") => mir.tab = cur["slab"]
  /\ \A t \in Threads : th[t].pc = "addMirTab" =>
        /\ Holds(gens["slab"][mir.tab], Mine("slab"), n["slab"])
        /\ mir.cap <= Current("slab").cap

\* The cell a deletion is about to close holds no slab that is gone.
HoleOK == \A t \in Threads : th[t].pc = "delErase" => Current(th[t].b).tab[th[t].i] \notin gone

\* Since the lookup read the sequence number a deletion from its table has ended, or one
\* is under way.
Danger(t, r) == r.s0 < seq \/ Deleting(t, r.b)

\* Key k is in generation g, in a cell its probe meets before an empty one.
Located(g, k) == \E c \in 0 .. g.cap - 1 : g.tab[c] = k /\ Reaches(g.tab, g.cap, c)

\* The cells the lookup r has passed are taken.
Passed(r, g) ==
  \A c \in 0 .. r.cap - 1 :
     Dist(ProbeOf(r.key, r.cap), c, r.cap) < Dist(ProbeOf(r.key, r.cap), r.i, r.cap) => g.tab[c] # None

\* The key of the lookup r is where its probe will meet it.
ToMeet(r, g) ==
  \E c \in 0 .. r.cap - 1 :
     /\ g.tab[c] = r.key /\ Reaches(g.tab, r.cap, c)
     /\ Dist(ProbeOf(r.key, r.cap), r.i, r.cap) <= Dist(ProbeOf(r.key, r.cap), c, r.cap)

\* The generation a lookup probes.
GenOf(r) == gens[r.b][r.g]

\* Where a lookup holds a generation.
Placed == {"fastCap", "probe", "deref", "miss", "bigSeq"}

\* Where a lookup stands, for each point it can be at.
Bounds(r, m) ==
  /\ r.b \in Kinds /\ r.s0 \in Nat /\ r.s0 <= seq
  /\ r.pc \in {"map", "fastSeq", "fastFirst", "fastTab", "fastCap"} => r.b = "slab"
  /\ r.pc \in Placed => r.g \in 1 .. Len(gens[r.b])
  /\ r.pc = "fastTab" => r.cap \in Nat /\ r.cap <= mir.cap
  /\ r.pc \in {"probe", "deref", "bigSeq"} => r.cap \in Nat \ {0} /\ r.i \in 0 .. r.cap - 1
  /\ r.pc = "probe" => r.cap <= GenOf(r).cap \/ "swapped" \in m
  /\ r.pc = "deref" => r.i < GenOf(r).cap /\ r.ans \in {None, r.key}
  /\ r.pc = "bigSeq" => r.b = "big" /\ r.cap = GenOf(r).cap /\ r.i = ProbeOf(r.key, r.cap)

\* A lookup of a key that is gone has nothing to meet.
Clean(r, m) ==
  /\ r.key \in gone
  /\ r.pc \in Placed \ {"miss"} => r.key \notin Held(GenOf(r).tab, GenOf(r).cap)
  /\ r.pc = "deref" => r.ans = None
  /\ r.pc = "done" /\ m \cap {"hot", "swapped"} = {} => r.ans = None

\* What may make a lookup miss its slab.
Bad == {"torn", "unsettled", "reloaded", "swapped"}

\* A lookup of a live key will meet it, or the sequence number or Bad tells that it may not.
Finds(t, r, m) ==
  /\ r.key \in live
  /\ r.pc = "done" /\ m \cap Bad = {} => r.ans = r.key
  /\ KindOf(r.key) = "slab" /\ (r.b = "big" \/ r.pc = "bigGen") => m \cap Bad # {}
  /\ KindOf(r.key) = r.b =>
        /\ r.pc \in {"probe", "deref"} => Danger(t, r) \/ r.cap # GenOf(r).cap \/ ToMeet(r, GenOf(r))
        /\ r.pc = "miss" \/ (r.pc = "deref" /\ r.ans = None) => Danger(t, r) \/ r.cap # GenOf(r).cap
        /\ r.pc = "fastCap" => Danger(t, r) \/ Located(GenOf(r), r.key)
        /\ r.pc = "bigSeq" => r.g = cur[r.b] \/ Located(GenOf(r), r.key)

\* Without an emptied cell, the cells a probe has passed are taken.
Unpassed(r, m) == r.pc = "probe" /\ "emptied" \notin m /\ r.cap = GenOf(r).cap => Passed(r, GenOf(r))

\* The lookup r of thread t, which has met m.
Reader(t, r, m) ==
  /\ Bounds(r, m)
  /\ t \in absent => Clean(r, m)
  /\ t \in was => Finds(t, r, m)
  /\ Unpassed(r, m)

ReadersOK ==
  /\ met = [u \in Threads |-> met[u]]
  /\ was \cup absent \subseteq {t \in Threads : Looking(t)}
  /\ \A t \in Threads : Looking(t) => Reader(t, th[t], met[t])

LookupInv == seq \in Nat /\ MapOK /\ MirrorOK /\ HoleOK /\ ReadersOK

-----------------------------------------------------------------------------
(* What a generation gives a lookup that begins to probe it.                *)

LEMMA KindIs ==
  ASSUME NEW k \in Keys
  PROVE  /\ KindOf(k) \in Kinds
         /\ KindOf(k) = "slab" <=> k \in Normal
         /\ KindOf(k) = "big" <=> k \in Big
         /\ k # None
BY RegistryAssumption DEF KindOf, Kinds, Keys

\* A generation that is built has a capacity and a table of as many cells.
LEMMA GenOfIs ==
  ASSUME RegistryInv, NEW b \in Kinds, NEW y \in 1 .. Len(gens[b]), NEW g, g = gens[b][y]
  PROVE  g.cap \in Nat /\ g.tab \in [0..(g.cap - 1) -> Entries]
<1>1. gens[b] \in Seq(Gens)
  BY DEF RegistryInv, GensOK
<1>2. g \in Gens
  BY ONLY <1>1, y \in 1 .. Len(gens[b]), g = gens[b][y]
<1> QED BY <1>2, GenIs

LEMMA TableLocates ==
  ASSUME NEW g, NEW S, NEW m, Table(g.tab, g.cap, S, m), NEW k \in S, k # None
  PROVE  Located(g, k)
<1>1. g.cap \in Nat /\ S = Held(g.tab, g.cap) /\ \A c \in 0..(g.cap - 1) : g.tab[c] # None => Reaches(g.tab, g.cap, c)
  BY DEF Table
<1>2. PICK c \in 0..(g.cap - 1) : g.tab[c] = k
  BY <1>1 DEF Held
<1> QED BY <1>1, <1>2 DEF Located

LEMMA HoldsLocates ==
  ASSUME NEW g, NEW S, NEW m, Holds(g, S, m), NEW k \in S, k # None
  PROVE  Located(g, k)
BY TableLocates DEF Holds

\* A live slab is where its probe meets it while no deletion of its kind is under way.
LEMMA CurrentLocates ==
  ASSUME RegistryInv, NEW k \in live, NEW b, b = KindOf(k),
         \A u \in Threads : th[u].pc = "delErase" => th[u].b # b
  PROVE  Located(Current(b), k)
<1>1. k \in Keys /\ b \in Kinds /\ k \in Mine(b) /\ k # None
  BY KindIs DEF RegistryInv, KeysOK, Mine
<1>2. CASE \A u \in Threads : th[u].pc \in Busy => th[u].b # b
  <2>1. Holds(Current(b), Mine(b), n[b])
    BY <1>1, <1>2 DEF RegistryInv, TablesOK
  <2> QED BY <1>1, <2>1, HoldsLocates
<1>3. CASE ~ \A u \in Threads : th[u].pc \in Busy => th[u].b # b
  <2>1. PICK u \in Threads : th[u].pc \in {"addMap", "addSeq"} /\ th[u].b = b
    BY <1>3 DEF Busy
  <2>2. Table(Current(b).tab, Current(b).cap, Mine(b) \cup {th[u].key}, n[b])
    BY <2>1 DEF RegistryInv, TablesOK
  <2> QED BY <1>1, <2>2, TableLocates
<1> QED BY <1>2, <1>3

LEMMA MirrorLocates ==
  ASSUME RegistryInv, MirrorOK, NEW k \in live, KindOf(k) = "slab",
         \A u \in Threads : th[u].pc = "delErase" => th[u].b # "slab"
  PROVE  Located(gens["slab"][mir.tab], k)
<1>1. CASE \A u \in Threads : th[u].pc # "addMirTab"
  <2>1. gens["slab"][mir.tab] = Current("slab")
    BY <1>1 DEF MirrorOK, Current
  <2> QED BY <2>1, CurrentLocates
<1>2. CASE \E u \in Threads : th[u].pc = "addMirTab"
  <2>1. Holds(gens["slab"][mir.tab], Mine("slab"), n["slab"])
    BY <1>2 DEF MirrorOK
  <2>2. k \in Mine("slab") /\ k # None
    BY KindIs DEF RegistryInv, KeysOK, Mine
  <2> QED BY <2>1, <2>2, HoldsLocates
<1> QED BY <1>1, <1>2

\* A table that holds what is not gone.
LEMMA HoldsClean ==
  ASSUME NEW g, NEW S, NEW m, Holds(g, S, m), S \cap gone = {}
  PROVE  \A k \in gone : k \notin Held(g.tab, g.cap)
<1>1. CASE g = Gen0
  <2>1. g.cap = 0
    BY <1>1 DEF Gen0
  <2> QED BY <2>1 DEF Held
<1>2. CASE Table(g.tab, g.cap, S, m)
  <2>1. S = Held(g.tab, g.cap)
    BY <1>2 DEF Table
  <2> QED BY <2>1
<1> QED BY <1>1, <1>2 DEF Holds

\* No key that is gone is in a published table, in the middle of a deletion either.
LEMMA CurrentClean ==
  ASSUME RegistryInv, HoleOK, NEW b \in Kinds, NEW k \in gone
  PROVE  k \notin Held(Current(b).tab, Current(b).cap)
<1>1. Mine(b) \cap gone = {} /\ k \in Keys
  BY DEF RegistryInv, KeysOK, Mine
<1>2. CASE \A u \in Threads : th[u].pc \in Busy => th[u].b # b
  <2>1. Holds(Current(b), Mine(b), n[b])
    BY <1>2 DEF RegistryInv, TablesOK
  <2> QED BY <1>1, <2>1, HoldsClean
<1>3. CASE \E u \in Threads : th[u].pc \in {"addMap", "addSeq"} /\ th[u].b = b
  <2>1. PICK u \in Threads : th[u].pc \in {"addMap", "addSeq"} /\ th[u].b = b
    BY <1>3
  <2>2. Table(Current(b).tab, Current(b).cap, Mine(b) \cup {th[u].key}, n[b])
    BY <2>1 DEF RegistryInv, TablesOK
  <2>3. th[u].key \notin gone
    BY <2>1 DEF RegistryInv, KeysOK, Writing
  <2>4. Holds(Current(b), Mine(b) \cup {th[u].key}, n[b]) /\ (Mine(b) \cup {th[u].key}) \cap gone = {}
    BY <1>1, <2>2, <2>3 DEF Holds
  <2> QED BY ONLY <2>4, k \in gone, HoldsClean
<1>4. CASE \E u \in Threads : th[u].pc = "delErase" /\ th[u].b = b
  <2>1. PICK u \in Threads : th[u].pc = "delErase" /\ th[u].b = b
    BY <1>4
  <2>2. PICK g, i : g = Current(b) /\ i = th[u].i
    OBVIOUS
  <2>3. PICK f : f = [g.tab EXCEPT ![i] = None]
    OBVIOUS
  <2>4. Gap(f, g.cap, Mine(b), n[b] - 1, i, th[u].j)
    BY <2>1, <2>2, <2>3 DEF RegistryInv, TablesOK
  <2>5. Mine(b) = Held(f, g.cap)
    BY <2>4 DEF Gap
  <2>6. g.tab[i] # k
    BY <2>1, <2>2 DEF HoleOK
  <2>7. g.cap \in Nat /\ g.tab \in [0..(g.cap - 1) -> Entries]
    BY <2>2, CurrentIs, GenIs DEF RegistryInv
  <2>8. ASSUME NEW c \in 0..(g.cap - 1), g.tab[c] = k
        PROVE  FALSE
    <3>1. f[c] = k
      BY ONLY <2>3, <2>6, <2>7, <2>8
    <3>2. k # None
      BY <1>1, KindIs
    <3>3. k \in Mine(b)
      BY ONLY <2>5, <2>8, <3>1, <3>2 DEF Held
    <3> QED BY <1>1, <3>3
  <2> QED BY <2>2, <2>8 DEF Held
<1> QED BY <1>2, <1>3, <1>4 DEF Busy

LEMMA MirrorClean ==
  ASSUME RegistryInv, HoleOK, MirrorOK, NEW k \in gone
  PROVE  k \notin Held(gens["slab"][mir.tab].tab, gens["slab"][mir.tab].cap)
<1>1. CASE \A u \in Threads : th[u].pc # "addMirTab"
  <2>1. gens["slab"][mir.tab] = Current("slab") /\ "slab" \in Kinds
    BY <1>1 DEF MirrorOK, Current, Kinds
  <2> QED BY <2>1, CurrentClean
<1>2. CASE \E u \in Threads : th[u].pc = "addMirTab"
  <2>1. Holds(gens["slab"][mir.tab], Mine("slab"), n["slab"])
    BY <1>2 DEF MirrorOK
  <2>2. Mine("slab") \cap gone = {}
    BY DEF RegistryInv, KeysOK, Mine
  <2> QED BY <2>1, <2>2, HoldsClean
<1> QED BY <1>1, <1>2

\* A lookup that begins to probe, at its first cell.
LEMMA ProbingBegins ==
  ASSUME NEW t, NEW r, NEW m, r.pc = "probe", r.key \in Keys, r.b \in Kinds, r.s0 \in Nat, r.s0 <= seq,
         r.g \in 1 .. Len(gens[r.b]), r.cap \in Nat \ {0}, r.i = ProbeOf(r.key, r.cap),
         r.cap <= GenOf(r).cap \/ "swapped" \in m,
         t \in absent => r.key \in gone /\ r.key \notin Held(GenOf(r).tab, GenOf(r).cap),
         t \in was => /\ r.key \in live
                      /\ KindOf(r.key) = "slab" /\ r.b = "big" => m \cap Bad # {}
                      /\ KindOf(r.key) = r.b =>
                            Danger(t, r) \/ r.cap # GenOf(r).cap \/ Located(GenOf(r), r.key)
  PROVE  Reader(t, r, m)
<1>0. PICK g : g = GenOf(r)
  OBVIOUS
<1>1. PICK cap \in Nat \ {0} : cap = r.cap
  OBVIOUS
<1>2. PICK h \in 0..(cap - 1) : h = ProbeOf(r.key, cap)
  BY ProbeRange
<1>3. Dist(h, h, cap) = 0 /\ \A c \in 0..(cap - 1) : Dist(h, c, cap) \in 0..(cap - 1)
  BY Distances
<1>4. r.i = h /\ r.i \in 0..(cap - 1)
  BY <1>1, <1>2
<1>5. \A c \in 0..(cap - 1) : ~(Dist(h, c, cap) < Dist(h, h, cap)) /\ Dist(h, h, cap) <= Dist(h, c, cap)
  BY ONLY <1>3, cap \in Nat \ {0}
<1>6. Passed(r, g)
  BY ONLY <1>0, <1>1, <1>2, <1>4, <1>5 DEF Passed
<1>7. ASSUME Located(g, r.key), cap = g.cap
      PROVE  ToMeet(r, g)
  <2>1. PICK c \in 0..(cap - 1) : g.tab[c] = r.key /\ Reaches(g.tab, cap, c)
    BY <1>7 DEF Located
  <2> QED BY ONLY <1>0, <1>1, <1>2, <1>4, <1>5, <2>1 DEF ToMeet
<1>8. Bounds(r, m)
  BY <1>0, <1>1, <1>4 DEF Bounds
<1>9. t \in absent => Clean(r, m)
  BY <1>0 DEF Clean
<1>10. t \in was => Finds(t, r, m)
  BY <1>0, <1>1, <1>7 DEF Finds
<1>11. Unpassed(r, m)
  BY <1>0, <1>1, <1>6 DEF Unpassed
<1> QED BY <1>8, <1>9, <1>10, <1>11 DEF Reader

LEMMA LookingIs ==
  ASSUME ThreadsOK, NEW t \in Threads
  PROVE  /\ Looking(t) <=> th[t].pc \in LookPcs
         /\ Looking(t) => Looks(th[t]) /\ th[t].key \in Keys
<1>1. th[t].pc \in {"idle"} \cup AddPcs \cup DelPcs \cup LookPcs
  BY PcIs
<1>2. Looking(t) <=> th[t].pc \in LookPcs
  BY <1>1 DEF Looking, Writing, AddPcs, DelPcs, LookPcs
<1>3. Looking(t) => Looks(th[t])
  BY <1>2, PcIs
<1> QED BY <1>2, <1>3 DEF Looks

-----------------------------------------------------------------------------
(* What the others do to a lookup.                                          *)

\* Nothing a lookup looks at changes.
LEMMA ReaderSame ==
  ASSUME NEW t, NEW r, NEW m, Reader(t, r, m),
         UNCHANGED <<gens, cur, mir, seq, live, gone>>, t \in was' => t \in was, t \in absent' => t \in absent,
         Deleting(t, r.b)' <=> Deleting(t, r.b)
  PROVE  Reader(t, r, m)'
<1>1. Danger(t, r)' <=> Danger(t, r)
  BY DEF Danger
<1>2. Bounds(r, m)' /\ (Clean(r, m) => Clean(r, m)') /\ Unpassed(r, m)'
  BY DEF Reader, Bounds, Clean, Unpassed, GenOf
<1>3. Finds(t, r, m) => Finds(t, r, m)'
  BY <1>1 DEF Finds, GenOf
<1> QED BY <1>2, <1>3 DEF Reader

\* Generation h is g with empty cells filled by slabs that are not gone.
Filled(g, h) ==
  /\ h.cap = g.cap
  /\ \A c \in 0 .. g.cap - 1 : h.tab[c] # g.tab[c] => g.tab[c] = None /\ h.tab[c] \notin gone'

\* No slab that is gone comes to a cell.
NoneGone(g, h) ==
  h.cap = g.cap /\ \A c \in 0 .. g.cap - 1 : h.tab[c] # g.tab[c] => h.tab[c] \notin gone'

LEMMA FilledKeeps ==
  ASSUME NEW g, NEW h, Filled(g, h), g.cap \in Nat, NEW k \in Keys
  PROVE  /\ NoneGone(g, h)
         /\ Located(g, k) => Located(h, k)
         /\ \A r : r.key = k /\ r.cap = g.cap /\ ToMeet(r, g) => ToMeet(r, h)
         /\ \A r : r.cap = g.cap /\ Passed(r, g) => Passed(r, h)
<1>1. PICK cap \in Nat : cap = g.cap /\ cap = h.cap
  BY DEF Filled
<1>2. \A c \in 0..(cap - 1) : g.tab[c] # None => h.tab[c] = g.tab[c]
  BY <1>1 DEF Filled
<1>3. k # None
  BY KindIs
<1>4. ASSUME NEW c \in 0..(cap - 1), g.tab[c] = k, Reaches(g.tab, cap, c)
      PROVE  h.tab[c] = k /\ Reaches(h.tab, cap, c)
  <2>1. h.tab[c] = k
    BY <1>2, <1>3, <1>4
  <2>2. \A x \in 0..(cap - 1) : g.tab[x] # None => h.tab[x] # None
    BY ONLY <1>2
  <2> QED BY ONLY <1>4, <2>1, <2>2 DEF Reaches
<1>5. NoneGone(g, h)
  BY DEF Filled, NoneGone
<1>6. Located(g, k) => Located(h, k)
  BY ONLY <1>1, <1>4 DEF Located
<1>7. ASSUME NEW r, r.key = k, r.cap = cap, ToMeet(r, g)
      PROVE  ToMeet(r, h)
  BY ONLY <1>4, <1>7 DEF ToMeet
<1>8. ASSUME NEW r, r.cap = cap, Passed(r, g)
      PROVE  Passed(r, h)
  BY ONLY <1>2, <1>8 DEF Passed
<1> QED BY <1>1, <1>5, <1>6, <1>7, <1>8

\* A lookup is undisturbed by a step that fills empty cells, or that tells it that a
\* deletion is or was under way.
LEMMA ReaderStays ==
  ASSUME NEW t, NEW r, NEW m, NEW w, Reader(t, r, m), m \subseteq w, r.key \in Keys,
         seq \in Nat, seq' \in Nat, seq <= seq', mir.cap \in Nat, mir'.cap \in Nat, mir.cap <= mir'.cap,
         t \in absent' => t \in absent /\ r.key \in gone',
         t \in was' => t \in was /\ r.key \in live',
         \A y \in 1 .. Len(gens[r.b]) :
            /\ y \in 1 .. Len(gens'[r.b]) /\ gens[r.b][y].cap \in Nat
            /\ NoneGone(gens[r.b][y], gens'[r.b][y])
            /\ Danger(t, r)' \/ Filled(gens[r.b][y], gens'[r.b][y]),
         Danger(t, r) => Danger(t, r)',
         r.pc = "bigSeq" /\ t \in was' /\ KindOf(r.key) = r.b =>
            ((r.g = cur[r.b] \/ Located(GenOf(r), r.key)) => (r.g = cur[r.b] \/ Located(GenOf(r), r.key))'),
         Unpassed(r, w)'
  PROVE  Reader(t, r, w)'
<1>1. Bounds(r, m) /\ (t \in absent => Clean(r, m)) /\ (t \in was => Finds(t, r, m))
  BY DEF Reader
<1>2. PICK g : g = GenOf(r)
  OBVIOUS
<1>3. PICK h : h = GenOf(r)'
  OBVIOUS
<1>4. ASSUME r.pc \in Placed
      PROVE  /\ r.g \in 1 .. Len(gens'[r.b]) /\ g.cap \in Nat /\ NoneGone(g, h)
             /\ Danger(t, r)' \/ Filled(g, h)
  <2>1. r.g \in 1 .. Len(gens[r.b])
    BY <1>1, <1>4 DEF Bounds
  <2> QED BY <1>2, <1>3, <2>1 DEF GenOf
<1>5. r.pc \in Placed => h.cap = g.cap
  BY <1>4 DEF NoneGone
<1>6. r.pc \in {"probe", "deref", "bigSeq"} => r.pc \in Placed
  BY DEF Placed
<1>7. Bounds(r, w)'
  <2>1. r.b \in Kinds /\ r.s0 \in Nat /\ r.s0 <= seq'
    BY <1>1 DEF Bounds
  <2>2. r.pc = "fastTab" => r.cap \in Nat /\ r.cap <= mir'.cap
    BY <1>1 DEF Bounds
  <2>3. /\ r.pc = "probe" => r.cap <= h.cap \/ "swapped" \in w
        /\ r.pc = "deref" => r.i < h.cap
        /\ r.pc = "bigSeq" => r.cap = h.cap
    BY <1>1, <1>2, <1>5, <1>6 DEF Bounds
  <2> QED BY <1>1, <1>3, <1>4, <2>1, <2>2, <2>3 DEF Bounds
<1>8. ASSUME t \in absent'
      PROVE  Clean(r, w)'
  <2>1. Clean(r, m) /\ r.key \in gone'
    BY <1>1, <1>8
  <2>2. ASSUME r.pc \in Placed \ {"miss"}
        PROVE  r.key \notin Held(h.tab, h.cap)
    <3>1. r.key \notin Held(g.tab, g.cap) /\ r.key # None
      BY <1>2, <2>1, <2>2, KindIs DEF Clean
    <3>2. h.cap = g.cap /\ \A c \in 0 .. g.cap - 1 : h.tab[c] # g.tab[c] => h.tab[c] \notin gone'
      BY <1>4, <2>2 DEF NoneGone
    <3> QED BY <2>1, <3>1, <3>2 DEF Held
  <2> QED BY <1>3, <2>1, <2>2 DEF Clean
<1>9. ASSUME t \in was'
      PROVE  Finds(t, r, w)'
  <2>1. Finds(t, r, m) /\ r.key \in live'
    BY <1>1, <1>9
  <2>2. /\ r.pc = "done" /\ w \cap Bad = {} => r.ans = r.key
        /\ KindOf(r.key) = "slab" /\ (r.b = "big" \/ r.pc = "bigGen") => w \cap Bad # {}
    BY <2>1 DEF Finds
  <2>3. ASSUME KindOf(r.key) = r.b
        PROVE  /\ r.pc \in {"probe", "deref"} => Danger(t, r)' \/ r.cap # h.cap \/ ToMeet(r, h)
               /\ r.pc = "miss" \/ (r.pc = "deref" /\ r.ans = None) => Danger(t, r)' \/ r.cap # h.cap
               /\ r.pc = "fastCap" => Danger(t, r)' \/ Located(h, r.key)
    <3>1. /\ r.pc \in {"probe", "deref"} => Danger(t, r) \/ r.cap # g.cap \/ ToMeet(r, g)
          /\ r.pc = "miss" \/ (r.pc = "deref" /\ r.ans = None) => Danger(t, r) \/ r.cap # g.cap
          /\ r.pc = "fastCap" => Danger(t, r) \/ Located(g, r.key)
      BY <1>2, <2>1, <2>3 DEF Finds
    <3>2. ASSUME r.pc \in {"probe", "deref", "miss", "fastCap"}, ~Danger(t, r)'
          PROVE  /\ h.cap = g.cap
                 /\ r.cap = g.cap /\ ToMeet(r, g) => ToMeet(r, h)
                 /\ Located(g, r.key) => Located(h, r.key)
      <4>1. r.pc \in Placed
        BY <3>2 DEF Placed
      <4>2. Filled(g, h) /\ g.cap \in Nat
        BY <1>4, <3>2, <4>1
      <4> QED BY <1>5, <4>1, <4>2, FilledKeeps
    <3> QED BY <3>1, <3>2
  <2>4. r.pc = "bigSeq" /\ KindOf(r.key) = r.b => (r.g = cur[r.b] \/ Located(GenOf(r), r.key))'
    BY <1>9, <2>1 DEF Finds
  <2> QED BY <1>3, <2>1, <2>2, <2>3, <2>4 DEF Finds
<1> QED BY <1>7, <1>8, <1>9 DEF Reader

\* The lookups under way afterwards, one by one.
LEMMA ReadersFrom ==
  ASSUME met' = [u \in Threads |-> met'[u]], was' \cup absent' \subseteq {u \in Threads : Looking(u)'},
         \A u \in Threads : Looking(u)' =>
            \A q, m : q = th'[u] /\ m = met'[u] => Reader(u, q, m)'
  PROVE  ReadersOK'
<1>1. ASSUME NEW u \in Threads, Looking(u)'
      PROVE  Reader(u, th[u], met[u])'
  <2>1. PICK q, m : q = th'[u] /\ m = met'[u]
    OBVIOUS
  <2>2. Reader(u, q, m)'
    BY <1>1, <2>1
  <2> QED BY <2>1, <2>2 DEF Reader, Bounds, Clean, Finds, Unpassed, GenOf, Danger, Deleting
<1> QED BY <1>1 DEF ReadersOK

-----------------------------------------------------------------------------
(* The steps of lookups.                                                    *)

Steady == UNCHANGED <<gens, cur, n, mir, seq, live, gone, ownMap>>

\* One thread begins a lookup, looks on to r or ends its lookup.
LEMMA LookFrame ==
  ASSUME RegistryInv, LookupInv, NEW t \in Threads, NEW r, NEW m, Becomes(t, r), Steady,
         {th[t].pc, r.pc} \subseteq LookPcs \cup {"idle"}, met' = [met EXCEPT ![t] = m],
         was' \subseteq was \cup {t}, absent' \subseteq absent \cup {t},
         t \in was' \cup absent' => r.pc \in LookPcs,
         r.pc \in LookPcs => Reader(t, r, m)'
  PROVE  LookupInv'
<1>1. th'[t] = r /\ (\A u \in Threads : u # t => th'[u] = th[u])
  BY BecomesIs DEF RegistryInv
<1>2. r.pc \notin Writing /\ th[t].pc \notin Writing /\ (r.pc \in LookPcs <=> r.pc # "idle")
  BY DEF LookPcs, Writing
<1>3. \A u \in Threads : th'[u].pc \in Writing => th'[u] = th[u]
  BY ONLY <1>1, <1>2
<1>4. \A u \in Threads : th[u].pc \in Writing => th'[u] = th[u]
  BY ONLY <1>1, <1>2
<1>5. MapOK'
  <2>1. \A u \in Threads : th'[u].pc \in {"addMirTab", "addMirCap", "addMap"} => th'[u] = th[u]
    BY ONLY <1>3 DEF Writing
  <2> QED BY ONLY <2>1, LookupInv, Steady DEF Steady, LookupInv, MapOK
<1>6. MirrorOK'
  <2>1. \A u \in Threads : th'[u].pc = "addMirTab" <=> th[u].pc = "addMirTab"
    BY ONLY <1>3, <1>4 DEF Writing
  <2> QED BY ONLY <2>1, LookupInv, Steady DEF Steady, LookupInv, MirrorOK, Mine, Current
<1>7. HoleOK'
  <2>1. \A u \in Threads : th'[u].pc = "delErase" => th'[u] = th[u]
    BY ONLY <1>3 DEF Writing
  <2> QED BY ONLY <2>1, LookupInv, Steady DEF Steady, LookupInv, HoleOK, Current
<1>8. ReadersOK'
  <2>1. /\ met = [u \in Threads |-> met[u]] /\ was \cup absent \subseteq {u \in Threads : Looking(u)}
        /\ \A u \in Threads : Looking(u) => Reader(u, th[u], met[u])
    BY DEF LookupInv, ReadersOK
  <2>2. \A u \in Threads : u # t => met'[u] = met[u] /\ (Looking(u)' <=> Looking(u))
    BY ONLY <1>1, <2>1, met' = [met EXCEPT ![t] = m] DEF Looking
  <2>3. met' = [u \in Threads |-> met'[u]] /\ met'[t] = m
    BY <2>1
  <2>4. Looking(t)' <=> r.pc \in LookPcs
    BY ONLY <1>1, <1>2 DEF Looking
  <2>5. was' \cup absent' \subseteq {u \in Threads : Looking(u)'}
    BY ONLY <2>1, <2>2, <2>4, t \in Threads, was' \subseteq was \cup {t}, absent' \subseteq absent \cup {t},
            t \in was' \cup absent' => r.pc \in LookPcs
  <2>6. ASSUME NEW u \in Threads, Looking(u)', NEW q, NEW w, q = th'[u], w = met'[u]
        PROVE  Reader(u, q, w)'
    <3>1. CASE u = t
      BY ONLY <1>1, <2>3, <2>4, <2>6, <3>1, r.pc \in LookPcs => Reader(t, r, m)'
    <3>2. CASE u # t
      <4>1. Reader(u, q, w)
        BY ONLY <1>1, <2>1, <2>2, <2>6, <3>2
      <4>2. Deleting(u, q.b)' <=> Deleting(u, q.b)
        <5>1. \A x \in Threads : (th'[x].pc \in Writing <=> th[x].pc \in Writing) /\ (th[x].pc \in Writing => th'[x] = th[x])
          BY ONLY <1>3, <1>4
        <5>2. {"delErase", "delSeq"} \subseteq Writing
          BY DEF Writing
        <5> QED BY ONLY <5>1, <5>2 DEF Deleting
      <4>3. u \in was' => u \in was
        BY ONLY <3>2, was' \subseteq was \cup {t}
      <4>4. u \in absent' => u \in absent
        BY ONLY <3>2, absent' \subseteq absent \cup {t}
      <4>5. UNCHANGED <<gens, cur, mir, seq, live, gone>>
        BY DEF Steady
      <4> QED BY ONLY <4>1, <4>2, <4>3, <4>4, <4>5, ReaderSame
    <3> QED BY <3>1, <3>2
  <2> QED BY ONLY <2>3, <2>5, <2>6, ReadersFrom
<1>9. seq' \in Nat
  BY DEF Steady, LookupInv
<1> QED BY ONLY <1>5, <1>6, <1>7, <1>8, <1>9 DEF LookupInv

\* One thread looks on to r.
LEMMA ReadFrame ==
  ASSUME RegistryInv, LookupInv, NEW t \in Threads, th[t].pc \in LookPcs,
         NEW r, NEW m, Becomes(t, r), Looks(r), Reader(t, r, m), met' = [met EXCEPT ![t] = m],
         Steady, UNCHANGED <<was, absent>>
  PROVE  LookupInv'
<1>1. r.pc \in LookPcs
  BY DEF Looks
<1>2. Reader(t, r, m)'
  <2>1. \A u \in Threads : u # t => th'[u] = th[u]
    BY BecomesIs DEF RegistryInv
  <2>2. Deleting(t, r.b)' <=> Deleting(t, r.b)
    BY ONLY <2>1 DEF Deleting
  <2> QED BY ONLY <2>2, Reader(t, r, m), Steady, UNCHANGED <<was, absent>>, ReaderSame DEF Steady
<1>3. {th[t].pc, r.pc} \subseteq LookPcs \cup {"idle"} /\ was' \subseteq was \cup {t} /\ absent' \subseteq absent \cup {t}
  BY <1>1
<1> QED BY ONLY <1>1, <1>2, <1>3, RegistryInv, LookupInv, t \in Threads, Becomes(t, r), Steady,
            met' = [met EXCEPT ![t] = m], LookFrame

LEMMA Lookups ==
  ASSUME RegistryInv, LookupInv, NEW t \in Threads, th[t].pc \in LookPcs
  PROVE  /\ Looking(t) /\ Looks(th[t]) /\ th[t].key \in Keys /\ Reader(t, th[t], met[t])
         /\ met = [u \in Threads |-> met[u]] /\ met = [met EXCEPT ![t] = met[t]]
         /\ th[t].b \in Kinds /\ th[t].s0 \in Nat /\ th[t].s0 <= seq /\ seq \in Nat
<1>1. Looking(t) /\ Looks(th[t]) /\ th[t].key \in Keys
  BY LookingIs DEF RegistryInv
<1>2. met = [u \in Threads |-> met[u]] /\ Reader(t, th[t], met[t])
  BY <1>1 DEF LookupInv, ReadersOK
<1>3. met = [met EXCEPT ![t] = met[t]]
  BY ONLY <1>2
<1>4. th[t].b \in Kinds /\ th[t].s0 \in Nat /\ th[t].s0 <= seq /\ seq \in Nat
  BY <1>2 DEF Reader, Bounds, LookupInv
<1> QED BY <1>1, <1>2, <1>3, <1>4

\* The record of a lookup that goes on, ends or begins to probe.
LEMMA GoesTo ==
  ASSUME ThreadsOK, NEW t \in Threads, Looks(th[t]), NEW pc \in LookPcs, Go(t, pc)
  PROVE  \E r : /\ Becomes(t, r) /\ Looks(r) /\ r.pc = pc /\ r.key = th[t].key /\ r.b = th[t].b
                /\ r.s0 = th[t].s0 /\ r.g = th[t].g /\ r.cap = th[t].cap /\ r.i = th[t].i
                /\ r.ans = th[t].ans
<1>1. PICK r : r = [th[t] EXCEPT !.pc = pc]
  OBVIOUS
<1>2. Becomes(t, r)
  BY <1>1, GoesOn
<1> QED BY ONLY <1>1, <1>2, Looks(th[t]), pc \in LookPcs DEF Looks

LEMMA AnswersTo ==
  ASSUME ThreadsOK, NEW t \in Threads, Looks(th[t]), NEW s, Answer(t, s)
  PROVE  \E r : /\ Becomes(t, r) /\ Looks(r) /\ r.pc = "done" /\ r.key = th[t].key /\ r.b = th[t].b
                /\ r.s0 = th[t].s0 /\ r.ans = s
<1>1. PICK r : r = [th[t] EXCEPT !.pc = "done", !.ans = s]
  OBVIOUS
<1>2. "done" \in LookPcs
  BY DEF LookPcs
<1>3. Becomes(t, r)
  BY ONLY <1>1, Answer(t, s), ThreadsOK, t \in Threads DEF Becomes, ThreadsOK, Answer
<1>4. Looks(r) /\ r.pc = "done" /\ r.key = th[t].key /\ r.b = th[t].b /\ r.s0 = th[t].s0 /\ r.ans = s
  BY ONLY <1>1, <1>2, Looks(th[t]) DEF Looks
<1> QED BY ONLY <1>3, <1>4

LEMMA StartsTo ==
  ASSUME ThreadsOK, NEW t \in Threads, Looks(th[t]), NEW g, NEW cap, NEW pc \in LookPcs, Start(t, g, cap, pc)
  PROVE  \E r : /\ Becomes(t, r) /\ Looks(r) /\ r.key = th[t].key /\ r.b = th[t].b /\ r.s0 = th[t].s0
                /\ r.pc = (IF pc # "probe" THEN pc ELSE IF cap = 0 THEN "miss" ELSE "probe")
                /\ r.g = g /\ r.cap = cap /\ r.i = (IF cap = 0 THEN 0 ELSE ProbeOf(th[t].key, cap))
<1>1. PICK q \in LookPcs : q = IF pc # "probe" THEN pc ELSE IF cap = 0 THEN "miss" ELSE "probe"
  BY DEF LookPcs
<1>2. PICK i : i = IF cap = 0 THEN 0 ELSE ProbeOf(th[t].key, cap)
  OBVIOUS
<1>3. PICK r : r = [th[t] EXCEPT !.g = g, !.cap = cap, !.pc = q, !.i = i]
  OBVIOUS
<1>4. th' = [th EXCEPT ![t].g = g, ![t].cap = cap, ![t].pc = q, ![t].i = i]
  BY ONLY <1>1, <1>2, Start(t, g, cap, pc) DEF Start
<1>5. Becomes(t, r)
  BY ONLY <1>3, <1>4, ThreadsOK, t \in Threads DEF Becomes, ThreadsOK
<1>6. /\ Looks(r) /\ r.key = th[t].key /\ r.b = th[t].b /\ r.s0 = th[t].s0
      /\ r.pc = q /\ r.g = g /\ r.cap = cap /\ r.i = i
  BY ONLY <1>3, Looks(th[t]), q \in LookPcs DEF Looks
<1> QED BY ONLY <1>1, <1>2, <1>5, <1>6

\* A lookup ends with s.
LEMMA AnswerReads ==
  ASSUME RegistryInv, LookupInv, NEW t \in Threads, th[t].pc \in LookPcs, NEW s, NEW m, Answer(t, s),
         met' = [met EXCEPT ![t] = m], met[t] \subseteq m, Steady, UNCHANGED <<was, absent>>,
         t \in absent /\ m \cap {"hot", "swapped"} = {} => s = None,
         t \in was /\ m \cap Bad = {} => s = th[t].key
  PROVE  LookupInv'
<1>1. Looks(th[t]) /\ Reader(t, th[t], met[t])
  BY Lookups
<1>2. PICK r : /\ Becomes(t, r) /\ Looks(r) /\ r.pc = "done" /\ r.key = th[t].key /\ r.b = th[t].b
               /\ r.s0 = th[t].s0 /\ r.ans = s
  BY <1>1, AnswersTo DEF RegistryInv
<1>3. Bounds(r, m)
  BY ONLY <1>1, <1>2 DEF Reader, Bounds, Placed
<1>4. t \in absent => Clean(r, m)
  BY ONLY <1>1, <1>2, t \in absent /\ m \cap {"hot", "swapped"} = {} => s = None DEF Reader, Clean, Placed
<1>5. t \in was => Finds(t, r, m)
  BY ONLY <1>1, <1>2, t \in was /\ m \cap Bad = {} => s = th[t].key, met[t] \subseteq m DEF Reader, Finds
<1>6. Unpassed(r, m)
  BY ONLY <1>2 DEF Unpassed
<1>7. Reader(t, r, m)
  BY <1>3, <1>4, <1>5, <1>6 DEF Reader
<1> QED BY ONLY <1>2, <1>7, RegistryInv, LookupInv, t \in Threads, th[t].pc \in LookPcs,
            met' = [met EXCEPT ![t] = m], Steady, UNCHANGED <<was, absent>>, ReadFrame

\* A lookup goes on where it has no table in hand, or has missed in the one it has.
LEMMA GoReads ==
  ASSUME RegistryInv, LookupInv, NEW t \in Threads, th[t].pc \in LookPcs, NEW m,
         NEW pc \in {"fastSeq", "bigGen", "findLock", "miss"}, Go(t, pc),
         met' = [met EXCEPT ![t] = m], met[t] \subseteq m, Steady, UNCHANGED <<was, absent>>,
         pc = "fastSeq" => th[t].b = "slab",
         pc = "bigGen" /\ t \in was /\ KindOf(th[t].key) = "slab" => m \cap Bad # {},
         pc = "miss" => th[t].pc = "deref",
         pc = "miss" /\ t \in was /\ KindOf(th[t].key) = th[t].b =>
            Danger(t, th[t]) \/ th[t].cap # GenOf(th[t]).cap
  PROVE  LookupInv'
<1>1. Looks(th[t]) /\ Reader(t, th[t], met[t]) /\ pc \in LookPcs
  BY Lookups DEF LookPcs
<1>2. PICK r : /\ Becomes(t, r) /\ Looks(r) /\ r.pc = pc /\ r.key = th[t].key /\ r.b = th[t].b
               /\ r.s0 = th[t].s0 /\ r.g = th[t].g /\ r.cap = th[t].cap
  BY <1>1, GoesTo DEF RegistryInv
<1>3. Bounds(r, m)
  BY ONLY <1>1, <1>2, pc \in {"fastSeq", "bigGen", "findLock", "miss"}, pc = "fastSeq" => th[t].b = "slab",
          pc = "miss" => th[t].pc = "deref" DEF Reader, Bounds, Placed
<1>4. t \in absent => Clean(r, m)
  BY ONLY <1>1, <1>2, pc \in {"fastSeq", "bigGen", "findLock", "miss"} DEF Reader, Clean, Placed
<1>5. ASSUME t \in was
      PROVE  Finds(t, r, m)
  <2>1. Finds(t, th[t], met[t])
    BY <1>1, <1>5 DEF Reader
  <2>2. Danger(t, r) <=> Danger(t, th[t])
    BY ONLY <1>2 DEF Danger
  <2>3. GenOf(r) = GenOf(th[t])
    BY ONLY <1>2 DEF GenOf
  <2>4. r.pc \in {"fastSeq", "bigGen", "findLock", "miss"} /\ r.key \in live
    BY <1>2, <2>1 DEF Finds
  <2>5. KindOf(r.key) = "slab" /\ (r.b = "big" \/ r.pc = "bigGen") => m \cap Bad # {}
    <3>1. KindOf(th[t].key) = "slab" /\ th[t].b = "big" => met[t] \cap Bad # {}
      BY <2>1 DEF Finds
    <3> QED BY ONLY <1>2, <1>5, <3>1, met[t] \subseteq m, pc = "bigGen" /\ t \in was /\ KindOf(th[t].key) = "slab" => m \cap Bad # {}
  <2>6. r.pc = "miss" /\ KindOf(r.key) = r.b => Danger(t, r) \/ r.cap # GenOf(r).cap
    BY <1>2, <1>5, <2>2, <2>3
  <2> QED BY ONLY <2>4, <2>5, <2>6 DEF Finds
<1>6. Unpassed(r, m)
  BY ONLY <1>2, pc \in {"fastSeq", "bigGen", "findLock", "miss"} DEF Unpassed
<1>7. Reader(t, r, m)
  BY <1>3, <1>4, <1>5, <1>6 DEF Reader
<1> QED BY ONLY <1>2, <1>7, RegistryInv, LookupInv, t \in Threads, th[t].pc \in LookPcs,
            met' = [met EXCEPT ![t] = m], Steady, UNCHANGED <<was, absent>>, ReadFrame

LEMMA AnswerSlabReads ==
  ASSUME RegistryInv, LookupInv, NEW t \in Threads, th[t].pc \in LookPcs, NEW s, NEW m, AnswerSlab(t, s),
         met' = [met EXCEPT ![t] = m], met[t] \subseteq m, Steady, UNCHANGED <<was, absent>>,
         t \in absent /\ s = th[t].key => m \cap {"hot", "swapped"} # {},
         t \in was /\ KindOf(th[t].key) = "slab" /\ s # th[t].key => m \cap Bad # {}
  PROVE  LookupInv'
<1>1. CASE s = th[t].key
  <2>1. Answer(t, s)
    BY <1>1 DEF AnswerSlab
  <2>2. t \in absent /\ m \cap {"hot", "swapped"} = {} => s = None
    BY <1>1
  <2> QED BY ONLY <1>1, <2>1, <2>2, RegistryInv, LookupInv, t \in Threads, th[t].pc \in LookPcs,
              met' = [met EXCEPT ![t] = m], met[t] \subseteq m, Steady, UNCHANGED <<was, absent>>, AnswerReads
<1>2. CASE s # th[t].key
  <2>1. PICK pc : pc = "bigGen"
    OBVIOUS
  <2>2. Go(t, pc)
    BY <1>2, <2>1 DEF AnswerSlab
  <2>3. /\ pc \in {"fastSeq", "bigGen", "findLock", "miss"}
        /\ pc = "fastSeq" => th[t].b = "slab"
        /\ pc = "bigGen" /\ t \in was /\ KindOf(th[t].key) = "slab" => m \cap Bad # {}
        /\ pc = "miss" => th[t].pc = "deref"
        /\ pc = "miss" /\ t \in was /\ KindOf(th[t].key) = th[t].b =>
              Danger(t, th[t]) \/ th[t].cap # GenOf(th[t]).cap
    BY <1>2, <2>1
  <2> QED BY ONLY <2>2, <2>3, RegistryInv, LookupInv, t \in Threads, th[t].pc \in LookPcs,
              met' = [met EXCEPT ![t] = m], met[t] \subseteq m, Steady, UNCHANGED <<was, absent>>, GoReads
<1> QED BY <1>1, <1>2

\* A lookup begins to probe a generation, or misses in one without cells.
LEMMA StartReads ==
  ASSUME RegistryInv, LookupInv, NEW t \in Threads, th[t].pc \in LookPcs,
         NEW g, g \in 1 .. Len(gens[th[t].b]), NEW cap \in Nat, NEW m, NEW G, G = gens[th[t].b][g],
         Start(t, g, cap, "probe"), met' = [met EXCEPT ![t] = m], met[t] \cap Bad \subseteq m,
         Steady, UNCHANGED <<was, absent>>,
         cap <= G.cap \/ "swapped" \in m,
         t \in absent => th[t].key \notin Held(G.tab, G.cap),
         t \in was /\ KindOf(th[t].key) = th[t].b => Danger(t, th[t]) \/ cap # G.cap \/ Located(G, th[t].key)
  PROVE  LookupInv'
<1>1. /\ Looks(th[t]) /\ Reader(t, th[t], met[t]) /\ th[t].key \in Keys
      /\ th[t].b \in Kinds /\ th[t].s0 \in Nat /\ th[t].s0 <= seq
  BY Lookups
<1>2. "probe" \in LookPcs
  BY DEF LookPcs
<1>3. PICK r : /\ Becomes(t, r) /\ Looks(r) /\ r.key = th[t].key /\ r.b = th[t].b /\ r.s0 = th[t].s0
               /\ r.pc = (IF cap = 0 THEN "miss" ELSE "probe")
               /\ r.g = g /\ r.cap = cap /\ r.i = (IF cap = 0 THEN 0 ELSE ProbeOf(th[t].key, cap))
  BY <1>1, <1>2, StartsTo DEF RegistryInv
<1>4. GenOf(r) = G /\ (Danger(t, r) <=> Danger(t, th[t]))
  BY <1>3 DEF GenOf, Danger
<1>5. t \in absent => th[t].key \in gone
  BY <1>1 DEF Reader, Clean
<1>6. t \in was => /\ th[t].key \in live
                   /\ KindOf(th[t].key) = "slab" /\ th[t].b = "big" => m \cap Bad # {}
  <2>1. t \in was => /\ th[t].key \in live
                     /\ KindOf(th[t].key) = "slab" /\ th[t].b = "big" => met[t] \cap Bad # {}
    BY <1>1 DEF Reader, Finds
  <2> QED BY ONLY <2>1, met[t] \cap Bad \subseteq m
<1>7. CASE cap = 0
  <2>1. r.pc = "miss"
    BY <1>3, <1>7
  <2>2. Bounds(r, m)
    BY ONLY <1>1, <1>3, <2>1, g \in 1 .. Len(gens[th[t].b]) DEF Bounds, Placed
  <2>3. t \in absent => Clean(r, m)
    BY ONLY <1>3, <1>5, <2>1 DEF Clean, Placed
  <2>4. G.cap = 0 => ~Located(G, th[t].key)
    BY DEF Located
  <2>5. t \in was /\ KindOf(r.key) = r.b => Danger(t, r) \/ r.cap # GenOf(r).cap
    BY <1>3, <1>4, <1>7, <2>4
  <2>6. t \in was => Finds(t, r, m)
    BY ONLY <1>3, <1>6, <2>1, <2>5 DEF Finds
  <2>7. Unpassed(r, m)
    BY ONLY <2>1 DEF Unpassed
  <2>8. Reader(t, r, m)
    BY <2>2, <2>3, <2>6, <2>7 DEF Reader
  <2> QED BY ONLY <1>3, <2>8, RegistryInv, LookupInv, t \in Threads, th[t].pc \in LookPcs,
              met' = [met EXCEPT ![t] = m], Steady, UNCHANGED <<was, absent>>, ReadFrame
<1>8. CASE cap # 0
  <2>1. /\ r.pc = "probe" /\ r.i = ProbeOf(r.key, r.cap) /\ r.cap \in Nat \ {0} /\ r.key \in Keys
        /\ r.b \in Kinds /\ r.s0 \in Nat /\ r.s0 <= seq /\ r.g \in 1 .. Len(gens[r.b])
    BY <1>1, <1>3, <1>8
  <2>2. r.cap <= GenOf(r).cap \/ "swapped" \in m
    BY <1>3, <1>4
  <2>3. t \in absent => r.key \in gone /\ r.key \notin Held(GenOf(r).tab, GenOf(r).cap)
    BY <1>3, <1>4, <1>5
  <2>4. t \in was => /\ r.key \in live
                     /\ KindOf(r.key) = "slab" /\ r.b = "big" => m \cap Bad # {}
                     /\ KindOf(r.key) = r.b =>
                            Danger(t, r) \/ r.cap # GenOf(r).cap \/ Located(GenOf(r), r.key)
    BY <1>3, <1>4, <1>6
  <2>5. Reader(t, r, m)
    BY ONLY <2>1, <2>2, <2>3, <2>4, ProbingBegins
  <2> QED BY ONLY <1>3, <2>5, RegistryInv, LookupInv, t \in Threads, th[t].pc \in LookPcs,
              met' = [met EXCEPT ![t] = m], Steady, UNCHANGED <<was, absent>>, ReadFrame
<1> QED BY <1>7, <1>8

LEMMA LookupMapReads ==
  ASSUME RegistryInv, LookupInv, NEW t \in Threads, LookupMap(t)
  PROVE  LookupInv'
<1>1. th[t].pc = "map" /\ th[t].pc \in LookPcs /\ met' = met /\ Steady /\ UNCHANGED <<was, absent>>
  BY DEF LookupMap, tables, ghosts, LookPcs, Steady
<1>2. th[t].key \in Keys /\ Reader(t, th[t], met[t])
  BY <1>1, Lookups
<1>3. PICK k \in Keys : k = th[t].key
  BY <1>2
<1>4. PICK m : m = met[t]
  OBVIOUS
<1>5. met' = [met EXCEPT ![t] = m] /\ met[t] \subseteq m
  BY <1>1, <1>4, Lookups
<1>6. CASE k \in Normal /\ ownMap[MapCell(k)] = k
  <2>1. PICK s : s = k
    OBVIOUS
  <2>2. AnswerSlab(t, s)
    BY <1>3, <1>6, <2>1 DEF LookupMap
  <2>3. MapCell(k) \in 0 .. MapSize - 1
    <3>1. PICK a \in Nat, c \in Nat \ {0} : a = Hash[k] /\ c = MapSize
      BY RegistryAssumption
    <3>2. a % c \in 0..(c - 1)
      OBVIOUS
    <3> QED BY <3>1, <3>2 DEF MapCell
  <2>4. k \notin gone
    BY <1>6, <2>3, KindIs DEF LookupInv, MapOK
  <2>5. t \notin absent
    BY <1>2, <1>3, <2>4 DEF Reader, Clean
  <2>6. /\ t \in absent /\ s = th[t].key => m \cap {"hot", "swapped"} # {}
        /\ t \in was /\ KindOf(th[t].key) = "slab" /\ s # th[t].key => m \cap Bad # {}
    BY <1>3, <2>1, <2>5
  <2> QED BY ONLY <1>1, <1>5, <2>2, <2>6, RegistryInv, LookupInv, t \in Threads, AnswerSlabReads
<1>7. CASE ~(k \in Normal /\ ownMap[MapCell(k)] = k)
  <2>1. PICK pc : pc = "fastSeq"
    OBVIOUS
  <2>2. Go(t, pc)
    BY <1>3, <1>7, <2>1 DEF LookupMap
  <2>3. th[t].b = "slab"
    BY <1>1, <1>2 DEF Reader, Bounds
  <2>4. /\ pc \in {"fastSeq", "bigGen", "findLock", "miss"}
        /\ pc = "fastSeq" => th[t].b = "slab"
        /\ pc = "bigGen" /\ t \in was /\ KindOf(th[t].key) = "slab" => m \cap Bad # {}
        /\ pc = "miss" => th[t].pc = "deref"
        /\ pc = "miss" /\ t \in was /\ KindOf(th[t].key) = th[t].b =>
              Danger(t, th[t]) \/ th[t].cap # GenOf(th[t]).cap
    BY <2>1, <2>3
  <2> QED BY ONLY <1>1, <1>5, <2>2, <2>4, RegistryInv, LookupInv, t \in Threads, GoReads
<1> QED BY <1>6, <1>7

LEMMA FastSeqReads ==
  ASSUME RegistryInv, LookupInv, NEW t \in Threads, FastSeq(t)
  PROVE  LookupInv'
<1>1. th[t].pc = "fastSeq" /\ th[t].pc \in LookPcs /\ met' = met /\ Steady /\ UNCHANGED <<was, absent>>
  BY DEF FastSeq, tables, ghosts, LookPcs, Steady
<1>2. Looks(th[t]) /\ Reader(t, th[t], met[t]) /\ seq \in Nat
  BY <1>1, Lookups
<1>3. PICK m : m = met[t]
  OBVIOUS
<1>4. met' = [met EXCEPT ![t] = m]
  BY <1>1, <1>3, Lookups
<1>5. PICK r : r = [th[t] EXCEPT !.s0 = seq, !.pc = "fastFirst"]
  OBVIOUS
<1>6. "fastFirst" \in LookPcs
  BY DEF LookPcs
<1>7. Looks(r) /\ r.pc = "fastFirst" /\ r.key = th[t].key /\ r.b = th[t].b /\ r.s0 = seq
  BY ONLY <1>2, <1>5, <1>6 DEF Looks
<1>8. Becomes(t, r)
  BY ONLY <1>5, FastSeq(t), RegistryInv, t \in Threads DEF FastSeq, Becomes, RegistryInv, ThreadsOK
<1>9. Bounds(r, m) /\ r.b = "slab"
  BY ONLY <1>1, <1>2, <1>7 DEF Reader, Bounds, Placed
<1>10. (t \in absent => Clean(r, m)) /\ (t \in was => Finds(t, r, m)) /\ Unpassed(r, m)
  BY ONLY <1>2, <1>7, <1>9 DEF Reader, Clean, Finds, Unpassed, Placed
<1>11. Reader(t, r, m)
  BY <1>9, <1>10 DEF Reader
<1> QED BY ONLY <1>1, <1>4, <1>7, <1>8, <1>11, RegistryInv, LookupInv, t \in Threads, ReadFrame

\* What the mirror's table holds for a lookup of thread t.
LEMMA MirrorServes ==
  ASSUME RegistryInv, LookupInv, NEW t \in Threads, NEW r, NEW m, Reader(t, r, m), th[t] = r,
         r.b = "slab", r.pc \in LookPcs
  PROVE  /\ mir.tab \in 1 .. Len(gens["slab"]) /\ mir.cap \in Nat
         /\ mir.cap <= gens["slab"][mir.tab].cap /\ gens["slab"][mir.tab].cap \in Nat
         /\ t \in absent => r.key \notin Held(gens["slab"][mir.tab].tab, gens["slab"][mir.tab].cap)
         /\ t \in was /\ KindOf(r.key) = "slab" => Danger(t, r) \/ Located(gens["slab"][mir.tab], r.key)
<1>1. MirrorOK /\ HoleOK
  BY DEF LookupInv
<1>2. /\ mir.tab \in 1 .. Len(gens["slab"]) /\ mir.cap \in Nat
      /\ mir.cap <= gens["slab"][mir.tab].cap
  BY <1>1 DEF MirrorOK
<1>3. gens["slab"][mir.tab].cap \in Nat
  BY <1>2, GenOfIs DEF Kinds
<1>4. ASSUME t \in absent
      PROVE  r.key \notin Held(gens["slab"][mir.tab].tab, gens["slab"][mir.tab].cap)
  <2>1. r.key \in gone
    BY <1>4 DEF Reader, Clean
  <2> QED BY <1>1, <2>1, MirrorClean
<1>5. ASSUME t \in was, KindOf(r.key) = "slab", ~Danger(t, r)
      PROVE  Located(gens["slab"][mir.tab], r.key)
  <2>1. r.key \in live
    BY <1>5 DEF Reader, Finds
  <2>2. \A u \in Threads \ {t} : th[u].pc \in {"delErase", "delSeq"} => th[u].b # r.b
    BY <1>5 DEF Danger, Deleting
  <2>3. th[t].pc # "delErase"
    BY DEF LookPcs
  <2>4. \A u \in Threads : th[u].pc = "delErase" => th[u].b # "slab"
    BY <2>2, <2>3
  <2> QED BY <1>1, <1>5, <2>1, <2>4, MirrorLocates
<1> QED BY <1>2, <1>3, <1>4, <1>5

\* The mirror's words, capacity first.
LEMMA FastCapReads ==
  ASSUME RegistryInv, LookupInv, NEW t \in Threads, FastCap(t), Steady, UNCHANGED <<was, absent>>
  PROVE  LookupInv'
<1>1. th[t].pc = "fastFirst" /\ th[t].pc \in LookPcs /\ met' = met
  BY DEF FastCap, LookPcs
<1>2. Looks(th[t]) /\ Reader(t, th[t], met[t])
  BY <1>1, Lookups
<1>3. PICK m : m = met[t]
  OBVIOUS
<1>4. met' = [met EXCEPT ![t] = m]
  BY <1>1, <1>3, Lookups
<1>5. PICK pc, g, cap : pc = "fastTab" /\ g = th[t].g /\ cap = mir.cap
  OBVIOUS
<1>6. Start(t, g, cap, pc) /\ pc \in LookPcs
  BY <1>5 DEF FastCap, LookPcs
<1>7. PICK r : /\ Becomes(t, r) /\ Looks(r) /\ r.key = th[t].key /\ r.b = th[t].b /\ r.s0 = th[t].s0
               /\ r.pc = (IF pc # "probe" THEN pc ELSE IF cap = 0 THEN "miss" ELSE "probe")
               /\ r.g = g /\ r.cap = cap
  BY <1>2, <1>6, StartsTo DEF RegistryInv
<1>8. r.pc = "fastTab" /\ r.cap = mir.cap
  BY <1>5, <1>7
<1>9. mir.cap \in Nat
  BY DEF LookupInv, MirrorOK
<1>10. Bounds(r, m) /\ r.b = "slab"
  <2>1. mir.cap <= mir.cap
    BY <1>9
  <2> QED BY ONLY <1>1, <1>2, <1>7, <1>8, <1>9, <2>1 DEF Reader, Bounds, Placed
<1>11. (t \in absent => Clean(r, m)) /\ (t \in was => Finds(t, r, m)) /\ Unpassed(r, m)
  BY ONLY <1>2, <1>7, <1>8, <1>10 DEF Reader, Clean, Finds, Unpassed, Placed
<1>12. Reader(t, r, m)
  BY <1>10, <1>11 DEF Reader
<1> QED BY ONLY <1>1, <1>4, <1>7, <1>12, RegistryInv, LookupInv, t \in Threads, Steady,
            UNCHANGED <<was, absent>>, ReadFrame

LEMMA FastCapTabReads ==
  ASSUME RegistryInv, LookupInv, NEW t \in Threads, FastCapTab(t), Steady, UNCHANGED <<was, absent>>
  PROVE  LookupInv'
<1>1. th[t].pc = "fastTab" /\ th[t].pc \in LookPcs
  BY DEF FastCapTab, LookPcs
<1>2. Reader(t, th[t], met[t])
  BY <1>1, Lookups
<1>3. th[t].b = "slab" /\ th[t].cap \in Nat /\ th[t].cap <= mir.cap
  BY <1>1, <1>2 DEF Reader, Bounds
<1>4. PICK g, cap, G, m : g = mir.tab /\ cap = th[t].cap /\ G = gens["slab"][g] /\ m = (met[t] \ {"emptied"}) \cup {}
  OBVIOUS
<1>5. Start(t, g, cap, "probe") /\ met' = [met EXCEPT ![t] = m]
  BY <1>4 DEF FastCapTab, Afresh
<1>6. met[t] \cap Bad \subseteq m
  BY <1>4 DEF Bad
<1>7. /\ g \in 1 .. Len(gens["slab"]) /\ mir.cap \in Nat /\ mir.cap <= G.cap /\ G.cap \in Nat
      /\ t \in absent => th[t].key \notin Held(G.tab, G.cap)
      /\ t \in was /\ KindOf(th[t].key) = "slab" => Danger(t, th[t]) \/ Located(G, th[t].key)
  BY <1>1, <1>2, <1>3, <1>4, MirrorServes
<1>8. cap \in Nat /\ cap <= G.cap
  BY <1>3, <1>4, <1>7
<1>9. /\ g \in 1 .. Len(gens[th[t].b]) /\ G = gens[th[t].b][g] /\ (cap <= G.cap \/ "swapped" \in m)
      /\ t \in absent => th[t].key \notin Held(G.tab, G.cap)
      /\ t \in was /\ KindOf(th[t].key) = th[t].b => Danger(t, th[t]) \/ cap # G.cap \/ Located(G, th[t].key)
  BY <1>3, <1>4, <1>7, <1>8
<1> QED BY ONLY <1>1, <1>5, <1>6, <1>8, <1>9, RegistryInv, LookupInv, t \in Threads, Steady,
            UNCHANGED <<was, absent>>, StartReads

\* The mirror's words, table first.
LEMMA FastTabReads ==
  ASSUME RegistryInv, LookupInv, NEW t \in Threads, FastTab(t), Steady, UNCHANGED <<was, absent>>
  PROVE  LookupInv'
<1>1. th[t].pc = "fastFirst" /\ th[t].pc \in LookPcs /\ met' = met
  BY DEF FastTab, LookPcs
<1>2. Looks(th[t]) /\ Reader(t, th[t], met[t])
  BY <1>1, Lookups
<1>3. PICK m : m = met[t]
  OBVIOUS
<1>4. met' = [met EXCEPT ![t] = m]
  BY <1>1, <1>3, Lookups
<1>5. PICK pc, g, cap : pc = "fastCap" /\ g = mir.tab /\ cap = 0
  OBVIOUS
<1>6. Start(t, g, cap, pc) /\ pc \in LookPcs
  BY <1>5 DEF FastTab, LookPcs
<1>7. PICK r : /\ Becomes(t, r) /\ Looks(r) /\ r.key = th[t].key /\ r.b = th[t].b /\ r.s0 = th[t].s0
               /\ r.pc = (IF pc # "probe" THEN pc ELSE IF cap = 0 THEN "miss" ELSE "probe")
               /\ r.g = g /\ r.cap = cap
  BY <1>2, <1>6, StartsTo DEF RegistryInv
<1>8. r.pc = "fastCap" /\ r.g = mir.tab
  BY <1>5, <1>7
<1>9. th[t].b = "slab"
  BY <1>1, <1>2 DEF Reader, Bounds
<1>10. PICK G : G = gens["slab"][mir.tab]
  OBVIOUS
<1>11. /\ mir.tab \in 1 .. Len(gens["slab"])
       /\ t \in absent => th[t].key \notin Held(G.tab, G.cap)
       /\ t \in was /\ KindOf(th[t].key) = "slab" => Danger(t, th[t]) \/ Located(G, th[t].key)
  BY <1>1, <1>2, <1>9, <1>10, MirrorServes
<1>12. GenOf(r) = G /\ (Danger(t, r) <=> Danger(t, th[t]))
  BY <1>7, <1>8, <1>9, <1>10 DEF GenOf, Danger
<1>13. Bounds(r, m)
  BY ONLY <1>1, <1>2, <1>7, <1>8, <1>9, <1>11 DEF Reader, Bounds, Placed
<1>14. t \in absent => Clean(r, m)
  BY ONLY <1>2, <1>7, <1>8, <1>11, <1>12 DEF Reader, Clean, Placed
<1>15. t \in was => Finds(t, r, m)
  BY ONLY <1>2, <1>7, <1>8, <1>9, <1>11, <1>12 DEF Reader, Finds
<1>16. Reader(t, r, m)
  BY <1>8, <1>13, <1>14, <1>15 DEF Reader, Unpassed
<1> QED BY ONLY <1>1, <1>4, <1>7, <1>16, RegistryInv, LookupInv, t \in Threads, Steady,
            UNCHANGED <<was, absent>>, ReadFrame

LEMMA FastTabCapReads ==
  ASSUME RegistryInv, LookupInv, NEW t \in Threads, FastTabCap(t), Steady, UNCHANGED <<was, absent>>
  PROVE  LookupInv'
<1>1. th[t].pc = "fastCap" /\ th[t].pc \in LookPcs
  BY DEF FastTabCap, LookPcs
<1>2. Reader(t, th[t], met[t])
  BY <1>1, Lookups
<1>3. th[t].b = "slab" /\ th[t].g \in 1 .. Len(gens["slab"]) /\ mir.cap \in Nat
  BY <1>1, <1>2 DEF Reader, Bounds, Placed, LookupInv, MirrorOK
<1>4. PICK g, cap, G : g = th[t].g /\ cap = mir.cap /\ G = gens["slab"][g]
  OBVIOUS
<1>5. PICK m : m = (met[t] \ {"emptied"}) \cup (IF mir.cap > G.cap THEN {"swapped"} ELSE {})
  OBVIOUS
<1>6. Start(t, g, cap, "probe") /\ met' = [met EXCEPT ![t] = m]
  BY <1>4, <1>5 DEF FastTabCap, Afresh
<1>7. met[t] \cap Bad \subseteq m
  BY <1>5 DEF Bad
<1>8. G.cap \in Nat
  BY <1>3, <1>4, GenOfIs DEF Kinds
<1>9. cap \in Nat /\ (cap <= G.cap \/ "swapped" \in m)
  BY <1>3, <1>4, <1>5, <1>8
<1>10. GenOf(th[t]) = G
  BY <1>3, <1>4 DEF GenOf
<1>11. t \in absent => th[t].key \notin Held(G.tab, G.cap)
  BY ONLY <1>1, <1>2, <1>10 DEF Reader, Clean, Placed
<1>12. t \in was /\ KindOf(th[t].key) = th[t].b => Danger(t, th[t]) \/ cap # G.cap \/ Located(G, th[t].key)
  BY ONLY <1>1, <1>2, <1>10 DEF Reader, Finds
<1>13. g \in 1 .. Len(gens[th[t].b]) /\ G = gens[th[t].b][g]
  BY <1>3, <1>4
<1> QED BY ONLY <1>1, <1>6, <1>7, <1>9, <1>11, <1>12, <1>13, RegistryInv, LookupInv, t \in Threads, Steady,
            UNCHANGED <<was, absent>>, StartReads

LEMMA FastReads ==
  ASSUME RegistryInv, LookupInv, NEW t \in Threads, Fast(t)
  PROVE  LookupInv'
<1>1. Steady /\ UNCHANGED <<was, absent>>
  BY DEF Fast, tables, Steady
<1> QED BY <1>1, FastCapReads, FastCapTabReads, FastTabReads, FastTabCapReads DEF Fast

\* What the published generation holds for a lookup of thread t.
LEMMA CurrentServes ==
  ASSUME RegistryInv, LookupInv, NEW t \in Threads, NEW b \in Kinds, NEW k \in Keys, th[t].pc \in LookPcs
  PROVE  /\ cur[b] \in 1 .. Len(gens[b]) /\ Current(b).cap \in Nat
         /\ k \in gone => k \notin Held(Current(b).tab, Current(b).cap)
         /\ k \in live /\ KindOf(k) = b => Deleting(t, b) \/ Located(Current(b), k)
<1>1. HoleOK
  BY DEF LookupInv
<1>2. cur[b] \in 1 .. Len(gens[b])
  BY CurrentIs DEF RegistryInv
<1>3. Current(b).cap \in Nat
  BY <1>2, GenOfIs DEF Current
<1>4. k \in gone => k \notin Held(Current(b).tab, Current(b).cap)
  BY <1>1, CurrentClean
<1>5. ASSUME k \in live, KindOf(k) = b, ~Deleting(t, b)
      PROVE  Located(Current(b), k)
  <2>1. \A u \in Threads \ {t} : th[u].pc \in {"delErase", "delSeq"} => th[u].b # b
    BY <1>5 DEF Deleting
  <2>2. th[t].pc # "delErase"
    BY DEF LookPcs
  <2>3. \A u \in Threads : th[u].pc = "delErase" => th[u].b # b
    BY <2>1, <2>2
  <2> QED BY <1>5, <2>3, CurrentLocates
<1> QED BY <1>2, <1>3, <1>4, <1>5

LEMMA FindGenReads ==
  ASSUME RegistryInv, LookupInv, NEW t \in Threads, FindGen(t)
  PROVE  LookupInv'
<1>1. th[t].pc = "findGen" /\ th[t].pc \in LookPcs /\ Steady /\ UNCHANGED <<was, absent>>
  BY DEF FindGen, tables, LookPcs, Steady
<1>2. Reader(t, th[t], met[t]) /\ th[t].key \in Keys /\ th[t].b \in Kinds
  BY <1>1, Lookups
<1>3. PICK b \in Kinds : b = th[t].b
  BY <1>2
<1>4. PICK g, G, m : g = cur[b] /\ G = gens[b][g] /\ m = (met[t] \ {"emptied"}) \cup {}
  OBVIOUS
<1>5. PICK cap : cap = G.cap
  OBVIOUS
<1>6. Start(t, g, cap, "probe") /\ met' = [met EXCEPT ![t] = m]
  BY ONLY <1>3, <1>4, <1>5, FindGen(t) DEF FindGen, Afresh
<1>7. met[t] \cap Bad \subseteq m
  BY <1>4 DEF Bad
<1>8. G = Current(b)
  BY <1>4 DEF Current
<1>9. /\ g \in 1 .. Len(gens[b]) /\ cap \in Nat
      /\ th[t].key \in gone => th[t].key \notin Held(G.tab, G.cap)
      /\ th[t].key \in live /\ KindOf(th[t].key) = b => Deleting(t, b) \/ Located(G, th[t].key)
  BY <1>1, <1>2, <1>4, <1>5, <1>8, CurrentServes
<1>10. (t \in absent => th[t].key \in gone) /\ (t \in was => th[t].key \in live)
  BY <1>2 DEF Reader, Clean, Finds
<1>11. Deleting(t, b) => Danger(t, th[t])
  BY <1>3 DEF Danger
<1>12. cap <= G.cap \/ "swapped" \in m
  BY <1>5, <1>9
<1>13. /\ g \in 1 .. Len(gens[th[t].b]) /\ G = gens[th[t].b][g]
       /\ t \in absent => th[t].key \notin Held(G.tab, G.cap)
       /\ t \in was /\ KindOf(th[t].key) = th[t].b => Danger(t, th[t]) \/ cap # G.cap \/ Located(G, th[t].key)
  BY <1>3, <1>4, <1>9, <1>10, <1>11
<1> QED BY ONLY <1>1, <1>6, <1>7, <1>9, <1>12, <1>13, RegistryInv, LookupInv, t \in Threads, StartReads

\* A probe that does not find its key passes on to the next cell.
LEMMA ProbeReads ==
  ASSUME RegistryInv, LookupInv, NEW t \in Threads, Probe(t)
  PROVE  LookupInv'
<1>1. th[t].pc = "probe" /\ th[t].pc \in LookPcs /\ ~Outside(t) /\ met' = met /\ Steady /\ UNCHANGED <<was, absent>>
  BY DEF Probe, tables, ghosts, LookPcs, Steady
<1>2. Looks(th[t]) /\ th[t].key \in Keys /\ Reader(t, th[t], met[t])
  BY <1>1, Lookups
<1>3. PICK r0, m : r0 = th[t] /\ m = met[t]
  OBVIOUS
<1>4. met' = [met EXCEPT ![t] = m]
  BY <1>1, <1>3, Lookups
<1>5. PICK g : g = GenOf(r0)
  OBVIOUS
<1>6. Bounds(r0, m) /\ (t \in absent => Clean(r0, m)) /\ (t \in was => Finds(t, r0, m)) /\ Unpassed(r0, m)
  BY <1>2, <1>3 DEF Reader
<1>7. r0.pc = "probe" /\ r0.b \in Kinds /\ r0.g \in 1 .. Len(gens[r0.b])
  BY <1>1, <1>3, <1>6 DEF Bounds, Placed
<1>8. PICK cap \in Nat \ {0} : cap = r0.cap /\ r0.i \in 0..(cap - 1) /\ (cap <= g.cap \/ "swapped" \in m)
  BY <1>5, <1>6, <1>7 DEF Bounds
<1>9. g.cap \in Nat /\ g.tab \in [0..(g.cap - 1) -> Entries]
  BY <1>5, <1>7, GenOfIs DEF GenOf
<1>10. r0.i < g.cap
  BY <1>1, <1>3, <1>5, <1>8, <1>9 DEF Outside, GenOf
<1>11. PICK k \in Keys : k = r0.key
  BY <1>2, <1>3
<1>12. PICK e : e = g.tab[r0.i]
  OBVIOUS
<1>13. PICK h \in 0..(cap - 1) : h = ProbeOf(k, cap)
  BY ProbeRange
<1>14. \A x \in 0..(cap - 1) : Dist(h, x, cap) \in 0..(cap - 1)
  BY Distances
<1>15. \A x, y \in 0..(cap - 1) : Dist(h, x, cap) = Dist(h, y, cap) => x = y
  BY Distances
<1>16. th' = IF e \notin {None, k} THEN [th EXCEPT ![t].i = (@ + 1) % th[t].cap]
             ELSE [th EXCEPT ![t].pc = "deref", ![t].ans = e]
  BY ONLY <1>3, <1>5, <1>11, <1>12, Probe(t) DEF Probe, GenOf
<1>17. ASSUME ToMeet(r0, g)
       PROVE  \E c \in 0 .. cap - 1 : /\ g.tab[c] = k /\ Reaches(g.tab, cap, c)
                                      /\ Dist(h, r0.i, cap) <= Dist(h, c, cap)
  BY ONLY <1>8, <1>11, <1>13, <1>17 DEF ToMeet
<1>18. CASE e \notin {None, k}
  <2>1. PICK q : q = (r0.i + 1) % cap
    OBVIOUS
  <2>2. PICK r : r = [th[t] EXCEPT !.i = q]
    OBVIOUS
  <2>3. th' = [th EXCEPT ![t].i = q]
    BY ONLY <1>3, <1>8, <1>16, <1>18, <2>1
  <2>4. /\ Looks(r) /\ r.pc = "probe" /\ r.key = k /\ r.b = r0.b /\ r.g = r0.g /\ r.cap = cap /\ r.i = q
        /\ r.s0 = r0.s0
    BY ONLY <1>1, <1>2, <1>3, <1>8, <1>11, <2>2 DEF Looks
  <2>5. Becomes(t, r)
    BY ONLY <2>2, <2>3, RegistryInv, t \in Threads DEF Becomes, RegistryInv, ThreadsOK
  <2>6. /\ q \in 0..(cap - 1)
        /\ q # h => Dist(h, q, cap) = Dist(h, r0.i, cap) + 1
        /\ q = h => Dist(h, r0.i, cap) = cap - 1
    <3>1. PICK j \in 0..(cap - 1) : j = r0.i
      BY <1>8
    <3>2. q = (j + 1) % cap
      BY <2>1, <3>1
    <3>3. q \in 0..(cap - 1)
      BY ONLY <3>2, cap \in Nat \ {0}, h \in 0..(cap - 1), j \in 0..(cap - 1), NextDistance
    <3>4. q # h => Dist(h, q, cap) = Dist(h, j, cap) + 1
      BY ONLY <3>2, cap \in Nat \ {0}, h \in 0..(cap - 1), j \in 0..(cap - 1), NextDistance
    <3>5. q = h => Dist(h, j, cap) = cap - 1
      BY ONLY <3>2, cap \in Nat \ {0}, h \in 0..(cap - 1), j \in 0..(cap - 1), NextDistance
    <3> QED BY ONLY <3>1, <3>3, <3>4, <3>5
  <2>7. GenOf(r) = g /\ (Danger(t, r) <=> Danger(t, r0))
    BY <1>5, <2>4 DEF GenOf, Danger
  <2>8. ASSUME ToMeet(r0, g)
        PROVE  ToMeet(r, g)
    <3>1. PICK c \in 0 .. cap - 1 : /\ g.tab[c] = k /\ Reaches(g.tab, cap, c)
                                    /\ Dist(h, r0.i, cap) <= Dist(h, c, cap)
      BY <1>17, <2>8
    <3>2. c # r0.i
      BY <1>12, <1>18, <3>1
    <3>3. Dist(h, r0.i, cap) # Dist(h, c, cap)
      BY <1>8, <1>15, <3>2
    <3>4. PICK x \in 0..(cap - 1), y \in 0..(cap - 1) : x = Dist(h, r0.i, cap) /\ y = Dist(h, c, cap)
      BY <1>8, <1>14
    <3>5. x < y
      BY ONLY <3>1, <3>3, <3>4, x \in 0..(cap - 1), y \in 0..(cap - 1), cap \in Nat \ {0}
    <3>6. q # h
      BY ONLY <2>6, <3>4, <3>5, x \in 0..(cap - 1), y \in 0..(cap - 1), cap \in Nat \ {0}
    <3>7. Dist(h, q, cap) <= Dist(h, c, cap)
      BY ONLY <2>6, <3>4, <3>5, <3>6, x \in 0..(cap - 1), y \in 0..(cap - 1), cap \in Nat \ {0}
    <3> QED BY ONLY <1>13, <2>4, <3>1, <3>7 DEF ToMeet
  <2>9. Bounds(r, m)
    BY ONLY <1>5, <1>6, <1>7, <1>8, <2>4, <2>6, <2>7 DEF Bounds, Placed
  <2>10. t \in absent => Clean(r, m)
    BY ONLY <1>5, <1>6, <1>7, <1>11, <2>4, <2>7 DEF Clean, Placed
  <2>11. t \in was => Finds(t, r, m)
    BY ONLY <1>5, <1>6, <1>7, <1>8, <1>11, <2>4, <2>7, <2>8 DEF Finds
  <2>12. ASSUME Passed(r0, g)
         PROVE  Passed(r, g)
    <3>1. ASSUME NEW c \in 0..(cap - 1), Dist(h, c, cap) < Dist(h, q, cap)
          PROVE  g.tab[c] # None
      <4>1. PICK j \in 0..(cap - 1) : j = r0.i
        BY <1>8
      <4>2. PICK x \in 0..(cap - 1), y \in 0..(cap - 1) : x = Dist(h, c, cap) /\ y = Dist(h, j, cap)
        BY <1>14
      <4>3. q # h
        <5>1. Dist(h, h, cap) = 0
          BY Distances
        <5> QED BY ONLY <3>1, <4>2, <5>1, x \in 0..(cap - 1)
      <4>4. x < y \/ x = y
        BY ONLY <2>6, <3>1, <4>1, <4>2, <4>3, x \in 0..(cap - 1), y \in 0..(cap - 1)
      <4>5. CASE x < y
        BY ONLY <1>8, <1>11, <1>13, <2>12, <4>1, <4>2, <4>5, c \in 0..(cap - 1) DEF Passed
      <4>6. CASE x = y
        <5>1. c = j
          BY <1>15, <4>2, <4>6
        <5> QED BY <1>12, <1>18, <4>1, <5>1
      <4> QED BY <4>4, <4>5, <4>6
    <3> QED BY ONLY <1>13, <2>4, <3>1 DEF Passed
  <2>13. Unpassed(r, m)
    BY ONLY <1>5, <1>6, <1>7, <1>8, <2>4, <2>7, <2>12 DEF Unpassed
  <2>14. Reader(t, r, m)
    BY <2>9, <2>10, <2>11, <2>13 DEF Reader
  <2> QED BY ONLY <1>1, <1>4, <2>4, <2>5, <2>14, RegistryInv, LookupInv, t \in Threads, ReadFrame
<1>19. CASE e \in {None, k}
  <2>1. PICK r : r = [th[t] EXCEPT !.pc = "deref", !.ans = e]
    OBVIOUS
  <2>2. "deref" \in LookPcs
    BY DEF LookPcs
  <2>3. /\ Looks(r) /\ r.pc = "deref" /\ r.key = k /\ r.b = r0.b /\ r.g = r0.g /\ r.cap = cap
        /\ r.i = r0.i /\ r.ans = e /\ r.s0 = r0.s0
    BY ONLY <1>1, <1>2, <1>3, <1>8, <1>11, <2>1, <2>2 DEF Looks
  <2>4. Becomes(t, r)
    BY ONLY <1>16, <1>19, <2>1, RegistryInv, t \in Threads DEF Becomes, RegistryInv, ThreadsOK
  <2>5. GenOf(r) = g /\ (Danger(t, r) <=> Danger(t, r0))
    BY <1>5, <2>3 DEF GenOf, Danger
  <2>6. ToMeet(r0, g) => ToMeet(r, g)
    BY ONLY <1>8, <1>11, <2>3 DEF ToMeet
  <2>7. ASSUME ToMeet(r0, g), e = None
        PROVE  FALSE
    <3>1. PICK c \in 0 .. cap - 1 : /\ g.tab[c] = k /\ Reaches(g.tab, cap, c)
                                    /\ Dist(h, r0.i, cap) <= Dist(h, c, cap)
      BY <1>17, <2>7
    <3>2. c # r0.i
      BY <1>12, <2>7, <3>1, KindIs
    <3>3. Dist(h, r0.i, cap) # Dist(h, c, cap)
      BY <1>8, <1>15, <3>2
    <3>4. PICK x \in 0..(cap - 1), y \in 0..(cap - 1) : x = Dist(h, r0.i, cap) /\ y = Dist(h, c, cap)
      BY <1>8, <1>14
    <3>5. Dist(h, r0.i, cap) < Dist(h, c, cap)
      BY ONLY <3>1, <3>3, <3>4, x \in 0..(cap - 1), y \in 0..(cap - 1), cap \in Nat \ {0}
    <3>6. g.tab[r0.i] # None
      BY ONLY <1>8, <1>13, <3>1, <3>5 DEF Reaches
    <3> QED BY <1>12, <2>7, <3>6
  <2>8. Bounds(r, m)
    BY ONLY <1>5, <1>6, <1>7, <1>8, <1>10, <1>11, <1>19, <2>3, <2>5 DEF Bounds, Placed
  <2>9. ASSUME t \in absent
        PROVE  Clean(r, m)
    <3>1. k \in gone /\ k \notin Held(g.tab, g.cap)
      BY ONLY <1>5, <1>6, <1>7, <1>11, <2>9 DEF Clean, Placed
    <3>2. e # k
      BY ONLY <1>8, <1>9, <1>10, <1>12, <3>1, KindIs, k \in Keys DEF Held
    <3> QED BY ONLY <1>19, <2>3, <2>5, <3>1, <3>2 DEF Clean, Placed
  <2>10. t \in was => Finds(t, r, m)
    BY ONLY <1>5, <1>6, <1>7, <1>8, <1>11, <2>3, <2>5, <2>6, <2>7 DEF Finds
  <2>11. Reader(t, r, m)
    BY <2>3, <2>8, <2>9, <2>10 DEF Reader, Unpassed
  <2> QED BY ONLY <1>1, <1>4, <2>3, <2>4, <2>11, RegistryInv, LookupInv, t \in Threads, ReadFrame
<1> QED BY <1>18, <1>19

LEMMA ProbeOutsideReads ==
  ASSUME RegistryInv, LookupInv, NEW t \in Threads, ProbeOutside(t)
  PROVE  LookupInv'
<1>1. th[t].pc = "probe" /\ th[t].pc \in LookPcs /\ met' = met /\ Steady /\ UNCHANGED <<was, absent>>
  BY DEF ProbeOutside, Outside, tables, ghosts, LookPcs, Steady
<1>2. Reader(t, th[t], met[t]) /\ th[t].b \in Kinds
  BY <1>1, Lookups
<1>3. PICK m : m = met[t]
  OBVIOUS
<1>4. met' = [met EXCEPT ![t] = m] /\ met[t] \subseteq m
  BY <1>1, <1>3, Lookups
<1>5. /\ th[t].g \in 1 .. Len(gens[th[t].b]) /\ th[t].cap \in Nat \ {0} /\ th[t].i \in 0 .. th[t].cap - 1
      /\ th[t].cap <= GenOf(th[t]).cap \/ "swapped" \in m
  BY <1>1, <1>2, <1>3 DEF Reader, Bounds, Placed
<1>6. GenOf(th[t]).cap \in Nat /\ th[t].i >= GenOf(th[t]).cap
  BY <1>2, <1>5, GenOfIs DEF GenOf, ProbeOutside, Outside
<1>7. "swapped" \in m
  BY ONLY <1>5, <1>6
<1>8. PICK s : Answer(t, s)
  BY DEF ProbeOutside
<1>9. /\ t \in absent /\ m \cap {"hot", "swapped"} = {} => s = None
      /\ t \in was /\ m \cap Bad = {} => s = th[t].key
  BY <1>7 DEF Bad
<1> QED BY ONLY <1>1, <1>4, <1>8, <1>9, RegistryInv, LookupInv, t \in Threads, AnswerReads

\* The cell is loaded again, or not.
LEMMA DerefReads ==
  ASSUME RegistryInv, LookupInv, NEW t \in Threads, Deref(t)
  PROVE  LookupInv'
<1>1. th[t].pc = "deref" /\ th[t].pc \in LookPcs /\ Steady /\ UNCHANGED <<was, absent>>
  BY DEF Deref, tables, LookPcs, Steady
<1>2. th[t].key \in Keys /\ Reader(t, th[t], met[t])
  BY <1>1, Lookups
<1>3. PICK r : r = th[t]
  OBVIOUS
<1>4. PICK g : g = GenOf(r)
  OBVIOUS
<1>5. PICK k \in Keys : k = r.key /\ k # None
  BY <1>2, <1>3, KindIs
<1>6. Bounds(r, met[t]) /\ (t \in absent => Clean(r, met[t])) /\ (t \in was => Finds(t, r, met[t]))
  BY <1>2, <1>3 DEF Reader
<1>7. PICK s \in {r.ans, g.tab[r.i]} :
         /\ IF s = None THEN Go(t, "miss")
            ELSE IF r.b = "slab" THEN AnswerSlab(t, s)
            ELSE Answer(t, IF s = k THEN s ELSE None)
         /\ Meet(IF s \notin {None, k} /\ r.b = KindOf(k) THEN {t} ELSE {}, "reloaded")
  BY <1>3, <1>4, <1>5 DEF Deref, GenOf
<1>8. PICK m : m = met[t] \cup (IF s \notin {None, k} /\ r.b = KindOf(k) THEN {"reloaded"} ELSE {})
  OBVIOUS
<1>9. met' = [met EXCEPT ![t] = m] /\ met[t] \subseteq m
  <2>1. met = [u \in Threads |-> met[u]]
    BY <1>1, Lookups
  <2> QED BY ONLY <1>7, <1>8, <2>1, t \in Threads DEF Meet
<1>10. /\ r.pc = "deref" /\ r.b \in Kinds /\ r.g \in 1 .. Len(gens[r.b]) /\ r.cap \in Nat \ {0}
       /\ r.i \in 0 .. r.cap - 1 /\ r.i < g.cap
  BY ONLY <1>1, <1>3, <1>4, <1>6 DEF Bounds, Placed
<1>11. g.cap \in Nat
  BY <1>4, <1>10, GenOfIs DEF GenOf
<1>12. t \in absent => s # k
  <2>1. ASSUME t \in absent
        PROVE  k \notin Held(g.tab, g.cap) /\ r.ans = None
    BY ONLY <1>4, <1>5, <1>6, <1>10, <2>1 DEF Clean, Placed
  <2>2. r.i \in 0 .. g.cap - 1
    BY ONLY <1>10, <1>11
  <2> QED BY ONLY <1>5, <1>7, <2>1, <2>2 DEF Held
<1>13. t \in was /\ KindOf(k) = "slab" /\ r.b = "big" => m \cap Bad # {}
  BY ONLY <1>5, <1>6, <1>8 DEF Finds
<1>14. KindOf(k) = r.b /\ s \notin {None, k} => m \cap Bad # {}
  BY ONLY <1>8 DEF Bad
<1>15. ASSUME t \in was, KindOf(k) = r.b, s = None
       PROVE  Danger(t, r) \/ r.cap # g.cap
  <2>1. /\ Danger(t, r) \/ r.cap # g.cap \/ ToMeet(r, g)
        /\ r.ans = None => Danger(t, r) \/ r.cap # g.cap
    BY ONLY <1>4, <1>5, <1>6, <1>10, <1>15 DEF Finds
  <2>2. ASSUME ToMeet(r, g), g.tab[r.i] = None
        PROVE  FALSE
    <3>1. PICK cap \in Nat \ {0} : cap = r.cap
      BY <1>10
    <3>2. PICK h \in 0..(cap - 1) : h = ProbeOf(k, cap)
      BY ProbeRange
    <3>3. PICK c \in 0 .. cap - 1 : /\ g.tab[c] = k /\ Reaches(g.tab, cap, c)
                                    /\ Dist(h, r.i, cap) <= Dist(h, c, cap)
      BY ONLY <1>5, <2>2, <3>1, <3>2 DEF ToMeet
    <3>4. c # r.i /\ r.i \in 0..(cap - 1)
      BY <1>5, <1>10, <2>2, <3>1, <3>3
    <3>5. /\ \A x \in 0..(cap - 1) : Dist(h, x, cap) \in 0..(cap - 1)
          /\ \A x, y \in 0..(cap - 1) : Dist(h, x, cap) = Dist(h, y, cap) => x = y
      BY Distances
    <3>6. PICK x \in 0..(cap - 1), y \in 0..(cap - 1) : x = Dist(h, r.i, cap) /\ y = Dist(h, c, cap) /\ x # y
      BY <3>4, <3>5
    <3>7. Dist(h, r.i, cap) < Dist(h, c, cap)
      BY ONLY <3>3, <3>6, x \in 0..(cap - 1), y \in 0..(cap - 1), cap \in Nat \ {0}
    <3>8. g.tab[r.i] # None
      BY ONLY <3>2, <3>3, <3>4, <3>7 DEF Reaches
    <3> QED BY <2>2, <3>8
  <2> QED BY <1>7, <1>15, <2>1, <2>2
<1>16. CASE s = None
  <2>1. PICK pc : pc = "miss"
    OBVIOUS
  <2>2. Go(t, pc)
    BY <1>7, <1>16, <2>1
  <2>3. /\ pc \in {"fastSeq", "bigGen", "findLock", "miss"}
        /\ pc = "fastSeq" => th[t].b = "slab"
        /\ pc = "bigGen" /\ t \in was /\ KindOf(th[t].key) = "slab" => m \cap Bad # {}
        /\ pc = "miss" => th[t].pc = "deref"
        /\ pc = "miss" /\ t \in was /\ KindOf(th[t].key) = th[t].b =>
              Danger(t, th[t]) \/ th[t].cap # GenOf(th[t]).cap
    BY ONLY <1>1, <1>3, <1>4, <1>5, <1>15, <1>16, <2>1
  <2> QED BY ONLY <1>1, <1>9, <2>2, <2>3, RegistryInv, LookupInv, t \in Threads, GoReads
<1>17. CASE s # None /\ r.b = "slab"
  <2>1. AnswerSlab(t, s)
    BY <1>7, <1>17
  <2>2. /\ t \in absent /\ s = th[t].key => m \cap {"hot", "swapped"} # {}
        /\ t \in was /\ KindOf(th[t].key) = "slab" /\ s # th[t].key => m \cap Bad # {}
    BY ONLY <1>3, <1>5, <1>12, <1>14, <1>17
  <2> QED BY ONLY <1>1, <1>9, <2>1, <2>2, RegistryInv, LookupInv, t \in Threads, AnswerSlabReads
<1>18. CASE s # None /\ r.b # "slab"
  <2>1. PICK a : a = IF s = k THEN s ELSE None
    OBVIOUS
  <2>2. Answer(t, a)
    BY <1>7, <1>18, <2>1
  <2>3. t \in absent /\ m \cap {"hot", "swapped"} = {} => a = None
    BY ONLY <1>12, <2>1
  <2>4. t \in was /\ m \cap Bad = {} => a = th[t].key
    <3>1. r.b = "big" /\ KindOf(k) \in {"slab", "big"}
      BY <1>10, <1>18, KindIs DEF Kinds
    <3> QED BY ONLY <1>3, <1>5, <1>13, <1>14, <1>18, <2>1, <3>1
  <2> QED BY ONLY <1>1, <1>9, <2>2, <2>3, <2>4, RegistryInv, LookupInv, t \in Threads, AnswerReads
<1> QED BY <1>16, <1>17, <1>18

\* A miss that counts, with the number unchanged.
LEMMA MissCountsReads ==
  ASSUME RegistryInv, LookupInv, NEW t \in Threads, MissCounts(t)
  PROVE  LookupInv'
<1>1. th[t].pc = "miss" /\ th[t].pc \in LookPcs /\ seq = th[t].s0 /\ Steady /\ UNCHANGED <<was, absent>>
  BY DEF MissCounts, Counts, tables, LookPcs, Steady
<1>2. th[t].key \in Keys /\ Reader(t, th[t], met[t]) /\ th[t].b \in Kinds /\ seq \in Nat
  BY <1>1, Lookups
<1>3. PICK r, k, b : r = th[t] /\ k = r.key /\ b = r.b
  OBVIOUS
<1>4. PICK x, y : /\ x = (IF Tears(t) THEN {"torn"} ELSE {})
                 /\ y = (IF Deleting(t, b) THEN {"unsettled"} ELSE {})
  OBVIOUS
<1>5. PICK m : m = met[t] \cup (IF b # KindOf(k) THEN {} ELSE x \cup y)
  OBVIOUS
<1>6. met' = [met EXCEPT ![t] = m] /\ met[t] \subseteq m
  <2>1. met' = [met EXCEPT ![t] = m]
    BY ONLY <1>3, <1>4, <1>5, MissCounts(t) DEF MissCounts
  <2>2. met[t] \subseteq m
    BY ONLY <1>5
  <2> QED BY <2>1, <2>2
<1>7. t \in was => m \cap Bad # {} \/ (KindOf(k) = "big" /\ b = "slab")
  <2>1. ASSUME t \in was
        PROVE  m \cap Bad # {} \/ (KindOf(k) = "big" /\ b = "slab")
    <3>1. Finds(t, r, met[t])
      BY <1>2, <1>3, <2>1 DEF Reader
    <3>2. CASE KindOf(k) = b
      <4>1. Danger(t, r) \/ r.cap # GenOf(r).cap
        BY ONLY <1>1, <1>3, <3>1, <3>2 DEF Finds
      <4>2. ~(r.s0 < seq)
        BY <1>1, <1>2, <1>3
      <4>3. Deleting(t, b) \/ Tears(t)
        BY ONLY <1>3, <4>1, <4>2 DEF Danger, Tears, GenOf
      <4>4. "torn" \in x \/ "unsettled" \in y
        BY <1>4, <4>3
      <4>5. x \cup y \subseteq m
        BY ONLY <1>5, <3>2
      <4>6. "torn" \in m \/ "unsettled" \in m
        BY ONLY <4>4, <4>5
      <4>7. m \cap Bad # {}
        BY ONLY <4>6 DEF Bad
      <4> QED BY ONLY <4>7
    <3>3. CASE KindOf(k) = "slab" /\ b = "big"
      <4>1. met[t] \cap Bad # {}
        BY ONLY <1>3, <3>1, <3>3 DEF Finds
      <4>2. m \cap Bad # {}
        BY ONLY <1>6, <4>1
      <4> QED BY ONLY <4>2
    <3>4. KindOf(k) \in {"slab", "big"} /\ b \in {"slab", "big"}
      BY <1>2, <1>3, KindIs DEF Kinds
    <3> QED BY ONLY <3>2, <3>3, <3>4
  <2> QED BY <2>1
<1>8. CASE b = "slab"
  <2>1. PICK pc : pc = "bigGen"
    OBVIOUS
  <2>2. Go(t, pc)
    BY <1>3, <1>8, <2>1 DEF MissCounts
  <2>3. /\ pc \in {"fastSeq", "bigGen", "findLock", "miss"}
        /\ pc = "fastSeq" => th[t].b = "slab"
        /\ pc = "bigGen" /\ t \in was /\ KindOf(th[t].key) = "slab" => m \cap Bad # {}
        /\ pc = "miss" => th[t].pc = "deref"
        /\ pc = "miss" /\ t \in was /\ KindOf(th[t].key) = th[t].b =>
              Danger(t, th[t]) \/ th[t].cap # GenOf(th[t]).cap
    BY ONLY <1>3, <1>7, <2>1
  <2> QED BY ONLY <1>1, <1>6, <2>2, <2>3, RegistryInv, LookupInv, t \in Threads, GoReads
<1>9. CASE b # "slab"
  <2>1. PICK s : s = None
    OBVIOUS
  <2>2. Answer(t, s)
    BY <1>3, <1>9, <2>1 DEF MissCounts
  <2>3. /\ t \in absent /\ m \cap {"hot", "swapped"} = {} => s = None
        /\ t \in was /\ m \cap Bad = {} => s = th[t].key
    BY ONLY <1>7, <1>9, <2>1
  <2> QED BY ONLY <1>1, <1>6, <2>2, <2>3, RegistryInv, LookupInv, t \in Threads, AnswerReads
<1> QED BY <1>8, <1>9

LEMMA MissRetriesReads ==
  ASSUME RegistryInv, LookupInv, NEW t \in Threads, MissRetries(t)
  PROVE  LookupInv'
<1>1. th[t].pc = "miss" /\ th[t].pc \in LookPcs /\ met' = met /\ Steady /\ UNCHANGED <<was, absent>>
  BY DEF MissRetries, tables, ghosts, LookPcs, Steady
<1>2. Looks(th[t]) /\ Reader(t, th[t], met[t]) /\ seq \in Nat
  BY <1>1, Lookups
<1>3. PICK m : m = met[t]
  OBVIOUS
<1>4. met' = [met EXCEPT ![t] = m] /\ met[t] \subseteq m
  BY <1>1, <1>3, Lookups
<1>5. CASE Go(t, "findLock")
  <2>1. PICK pc : pc = "findLock"
    OBVIOUS
  <2>2. /\ pc \in {"fastSeq", "bigGen", "findLock", "miss"}
        /\ pc = "fastSeq" => th[t].b = "slab"
        /\ pc = "bigGen" /\ t \in was /\ KindOf(th[t].key) = "slab" => m \cap Bad # {}
        /\ pc = "miss" => th[t].pc = "deref"
        /\ pc = "miss" /\ t \in was /\ KindOf(th[t].key) = th[t].b =>
              Danger(t, th[t]) \/ th[t].cap # GenOf(th[t]).cap
    BY ONLY <2>1
  <2>3. Go(t, pc)
    BY <1>5, <2>1
  <2> QED BY ONLY <1>1, <1>4, <2>2, <2>3, RegistryInv, LookupInv, t \in Threads, GoReads
<1>6. CASE th' = [th EXCEPT ![t].s0 = seq, ![t].pc = "findGen", ![t].tries = @ + 1]
  <2>1. PICK r : r = [th[t] EXCEPT !.s0 = seq, !.pc = "findGen", !.tries = @ + 1]
    OBVIOUS
  <2>2. "findGen" \in LookPcs
    BY DEF LookPcs
  <2>3. Looks(r) /\ r.pc = "findGen" /\ r.key = th[t].key /\ r.b = th[t].b /\ r.s0 = seq
    BY ONLY <1>2, <2>1, <2>2 DEF Looks
  <2>4. Becomes(t, r)
    BY ONLY <1>6, <2>1, RegistryInv, t \in Threads DEF Becomes, RegistryInv, ThreadsOK
  <2>5. Bounds(r, m)
    BY ONLY <1>2, <2>3 DEF Reader, Bounds, Placed
  <2>6. (t \in absent => Clean(r, m)) /\ (t \in was => Finds(t, r, m)) /\ Unpassed(r, m)
    BY ONLY <1>2, <1>3, <2>3 DEF Reader, Clean, Finds, Unpassed, Placed
  <2>7. Reader(t, r, m)
    BY <2>5, <2>6 DEF Reader
  <2> QED BY ONLY <1>1, <1>4, <2>3, <2>4, <2>7, RegistryInv, LookupInv, t \in Threads, ReadFrame
<1> QED BY <1>5, <1>6 DEF MissRetries

LEMMA FindLockReads ==
  ASSUME RegistryInv, LookupInv, NEW t \in Threads, FindLock(t)
  PROVE  LookupInv'
<1>1. th[t].pc = "findLock" /\ th[t].pc \in LookPcs /\ lock = None /\ met' = met /\ Steady /\ UNCHANGED <<was, absent>>
  BY DEF FindLock, tables, ghosts, LookPcs, Steady
<1>2. th[t].key \in Keys /\ Reader(t, th[t], met[t]) /\ th[t].b \in Kinds
  BY <1>1, Lookups
<1>3. PICK m : m = met[t]
  OBVIOUS
<1>4. met' = [met EXCEPT ![t] = m] /\ met[t] \subseteq m
  BY <1>1, <1>3, Lookups
<1>5. PICK b \in Kinds, k \in Keys : b = th[t].b /\ k = th[t].key
  BY <1>2
<1>6. PICK g : g = Current(b)
  OBVIOUS
<1>7. PICK s : s = IF g.cap = 0 THEN None ELSE g.tab[SlotOf(g.tab, g.cap, k)]
  OBVIOUS
<1>8. IF b = "slab" THEN AnswerSlab(t, s) ELSE Answer(t, s)
  BY ONLY <1>5, <1>6, <1>7, FindLock(t) DEF FindLock, Current
<1>9. Holds(g, Mine(b), n[b])
  BY <1>1, <1>6, NoHolder
<1>10. k # None
  BY KindIs
<1>11. (k \in Mine(b) => s = k) /\ (k \notin Mine(b) => s = None)
  <2>1. CASE g.cap = 0
    <3>1. Mine(b) = {}
      BY ONLY <1>9, <2>1 DEF Holds, Table
    <3> QED BY <1>7, <2>1, <3>1
  <2>2. CASE g.cap # 0
    <3>1. Table(g.tab, g.cap, Mine(b), n[b])
      BY <1>9, <2>2, HoldsIs
    <3>2. CASE k \in Mine(b)
      BY <1>7, <2>2, <3>1, <3>2, SlotOfPresent
    <3>3. CASE k \notin Mine(b)
      BY <1>7, <2>2, <3>1, <3>3, SlotOfAbsent
    <3> QED BY <3>2, <3>3
  <2> QED BY <2>1, <2>2
<1>12. t \in absent => s = None
  <2>1. t \in absent => k \in gone
    BY <1>2, <1>5 DEF Reader, Clean
  <2> QED BY <1>11, <2>1 DEF Mine, RegistryInv, KeysOK
<1>13. t \in was => /\ KindOf(k) = b => s = k
                    /\ KindOf(k) = "slab" /\ b = "big" => m \cap Bad # {}
  <2>1. t \in was => k \in live /\ (KindOf(k) = "slab" /\ b = "big" => m \cap Bad # {})
    BY <1>2, <1>3, <1>5 DEF Reader, Finds
  <2> QED BY <1>11, <2>1 DEF Mine
<1>14. CASE b = "slab"
  <2>1. AnswerSlab(t, s)
    BY <1>8, <1>14
  <2>2. /\ t \in absent /\ s = th[t].key => m \cap {"hot", "swapped"} # {}
        /\ t \in was /\ KindOf(th[t].key) = "slab" /\ s # th[t].key => m \cap Bad # {}
    BY ONLY <1>5, <1>10, <1>12, <1>13, <1>14
  <2> QED BY ONLY <1>1, <1>4, <2>1, <2>2, RegistryInv, LookupInv, t \in Threads, AnswerSlabReads
<1>15. CASE b # "slab"
  <2>1. Answer(t, s)
    BY <1>8, <1>15
  <2>2. KindOf(k) \in {"slab", "big"} /\ b = "big"
    BY <1>15, KindIs DEF Kinds
  <2>3. /\ t \in absent /\ m \cap {"hot", "swapped"} = {} => s = None
        /\ t \in was /\ m \cap Bad = {} => s = th[t].key
    BY ONLY <1>5, <1>12, <1>13, <2>2
  <2> QED BY ONLY <1>1, <1>4, <2>1, <2>3, RegistryInv, LookupInv, t \in Threads, AnswerReads
<1> QED BY <1>14, <1>15

\* The table of oversized blocks, its generation before the number.
LEMMA BigGenReads ==
  ASSUME RegistryInv, LookupInv, NEW t \in Threads, BigGen(t)
  PROVE  LookupInv'
<1>1. th[t].pc = "bigGen" /\ th[t].pc \in LookPcs /\ met' = met /\ Steady /\ UNCHANGED <<was, absent>>
  BY DEF BigGen, tables, ghosts, LookPcs, Steady
<1>2. /\ Looks(th[t]) /\ th[t].key \in Keys /\ Reader(t, th[t], met[t])
      /\ th[t].s0 \in Nat /\ th[t].s0 <= seq
  BY <1>1, Lookups
<1>3. PICK m : m = met[t]
  OBVIOUS
<1>4. met' = [met EXCEPT ![t] = m] /\ met[t] \subseteq m
  BY <1>1, <1>3, Lookups
<1>5. PICK k \in Keys : k = th[t].key
  BY <1>2
<1>6. PICK G, g : G = Current("big") /\ g = cur["big"]
  OBVIOUS
<1>7. "big" \in Kinds
  BY DEF Kinds
<1>8. /\ g \in 1 .. Len(gens["big"]) /\ G.cap \in Nat /\ G = gens["big"][g]
      /\ k \in gone => k \notin Held(G.tab, G.cap)
      /\ k \in live /\ KindOf(k) = "big" => Deleting(t, "big") \/ Located(G, k)
  BY <1>1, <1>6, <1>7, CurrentServes DEF Current
<1>9. /\ t \in absent => k \in gone
      /\ t \in was => k \in live /\ (KindOf(k) = "slab" => m \cap Bad # {})
  BY <1>1, <1>2, <1>3, <1>5 DEF Reader, Clean, Finds
<1>10. KindOf(k) \in {"slab", "big"}
  BY KindIs DEF Kinds
<1>11. CASE G.cap = 0
  <2>1. PICK s : s = None
    OBVIOUS
  <2>2. Answer(t, s)
    BY <1>6, <1>11, <2>1 DEF BigGen, Current
  <2>3. t \in was => m \cap Bad # {}
    <3>1. ~Located(G, k)
      BY <1>11 DEF Located
    <3>2. ASSUME k \in live, KindOf(k) = "big"
          PROVE  Located(G, k)
      <4>1. ASSUME NEW u \in Threads, th[u].pc = "delErase", th[u].b = "big"
            PROVE  FALSE
        <5>1. th[u].i \in 0..(G.cap - 1)
          BY <1>6, <4>1 DEF RegistryInv, TablesOK, Gap
        <5> QED BY <1>11, <5>1
      <4> QED BY <1>6, <3>2, <4>1, CurrentLocates
    <3> QED BY <1>9, <1>10, <3>1, <3>2
  <2>4. /\ t \in absent /\ m \cap {"hot", "swapped"} = {} => s = None
        /\ t \in was /\ m \cap Bad = {} => s = th[t].key
    BY ONLY <2>1, <2>3
  <2> QED BY ONLY <1>1, <1>4, <2>2, <2>4, RegistryInv, LookupInv, t \in Threads, AnswerReads
<1>12. CASE G.cap # 0
  <2>1. PICK cap \in Nat \ {0} : cap = G.cap
    BY <1>8, <1>12
  <2>2. PICK i \in 0..(cap - 1) : i = ProbeOf(k, cap)
    BY ProbeRange
  <2>3. PICK r : r = [th[t] EXCEPT !.b = "big", !.g = g, !.cap = cap, !.tries = 0, !.pc = "bigSeq", !.i = i]
    OBVIOUS
  <2>4. "bigSeq" \in LookPcs
    BY DEF LookPcs
  <2>5. /\ Looks(r) /\ r.pc = "bigSeq" /\ r.key = k /\ r.b = "big" /\ r.g = g /\ r.cap = cap /\ r.i = i
        /\ r.s0 = th[t].s0
    BY ONLY <1>2, <1>5, <2>3, <2>4 DEF Looks
  <2>6. th' = [th EXCEPT ![t].b = "big", ![t].g = g, ![t].cap = cap, ![t].tries = 0,
                         ![t].pc = "bigSeq", ![t].i = i]
    BY ONLY <1>5, <1>6, <1>12, <2>1, <2>2, BigGen(t) DEF BigGen, Current
  <2>7. Becomes(t, r)
    BY ONLY <2>3, <2>6, RegistryInv, t \in Threads DEF Becomes, RegistryInv, ThreadsOK
  <2>8. GenOf(r) = G
    BY <1>8, <2>5 DEF GenOf
  <2>9. Bounds(r, m)
    BY ONLY <1>2, <1>7, <1>8, <2>1, <2>2, <2>5, <2>8, cap \in Nat \ {0}, i \in 0..(cap - 1) DEF Bounds, Placed
  <2>10. t \in absent => Clean(r, m)
    BY ONLY <1>8, <1>9, <2>5, <2>8 DEF Clean, Placed
  <2>11. t \in was => Finds(t, r, m)
    BY ONLY <1>6, <1>9, <2>5 DEF Finds
  <2>12. Reader(t, r, m)
    BY <2>5, <2>9, <2>10, <2>11 DEF Reader, Unpassed
  <2> QED BY ONLY <1>1, <1>4, <2>5, <2>7, <2>12, RegistryInv, LookupInv, t \in Threads, ReadFrame
<1> QED BY <1>11, <1>12

LEMMA BigSeqReads ==
  ASSUME RegistryInv, LookupInv, NEW t \in Threads, BigSeq(t)
  PROVE  LookupInv'
<1>1. th[t].pc = "bigSeq" /\ th[t].pc \in LookPcs /\ Steady /\ UNCHANGED <<was, absent>>
  BY DEF BigSeq, tables, LookPcs, Steady
<1>2. Looks(th[t]) /\ th[t].key \in Keys /\ Reader(t, th[t], met[t]) /\ seq \in Nat
  BY <1>1, Lookups
<1>3. PICK m : m = (met[t] \ {"emptied"}) \cup {}
  OBVIOUS
<1>4. met' = [met EXCEPT ![t] = m] /\ met[t] \cap Bad \subseteq m
  BY <1>3 DEF BigSeq, Afresh, Bad
<1>5. PICK r : r = [th[t] EXCEPT !.s0 = seq, !.pc = "probe"]
  OBVIOUS
<1>6. "probe" \in LookPcs
  BY DEF LookPcs
<1>7. /\ Looks(r) /\ r.pc = "probe" /\ r.key = th[t].key /\ r.b = th[t].b
      /\ r.g = th[t].g /\ r.cap = th[t].cap /\ r.i = th[t].i /\ r.s0 = seq
  BY ONLY <1>2, <1>5, <1>6 DEF Looks
<1>8. Becomes(t, r)
  BY ONLY <1>5, BigSeq(t), RegistryInv, t \in Threads DEF BigSeq, Becomes, RegistryInv, ThreadsOK
<1>9. GenOf(r) = GenOf(th[t])
  BY <1>7 DEF GenOf
<1>10. /\ r.key \in Keys /\ r.b \in Kinds /\ r.b = "big" /\ r.s0 \in Nat /\ r.s0 <= seq
       /\ r.g \in 1 .. Len(gens[r.b]) /\ r.cap \in Nat \ {0} /\ r.i = ProbeOf(r.key, r.cap)
       /\ r.cap = GenOf(r).cap
  BY ONLY <1>1, <1>2, <1>7, <1>9 DEF Reader, Bounds, Placed
<1>11. r.cap <= GenOf(r).cap \/ "swapped" \in m
  BY ONLY <1>10
<1>12. t \in absent => r.key \in gone /\ r.key \notin Held(GenOf(r).tab, GenOf(r).cap)
  BY ONLY <1>1, <1>2, <1>7, <1>9 DEF Reader, Clean, Placed
<1>13. ASSUME t \in was
       PROVE  /\ r.key \in live
              /\ KindOf(r.key) = "slab" /\ r.b = "big" => m \cap Bad # {}
              /\ KindOf(r.key) = r.b => Danger(t, r) \/ r.cap # GenOf(r).cap \/ Located(GenOf(r), r.key)
  <2>1. Finds(t, th[t], met[t])
    BY <1>2, <1>13 DEF Reader
  <2>2. /\ r.key \in live
        /\ KindOf(r.key) = "slab" /\ r.b = "big" => met[t] \cap Bad # {}
        /\ KindOf(r.key) = r.b => r.g = cur[r.b] \/ Located(GenOf(r), r.key)
    BY ONLY <1>1, <1>7, <1>9, <2>1 DEF Finds
  <2>3. KindOf(r.key) = r.b => Deleting(t, r.b) \/ Located(Current(r.b), r.key)
    BY <1>1, <1>10, <2>2, CurrentServes
  <2>4. r.g = cur[r.b] => GenOf(r) = Current(r.b)
    BY DEF GenOf, Current
  <2>5. Deleting(t, r.b) => Danger(t, r)
    BY DEF Danger
  <2> QED BY ONLY <1>4, <2>2, <2>3, <2>4, <2>5
<1>14. Reader(t, r, m)
  BY ONLY <1>7, <1>10, <1>11, <1>12, <1>13, ProbingBegins
<1> QED BY ONLY <1>1, <1>4, <1>7, <1>8, <1>14, RegistryInv, LookupInv, t \in Threads, ReadFrame

LEMMA ReturnReads ==
  ASSUME RegistryInv, LookupInv, NEW t \in Threads, Return(t)
  PROVE  LookupInv'
<1>1. /\ th[t].pc = "done" /\ th[t].pc \in LookPcs /\ was' = was \ {t} /\ absent' = absent \ {t} /\ Steady
  BY DEF Return, tables, LookPcs, Steady
<1>2. PICK r, m : r = Idle /\ m = {}
  OBVIOUS
<1>3. Becomes(t, r) /\ met' = [met EXCEPT ![t] = m]
  BY <1>2 DEF Return, Becomes
<1>4. r.pc = "idle" /\ r.pc \notin LookPcs
  BY <1>2 DEF Idle, LookPcs
<1>5. /\ {th[t].pc, r.pc} \subseteq LookPcs \cup {"idle"}
      /\ was' \subseteq was \cup {t} /\ absent' \subseteq absent \cup {t} /\ t \notin was' \cup absent'
  BY <1>1, <1>4
<1> QED BY ONLY <1>1, <1>3, <1>4, <1>5, RegistryInv, LookupInv, t \in Threads, LookFrame

LEMMA LookupReads ==
  ASSUME RegistryInv, LookupInv, NEW t \in Threads, NEW k \in Keys, Lookup(t, k)
  PROVE  LookupInv'
<1>1. /\ th[t] = Idle /\ Steady
      /\ was' = (IF k \in live THEN was \cup {t} ELSE was)
      /\ absent' = (IF k \in gone THEN absent \cup {t} ELSE absent)
  BY DEF Lookup, tables, Steady
<1>2. PICK pc : pc = IF ownHot[t] = k /\ k \in Normal THEN "done" ELSE "map"
  OBVIOUS
<1>3. PICK a, m : /\ a = (IF k \in Normal THEN ownHot[t] ELSE None)
                  /\ m = (IF ownHot[t] = k /\ k \in gone THEN {"hot"} ELSE {})
  OBVIOUS
<1>4. PICK r : r = [pc |-> pc, key |-> k, b |-> "slab", ans |-> a,
                    s0 |-> 0, g |-> 1, cap |-> 0, i |-> 0, tries |-> 0]
  OBVIOUS
<1>5. Becomes(t, r) /\ met' = [met EXCEPT ![t] = m]
  BY ONLY <1>2, <1>3, <1>4, Lookup(t, k) DEF Lookup, Becomes
<1>6. th[t].pc = "idle" /\ ~Looking(t) /\ pc \in LookPcs /\ pc \in {"map", "done"}
  BY <1>1, <1>2 DEF Idle, Looking, LookPcs
<1>7. r.pc = pc /\ r.key = k /\ r.b = "slab" /\ r.ans = a /\ r.s0 = 0
  BY <1>4
<1>8. t \notin was /\ t \notin absent /\ seq' \in Nat /\ "slab" \in Kinds /\ k # None
  BY <1>1, <1>6, KindIs DEF LookupInv, ReadersOK, Steady, Kinds
<1>9. Bounds(r, m)'
  BY ONLY <1>6, <1>7, <1>8 DEF Bounds, Placed
<1>10. t \in absent' => Clean(r, m)'
  <2>1. t \in absent' => k \in gone /\ k \in gone'
    BY ONLY <1>1, <1>8 DEF Steady
  <2>2. k \in gone /\ pc = "done" => "hot" \in m
    BY ONLY <1>2, <1>3
  <2> QED BY ONLY <1>6, <1>7, <2>1, <2>2 DEF Clean, Placed
<1>11. t \in was' => Finds(t, r, m)'
  <2>1. t \in was' => k \in live'
    BY ONLY <1>1, <1>8 DEF Steady
  <2>2. pc = "done" => a = k
    BY ONLY <1>2, <1>3
  <2> QED BY ONLY <1>6, <1>7, <2>1, <2>2 DEF Finds
<1>12. Unpassed(r, m)'
  BY ONLY <1>6, <1>7 DEF Unpassed
<1>13. Reader(t, r, m)'
  BY <1>9, <1>10, <1>11, <1>12 DEF Reader
<1>14. /\ {th[t].pc, r.pc} \subseteq LookPcs \cup {"idle"} /\ r.pc \in LookPcs
       /\ was' \subseteq was \cup {t} /\ absent' \subseteq absent \cup {t}
  BY <1>1, <1>6, <1>7
<1> QED BY ONLY <1>1, <1>5, <1>13, <1>14, RegistryInv, LookupInv, t \in Threads, LookFrame

-----------------------------------------------------------------------------
(* The steps of writers.                                                    *)

\* What a writer does to the lookups under way, if it fills empty cells only.
LEMMA WriteFrame ==
  ASSUME RegistryInv, LookupInv, NEW t \in Threads, NEW r, Becomes(t, r),
         {th[t].pc, r.pc} \subseteq {"idle"} \cup AddPcs \cup DelPcs,
         met' = met, was' \subseteq was, absent' \subseteq absent,
         \A u \in absent' : th[u].key \in gone', \A u \in was' : th[u].key \in live',
         seq' \in Nat, seq <= seq', mir'.cap \in Nat, mir.cap <= mir'.cap,
         th[t].pc \in DelPcs => seq < seq',
         \A b \in Kinds : cur'[b] = cur[b] \/ \A k \in live' : KindOf(k) = b => Located(gens'[b][cur[b]], k),
         \A b \in Kinds : \A y \in 1 .. Len(gens[b]) :
            y \in 1 .. Len(gens'[b]) /\ Filled(gens[b][y], gens'[b][y])
  PROVE  ReadersOK'
<1>1. th'[t] = r /\ (\A u \in Threads : u # t => th'[u] = th[u])
  BY BecomesIs DEF RegistryInv
<1>2. ~Looking(t) /\ ~Looking(t)'
  BY ONLY <1>1, {th[t].pc, r.pc} \subseteq {"idle"} \cup AddPcs \cup DelPcs DEF Looking, Writing, AddPcs, DelPcs
<1>3. \A u \in Threads : Looking(u)' <=> Looking(u)
  BY ONLY <1>1, <1>2 DEF Looking
<1>4. /\ met = [u \in Threads |-> met[u]] /\ was \cup absent \subseteq {u \in Threads : Looking(u)}
      /\ \A u \in Threads : Looking(u) => Reader(u, th[u], met[u])
  BY DEF LookupInv, ReadersOK
<1>5. seq \in Nat /\ mir.cap \in Nat
  BY DEF LookupInv, MirrorOK
<1>6. was' \cup absent' \subseteq {u \in Threads : Looking(u)'}
  BY ONLY <1>3, <1>4, was' \subseteq was, absent' \subseteq absent
<1>7. ASSUME NEW u \in Threads, Looking(u)', NEW q, NEW m, q = th'[u], m = met'[u]
      PROVE  Reader(u, q, m)'
  <2>1. u # t /\ q = th[u] /\ Looking(u)
    BY ONLY <1>1, <1>2, <1>3, <1>7
  <2>2. Reader(u, q, m) /\ q.key \in Keys
    BY <1>4, <1>7, <2>1, LookingIs DEF RegistryInv
  <2>3. q.b \in Kinds /\ q.s0 \in Nat /\ q.s0 <= seq
    BY <2>2 DEF Reader, Bounds
  <2>4. (u \in absent' => u \in absent /\ q.key \in gone') /\ (u \in was' => u \in was /\ q.key \in live')
    BY ONLY <2>1, was' \subseteq was, absent' \subseteq absent,
            \A x \in absent' : th[x].key \in gone', \A x \in was' : th[x].key \in live'
  <2>5. Danger(u, q) => Danger(u, q)'
    <3>1. CASE q.s0 < seq
      <4>1. q.s0 < seq'
        BY ONLY <1>5, <2>3, <3>1, seq' \in Nat, seq <= seq'
      <4> QED BY <4>1 DEF Danger
    <3>2. CASE Deleting(u, q.b)
      <4>1. PICK v \in Threads \ {u} : th[v].pc \in {"delErase", "delSeq"} /\ th[v].b = q.b
        BY <3>2 DEF Deleting
      <4>2. CASE v = t
        <5>1. seq < seq'
          BY <4>1, <4>2 DEF DelPcs
        <5>2. q.s0 < seq'
          BY ONLY <1>5, <2>3, <5>1, seq' \in Nat
        <5> QED BY <5>2 DEF Danger
      <4>3. CASE v # t
        <5>1. th'[v] = th[v]
          BY <1>1, <4>3
        <5> QED BY <4>1, <5>1 DEF Danger, Deleting
      <4> QED BY <4>2, <4>3
    <3> QED BY <3>1, <3>2 DEF Danger
  <2>6. \A y \in 1 .. Len(gens[q.b]) :
           /\ y \in 1 .. Len(gens'[q.b]) /\ gens[q.b][y].cap \in Nat
           /\ Filled(gens[q.b][y], gens'[q.b][y])
    BY <2>3, GenOfIs
  <2>7. \A y \in 1 .. Len(gens[q.b]) : NoneGone(gens[q.b][y], gens'[q.b][y])
    BY ONLY <2>2, <2>6, FilledKeeps
  <2>8. ASSUME q.pc = "bigSeq", u \in was', KindOf(q.key) = q.b, q.g = cur[q.b] \/ Located(GenOf(q), q.key)
        PROVE  (q.g = cur[q.b] \/ Located(GenOf(q), q.key))'
    <3>1. q.g \in 1 .. Len(gens[q.b])
      BY <2>2, <2>8 DEF Reader, Bounds, Placed
    <3>2. CASE q.g = cur[q.b]
      <4>1. CASE cur'[q.b] = cur[q.b]
        BY <3>2, <4>1
      <4>2. CASE \A k \in live' : KindOf(k) = q.b => Located(gens'[q.b][cur[q.b]], k)
        <5>1. Located(gens'[q.b][q.g], q.key)
          BY <2>4, <2>8, <3>2, <4>2
        <5> QED BY <5>1 DEF GenOf
      <4> QED BY <2>3, <4>1, <4>2
    <3>3. CASE Located(GenOf(q), q.key)
      <4>1. PICK g, h : g = gens[q.b][q.g] /\ h = gens'[q.b][q.g]
        OBVIOUS
      <4>2. Located(g, q.key) /\ Filled(g, h) /\ g.cap \in Nat
        BY <2>6, <3>1, <3>3, <4>1 DEF GenOf
      <4>3. Located(h, q.key)
        BY <2>2, <4>2, FilledKeeps
      <4> QED BY <4>1, <4>3 DEF GenOf
    <3> QED BY <2>8, <3>2, <3>3
  <2>9. Unpassed(q, m)'
    <3>1. SUFFICES ASSUME q.pc = "probe", "emptied" \notin m, q.cap = GenOf(q)'.cap
                   PROVE  Passed(q, GenOf(q)')
      BY DEF Unpassed, GenOf
    <3>2. q.g \in 1 .. Len(gens[q.b])
      BY <2>2, <3>1 DEF Reader, Bounds, Placed
    <3>3. PICK g, h : g = GenOf(q) /\ h = GenOf(q)'
      OBVIOUS
    <3>4. Filled(g, h) /\ g.cap \in Nat
      BY <2>6, <3>2, <3>3 DEF GenOf
    <3>5. q.cap = g.cap
      BY <3>1, <3>3, <3>4 DEF Filled
    <3>6. Passed(q, g)
      BY <2>2, <3>1, <3>3, <3>5 DEF Reader, Unpassed
    <3>7. Passed(q, h)
      BY <2>2, <3>4, <3>5, <3>6, FilledKeeps
    <3> QED BY <3>3, <3>7
  <2>10. m \subseteq m
    OBVIOUS
  <2>11. \A y \in 1 .. Len(gens[q.b]) :
            /\ y \in 1 .. Len(gens'[q.b]) /\ gens[q.b][y].cap \in Nat
            /\ NoneGone(gens[q.b][y], gens'[q.b][y])
            /\ Danger(u, q)' \/ Filled(gens[q.b][y], gens'[q.b][y])
    BY ONLY <2>6, <2>7
  <2> QED BY ONLY <1>5, <2>2, <2>4, <2>5, <2>8, <2>9, <2>10, <2>11, ReaderStays,
              seq' \in Nat, seq <= seq', mir'.cap \in Nat, mir.cap <= mir'.cap
<1>8. met' = [u \in Threads |-> met'[u]]
  BY <1>4
<1> QED BY ONLY <1>6, <1>7, <1>8, ReadersFrom

\* A writer that changes no table.
LEMMA QuietFrame ==
  ASSUME RegistryInv, LookupInv, NEW t \in Threads, NEW r, Becomes(t, r),
         {th[t].pc, r.pc} \subseteq {"idle"} \cup AddPcs \cup DelPcs,
         UNCHANGED <<gens, cur, met>>, was' \subseteq was, absent' \subseteq absent,
         \A u \in absent' : th[u].key \in gone', \A u \in was' : th[u].key \in live',
         seq' \in Nat, seq <= seq', mir'.cap \in Nat, mir.cap <= mir'.cap,
         th[t].pc \in DelPcs => seq < seq'
  PROVE  ReadersOK'
<1>1. \A b \in Kinds : cur'[b] = cur[b] \/ \A k \in live' : KindOf(k) = b => Located(gens'[b][cur[b]], k)
  OBVIOUS
<1>2. \A b \in Kinds : \A y \in 1 .. Len(gens[b]) :
         y \in 1 .. Len(gens'[b]) /\ Filled(gens[b][y], gens'[b][y])
  BY DEF Filled
<1>3. met' = met
  OBVIOUS
<1> QED BY ONLY <1>1, <1>2, <1>3, RegistryInv, LookupInv, t \in Threads, Becomes(t, r),
            {th[t].pc, r.pc} \subseteq {"idle"} \cup AddPcs \cup DelPcs,
            was' \subseteq was, absent' \subseteq absent,
            \A u \in absent' : th[u].key \in gone', \A u \in was' : th[u].key \in live',
            seq' \in Nat, seq <= seq', mir'.cap \in Nat, mir.cap <= mir'.cap,
            th[t].pc \in DelPcs => seq < seq', WriteFrame

LEMMA GhostKeys ==
  ASSUME LookupInv
  PROVE  /\ \A u \in absent : u \in Threads /\ Looking(u) /\ th[u].key \in gone
         /\ \A u \in was : u \in Threads /\ Looking(u) /\ th[u].key \in live
         /\ seq \in Nat /\ seq <= seq /\ mir.cap \in Nat /\ mir.cap <= mir.cap
BY DEF LookupInv, MirrorOK, ReadersOK, Reader, Clean, Finds

\* The cache stays, and no slab of it goes.
LEMMA MapStays ==
  ASSUME RegistryInv, LookupInv, NEW t \in Threads, NEW r, Becomes(t, r), ownMap' = ownMap, gone' \subseteq gone,
         r.pc \in {"addMirTab", "addMirCap", "addMap"} => r.b = "slab"
  PROVE  MapOK'
<1>1. th'[t] = r /\ (\A u \in Threads : u # t => th'[u] = th[u])
  BY BecomesIs DEF RegistryInv
<1>2. /\ ownMap \in [0 .. MapSize - 1 -> Normal \cup {None}]
      /\ \A c \in 0 .. MapSize - 1 : ownMap[c] # None => MapCell(ownMap[c]) = c /\ ownMap[c] \notin gone
      /\ \A u \in Threads : th[u].pc \in {"addMirTab", "addMirCap", "addMap"} => th[u].b = "slab"
  BY DEF LookupInv, MapOK
<1>3. \A u \in Threads : th'[u].pc \in {"addMirTab", "addMirCap", "addMap"} => th'[u].b = "slab"
  BY ONLY <1>1, <1>2, r.pc \in {"addMirTab", "addMirCap", "addMap"} => r.b = "slab"
<1> QED BY ONLY <1>2, <1>3, ownMap' = ownMap, gone' \subseteq gone DEF MapOK

\* The mirror and what it names stay.
LEMMA MirrorStays ==
  ASSUME LookupInv, UNCHANGED <<gens, cur, mir>>,
         \A u \in Threads : th'[u].pc = "addMirTab" <=> th[u].pc = "addMirTab",
         \A u \in Threads : th[u].pc = "addMirTab" => UNCHANGED <<n, live>>
  PROVE  MirrorOK'
BY DEF LookupInv, MirrorOK, Mine, Current

\* The hole of a deletion stays, or there is none.
LEMMA HoleStays ==
  ASSUME RegistryInv, LookupInv, NEW t \in Threads, NEW r, Becomes(t, r), r.pc # "delErase", gone' \subseteq gone,
         UNCHANGED <<gens, cur>>
  PROVE  HoleOK'
<1>1. \A u \in Threads : th'[u].pc = "delErase" => th'[u] = th[u]
  BY BecomesIs DEF RegistryInv
<1> QED BY ONLY <1>1, LookupInv, gone' \subseteq gone, UNCHANGED <<gens, cur>> DEF LookupInv, HoleOK, Current

LEMMA HoleNone ==
  ASSUME RegistryInv, NEW t \in Threads, NEW r, Becomes(t, r), r.pc # "delErase", th[t].pc \in Locked
  PROVE  HoleOK'
<1>1. th'[t] = r /\ \A u \in Threads : u # t => th'[u] = th[u]
  BY BecomesIs DEF RegistryInv
<1>2. \A u \in Threads : u # t => th[u].pc \notin Locked
  BY Holder
<1>3. \A u \in Threads : th'[u].pc # "delErase"
  BY <1>1, <1>2 DEF Locked, Writing
<1> QED BY <1>3 DEF HoleOK

LEMMA AddCallLooks ==
  ASSUME RegistryInv, LookupInv, NEW t \in Threads, NEW k \in Keys, AddCall(t, k)
  PROVE  LookupInv'
<1>1. /\ th[t] = Idle /\ gone' = gone \ {k} /\ absent' = absent \ Seeking(k)
      /\ UNCHANGED <<gens, cur, n, mir, seq, live, was, met, ownMap>>
  BY DEF AddCall, tables
<1>2. PICK r : r = [pc |-> "addLock", key |-> k, b |-> KindOf(k)]
  OBVIOUS
<1>3. Becomes(t, r) /\ r.pc = "addLock" /\ th[t].pc = "idle"
  BY <1>1, <1>2 DEF AddCall, Becomes, Idle
<1>4. \A u \in absent' : th[u].key \in gone'
  BY <1>1, GhostKeys DEF Seeking
<1>5. absent' \subseteq absent /\ was' \subseteq was /\ gone' \subseteq gone
  BY <1>1
<1>6. /\ {th[t].pc, r.pc} \subseteq {"idle"} \cup AddPcs \cup DelPcs /\ th[t].pc \notin DelPcs
      /\ r.pc \notin {"addMirTab", "addMirCap", "addMap", "delErase"}
  BY <1>3 DEF AddPcs, DelPcs
<1>7. /\ \A u \in was' : th[u].key \in live'
      /\ seq' \in Nat /\ seq <= seq' /\ mir'.cap \in Nat /\ mir.cap <= mir'.cap
  BY <1>1, GhostKeys
<1>8. ReadersOK'
  BY ONLY <1>1, <1>3, <1>4, <1>5, <1>6, <1>7, RegistryInv, LookupInv, t \in Threads, QuietFrame
<1>9. MapOK' /\ HoleOK'
  BY ONLY <1>1, <1>3, <1>5, <1>6, RegistryInv, LookupInv, t \in Threads, MapStays, HoleStays
<1>10. MirrorOK'
  <2>1. \A u \in Threads : th'[u].pc = "addMirTab" <=> th[u].pc = "addMirTab"
    BY <1>3, BecomesIs DEF RegistryInv
  <2> QED BY <1>1, <2>1, MirrorStays
<1> QED BY <1>7, <1>8, <1>9, <1>10 DEF LookupInv

LEMMA AddLockLooks ==
  ASSUME RegistryInv, LookupInv, NEW t \in Threads, AddLock(t)
  PROVE  LookupInv'
<1>1. /\ th[t].pc = "addLock"
      /\ UNCHANGED <<gens, cur, n, mir, seq, live, gone, was, absent, met, ownMap>>
  BY DEF AddLock, tables, ghosts
<1>2. Adds(th[t]) /\ ThreadsOK
  BY <1>1, PcIs DEF RegistryInv, AddPcs
<1>3. PICK pc \in {"addGrow", "addCell"} : Go(t, pc)
  BY DEF AddLock
<1>4. PICK r : r = [th[t] EXCEPT !.pc = pc]
  OBVIOUS
<1>5. Becomes(t, r) /\ r.pc = pc
  BY <1>2, <1>3, <1>4, GoesOn DEF AddPcs
<1>6. /\ {th[t].pc, r.pc} \subseteq {"idle"} \cup AddPcs \cup DelPcs /\ th[t].pc \notin DelPcs
      /\ r.pc \notin {"addMirTab", "addMirCap", "addMap", "delErase"}
  BY <1>1, <1>5 DEF AddPcs, DelPcs
<1>7. /\ \A u \in absent' : th[u].key \in gone'
      /\ \A u \in was' : th[u].key \in live'
      /\ seq' \in Nat /\ seq <= seq' /\ mir'.cap \in Nat /\ mir.cap <= mir'.cap
  BY <1>1, GhostKeys
<1>8. absent' \subseteq absent /\ was' \subseteq was /\ gone' \subseteq gone
  BY <1>1
<1>9. ReadersOK'
  BY ONLY <1>1, <1>5, <1>6, <1>7, <1>8, RegistryInv, LookupInv, t \in Threads, QuietFrame
<1>10. MapOK' /\ HoleOK'
  BY ONLY <1>1, <1>5, <1>6, <1>8, RegistryInv, LookupInv, t \in Threads, MapStays, HoleStays
<1>11. MirrorOK'
  <2>1. \A u \in Threads : th'[u].pc = "addMirTab" <=> th[u].pc = "addMirTab"
    BY <1>1, <1>2, <1>5, BecomesIs
  <2> QED BY <1>1, <2>1, MirrorStays
<1> QED BY <1>7, <1>9, <1>10, <1>11 DEF LookupInv

LEMMA AddGrowLooks ==
  ASSUME RegistryInv, LookupInv, NEW t \in Threads, AddGrow(t)
  PROVE  LookupInv'
<1>1. /\ th[t].pc = "addGrow"
      /\ UNCHANGED <<n, mir, seq, live, gone, was, absent, met, ownMap>>
  BY DEF AddGrow, ghosts
<1>2. Adds(th[t]) /\ ThreadsOK
  BY <1>1, PcIs DEF RegistryInv, AddPcs
<1>3. PICK b \in Kinds : b = th[t].b
  BY <1>2 DEF Adds
<1>4. PICK pc \in {"addCell", "addMirTab"} : Go(t, pc) /\ pc = IF b = "big" THEN "addCell" ELSE "addMirTab"
  BY <1>3 DEF AddGrow
<1>5. PICK r : r = [th[t] EXCEPT !.pc = pc]
  OBVIOUS
<1>6. Becomes(t, r) /\ r.pc = pc /\ r.b = b
  BY <1>2, <1>3, <1>4, <1>5, GoesOn DEF AddPcs
<1>7. /\ {th[t].pc, r.pc} \subseteq {"idle"} \cup AddPcs \cup DelPcs /\ th[t].pc \notin DelPcs
      /\ r.pc \in {"addMirTab", "addMirCap", "addMap"} => r.b = "slab"
      /\ r.pc # "delErase"
  BY <1>1, <1>4, <1>6 DEF AddPcs, DelPcs, Kinds
<1>8. /\ \A u \in absent' : th[u].key \in gone'
      /\ \A u \in was' : th[u].key \in live'
      /\ seq' \in Nat /\ seq <= seq' /\ mir'.cap \in Nat /\ mir.cap <= mir'.cap
  BY <1>1, GhostKeys
<1>9. absent' \subseteq absent /\ was' \subseteq was /\ gone' \subseteq gone /\ met' = met
  BY <1>1
<1>10. th[t].pc \in Locked /\ \A u \in Threads : u # t => th[u].pc \notin Locked
  <2>1. th[t].pc \in Locked
    BY <1>1 DEF Locked, Writing
  <2> QED BY <2>1, Holder
<1>11. \A d \in Kinds : Holds(Current(d), Mine(d), n[d])
  <2>1. \A u \in Threads : th[u].pc \notin Busy
    BY <1>1, <1>10 DEF Locked, Writing, Busy
  <2> QED BY <2>1 DEF RegistryInv, TablesOK
<1>12. PICK g : g = NextReg(Current(b))
  OBVIOUS
<1>13. g \in Gens /\ g.cap = IF Current(b).cap = 0 THEN FirstCap ELSE 2 * Current(b).cap
  <2>1. Table(g.tab, g.cap, Mine(b), n[b]) /\ g = [tab |-> g.tab, cap |-> g.cap]
    BY <1>11, <1>12, NextRegHolds
  <2>2. g.cap \in Nat \ {1} /\ g.tab \in [0..(g.cap - 1) -> Entries]
    BY <2>1 DEF Table
  <2>3. g \in Gens
    BY ONLY <2>1, <2>2, GenIs
  <2> QED BY <1>11, <1>12, <2>3, NextRegHolds
<1>14. gens' = [gens EXCEPT ![b] = Append(@, g)] /\ cur' = [cur EXCEPT ![b] = Len(gens[b]) + 1]
  BY ONLY <1>3, <1>12, AddGrow(t) DEF AddGrow, Current
<1>15. /\ \A d \in Kinds : d # b => gens'[d] = gens[d] /\ cur'[d] = cur[d]
       /\ \A y \in 1..Len(gens[b]) : gens'[b][y] = gens[b][y]
       /\ Len(gens'[b]) = Len(gens[b]) + 1
       /\ Current(b)' = g
  BY ONLY <1>1, <1>13, <1>14, RegistryInv, b \in Kinds, GenAdded DEF RegistryInv
<1>16. \A d \in Kinds : \A y \in 1 .. Len(gens[d]) : y \in 1 .. Len(gens'[d]) /\ gens'[d][y] = gens[d][y]
  <2>1. ASSUME NEW d \in Kinds, NEW y \in 1 .. Len(gens[d])
        PROVE  y \in 1 .. Len(gens'[d]) /\ gens'[d][y] = gens[d][y]
    <3>1. CASE d = b
      <4>1. Len(gens[b]) \in Nat
        BY DEF RegistryInv, GensOK
      <4> QED BY ONLY <1>15, <2>1, <3>1, <4>1
    <3>2. CASE d # b
      BY <1>15, <3>2
    <3> QED BY <3>1, <3>2
  <2> QED BY <2>1
<1>17. \A d \in Kinds : \A y \in 1 .. Len(gens[d]) :
          y \in 1 .. Len(gens'[d]) /\ Filled(gens[d][y], gens'[d][y])
  BY <1>16 DEF Filled
<1>18. \A d \in Kinds : cur'[d] = cur[d] \/ \A k \in live' : KindOf(k) = d => Located(gens'[d][cur[d]], k)
  <2>1. ASSUME NEW d \in Kinds, NEW k \in live', KindOf(k) = d
        PROVE  Located(gens'[d][cur[d]], k)
    <3>1. k \in live /\ \A u \in Threads : th[u].pc = "delErase" => th[u].b # d
      BY <1>1, <1>10, <2>1 DEF Locked, Writing
    <3>2. Located(Current(d), k)
      BY <2>1, <3>1, CurrentLocates
    <3>3. cur[d] \in 1 .. Len(gens[d])
      BY CurrentIs DEF RegistryInv
    <3> QED BY <1>16, <3>2, <3>3 DEF Current
  <2> QED BY <2>1
<1>19. ReadersOK'
  BY ONLY <1>6, <1>7, <1>8, <1>9, <1>17, <1>18, RegistryInv, LookupInv, t \in Threads, WriteFrame
<1>20. MapOK' /\ HoleOK'
  BY ONLY <1>1, <1>6, <1>7, <1>9, <1>10, RegistryInv, LookupInv, t \in Threads, MapStays, HoleNone
<1>21. MirrorOK'
  <2>1. \A u \in Threads : th[u].pc # "addMirTab"
    BY <1>1, <1>10 DEF Locked, Writing
  <2>2. /\ mir.tab \in 1 .. Len(gens["slab"]) /\ mir.tab = cur["slab"] /\ mir = [tab |-> mir.tab, cap |-> mir.cap]
        /\ mir.cap \in Nat /\ mir.cap <= gens["slab"][mir.tab].cap
    BY <2>1 DEF LookupInv, MirrorOK
  <2>3. "slab" \in Kinds
    BY DEF Kinds
  <2>4. mir.tab \in 1 .. Len(gens'["slab"]) /\ gens'["slab"][mir.tab] = gens["slab"][mir.tab]
    BY <1>16, <2>2, <2>3
  <2>5. th'[t].pc = pc /\ \A u \in Threads : u # t => th'[u] = th[u]
    BY <1>2, <1>6, BecomesIs
  <2>6. CASE b = "slab"
    <3>1. Holds(gens'["slab"][mir.tab], Mine("slab"), n["slab"])
      BY <1>11, <2>2, <2>3, <2>4 DEF Current
    <3>2. Mine("slab")' = Mine("slab")
      BY <1>1 DEF Mine
    <3>3. th'[t].pc = "addMirTab"
      BY <1>4, <2>5, <2>6
    <3>4. mir.cap <= Current("slab")'.cap
      <4>1. PICK x : x = Current("slab").cap
        OBVIOUS
      <4>2. x \in Nat /\ mir.cap <= x
        BY <2>2, <2>3, <4>1, CurrentIs, GenIs DEF RegistryInv, Current
      <4>3. g.cap = IF x = 0 THEN FirstCap ELSE 2 * x
        BY <1>13, <2>6, <4>1
      <4>4. mir.cap <= g.cap
        BY ONLY <2>2, <4>2, <4>3, RegistryAssumption
      <4> QED BY <1>15, <2>6, <4>4
    <3> QED BY ONLY <1>1, <2>2, <2>4, <3>1, <3>2, <3>3, <3>4, t \in Threads DEF MirrorOK
  <2>7. CASE b # "slab"
    <3>1. b = "big"
      BY <2>7 DEF Kinds
    <3>2. \A u \in Threads : th'[u].pc # "addMirTab"
      BY <1>4, <2>1, <2>5, <3>1
    <3>3. cur'["slab"] = cur["slab"]
      BY <1>15, <2>3, <2>7
    <3> QED BY ONLY <1>1, <2>2, <2>4, <3>2, <3>3 DEF MirrorOK
  <2> QED BY <2>6, <2>7
<1> QED BY <1>8, <1>19, <1>20, <1>21 DEF LookupInv

LEMMA AddMirLooks ==
  ASSUME RegistryInv, LookupInv, NEW t \in Threads, AddMirTab(t) \/ AddMirCap(t)
  PROVE  LookupInv'
<1>1. /\ th[t].pc \in {"addMirTab", "addMirCap"}
      /\ UNCHANGED <<gens, cur, n, seq, live, gone, was, absent, met, ownMap>>
  BY DEF AddMirTab, AddMirCap, ghosts
<1>2. Adds(th[t]) /\ ThreadsOK
  BY <1>1, PcIs DEF RegistryInv, AddPcs
<1>3. PICK pc \in {"addMirCap", "addCell"} : Go(t, pc)
  BY DEF AddMirTab, AddMirCap
<1>4. PICK r : r = [th[t] EXCEPT !.pc = pc]
  OBVIOUS
<1>5. Becomes(t, r) /\ r.pc = pc /\ r.b = th[t].b
  BY <1>2, <1>3, <1>4, GoesOn DEF AddPcs
<1>6. /\ {th[t].pc, r.pc} \subseteq {"idle"} \cup AddPcs \cup DelPcs /\ th[t].pc \notin DelPcs
      /\ r.pc \in {"addMirTab", "addMirCap", "addMap"} => r.b = "slab"
      /\ r.pc # "delErase" /\ th[t].pc \in Locked
  BY <1>1, <1>5 DEF AddPcs, DelPcs, Locked, Writing, LookupInv, MapOK
<1>7. absent' \subseteq absent /\ was' \subseteq was /\ gone' \subseteq gone
  BY <1>1
<1>8. \A u \in Threads : u # t => th[u].pc \notin Locked
  BY <1>6, Holder
<1>9. \A u \in Threads : th'[u].pc # "addMirTab"
  BY <1>2, <1>5, <1>8, BecomesIs DEF Locked, Writing
<1>10. cur["slab"] \in 1 .. Len(gens["slab"]) /\ Current("slab").cap \in Nat
  <2>1. "slab" \in Kinds
    BY DEF Kinds
  <2> QED BY <2>1, CurrentIs, GenIs DEF RegistryInv
<1>11. /\ mir' = [tab |-> mir'.tab, cap |-> mir'.cap] /\ mir'.tab = cur["slab"]
       /\ mir'.cap \in Nat /\ mir.cap <= mir'.cap /\ mir'.cap <= Current("slab").cap
  <2>1. mir = [tab |-> mir.tab, cap |-> mir.cap] /\ mir.cap \in Nat
    BY DEF LookupInv, MirrorOK
  <2>2. CASE AddMirTab(t)
    <3>1. mir' = [mir EXCEPT !.tab = cur["slab"]]
      BY <2>2 DEF AddMirTab
    <3>2. mir'.tab = cur["slab"] /\ mir'.cap = mir.cap /\ mir' = [tab |-> mir'.tab, cap |-> mir'.cap]
      BY ONLY <2>1, <3>1
    <3>3. mir.cap <= Current("slab").cap
      BY <2>2 DEF AddMirTab, LookupInv, MirrorOK
    <3>4. mir.cap <= mir.cap
      BY <2>1
    <3> QED BY ONLY <2>1, <3>2, <3>3, <3>4
  <2>3. CASE AddMirCap(t)
    <3>1. \A u \in Threads : th[u].pc # "addMirTab"
      BY <1>8, <2>3 DEF AddMirCap, Locked, Writing
    <3>2. mir.tab = cur["slab"] /\ mir.cap <= Current("slab").cap
      BY <3>1 DEF LookupInv, MirrorOK, Current
    <3>3. PICK z : z = Current("slab").cap
      OBVIOUS
    <3>4. mir' = [mir EXCEPT !.cap = z]
      BY <2>3, <3>3 DEF AddMirCap, Current
    <3>5. mir'.tab = mir.tab /\ mir'.cap = z /\ mir' = [tab |-> mir'.tab, cap |-> mir'.cap]
      BY ONLY <2>1, <3>4
    <3>6. z <= z
      BY <1>10, <3>3
    <3> QED BY ONLY <1>10, <3>2, <3>3, <3>5, <3>6
  <2> QED BY <2>2, <2>3
<1>12. /\ \A u \in absent' : th[u].key \in gone'
       /\ \A u \in was' : th[u].key \in live'
       /\ seq' \in Nat /\ seq <= seq'
  BY <1>1, GhostKeys
<1>13. ReadersOK'
  BY ONLY <1>1, <1>5, <1>6, <1>7, <1>11, <1>12, RegistryInv, LookupInv, t \in Threads, QuietFrame
<1>14. MapOK' /\ HoleOK'
  BY ONLY <1>1, <1>5, <1>6, <1>7, RegistryInv, LookupInv, t \in Threads, MapStays, HoleStays
<1>15. MirrorOK'
  BY ONLY <1>1, <1>9, <1>10, <1>11 DEF MirrorOK, Current
<1> QED BY <1>12, <1>13, <1>14, <1>15 DEF LookupInv

\* While no generation waits for the mirror, it names the published one.
LEMMA MirrorQuiet ==
  ASSUME LookupInv, UNCHANGED <<cur, mir>>, Len(gens'["slab"]) = Len(gens["slab"]),
         gens'["slab"][mir.tab].cap = gens["slab"][mir.tab].cap,
         \A u \in Threads : th[u].pc # "addMirTab" /\ th'[u].pc # "addMirTab"
  PROVE  MirrorOK'
BY DEF LookupInv, MirrorOK

\* A writer that holds the lock steps on: nobody else waits for the mirror.
LEMMA NoMirror ==
  ASSUME RegistryInv, NEW t \in Threads, NEW r, Becomes(t, r),
         th[t].pc \in Locked \ {"addMirTab"}, r.pc # "addMirTab"
  PROVE  \A u \in Threads : th[u].pc # "addMirTab" /\ th'[u].pc # "addMirTab"
<1>1. \A u \in Threads : u # t => th[u].pc \notin Locked
  BY Holder
<1>2. th'[t] = r /\ \A u \in Threads : u # t => th'[u] = th[u]
  BY BecomesIs DEF RegistryInv
<1>3. "addMirTab" \in Locked
  BY DEF Locked, Writing
<1> QED BY <1>1, <1>2, <1>3

LEMMA AddCellLooks ==
  ASSUME RegistryInv, LookupInv, NEW t \in Threads, AddCell(t)
  PROVE  LookupInv'
<1>1. /\ th[t].pc = "addCell"
      /\ UNCHANGED <<cur, mir, seq, live, gone, was, absent, met, ownMap>>
  BY DEF AddCell, ghosts
<1>2. Adds(th[t]) /\ ThreadsOK
  BY <1>1, PcIs DEF RegistryInv, AddPcs
<1>3. PICK b \in Kinds, k \in Keys : b = th[t].b /\ k = th[t].key /\ k \notin live \cup gone /\ b = KindOf(k)
  BY <1>1, WriterIs DEF AddPcs
<1>4. PICK pc \in {"addMap", "addSeq"} : Go(t, pc) /\ pc = IF b = "big" THEN "addSeq" ELSE "addMap"
  BY <1>3 DEF AddCell
<1>5. PICK r : r = [th[t] EXCEPT !.pc = pc]
  OBVIOUS
<1>6. Becomes(t, r) /\ r.pc = pc /\ r.b = b
  <2>1. pc \in AddPcs /\ Go(t, pc)
    BY <1>4 DEF AddPcs
  <2> QED BY <1>2, <1>3, <1>5, <2>1, GoesOn
<1>7. /\ {th[t].pc, r.pc} \subseteq {"idle"} \cup AddPcs \cup DelPcs /\ th[t].pc \notin DelPcs
      /\ r.pc \in {"addMirTab", "addMirCap", "addMap"} => r.b = "slab"
      /\ r.pc # "delErase"
  BY <1>1, <1>4, <1>6 DEF AddPcs, DelPcs, Kinds
<1>8. /\ \A u \in absent' : th[u].key \in gone'
      /\ \A u \in was' : th[u].key \in live'
      /\ seq' \in Nat /\ seq <= seq' /\ mir'.cap \in Nat /\ mir.cap <= mir'.cap
  BY <1>1, GhostKeys
<1>9. absent' \subseteq absent /\ was' \subseteq was /\ gone' \subseteq gone /\ met' = met
  BY <1>1
<1>10. th[t].pc \in Locked \ {"addMirTab"} /\ r.pc # "addMirTab"
  BY <1>1, <1>6 DEF Locked, Writing
<1>11. PICK g : g = Current(b)
  OBVIOUS
<1>12. Table(g.tab, g.cap, Mine(b), n[b])
  <2>1. \A u \in Threads : th[u].pc \notin Busy
    <3>1. \A u \in Threads : u # t => th[u].pc \notin Locked
      BY <1>10, Holder
    <3> QED BY <1>1, <3>1 DEF Locked, Writing, Busy
  <2>2. Holds(Current(b), Mine(b), n[b])
    BY <2>1 DEF RegistryInv, TablesOK
  <2>3. Current(b).cap # 0
    BY <1>1, <1>3 DEF RegistryInv, TablesOK
  <2> QED BY <1>11, <2>2, <2>3, HoldsIs
<1>13. k \notin Mine(b)
  BY <1>3 DEF Mine
<1>14. PICK x : x = SlotOf(g.tab, g.cap, k)
  OBVIOUS
<1>15. x \in 0..(g.cap - 1) /\ g.tab[x] = None
  BY ONLY <1>12, <1>13, <1>14, k \in Keys, SlotOfAbsent
<1>16. gens' = [gens EXCEPT ![b][cur[b]].tab[x] = k]
  BY ONLY <1>3, <1>11, <1>14, AddCell(t) DEF AddCell, Current
<1>17. PICK h : h = [tab |-> [g.tab EXCEPT ![x] = k], cap |-> g.cap]
  OBVIOUS
<1>18. /\ \A d \in Kinds : Len(gens'[d]) = Len(gens[d])
       /\ gens'[b][cur[b]] = h
       /\ \A d \in Kinds : d # b => gens'[d] = gens[d]
       /\ \A y \in 1..Len(gens[b]) : y # cur[b] => gens'[b][y] = gens[b][y]
  <2>1. k \in Entries
    BY DEF Entries
  <2>2. GensOK /\ cur' = cur /\ x \in 0..(Current(b).cap - 1)
    BY <1>1, <1>11, <1>15 DEF RegistryInv
  <2>3. Current(b)' = h
    <3>1. Current(b)' = [tab |-> [Current(b).tab EXCEPT ![x] = k], cap |-> Current(b).cap]
      BY ONLY <1>16, <2>1, <2>2, b \in Kinds, CellWritten, ZenonT(40)
    <3> QED BY ONLY <1>11, <1>17, <3>1
  <2>4. gens'[b][cur[b]] = h
    BY ONLY <2>2, <2>3 DEF Current
  <2> QED BY ONLY <1>16, <2>1, <2>2, <2>4, b \in Kinds, CellWritten
<1>19. Filled(g, h)
  <2>1. g.cap \in Nat /\ g.tab \in [0..(g.cap - 1) -> Entries]
    BY <1>11, CurrentIs, GenIs DEF RegistryInv
  <2>2. h.cap = g.cap /\ \A c \in 0..(g.cap - 1) : h.tab[c] = IF c = x THEN k ELSE g.tab[c]
    BY ONLY <1>15, <1>17, <2>1
  <2>3. k \notin gone'
    BY <1>1, <1>3
  <2> QED BY ONLY <1>15, <2>2, <2>3 DEF Filled
<1>20. ASSUME NEW d \in Kinds, NEW y \in 1 .. Len(gens[d])
       PROVE  y \in 1 .. Len(gens'[d]) /\ Filled(gens[d][y], gens'[d][y])
  <2>1. y \in 1 .. Len(gens'[d])
    BY ONLY <1>18, d \in Kinds, y \in 1 .. Len(gens[d])
  <2>2. CASE d = b /\ y = cur[b]
    <3>1. gens[d][y] = g /\ gens'[d][y] = h
      BY ONLY <1>11, <1>18, <2>2 DEF Current
    <3> QED BY ONLY <1>19, <2>1, <2>2, <3>1
  <2>3. CASE ~(d = b /\ y = cur[b])
    <3>1. gens'[d][y] = gens[d][y]
      BY ONLY <1>18, <2>3, d \in Kinds, y \in 1 .. Len(gens[d])
    <3> QED BY ONLY <2>1, <3>1 DEF Filled
  <2> QED BY <2>2, <2>3
<1>21. \A d \in Kinds : cur'[d] = cur[d] \/ \A s \in live' : KindOf(s) = d => Located(gens'[d][cur[d]], s)
  BY <1>1
<1>22. ReadersOK'
  BY ONLY <1>6, <1>7, <1>8, <1>9, <1>20, <1>21, RegistryInv, LookupInv, t \in Threads, WriteFrame
<1>23. MapOK' /\ HoleOK'
  BY ONLY <1>1, <1>6, <1>7, <1>9, <1>10, RegistryInv, LookupInv, t \in Threads, MapStays, HoleNone
<1>24. MirrorOK'
  <2>1. \A u \in Threads : th[u].pc # "addMirTab" /\ th'[u].pc # "addMirTab"
    BY <1>6, <1>10, NoMirror
  <2>2. "slab" \in Kinds /\ mir.tab \in 1 .. Len(gens["slab"])
    BY DEF Kinds, LookupInv, MirrorOK
  <2>3. Len(gens'["slab"]) = Len(gens["slab"]) /\ gens'["slab"][mir.tab].cap = gens["slab"][mir.tab].cap
    BY ONLY <1>18, <1>20, <2>2 DEF Filled
  <2> QED BY ONLY <1>1, <2>1, <2>3, LookupInv, MirrorQuiet
<1> QED BY <1>8, <1>22, <1>23, <1>24 DEF LookupInv

LEMMA MapCellIs ==
  ASSUME NEW k \in Keys
  PROVE  MapCell(k) \in 0 .. MapSize - 1
<1>1. PICK a \in Nat, c \in Nat \ {0} : a = Hash[k] /\ c = MapSize
  BY RegistryAssumption
<1>2. a % c \in 0..(c - 1)
  OBVIOUS
<1> QED BY <1>1, <1>2 DEF MapCell

LEMMA AddMapLooks ==
  ASSUME RegistryInv, LookupInv, NEW t \in Threads, AddMap(t)
  PROVE  LookupInv'
<1>1. /\ th[t].pc = "addMap" /\ Go(t, "addSeq")
      /\ UNCHANGED <<gens, cur, n, mir, seq, live, gone, was, absent, met>>
  BY DEF AddMap, tables, ghosts
<1>2. Adds(th[t]) /\ ThreadsOK
  BY <1>1, PcIs DEF RegistryInv, AddPcs
<1>3. PICK k \in Keys : k = th[t].key /\ k \notin gone /\ th[t].b = KindOf(k)
  BY <1>1, WriterIs DEF AddPcs
<1>4. PICK r : r = [th[t] EXCEPT !.pc = "addSeq"]
  OBVIOUS
<1>5. Becomes(t, r) /\ r.pc = "addSeq"
  BY <1>1, <1>2, <1>4, GoesOn DEF AddPcs
<1>6. /\ {th[t].pc, r.pc} \subseteq {"idle"} \cup AddPcs \cup DelPcs /\ th[t].pc \notin DelPcs
      /\ r.pc # "delErase"
  BY <1>1, <1>5 DEF AddPcs, DelPcs
<1>7. /\ \A u \in absent' : th[u].key \in gone'
      /\ \A u \in was' : th[u].key \in live'
      /\ seq' \in Nat /\ seq <= seq' /\ mir'.cap \in Nat /\ mir.cap <= mir'.cap
  BY <1>1, GhostKeys
<1>8. absent' \subseteq absent /\ was' \subseteq was /\ gone' \subseteq gone
  BY <1>1
<1>9. ReadersOK' /\ HoleOK'
  BY ONLY <1>1, <1>5, <1>6, <1>7, <1>8, RegistryInv, LookupInv, t \in Threads, QuietFrame, HoleStays
<1>10. MirrorOK'
  <2>1. \A u \in Threads : th'[u].pc = "addMirTab" <=> th[u].pc = "addMirTab"
    BY <1>1, <1>2, <1>5, BecomesIs
  <2> QED BY <1>1, <2>1, MirrorStays
<1>11. MapOK'
  <2>1. /\ ownMap \in [0 .. MapSize - 1 -> Normal \cup {None}]
        /\ \A c \in 0 .. MapSize - 1 : ownMap[c] # None => MapCell(ownMap[c]) = c /\ ownMap[c] \notin gone
        /\ \A u \in Threads : th[u].pc \in {"addMirTab", "addMirCap", "addMap"} => th[u].b = "slab"
    BY DEF LookupInv, MapOK
  <2>2. k \in Normal
    BY <1>1, <1>3, <2>1, KindIs
  <2>3. PICK x \in 0 .. MapSize - 1 : x = MapCell(k)
    BY MapCellIs
  <2>4. ownMap' = [ownMap EXCEPT ![x] = k]
    BY <1>3, <2>3 DEF AddMap
  <2>5. ownMap' \in [0 .. MapSize - 1 -> Normal \cup {None}]
    BY ONLY <2>1, <2>2, <2>4
  <2>6. \A c \in 0 .. MapSize - 1 : ownMap'[c] = IF c = x THEN k ELSE ownMap[c]
    BY ONLY <2>1, <2>4
  <2>7. \A c \in 0 .. MapSize - 1 : ownMap'[c] # None => MapCell(ownMap'[c]) = c /\ ownMap'[c] \notin gone'
    BY ONLY <1>1, <1>3, <2>1, <2>3, <2>6
  <2>8. \A u \in Threads : th'[u].pc \in {"addMirTab", "addMirCap", "addMap"} => th'[u].b = "slab"
    BY <1>2, <1>5, <2>1, BecomesIs
  <2> QED BY ONLY <2>5, <2>7, <2>8 DEF MapOK
<1> QED BY <1>7, <1>9, <1>10, <1>11 DEF LookupInv

LEMMA AddSeqLooks ==
  ASSUME RegistryInv, LookupInv, NEW t \in Threads, AddSeq(t)
  PROVE  LookupInv'
<1>1. /\ th[t].pc = "addSeq" /\ seq' = seq + 1 /\ live' = live \cup {th[t].key}
      /\ UNCHANGED <<gens, cur, n, mir, gone, was, absent, met, ownMap>>
  BY DEF AddSeq, tables
<1>2. PICK r : r = Idle
  OBVIOUS
<1>3. Becomes(t, r) /\ r.pc = "idle"
  BY <1>2 DEF AddSeq, Becomes, Idle
<1>4. /\ {th[t].pc, r.pc} \subseteq {"idle"} \cup AddPcs \cup DelPcs /\ th[t].pc \notin DelPcs
      /\ r.pc \notin {"addMirTab", "addMirCap", "addMap", "delErase"}
      /\ th[t].pc \in Locked \ {"addMirTab"} /\ r.pc # "addMirTab"
  BY <1>1, <1>3 DEF AddPcs, DelPcs, Locked, Writing
<1>5. /\ \A u \in absent' : th[u].key \in gone'
      /\ \A u \in was' : th[u].key \in live'
      /\ seq' \in Nat /\ seq <= seq' /\ mir'.cap \in Nat /\ mir.cap <= mir'.cap
  BY <1>1, GhostKeys
<1>6. absent' \subseteq absent /\ was' \subseteq was /\ gone' \subseteq gone
  BY <1>1
<1>7. ReadersOK'
  BY ONLY <1>1, <1>3, <1>4, <1>5, <1>6, RegistryInv, LookupInv, t \in Threads, QuietFrame
<1>8. MapOK' /\ HoleOK'
  BY ONLY <1>1, <1>3, <1>4, <1>6, RegistryInv, LookupInv, t \in Threads, MapStays, HoleStays
<1>9. MirrorOK'
  <2>1. \A u \in Threads : th[u].pc # "addMirTab" /\ th'[u].pc # "addMirTab"
    BY <1>3, <1>4, NoMirror
  <2> QED BY <1>1, <2>1, MirrorStays
<1> QED BY <1>5, <1>7, <1>8, <1>9 DEF LookupInv

LEMMA DelLockLooks ==
  ASSUME RegistryInv, LookupInv, NEW t \in Threads, NEW k \in Keys, DelLock(t, k)
  PROVE  LookupInv'
<1>1. /\ th[t] = Idle /\ k \in live /\ lock = None /\ live' = live \ {k} /\ was' = was \ Seeking(k)
      /\ UNCHANGED <<gens, cur, n, mir, seq, gone, absent, met, ownMap>>
  BY DEF DelLock, tables
<1>2. PICK b \in Kinds : b = KindOf(k)
  BY KindIs
<1>3. PICK g : g = Current(b)
  OBVIOUS
<1>4. PICK i : i = SlotOf(g.tab, g.cap, k)
  OBVIOUS
<1>5. PICK r : r = [pc |-> "delErase", key |-> k, b |-> b, i |-> i, j |-> i]
  OBVIOUS
<1>6. Becomes(t, r) /\ r.pc = "delErase" /\ r.b = b /\ r.i = i /\ th[t].pc = "idle"
  BY ONLY DelLock(t, k), <1>1, <1>2, <1>3, <1>4, <1>5 DEF DelLock, Becomes, Current, Idle
<1>7. /\ {th[t].pc, r.pc} \subseteq {"idle"} \cup AddPcs \cup DelPcs /\ th[t].pc \notin DelPcs
      /\ r.pc \notin {"addMirTab", "addMirCap", "addMap"}
  BY <1>6 DEF AddPcs, DelPcs
<1>8. /\ \A u \in absent' : th[u].key \in gone'
      /\ \A u \in was' : th[u].key \in live'
      /\ seq' \in Nat /\ seq <= seq' /\ mir'.cap \in Nat /\ mir.cap <= mir'.cap
  BY <1>1, GhostKeys DEF Seeking
<1>9. absent' \subseteq absent /\ was' \subseteq was /\ gone' \subseteq gone
  BY <1>1
<1>10. ReadersOK'
  BY ONLY <1>1, <1>6, <1>7, <1>8, <1>9, RegistryInv, LookupInv, t \in Threads, QuietFrame
<1>11. MapOK'
  BY ONLY <1>1, <1>6, <1>7, <1>9, RegistryInv, LookupInv, t \in Threads, MapStays
<1>12. (\A u \in Threads : th[u].pc \notin Locked) /\ Holds(g, Mine(b), n[b])
  BY <1>1, <1>3, NoHolder
<1>13. th'[t] = r /\ \A u \in Threads : u # t => th'[u] = th[u]
  BY <1>6, BecomesIs DEF RegistryInv
<1>14. MirrorOK'
  <2>1. \A u \in Threads : th[u].pc # "addMirTab" /\ th'[u].pc # "addMirTab"
    BY <1>6, <1>12, <1>13 DEF Locked, Writing
  <2> QED BY <1>1, <2>1, MirrorStays
<1>15. HoleOK'
  <2>1. k \in Mine(b) /\ k \notin gone
    BY <1>1, <1>2 DEF Mine, RegistryInv, KeysOK
  <2>2. Table(g.tab, g.cap, Mine(b), n[b])
    BY <1>12, <2>1 DEF Holds
  <2>3. g.tab[i] = k
    BY ONLY <1>4, <2>1, <2>2, SlotOfPresent
  <2>4. \A u \in Threads : th'[u].pc = "delErase" => u = t
    BY <1>12, <1>13 DEF Locked, Writing
  <2> QED BY <1>1, <1>3, <1>6, <1>13, <2>1, <2>3, <2>4 DEF HoleOK, Current
<1> QED BY <1>8, <1>10, <1>11, <1>14, <1>15 DEF LookupInv

LEMMA DelSeqLooks ==
  ASSUME RegistryInv, LookupInv, NEW t \in Threads, DelSeq(t)
  PROVE  LookupInv'
<1>1. /\ th[t].pc = "delSeq" /\ seq' = seq + 1
      /\ UNCHANGED <<gens, cur, n, mir, live, was, absent, met>>
  BY DEF DelSeq, tables
<1>2. PICK k \in Keys : k = th[t].key
  BY <1>1, WriterIs DEF DelPcs
<1>3. PICK r : r = Idle
  OBVIOUS
<1>4. Becomes(t, r) /\ r.pc = "idle"
  BY <1>3 DEF DelSeq, Becomes, Idle
<1>5. /\ {th[t].pc, r.pc} \subseteq {"idle"} \cup AddPcs \cup DelPcs
      /\ r.pc # "delErase" /\ th[t].pc \in Locked
      /\ th[t].pc \in Locked \ {"addMirTab"} /\ r.pc # "addMirTab"
  BY <1>1, <1>4 DEF AddPcs, DelPcs, Locked, Writing
<1>6. gone' = gone \cup {k}
  BY <1>2 DEF DelSeq
<1>7. /\ \A u \in absent' : th[u].key \in gone'
      /\ \A u \in was' : th[u].key \in live'
      /\ seq' \in Nat /\ seq <= seq' /\ mir'.cap \in Nat /\ mir.cap <= mir'.cap /\ seq < seq'
  BY <1>1, <1>6, GhostKeys
<1>8. absent' \subseteq absent /\ was' \subseteq was
  BY <1>1
<1>9. ReadersOK'
  BY ONLY <1>1, <1>4, <1>5, <1>7, <1>8, RegistryInv, LookupInv, t \in Threads, QuietFrame
<1>10. HoleOK'
  BY ONLY <1>4, <1>5, RegistryInv, t \in Threads, HoleNone
<1>11. MirrorOK'
  <2>1. \A u \in Threads : th[u].pc # "addMirTab" /\ th'[u].pc # "addMirTab"
    BY <1>4, <1>5, NoMirror
  <2> QED BY <1>1, <2>1, MirrorStays
<1>12. MapOK'
  <2>1. /\ ownMap \in [0 .. MapSize - 1 -> Normal \cup {None}]
        /\ \A c \in 0 .. MapSize - 1 : ownMap[c] # None => MapCell(ownMap[c]) = c /\ ownMap[c] \notin gone
        /\ \A u \in Threads : th[u].pc \in {"addMirTab", "addMirCap", "addMap"} => th[u].b = "slab"
    BY DEF LookupInv, MapOK
  <2>2. PICK x \in 0 .. MapSize - 1 : x = MapCell(k)
    BY MapCellIs
  <2>3. ownMap' = IF k \in Normal /\ ownMap[x] = k THEN [ownMap EXCEPT ![x] = None] ELSE ownMap
    BY <1>2, <2>2 DEF DelSeq
  <2>4. k # None
    BY KindIs
  <2>5. ownMap' \in [0 .. MapSize - 1 -> Normal \cup {None}]
    BY ONLY <2>1, <2>3
  <2>6. \A c \in 0 .. MapSize - 1 : ownMap'[c] # None => ownMap'[c] = ownMap[c] /\ ownMap'[c] # k
    <3>1. SUFFICES ASSUME NEW c \in 0 .. MapSize - 1, ownMap'[c] # None
                   PROVE  ownMap'[c] = ownMap[c] /\ ownMap'[c] # k
      OBVIOUS
    <3>2. ownMap'[c] = ownMap[c]
      BY ONLY <2>1, <2>3, <3>1
    <3>3. ASSUME ownMap[c] = k
          PROVE  FALSE
      <4>1. c = x /\ k \in Normal
        BY <2>1, <2>2, <2>4, <3>3
      <4>2. ownMap'[c] = None
        BY ONLY <2>1, <2>3, <3>3, <4>1, c \in 0 .. MapSize - 1
      <4> QED BY <3>1, <4>2
    <3> QED BY <3>2, <3>3
  <2>7. \A c \in 0 .. MapSize - 1 : ownMap'[c] # None => MapCell(ownMap'[c]) = c /\ ownMap'[c] \notin gone'
    BY ONLY <1>6, <2>1, <2>6
  <2>8. \A u \in Threads : th'[u].pc \in {"addMirTab", "addMirCap", "addMap"} => th'[u].b = "slab"
    <3>1. th'[t] = r /\ \A u \in Threads : u # t => th'[u] = th[u]
      BY <1>4, BecomesIs DEF RegistryInv
    <3> QED BY <1>4, <2>1, <3>1
  <2> QED BY ONLY <2>5, <2>7, <2>8 DEF MapOK
<1> QED BY <1>7, <1>9, <1>10, <1>11, <1>12 DEF LookupInv

\* A step of a deletion: what it writes, and the lookups it tells that a cell was emptied.
LEMMA ErasedIs ==
  ASSUME RegistryInv, LookupInv, NEW t, NEW b, NEW g, NEW i, NEW j, NEW q, NEW e, ErasesAt(t, b, g, i, j, q, e),
         gone' = gone
  PROVE  /\ \A d \in Kinds : Len(gens'[d]) = Len(gens[d]) /\ (d # b => gens'[d] = gens[d])
         /\ \A y \in 1 .. Len(gens[b]) : y # cur[b] => gens'[b][y] = gens[b][y]
         /\ NoneGone(g, gens'[b][cur[b]])
         /\ gens'[b][cur[b]] = g \/ \E x \in {e, None} :
               /\ \A c \in 0 .. g.cap - 1 : gens'[b][cur[b]].tab[c] = IF c = i THEN x ELSE g.tab[c]
               /\ x = None => Meet(PastCell(b, i), "emptied")
         /\ th'[t].pc = "delErase" => e # None
         /\ e \notin gone
<1>1. /\ b \in Kinds /\ g = Current(b) /\ g.cap \in Nat \ {0} /\ g.tab \in [0..(g.cap - 1) -> Entries]
      /\ i \in 0..(g.cap - 1) /\ q \in 0..(g.cap - 1) /\ e \in Entries /\ e = g.tab[q] /\ cur' = cur
      /\ th'[t].pc \in DelPcs
      /\ th'[t].pc = "delErase" =>
           e # None /\ (gens' = [gens EXCEPT ![b][cur[b]].tab[i] = e] \/ gens' = gens)
      /\ th'[t].pc = "delSeq" =>
           gens' = [gens EXCEPT ![b][cur[b]].tab[i] = None] /\ Meet(PastCell(b, i), "emptied")
  BY DEF ErasesAt
<1>2. None \notin gone /\ None \in Entries
  BY KindIs DEF RegistryInv, KeysOK, Entries
<1>3. e \notin gone
  <2>1. SUFFICES ASSUME e \in gone
                 PROVE  FALSE
    OBVIOUS
  <2>2. e \notin Held(g.tab, g.cap)
    BY <1>1, <2>1, CurrentClean DEF LookupInv
  <2> QED BY ONLY <1>1, <1>2, <2>1, <2>2 DEF Held
<1>4. CASE gens' = gens
  <2>1. NoneGone(g, g) /\ gens'[b][cur[b]] = g
    BY <1>1, <1>4 DEF NoneGone, Current
  <2>2. th'[t].pc = "delErase" => e # None
    BY <1>1
  <2> QED BY ONLY <1>3, <1>4, <2>1, <2>2
<1>5. ASSUME NEW x \in {e, None}, gens' = [gens EXCEPT ![b][cur[b]].tab[i] = x],
             x = None => Meet(PastCell(b, i), "emptied")
      PROVE  /\ \A d \in Kinds : Len(gens'[d]) = Len(gens[d]) /\ (d # b => gens'[d] = gens[d])
             /\ \A y \in 1 .. Len(gens[b]) : y # cur[b] => gens'[b][y] = gens[b][y]
             /\ NoneGone(g, gens'[b][cur[b]])
             /\ \E z \in {e, None} :
                   /\ \A c \in 0 .. g.cap - 1 : gens'[b][cur[b]].tab[c] = IF c = i THEN z ELSE g.tab[c]
                   /\ z = None => Meet(PastCell(b, i), "emptied")
  <2>1. x \in Entries /\ x \notin gone
    BY <1>1, <1>2, <1>3
  <2>2. GensOK /\ i \in 0..(Current(b).cap - 1) /\ b \in Kinds /\ x \in Entries /\ cur' = cur
    BY <1>1, <2>1 DEF RegistryInv
  <2>9. gens' = [gens EXCEPT ![b][cur[b]].tab[i] = x]
    BY <1>5
  <2>3. Current(b)' = [tab |-> [Current(b).tab EXCEPT ![i] = x], cap |-> Current(b).cap]
    BY ONLY <2>2, <2>9, CellWritten, ZenonT(40)
  <2>4. /\ \A d \in Kinds : Len(gens'[d]) = Len(gens[d])
        /\ \A d \in Kinds : d # b => gens'[d] = gens[d]
        /\ \A y \in 1..Len(gens[b]) : y # cur[b] => gens'[b][y] = gens[b][y]
    BY ONLY <2>2, <2>9, CellWritten
  <2>5. PICK h : h = gens'[b][cur[b]]
    OBVIOUS
  <2>6. h = [tab |-> [g.tab EXCEPT ![i] = x], cap |-> g.cap]
    BY ONLY <1>1, <2>3, <2>5 DEF Current
  <2>7. h.cap = g.cap /\ \A c \in 0 .. g.cap - 1 : h.tab[c] = IF c = i THEN x ELSE g.tab[c]
    BY ONLY <1>1, <2>6
  <2>8. NoneGone(g, h)
    BY ONLY <2>1, <2>7, gone' = gone DEF NoneGone
  <2> QED BY ONLY <1>5, <2>4, <2>5, <2>7, <2>8
<1> QED BY ONLY <1>1, <1>3, <1>4, <1>5 DEF DelPcs

\* The deletion of t tells every lookup of another thread, in the tables of its kind, that it is under way.
LEMMA DelEraseLooks ==
  ASSUME RegistryInv, SearchInv, LookupInv, NEW t \in Threads, DelErase(t)
  PROVE  LookupInv'
<1>1. /\ th[t].pc = "delErase" /\ UNCHANGED <<cur, mir, seq, lock, ownMap, live, gone, was, absent>>
  BY DEF DelErase
<1>2. PICK b, g, i, j, q, e : ErasesAt(t, b, g, i, j, q, e)
  BY Erasing DEF SearchInv
<1>3. /\ b \in Kinds /\ b = th[t].b /\ g = Current(b) /\ g.cap \in Nat \ {0}
      /\ g.tab \in [0..(g.cap - 1) -> Entries]
      /\ i \in 0..(g.cap - 1) /\ q \in 0..(g.cap - 1) /\ q # i /\ e = g.tab[q]
      /\ th'[t].b = b /\ th'[t].pc \in DelPcs
      /\ th'[t].pc = "delErase" =>
           /\ met' = met
           /\ \/ th'[t].i = q /\ gens' = [gens EXCEPT ![b][cur[b]].tab[i] = e]
              \/ th'[t].i = i /\ gens' = gens
      /\ th'[t].pc = "delSeq" => Meet(PastCell(b, i), "emptied")
  BY <1>2 DEF ErasesAt
<1>4. /\ \A d \in Kinds : Len(gens'[d]) = Len(gens[d]) /\ (d # b => gens'[d] = gens[d])
      /\ \A y \in 1 .. Len(gens[b]) : y # cur[b] => gens'[b][y] = gens[b][y]
      /\ NoneGone(g, gens'[b][cur[b]])
      /\ gens'[b][cur[b]] = g \/ \E x \in {e, None} :
            /\ \A c \in 0 .. g.cap - 1 : gens'[b][cur[b]].tab[c] = IF c = i THEN x ELSE g.tab[c]
            /\ x = None => Meet(PastCell(b, i), "emptied")
      /\ e \notin gone
  BY <1>1, <1>2, ErasedIs
<1>5. \A u \in Threads : u # t => th'[u] = th[u]
  BY Acts DEF Step
<1>6. \A u \in Threads : u # t => th[u].pc \notin Locked
  <2>1. th[t].pc \in Locked
    BY <1>1 DEF Locked, Writing
  <2> QED BY <2>1, Holder
<1>7. ~Looking(t) /\ ~Looking(t)' /\ \A u \in Threads : Looking(u)' <=> Looking(u)
  <2>1. ~Looking(t) /\ ~Looking(t)'
    BY <1>1, <1>3 DEF Looking, Writing, DelPcs
  <2> QED BY ONLY <1>5, <2>1 DEF Looking
<1>8. /\ met = [u \in Threads |-> met[u]] /\ was \cup absent \subseteq {u \in Threads : Looking(u)}
      /\ \A u \in Threads : Looking(u) => Reader(u, th[u], met[u])
  BY DEF LookupInv, ReadersOK
<1>9. met' = [u \in Threads |-> met'[u]] /\ \A u \in Threads : met[u] \subseteq met'[u]
  <2>1. CASE met' = met
    BY <1>8, <2>1
  <2>2. CASE Meet(PastCell(b, i), "emptied")
    <3>1. PICK P : P = PastCell(b, i)
      OBVIOUS
    <3>2. met' = [u \in Threads |-> IF u \in P THEN met[u] \cup {"emptied"} ELSE met[u]]
      BY ONLY <2>2, <3>1 DEF Meet
    <3> QED BY ONLY <3>2
  <2> QED BY <1>3, <2>1, <2>2 DEF DelPcs
<1>10. \A d \in Kinds : \A y \in 1 .. Len(gens[d]) :
          /\ y \in 1 .. Len(gens'[d]) /\ gens[d][y].cap \in Nat
          /\ NoneGone(gens[d][y], gens'[d][y])
          /\ d = b \/ Filled(gens[d][y], gens'[d][y])
          /\ (d = b /\ y = cur[b]) \/ gens'[d][y] = gens[d][y]
  <2>1. SUFFICES ASSUME NEW d \in Kinds, NEW y \in 1 .. Len(gens[d])
                 PROVE  /\ y \in 1 .. Len(gens'[d]) /\ gens[d][y].cap \in Nat
                        /\ NoneGone(gens[d][y], gens'[d][y])
                        /\ d = b \/ Filled(gens[d][y], gens'[d][y])
                        /\ (d = b /\ y = cur[b]) \/ gens'[d][y] = gens[d][y]
    OBVIOUS
  <2>2. y \in 1 .. Len(gens'[d]) /\ gens[d][y].cap \in Nat
    BY <1>4, <2>1, GenOfIs
  <2>3. CASE d = b /\ y = cur[b]
    <3>1. gens[d][y] = g /\ gens'[d][y] = gens'[b][cur[b]]
      BY <1>3, <2>3 DEF Current
    <3> QED BY ONLY <1>4, <2>2, <2>3, <3>1
  <2>4. CASE ~(d = b /\ y = cur[b])
    <3>1. gens'[d][y] = gens[d][y]
      BY ONLY <1>4, <2>1, <2>4
    <3> QED BY ONLY <2>2, <2>4, <3>1 DEF NoneGone, Filled
  <2> QED BY ONLY <2>3, <2>4
<1>11. ReadersOK'
  <2>1. was' \cup absent' \subseteq {u \in Threads : Looking(u)'}
    BY ONLY <1>1, <1>7, <1>8
  <2>2. ASSUME NEW u \in Threads, Looking(u)', NEW r, NEW w, r = th'[u], w = met'[u]
        PROVE  Reader(u, r, w)'
    <3>1. u # t /\ r = th[u] /\ Looking(u)
      BY ONLY <1>5, <1>7, <2>2
    <3>2. PICK m : m = met[u]
      OBVIOUS
    <3>3. Reader(u, r, m) /\ m \subseteq w /\ r.key \in Keys
      BY <1>8, <1>9, <2>2, <3>1, <3>2, LookingIs DEF RegistryInv
    <3>4. r.b \in Kinds /\ r.s0 \in Nat /\ r.s0 <= seq
      BY <3>3 DEF Reader, Bounds
    <3>5. (u \in absent' => u \in absent /\ r.key \in gone') /\ (u \in was' => u \in was /\ r.key \in live')
      BY <1>1, <3>1, GhostKeys
    <3>6. r.b = b => Danger(u, r)'
      <4>1. "delErase" \in {"delErase", "delSeq"} /\ DelPcs = {"delErase", "delSeq"}
        BY DEF DelPcs
      <4> QED BY ONLY <1>3, <3>1, <4>1, t \in Threads DEF Danger, Deleting
    <3>7. Danger(u, r) => Danger(u, r)'
      <4>1. CASE r.s0 < seq
        BY ONLY <1>1, <4>1 DEF Danger
      <4>2. CASE Deleting(u, r.b)
        <5>1. PICK v \in Threads \ {u} : th[v].pc \in {"delErase", "delSeq"} /\ th[v].b = r.b
          BY <4>2 DEF Deleting
        <5>2. CASE v = t
          BY <1>3, <3>6, <5>1, <5>2
        <5>3. CASE v # t
          <6>1. th'[v] = th[v]
            BY <1>5, <5>3
          <6> QED BY ONLY <5>1, <6>1 DEF Danger, Deleting
        <5> QED BY <5>2, <5>3
      <4> QED BY <4>1, <4>2 DEF Danger
    <3>8. \A y \in 1 .. Len(gens[r.b]) :
            /\ y \in 1 .. Len(gens'[r.b]) /\ gens[r.b][y].cap \in Nat
            /\ NoneGone(gens[r.b][y], gens'[r.b][y])
            /\ Danger(u, r)' \/ Filled(gens[r.b][y], gens'[r.b][y])
      BY ONLY <1>10, <3>4, <3>6
    <3>9. r.pc = "bigSeq" /\ u \in was' /\ KindOf(r.key) = r.b =>
            ((r.g = cur[r.b] \/ Located(GenOf(r), r.key)) => (r.g = cur[r.b] \/ Located(GenOf(r), r.key))')
      <4>1. SUFFICES ASSUME r.pc = "bigSeq", r.g # cur[r.b], Located(GenOf(r), r.key)
                     PROVE  Located(GenOf(r), r.key)'
        BY <1>1
      <4>2. r.g \in 1 .. Len(gens[r.b])
        BY <3>3, <4>1 DEF Reader, Bounds, Placed
      <4>3. gens'[r.b][r.g] = gens[r.b][r.g]
        BY ONLY <1>10, <3>4, <4>1, <4>2
      <4> QED BY ONLY <4>1, <4>3 DEF Located, GenOf
    <3>10. Unpassed(r, w)'
      <4>1. SUFFICES ASSUME r.pc = "probe", "emptied" \notin w, r.cap = GenOf(r)'.cap
                     PROVE  Passed(r, GenOf(r)')
        BY DEF Unpassed, GenOf
      <4>2. r.g \in 1 .. Len(gens[r.b]) /\ Unpassed(r, m) /\ "emptied" \notin m
        BY <3>3, <4>1 DEF Reader, Bounds, Placed
      <4>3. CASE GenOf(r)' = GenOf(r)
        BY <4>1, <4>2, <4>3 DEF Unpassed
      <4>4. CASE GenOf(r)' # GenOf(r)
        <5>1. r.b = b /\ r.g = cur[b]
          BY ONLY <1>10, <3>4, <4>2, <4>4 DEF GenOf
        <5>2. PICK h : h = GenOf(r)'
          OBVIOUS
        <5>3. GenOf(r) = g /\ h = gens'[b][cur[b]] /\ h # g
          BY ONLY <1>3, <4>4, <5>1, <5>2 DEF GenOf, Current
        <5>4. h.cap = g.cap /\ r.cap = g.cap
          BY ONLY <1>4, <4>1, <5>2, <5>3 DEF NoneGone
        <5>5. Passed(r, g)
          BY ONLY <4>1, <4>2, <5>3, <5>4 DEF Unpassed
        <5>6. PICK x \in {e, None} :
                /\ \A c \in 0 .. g.cap - 1 : h.tab[c] = IF c = i THEN x ELSE g.tab[c]
                /\ x = None => Meet(PastCell(b, i), "emptied")
          BY ONLY <1>4, <5>3
        <5>7. CASE x # None
          BY ONLY <5>2, <5>4, <5>5, <5>6, <5>7 DEF Passed
        <5>8. CASE x = None
          <6>1. u \notin PastCell(b, i)
            <7>1. PICK P : P = PastCell(b, i)
              OBVIOUS
            <7>2. met' = [v \in Threads |-> IF v \in P THEN met[v] \cup {"emptied"} ELSE met[v]]
              BY ONLY <5>6, <5>8, <7>1 DEF Meet
            <7> QED BY ONLY <2>2, <4>1, <7>1, <7>2
          <6>2. ~(Dist(ProbeOf(r.key, r.cap), i, r.cap) < Dist(ProbeOf(r.key, r.cap), r.i, r.cap))
            BY ONLY <3>1, <4>1, <5>1, <6>1, u \in Threads DEF PastCell
          <6> QED BY ONLY <5>2, <5>4, <5>5, <5>6, <6>2 DEF Passed
        <5> QED BY <5>2, <5>7, <5>8
      <4> QED BY <4>3, <4>4
    <3>11. seq \in Nat /\ seq' \in Nat /\ seq <= seq' /\ mir.cap \in Nat /\ mir'.cap \in Nat /\ mir.cap <= mir'.cap
      BY <1>1, GhostKeys
    <3> QED BY ONLY <3>3, <3>5, <3>7, <3>8, <3>9, <3>10, <3>11, ReaderStays
  <2> QED BY ONLY <1>9, <2>1, <2>2, ReadersFrom
<1>12. HoleOK'
  <2>1. SUFFICES ASSUME th'[t].pc = "delErase"
                 PROVE  gens'[b][cur[b]].tab[th'[t].i] \notin gone
    BY <1>1, <1>3, <1>5, <1>6 DEF HoleOK, Current, Locked, Writing
  <2>2. CASE th'[t].i = i /\ gens' = gens
    <3>1. i = th[t].i
      BY <1>2 DEF ErasesAt
    <3> QED BY <1>1, <1>3, <2>2, <3>1 DEF LookupInv, HoleOK, Current
  <2>3. CASE th'[t].i = q /\ gens' # gens
    <3>1. gens'[b][cur[b]].tab[q] = g.tab[q]
      BY ONLY <1>3, <1>4, <2>3
    <3> QED BY ONLY <1>3, <1>4, <2>3, <3>1
  <2>4. CASE th'[t].i = q /\ gens' = gens
    BY ONLY <1>3, <1>4, <2>4 DEF Current
  <2> QED BY ONLY <1>3, <2>1, <2>2, <2>3, <2>4
<1>13. MapOK'
  <2>1. \A u \in Threads : th'[u].pc \in {"addMirTab", "addMirCap", "addMap"} => th'[u] = th[u]
    BY <1>3, <1>5 DEF DelPcs
  <2> QED BY ONLY <1>1, <2>1, LookupInv DEF LookupInv, MapOK
<1>14. MirrorOK'
  <2>1. \A u \in Threads : th[u].pc # "addMirTab" /\ th'[u].pc # "addMirTab"
    BY <1>1, <1>3, <1>5, <1>6 DEF DelPcs, Locked, Writing
  <2>2. "slab" \in Kinds /\ mir.tab \in 1 .. Len(gens["slab"])
    BY DEF Kinds, LookupInv, MirrorOK
  <2>3. Len(gens'["slab"]) = Len(gens["slab"]) /\ gens'["slab"][mir.tab].cap = gens["slab"][mir.tab].cap
    BY ONLY <1>4, <1>10, <2>2 DEF NoneGone
  <2> QED BY ONLY <1>1, <2>1, <2>3, LookupInv, MirrorQuiet
<1>15. seq' \in Nat
  BY <1>1, GhostKeys
<1> QED BY <1>11, <1>12, <1>13, <1>14, <1>15 DEF LookupInv

LEMMA InitLookup ==
  Init => LookupInv
<1>1. SUFFICES ASSUME Init
               PROVE  LookupInv
  OBVIOUS
<1>2. /\ gens = [b \in Kinds |-> <<Gen0>>] /\ cur = [b \in Kinds |-> 1]
      /\ mir = [tab |-> 1, cap |-> 0] /\ seq = 0
      /\ ownMap = [c \in 0 .. MapSize - 1 |-> None]
      /\ th = [t \in Threads |-> Idle] /\ was = {} /\ absent = {}
      /\ met = [t \in Threads |-> {}]
  BY <1>1 DEF Init
<1>3. \A t \in Threads : th[t].pc = "idle" /\ ~Looking(t)
  BY <1>2 DEF Idle, Looking
<1>4. HoleOK
  BY <1>3 DEF HoleOK
<1>5. MapOK
  BY <1>2, <1>3 DEF MapOK
<1>6. MirrorOK
  <2>1. gens["slab"] = <<Gen0>> /\ cur["slab"] = 1
    BY <1>2 DEF Kinds
  <2>2. Len(gens["slab"]) = 1 /\ gens["slab"][1].cap = 0
    BY ONLY <2>1 DEF Gen0
  <2>3. mir.tab = 1 /\ mir.cap = 0 /\ mir = [tab |-> mir.tab, cap |-> mir.cap]
    BY ONLY <1>2
  <2> QED BY ONLY <1>3, <2>1, <2>2, <2>3 DEF MirrorOK
<1>7. ReadersOK
  BY <1>2, <1>3 DEF ReadersOK
<1>8. seq \in Nat
  BY <1>2
<1> QED BY <1>4, <1>5, <1>6, <1>7, <1>8 DEF LookupInv

LEMMA LookupInvIsInvariant ==
  Spec => [](RegistryInv /\ SearchInv /\ LookupInv)
<1>1. ASSUME RegistryInv, SearchInv, LookupInv, [Next]_vars
      PROVE  LookupInv'
  <2>1. CASE Next
    <3>1. PICK t \in Threads : Step(t)
      BY <2>1 DEF Next
    <3>2. CASE \E k \in Keys : AddCall(t, k)
      BY <1>1, <3>2, AddCallLooks
    <3>3. CASE \E k \in Keys : DelLock(t, k)
      BY <1>1, <3>3, DelLockLooks
    <3>4. CASE \E k \in Keys : Lookup(t, k)
      BY <1>1, <3>4, LookupReads
    <3>5. CASE AddLock(t)
      BY <1>1, <3>5, AddLockLooks
    <3>6. CASE AddGrow(t)
      BY <1>1, <3>6, AddGrowLooks
    <3>7. CASE AddMirTab(t) \/ AddMirCap(t)
      BY <1>1, <3>7, AddMirLooks
    <3>8. CASE AddCell(t)
      BY <1>1, <3>8, AddCellLooks
    <3>9. CASE AddMap(t)
      BY <1>1, <3>9, AddMapLooks
    <3>10. CASE AddSeq(t)
      BY <1>1, <3>10, AddSeqLooks
    <3>11. CASE DelErase(t)
      BY <1>1, <3>11, DelEraseLooks
    <3>12. CASE DelSeq(t)
      BY <1>1, <3>12, DelSeqLooks
    <3>13. CASE LookupMap(t)
      BY <1>1, <3>13, LookupMapReads
    <3>14. CASE FastSeq(t)
      BY <1>1, <3>14, FastSeqReads
    <3>15. CASE Fast(t)
      BY <1>1, <3>15, FastReads
    <3>16. CASE Probe(t)
      BY <1>1, <3>16, ProbeReads
    <3>17. CASE ProbeOutside(t)
      BY <1>1, <3>17, ProbeOutsideReads
    <3>18. CASE Deref(t)
      BY <1>1, <3>18, DerefReads
    <3>19. CASE MissCounts(t)
      BY <1>1, <3>19, MissCountsReads
    <3>20. CASE MissRetries(t)
      BY <1>1, <3>20, MissRetriesReads
    <3>21. CASE FindGen(t)
      BY <1>1, <3>21, FindGenReads
    <3>22. CASE FindLock(t)
      BY <1>1, <3>22, FindLockReads
    <3>23. CASE BigGen(t)
      BY <1>1, <3>23, BigGenReads
    <3>24. CASE BigSeq(t)
      BY <1>1, <3>24, BigSeqReads
    <3>25. CASE Return(t)
      BY <1>1, <3>25, ReturnReads
    <3> QED BY <3>1, <3>2, <3>3, <3>4, <3>5, <3>6, <3>7, <3>8, <3>9, <3>10, <3>11, <3>12, <3>13, <3>14,
               <3>15, <3>16, <3>17, <3>18, <3>19, <3>20, <3>21, <3>22, <3>23, <3>24, <3>25 DEF Step
  <2>2. CASE UNCHANGED vars
    <3>1. UNCHANGED <<gens, cur, n, mir, seq, live, gone, was, absent, met, ownMap, th>>
      BY <2>2 DEF vars, tables, ghosts
    <3>2. MapOK' /\ HoleOK' /\ seq' \in Nat
      BY ONLY <1>1, <3>1 DEF LookupInv, HoleOK, MapOK, Current
    <3>3. MirrorOK'
      BY ONLY <1>1, <3>1, MirrorStays
    <3>4. ReadersOK'
      BY ONLY <1>1, <3>1 DEF LookupInv, ReadersOK, Reader, Bounds, Clean, Finds, Unpassed, GenOf, Danger,
                              Deleting, Looking
    <3> QED BY ONLY <3>2, <3>3, <3>4 DEF LookupInv
  <2> QED BY <1>1, <2>1, <2>2
<1>2. RegistryInv /\ SearchInv /\ LookupInv /\ [Next]_vars => LookupInv'
  BY <1>1
<1> QED BY <1>2, InitLookup, SearchInvIsInvariant, PTL DEF Spec

\* LookupSound: a lookup that takes no lock finds every slab that was registered all the
\* time it took, finds nothing at an address no table held since it began, and reads no
\* cell outside the table it probes, at every point of the registrations, deletions and
\* growth of others, unless it met one of the events of met that its clause names
\* (extc_rc_ownSlab, extc_rc_ownProbeFast, extc_rc_ownFind, extc_rc_ownBig).
THEOREM LookupsAnswer == Spec => []LookupSound
<1>1. ASSUME RegistryInv, LookupInv
      PROVE  LookupSound
  <2>1. /\ was \cup absent \subseteq {t \in Threads : Looking(t)}
        /\ \A t \in Threads : Looking(t) => Reader(t, th[t], met[t])
    BY <1>1 DEF LookupInv, ReadersOK
  <2>2. LookupFinds
    <3>1. SUFFICES ASSUME NEW t \in was, th[t].pc = "done",
                          met[t] \cap {"torn", "unsettled", "reloaded", "swapped"} = {}
                   PROVE  th[t].ans = th[t].key
      BY DEF LookupFinds
    <3>2. Finds(t, th[t], met[t])
      BY ONLY <2>1, <3>1 DEF Reader
    <3> QED BY ONLY <3>1, <3>2 DEF Finds, Bad
  <2>3. LookupAbsent
    <3>1. SUFFICES ASSUME NEW t \in absent, th[t].pc = "done", met[t] \cap {"hot", "swapped"} = {}
                   PROVE  th[t].ans = None
      BY DEF LookupAbsent
    <3>2. Clean(th[t], met[t])
      BY ONLY <2>1, <3>1 DEF Reader
    <3> QED BY ONLY <3>1, <3>2 DEF Clean
  <2>4. ASSUME NEW t \in Threads, Outside(t)
        PROVE  "swapped" \in met[t]
    <3>1. th[t].pc = "probe" /\ th[t].i >= gens[th[t].b][th[t].g].cap
      BY <2>4 DEF Outside
    <3>2. Looking(t)
      BY <3>1 DEF Looking, Writing
    <3>3. Bounds(th[t], met[t])
      BY <2>1, <3>2 DEF Reader
    <3>4. PICK r, g : r = th[t] /\ g = GenOf(r)
      OBVIOUS
    <3>5. /\ r.b \in Kinds /\ r.g \in 1 .. Len(gens[r.b]) /\ r.cap \in Nat \ {0} /\ r.i \in 0 .. r.cap - 1
          /\ r.cap <= g.cap \/ "swapped" \in met[t]
          /\ r.i >= g.cap
      BY ONLY <3>1, <3>3, <3>4 DEF Bounds, Placed, GenOf
    <3>6. g.cap \in Nat
      BY <1>1, <3>4, <3>5, GenOfIs DEF GenOf
    <3>7. PICK rcap \in Nat \ {0}, ri \in Nat, gcap \in Nat :
              rcap = r.cap /\ ri = r.i /\ gcap = g.cap /\ ri < rcap
      BY ONLY <3>5, <3>6
    <3>8. ~(rcap <= gcap)
      BY ONLY <3>5, <3>7
    <3> QED BY ONLY <3>5, <3>7, <3>8
  <2> QED BY <2>2, <2>3, <2>4 DEF LookupSound, ProbeInBounds
<1>2. RegistryInv /\ LookupInv => LookupSound
  BY <1>1
<1> QED BY <1>2, LookupInvIsInvariant, PTL

LEMMA ProbeGoesOn ==
  ASSUME RegistryInv, LookupInv, RoomOK, NEW t \in Threads, Probe(t), NEW r, r = th[t], NEW s, s = th'[t],
         s.pc = "probe", "emptied" \notin met[t], ~Tears(t)
  PROVE  Dist(ProbeOf(r.key, r.cap), r.i, r.cap) < Dist(ProbeOf(s.key, s.cap), s.i, s.cap)
<1>1. r.pc = "probe" /\ th[t].pc \in LookPcs /\ DOMAIN th = Threads
  BY DEF Probe, LookPcs, RegistryInv, ThreadsOK
<1>2. Looks(r) /\ r.key \in Keys /\ Reader(t, r, met[t])
  BY <1>1, Lookups
<1>3. PICK g : g = GenOf(r)
  OBVIOUS
<1>4. /\ r.b \in Kinds /\ r.g \in 1 .. Len(gens[r.b]) /\ r.cap # 0 /\ r.i \in 0 .. r.cap - 1
      /\ Unpassed(r, met[t])
  BY <1>1, <1>2 DEF Reader, Bounds, Placed
<1>5. r.cap = g.cap /\ r.i \in 0 .. r.cap - 1 /\ Passed(r, g)
  BY <1>1, <1>3, <1>4 DEF Tears, Unpassed, GenOf
<1>6. PICK cap \in Nat \ {0} : cap = r.cap /\ cap = g.cap
  <2>1. g.cap \in Nat
    BY <1>3, <1>4, GenOfIs DEF GenOf
  <2> QED BY <1>4, <1>5, <2>1
<1>7. PICK k \in Keys : k = r.key
  BY <1>2
<1>8. PICK h \in 0..(cap - 1) : h = ProbeOf(k, cap)
  BY ProbeRange
<1>9. PICK i \in 0..(cap - 1) : i = r.i
  BY <1>5, <1>6
<1>10. PICK q : q = (i + 1) % cap
  OBVIOUS
<1>11. PICK e : e = g.tab[i]
  OBVIOUS
<1>12. th' = IF e \notin {None, k} THEN [th EXCEPT ![t].i = (@ + 1) % th[t].cap]
             ELSE [th EXCEPT ![t].pc = "deref", ![t].ans = e]
  BY ONLY <1>3, <1>7, <1>9, <1>11, Probe(t), r = th[t] DEF Probe, GenOf
<1>13. e # None /\ s.key = k /\ s.cap = cap /\ s.i = q
  <2>1. CASE e \in {None, k}
    <3>1. s = [r EXCEPT !.pc = "deref", !.ans = e]
      BY ONLY <1>1, <1>12, <2>1, t \in Threads, r = th[t], s = th'[t]
    <3>2. s.pc = "deref"
      BY ONLY <1>2, <3>1 DEF Looks
    <3> QED BY <3>2
  <2>2. CASE e \notin {None, k}
    <3>1. s = [r EXCEPT !.i = q]
      BY ONLY <1>1, <1>6, <1>9, <1>10, <1>12, <2>2, t \in Threads, r = th[t], s = th'[t]
    <3>2. s.key = r.key /\ s.cap = r.cap /\ s.i = q
      BY ONLY <1>2, <3>1 DEF Looks
    <3> QED BY <1>6, <1>7, <2>2, <3>2
  <2> QED BY <2>1, <2>2
<1>14. PICK c \in 0..(cap - 1) : g.tab[c] = None
  <2>1. HasRoom(g)
    BY <1>3, <1>4 DEF RoomOK, GenOf
  <2> QED BY <1>6, <2>1 DEF HasRoom
<1>15. /\ \A x \in 0..(cap - 1) : Dist(h, x, cap) \in 0..(cap - 1)
       /\ \A x, y \in 0..(cap - 1) : Dist(h, x, cap) = Dist(h, y, cap) => x = y
  BY Distances
<1>16. ~(Dist(h, c, cap) < Dist(h, i, cap))
  BY ONLY <1>5, <1>6, <1>7, <1>8, <1>9, <1>14 DEF Passed
<1>17. Dist(h, c, cap) # Dist(h, i, cap)
  BY <1>11, <1>13, <1>14, <1>15
<1>18. /\ q # h => Dist(h, q, cap) = Dist(h, i, cap) + 1
       /\ q = h => Dist(h, i, cap) = cap - 1
  BY ONLY <1>10, cap \in Nat \ {0}, h \in 0..(cap - 1), i \in 0..(cap - 1), NextDistance
<1>19. PICK x \in 0..(cap - 1), y \in 0..(cap - 1) : x = Dist(h, i, cap) /\ y = Dist(h, c, cap)
  BY <1>15
<1>20. x < y
  BY ONLY <1>16, <1>17, <1>19, x \in 0..(cap - 1), y \in 0..(cap - 1), cap \in Nat \ {0}
<1>21. q # h
  BY ONLY <1>18, <1>19, <1>20, x \in 0..(cap - 1), y \in 0..(cap - 1), cap \in Nat \ {0}
<1>22. Dist(h, i, cap) < Dist(h, q, cap)
  BY ONLY <1>18, <1>19, <1>21, x \in 0..(cap - 1), cap \in Nat \ {0}
<1> QED BY ONLY <1>6, <1>7, <1>8, <1>9, <1>13, <1>22

LEMMA EraseGoesOn ==
  ASSUME RegistryInv, SearchInv, NEW t \in Threads, DelErase(t), th'[t].pc = "delErase"
  PROVE  Ahead(t)' \subseteq Ahead(t) /\ Ahead(t)' # Ahead(t)
<1>1. PICK b, g, i, j, q, e : ErasesAt(t, b, g, i, j, q, e)
  BY Erasing DEF SearchInv
<1>2. /\ b \in Kinds /\ b = th[t].b /\ g = Current(b) /\ j = th[t].j /\ q = (j + 1) % g.cap
      /\ g.cap \in Nat \ {0} /\ g.tab \in [0..(g.cap - 1) -> Entries]
      /\ i \in 0..(g.cap - 1) /\ j \in 0..(g.cap - 1) /\ q \in 0..(g.cap - 1) /\ q # i
      /\ g.tab[i] # None /\ g.tab[j] # None /\ e \in Entries /\ e = g.tab[q]
      /\ e # None /\ cur' = cur /\ th'[t].b = b /\ th'[t].j = q
      /\ \/ th'[t].i = q /\ gens' = [gens EXCEPT ![b][cur[b]].tab[i] = e]
         \/ th'[t].i = i /\ gens' = gens
  BY <1>1 DEF ErasesAt
<1>3. PICK cap \in Nat \ {0} : cap = g.cap
  BY <1>2
<1>4. PICK Z : Z = {z \in 0..(cap - 1) : g.tab[z] = None}
  OBVIOUS
<1>5. Z # {}
  <2>1. HasRoom(g)
    BY <1>2, CurrentRoom
  <2> QED BY <1>3, <1>4, <2>1 DEF HasRoom
<1>6. Z \subseteq 0..(cap - 1) /\ j \notin Z /\ j \in 0..(cap - 1) /\ q = (j + 1) % cap
  BY ONLY <1>2, <1>3, <1>4
<1>7. PICK v : v = Current(b)'
  OBVIOUS
<1>8. v.cap = cap /\ \A z \in 0..(cap - 1) : v.tab[z] = None <=> g.tab[z] = None
  <2>1. CASE gens' = gens
    BY <1>2, <1>3, <1>7, <2>1 DEF Current
  <2>2. CASE gens' = [gens EXCEPT ![b][cur[b]].tab[i] = e]
    <3>1. GensOK /\ i \in 0..(Current(b).cap - 1) /\ b \in Kinds /\ e \in Entries /\ cur' = cur
      BY <1>2 DEF RegistryInv
    <3>2. Current(b)' = [tab |-> [Current(b).tab EXCEPT ![i] = e], cap |-> Current(b).cap]
      BY ONLY <2>2, <3>1, CellWritten, ZenonT(40)
    <3>3. v.tab = [g.tab EXCEPT ![i] = e] /\ v.cap = cap
      <4>1. g = Current(b)
        BY <1>2
      <4> QED BY ONLY <1>3, <1>7, <3>2, <4>1
    <3> QED BY ONLY <1>2, <1>3, <3>3
  <2> QED BY <1>2, <2>1, <2>2
<1>11. Ahead(t) = Before(cap, Z, j)
  <2>1. Ahead(t) = {c \in 0 .. g.cap - 1 : \A z \in 0 .. g.cap - 1 :
                       g.tab[z] = None => Dist(th[t].j, c, g.cap) < Dist(th[t].j, z, g.cap)}
    BY ONLY <1>2 DEF Ahead, Current
  <2>2. th[t].j = j
    BY <1>2
  <2> QED BY ONLY <1>3, <1>4, <2>1, <2>2 DEF Before
<1>12. Ahead(t)' = Before(cap, Z, q)
  <2>1. Ahead(t)' = {c \in 0 .. v.cap - 1 : \A z \in 0 .. v.cap - 1 :
                        v.tab[z] = None => Dist(th'[t].j, c, v.cap) < Dist(th'[t].j, z, v.cap)}
    BY ONLY <1>2, <1>7 DEF Ahead, Current
  <2>2. th'[t].j = q
    BY <1>2
  <2> QED BY ONLY <1>4, <1>8, <2>1, <2>2 DEF Before
<1>13. Before(cap, Z, q) \subseteq Before(cap, Z, j) /\ Before(cap, Z, q) # Before(cap, Z, j)
  BY ONLY <1>5, <1>6, cap \in Nat \ {0}, AheadShrinks
<1> QED BY <1>11, <1>12, <1>13

\* SearchesEnd: a lookup's probe never comes round to the cell it began at, whatever the
\* others register and move meanwhile, unless a deletion has emptied a cell it had passed
\* or it probes with another table's capacity, and every step of a deletion brings it nearer to the empty
\* cell that ends it: the loops of extc_rc_ownSlotOf and extc_rc_ownErase end.  The test of
\* extc_rc_ownAdd (a generation is at most half full) and the building of a generation give
\* every one of them, the published and the older ones, an empty cell.
THEOREM LoopsEnd == Spec => SearchesEnd
<1>1. ASSUME RegistryInv, LookupInv, SearchInv, Next
      PROVE  \A t \in Threads :
                LET r == th[t]
                    s == th'[t]
                IN /\ r.pc = "probe" /\ s.pc = "probe" /\ s # r /\ "emptied" \notin met[t] /\ ~Tears(t) =>
                         Dist(ProbeOf(r.key, r.cap), r.i, r.cap) < Dist(ProbeOf(s.key, s.cap), s.i, s.cap)
                   /\ r.pc = "delErase" /\ s.pc = "delErase" /\ s # r =>
                         Ahead(t)' \subseteq Ahead(t) /\ Ahead(t)' # Ahead(t)
  <2>1. PICK u \in Threads : Step(u)
    BY <1>1 DEF Next
  <2>2. TAKE t \in Threads
  <2>3. th'[t] # th[t] => t = u
    BY <1>1, <2>1, Acts
  <2>4. ASSUME th[t].pc = "probe", th'[t].pc = "probe", th'[t] # th[t], "emptied" \notin met[t], ~Tears(t),
               NEW r, r = th[t], NEW s, s = th'[t]
        PROVE  Dist(ProbeOf(r.key, r.cap), r.i, r.cap) < Dist(ProbeOf(s.key, s.cap), s.i, s.cap)
    <3>1. Probe(t)
      <4>1. Probe(t) \/ ProbeOutside(t)
        BY <1>1, <2>1, <2>3, <2>4, Acts
      <4>2. ASSUME ProbeOutside(t)
            PROVE  th'[t].pc = "done"
        <5>1. Looks(th[t])
          BY <1>1, <2>4, Lookups DEF LookPcs
        <5>2. PICK z : Answer(t, z)
          BY <4>2 DEF ProbeOutside
        <5>3. PICK x : Becomes(t, x) /\ x.pc = "done"
          BY <1>1, <5>1, <5>2, AnswersTo DEF RegistryInv
        <5> QED BY <1>1, <5>3, BecomesIs DEF RegistryInv
      <4> QED BY <2>4, <4>1, <4>2
    <3>2. RoomOK /\ s.pc = "probe"
      BY <1>1, <2>4 DEF SearchInv
    <3> QED BY ONLY <1>1, <2>4, <3>1, <3>2, t \in Threads, ProbeGoesOn
  <2>5. ASSUME th[t].pc = "delErase", th'[t].pc = "delErase", th'[t] # th[t]
        PROVE  Ahead(t)' \subseteq Ahead(t) /\ Ahead(t)' # Ahead(t)
    <3>1. DelErase(t)
      BY <1>1, <2>1, <2>3, <2>5, Acts
    <3> QED BY ONLY <1>1, <2>5, <3>1, t \in Threads, EraseGoesOn
  <2> QED BY ONLY <2>4, <2>5
<1>2. RegistryInv /\ LookupInv /\ SearchInv /\ [Next]_vars =>
        [\A t \in Threads :
            LET r == th[t]
                s == th'[t]
            IN /\ r.pc = "probe" /\ s.pc = "probe" /\ s # r /\ "emptied" \notin met[t] /\ ~Tears(t) =>
                     Dist(ProbeOf(r.key, r.cap), r.i, r.cap) < Dist(ProbeOf(s.key, s.cap), s.i, s.cap)
               /\ r.pc = "delErase" /\ s.pc = "delErase" /\ s # r =>
                     Ahead(t)' \subseteq Ahead(t) /\ Ahead(t)' # Ahead(t)]_vars
  BY <1>1
<1> QED BY <1>2, LookupInvIsInvariant, PTL DEF Spec, SearchesEnd
=============================================================================
