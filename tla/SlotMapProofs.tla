---------------------------- MODULE SlotMapProofs ----------------------------
(***************************************************************************)
(* Proofs about stl::pool<T> for every capacity, value set and contents of *)
(* fresh memory, in a program that shrinks a pool only when it is packed.  *)
(*                                                                         *)
(* What a slot's word means depends on the capacity, and clear leaves old  *)
(* words in place, so the words alone say nothing.  The invariant speaks   *)
(* of the slots that dense places, handles and the hole chain name.        *)
(***************************************************************************)
EXTENDS SlotMap, TLAPS, FiniteSetTheorems

DenseIdx == 0..(n - 1)
Names(d) == [slot |-> slots[d], gen |-> ent[slots[d]].gen, ep |-> epoch]

\* The columns exist exactly until release, and only an index after it traps.
Sized ==
  /\ IF owned THEN cap >= MinCap /\ epoch <= ClearMax ELSE cap = 0
  /\ broken => ~owned

\* A dense place and its slot name each other, and somebody was given the
\* handle.
DenseInv ==
  \A d \in DenseIdx :
    /\ slots[d] < cursor
    /\ ent[slots[d]].low = d + 1
    /\ Names(d) \in handles

\* A handle of this epoch names a slot used in this epoch, never a younger
\* generation than the slot's, and the slot's own only while the slot is live.
HandleInv ==
  \A h \in handles :
    /\ h.ep <= epoch
    /\ h.ep = epoch =>
         /\ h.slot < cursor
         /\ h.gen <= ent[h.slot].gen
         /\ h.gen = ent[h.slot].gen => \E d \in DenseIdx : slots[d] = h.slot

\* The hole after s on the chain.
Hop(s) == ent[s].low - cap - 2

\* H holds the chain that starts at holeHead: it is closed under Hop, no hop
\* leads back to the head, no two holes lead to the same one, no hole is live,
\* and there is room for all of them beside the live slots.
Chain(H) ==
  /\ holeHead \in H \cup {None}
  /\ \A s \in H : \A d \in DenseIdx : slots[d] # s
  /\ \A s \in H : Hop(s) \in H \cup {None}
  /\ \A s \in H : Hop(s) = holeHead => holeHead = None
  /\ \A s, t \in H : Hop(s) = Hop(t) /\ Hop(s) # None => s = t
  /\ Cardinality(H) + n <= cursor

ChainInv == \E H \in SUBSET (0..(cursor - 1)) : Chain(H)

\* What a user sees of an insert of v and of a remove of the value at dense
\* place d.
Added(v) ==
  LET h == [slot |-> slots'[n], gen |-> ent'[slots'[n]].gen, ep |-> epoch] IN
  /\ n' = n + 1 /\ epoch' = epoch
  /\ h \notin handles /\ handles' = handles \cup {h}
  /\ \A d \in DenseIdx : Names(d)' = Names(d) /\ vals'[d] = vals[d]
  /\ vals'[n] = v
  /\ \A i \in 0..(cursor - 1) : ent'[i].gen = ent[i].gen

Removed(d) ==
  /\ n' = n - 1 /\ epoch' = epoch /\ handles' = handles
  /\ \A e \in DenseIdx' : e # d => Names(e)' = Names(e) /\ vals'[e] = vals[e]
  /\ d # n - 1 => Names(d)' = Names(n - 1) /\ vals'[d] = vals[n - 1]
  /\ \A i \in 0..(cursor - 1) : ent'[i].gen >= ent[i].gen

SInv == TypeOK /\ Sized /\ DenseInv /\ HandleInv /\ ChainInv

-----------------------------------------------------------------------------
\* A set of holes is finite, and there are not more values than used slots.
LEMMA ChainSize ==
  ASSUME TypeOK, NEW H \in SUBSET (0..(cursor - 1)), Chain(H)
  PROVE  /\ IsFiniteSet(H)
         /\ Cardinality(H) \in Nat
         /\ n <= cursor
         /\ holeHead # None => n < cursor
<1>1. cursor \in Int /\ n \in Int
  BY SlotMapAssumption DEF TypeOK
<1>2. IsFiniteSet(0..(cursor - 1))
  BY <1>1, FS_Interval
<1>3. IsFiniteSet(H)
  BY <1>2, FS_Subset
<1>4. Cardinality(H) \in Nat
  BY <1>3, FS_CardinalityType
<1>5. holeHead # None => Cardinality(H) # 0
  BY <1>3, FS_EmptySet DEF Chain
<1> QED
  BY <1>1, <1>3, <1>4, <1>5 DEF Chain

\* The values of every type the proofs compute with.
LEMMA Types ==
  ASSUME TypeOK
  PROVE  /\ cap \in Nat /\ n \in Nat /\ cursor \in Nat /\ epoch \in Nat
         /\ holeHead \in Nat \cup {None} /\ holeHead \in Int
         /\ n <= cap /\ cursor <= cap
         /\ \A i \in 0..(cap - 1) : ent[i].gen \in Nat /\ ent[i].low \in Nat
         /\ \A i \in 0..(cap - 1) : slots[i] \in Nat
         /\ \A h \in handles : h.slot \in Nat /\ h.gen \in Nat /\ h.ep \in Nat
<1>1. /\ cap \in Nat /\ n \in Nat /\ cursor \in Nat /\ epoch \in Nat
      /\ holeHead \in Nat \cup {None} /\ holeHead \in Int
      /\ n <= cap /\ cursor <= cap
  BY SlotMapAssumption DEF TypeOK, Slots, None
<1>2. \A i \in 0..(cap - 1) : ent[i] \in [gen : 0..GenMax, low : Nat]
  BY DEF TypeOK
<1>3. \A i \in 0..(cap - 1) : slots[i] \in Nat
  BY DEF TypeOK, Slots
<1>4. \A h \in handles : h.slot \in Nat /\ h.gen \in Nat /\ h.ep \in Nat
  BY DEF TypeOK, Handles, Slots
<1> QED
  BY <1>1, <1>2, <1>3, <1>4

\* Different dense places have different slots.
LEMMA DenseInjective ==
  ASSUME TypeOK, DenseInv, NEW d \in DenseIdx, NEW e \in DenseIdx,
         slots[d] = slots[e]
  PROVE  d = e
  BY Types DEF DenseInv, DenseIdx

\* A handle that validates names its value's dense place.
LEMMA LivePlace ==
  ASSUME TypeOK, DenseInv, HandleInv, NEW h \in handles, pLive(h)
  PROVE  /\ Dense(ent[h.slot]) \in DenseIdx
         /\ slots[Dense(ent[h.slot])] = h.slot
         /\ h.slot < cursor
         /\ h = Names(Dense(ent[h.slot]))
<1>1. PICK d \in DenseIdx : slots[d] = h.slot
  BY DEF HandleInv, pLive
<1>2. d = Dense(ent[h.slot])
  BY <1>1, Types DEF DenseInv, DenseIdx, Dense
<1>3. h = [slot |-> h.slot, gen |-> h.gen, ep |-> h.ep]
  BY DEF TypeOK, Handles
<1> QED
  BY <1>1, <1>2, <1>3 DEF HandleInv, pLive, Names

\* The handle of a dense place validates.
LEMMA PlaceLive ==
  ASSUME TypeOK, DenseInv, NEW d \in DenseIdx
  PROVE  pLive(Names(d))
<1>1. slots[d] \in 0..(cap - 1) /\ ent[slots[d]].low = d + 1
  BY Types DEF DenseInv, DenseIdx
<1>2. ~pFree(ent[slots[d]])
  BY <1>1, Types DEF DenseIdx, pFree
<1> QED
  BY <1>1, <1>2, Types DEF Names, pLive

\* A handle of this epoch that does not validate is older than its slot.
LEMMA StaleOlder ==
  ASSUME TypeOK, DenseInv, HandleInv, NEW h \in handles, h.ep = epoch, ~pLive(h)
  PROVE  h.slot < cursor /\ h.gen < ent[h.slot].gen
<1>1. h.slot < cursor /\ h.gen <= ent[h.slot].gen
  BY DEF HandleInv
<1>2. ASSUME h.gen = ent[h.slot].gen PROVE FALSE
  <2>1. PICK d \in DenseIdx : slots[d] = h.slot
    BY <1>2 DEF HandleInv
  <2>2. h = Names(d)
    BY <1>2, <2>1 DEF TypeOK, Handles, Names
  <2> QED
    BY <2>2, PlaceLive
<1> QED
  BY <1>1, <1>2, Types

-----------------------------------------------------------------------------
\* What insert computes: it grows only without a hole, and the slot it takes
\* is inside the grown columns unless they were released.
LEMMA InsertSlot ==
  ASSUME SInv
  PROVE  LET s == IF holeHead >= 0 THEN holeHead ELSE cursor IN
         /\ GrownCap \in Nat /\ GrownCap >= cap
         /\ holeHead >= 0 => GrownCap = cap /\ s < cursor /\ n < cursor
         /\ owned => GrownCap >= MinCap /\ n < GrownCap /\ s < GrownCap
         /\ ~owned => GrownCap = 0 /\ n = 0
<1>1. PICK H \in SUBSET (0..(cursor - 1)) : Chain(H)
  BY DEF SInv, ChainInv
<1>2. n <= cursor /\ (holeHead # None => n < cursor)
  BY <1>1, ChainSize DEF SInv
<1>3. holeHead >= 0 => holeHead < cursor
  BY <1>1, Types DEF SInv, Chain, None
<1>4. holeHead >= 0 <=> holeHead # None
  BY Types DEF SInv, None
<1>5. /\ GrownCap \in Nat /\ GrownCap >= cap
      /\ holeHead >= 0 => GrownCap = cap
      /\ owned => GrownCap >= MinCap /\ (holeHead < 0 => cursor < GrownCap)
      /\ ~owned => GrownCap = 0 /\ n = 0
  <2>1. /\ cap \in Nat /\ n \in Nat /\ cursor \in Nat /\ holeHead \in Int
        /\ n <= cap /\ cursor <= cap
    BY Types DEF SInv
  <2>2. MinCap \in Nat /\ MinCap >= 2
    BY SlotMapAssumption
  <2>3. IF owned THEN cap >= MinCap ELSE cap = 0
    BY DEF SInv, Sized
  <2>4. cap \div 2 \in Nat /\ (cap >= 2 => cap \div 2 >= 1)
    BY <2>1
  <2> QED
    BY <2>1, <2>2, <2>3, <2>4 DEF GrownCap
<1> QED
  BY <1>2, <1>3, <1>4, <1>5, Types, SlotMapAssumption DEF SInv, Sized

\* insert keeps the invariant: the slot it takes has no handle of this epoch
\* with the slot's generation.
LEMMA InsertStep ==
  ASSUME SInv, NEW v \in Values, insert(v)
  PROVE  SInv' /\ (Trap \/ Added(v))
<1> DEFINE c == GrownCap
           E == Resized(ent, c, Zero)
           s == IF holeHead >= 0 THEN holeHead ELSE cursor
<1> USE DEF SInv
<1>1. PICK H \in SUBSET (0..(cursor - 1)) : Chain(H)
  BY DEF ChainInv
<1>2. CASE n >= c \/ s >= c
  <2>1. Trap
    BY <1>2 DEF insert
  <2>2. ~owned
    BY <1>2, InsertSlot, Types
  <2>3. TypeOK' /\ Sized'
    BY <2>1, <2>2 DEF Trap, TypeOK, Sized
  <2>4. DenseInv' /\ HandleInv' /\ ChainInv'
    BY <2>1 DEF Trap, DenseInv, HandleInv, ChainInv, Chain, DenseIdx, Names, Hop
  <2> QED
    BY <2>1, <2>3, <2>4
<1>3. CASE ~(n >= c \/ s >= c)
  <2>1. /\ c <= CapMax
        /\ ~broken
        /\ cap' = c
        /\ holeHead' = IF holeHead >= 0 THEN E[s].low - c - 2 ELSE holeHead
        /\ cursor' = IF holeHead >= 0 THEN cursor ELSE cursor + 1
        /\ ent' = [E EXCEPT ![s] = [gen |-> E[s].gen, low |-> n + 1]]
        /\ slots' = [Resized(slots, c, 0) EXCEPT ![n] = s]
        /\ vals' = [Resized(vals, c, v) EXCEPT ![n] = v]
        /\ n' = n + 1
        /\ handles' = handles \cup {[slot |-> s, gen |-> E[s].gen, ep |-> epoch]}
        /\ UNCHANGED <<epoch, owned, broken>>
    BY <1>3 DEF insert
  <2>2. /\ c \in Nat /\ c >= cap /\ owned
        /\ s \in 0..(c - 1) /\ n \in 0..(c - 1)
        /\ holeHead >= 0 => c = cap /\ s < cursor /\ n < cursor
    BY <1>3, InsertSlot, Types
  <2> HIDE DEF c, s
  <2>3. /\ E \in [0..(c - 1) -> [gen : 0..GenMax, low : Nat]]
        /\ \A i \in 0..(cap - 1) : E[i] = ent[i]
    BY <2>2, Types, SlotMapAssumption DEF Resized, Zero, TypeOK
  <2>4. /\ slots' \in [0..(c - 1) -> Slots]
        /\ slots'[n] = s
        /\ \A d \in DenseIdx : slots'[d] = slots[d]
    <3>1. s \in Slots /\ 0 \in Slots
      BY <2>1, <2>2, SlotMapAssumption DEF Slots
    <3>2. /\ Resized(slots, c, 0) \in [0..(c - 1) -> Slots]
          /\ \A d \in 0..(cap - 1) : Resized(slots, c, 0)[d] = slots[d]
      BY <2>2, <3>1, Types DEF Resized, TypeOK
    <3>3. \A d \in DenseIdx : d \in 0..(cap - 1) /\ d # n
      BY Types DEF DenseIdx
    <3> QED
      BY <2>1, <2>2, <3>1, <3>2, <3>3, Types
  <2> HIDE DEF E
  <2>5. /\ ent'[s] = [gen |-> E[s].gen, low |-> n + 1]
        /\ \A i \in 0..(c - 1) : i # s => ent'[i] = E[i]
    BY <2>1, <2>2, <2>3
  <2>6. /\ holeHead >= 0 => s = holeHead /\ s \in H
        /\ holeHead < 0 => s = cursor
    BY <1>1, Types DEF s, Chain, None
  <2>7. \A d \in DenseIdx : slots[d] # s
    BY <1>1, <2>6, Types DEF Chain, DenseInv
  <2>8. \A h \in handles : h.ep = epoch /\ h.slot = s => h.gen < E[s].gen
    <3> SUFFICES ASSUME NEW h \in handles, h.ep = epoch, h.slot = s
                 PROVE  h.gen < E[s].gen
      OBVIOUS
    <3>1. s < cursor /\ h.gen <= ent[s].gen /\ h.gen # ent[s].gen
      BY <2>7 DEF HandleInv
    <3>2. s \in 0..(cap - 1)
      BY <3>1, <2>2, Types
    <3> QED
      BY <3>1, <3>2, <2>3, Types
  <2>9. TypeOK'
    <3>1. holeHead' \in Slots \cup {None}
      <4>1. CASE holeHead >= 0
        <5>1. holeHead' = Hop(s)
          BY <4>1, <2>1, <2>2, <2>3, <2>6, Types DEF Hop
        <5>2. holeHead' \in H \cup {None}
          BY <4>1, <5>1, <1>1, <2>6 DEF Chain
        <5>3. H \subseteq Slots
          BY <2>1, <2>2, Types, SlotMapAssumption DEF Slots
        <5> QED
          BY <5>2, <5>3
      <4>2. CASE holeHead < 0
        BY <4>2, <2>1, Types DEF TypeOK
      <4> QED
        BY <4>1, <4>2, Types
    <3>2. cap' \in {0} \cup MinCap..CapMax
      BY <2>1, <2>2, InsertSlot, SlotMapAssumption DEF c
    <3>3. ent' \in [0..(c - 1) -> [gen : 0..GenMax, low : Nat]]
      <4>1. [gen |-> E[s].gen, low |-> n + 1] \in [gen : 0..GenMax, low : Nat]
        BY <2>2, <2>3, Types
      <4> QED
        BY <4>1, <2>1, <2>2, <2>3
    <3>4. vals' \in [0..(c - 1) -> Values]
      BY <2>1, <2>2, Types DEF Resized, TypeOK
    <3>5. cursor' \in 0..c /\ n' \in 0..c
      BY <2>1, <2>2, <2>6, Types
    <3>6. handles' \subseteq Handles
      <4>1. epoch \in 0..ClearMax
        BY <2>2, Types, SlotMapAssumption DEF Sized
      <4>2. s \in Slots /\ E[s].gen \in 0..GenMax
        BY <2>1, <2>2, <2>3, SlotMapAssumption DEF Slots
      <4> QED
        BY <2>1, <4>1, <4>2 DEF TypeOK, Handles
    <3> QED
      BY <2>1, <2>4, <3>1, <3>2, <3>3, <3>4, <3>5, <3>6 DEF TypeOK
  <2>10. Sized'
    BY <2>1, <2>2, InsertSlot DEF Sized, c
  <2>11. DenseInv'
    <3> SUFFICES ASSUME NEW d \in 0..n
                 PROVE  /\ slots'[d] < cursor'
                        /\ ent'[slots'[d]].low = d + 1
                        /\ [slot |-> slots'[d], gen |-> ent'[slots'[d]].gen,
                            ep |-> epoch'] \in handles'
      BY <2>1, Types DEF DenseInv, DenseIdx, Names
    <3>1. CASE d = n
      BY <3>1, <2>1, <2>2, <2>4, <2>5, <2>6, Types
    <3>2. CASE d # n
      <4>1. d \in DenseIdx /\ slots'[d] = slots[d] /\ slots[d] # s
        BY <3>2, <2>4, <2>7, Types DEF DenseIdx
      <4>2. slots[d] \in 0..(cap - 1) /\ slots[d] < cursor
        BY <4>1, Types DEF DenseInv, DenseIdx
      <4>3. ent'[slots[d]] = ent[slots[d]]
        <5>1. slots[d] \in 0..(c - 1)
          BY <4>2, <2>2, Types
        <5> QED
          BY <4>1, <4>2, <5>1, <2>3, <2>5
      <4> QED
        BY <4>1, <4>2, <4>3, <2>1, Types DEF DenseInv, Names
    <3> QED
      BY <3>1, <3>2
  <2>12. HandleInv'
    <3> SUFFICES ASSUME NEW h \in handles'
                 PROVE  /\ h.ep <= epoch'
                        /\ h.ep = epoch' =>
                             /\ h.slot < cursor'
                             /\ h.gen <= ent'[h.slot].gen
                             /\ h.gen = ent'[h.slot].gen =>
                                  \E d \in DenseIdx' : slots'[d] = h.slot
      BY DEF HandleInv
    <3>1. n \in DenseIdx' /\ DenseIdx \subseteq DenseIdx'
      BY <2>1, Types DEF DenseIdx
    <3>2. CASE h = [slot |-> s, gen |-> E[s].gen, ep |-> epoch]
      <4>1. h.slot = s /\ h.gen = E[s].gen /\ h.ep = epoch
        BY <3>2
      <4>2. ent'[s].gen = E[s].gen /\ E[s].gen \in Nat
        BY <2>2, <2>3, <2>5
      <4>3. s < cursor'
        BY <2>1, <2>2, <2>6, Types
      <4> QED
        BY <4>1, <4>2, <4>3, <3>1, <2>1, <2>4, Types
    <3>3. CASE h \in handles
      <4>1. h.ep <= epoch /\ epoch' = epoch
        BY <3>3, <2>1 DEF HandleInv
      <4>2. ASSUME h.ep = epoch, h.slot = s
            PROVE  h.slot < cursor' /\ h.gen < ent'[h.slot].gen
        BY <4>2, <3>3, <2>1, <2>5, <2>8, Types DEF HandleInv
      <4>3. ASSUME h.ep = epoch, h.slot # s
            PROVE  /\ h.slot < cursor' /\ h.gen <= ent'[h.slot].gen
                   /\ h.gen = ent'[h.slot].gen =>
                        \E d \in DenseIdx' : slots'[d] = h.slot
        <5>1. h.slot < cursor /\ ent'[h.slot] = ent[h.slot]
          <6>1. h.slot < cursor
            BY <4>3, <3>3 DEF HandleInv
          <6>2. h.slot \in 0..(cap - 1) /\ h.slot \in 0..(c - 1)
            BY <6>1, <3>3, <2>2, Types
          <6> QED
            BY <4>3, <6>1, <6>2, <2>3, <2>5
        <5> QED
          BY <4>3, <5>1, <3>1, <3>3, <2>1, <2>4, Types DEF HandleInv
      <4>4. h.gen \in Nat /\ ent'[s].gen \in Nat
        BY <3>3, <2>2, <2>3, <2>5, Types
      <4> QED
        BY <4>1, <4>2, <4>3, <4>4
    <3> QED
      BY <3>2, <3>3, <2>1
  <2>13. ChainInv'
    <3>1. CASE holeHead < 0
      <4>1. Chain({})'
        BY <3>1, <1>1, <2>1, ChainSize, FS_EmptySet, Types DEF Chain, None
      <4> QED
        BY <4>1 DEF ChainInv
    <3>2. CASE holeHead >= 0
      <4>0. PICK G \in SUBSET H : G = H \ {s}
        OBVIOUS
      <4>1. /\ s = holeHead /\ s \in H /\ c = cap
            /\ cursor' = cursor /\ holeHead' = Hop(s)
        BY <3>2, <2>1, <2>2, <2>3, <2>6, Types DEF Hop
      <4>2. \A t \in G : Hop(t)' = Hop(t)
        <5> SUFFICES ASSUME NEW t \in G PROVE Hop(t)' = Hop(t)
          OBVIOUS
        <5>1. t # s /\ t \in 0..(cap - 1)
          BY <4>0, Types
        <5>2. ent'[t] = ent[t]
          BY <5>1, <4>1, <2>3, <2>5
        <5> QED
          BY <5>2, <4>1, <2>1 DEF Hop
      <4>3. \A t \in G : \A d \in DenseIdx' : slots'[d] # t
        BY <1>1, <4>0, <2>1, <2>4, Types DEF Chain, DenseIdx
      <4>4. Cardinality(G) + n' <= cursor'
        <5>1. IsFiniteSet(H) /\ Cardinality(H) \in Nat
          BY <1>1, ChainSize
        <5>2. Cardinality(G) = Cardinality(H) - 1
          BY <5>1, <4>0, <4>1, FS_RemoveElement
        <5> QED
          BY <1>1, <5>1, <5>2, <4>1, <2>1, Types DEF Chain
      <4>5. Chain(G)'
        <5>1. holeHead' \in G \cup {None}
          BY <1>1, <4>0, <4>1 DEF Chain
        <5>2. \A t \in G : Hop(t) \in G \cup {None} /\ (Hop(t) = Hop(s) => Hop(s) = None)
          BY <1>1, <4>0, <4>1 DEF Chain
        <5>3. \A t, u \in G : Hop(t) = Hop(u) /\ Hop(t) # None => t = u
          BY <1>1 DEF Chain
        <5> QED
          BY <5>1, <5>2, <5>3, <4>1, <4>2, <4>3, <4>4 DEF Chain
      <4> QED
        BY <4>0, <4>1, <4>5 DEF ChainInv
    <3> QED
      BY <3>1, <3>2, Types
  <2>14. Added(v)
    <3>1. \A i \in 0..(cursor - 1) : ent'[i].gen = ent[i].gen
      <4> SUFFICES ASSUME NEW i \in 0..(cursor - 1)
                   PROVE  ent'[i].gen = ent[i].gen
        OBVIOUS
      <4>1. i \in 0..(cap - 1) /\ i \in 0..(c - 1)
        BY <2>2, Types
      <4> QED
        BY <4>1, <2>3, <2>5
    <3>2. \A d \in DenseIdx : slots[d] \in 0..(cursor - 1) /\ d \in 0..(cap - 1)
      BY Types DEF DenseInv, DenseIdx
    <3>3. \A d \in DenseIdx : Names(d)' = Names(d)
      BY <3>1, <3>2, <2>1, <2>4 DEF Names
    <3>4. (\A d \in DenseIdx : vals'[d] = vals[d]) /\ vals'[n] = v
      <4>1. /\ Resized(vals, c, v) = [i \in 0..(c - 1) |->
                                       Resized(vals, c, v)[i]]
            /\ \A i \in 0..(cap - 1) : Resized(vals, c, v)[i] = vals[i]
        BY <2>2, Types DEF Resized, TypeOK
      <4>2. \A d \in DenseIdx : d # n
        BY Types DEF DenseIdx
      <4> DEFINE V == Resized(vals, c, v)
      <4>3. vals' = [V EXCEPT ![n] = v]
        BY <2>1
      <4> HIDE DEF V
      <4>4. \A i \in 0..(c - 1) : vals'[i] = IF i = n THEN v ELSE V[i]
        BY <4>1, <4>3 DEF V
      <4>5. \A i \in DenseIdx : i \in 0..(c - 1)
        BY <3>2, <2>2, Types
      <4> QED
        BY <4>1, <4>2, <4>4, <4>5, <3>2, <2>2 DEF V
    <3>5. ent'[s].gen = E[s].gen /\ slots'[n] = s
      BY <2>4, <2>5
    <3>6. [slot |-> s, gen |-> E[s].gen, ep |-> epoch] \notin handles
      BY <2>2, <2>3, <2>8
    <3> QED
      BY <3>1, <3>3, <3>4, <3>5, <3>6, <2>1 DEF Added
  <2> QED
    BY <2>9, <2>10, <2>11, <2>12, <2>13, <2>14
<1> QED
  BY <1>2, <1>3

\* A value written through a handle stays in its dense place.
LEMMA SetStep ==
  ASSUME SInv, NEW h \in handles, NEW v \in Values, set(h, v)
  PROVE  SInv'
<1> USE DEF SInv
<1>1. TypeOK'
  BY DEF set, TypeOK
<1>2. Sized' /\ DenseInv' /\ HandleInv' /\ ChainInv'
  BY DEF set, Sized, DenseInv, HandleInv, ChainInv, Chain, DenseIdx, Names, Hop
<1> QED
  BY <1>1, <1>2

\* remove keeps the invariant: the last value's slot learns its new place, the
\* freed slot becomes the head of the chain one generation older.
LEMMA RemoveStep ==
  ASSUME SInv, NEW h \in handles, remove(h)
  PROVE  SInv' /\ \E d \in DenseIdx : d = Dense(ent[h.slot]) /\ Removed(d)
<1> DEFINE last == n - 1
           moved == slots[last]
<1> USE DEF SInv
<1>0. PICK d : d = Dense(ent[h.slot])
  OBVIOUS
<1>1. PICK s \in Nat : s = h.slot
  BY Types
<1>2. pLive(h) /\ d \in DenseIdx /\ slots[d] = s /\ s < cursor /\ ~broken
  BY <1>0, <1>1, LivePlace DEF remove
<1>3. /\ last \in DenseIdx /\ n >= 1
      /\ moved \in 0..(cap - 1) /\ s \in 0..(cap - 1)
      /\ moved < cursor
      /\ d # last => moved # s
  BY <1>2, DenseInjective, Types DEF DenseIdx, DenseInv
<1>4. /\ ent[s].gen < GenMax
      /\ vals' = [vals EXCEPT ![d] = vals[last]]
      /\ slots' = [slots EXCEPT ![d] = moved]
      /\ ent' = [(IF d # last THEN [ent EXCEPT ![moved].low = d + 1] ELSE ent)
                   EXCEPT ![s] = [gen |-> ent[s].gen + 1,
                                  low |-> holeHead + cap + 2]]
      /\ holeHead' = s
      /\ n' = last
      /\ UNCHANGED <<epoch, cursor, cap, owned, handles, broken>>
  BY <1>0, <1>1, <1>3, Types DEF remove
<1>5. /\ d \in Nat /\ d <= last /\ last \in Nat
      /\ ent[s].gen \in Nat /\ holeHead + cap + 2 \in Nat
  BY <1>2, <1>3, Types DEF DenseIdx, None
<1> HIDE DEF last, moved
<1>6. /\ ent'[s] = [gen |-> ent[s].gen + 1, low |-> holeHead + cap + 2]
      /\ d # last => ent'[moved] = [gen |-> ent[moved].gen, low |-> d + 1]
      /\ \A i \in 0..(cap - 1) : i # s /\ i # moved => ent'[i] = ent[i]
      /\ \A i \in 0..(cap - 1) : i # s => ent'[i].gen = ent[i].gen
  BY <1>3, <1>4, <1>5 DEF TypeOK
<1>7. slots'[d] = moved /\ \A e \in DenseIdx : e # d => slots'[e] = slots[e]
  BY <1>2, <1>4, Types DEF TypeOK, DenseIdx
<1>8. /\ DenseIdx' = DenseIdx \ {last}
      /\ \A e \in DenseIdx : e # d => slots[e] # s
      /\ \A e \in DenseIdx : e # last => slots[e] # moved
  BY <1>2, <1>3, <1>4, DenseInjective, Types DEF DenseIdx, last, moved
<1>9. TypeOK'
  <2>1. ent' \in [0..(cap - 1) -> [gen : 0..GenMax, low : Nat]]
    <3>1. ent \in [0..(cap - 1) -> [gen : 0..GenMax, low : Nat]]
      BY DEF TypeOK
    <3>2. ent[s].gen + 1 \in 0..GenMax
      BY <1>4, <1>5, SlotMapAssumption
    <3> DEFINE M == IF d # last THEN [ent EXCEPT ![moved].low = d + 1] ELSE ent
    <3>3. M \in [0..(cap - 1) -> [gen : 0..GenMax, low : Nat]]
      BY <1>3, <1>5, <3>1
    <3>4. ent' = [M EXCEPT ![s] = [gen |-> ent[s].gen + 1,
                                   low |-> holeHead + cap + 2]]
      BY <1>4
    <3> HIDE DEF M
    <3> QED
      BY <1>3, <1>5, <3>2, <3>3, <3>4
  <2>2. slots' \in [0..(cap - 1) -> Slots] /\ vals' \in [0..(cap - 1) -> Values]
    <3>1. d \in 0..(cap - 1) /\ last \in 0..(cap - 1)
      BY <1>2, <1>3, Types DEF DenseIdx
    <3>2. moved \in Slots
      BY <3>1 DEF TypeOK, moved
    <3> QED
      BY <3>1, <3>2, <1>4 DEF TypeOK
  <2>3. n' \in 0..cap /\ holeHead' \in Slots
    <3>1. cap <= CapMax
      BY Types, SlotMapAssumption DEF TypeOK
    <3> QED
      BY <1>3, <1>4, <1>5, <3>1, Types, SlotMapAssumption DEF Slots, last
  <2> QED
    BY <1>4, <2>1, <2>2, <2>3 DEF TypeOK
<1>10. Sized'
  BY <1>4 DEF Sized
<1>11. DenseInv'
  <2> SUFFICES ASSUME NEW e \in DenseIdx, e # last
               PROVE  /\ slots'[e] < cursor
                      /\ ent'[slots'[e]].low = e + 1
                      /\ [slot |-> slots'[e], gen |-> ent'[slots'[e]].gen,
                          ep |-> epoch] \in handles
    <3>1. \A i : Names(i)' = [slot |-> slots'[i], gen |-> ent'[slots'[i]].gen,
                              ep |-> epoch]
      BY <1>4 DEF Names
    <3>2. cursor' = cursor /\ handles' = handles
      BY <1>4
    <3>3. \A i \in DenseIdx' : i \in DenseIdx /\ i # last
      BY <1>8
    <3> QED
      BY <3>1, <3>2, <3>3 DEF DenseInv
  <2>1. CASE e = d
    BY <2>1, <1>3, <1>6, <1>7 DEF DenseInv, Names, moved
  <2>2. CASE e # d
    <3>1. slots'[e] = slots[e] /\ slots[e] # s /\ slots[e] # moved
      BY <2>2, <1>7, <1>8
    <3>2. slots[e] \in 0..(cap - 1)
      BY Types DEF DenseInv, DenseIdx
    <3> QED
      BY <3>1, <3>2, <1>6 DEF DenseInv, Names
  <2> QED
    BY <2>1, <2>2
<1>12. HandleInv'
  <2> SUFFICES ASSUME NEW k \in handles, k.ep = epoch
               PROVE  /\ k.slot < cursor
                      /\ k.gen <= ent'[k.slot].gen
                      /\ k.gen = ent'[k.slot].gen =>
                           \E e \in DenseIdx' : slots'[e] = k.slot
    BY <1>4 DEF HandleInv
  <2>1. k.slot < cursor /\ k.gen <= ent[k.slot].gen /\ k.slot \in 0..(cap - 1)
    BY Types DEF HandleInv
  <2>2. CASE k.slot = s
    BY <2>1, <2>2, <1>5, <1>6, Types
  <2>3. CASE k.slot # s
    <3>1. ent'[k.slot].gen = ent[k.slot].gen
      BY <2>1, <2>3, <1>6
    <3>2. ASSUME k.gen = ent[k.slot].gen
          PROVE  \E e \in DenseIdx' : slots'[e] = k.slot
      <4>1. PICK e \in DenseIdx : slots[e] = k.slot
        BY <3>2 DEF HandleInv
      <4>2. CASE e = last
        BY <4>1, <4>2, <2>3, <1>2, <1>7, <1>8 DEF moved
      <4>3. CASE e # last
        BY <4>1, <4>3, <2>3, <1>2, <1>7, <1>8
      <4> QED
        BY <4>2, <4>3
    <3> QED
      BY <2>1, <3>1, <3>2
  <2> QED
    BY <2>2, <2>3
<1>13. ChainInv'
  <2>1. PICK H \in SUBSET (0..(cursor - 1)) : Chain(H)
    BY DEF ChainInv
  <2>2. PICK G \in SUBSET (0..(cursor - 1)) : G = H \cup {s}
    <3>1. s \in 0..(cursor - 1)
      BY <1>1, <1>2, Types
    <3> QED
      BY <3>1
  <2>3. s \notin H /\ moved \notin H
    BY <2>1, <1>2, <1>3 DEF Chain, moved
  <2>4. Hop(s)' = holeHead /\ \A t \in H : Hop(t)' = Hop(t)
    <3>1. \A t \in H : t \in 0..(cap - 1) /\ ent'[t] = ent[t]
      BY <2>3, <1>6, Types
    <3> QED
      <4>1. (holeHead + cap + 2) - cap - 2 = holeHead
        BY Types
      <4>2. ent'[s].low = holeHead + cap + 2 /\ cap' = cap
        <5>1. cap' = cap
          BY <1>4
        <5>2. ent'[s].low = holeHead + cap + 2
          BY <1>6
        <5> QED
          BY <5>1, <5>2
      <4>3. Hop(s)' = holeHead
        BY <4>1, <4>2 DEF Hop
      <4>4. \A t \in H : Hop(t)' = Hop(t)
        BY <3>1, <4>2 DEF Hop
      <4> QED
        BY <4>3, <4>4
  <2>5. \A t \in G : \A e \in DenseIdx' : slots'[e] # t
    BY <2>1, <2>2, <2>3, <1>3, <1>7, <1>8 DEF Chain
  <2>6. Cardinality(G) + n' <= cursor'
    <3>1. IsFiniteSet(H) /\ Cardinality(H) \in Nat
      BY <2>1, ChainSize
    <3>2. Cardinality(G) = Cardinality(H) + 1
      BY <2>2, <2>3, <3>1, FS_AddElement
    <3> QED
      BY <2>1, <3>1, <3>2, <1>4, Types DEF Chain, last
  <2>7. /\ \A t \in G : Hop(t)' \in H \cup {None} /\ Hop(t)' # s
        /\ \A t, u \in G : Hop(t)' = Hop(u)' /\ Hop(t)' # None => t = u
    BY <2>1, <2>2, <2>3, <2>4, <1>1 DEF Chain, None
  <2>8. Chain(G)'
    BY <2>2, <2>5, <2>6, <2>7, <1>4 DEF Chain
  <2> QED
    BY <2>2, <2>8, <1>4 DEF ChainInv
<1>14. Removed(d)
  <2>1. \A i \in 0..(cursor - 1) : ent'[i].gen >= ent[i].gen
    <3> SUFFICES ASSUME NEW i \in 0..(cursor - 1)
                 PROVE  ent'[i].gen >= ent[i].gen
      OBVIOUS
    <3>1. i \in 0..(cap - 1) /\ ent[i].gen \in Nat
      BY Types
    <3> QED
      BY <3>1, <1>5, <1>6
  <2>2. \A e \in DenseIdx : e \in 0..(cap - 1) /\ slots[e] \in 0..(cap - 1)
    BY Types DEF DenseInv, DenseIdx
  <2>3. \A e \in DenseIdx' : e # d =>
          slots'[e] = slots[e] /\ ent'[slots[e]].gen = ent[slots[e]].gen
    BY <2>2, <1>6, <1>7, <1>8
  <2>4. d # last => /\ slots'[d] = slots[last]
                    /\ ent'[slots[last]].gen = ent[slots[last]].gen
    BY <1>3, <1>6, <1>7 DEF moved
  <2>5. /\ \A e \in DenseIdx' : e # d => vals'[e] = vals[e]
        /\ vals'[d] = vals[last]
    BY <2>2, <1>2, <1>4, <1>8 DEF TypeOK
  <2>6. epoch' = epoch /\ handles' = handles /\ n' = n - 1
    BY <1>4 DEF last
  <2>7. \A e \in DenseIdx' : e # d => Names(e)' = Names(e)
    BY <2>3, <2>6 DEF Names
  <2>8. d # last => Names(d)' = Names(last)
    BY <2>4, <2>6 DEF Names
  <2> QED
    BY <2>1, <2>5, <2>6, <2>7, <2>8 DEF Removed, last
<1> QED
  BY <1>9, <1>10, <1>11, <1>12, <1>13, <1>14, <1>0, <1>2

\* clear keeps the invariant: the new epoch has no handle, no value, no hole.
LEMMA ClearStep ==
  ASSUME SInv, clear
  PROVE  SInv'
<1> USE DEF SInv
<1>1. TypeOK' /\ Sized'
  <2>1. epoch' \in 0..(ClearMax + 1) /\ epoch' <= ClearMax
    BY Types, SlotMapAssumption DEF clear
  <2>2. n' \in 0..cap' /\ cursor' \in 0..cap' /\ holeHead' = None
    BY Types DEF clear
  <2> QED
    BY <2>1, <2>2 DEF clear, TypeOK, Sized
<1>2. DenseIdx' = {}
  BY DEF clear, DenseIdx
<1>3. DenseInv'
  BY <1>2 DEF DenseInv
<1>4. HandleInv'
  BY Types DEF clear, HandleInv
<1>5. Chain({})'
  BY FS_EmptySet DEF clear, Chain
<1> QED
  BY <1>1, <1>3, <1>4, <1>5 DEF ChainInv

\* release keeps the invariant: the columns are gone with the epoch.
LEMMA ReleaseStep ==
  ASSUME SInv, release
  PROVE  SInv'
<1> USE DEF SInv
<1>1. TypeOK' /\ Sized'
  <2>0. 0..(0 - 1) = {} /\ 0..(-1) = {} /\ 0..(cap' - 1) = {}
    BY DEF release
  <2>1. ent' \in [0..(cap' - 1) -> [gen : 0..GenMax, low : Nat]]
    BY <2>0 DEF release, Resized
  <2>2. /\ slots' \in [0..(cap' - 1) -> Slots]
        /\ vals' \in [0..(cap' - 1) -> Values]
    BY <2>0 DEF release, Resized
  <2> QED
    <3>1. epoch' \in 0..(ClearMax + 1)
      BY Types, SlotMapAssumption DEF release, Sized
    <3>2. cap' = 0 /\ n' = 0 /\ cursor' = 0 /\ holeHead' = None
      BY DEF release
    <3>3. owned' \in BOOLEAN /\ broken' \in BOOLEAN /\ handles' \subseteq Handles
      BY DEF release, TypeOK
    <3>4. /\ cap' \in {0} \cup MinCap..CapMax
          /\ cursor' \in 0..cap' /\ n' \in 0..cap'
      BY <3>2
    <3>5. TypeOK'
      BY <2>1, <2>2, <3>1, <3>2, <3>3, <3>4 DEF TypeOK
    <3>6. Sized'
      BY DEF release, Sized
    <3> QED
      BY <3>5, <3>6
<1>2. DenseIdx' = {}
  BY DEF release, DenseIdx
<1>3. DenseInv'
  BY <1>2 DEF DenseInv
<1>4. HandleInv'
  BY Types DEF release, HandleInv
<1>5. Chain({})'
  BY FS_EmptySet DEF release, Chain
<1> QED
  BY <1>1, <1>3, <1>4, <1>5 DEF ChainInv

\* A pool that has used as many slots as it has values has no hole.
LEMMA Packed ==
  ASSUME TypeOK, DenseInv, cursor = n, NEW s \in 0..(cursor - 1)
  PROVE  \E d \in DenseIdx : slots[d] = s
<1> SUFFICES ASSUME \A d \in DenseIdx : slots[d] # s
             PROVE  FALSE
  OBVIOUS
<1> DEFINE f == [d \in 0..n |-> IF d = n THEN s ELSE slots[d]]
<1>1. f \in [0..n -> 0..(n - 1)]
  <2>1. \A d \in 0..n : d # n => slots[d] \in 0..(n - 1)
    <3> SUFFICES ASSUME NEW d \in 0..n, d # n PROVE slots[d] \in 0..(n - 1)
      OBVIOUS
    <3>1. d \in DenseIdx /\ d \in 0..(cap - 1)
      BY Types DEF DenseIdx
    <3>2. slots[d] < n
      BY <3>1 DEF DenseInv
    <3> QED
      BY <3>1, <3>2, Types
  <2> QED
    BY <2>1
<1>2. /\ IsFiniteSet(0..n) /\ Cardinality(0..n) = n + 1
      /\ IsFiniteSet(0..(n - 1)) /\ Cardinality(0..(n - 1)) = n
  <2>1. n \in Nat /\ n \in Int /\ n - 1 \in Int /\ 0 \in Int
    BY Types
  <2>2. IsFiniteSet(0..n) /\ Cardinality(0..n) = n + 1
    BY <2>1, FS_Interval
  <2>3. IsFiniteSet(0..(n - 1)) /\ Cardinality(0..(n - 1)) = n
    BY <2>1, FS_Interval
  <2> QED
    BY <2>2, <2>3
<1>3. PICK d \in 0..n, e \in 0..n : d # e /\ f[d] = f[e]
  <2>1. Cardinality(0..(n - 1)) < Cardinality(0..n)
    BY <1>2, Types
  <2> HIDE DEF f
  <2> QED
    BY <1>1, <1>2, <2>1, FS_PigeonHole
<1>4. \A i \in 0..n : i # n => i \in DenseIdx
  BY Types DEF DenseIdx
<1> QED
  BY <1>3, <1>4, DenseInjective

\* A packed pool is cut above its last slot: no word, handle or place changes.
LEMMA ShrinkStep ==
  ASSUME SInv, shrink, Shrink # "any"
  PROVE  /\ SInv'
         /\ \A i \in 0..(n - 1) : ent'[i] = ent[i] /\ slots'[i] = slots[i]
         /\ \A i \in 0..(n - 1) : vals'[i] = vals[i]
         /\ cursor = n
<1> DEFINE c == IF n < MinCap THEN MinCap ELSE n
           E == Resized(ent, c, Zero)
           H == {i \in DOMAIN E : i < cursor /\ pFree(E[i])}
<1> USE DEF SInv
<1>1. cursor = n /\ owned /\ ~broken /\ c < cap
  BY SlotMapAssumption DEF shrink
<1>2. c \in Nat /\ n <= c /\ MinCap <= c /\ c <= CapMax
  <2>1. cap <= CapMax /\ n \in Nat /\ MinCap \in Nat /\ cap \in Nat
    BY Types, SlotMapAssumption DEF TypeOK
  <2> QED
    BY <1>1, <2>1, SlotMapAssumption
<1>3. /\ cap' = c /\ ent' = Linked(E, c, H)
      /\ slots' = Resized(slots, c, 0)
      /\ vals' = [i \in 0..(c - 1) |-> vals[i]]
      /\ holeHead' = IF H = {} THEN None ELSE Max(H)
      /\ cursor' = c
      /\ UNCHANGED <<epoch, n, owned, handles, broken>>
  BY DEF shrink
<1> HIDE DEF c
<1>4. E = [i \in 0..(c - 1) |-> ent[i]]
  BY <1>1, <1>2, Types DEF Resized, TypeOK
<1> HIDE DEF E
<1>5. H = {}
  <2> SUFFICES ASSUME NEW i \in 0..(c - 1), i < cursor, pFree(ent[i])
               PROVE  FALSE
    BY <1>4
  <2>1. i \in 0..(cursor - 1)
    BY Types
  <2>2. PICK d \in DenseIdx : slots[d] = i
    BY <2>1, <1>1, Packed
  <2> QED
    BY <2>2, Types DEF DenseInv, DenseIdx, pFree
<1> HIDE DEF H
<1>6. ent' = [i \in 0..(c - 1) |-> ent[i]] /\ holeHead' = None
  BY <1>3, <1>4, <1>5 DEF Linked
<1>7. slots' = [i \in 0..(c - 1) |-> slots[i]]
  BY <1>1, <1>2, <1>3, Types DEF Resized, TypeOK
<1>8. \A i \in 0..(n - 1) :
        /\ i \in 0..(c - 1)
        /\ ent'[i] = ent[i] /\ slots'[i] = slots[i] /\ vals'[i] = vals[i]
  BY <1>2, <1>3, <1>6, <1>7, Types
<1>9. TypeOK' /\ Sized'
  <2>1. 0..(c - 1) \subseteq 0..(cap - 1)
    BY <1>1, <1>2, Types
  <2>2. /\ ent' \in [0..(c - 1) -> [gen : 0..GenMax, low : Nat]]
        /\ slots' \in [0..(c - 1) -> Slots]
        /\ vals' \in [0..(c - 1) -> Values]
    BY <2>1, <1>3, <1>6, <1>7 DEF TypeOK
  <2>3. cap' \in MinCap..CapMax /\ n \in 0..c /\ c \in 0..c
    BY <1>2, <1>3, Types, SlotMapAssumption
  <2> QED
    BY <2>2, <2>3, <1>1, <1>2, <1>3, <1>6 DEF TypeOK, Sized
<1>10. \A i \in DenseIdx : slots[i] \in 0..(n - 1) /\ i \in 0..(n - 1)
  BY <1>1, Types DEF DenseInv, DenseIdx
<1>11. DenseInv'
  <2> SUFFICES ASSUME NEW d \in DenseIdx
               PROVE  /\ slots'[d] < c
                      /\ ent'[slots'[d]].low = d + 1
                      /\ Names(d)' \in handles
    BY <1>3 DEF DenseInv, DenseIdx
  <2>1. /\ slots'[d] = slots[d] /\ slots[d] < c
        /\ ent'[slots[d]] = ent[slots[d]]
    BY <1>2, <1>8, <1>10, Types
  <2> QED
    BY <2>1, <1>3 DEF DenseInv, Names
<1>12. HandleInv'
  <2> SUFFICES ASSUME NEW h \in handles, h.ep = epoch
               PROVE  /\ h.slot < c
                      /\ h.gen <= ent'[h.slot].gen
                      /\ h.gen = ent'[h.slot].gen =>
                           \E d \in DenseIdx : slots'[d] = h.slot
    BY <1>3 DEF HandleInv, DenseIdx
  <2>1. h.slot \in 0..(n - 1)
    BY <1>1, Types DEF HandleInv
  <2> QED
    BY <2>1, <1>2, <1>8, <1>10, Types DEF HandleInv
<1>13. Chain({})'
  BY <1>2, <1>3, <1>6, FS_EmptySet, Types DEF Chain
<1> QED
  BY <1>1, <1>8, <1>9, <1>11, <1>12, <1>13 DEF ChainInv

-----------------------------------------------------------------------------
\* Every step keeps the invariant.
LEMMA SlotStep ==
  ASSUME SInv, [Next]_vars, Shrink # "any"
  PROVE  SInv'
<1>1. CASE \E v \in Values : insert(v)
  BY <1>1, InsertStep
<1>2. CASE \E h \in handles, v \in Values : set(h, v)
  BY <1>2, SetStep
<1>3. CASE \E h \in handles : remove(h)
  BY <1>3, RemoveStep
<1>4. CASE clear
  BY <1>4, ClearStep
<1>5. CASE shrink
  BY <1>5, ShrinkStep
<1>6. CASE release
  BY <1>6, ReleaseStep
<1>7. CASE UNCHANGED vars
  BY <1>7 DEF vars, SInv, TypeOK, Sized, DenseInv, HandleInv, ChainInv, Chain,
              DenseIdx, Names, Hop, Slots, Handles
<1> QED
  BY <1>1, <1>2, <1>3, <1>4, <1>5, <1>6, <1>7 DEF Next

\* A new pool satisfies the invariant whatever its memory holds.
LEMMA SlotInit ==
  ASSUME Init
  PROVE  SInv
<1>1. TypeOK
  <2>1. cap \in MinCap..CapMax /\ cap \in Nat /\ cap >= 2
    BY SlotMapAssumption DEF Init
  <2>2. ent \in [0..(cap - 1) -> [gen : 0..GenMax, low : Nat]]
    BY SlotMapAssumption DEF Init
  <2>3. slots \in [0..(cap - 1) -> Slots]
    BY <2>1, SlotMapAssumption DEF Init, Slots
  <2>4. vals \in [0..(cap - 1) -> Values]
    BY DEF Init
  <2>5. /\ cursor \in 0..cap /\ n \in 0..cap /\ epoch \in 0..(ClearMax + 1)
        /\ holeHead = None /\ handles = {}
    BY <2>1, SlotMapAssumption DEF Init
  <2>6. owned \in BOOLEAN /\ broken \in BOOLEAN
    BY DEF Init
  <2> QED
    BY <2>1, <2>2, <2>3, <2>4, <2>5, <2>6 DEF TypeOK
<1>2. Sized
  BY SlotMapAssumption DEF Init, Sized
<1>3. DenseInv /\ HandleInv
  BY DEF Init, DenseInv, HandleInv, DenseIdx
<1>4. Chain({})
  BY FS_EmptySet DEF Init, Chain
<1> QED
  BY <1>1, <1>2, <1>3, <1>4 DEF SInv, ChainInv

LEMMA SlotInvariant == Shrink # "any" => (Spec => []SInv)
<1> SUFFICES ASSUME Shrink # "any" PROVE Spec => []SInv
  OBVIOUS
<1>1. Init => SInv
  BY SlotInit
<1>2. SInv /\ [Next]_vars => SInv'
  BY SlotStep
<1> QED
  BY <1>1, <1>2, PTL DEF Spec

-----------------------------------------------------------------------------
\* The living handles are the names of the dense places, and a handle reads
\* the value at its place.
LiveNames ==
  /\ LiveHandles = {Names(d) : d \in DenseIdx}
  /\ \A d \in DenseIdx : get(Names(d)) = vals[d]

LEMMA LiveAre == SInv => LiveNames
<1> SUFFICES ASSUME SInv PROVE LiveNames
  OBVIOUS
<1> USE DEF SInv
<1>1. \A d \in DenseIdx : pLive(Names(d)) /\ Names(d) \in handles
  BY PlaceLive DEF DenseInv
<1>2. \A h \in handles : pLive(h) => \E d \in DenseIdx : h = Names(d)
  BY LivePlace
<1>3. \A d \in DenseIdx : get(Names(d)) = vals[d]
  <2> SUFFICES ASSUME NEW d \in DenseIdx PROVE get(Names(d)) = vals[d]
    OBVIOUS
  <2>1. Dense(ent[slots[d]]) = d
    BY Types DEF DenseInv, DenseIdx, Dense
  <2> QED
    BY <2>1 DEF get, Names
<1> QED
  BY <1>1, <1>2, <1>3 DEF LiveNames, LiveHandles

\* A slot's generation never falls within an epoch, and epochs only rise.
LEMMA OnlyOlder ==
  ASSUME SInv, [Next]_vars, Shrink # "any"
  PROVE  /\ epoch' >= epoch
         /\ epoch' = epoch =>
              \A i \in 0..(cursor - 1) : ent'[i].gen >= ent[i].gen
<1> USE DEF SInv
<1>0. /\ epoch \in Nat
      /\ \A i \in 0..(cursor - 1) : ent[i].gen \in Nat
  BY Types
<1>1. CASE \E v \in Values : insert(v)
  <2>1. PICK v \in Values : Trap \/ Added(v)
    BY <1>1, InsertStep
  <2>2. CASE Trap
    BY <1>0, <2>2 DEF Trap
  <2>3. CASE Added(v)
    BY <1>0, <2>3 DEF Added
  <2> QED
    BY <2>1, <2>2, <2>3
<1>2. CASE \E h \in handles, v \in Values : set(h, v)
  BY <1>0, <1>2 DEF set
<1>3. CASE \E h \in handles : remove(h)
  BY <1>0, <1>3, RemoveStep DEF Removed
<1>4. CASE clear \/ release
  BY <1>0, <1>4 DEF clear, release
<1>5. CASE shrink
  <2>1. cursor = n /\ \A i \in 0..(n - 1) : ent'[i] = ent[i]
    BY <1>5, ShrinkStep
  <2>2. epoch' = epoch
    BY <1>5 DEF shrink
  <2> QED
    BY <1>0, <2>1, <2>2
<1>6. CASE UNCHANGED vars
  BY <1>0, <1>6 DEF vars
<1> QED
  BY <1>1, <1>2, <1>3, <1>4, <1>5, <1>6 DEF Next

\* A handle that does not validate does not validate after a step.
LEMMA StaleStays ==
  ASSUME SInv, [Next]_vars, Shrink # "any", NEW h \in handles, ~pLive(h)
  PROVE  ~pLive(h)'
<1> USE DEF SInv
<1>1. CASE h.ep # epoch
  <2>1. h.ep < epoch
    BY <1>1, Types DEF HandleInv
  <2>2. h.ep # epoch'
    <3>1. epoch' \in Nat
      <4>1. TypeOK'
        BY SlotStep
      <4> QED
        BY <4>1, SlotMapAssumption DEF TypeOK
    <3> QED
      BY <2>1, <3>1, OnlyOlder, Types
  <2> QED
    BY <2>2 DEF pLive
<1>2. CASE h.ep = epoch
  <2>1. h.slot \in 0..(cursor - 1) /\ h.gen < ent[h.slot].gen
    BY <1>2, StaleOlder, Types
  <2>2. epoch' = epoch => ent'[h.slot].gen >= ent[h.slot].gen
    BY <2>1, OnlyOlder
  <2>3. ent[h.slot].gen \in Nat /\ h.gen \in Nat
    BY <2>1, Types
  <2>4. ASSUME pLive(h)' PROVE FALSE
    <3>1. epoch' = epoch /\ ent'[h.slot].gen = h.gen
      BY <2>4, <1>2 DEF pLive
    <3> QED
      BY <3>1, <2>1, <2>2, <2>3
  <2> QED
    BY <2>4
<1> QED
  BY <1>1, <1>2

\* The type invariant of stl::pool<T>: capacities, cursors, columns and chain
\* heads stay in range, from any contents of the raw memory it starts with.
THEOREM PoolTypes == Shrink # "any" => (Spec => []TypeOK)
<1>1. SInv => TypeOK
  BY DEF SInv
<1> QED
  BY <1>1, SlotInvariant, PTL

\* No operation of a pool that was not released indexes outside a column:
\* insert always finds room where it looks, remove always finds the value it
\* moves.
THEOREM PoolInBounds == Shrink # "any" => (Spec => []InBounds)
<1>1. SInv => InBounds
  BY DEF SInv, Sized, InBounds
<1> QED
  BY <1>1, SlotInvariant, PTL

\* Walking the dense prefix (handleAtDense) meets every valid handle exactly
\* once, after any sequence of inserts, removes and clears.
THEOREM PoolDense == Shrink # "any" => (Spec => []DenseExact)
<1>1. SInv => DenseExact
  <2> SUFFICES ASSUME SInv PROVE DenseExact
    OBVIOUS
  <2>1. LiveNames
    BY LiveAre
  <2>2. \A d \in DenseIdx : slots[d] < cap /\ ent[slots[d]].low = d + 1
    BY Types DEF SInv, DenseInv, DenseIdx
  <2> QED
    BY <2>1, <2>2 DEF DenseExact, LiveNames, DenseIdx, Names
<1> QED
  BY <1>1, SlotInvariant, PTL

\* A handle that went stale never validates again: the generation of a slot
\* only rises within an epoch, and the slots clear left as they were belong to
\* epochs that no handle can come back from.
THEOREM PoolStale == Shrink # "any" => (Spec => NoResurrection)
<1> SUFFICES ASSUME Shrink # "any" PROVE Spec => NoResurrection
  OBVIOUS
<1>1. SInv /\ [Next]_vars => [\A h \in handles : ~pLive(h) => ~pLive(h)']_vars
  BY StaleStays
<1>2. Spec => []SInv
  BY SlotInvariant
<1> QED
  BY <1>1, <1>2, PTL DEF Spec, NoResurrection

-----------------------------------------------------------------------------
(***************************************************************************)
(* The slot map implements its promise, step by step.                      *)
(***************************************************************************)
\* An insert adds a handle nobody held, with its value.
LEMMA InsertMaps ==
  ASSUME SInv, LiveNames, LiveNames', NEW v \in Values, Added(v), TypeOK'
  PROVE  Promise!SpecNext
<1>1. PICK h : h = [slot |-> slots'[n], gen |-> ent'[slots'[n]].gen, ep |-> epoch]
  OBVIOUS
<1>2. PICK m : m = n
  OBVIOUS
<1>3. m \in Nat /\ DenseIdx = 0..(m - 1) /\ DenseIdx' = 0..m
  BY <1>2, Types DEF SInv, DenseIdx, Added
<1>4. /\ Names(m)' = h /\ vals'[m] = v
      /\ \A d \in 0..(m - 1) : Names(d)' = Names(d) /\ vals'[d] = vals[d]
      /\ h \notin handles /\ handles' = handles \cup {h}
  BY <1>1, <1>2, <1>3 DEF Added, Names
<1>5. LiveHandles' = LiveHandles \cup {h}
  <2>1. LiveHandles' = {Names(d)' : d \in 0..m}
    BY <1>3 DEF LiveNames
  <2>2. LiveHandles = {Names(d) : d \in 0..(m - 1)}
    BY <1>3 DEF LiveNames
  <2>3. \A d \in 0..m : d = m \/ d \in 0..(m - 1)
    BY <1>3
  <2>4. m \in 0..m /\ \A d \in 0..(m - 1) : d \in 0..m
    BY <1>3
  <2> QED
    BY <2>1, <2>2, <2>3, <2>4, <1>4
<1>6. get(h)' = v /\ \A k \in LiveHandles : get(k)' = get(k)
  <2>1. \A d \in 0..m : vals'[Dense(ent'[Names(d)'.slot])] = vals'[d]
    BY <1>3 DEF LiveNames, get
  <2>2. \A k : get(k)' = vals'[Dense(ent'[k.slot])]
    BY DEF get, Dense
  <2>3. get(h)' = v
    BY <2>1, <2>2, <1>3, <1>4
  <2>4. ASSUME NEW d \in 0..(m - 1)
        PROVE  get(Names(d)) = vals[d] /\ vals'[Dense(ent'[Names(d).slot])] = vals[d]
    BY <2>1, <1>3, <1>4 DEF LiveNames
  <2>5. ASSUME NEW k \in LiveHandles PROVE get(k)' = get(k)
    <3>1. PICK d \in 0..(m - 1) : k = Names(d)
      BY <1>3 DEF LiveNames
    <3> QED
      BY <3>1, <2>2, <2>4
  <2> QED
    BY <2>3, <2>5
<1>7. h \in Handles
  BY <1>4 DEF TypeOK
<1>8. Promise!Insert(h, v)
  BY <1>4, <1>5, <1>6 DEF Promise!Insert
<1> QED
  BY <1>7, <1>8 DEF Promise!SpecNext

\* A set changes the value of one handle.
LEMMA SetMaps ==
  ASSUME SInv, LiveNames, NEW h \in handles, NEW v \in Values, set(h, v)
  PROVE  Promise!SpecNext
<1> DEFINE d == Dense(ent[h.slot])
<1>1. pLive(h) /\ d \in DenseIdx /\ h = Names(d)
  BY LivePlace DEF SInv, set
<1>2. LiveHandles' = LiveHandles
  BY DEF set, LiveHandles, pLive, pFree
<1>3. ASSUME NEW k \in LiveHandles
      PROVE  get(k)' = IF k = h THEN v ELSE get(k)
  <2>1. PICK e \in DenseIdx : k = Names(e) /\ get(k) = vals[e]
    BY DEF LiveNames
  <2>2. Dense(ent[k.slot]) = e
    BY <2>1, Types DEF SInv, DenseInv, DenseIdx, Names, Dense
  <2>3. e \in 0..(cap - 1)
    BY Types DEF SInv, DenseIdx
  <2>4. k = h <=> e = d
    BY <1>1, <2>1, <2>2
  <2>5. get(k)' = vals'[e]
    BY <2>2 DEF get, set
  <2> QED
    BY <2>1, <2>3, <2>4, <2>5 DEF set, SInv, TypeOK
<1>4. h \in LiveHandles /\ h \in Handles
  BY <1>1 DEF LiveHandles, SInv, TypeOK
<1>5. handles' = handles
  BY DEF set
<1>6. Promise!Set(h, v)
  BY <1>2, <1>3, <1>4, <1>5 DEF Promise!Set
<1> QED
  BY <1>4, <1>6 DEF Promise!SpecNext

\* A remove takes one handle away and leaves the others their values.
LEMMA RemoveMaps ==
  ASSUME SInv, LiveNames, LiveNames', NEW d \in DenseIdx, Removed(d)
  PROVE  Promise!SpecNext
<1>1. PICK m : m = n - 1
  OBVIOUS
<1>2. m \in Nat /\ DenseIdx = 0..m /\ DenseIdx' = 0..(m - 1) /\ d \in 0..m
  BY <1>1, Types DEF SInv, DenseIdx, Removed
<1>3. PICK h : h = Names(d)
  OBVIOUS
<1>4. \A e \in 0..m : Names(e) = h => e = d
  BY <1>2, <1>3, DenseInjective DEF SInv, Names
<1>5. /\ \A e \in 0..(m - 1) : e # d => Names(e)' = Names(e) /\ vals'[e] = vals[e]
      /\ d # m => Names(d)' = Names(m) /\ vals'[d] = vals[m]
      /\ handles' = handles
  BY <1>1, <1>2 DEF Removed
<1>6. /\ \A e \in 0..m : e = m \/ e \in 0..(m - 1)
      /\ \A e \in 0..(m - 1) : e \in 0..m /\ e # m
      /\ m \in 0..m
  BY <1>2
<1>7. LiveHandles' = LiveHandles \ {h}
  <2>1. LiveHandles' = {Names(e)' : e \in 0..(m - 1)}
    BY <1>2 DEF LiveNames
  <2>2. LiveHandles = {Names(e) : e \in 0..m}
    BY <1>2 DEF LiveNames
  <2>3. ASSUME NEW k \in LiveHandles' PROVE k \in LiveHandles \ {h}
    <3>1. PICK e \in 0..(m - 1) : k = Names(e)'
      BY <2>1
    <3>2. CASE e = d
      BY <3>1, <3>2, <2>2, <1>4, <1>5, <1>6
    <3>3. CASE e # d
      BY <3>1, <3>3, <2>2, <1>4, <1>5, <1>6
    <3> QED
      BY <3>2, <3>3
  <2>4. ASSUME NEW k \in LiveHandles \ {h} PROVE k \in LiveHandles'
    <3>1. PICK e \in 0..m : k = Names(e) /\ e # d
      BY <2>2, <1>3
    <3>2. CASE e = m
      BY <3>1, <3>2, <2>1, <1>2, <1>5, <1>6
    <3>3. CASE e # m
      BY <3>1, <3>3, <2>1, <1>5, <1>6
    <3> QED
      BY <3>2, <3>3
  <2> QED
    BY <2>3, <2>4
<1>8. ASSUME NEW k \in LiveHandles' PROVE get(k)' = get(k)
  <2>1. \A e \in 0..(m - 1) : vals'[Dense(ent'[Names(e)'.slot])] = vals'[e]
    BY <1>2 DEF LiveNames, get
  <2>2. get(k)' = vals'[Dense(ent'[k.slot])]
    BY DEF get, Dense
  <2>3. PICK e \in 0..(m - 1) : k = Names(e)'
    BY <1>2 DEF LiveNames
  <2>4. get(k)' = vals'[e]
    BY <2>1, <2>2, <2>3
  <2>5. \A i \in 0..m : get(Names(i)) = vals[i]
    BY <1>2 DEF LiveNames
  <2>6. CASE e = d
    BY <2>3, <2>4, <2>5, <2>6, <1>5, <1>6
  <2>7. CASE e # d
    BY <2>3, <2>4, <2>5, <2>7, <1>5, <1>6
  <2> QED
    BY <2>6, <2>7
<1>9. h \in LiveHandles /\ h \in Handles
  BY <1>3 DEF LiveNames, LiveHandles, SInv, TypeOK
<1>10. Promise!Remove(h)
  BY <1>5, <1>7, <1>8, <1>9 DEF Promise!Remove
<1> QED
  BY <1>9, <1>10 DEF Promise!SpecNext

\* Shrinking a packed pool is invisible.
LEMMA ShrinkMaps ==
  ASSUME SInv, LiveNames, LiveNames', shrink, Shrink # "any"
  PROVE  UNCHANGED Promise!specVars
<1>1. PICK m : m = n
  OBVIOUS
<1>2. /\ m \in Nat /\ DenseIdx = 0..(m - 1) /\ DenseIdx' = 0..(m - 1)
      /\ handles' = handles /\ epoch' = epoch
  BY <1>1, Types DEF SInv, DenseIdx, shrink
<1>3. /\ cursor = m
      /\ \A i \in 0..(m - 1) : /\ ent'[i] = ent[i] /\ slots'[i] = slots[i]
                                /\ vals'[i] = vals[i]
  BY <1>1, ShrinkStep
<1>4. \A d \in 0..(m - 1) : slots[d] \in 0..(m - 1)
  <2>1. \A d \in 0..(m - 1) : slots[d] < m /\ slots[d] \in Nat
    BY <1>1, <1>2, <1>3, Types DEF SInv, DenseInv
  <2> QED
    BY <2>1, <1>2
<1>5. \A d \in 0..(m - 1) : Names(d)' = Names(d)
  BY <1>2, <1>3, <1>4 DEF Names
<1>6. LiveHandles' = LiveHandles
  BY <1>2, <1>5 DEF LiveNames
<1>7. ASSUME NEW k \in LiveHandles PROVE get(k)' = get(k)
  <2>1. PICK e \in 0..(m - 1) : k = Names(e)
    BY <1>2 DEF LiveNames
  <2>2. vals'[Dense(ent'[Names(e)'.slot])] = vals'[e]
    BY <1>2 DEF LiveNames, get
  <2>3. get(k)' = vals'[Dense(ent'[k.slot])]
    BY DEF get, Dense
  <2>4. get(Names(e)) = vals[e]
    BY <1>2 DEF LiveNames
  <2> QED
    BY <2>1, <2>2, <2>3, <2>4, <1>3, <1>5
<1> QED
  BY <1>2, <1>6, <1>7 DEF Promise!specVars

\* Clearing and releasing end every handle.
LEMMA ClearMaps ==
  ASSUME LiveNames', clear \/ release
  PROVE  Promise!SpecNext
<1>1. DenseIdx' = {} /\ handles' = handles
  BY DEF clear, release, DenseIdx
<1>2. LiveHandles' = {}
  BY <1>1 DEF LiveNames
<1>3. Promise!Clear
  BY <1>1, <1>2 DEF Promise!Clear
<1> QED
  BY <1>3 DEF Promise!SpecNext

\* stl::pool<T> keeps its promise: every step of the packed words, the dense
\* prefix and the hole chain is one step of a map from handles to values, in
\* which a handle is given out once and names nothing after its end.
THEOREM PoolKeepsPromise == Shrink # "any" => (Spec => MapImplemented)
<1> SUFFICES ASSUME Shrink # "any" PROVE Spec => MapImplemented
  OBVIOUS
<1>1. Init => Promise!SpecInit
  <2> SUFFICES ASSUME Init PROVE Promise!SpecInit
    OBVIOUS
  <2>1. handles = {} /\ LiveHandles = {}
    BY DEF Init, LiveHandles
  <2> QED
    BY <2>1 DEF Promise!SpecInit
<1>2. SInv /\ LiveNames /\ LiveNames' /\ [Next]_vars
        => [Promise!SpecNext]_Promise!specVars
  <2> SUFFICES ASSUME SInv, LiveNames, LiveNames', [Next]_vars
               PROVE  [Promise!SpecNext]_Promise!specVars
    OBVIOUS
  <2>0. SInv'
    BY SlotStep
  <2>1. CASE \E v \in Values : insert(v)
    <3>1. PICK v \in Values : Trap \/ Added(v)
      BY <2>1, InsertStep
    <3>2. CASE Trap
      BY <3>2 DEF Trap, Promise!specVars, LiveHandles, pLive, pFree, get, Dense
    <3>3. CASE Added(v)
      BY <3>3, <2>0, InsertMaps DEF SInv
    <3> QED
      BY <3>1, <3>2, <3>3
  <2>2. CASE \E h \in handles, v \in Values : set(h, v)
    BY <2>2, SetMaps
  <2>3. CASE \E h \in handles : remove(h)
    BY <2>3, RemoveStep, RemoveMaps
  <2>4. CASE clear \/ release
    BY <2>4, ClearMaps
  <2>5. CASE shrink
    BY <2>5, ShrinkMaps
  <2>6. CASE UNCHANGED vars
    BY <2>6 DEF vars, Promise!specVars, LiveHandles, pLive, pFree, get, Dense
  <2> QED
    BY <2>1, <2>2, <2>3, <2>4, <2>5, <2>6 DEF Next
<1>3. SInv => LiveNames
  BY LiveAre
<1>4. Spec => []SInv
  BY SlotInvariant
<1> QED
  BY <1>1, <1>2, <1>3, <1>4, PTL DEF Spec, MapImplemented, Promise!MapSpec
=============================================================================
