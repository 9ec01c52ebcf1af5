------------------------------- MODULE SlotMap -------------------------------
(***************************************************************************)
(* stl::pool<T> (stdlib/stl/pool.extc): a slot map.  Values sit in a dense *)
(* prefix of vals; ent maps a slot to its dense place, or links the free   *)
(* slots (holes) into a chain; a handle is (slot, generation, epoch).      *)
(*                                                                         *)
(* An ent word packs a generation and a low half:                          *)
(*   low = 0                    never used                                 *)
(*   low in 1 .. cap            live, dense index low - 1                  *)
(*   low in cap + 1 .. 2cap+1   a hole; low - cap - 2 is the next hole     *)
(* so what a word means depends on the capacity, and a stale word left by  *)
(* clear() can look live.                                                  *)
(*                                                                         *)
(* The block behind a new pool is not zeroed (poolSliceRaw): its words are *)
(* any of Raw.  Abstractions: the epoch does not wrap (ClearMax < 2^32)    *)
(* nor does a generation (GenMax < 2^31).                                  *)
(***************************************************************************)
EXTENDS Integers, FiniteSets, FiniteSetsExt

CONSTANTS
  MinCap,    \* smallest capacity (8 in the code)
  CapMax,    \* bound of the model: largest capacity
  GenMax,    \* bound: removals of one slot
  ClearMax,  \* bound: clears
  Values,    \* values of type T
  Raw,       \* what a word of memory that was not zeroed can hold
  Shrink     \* when the program shrinks: "never", only when "packed" (no
             \* hole), at "any" time

ASSUME SlotMapAssumption ==
  /\ MinCap \in Nat \ {0, 1}
  /\ {CapMax, GenMax, ClearMax} \subseteq Nat
  /\ Raw \subseteq [gen : 0..GenMax, low : Nat]
  /\ Shrink \in {"never", "packed", "any"}

None == -1

VARIABLES
  ent,       \* slot -> [gen, low]
  slots,     \* dense index -> slot
  vals,      \* dense index -> value
  epoch, cursor, holeHead, n, cap,
  owned,     \* pid >= 0: not released yet
  handles,   \* handles given out (history)
  broken     \* an index was out of bounds: the program trapped

vars == <<ent, slots, vals, epoch, cursor, holeHead, n, cap, owned, handles, broken>>

Zero == [gen |-> 0, low |-> 0]

\* A block of a given length with the old contents as far as they go
\* (poolResize: what is added is zero).
Resized(f, c, zero) == [i \in 0..(c - 1) |-> IF i \in DOMAIN f THEN f[i] ELSE zero]

Init ==
  /\ cap \in MinCap..CapMax
  /\ ent \in [0..(cap - 1) -> Raw]
  /\ slots = [i \in 0..(cap - 1) |-> 0]
  /\ vals \in [0..(cap - 1) -> Values]
  /\ epoch = 0 /\ cursor = 0 /\ holeHead = None /\ n = 0
  /\ owned = TRUE
  /\ handles = {}
  /\ broken = FALSE

Dense(e) == e.low - 1
pFree(e) == e.low = 0 \/ e.low > cap

\* Mutant: the generation is not compared.
pLiveAnyGen(h) ==
  /\ h.ep = epoch
  /\ h.slot < cap
  /\ ~pFree(ent[h.slot])
\* pLive: the epoch vetoes, the slot's word decides.
pLive(h) ==
  /\ h.ep = epoch
  /\ h.slot < cap
  /\ ~pFree(ent[h.slot])
  /\ ent[h.slot].gen = h.gen

get(h) == vals[Dense(ent[h.slot])]

\* gather: its own test, one handle at a time.
Gathers(h) ==
  /\ h.slot < cap
  /\ ent[h.slot].low <= cap /\ ent[h.slot].gen = h.gen

\* Mutant: the table is grown one insert too late.
GrownLate ==
  IF holeHead < 0 /\ cursor > cap /\ owned THEN cap + cap \div 2 ELSE cap
\* grow: 1.5 times the capacity; it runs inside insert, when there is no hole.
GrownCap ==
  IF holeHead < 0 /\ cursor >= cap /\ owned THEN cap + cap \div 2 ELSE cap

\* An index outside a column ends the program.
Trap ==
  /\ broken' = TRUE
  /\ UNCHANGED <<ent, slots, vals, epoch, cursor, holeHead, n, cap, owned, handles>>

\* insert takes the first hole, else the next slot of this epoch.
insert(v) ==
  LET c == GrownCap
      E == Resized(ent, c, Zero)
      hole == holeHead >= 0
      s == IF hole THEN holeHead ELSE cursor
  IN
  /\ ~broken
  /\ c <= CapMax
  /\ IF n >= c \/ s >= c THEN Trap
     ELSE /\ cap' = c
          /\ holeHead' = IF hole THEN E[s].low - c - 2 ELSE holeHead
          /\ cursor' = IF hole THEN cursor ELSE cursor + 1
          /\ ent' = [E EXCEPT ![s] = [gen |-> E[s].gen, low |-> n + 1]]
          /\ slots' = [Resized(slots, c, 0) EXCEPT ![n] = s]
          /\ vals' = [Resized(vals, c, v) EXCEPT ![n] = v]
          /\ n' = n + 1
          /\ handles' = handles \cup {[slot |-> s, gen |-> E[s].gen, ep |-> epoch]}
          /\ UNCHANGED <<epoch, owned, broken>>

set(h, v) ==
  /\ ~broken
  /\ pLive(h)
  /\ vals' = [vals EXCEPT ![Dense(ent[h.slot])] = v]
  /\ UNCHANGED <<ent, slots, epoch, cursor, holeHead, n, cap, owned, handles, broken>>

\* Mutant: the slot keeps its generation.
removeSameGen(h) ==
  LET s == h.slot
      d == Dense(ent[s])
      last == n - 1
      moved == slots[last]
      E == IF d # last THEN [ent EXCEPT ![moved].low = d + 1] ELSE ent
  IN
  /\ ~broken /\ pLive(h)
  /\ vals' = [vals EXCEPT ![d] = vals[last]]
  /\ slots' = [slots EXCEPT ![d] = moved]
  /\ ent' = [E EXCEPT ![s].low = holeHead + cap + 2]
  /\ holeHead' = s
  /\ n' = last
  /\ UNCHANGED <<epoch, cursor, cap, owned, handles, broken>>

\* Mutant: the moved value's slot is not told its new place.
removeNoMove(h) ==
  LET s == h.slot
      d == Dense(ent[s])
  IN
  /\ ~broken /\ pLive(h) /\ ent[s].gen < GenMax
  /\ vals' = [vals EXCEPT ![d] = vals[n - 1]]
  /\ slots' = [slots EXCEPT ![d] = slots[n - 1]]
  /\ ent' = [ent EXCEPT ![s] = [gen |-> ent[s].gen + 1, low |-> holeHead + cap + 2]]
  /\ holeHead' = s
  /\ n' = n - 1
  /\ UNCHANGED <<epoch, cursor, cap, owned, handles, broken>>

\* Mutant: the new hole does not lead to the older ones.
removeDropsChain(h) ==
  LET s == h.slot
      d == Dense(ent[s])
      last == n - 1
      E == IF d # last THEN [ent EXCEPT ![slots[last]].low = d + 1] ELSE ent
  IN
  /\ ~broken /\ pLive(h) /\ ent[s].gen < GenMax
  /\ vals' = [vals EXCEPT ![d] = vals[last]]
  /\ slots' = [slots EXCEPT ![d] = slots[last]]
  /\ ent' = [E EXCEPT ![s] = [gen |-> ent[s].gen + 1, low |-> None + cap + 2]]
  /\ holeHead' = s
  /\ n' = last
  /\ UNCHANGED <<epoch, cursor, cap, owned, handles, broken>>

\* remove moves the last value into the gap and puts the slot on the chain.
remove(h) ==
  LET s == h.slot
      d == Dense(ent[s])
      last == n - 1
      moved == slots[last]
      E == IF d # last THEN [ent EXCEPT ![moved].low = d + 1] ELSE ent
  IN
  /\ ~broken
  /\ pLive(h) /\ ent[s].gen < GenMax
  /\ IF last < 0 \/ (d # last /\ moved >= cap) THEN Trap
     ELSE /\ vals' = [vals EXCEPT ![d] = vals[last]]
          /\ slots' = [slots EXCEPT ![d] = moved]
          /\ ent' = [E EXCEPT ![s] = [gen |-> ent[s].gen + 1,
                                      low |-> holeHead + cap + 2]]
          /\ holeHead' = s
          /\ n' = last
          /\ UNCHANGED <<epoch, cursor, cap, owned, handles, broken>>

\* Mutant: the slots start over in the same epoch.
clearSameEpoch ==
  /\ ~broken
  /\ epoch < ClearMax
  /\ n' = 0 /\ cursor' = 0 /\ holeHead' = None
  /\ UNCHANGED <<ent, slots, vals, epoch, cap, owned, handles, broken>>

\* clear writes no slot.
clear ==
  /\ ~broken
  /\ epoch < ClearMax
  /\ epoch' = epoch + 1
  /\ n' = 0 /\ cursor' = 0 /\ holeHead' = None
  /\ UNCHANGED <<ent, slots, vals, cap, owned, handles, broken>>

\* shrink cuts the table and links the holes below the cut, highest first;
\* the last link points back at the first.
Linked(E, c, H) ==
  [i \in DOMAIN E |->
     IF i \notin H THEN E[i]
     ELSE [gen |-> E[i].gen,
           low |-> Max(IF \E j \in H : j < i THEN {j \in H : j < i} ELSE H) + c + 2]]

shrink ==
  LET c == IF n < MinCap THEN MinCap ELSE n
      E == Resized(ent, c, Zero)
      H == {i \in DOMAIN E : i < cursor /\ pFree(E[i])}
  IN
  /\ ~broken /\ owned
  /\ Shrink # "never" /\ (Shrink = "packed" => cursor = n)
  /\ c < cap
  /\ cap' = c
  /\ ent' = Linked(E, c, H)
  /\ slots' = Resized(slots, c, 0)
  /\ vals' = [i \in 0..(c - 1) |-> vals[i]]
  /\ holeHead' = IF H = {} THEN None ELSE Max(H)
  /\ cursor' = c
  /\ UNCHANGED <<epoch, n, owned, handles, broken>>

\* Mutant: the columns go, the capacity stays.
releaseKeepsCap ==
  /\ ~broken /\ owned
  /\ owned' = FALSE
  /\ ent' = Resized(ent, 0, Zero) /\ slots' = Resized(slots, 0, 0)
  /\ vals' = [i \in 0..(-1) |-> 0]
  /\ epoch' = epoch + 1
  /\ n' = 0 /\ cursor' = 0 /\ holeHead' = None
  /\ UNCHANGED <<cap, handles, broken>>

\* release gives the columns back and clears; any later index traps.
release ==
  /\ ~broken /\ owned
  /\ owned' = FALSE
  /\ cap' = 0
  /\ ent' = Resized(ent, 0, Zero) /\ slots' = Resized(slots, 0, 0)
  /\ vals' = [i \in 0..(-1) |-> 0]
  /\ epoch' = epoch + 1
  /\ n' = 0 /\ cursor' = 0 /\ holeHead' = None
  /\ UNCHANGED <<handles, broken>>

Next ==
  \/ \E v \in Values : insert(v)
  \/ \E h \in handles, v \in Values : set(h, v)
  \/ \E h \in handles : remove(h)
  \/ clear
  \/ shrink
  \/ release

Spec == Init /\ [][Next]_vars

(***************************************************************************)
(* Properties                                                              *)
(***************************************************************************)
Slots == 0..(CapMax - 1)
Handles == [slot : Slots, gen : 0..GenMax, ep : 0..ClearMax]

\* Types: columns have the length cap says, cursor, count and hole head stay inside
\* the table, and so does the slot of every handle given out.
TypeOK ==
  /\ cap \in {0} \cup MinCap..CapMax
  /\ ent \in [0..(cap - 1) -> [gen : 0..GenMax, low : Nat]]
  /\ slots \in [0..(cap - 1) -> Slots]
  /\ vals \in [0..(cap - 1) -> Values]
  /\ epoch \in 0..(ClearMax + 1)
  /\ cursor \in 0..cap /\ holeHead \in Slots \cup {None} /\ n \in 0..cap
  /\ owned \in BOOLEAN /\ broken \in BOOLEAN
  /\ handles \subseteq Handles

LiveHandles == {h \in handles : pLive(h)}

\* The hole chain, by following it from holeHead.
HoleAt ==
  LET at[k \in 0..cap] ==
        IF k = 0 THEN holeHead
        ELSE IF at[k-1] = None THEN None ELSE ent[at[k-1]].low - cap - 2
  IN at

\* The hole chain ends, and on its way it meets exactly the slots given back in
\* this epoch: no slot is handed out twice or lost, although growth changes
\* the capacity the links are coded with.
HolesExact ==
  /\ None \in {HoleAt[k] : k \in 0..cap}
  /\ {HoleAt[k] : k \in 0..cap} \ {None} =
       {h.slot : h \in {k \in handles : k.ep = epoch /\ pFree(ent[k.slot])}}

\* Dense order and handles agree: walking the dense prefix (handleAtDense)
\* meets every live handle exactly once.
DenseExact ==
  /\ \A d \in 0..(n - 1) : slots[d] < cap /\ ent[slots[d]].low = d + 1
  /\ {[slot |-> slots[d], gen |-> ent[slots[d]].gen, ep |-> epoch] :
        d \in 0..(n - 1)} = LiveHandles

\* A handle that went stale (removed, cleared, released) never validates again,
\* whatever is inserted into its slot.
NoResurrection == [][\A h \in handles : ~pLive(h) => ~pLive(h)']_vars

\* No operation indexes outside its columns before release.
InBounds == broken => ~owned

\* What a user sees is the promise: a handle names its own value until it is
\* removed or cleared, and nothing afterwards.
Promise == INSTANCE SlotMapSpec
  WITH held <- [h \in LiveHandles |-> get(h)], spent <- handles
MapImplemented == Promise!MapSpec

\* gather resolves exactly the handles that are not stale ("or -1 when that
\* handle is stale").
GatherAgrees == \A h \in handles : Gathers(h) => pLive(h)

\* Shrinking keeps every handle ("all handles already given out stay valid").
ShrinkKeepsHandles ==
  [][cap' < cap /\ owned' => \A h \in LiveHandles : pLive(h)']_vars

\* An insert hands out a handle nobody holds ("shrink introduces no ABA").
InsertIsFresh == [][n' > n => handles' # handles]_vars
=============================================================================
