--------------------------------- MODULE Dyn ---------------------------------
(***************************************************************************)
(* Values of type `dyn` (src/back/pools.c, poolsEmitDynRuntime) on top of  *)
(* the pool registry: one object table per place holds the payloads, a     *)
(* table of slots shared by the program holds their addresses, and a       *)
(* handle names slot, pool and both generations.                           *)
(***************************************************************************)
EXTENDS Pools

CONSTANTS
  FirstSlots,  \* first size of the slot table (64 in the code)
  SlotsMax     \* bound of the model: size the slot table may grow to

ASSUME DynAssumption == FirstSlots \in Nat \ {0} /\ SlotsMax \in Nat

SlotIds == 0..(SlotsMax - 1)

VARIABLES
  dslot,      \* extc_dynSlots
  dynN,       \* extc_dynN: slots ever used
  dynCap,     \* extc_dynCap
  dynFree,    \* extc_dynFree
  dynLiveN,   \* extc_dynLiveN
  dynPoolOf,  \* extc_dynPoolOf: place -> the object table of its dyn values
  dyns        \* handles the program was given (history: place, and whether
              \* the place they were made for is still open)

dynVars == <<dslot, dynN, dynCap, dynFree, dynLiveN, dynPoolOf, dyns>>
allVars == <<vars, dynVars>>

DynInit ==
  /\ Init
  /\ dslot = [i \in SlotIds |-> [pid |-> None, pgen |-> 0, gen |-> 0,
                                 next |-> None, addr |-> None]]
  /\ dynN = 0 /\ dynCap = 0 /\ dynFree = None /\ dynLiveN = 0
  /\ dynPoolOf = [z \in ZoneIds |-> None]
  /\ dyns = {}

\* extc_pool_kind = 1 and extc_pool_generation = g, in a given table.
IsTable(P, K, p)  == P[p].live /\ K[p] = 1
SlotDead(P, K, i) ==
  /\ dslot[i].pid # None
  /\ \/ ~IsTable(P, K, dslot[i].pid)
     \/ P[dslot[i].pid].generation # dslot[i].pgen

\* Mutant: a swept slot keeps its pool.
SweptKeepsPool(D) ==
  [i \in SlotIds |->
     IF i \notin D THEN dslot[i]
     ELSE [dslot[i] EXCEPT !.gen = @ + 1,
             !.next = LET lower == {j \in D : j < i}
                      IN IF lower = {} THEN dynFree ELSE Max(lower)]]

\* extc_dynSweep: dead slots go on the free list, the last one in front.
Swept(D) ==
  [i \in SlotIds |->
     IF i \notin D THEN dslot[i]
     ELSE [dslot[i] EXCEPT !.gen = @ + 1, !.pid = None,
             !.next = LET lower == {j \in D : j < i}
                      IN IF lower = {} THEN dynFree ELSE Max(lower)]]

\* The object table of place z: the remembered one when it names an object
\* table, else a new pool born in z.
Remembered(z) == dynPoolOf[z] # None /\ IsTable(pool, kind, dynPoolOf[z])
TableOf(z) == IF Remembered(z) THEN dynPoolOf[z] ELSE TakenId

\* Mutant: the table grows without sweeping.
SweepNever == FALSE
NeedSweep == dynFree = None /\ dynN >= dynCap

WantSlots == IF dynCap = 0 THEN FirstSlots ELSE 2 * dynCap

\* The value goes into slot i of the slot table T, its payload into block b.
PutSlot(T, P, i, p, b) ==
  dslot' = [T EXCEPT ![i].pid = p, ![i].pgen = P[p].generation, ![i].addr = b]

\* extc_dyn_put at place z, with a payload of n bytes at address b.
DynPut(z, b, n) ==
  LET p == TableOf(z)
      P == IF Remembered(z) THEN pool ELSE Born(None, z)
      K == [kind EXCEPT ![p] = 1]
      dead == IF NeedSweep THEN {i \in SlotIds : SlotDead(P, K, i)} ELSE {}
      T == Swept(dead)
      free == IF dead = {} THEN dynFree ELSE Max(dead)
      i == IF free # None THEN free ELSE dynN
  IN
  /\ Running
  /\ z \in Nameable /\ z # None /\ zone[z].live
  /\ Unused(b)
  /\ IF Remembered(z) THEN UNCHANGED <<zone, poolFree, poolCap, made, kind>>
     ELSE NewAt(z) /\ kind' = K /\ made' = [made EXCEPT ![p] = 2]
  /\ free = None => dynN < dynCap \/ WantSlots <= SlotsMax
  /\ dynPoolOf' = [dynPoolOf EXCEPT ![z] = p]
  /\ PutSlot(T, P, i, p, b)
  /\ dynFree' = IF free # None THEN T[free].next ELSE None
  /\ dynN' = IF free # None THEN dynN ELSE dynN + 1
  /\ dynCap' = IF free = None /\ dynN >= dynCap THEN WantSlots ELSE dynCap
  /\ dynLiveN' = dynLiveN - Cardinality(dead) + 1
  /\ pool' = [P EXCEPT ![p].blocks = @ \cup {b}, ![p].bytes = @ + n]
  /\ size' = [size EXCEPT ![b] = n] /\ bytesAll' = bytesAll + n
  /\ dyns' = dyns \cup
       {[pid |-> p, slot |-> i, gen |-> T[i].gen, pgen |-> P[p].generation,
         addr |-> b, place |-> z, open |-> TRUE]}
  /\ UNCHANGED <<zoneN, zoneFree, zoneTop, tasks, calls, rt, halted>>

\* Everything else leaves the slots alone; a place that ends closes the values
\* made for it.
Other ==
  /\ Next
  /\ dyns' = IF InCall("release") /\ Top.next = None
             THEN {[h EXCEPT !.open = @ /\ h.place # Top.id] : h \in dyns}
             ELSE dyns
  /\ UNCHANGED <<dslot, dynN, dynCap, dynFree, dynLiveN, dynPoolOf>>

DynNext ==
  \/ \E z \in ZoneIds, b \in Blocks, n \in Sizes : DynPut(z, b, n)
  \/ Other

DynSpec == DynInit /\ [][DynNext]_allVars

\* Mutant: the pool's generation is not compared.
DispatchesAnyAge(h) ==
  LET s == dslot[h.slot] IN
  /\ h.slot < dynN
  /\ s.pid # None /\ s.pid = h.pid /\ s.gen = h.gen
  /\ IsTable(pool, kind, h.pid)

\* extc_dyn_slot: the checks before every dispatch.
Dispatches(h) ==
  LET s == dslot[h.slot] IN
  /\ h.slot < dynN
  /\ s.pid # None /\ s.pid = h.pid /\ s.gen = h.gen
  /\ IsTable(pool, kind, h.pid) /\ pool[h.pid].generation = h.pgen

(***************************************************************************)
(* Properties                                                              *)
(***************************************************************************)
\* A handle that passes the checks of extc_dyn_slot finds its own payload, in
\* memory its pool still owns, however slots and pool ids were recycled.
DispatchSound ==
  \A h \in dyns : Dispatches(h) =>
    /\ dslot[h.slot].addr = h.addr
    /\ h.addr \in pool[h.pid].blocks

\* The slot counters and the free list agree with the table.
DynCount ==
  /\ dynLiveN = Cardinality({i \in SlotIds : dslot[i].pid # None})
  /\ dynFree # None => dslot[dynFree].pid = None /\ dynFree < dynN

\* The slot table grows only when every slot holds a value that still
\* dispatches: its size is bounded by the values alive at one time
\* (tests/dyn/dyn_slot_reclaim.extc).
GrowsOnlyWhenFull ==
  [][dynCap' # dynCap => \A i \in 0..(dynCap - 1) :
        dslot[i].pid # None /\ ~SlotDead(pool, kind, i)]_allVars

\* A value dispatches as long as the place it was made for is open ("the
\* site's place, not the current top").
ValueOutlastsPlace ==
  Running => \A h \in dyns : h.open => Dispatches(h)
=============================================================================
