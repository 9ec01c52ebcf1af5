--------------------------- MODULE PoolsPromises ---------------------------
(***************************************************************************)
(* Proofs of what the pool registry promises, from the invariant of        *)
(* PoolsProofs: the free list of the pool table holds the free slots and   *)
(* no others (FreeListExact), the byte counters are exact (BytesExact),    *)
(* the registry implements the tree of places and pools of PoolTree, link  *)
(* by link (TreeImplemented), and each step of a call leaves less to do    *)
(* (WorkShrinks).                                                          *)
(*                                                                         *)
(* Then the dyn values above it (Dyn): a handle that passes the checks of  *)
(* extc_dyn_slot finds its own payload (DispatchSound), and the table of   *)
(* slots grows only when every slot holds a value that still dispatches    *)
(* (GrowsOnlyWhenFull).                                                    *)
(***************************************************************************)
EXTENDS Dyn, PoolsProofs

-----------------------------------------------------------------------------
(***************************************************************************)
(* The free list: a sequence of distinct free slots that starts at         *)
(* poolFree, is linked through freeNext and ends in None, and covers every *)
(* free slot below poolCap; no slot beyond poolCap is in use (FreeList).   *)
(***************************************************************************)
\* f lists the free slots of the table, from the head of the list on.
Lists(f, n, P, head, cap) ==
  /\ f \in [1..n -> PoolIds]
  /\ head = (IF n = 0 THEN None ELSE f[1])
  /\ \A k \in 1..n : /\ f[k] < cap /\ ~P[f[k]].live
                     /\ P[f[k]].freeNext = IF k = n THEN None ELSE f[k + 1]
  /\ \A j, k \in 1..n : f[j] = f[k] => j = k
  /\ \A p \in PoolIds : p < cap /\ ~P[p].live => \E k \in 1..n : f[k] = p
  /\ \A p \in PoolIds : p >= cap => ~P[p].live

FreeList ==
  \E n \in Nat : \E f \in [1..n -> PoolIds] : Lists(f, n, pool, poolFree, poolCap)

\* Table Q is table P as far as the free list goes.
SlotsAs(Q, P) ==
  \A x \in PoolIds : (Q[x].live <=> P[x].live) /\ Q[x].freeNext = P[x].freeNext

-----------------------------------------------------------------------------
(***************************************************************************)
(* The list under the steps of the registry.                               *)
(***************************************************************************)
LEMMA CapTypes ==
  ASSUME Typed
  PROVE  /\ poolCap \in Nat /\ TableMax \in Nat /\ poolCap <= TableMax
         /\ poolFree \in PoolIds \cup {None}
         /\ None \notin PoolIds /\ PoolIds \subseteq Nat
         /\ \A p \in PoolIds : p < TableMax
         /\ \A p \in Nat : p < TableMax => p \in PoolIds
BY PoolsAssumption DEF Typed, PoolIds, None

\* A step that touches neither liveness nor the free links.
LEMMA ListKept ==
  ASSUME FreeList, SlotsAs(pool', pool), UNCHANGED <<poolFree, poolCap>>
  PROVE  FreeList'
<1>1. PICK n \in Nat : \E f \in [1..n -> PoolIds] : Lists(f, n, pool, poolFree, poolCap)
  BY DEF FreeList
<1>2. PICK f \in [1..n -> PoolIds] : Lists(f, n, pool, poolFree, poolCap)
  BY <1>1
<1>3. Lists(f, n, pool', poolFree, poolCap)
  BY <1>2 DEF Lists, SlotsAs
<1>4. Lists(f, n, pool', poolFree', poolCap')
  BY <1>3
<1> QED BY ONLY <1>4, n \in Nat, f \in [1..n -> PoolIds] DEF FreeList

\* new_at takes the head of the list.
LEMMA ListTaken ==
  ASSUME Typed, FreeList, poolFree # None,
         NEW Q, Q[poolFree].live,
         \A x \in PoolIds \ {poolFree} :
            (Q[x].live <=> pool[x].live) /\ Q[x].freeNext = pool[x].freeNext
  PROVE  \E n \in Nat : \E f \in [1..n -> PoolIds] :
            Lists(f, n, Q, pool[poolFree].freeNext, poolCap)
<1>1. PICK n \in Nat : \E f \in [1..n -> PoolIds] : Lists(f, n, pool, poolFree, poolCap)
  BY DEF FreeList
<1>2. PICK f \in [1..n -> PoolIds] : Lists(f, n, pool, poolFree, poolCap)
  BY <1>1
<1>3. n > 0 /\ f[1] = poolFree /\ poolFree \in PoolIds
  BY <1>2 DEF Lists
<1> DEFINE g == [k \in 1..(n - 1) |-> f[k + 1]]
<1>4. /\ g \in [1..(n - 1) -> PoolIds]
      /\ \A k \in 1..(n - 1) : g[k] = f[k + 1] /\ k + 1 \in 1..n
  BY <1>3
<1>5. n - 1 \in Nat
  BY <1>3
<1> HIDE DEF g
<1>6. \A k \in 1..(n - 1) : g[k] # poolFree
  BY <1>2, <1>3, <1>4 DEF Lists
<1>7. pool[poolFree].freeNext = IF n - 1 = 0 THEN None ELSE g[1]
  BY <1>2, <1>3, <1>4 DEF Lists
<1>8. ASSUME NEW k \in 1..(n - 1)
      PROVE  /\ g[k] < poolCap /\ ~Q[g[k]].live
             /\ Q[g[k]].freeNext = IF k = n - 1 THEN None ELSE g[k + 1]
  <2>1. g[k] = f[k + 1] /\ k + 1 \in 1..n /\ g[k] \in PoolIds \ {poolFree}
    BY <1>4, <1>6
  <2>2. /\ f[k + 1] < poolCap /\ ~pool[f[k + 1]].live
        /\ pool[f[k + 1]].freeNext = IF k + 1 = n THEN None ELSE f[k + 1 + 1]
    BY <1>2, <2>1 DEF Lists
  <2>3. k # n - 1 => g[k + 1] = f[k + 1 + 1]
    BY <1>4
  <2> QED BY <2>1, <2>2, <2>3
<1>9. \A j, k \in 1..(n - 1) : g[j] = g[k] => j = k
  BY <1>2, <1>4 DEF Lists
<1>10. ASSUME NEW p \in PoolIds, p < poolCap, ~Q[p].live
       PROVE  \E k \in 1..(n - 1) : g[k] = p
  <2>1. p # poolFree /\ ~pool[p].live
    BY <1>10
  <2>2. PICK k \in 1..n : f[k] = p
    BY <1>2, <1>10, <2>1 DEF Lists
  <2>3. k # 1 /\ k - 1 \in 1..(n - 1)
    BY <1>3, <2>1, <2>2
  <2>4. g[k - 1] = p
    BY <1>4, <2>2, <2>3
  <2> QED BY <2>3, <2>4
<1>11. \A p \in PoolIds : p >= poolCap => ~Q[p].live
  <2>1. poolFree < poolCap
    BY <1>2, <1>3 DEF Lists
  <2>2. \A p \in PoolIds : p >= poolCap => ~pool[p].live
    BY <1>2 DEF Lists
  <2> QED BY <2>1, <2>2, CapTypes
<1>12. Lists(g, n - 1, Q, pool[poolFree].freeNext, poolCap)
  BY ONLY <1>4, <1>7, <1>8, <1>9, <1>10, <1>11 DEF Lists
<1> QED BY ONLY <1>4, <1>5, <1>12

\* An empty list: the table grows, and the new slots but the first go on it.
LEMMA ListGrown ==
  ASSUME Typed, FreeList, poolFree = None, NEW cap \in Nat, cap > poolCap,
         cap <= TableMax, NEW Q, Q[poolCap].live,
         \A x \in PoolIds \ {poolCap} :
            /\ Q[x].live <=> pool[x].live
            /\ Q[x].freeNext = IF x \in (poolCap + 1)..(cap - 1)
                               THEN IF x + 1 < cap THEN x + 1 ELSE None
                               ELSE pool[x].freeNext
  PROVE  \E n \in Nat : \E f \in [1..n -> PoolIds] :
            Lists(f, n, Q, IF cap > poolCap + 1 THEN poolCap + 1 ELSE None, cap)
<1>1. PICK n0 \in Nat : \E f \in [1..n0 -> PoolIds] : Lists(f, n0, pool, poolFree, poolCap)
  BY DEF FreeList
<1>2. PICK f0 \in [1..n0 -> PoolIds] : Lists(f0, n0, pool, poolFree, poolCap)
  BY <1>1
<1>3. n0 = 0
  BY <1>2, CapTypes DEF Lists
<1>4. /\ \A p \in PoolIds : p < poolCap => pool[p].live
      /\ \A p \in PoolIds : p >= poolCap => ~pool[p].live
  BY <1>2, <1>3 DEF Lists
<1>5. poolCap \in PoolIds
  BY CapTypes
<1>6. PICK n \in Nat : n = cap - poolCap - 1
  BY CapTypes
<1>7. n + 1 = cap - poolCap /\ poolCap \in Nat
  BY <1>6, CapTypes
<1> DEFINE g == [k \in 1..n |-> poolCap + k]
<1>8. \A k \in 1..n : g[k] = poolCap + k
  OBVIOUS
<1>9. \A k \in 1..n : poolCap + k \in PoolIds /\ poolCap + k # poolCap
                      /\ poolCap + k \in (poolCap + 1)..(cap - 1)
                      /\ poolCap + k < cap
  BY <1>7, CapTypes
<1>10. g \in [1..n -> PoolIds]
  BY <1>9
<1> HIDE DEF g
<1>11. (IF cap > poolCap + 1 THEN poolCap + 1 ELSE None) = (IF n = 0 THEN None ELSE g[1])
  BY <1>7, <1>8
<1>12. ASSUME NEW k \in 1..n
       PROVE  /\ g[k] < cap /\ ~Q[g[k]].live
              /\ Q[g[k]].freeNext = IF k = n THEN None ELSE g[k + 1]
  <2>1. PICK x \in PoolIds : x = poolCap + k
    BY <1>9
  <2>2. /\ x # poolCap /\ x < cap /\ x >= poolCap /\ x \in (poolCap + 1)..(cap - 1)
        /\ x + 1 < cap <=> k # n
    BY <1>7, <1>9, <2>1
  <2>3. ~Q[x].live /\ Q[x].freeNext = IF x + 1 < cap THEN x + 1 ELSE None
    BY <1>4, <2>2
  <2>4. k # n => g[k + 1] = x + 1
    BY <1>7, <1>8, <2>1
  <2> QED BY <1>8, <2>1, <2>2, <2>3, <2>4
<1>13. \A j, k \in 1..n : g[j] = g[k] => j = k
  BY <1>7, <1>8
<1>14. ASSUME NEW p \in PoolIds, p < cap, ~Q[p].live
       PROVE  \E k \in 1..n : g[k] = p
  <2>1. p \in Nat /\ p # poolCap /\ ~(p < poolCap)
    BY <1>4, <1>14, CapTypes
  <2>2. p - poolCap \in 1..n /\ poolCap + (p - poolCap) = p
    BY <1>7, <1>14, <2>1
  <2> QED BY <1>8, <2>2
<1>15. \A p \in PoolIds : p >= cap => ~Q[p].live
  <2>1. \A p \in PoolIds : p >= cap => p >= poolCap /\ p # poolCap
    BY CapTypes
  <2> QED BY <1>4, <2>1
<1>16. Lists(g, n, Q, IF cap > poolCap + 1 THEN poolCap + 1 ELSE None, cap)
  BY ONLY <1>10, <1>11, <1>12, <1>13, <1>14, <1>15 DEF Lists
<1> QED BY ONLY n \in Nat, <1>10, <1>16

\* extc_pool_freeSelf puts the slot back at the head.
LEMMA ListPushed ==
  ASSUME Typed, FreeList, NEW p \in PoolIds, pool[p].live,
         NEW Q, ~Q[p].live, Q[p].freeNext = poolFree,
         \A x \in PoolIds \ {p} :
            (Q[x].live <=> pool[x].live) /\ Q[x].freeNext = pool[x].freeNext
  PROVE  \E n \in Nat : \E f \in [1..n -> PoolIds] : Lists(f, n, Q, p, poolCap)
<1>1. PICK n \in Nat : \E f \in [1..n -> PoolIds] : Lists(f, n, pool, poolFree, poolCap)
  BY DEF FreeList
<1>2. PICK f \in [1..n -> PoolIds] : Lists(f, n, pool, poolFree, poolCap)
  BY <1>1
<1> DEFINE g == [k \in 1..(n + 1) |-> IF k = 1 THEN p ELSE f[k - 1]]
<1>3. /\ g[1] = p
      /\ \A k \in 1..(n + 1) : k # 1 => k - 1 \in 1..n /\ g[k] = f[k - 1]
      /\ \A k \in 1..n : g[k + 1] = f[k] /\ k + 1 \in 1..(n + 1)
  OBVIOUS
<1>4. g \in [1..(n + 1) -> PoolIds] /\ n + 1 \in Nat
  OBVIOUS
<1> HIDE DEF g
<1>5. \A k \in 1..n : f[k] # p /\ f[k] \in PoolIds
  BY <1>2 DEF Lists
<1>6. p = IF n + 1 = 0 THEN None ELSE g[1]
  BY <1>3
<1>7. p < poolCap
  BY <1>2, CapTypes DEF Lists
<1>8. ASSUME NEW k \in 1..(n + 1)
      PROVE  /\ g[k] < poolCap /\ ~Q[g[k]].live
             /\ Q[g[k]].freeNext = IF k = n + 1 THEN None ELSE g[k + 1]
  <2>1. CASE k = 1
    <3>1. poolFree = IF n = 0 THEN None ELSE f[1]
      BY <1>2 DEF Lists
    <3>2. n # 0 => g[1 + 1] = f[1]
      BY <1>3
    <3> QED BY <1>3, <1>7, <2>1, <3>1, <3>2
  <2>2. CASE k # 1
    <3>1. PICK j \in 1..n : j = k - 1 /\ g[k] = f[j] /\ k = j + 1
      BY <1>3, <2>2
    <3>2. f[j] < poolCap /\ ~pool[f[j]].live
          /\ pool[f[j]].freeNext = IF j = n THEN None ELSE f[j + 1]
      BY <1>2 DEF Lists
    <3>3. ~Q[f[j]].live /\ Q[f[j]].freeNext = pool[f[j]].freeNext
      BY <1>5, <3>2
    <3>4. k # n + 1 => g[k + 1] = f[j + 1]
      BY <1>3, <3>1
    <3> QED BY <3>1, <3>2, <3>3, <3>4
  <2> QED BY <2>1, <2>2
<1>9. \A j, k \in 1..(n + 1) : g[j] = g[k] => j = k
  <2>1. \A j, k \in 1..n : f[j] = f[k] => j = k
    BY <1>2 DEF Lists
  <2> QED BY <1>3, <1>5, <2>1
<1>10. ASSUME NEW x \in PoolIds, x < poolCap, ~Q[x].live
       PROVE  \E k \in 1..(n + 1) : g[k] = x
  <2>1. CASE x = p
    BY <1>3, <2>1
  <2>2. CASE x # p
    <3>1. PICK k \in 1..n : f[k] = x
      BY <1>2, <1>10, <2>2 DEF Lists
    <3> QED BY <1>3, <3>1
  <2> QED BY <2>1, <2>2
<1>11. \A x \in PoolIds : x >= poolCap => ~Q[x].live
  BY <1>2 DEF Lists
<1>12. Lists(g, n + 1, Q, p, poolCap)
  BY ONLY <1>4, <1>6, <1>8, <1>9, <1>10, <1>11 DEF Lists
<1> QED BY ONLY <1>4, <1>12

-----------------------------------------------------------------------------
(***************************************************************************)
(* The steps.                                                              *)
(***************************************************************************)
\* The plate of a pool changes.
LEMMA PlateSlots ==
  ASSUME Typed, NEW p \in PoolIds, NEW B \in SUBSET Blocks, NEW n \in Int,
         NEW Q, Q = [pool EXCEPT ![p].blocks = B, ![p].bytes = n]
  PROVE  SlotsAs(Q, pool)
<1>1. PICK o \in PoolRec : o = pool[p]
  BY LinkTypes
<1>2. PICK c : c = [o EXCEPT !.blocks = B, !.bytes = n]
  OBVIOUS
<1>3. (c.live <=> o.live) /\ c.freeNext = o.freeNext
  BY <1>2 DEF PoolRec
<1>4. Q = [pool EXCEPT ![p] = c]
  BY <1>1, <1>2
<1>5. Q[p] = c /\ \A x \in PoolIds \ {p} : Q[x] = pool[x]
  BY <1>4 DEF Typed
<1> QED BY ONLY <1>1, <1>3, <1>5, p \in PoolIds DEF SlotsAs

LEMMA BirthSlots ==
  ASSUME Typed, ChainInv, FreeList, NEW q \in PoolIds \cup {None}, NEW z \in ZoneIds,
         NewAt(z), q # None => pool[q].live, pool' = Born(q, z)
  PROVE  FreeList'
<1>1. PICK p \in PoolIds : p = TakenId
  BY TakenFacts DEF NewAt
<1>2. PICK Q : Q = Born(q, z)
  OBVIOUS
<1>3. /\ Q[p].live
      /\ \A x \in PoolIds \ {p} :
           /\ Q[x].live <=> pool[x].live
           /\ Q[x].freeNext = Grown[x].freeNext
  <2>1. NewAt(z) /\ (q # None => pool[q].live)
    OBVIOUS
  <2> QED BY ONLY Typed, ChainInv, <1>1, <1>2, <2>1, q \in PoolIds \cup {None},
                  z \in ZoneIds, BornTable
<1>4. /\ \A x \in PoolIds :
           Grown[x].freeNext = IF poolFree = None /\ x \in (poolCap + 1)..(WantCap - 1)
                               THEN IF x + 1 < WantCap THEN x + 1 ELSE None
                               ELSE pool[x].freeNext
      /\ WantCap \in Nat /\ WantCap > poolCap /\ (poolFree = None => WantCap <= TableMax)
  BY TakenFacts DEF NewAt
<1>5. poolFree' = FreeAfterTake /\ poolCap' = IF poolFree # None THEN poolCap ELSE WantCap
  BY DEF NewAt
<1>6. \E n \in Nat : \E f \in [1..n -> PoolIds] : Lists(f, n, Q, poolFree', poolCap')
  <2>1. CASE poolFree # None
    <3>1. p = poolFree /\ poolFree' = pool[poolFree].freeNext /\ poolCap' = poolCap
      BY <1>1, <1>5, <2>1 DEF TakenId, FreeAfterTake
    <3>2. /\ Q[poolFree].live
          /\ \A x \in PoolIds \ {poolFree} :
               (Q[x].live <=> pool[x].live) /\ Q[x].freeNext = pool[x].freeNext
      BY <1>3, <1>4, <2>1, <3>1
    <3>3. \E n \in Nat : \E f \in [1..n -> PoolIds] :
            Lists(f, n, Q, pool[poolFree].freeNext, poolCap)
      BY ONLY Typed, FreeList, <2>1, <3>2, ListTaken
    <3> QED BY ONLY <3>1, <3>3
  <2>2. CASE poolFree = None
    <3>1. PICK cap \in Nat : cap = WantCap
      BY <1>4
    <3>2. p = poolCap /\ poolCap' = cap
          /\ poolFree' = IF cap > poolCap + 1 THEN poolCap + 1 ELSE None
      BY <1>1, <1>5, <2>2, <3>1 DEF TakenId, FreeAfterTake
    <3>3. /\ cap > poolCap /\ cap <= TableMax /\ Q[poolCap].live
          /\ \A x \in PoolIds \ {poolCap} :
               /\ Q[x].live <=> pool[x].live
               /\ Q[x].freeNext = IF x \in (poolCap + 1)..(cap - 1)
                                  THEN IF x + 1 < cap THEN x + 1 ELSE None
                                  ELSE pool[x].freeNext
      BY <1>3, <1>4, <2>2, <3>1, <3>2
    <3>4. \E n \in Nat : \E f \in [1..n -> PoolIds] :
            Lists(f, n, Q, IF cap > poolCap + 1 THEN poolCap + 1 ELSE None, cap)
      BY ONLY Typed, FreeList, <2>2, cap \in Nat, <3>3, ListGrown
    <3> QED BY ONLY <3>2, <3>4
  <2> QED BY <2>1, <2>2
<1>7. pool' = Q
  BY <1>2
<1> QED BY ONLY <1>6, <1>7 DEF FreeList

LEMMA FreeListStep ==
  ASSUME Typed, ChainInv, FreeList, [Next]_vars
  PROVE  FreeList'
<1>0. UNCHANGED <<pool, poolFree, poolCap>> => FreeList'
  BY ListKept DEF SlotsAs
<1>1. CASE UNCHANGED vars \/ Places \/ DropEnter \/ NextChild \/ ReleaseNext
           \/ ReleaseDone \/ LeaveRound \/ LeavePop
  <2>1. UNCHANGED <<pool, poolFree, poolCap>>
    BY <1>1 DEF vars, poolVars, Places, EnterPlace, LeavePlace, TaskBegin, TaskStep,
                TaskDrop, StepReturn, DropEnter, NextChild, ReleaseNext, ReleaseDone,
                LeaveRound, LeavePop
  <2> QED BY <1>0, <2>1
<1>2. ASSUME NEW q \in PoolIds \cup {None}, NEW z \in ZoneIds, NEW k \in Makes,
             PoolNew(q, z, k)
      PROVE  FreeList'
  <2>1. NewAt(z) /\ (q # None => pool[q].live) /\ pool' = Born(q, z)
    BY <1>2 DEF PoolNew
  <2> QED BY <2>1, BirthSlots
<1>3. ASSUME NEW p \in PoolIds, PoolDrop(p) \/ PoolReset(p) \/ Release(p)
      PROVE  FreeList'
  <2>1. UNCHANGED <<pool, poolFree, poolCap>>
    BY <1>3 DEF PoolDrop, PoolReset, Release, PoolCall, poolVars
  <2> QED BY <1>0, <2>1
<1>4. ASSUME NEW p \in PoolIds, NEW b \in Blocks, NEW n \in Sizes, Take(p, b, n)
      PROVE  FreeList'
  <2>1. /\ pool' = [pool EXCEPT ![p].blocks = @ \cup {b}, ![p].bytes = @ + n]
        /\ UNCHANGED <<poolFree, poolCap>>
    BY <1>4 DEF Take
  <2>2. n \in Nat
    BY PoolsAssumption
  <2>3. pool[p].blocks \in SUBSET Blocks /\ pool[p].bytes \in Int
    BY LinkTypes DEF PoolRec
  <2>4. PICK B \in SUBSET Blocks : B = pool[p].blocks \cup {b}
    BY <2>3
  <2>5. PICK k \in Int : k = pool[p].bytes + n
    BY <2>2, <2>3
  <2>6. pool' = [pool EXCEPT ![p].blocks = B, ![p].bytes = k]
    BY <2>1, <2>4, <2>5
  <2>7. SlotsAs(pool', pool)
    BY ONLY Typed, <2>6, p \in PoolIds, B \in SUBSET Blocks, k \in Int, PlateSlots
  <2> QED BY <2>1, <2>7, ListKept
<1>5. ASSUME NEW p \in PoolIds, Rework(p)
      PROVE  FreeList'
  <2>1. PICK b \in pool[p].blocks :
          Trap \/ Give(p, b) \/ \E c \in Blocks, n \in Sizes : Resize(p, b, c, n)
    BY <1>5 DEF Rework
  <2>2. UNCHANGED <<poolFree, poolCap>>
    BY <1>5 DEF Rework
  <2>3. pool[p].blocks \in SUBSET Blocks /\ pool[p].bytes \in Int /\ b \in Blocks /\ size[b] \in Nat
    BY LinkTypes DEF PoolRec, Typed
  <2>4. CASE Trap
    BY <1>0, <2>2, <2>4 DEF Trap
  <2>5. CASE Give(p, b)
    <3>0. PICK B \in SUBSET Blocks : B = pool[p].blocks \ {b}
      BY <2>3
    <3>1. PICK k \in Int : k = pool[p].bytes - size[b]
      BY <2>3
    <3>2. pool' = [pool EXCEPT ![p].blocks = B, ![p].bytes = k]
      BY <2>5, <3>0, <3>1 DEF Give
    <3>3. SlotsAs(pool', pool)
      BY ONLY Typed, <3>2, p \in PoolIds, B \in SUBSET Blocks, k \in Int, PlateSlots
    <3> QED BY <2>2, <3>3, ListKept
  <2>6. ASSUME NEW c \in Blocks, NEW n \in Sizes, Resize(p, b, c, n)
        PROVE  FreeList'
    <3>0. n \in Nat
      BY PoolsAssumption
    <3>1. PICK B \in SUBSET Blocks : B = (pool[p].blocks \ {b}) \cup {c}
      BY <2>3
    <3>2. PICK k \in Int : k = pool[p].bytes + n - size[b]
      BY <2>3, <3>0
    <3>3. pool' = [pool EXCEPT ![p].blocks = B, ![p].bytes = k]
      BY <2>6, <3>1, <3>2 DEF Resize
    <3>4. SlotsAs(pool', pool)
      BY ONLY Typed, <3>3, p \in PoolIds, B \in SUBSET Blocks, k \in Int, PlateSlots
    <3> QED BY <2>2, <3>4, ListKept
  <2> QED BY <2>1, <2>4, <2>5, <2>6
<1>6. CASE DropSelf
  <2>1. PICK p \in LivePools : p = rt[1].id
    <3>1. /\ rt # <<>> /\ rt[1].fn = "drop"
      BY <1>6 DEF DropSelf, InCall, Top
    <3>2. Depth \in Nat /\ Depth > 0
      BY <3>1 DEF Typed, Depth
    <3>3. ShapeAt(1) /\ SavedAt(1)
      BY <3>2 DEF ChainInv, Shape, Saved
    <3>4. rt[1].id \in PoolIds /\ pool[rt[1].id].live
      BY <3>1, <3>3 DEF ShapeAt, SavedAt
    <3> QED BY <3>4 DEF LivePools
  <2>2. /\ Dropped(p) /\ pool'[p].freeNext = poolFree
        /\ \A x \in PoolIds \ {p} : pool'[x].freeNext = pool[x].freeNext
    BY <1>6, <2>1, DropTables
  <2>3. p \in PoolIds /\ pool[p].live /\ ~pool'[p].live
        /\ \A x \in PoolIds \ {p} :
             (pool'[x].live <=> pool[x].live) /\ pool'[x].freeNext = pool[x].freeNext
    BY <2>2 DEF Dropped, LivePools
  <2>4. poolFree' = p /\ poolCap' = poolCap
    BY <1>6, <2>1 DEF DropSelf, Top
  <2>5. PICK Q : Q = pool'
    OBVIOUS
  <2>6. \E n \in Nat : \E f \in [1..n -> PoolIds] : Lists(f, n, Q, p, poolCap)
    BY ONLY Typed, FreeList, <2>2, <2>3, <2>5, ListPushed
  <2> QED BY ONLY <2>4, <2>5, <2>6 DEF FreeList
<1>7. CASE ResetSelf
  <2>1. /\ pool' = [pool EXCEPT ![rt[1].id].firstChild = None,
                                ![rt[1].id].generation = @ + 1]
        /\ UNCHANGED <<poolFree, poolCap>>
    BY <1>7 DEF ResetSelf, Top
  <2>2. PICK p : p = rt[1].id
    OBVIOUS
  <2>3. pool' = [pool EXCEPT ![p].firstChild = None, ![p].generation = @ + 1]
    BY <2>1, <2>2
  <2>4. \A x \in PoolIds : pool[x] \in PoolRec
    BY LinkTypes
  <2>5. \A x \in PoolIds \ {p} : pool'[x] = pool[x]
    BY <2>3 DEF Typed
  <2>6. p \in PoolIds => (pool'[p].live <=> pool[p].live)
                         /\ pool'[p].freeNext = pool[p].freeNext
    BY <2>3, <2>4 DEF Typed, PoolRec
  <2>7. SlotsAs(pool', pool)
    BY ONLY <2>5, <2>6 DEF SlotsAs
  <2> QED BY <2>1, <2>7, ListKept
<1> QED
  BY <1>1, <1>2, <1>3, <1>4, <1>5, <1>6, <1>7 DEF Next, Containers, Runtime

LEMMA FreeListInit == Init => FreeList
<1> SUFFICES ASSUME Init PROVE FreeList
  OBVIOUS
<1>2. /\ poolCap = 0 /\ poolFree = None
      /\ \A p \in PoolIds : ~pool[p].live
  <2>1. pool = [p \in PoolIds |-> NewPool] /\ poolCap = 0 /\ poolFree = None
    BY DEF Init
  <2>2. ~NewPool.live
    BY DEF NewPool
  <2> QED BY <2>1, <2>2
<1> DEFINE f == [k \in 1..0 |-> 0]
<1>3. f \in [1..0 -> PoolIds] /\ 0 \in Nat
  OBVIOUS
<1>4. \A p \in PoolIds : ~(p < 0)
  BY PoolsAssumption DEF PoolIds
<1>5. Lists(f, 0, pool, poolFree, poolCap)
  BY <1>2, <1>3, <1>4 DEF Lists
<1> QED BY ONLY <1>3, <1>5 DEF FreeList

-----------------------------------------------------------------------------
(***************************************************************************)
(* The list that FreeListExact follows.                                    *)
(***************************************************************************)
\* The head, then the next link of each slot, until there is none: the
\* function FreeListExact finds a slot with.
Walk(at, n, head, next) ==
  at = [k \in 0..n |-> IF k = 0 THEN head
                       ELSE IF at[k-1] = None THEN None ELSE next[at[k-1]]]

\* There is a walk of n steps, and every one goes along list f.
WalksAlong(f, N, n, head, next) ==
  /\ \E at : Walk(at, n, head, next)
  /\ \A at : Walk(at, n, head, next) =>
       \A k \in 0..n : at[k] = IF k < N THEN f[k + 1] ELSE None

FreeLinks == [p \in PoolIds |-> pool[p].freeNext]

LEMMA WalkIsList ==
  ASSUME Typed, NEW N \in Nat, NEW f \in [1..N -> PoolIds],
         Lists(f, N, pool, poolFree, poolCap),
         NEW n \in Nat
  PROVE  WalksAlong(f, N, n, poolFree, FreeLinks)
<1> DEFINE g == [k \in 0..n |-> IF k < N THEN f[k + 1] ELSE None]
<1>1. /\ \A k \in 1..N : f[k] \in PoolIds /\ f[k] # None
      /\ poolFree = (IF N = 0 THEN None ELSE f[1])
      /\ \A k \in 1..N : pool[f[k]].freeNext = IF k = N THEN None ELSE f[k + 1]
  BY CapTypes DEF Lists
<1>2. \A k \in 1..N : FreeLinks[f[k]] = IF k = N THEN None ELSE f[k + 1]
  BY <1>1 DEF FreeLinks
<1>3. \A k \in 0..n : g[k] = IF k < N THEN f[k + 1] ELSE None
  OBVIOUS
<1>4. g[0] = poolFree
  BY <1>1, <1>3
<1>5. ASSUME NEW k \in 1..n
      PROVE  g[k] = IF g[k - 1] = None THEN None ELSE FreeLinks[g[k - 1]]
  <2>1. k - 1 \in 0..n /\ k \in 0..n
    OBVIOUS
  <2>2. CASE k - 1 < N
    <3>1. k \in 1..N /\ g[k - 1] = f[k] /\ (k = N <=> ~(k < N))
      BY <1>3, <2>1, <2>2
    <3> QED BY <1>1, <1>2, <1>3, <2>1, <3>1
  <2>3. CASE ~(k - 1 < N)
    BY <1>3, <2>1, <2>3
  <2> QED BY <2>2, <2>3
<1>6. Walk(g, n, poolFree, FreeLinks)
  <2>1. \A k \in 0..n : k # 0 => k \in 1..n
    OBVIOUS
  <2>2. g = [k \in 0..n |-> g[k]]
    OBVIOUS
  <2> HIDE DEF g
  <2>3. \A k \in 0..n : g[k] = IF k = 0 THEN poolFree
                               ELSE IF g[k-1] = None THEN None ELSE FreeLinks[g[k-1]]
    BY <1>4, <1>5, <2>1
  <2> QED BY ONLY <2>2, <2>3 DEF Walk
<1> HIDE DEF g
<1>7. ASSUME NEW at, Walk(at, n, poolFree, FreeLinks)
      PROVE  \A k \in 0..n : at[k] = g[k]
  <2>1. \A k \in 0..n : at[k] = IF k = 0 THEN poolFree
                                ELSE IF at[k-1] = None THEN None ELSE FreeLinks[at[k-1]]
    BY <1>7 DEF Walk
  <2> DEFINE D == {k \in 0..n : at[k] # g[k]}
  <2>2. SUFFICES ASSUME D # {} PROVE FALSE
    OBVIOUS
  <2>3. PICK k \in D : \A j \in D : k <= j
    <3>1. D \subseteq Nat
      OBVIOUS
    <3> HIDE DEF D
    <3> QED BY <2>2, <3>1, NatMin
  <2>4. k # 0
    BY <1>4, <2>1
  <2>5. k \in 1..n /\ k - 1 \in 0..n /\ k - 1 < k
    BY <2>4
  <2>6. at[k - 1] = g[k - 1]
    BY <2>3, <2>5
  <2>7. at[k] = IF at[k-1] = None THEN None ELSE FreeLinks[at[k-1]]
    BY <2>1, <2>4
  <2>8. at[k] = g[k]
    BY <1>5, <2>5, <2>6, <2>7
  <2> QED BY <2>8
<1> QED BY <1>3, <1>6, <1>7 DEF WalksAlong

\* The list is no longer than the table.
LEMMA ListShort ==
  ASSUME Typed, NEW N \in Nat, NEW f \in [1..N -> PoolIds],
         Lists(f, N, pool, poolFree, poolCap)
  PROVE  N <= TableMax
<1>1. TableMax \in Nat
  BY CapTypes
<1>2. IsFiniteSet(1..N) /\ Cardinality(1..N) = N
  BY FS_Interval
<1>3. IsFiniteSet(PoolIds) /\ Cardinality(PoolIds) = TableMax
  BY <1>1, FS_Interval DEF PoolIds
<1>4. f \in Injection(1..N, PoolIds)
  BY DEF Lists, Injection, IsInjective
<1>5. Cardinality(1..N) <= Cardinality(PoolIds)
  BY ONLY <1>2, <1>3, <1>4, FS_Injection
<1> QED BY <1>2, <1>3, <1>5

LEMMA ListIsExact ==
  ASSUME Typed, FreeList
  PROVE  FreeListExact
<1>1. PICK N \in Nat : \E f \in [1..N -> PoolIds] : Lists(f, N, pool, poolFree, poolCap)
  BY DEF FreeList
<1>2. PICK f \in [1..N -> PoolIds] : Lists(f, N, pool, poolFree, poolCap)
  BY <1>1
<1>3. N <= TableMax
  BY ONLY Typed, N \in Nat, f \in [1..N -> PoolIds], <1>2, ListShort
<1> DEFINE next == [p \in PoolIds |-> pool[p].freeNext]
           at(n) == CHOOSE at : Walk(at, n, poolFree, next)
<1>4. ASSUME NEW n \in Nat
      PROVE  at(n)[n] = IF n < N THEN f[n + 1] ELSE None
  <2>1. PICK nx : nx = next
    OBVIOUS
  <2>2. nx = FreeLinks
    BY ONLY <2>1 DEF FreeLinks
  <2>3. WalksAlong(f, N, n, poolFree, nx)
    BY ONLY Typed, N \in Nat, f \in [1..N -> PoolIds], <1>2, <2>2, n \in Nat, WalkIsList
  <2>4. PICK b : b = CHOOSE a : Walk(a, n, poolFree, nx)
    OBVIOUS
  <2>5. Walk(b, n, poolFree, nx)
    BY ONLY <2>3, <2>4 DEF WalksAlong
  <2>6. n \in 0..n
    OBVIOUS
  <2>7. b[n] = IF n < N THEN f[n + 1] ELSE None
    BY ONLY <2>3, <2>5, <2>6 DEF WalksAlong
  <2>8. b = at(n)
    BY ONLY <2>1, <2>4 DEF at
  <2> QED BY ONLY <2>7, <2>8
<1>5. TableMax \in Nat /\ poolCap \in Nat /\ poolCap <= TableMax
  BY CapTypes
<1> HIDE DEF at, next
<1>6. ASSUME NEW p \in 0..(poolCap - 1)
      PROVE  (\E n \in 0..TableMax : at(n)[n] = p) <=> p \notin LivePools
  <2>1. p \in PoolIds /\ p # None /\ p < poolCap
    BY <1>5, CapTypes
  <2>2. ASSUME NEW n \in 0..TableMax, at(n)[n] = p
        PROVE  p \notin LivePools
    <3>1. n < N /\ f[n + 1] = p
      BY <1>4, <2>1, <2>2
    <3>2. n + 1 \in 1..N
      BY <3>1
    <3> QED BY <1>2, <3>1, <3>2 DEF Lists, LivePools
  <2>3. ASSUME p \notin LivePools
        PROVE  \E n \in 0..TableMax : at(n)[n] = p
    <3>1. ~pool[p].live
      BY <2>1, <2>3 DEF LivePools
    <3>2. PICK k \in 1..N : f[k] = p
      BY <1>2, <2>1, <3>1 DEF Lists
    <3>3. k - 1 \in 0..TableMax /\ k - 1 \in Nat /\ k - 1 < N /\ (k - 1) + 1 = k
      BY <1>3, <1>5
    <3>4. at(k - 1)[k - 1] = f[k]
      BY <1>4, <3>3
    <3> QED BY <3>2, <3>3, <3>4
  <2> QED BY <2>2, <2>3
<1>7. {p \in 0..(poolCap - 1) : \E n \in 0..TableMax : at(n)[n] = p}
        = (0..(poolCap - 1)) \ LivePools
  BY <1>6
<1> QED BY ONLY <1>7 DEF FreeListExact, at, next, Walk

\* FreeListExact: the free list holds exactly the slots of the table that are
\* not alive, so that new_at never takes a living pool and loses no slot, in
\* the middle of every nested drop and after the table grew.
THEOREM FreeSlotsExact == Spec => []FreeListExact
<1>1. Init => PoolInv /\ FreeList
  BY PoolInit, FreeListInit
<1>2. PoolInv /\ FreeList /\ [Next]_vars => (PoolInv /\ FreeList)'
  BY PoolStep, FreeListStep DEF PoolInv
<1>3. PoolInv /\ FreeList => FreeListExact
  BY ListIsExact DEF PoolInv
<1> QED BY <1>1, <1>2, <1>3, PTL DEF Spec
-----------------------------------------------------------------------------
(***************************************************************************)
(* The account: in a table P of pools, with blocks of sizes s and the      *)
(* counter a of all bytes.  A block has one pool.                          *)
(***************************************************************************)
Counted(P, s, p) == P[p].bytes = Total(s, P[p].blocks)

Owners(P, s) ==
  \A b \in Blocks : s[b] > 0 <=> \E p \in PoolIds : P[p].live /\ b \in P[p].blocks

OneOwner(P) ==
  \A p, q \in PoolIds : P[p].live /\ P[q].live /\ p # q => P[p].blocks \cap P[q].blocks = {}

Account(P, s, a) ==
  /\ s \in [Blocks -> Nat]
  /\ \A p \in PoolIds : P[p].live => P[p].blocks \in SUBSET Blocks /\ Counted(P, s, p)
  /\ a = Total(s, Blocks)
  /\ Owners(P, s) /\ OneOwner(P)

\* The pool r keeps what it has.
PlateKept(Q, P, r) ==
  /\ Q[r].live <=> P[r].live
  /\ Q[r].blocks = P[r].blocks /\ Q[r].bytes = P[r].bytes

LEMMA AccountKept ==
  ASSUME NEW P, NEW Q, NEW s, NEW a, Account(P, s, a), \A r \in PoolIds : PlateKept(Q, P, r)
  PROVE  Account(Q, s, a)
BY DEF Account, PlateKept, Counted, Owners, OneOwner

\* Sizes are numbers, and every plate is finite.
LEMMA SizesAdd ==
  ASSUME NEW P, NEW s, NEW a, Account(P, s, a)
  PROVE  \A B \in SUBSET Blocks : IsFiniteSet(B) /\ Numbers(s, B) /\ Total(s, B) \in Int
<1> SUFFICES ASSUME NEW B \in SUBSET Blocks
             PROVE  IsFiniteSet(B) /\ Numbers(s, B) /\ Total(s, B) \in Int
  OBVIOUS
<1>1. IsFiniteSet(B)
  BY PoolsAssumption, FS_Subset
<1>2. s \in [Blocks -> Nat]
  BY DEF Account
<1>3. \A b \in B : s[b] \in Int
  BY <1>2
<1> QED BY <1>1, <1>3, TotalInt DEF Numbers

\* A block taken by p.
LEMMA AccountTaken ==
  ASSUME NEW P, NEW Q, NEW s, NEW t, NEW a, Account(P, s, a),
         NEW p \in PoolIds, NEW b \in Blocks, NEW n \in Nat \ {0},
         P[p].live, Q[p].live, s[b] = 0, t = [s EXCEPT ![b] = n],
         Q[p].blocks = P[p].blocks \cup {b}, Q[p].bytes = P[p].bytes + n,
         \A r \in PoolIds \ {p} : PlateKept(Q, P, r)
  PROVE  Account(Q, t, a + n)
<1>1. /\ s \in [Blocks -> Nat]
      /\ \A r \in PoolIds : P[r].live =>
           P[r].blocks \in SUBSET Blocks /\ P[r].bytes = Total(s, P[r].blocks)
      /\ a = Total(s, Blocks) /\ Owners(P, s) /\ OneOwner(P)
  BY DEF Account, Counted
<1>2. t \in [Blocks -> Nat] /\ t[b] = n /\ \A c \in Blocks \ {b} : t[c] = s[c]
  BY <1>1
<1>3. \A r \in PoolIds : P[r].live => b \notin P[r].blocks
  <2>1. ~(s[b] > 0)
    OBVIOUS
  <2> QED BY <1>1, <2>1 DEF Owners
<1>4. \A r \in PoolIds : P[r].live => Total(t, P[r].blocks) = Total(s, P[r].blocks)
  <2> SUFFICES ASSUME NEW r \in PoolIds, P[r].live
               PROVE  Total(t, P[r].blocks) = Total(s, P[r].blocks)
    OBVIOUS
  <2>1. PICK B \in SUBSET Blocks : B = P[r].blocks
    BY <1>1
  <2>2. \A x \in B : t[x] = s[x]
    BY <1>2, <1>3, <2>1
  <2>3. IsFiniteSet(B)
    BY SizesAdd
  <2>4. Total(t, B) = Total(s, B)
    BY ONLY <2>2, <2>3, TotalSame
  <2> QED BY <2>1, <2>4
<1>5. Q[p].blocks \in SUBSET Blocks /\ Counted(Q, t, p)
  <2>1. PICK B \in SUBSET Blocks : B = P[p].blocks
    BY <1>1
  <2>2. IsFiniteSet(B) /\ Numbers(t, B) /\ b \notin B /\ t[b] \in Int
    <3>1. \A x \in B : t[x] \in Int
      BY <1>2
    <3> QED BY <1>2, <1>3, <2>1, <3>1, SizesAdd DEF Numbers
  <2>3. Total(t, B \cup {b}) = Total(t, B) + t[b]
    BY ONLY <2>2, TotalMore
  <2>4. Q[p].blocks = B \cup {b} /\ Q[p].bytes = Total(s, B) + n
    BY <1>1, <2>1
  <2>5. Total(t, B) = Total(s, B)
    BY <1>4, <2>1
  <2> QED BY <1>2, <2>3, <2>4, <2>5 DEF Counted
<1>6. ASSUME NEW r \in PoolIds, Q[r].live
      PROVE  Q[r].blocks \in SUBSET Blocks /\ Counted(Q, t, r)
  <2>1. CASE r = p
    BY <1>5, <2>1
  <2>2. CASE r # p
    <3>1. PlateKept(Q, P, r)
      BY <2>2
    <3> QED BY <1>1, <1>4, <1>6, <3>1 DEF PlateKept, Counted
  <2> QED BY <2>1, <2>2
<1>7. a + n = Total(t, Blocks)
  <2>1. IsFiniteSet(Blocks) /\ Numbers(s, Blocks)
    BY SizesAdd
  <2>2. t[b] \in Int /\ \A y \in Blocks \ {b} : t[y] = s[y]
    BY <1>2
  <2>3. Total(t, Blocks) = Total(s, Blocks) - s[b] + t[b] /\ Total(s, Blocks) \in Int
    BY ONLY <2>1, <2>2, b \in Blocks, TotalAfter
  <2> QED BY <1>1, <1>2, <2>3
<1>8. Owners(Q, t)
  <2> SUFFICES ASSUME NEW c \in Blocks
               PROVE  t[c] > 0 <=> \E r \in PoolIds : Q[r].live /\ c \in Q[r].blocks
    BY DEF Owners
  <2>1. CASE c = b
    BY <1>2, <2>1
  <2>2. CASE c # b
    <3>1. \A r \in PoolIds : Q[r].live /\ c \in Q[r].blocks <=> P[r].live /\ c \in P[r].blocks
      BY <2>2 DEF PlateKept
    <3> QED BY <1>1, <1>2, <2>2, <3>1 DEF Owners
  <2> QED BY <2>1, <2>2
<1>9. OneOwner(Q)
  <2> SUFFICES ASSUME NEW q \in PoolIds, NEW r \in PoolIds, Q[q].live, Q[r].live, q # r
               PROVE  Q[q].blocks \cap Q[r].blocks = {}
    BY DEF OneOwner
  <2>1. P[q].live /\ P[r].live
    BY DEF PlateKept
  <2>2. P[q].blocks \cap P[r].blocks = {} /\ b \notin P[q].blocks /\ b \notin P[r].blocks
    BY <1>1, <1>3, <2>1 DEF OneOwner
  <2> QED BY <2>2 DEF PlateKept
<1> QED BY <1>2, <1>6, <1>7, <1>8, <1>9 DEF Account

\* A block given back by p.
LEMMA AccountGiven ==
  ASSUME NEW P, NEW Q, NEW s, NEW t, NEW a, Account(P, s, a),
         NEW p \in PoolIds, NEW b \in Blocks,
         P[p].live, Q[p].live, b \in P[p].blocks, t = [s EXCEPT ![b] = 0],
         Q[p].blocks = P[p].blocks \ {b}, Q[p].bytes = P[p].bytes - s[b],
         \A r \in PoolIds \ {p} : PlateKept(Q, P, r)
  PROVE  Account(Q, t, a - s[b])
<1>1. /\ s \in [Blocks -> Nat]
      /\ \A r \in PoolIds : P[r].live =>
           P[r].blocks \in SUBSET Blocks /\ P[r].bytes = Total(s, P[r].blocks)
      /\ a = Total(s, Blocks) /\ Owners(P, s) /\ OneOwner(P)
  BY DEF Account, Counted
<1>2. t \in [Blocks -> Nat] /\ t[b] = 0 /\ \A c \in Blocks \ {b} : t[c] = s[c]
  BY <1>1
<1>3. \A r \in PoolIds : P[r].live /\ r # p => b \notin P[r].blocks
  BY <1>1 DEF OneOwner
<1>4. \A B \in SUBSET Blocks : b \notin B => Total(t, B) = Total(s, B)
  <2> SUFFICES ASSUME NEW B \in SUBSET Blocks, b \notin B
               PROVE  Total(t, B) = Total(s, B)
    OBVIOUS
  <2>1. \A x \in B : t[x] = s[x]
    BY <1>2
  <2>2. IsFiniteSet(B)
    BY SizesAdd
  <2> QED BY ONLY <2>1, <2>2, TotalSame
<1>5. Q[p].blocks \in SUBSET Blocks /\ Counted(Q, t, p)
  <2>1. PICK B \in SUBSET Blocks : B = P[p].blocks
    BY <1>1
  <2>2. IsFiniteSet(B) /\ Numbers(s, B) /\ b \in B
    BY <2>1, SizesAdd
  <2>3. Total(s, B) = s[b] + Total(s, B \ {b})
    BY ONLY <2>2, TotalStep
  <2>4. Q[p].blocks = B \ {b} /\ Q[p].bytes = Total(s, B) - s[b]
    BY <1>1, <2>1
  <2>5. /\ Total(t, B \ {b}) = Total(s, B \ {b})
        /\ Total(s, B \ {b}) \in Int /\ B \ {b} \in SUBSET Blocks
    BY <1>4, SizesAdd
  <2>6. s[b] \in Int
    BY <1>1
  <2>7. Q[p].bytes = Total(t, B \ {b})
    BY ONLY <2>3, <2>4, <2>5, <2>6
  <2> QED BY <2>4, <2>5, <2>7 DEF Counted
<1>6. ASSUME NEW r \in PoolIds, Q[r].live
      PROVE  Q[r].blocks \in SUBSET Blocks /\ Counted(Q, t, r)
  <2>1. CASE r = p
    BY <1>5, <2>1
  <2>2. CASE r # p
    <3>1. PlateKept(Q, P, r)
      BY <2>2
    <3>2. P[r].live /\ Q[r].blocks = P[r].blocks /\ Q[r].bytes = P[r].bytes
      BY <1>6, <3>1 DEF PlateKept
    <3>3. P[r].blocks \in SUBSET Blocks /\ b \notin P[r].blocks
          /\ P[r].bytes = Total(s, P[r].blocks)
      BY <1>1, <1>3, <2>2, <3>2
    <3> QED BY <1>4, <3>2, <3>3 DEF Counted
  <2> QED BY <2>1, <2>2
<1>7. a - s[b] = Total(t, Blocks)
  <2>1. IsFiniteSet(Blocks) /\ Numbers(s, Blocks)
    BY SizesAdd
  <2>2. t[b] \in Int /\ \A y \in Blocks \ {b} : t[y] = s[y]
    BY <1>2
  <2>3. Total(t, Blocks) = Total(s, Blocks) - s[b] + t[b] /\ Total(s, Blocks) \in Int
    BY ONLY <2>1, <2>2, b \in Blocks, TotalAfter
  <2> QED BY <1>1, <1>2, <2>3
<1>8. Owners(Q, t)
  <2> SUFFICES ASSUME NEW c \in Blocks
               PROVE  t[c] > 0 <=> \E r \in PoolIds : Q[r].live /\ c \in Q[r].blocks
    BY DEF Owners
  <2>1. CASE c = b
    <3>1. \A r \in PoolIds : Q[r].live => b \notin Q[r].blocks
      BY <1>3 DEF PlateKept
    <3> QED BY <1>2, <2>1, <3>1
  <2>2. CASE c # b
    <3>1. \A r \in PoolIds : Q[r].live /\ c \in Q[r].blocks <=> P[r].live /\ c \in P[r].blocks
      BY <2>2 DEF PlateKept
    <3> QED BY <1>1, <1>2, <2>2, <3>1 DEF Owners
  <2> QED BY <2>1, <2>2
<1>9. OneOwner(Q)
  <2> SUFFICES ASSUME NEW q \in PoolIds, NEW r \in PoolIds, Q[q].live, Q[r].live, q # r
               PROVE  Q[q].blocks \cap Q[r].blocks = {}
    BY DEF OneOwner
  <2>1. P[q].live /\ P[r].live
    BY DEF PlateKept
  <2>2. P[q].blocks \cap P[r].blocks = {}
    BY <1>1, <2>1 DEF OneOwner
  <2> QED BY <2>2 DEF PlateKept
<1> QED BY <1>2, <1>6, <1>7, <1>8, <1>9 DEF Account

\* A pool born, with an empty plate.
LEMMA AccountBorn ==
  ASSUME NEW P, NEW Q, NEW s, NEW a, Account(P, s, a), NEW p \in PoolIds,
         ~P[p].live, Q[p].live, Q[p].blocks = {}, Q[p].bytes = 0,
         \A r \in PoolIds \ {p} : PlateKept(Q, P, r)
  PROVE  Account(Q, s, a)
<1>1. /\ s \in [Blocks -> Nat]
      /\ \A r \in PoolIds : P[r].live =>
           P[r].blocks \in SUBSET Blocks /\ P[r].bytes = Total(s, P[r].blocks)
      /\ a = Total(s, Blocks) /\ Owners(P, s) /\ OneOwner(P)
  BY DEF Account, Counted
<1>2. ASSUME NEW r \in PoolIds, Q[r].live
      PROVE  Q[r].blocks \in SUBSET Blocks /\ Counted(Q, s, r)
  <2>1. CASE r = p
    BY <2>1, TotalNone DEF Counted
  <2>2. CASE r # p
    <3>1. PlateKept(Q, P, r)
      BY <2>2
    <3> QED BY <1>1, <1>2, <3>1 DEF PlateKept, Counted
  <2> QED BY <2>1, <2>2
<1>3. \A c, r : r \in PoolIds => (Q[r].live /\ c \in Q[r].blocks <=> P[r].live /\ c \in P[r].blocks)
  BY DEF PlateKept
<1>4. Owners(Q, s)
  BY <1>1, <1>3 DEF Owners
<1>5. OneOwner(Q)
  BY <1>1, <1>3 DEF OneOwner
<1> QED BY <1>1, <1>2, <1>4, <1>5 DEF Account

\* A pool freed, with the blocks of its plate.
LEMMA AccountFreed ==
  ASSUME NEW P, NEW Q, NEW s, NEW t, NEW a, Account(P, s, a), NEW p \in PoolIds,
         P[p].live, ~Q[p].live,
         t = [b \in Blocks |-> IF b \in P[p].blocks THEN 0 ELSE s[b]],
         \A r \in PoolIds \ {p} : PlateKept(Q, P, r)
  PROVE  Account(Q, t, a - Total(s, P[p].blocks))
<1>1. /\ s \in [Blocks -> Nat]
      /\ \A r \in PoolIds : P[r].live =>
           P[r].blocks \in SUBSET Blocks /\ P[r].bytes = Total(s, P[r].blocks)
      /\ a = Total(s, Blocks) /\ Owners(P, s) /\ OneOwner(P)
  BY DEF Account, Counted
<1>2. PICK D \in SUBSET Blocks : D = P[p].blocks
  BY <1>1
<1>3. /\ t \in [Blocks -> Nat]
      /\ \A c \in D : t[c] = 0
      /\ \A c \in Blocks \ D : t[c] = s[c]
  BY <1>1, <1>2
<1>4. \A r \in PoolIds \ {p} : P[r].live => P[r].blocks \in SUBSET (Blocks \ D)
  BY <1>1, <1>2 DEF OneOwner
<1>5. \A B \in SUBSET (Blocks \ D) : Total(t, B) = Total(s, B)
  <2> SUFFICES ASSUME NEW B \in SUBSET (Blocks \ D)
               PROVE  Total(t, B) = Total(s, B)
    OBVIOUS
  <2>1. \A x \in B : t[x] = s[x]
    BY <1>3
  <2>2. IsFiniteSet(B)
    BY SizesAdd
  <2> QED BY ONLY <2>1, <2>2, TotalSame
<1>6. ASSUME NEW r \in PoolIds, Q[r].live
      PROVE  Q[r].blocks \in SUBSET Blocks /\ Counted(Q, t, r)
  <2>1. r # p /\ PlateKept(Q, P, r)
    BY <1>6
  <2>2. P[r].live /\ Q[r].blocks = P[r].blocks /\ Q[r].bytes = P[r].bytes
    BY <1>6, <2>1 DEF PlateKept
  <2>3. P[r].blocks \in SUBSET (Blocks \ D) /\ P[r].bytes = Total(s, P[r].blocks)
    BY <1>1, <1>4, <2>1, <2>2
  <2> QED BY <1>5, <2>2, <2>3 DEF Counted
<1>7. a - Total(s, D) = Total(t, Blocks)
  <2>1. IsFiniteSet(Blocks) /\ Numbers(s, Blocks) /\ Total(s, D) \in Int
        /\ Total(s, Blocks \ D) \in Int
    BY SizesAdd
  <2>2. Numbers(t, Blocks)
    BY <1>3 DEF Numbers
  <2>3. Total(s, Blocks) = Total(s, D) + Total(s, Blocks \ D)
    BY ONLY <2>1, D \in SUBSET Blocks, TotalParts
  <2>4. Total(t, Blocks) = Total(t, D) + Total(t, Blocks \ D)
    BY ONLY <2>1, <2>2, D \in SUBSET Blocks, TotalParts
  <2>5. Total(t, D) = 0
    BY <1>3, SizesAdd, TotalZero
  <2>6. Total(t, Blocks \ D) = Total(s, Blocks \ D)
    BY <1>5
  <2> QED BY ONLY <1>1, <2>1, <2>3, <2>4, <2>5, <2>6
<1>8. Owners(Q, t)
  <2> SUFFICES ASSUME NEW c \in Blocks
               PROVE  t[c] > 0 <=> \E r \in PoolIds : Q[r].live /\ c \in Q[r].blocks
    BY DEF Owners
  <2>1. CASE c \in D
    <3>1. \A r \in PoolIds : Q[r].live => c \notin Q[r].blocks
      BY <1>4, <2>1 DEF PlateKept
    <3> QED BY <1>3, <2>1, <3>1
  <2>2. CASE c \notin D
    <3>1. \A r \in PoolIds : Q[r].live /\ c \in Q[r].blocks <=> P[r].live /\ c \in P[r].blocks
      BY <1>2, <2>2 DEF PlateKept
    <3> QED BY <1>1, <1>3, <2>2, <3>1 DEF Owners
  <2> QED BY <2>1, <2>2
<1>9. OneOwner(Q)
  <2> SUFFICES ASSUME NEW q \in PoolIds, NEW r \in PoolIds, Q[q].live, Q[r].live, q # r
               PROVE  Q[q].blocks \cap Q[r].blocks = {}
    BY DEF OneOwner
  <2>1. P[q].live /\ P[r].live /\ q # p /\ r # p
    BY DEF PlateKept
  <2>2. P[q].blocks \cap P[r].blocks = {}
    BY <1>1, <2>1 DEF OneOwner
  <2> QED BY <2>1, <2>2 DEF PlateKept
<1> QED BY <1>2, <1>3, <1>6, <1>7, <1>8, <1>9 DEF Account

-----------------------------------------------------------------------------
(***************************************************************************)
(* The account under the steps of the registry.                            *)
(***************************************************************************)
AccountNow == Account(pool, size, bytesAll)

LEMMA AccountIsExact == AccountNow => BytesExact
<1> SUFFICES ASSUME AccountNow PROVE BytesExact
  OBVIOUS
<1>1. /\ size \in [Blocks -> Nat]
      /\ \A p \in PoolIds : pool[p].live => pool[p].bytes = Total(size, pool[p].blocks)
      /\ bytesAll = Total(size, Blocks) /\ Owners(pool, size)
  BY DEF AccountNow, Account, Counted
<1>2. \A p \in LivePools :
        pool[p].bytes = MapThenSumSet(LAMBDA b : size[b], pool[p].blocks)
  <2> SUFFICES ASSUME NEW p \in LivePools
               PROVE  pool[p].bytes = MapThenSumSet(LAMBDA b : size[b], pool[p].blocks)
    OBVIOUS
  <2>1. pool[p].bytes = Total(size, pool[p].blocks)
    BY <1>1 DEF LivePools
  <2>2. MapThenSumSet(LAMBDA b : size[b], pool[p].blocks) = Total(size, pool[p].blocks)
    BY SumIs
  <2> QED BY <2>1, <2>2
<1>3. bytesAll = MapThenSumSet(LAMBDA b : size[b], Blocks)
  <2>1. MapThenSumSet(LAMBDA b : size[b], Blocks) = Total(size, Blocks)
    BY SumIs
  <2> QED BY <1>1, <2>1
<1>4. \A b \in Blocks : size[b] > 0 <=> \E p \in LivePools : b \in pool[p].blocks
  BY <1>1 DEF Owners, LivePools
<1> QED BY <1>2, <1>3, <1>4 DEF BytesExact

\* The plate of p is B, k bytes, and nothing else of the table changed.
PlateSetTo(Q, P, p, B, k) ==
  /\ Q[p].live <=> P[p].live
  /\ Q[p].blocks = B /\ Q[p].bytes = k
  /\ \A r \in PoolIds \ {p} : PlateKept(Q, P, r)

LEMMA PlateNow ==
  ASSUME NEW P \in [PoolIds -> PoolRec], NEW p \in PoolIds,
         NEW B \in SUBSET Blocks, NEW k \in Int,
         NEW Q, Q = [P EXCEPT ![p].blocks = B, ![p].bytes = k]
  PROVE  PlateSetTo(Q, P, p, B, k)
<1>1. PICK o \in PoolRec : o = P[p]
  OBVIOUS
<1>2. PICK c : c = [o EXCEPT !.blocks = B, !.bytes = k]
  OBVIOUS
<1>3. (c.live <=> o.live) /\ c.blocks = B /\ c.bytes = k
  BY <1>2 DEF PoolRec
<1>4. Q = [P EXCEPT ![p] = c]
  BY <1>1, <1>2
<1>5. Q[p] = c /\ \A x \in PoolIds \ {p} : Q[x] = P[x]
  BY <1>4
<1> QED BY ONLY <1>1, <1>3, <1>5, p \in PoolIds DEF PlateSetTo, PlateKept

\* One block more on the plate of p, in a table P.
LEMMA AccountTake ==
  ASSUME NEW P \in [PoolIds -> PoolRec], NEW s, NEW a, Account(P, s, a),
         NEW p \in PoolIds, NEW b \in Blocks, NEW n \in Sizes, P[p].live, s[b] = 0,
         NEW Q, Q = [P EXCEPT ![p].blocks = @ \cup {b}, ![p].bytes = @ + n]
  PROVE  Account(Q, [s EXCEPT ![b] = n], a + n)
<1>1. n \in Nat \ {0}
  BY PoolsAssumption
<1>2. P[p].blocks \in SUBSET Blocks /\ P[p].bytes \in Int
  BY DEF PoolRec
<1>3. PICK B \in SUBSET Blocks : B = P[p].blocks \cup {b}
  BY <1>2
<1>4. PICK k \in Int : k = P[p].bytes + n
  BY <1>1, <1>2
<1>5. Q = [P EXCEPT ![p].blocks = B, ![p].bytes = k]
  BY <1>3, <1>4
<1>6. /\ Q[p].live <=> P[p].live
      /\ Q[p].blocks = B /\ Q[p].bytes = k
      /\ \A r \in PoolIds \ {p} : PlateKept(Q, P, r)
  <2>1. PlateSetTo(Q, P, p, B, k)
    BY ONLY <1>5, P \in [PoolIds -> PoolRec], p \in PoolIds, B \in SUBSET Blocks,
            k \in Int, PlateNow
  <2> QED BY ONLY <2>1 DEF PlateSetTo
<1>7. PICK t : t = [s EXCEPT ![b] = n]
  OBVIOUS
<1>8. Q[p].live /\ Q[p].blocks = P[p].blocks \cup {b} /\ Q[p].bytes = P[p].bytes + n
  BY <1>3, <1>4, <1>6
<1>9. Account(Q, t, a + n)
  BY ONLY Account(P, s, a), p \in PoolIds, b \in Blocks, <1>1, P[p].live, s[b] = 0,
          <1>6, <1>7, <1>8, AccountTaken
<1> QED BY <1>7, <1>9

LEMMA AccountStep ==
  ASSUME Typed, ChainInv, AccountNow, [Next]_vars
  PROVE  AccountNow'
<1>0. ASSUME UNCHANGED <<pool, size, bytesAll>>
      PROVE  AccountNow'
  BY <1>0 DEF AccountNow
<1>1. CASE UNCHANGED vars \/ Places \/ DropEnter \/ NextChild \/ ReleaseNext
           \/ ReleaseDone \/ LeaveRound \/ LeavePop
  <2>1. UNCHANGED <<pool, size, bytesAll>>
    BY <1>1 DEF vars, poolVars, memVars, Places, EnterPlace, LeavePlace, TaskBegin,
                TaskStep, TaskDrop, StepReturn, DropEnter, NextChild, ReleaseNext,
                ReleaseDone, LeaveRound, LeavePop
  <2> QED BY <1>0, <2>1
<1>2. ASSUME NEW q \in PoolIds \cup {None}, NEW z \in ZoneIds, NEW k \in Makes,
             PoolNew(q, z, k)
      PROVE  AccountNow'
  <2>1. /\ NewAt(z) /\ (q # None => pool[q].live) /\ pool' = Born(q, z)
        /\ UNCHANGED <<size, bytesAll>>
    BY <1>2 DEF PoolNew, memVars
  <2>2. PICK p, Q : p = TakenId /\ Q = pool'
    OBVIOUS
  <2>3. /\ p \in PoolIds /\ ~pool[p].live /\ Q[p].live
        /\ Q[p].blocks = {} /\ Q[p].bytes = 0
        /\ \A x \in PoolIds \ {p} : /\ Q[x].live <=> pool[x].live
                                    /\ Q[x].blocks = pool[x].blocks
                                    /\ Q[x].bytes = pool[x].bytes
    BY ONLY Typed, ChainInv, <2>1, <2>2, q \in PoolIds \cup {None}, z \in ZoneIds,
            BornTable
  <2>4. \A x \in PoolIds \ {p} : PlateKept(Q, pool, x)
    BY ONLY <2>3 DEF PlateKept
  <2>5. Account(Q, size, bytesAll)
    BY ONLY AccountNow, <2>3, <2>4, AccountBorn DEF AccountNow
  <2> QED BY <2>1, <2>2, <2>5 DEF AccountNow
<1>3. ASSUME NEW p \in PoolIds, PoolDrop(p) \/ PoolReset(p) \/ Release(p)
      PROVE  AccountNow'
  <2>1. UNCHANGED <<pool, size, bytesAll>>
    BY <1>3 DEF PoolDrop, PoolReset, Release, PoolCall, poolVars, memVars
  <2> QED BY <1>0, <2>1
<1>4. ASSUME NEW p \in PoolIds, NEW b \in Blocks, NEW n \in Sizes, Take(p, b, n)
      PROVE  AccountNow'
  <2>1. /\ pool' = [pool EXCEPT ![p].blocks = @ \cup {b}, ![p].bytes = @ + n]
        /\ size' = [size EXCEPT ![b] = n] /\ bytesAll' = bytesAll + n
        /\ pool[p].live /\ size[b] = 0
    BY <1>4 DEF Take, Unused
  <2>2. pool \in [PoolIds -> PoolRec]
    BY DEF Typed
  <2>3. Account(pool', size', bytesAll')
    BY ONLY AccountNow, <2>1, <2>2, p \in PoolIds, b \in Blocks, n \in Sizes,
            AccountTake DEF AccountNow
  <2> QED BY <2>3 DEF AccountNow
<1>5. ASSUME NEW p \in PoolIds, Rework(p)
      PROVE  AccountNow'
  <2>1. PICK b \in pool[p].blocks :
          Trap \/ Give(p, b) \/ \E c \in Blocks, n \in Sizes : Resize(p, b, c, n)
    BY <1>5 DEF Rework
  <2>2. /\ pool \in [PoolIds -> PoolRec]
        /\ pool[p].blocks \in SUBSET Blocks /\ pool[p].bytes \in Int
        /\ b \in Blocks /\ size \in [Blocks -> Nat] /\ size[b] \in Nat
    BY LinkTypes DEF PoolRec, Typed
  <2>3. CASE Trap
    BY <1>0, <2>3 DEF Trap, memVars
  <2>4. PICK s : s = size
    OBVIOUS
  <2>5. PICK B \in SUBSET Blocks : B = pool[p].blocks \ {b}
    BY <2>2
  <2>6. PICK k \in Int : k = pool[p].bytes - s[b]
    BY <2>2, <2>4
  <2>7. PICK R : R = [pool EXCEPT ![p].blocks = B, ![p].bytes = k]
    OBVIOUS
  <2>8. /\ R[p].live <=> pool[p].live
        /\ R[p].blocks = B /\ R[p].bytes = k
        /\ \A r \in PoolIds \ {p} : PlateKept(R, pool, r)
    <3>1. PlateSetTo(R, pool, p, B, k)
      BY ONLY <2>7, <2>2, p \in PoolIds, B \in SUBSET Blocks, k \in Int, PlateNow
    <3> QED BY ONLY <3>1 DEF PlateSetTo
  <2>9. PICK u : u = [s EXCEPT ![b] = 0]
    OBVIOUS
  <2>10. pool[p].live => Account(R, u, bytesAll - s[b])
    <3> SUFFICES ASSUME pool[p].live
                 PROVE  Account(R, u, bytesAll - s[b])
      OBVIOUS
    <3>1. Account(pool, s, bytesAll)
      BY <2>4 DEF AccountNow
    <3>2. /\ R[p].live /\ R[p].blocks = pool[p].blocks \ {b}
          /\ R[p].bytes = pool[p].bytes - s[b]
      BY <2>5, <2>6, <2>8
    <3>3. b \in pool[p].blocks
      OBVIOUS
    <3> QED BY ONLY pool[p].live, p \in PoolIds, <2>2, <2>8, <2>9, <3>1, <3>2, <3>3,
                    AccountGiven
  <2>11. CASE Give(p, b)
    <3>1. /\ pool' = [pool EXCEPT ![p].blocks = @ \ {b}, ![p].bytes = @ - s[b]]
          /\ size' = u /\ bytesAll' = bytesAll - s[b] /\ pool[p].live
      BY <2>11, <2>4, <2>9 DEF Give
    <3>2. pool' = R
      BY <3>1, <2>5, <2>6, <2>7
    <3> QED BY <2>10, <3>1, <3>2 DEF AccountNow
  <2>12. ASSUME NEW c \in Blocks, NEW n \in Sizes, Resize(p, b, c, n)
         PROVE  AccountNow'
    <3>1. /\ pool' = [pool EXCEPT ![p].blocks = (@ \ {b}) \cup {c},
                                  ![p].bytes = @ + n - s[b]]
          /\ size' = [s EXCEPT ![b] = 0, ![c] = n]
          /\ bytesAll' = bytesAll + n - s[b]
          /\ pool[p].live /\ (c = b \/ s[c] = 0)
      BY <2>12, <2>4 DEF Resize, Unused
    <3>2. n \in Nat
      BY PoolsAssumption
    <3>3. bytesAll \in Int
      <4>1. bytesAll = Total(size, Blocks) /\ Blocks \in SUBSET Blocks
        BY DEF AccountNow, Account
      <4> QED BY <4>1, SizesAdd DEF AccountNow
    <3>4. Account(R, u, bytesAll - s[b]) /\ R[p].live
      BY <2>8, <2>10, <3>1
    <3>5. u[c] = 0
      BY <2>2, <2>4, <2>9, <3>1
    <3>6. R \in [PoolIds -> PoolRec]
      <4>1. PICK o \in PoolRec : o = pool[p]
        BY <2>2
      <4>2. PICK e \in PoolRec :
               /\ e = [o EXCEPT !.blocks = B, !.bytes = k]
               /\ e.live <=> o.live
               /\ e.zone = o.zone /\ e.parent = o.parent
               /\ e.zoneNext = o.zoneNext /\ e.zonePrev = o.zonePrev
               /\ e.nextSibling = o.nextSibling /\ e.siblingPrev = o.siblingPrev
               /\ e.firstChild = o.firstChild
        BY PlateSet
      <4>3. R = [pool EXCEPT ![p] = e]
        BY <2>7, <4>1, <4>2
      <4> QED BY <2>2, <4>3
    <3>7. PICK Q : Q = [R EXCEPT ![p].blocks = @ \cup {c}, ![p].bytes = @ + n]
      OBVIOUS
    <3>8. Account(Q, [u EXCEPT ![c] = n], (bytesAll - s[b]) + n)
      BY ONLY <3>4, <3>5, <3>6, <3>7, p \in PoolIds, c \in Blocks, n \in Sizes, AccountTake
    <3>9. size' = [u EXCEPT ![c] = n]
      BY <2>9, <3>1
    <3>10. bytesAll' = (bytesAll - s[b]) + n
      BY ONLY <2>2, <2>4, <3>1, <3>2, <3>3
    <3>11. pool' = Q
      <4>1. PICK D : D = B \cup {c}
        OBVIOUS
      <4>2. PICK m : m = k + n
        OBVIOUS
      <4>3. pool[p].bytes + n - s[b] = m
        BY ONLY <2>2, <2>4, <2>6, <3>2, <4>2
      <4>4. pool' = [pool EXCEPT ![p].blocks = D, ![p].bytes = m]
        BY <2>5, <3>1, <4>1, <4>3
      <4>5. Q = [R EXCEPT ![p].blocks = D, ![p].bytes = m]
        BY <2>8, <3>7, <4>1, <4>2
      <4>6. PICK o \in PoolRec : o = pool[p]
        BY <2>2
      <4>7. PICK e : e = [o EXCEPT !.blocks = B, !.bytes = k]
        OBVIOUS
      <4>8. R = [pool EXCEPT ![p] = e]
        BY <2>7, <4>6, <4>7
      <4>9. Q = [R EXCEPT ![p] = [e EXCEPT !.blocks = D, !.bytes = m]]
        BY <2>2, <4>5, <4>8
      <4>10. [e EXCEPT !.blocks = D, !.bytes = m] = [o EXCEPT !.blocks = D, !.bytes = m]
        BY <4>7
      <4>11. pool' = [pool EXCEPT ![p] = [o EXCEPT !.blocks = D, !.bytes = m]]
        BY <4>4, <4>6
      <4> QED BY ONLY <2>2, <4>8, <4>9, <4>10, <4>11
    <3> QED BY ONLY <3>8, <3>9, <3>10, <3>11 DEF AccountNow
  <2> QED BY <2>1, <2>3, <2>11, <2>12
<1>6. CASE DropSelf
  <2>1. PICK p \in LivePools : p = rt[1].id
    <3>1. /\ rt # <<>> /\ rt[1].fn = "drop"
      BY <1>6 DEF DropSelf, InCall, Top
    <3>2. Depth \in Nat /\ Depth > 0
      BY <3>1 DEF Typed, Depth
    <3>3. ShapeAt(1) /\ SavedAt(1)
      BY <3>2 DEF ChainInv, Shape, Saved
    <3>4. rt[1].id \in PoolIds /\ pool[rt[1].id].live
      BY <3>1, <3>3 DEF ShapeAt, SavedAt
    <3> QED BY <3>4 DEF LivePools
  <2>2. /\ Dropped(p)
        /\ \A x \in PoolIds \ {p} : /\ pool'[x].blocks = pool[x].blocks
                                    /\ pool'[x].bytes = pool[x].bytes
    BY <1>6, <2>1, DropTables
  <2>3. /\ p \in PoolIds /\ pool[p].live /\ ~pool'[p].live
        /\ \A x \in PoolIds \ {p} : PlateKept(pool', pool, x)
    BY <2>2 DEF Dropped, LivePools, PlateKept
  <2>4. /\ size' = [b \in Blocks |-> IF b \in pool[p].blocks THEN 0 ELSE size[b]]
        /\ bytesAll' = bytesAll - MapThenSumSet(LAMBDA b : size[b], pool[p].blocks)
    BY <1>6, <2>1 DEF DropSelf, Top
  <2>5. MapThenSumSet(LAMBDA b : size[b], pool[p].blocks) = Total(size, pool[p].blocks)
    BY SumIs
  <2>6. PICK Q, t : Q = pool' /\ t = size'
    OBVIOUS
  <2>7. Account(Q, t, bytesAll - Total(size, pool[p].blocks))
    BY ONLY AccountNow, <2>3, <2>4, <2>6, AccountFreed DEF AccountNow
  <2>8. bytesAll' = bytesAll - Total(size, pool[p].blocks)
    BY <2>4, <2>5
  <2> QED BY ONLY <2>6, <2>7, <2>8 DEF AccountNow
<1>7. CASE ResetSelf
  <2>1. /\ pool' = [pool EXCEPT ![rt[1].id].firstChild = None,
                                ![rt[1].id].generation = @ + 1]
        /\ UNCHANGED <<size, bytesAll>>
    BY <1>7 DEF ResetSelf, Top, memVars
  <2>2. PICK p : p = rt[1].id
    OBVIOUS
  <2>3. pool' = [pool EXCEPT ![p].firstChild = None, ![p].generation = @ + 1]
    BY <2>1, <2>2
  <2>4. \A x \in PoolIds : pool[x] \in PoolRec
    BY LinkTypes
  <2>5. \A x \in PoolIds \ {p} : pool'[x] = pool[x]
    BY <2>3 DEF Typed
  <2>6. p \in PoolIds => /\ pool'[p].live <=> pool[p].live
                         /\ pool'[p].blocks = pool[p].blocks
                         /\ pool'[p].bytes = pool[p].bytes
    BY <2>3, <2>4 DEF Typed, PoolRec
  <2>7. \A x \in PoolIds : PlateKept(pool', pool, x)
    BY ONLY <2>5, <2>6 DEF PlateKept
  <2>8. PICK Q : Q = pool'
    OBVIOUS
  <2>9. Account(Q, size, bytesAll)
    BY ONLY AccountNow, <2>7, <2>8, AccountKept DEF AccountNow
  <2> QED BY ONLY <2>1, <2>8, <2>9 DEF AccountNow
<1> QED
  BY <1>1, <1>2, <1>3, <1>4, <1>5, <1>6, <1>7 DEF Next, Containers, Runtime

LEMMA AccountInit == Init => AccountNow
<1> SUFFICES ASSUME Init PROVE AccountNow
  OBVIOUS
<1>1. /\ size = [b \in Blocks |-> 0] /\ bytesAll = 0
      /\ pool = [p \in PoolIds |-> NewPool]
  BY DEF Init
<1>2. \A p \in PoolIds : ~pool[p].live
  BY <1>1 DEF NewPool
<1>3. Total(size, Blocks) = 0
  <2>1. IsFiniteSet(Blocks)
    BY PoolsAssumption
  <2>2. \A b \in Blocks : size[b] = 0
    BY <1>1
  <2> QED BY ONLY <2>1, <2>2, TotalZero
<1>4. Owners(pool, size)
  BY <1>1, <1>2 DEF Owners
<1>5. OneOwner(pool)
  BY <1>2 DEF OneOwner
<1> QED BY <1>1, <1>2, <1>3, <1>4, <1>5 DEF AccountNow, Account

\* BytesExact: in every reachable state, for any table sizes and any sizes of
\* blocks, the counter of a pool is the sum of the blocks of its plate, the
\* counter of the program is the sum of all blocks, and a block is allocated
\* exactly when it is on the plate of a living pool.
THEOREM EveryByteCounted == Spec => []BytesExact
<1>1. Init => PoolInv /\ AccountNow
  BY PoolInit, AccountInit
<1>2. (PoolInv /\ AccountNow) /\ [Next]_vars => (PoolInv /\ AccountNow)'
  BY PoolStep, AccountStep DEF PoolInv
<1> QED BY <1>1, <1>2, AccountIsExact, PTL DEF Spec


-----------------------------------------------------------------------------
(***************************************************************************)
(* What hangs off a set of pools.                                          *)
(***************************************************************************)
\* F with everything nested in it, in table P whose living pools are L.
ClosedIn(L, P, C) == \A q \in L : P[q].parent \in C => q \in C

HangsOff(L, P, F) ==
  {p \in L : \A C \in SUBSET L : (F \subseteq C /\ ClosedIn(L, P, C)) => p \in C}

LEMMA HangsOffIs ==
  ASSUME NEW L, NEW P, NEW F, F \subseteq L
  PROVE  /\ F \subseteq HangsOff(L, P, F) /\ HangsOff(L, P, F) \subseteq L
         /\ ClosedIn(L, P, HangsOff(L, P, F))
<1>1. F \subseteq HangsOff(L, P, F) /\ HangsOff(L, P, F) \subseteq L
  BY DEF HangsOff
<1>2. ASSUME NEW q \in L, P[q].parent \in HangsOff(L, P, F)
      PROVE  q \in HangsOff(L, P, F)
  <2>1. ASSUME NEW C \in SUBSET L, F \subseteq C, ClosedIn(L, P, C)
        PROVE  q \in C
    <3>1. P[q].parent \in C
      BY <1>2, <2>1 DEF HangsOff
    <3> QED BY <2>1, <3>1 DEF ClosedIn
  <2> QED BY <2>1 DEF HangsOff
<1> QED BY <1>1, <1>2 DEF ClosedIn

LEMMA HangsOffLeast ==
  ASSUME NEW L, NEW P, NEW F, NEW C \in SUBSET L, F \subseteq C, ClosedIn(L, P, C)
  PROVE  HangsOff(L, P, F) \subseteq C
BY DEF HangsOff

LEMMA HangsOffNone ==
  ASSUME NEW L, NEW P
  PROVE  HangsOff(L, P, {}) = {}
<1>1. ClosedIn(L, P, {}) /\ {} \in SUBSET L
  BY DEF ClosedIn
<1> QED BY <1>1, HangsOffLeast

\* Only the parents of the living pools matter.
LEMMA HangsOffAlike ==
  ASSUME NEW L, NEW P, NEW Q, NEW F, \A q \in L : Q[q].parent = P[q].parent
  PROVE  HangsOff(L, Q, F) = HangsOff(L, P, F)
<1>1. \A C : ClosedIn(L, Q, C) <=> ClosedIn(L, P, C)
  BY DEF ClosedIn
<1> QED BY <1>1 DEF HangsOff

\* What is swept already may be named again.
LEMMA HangsOffAgain ==
  ASSUME NEW L, NEW P, NEW F, F \subseteq L, NEW G, F \subseteq G,
         G \subseteq HangsOff(L, P, F)
  PROVE  HangsOff(L, P, G) = HangsOff(L, P, F)
<1>1. G \subseteq L /\ HangsOff(L, P, F) \in SUBSET L
  BY HangsOffIs
<1>2. HangsOff(L, P, G) \subseteq HangsOff(L, P, F)
  BY <1>1, HangsOffIs, HangsOffLeast
<1>3. HangsOff(L, P, F) \subseteq HangsOff(L, P, G)
  <2>1. /\ F \subseteq HangsOff(L, P, G) /\ HangsOff(L, P, G) \in SUBSET L
        /\ ClosedIn(L, P, HangsOff(L, P, G))
    BY <1>1, HangsOffIs
  <2> QED BY <2>1, HangsOffLeast
<1> QED BY <1>2, <1>3

\* A pool that was named and has nothing nested in it leaves.
LEMMA HangsOffOut ==
  ASSUME NEW L, NEW P, NEW F, F \subseteq L, NEW p \in F,
         \A q \in L : P[q].parent # p
  PROVE  HangsOff(L \ {p}, P, F \ {p}) = HangsOff(L, P, F) \ {p}
<1> DEFINE W == HangsOff(L, P, F)
<1> DEFINE V == HangsOff(L \ {p}, P, F \ {p})
<1>1. F \subseteq W /\ W \subseteq L /\ ClosedIn(L, P, W)
  BY HangsOffIs
<1>2. F \ {p} \subseteq V /\ V \subseteq L \ {p} /\ ClosedIn(L \ {p}, P, V)
  BY HangsOffIs
<1>3. V \subseteq W \ {p}
  <2>1. ClosedIn(L \ {p}, P, W \ {p}) /\ W \ {p} \in SUBSET (L \ {p})
    BY <1>1 DEF ClosedIn
  <2> HIDE DEF W
  <2> QED BY <1>1, <2>1, HangsOffLeast
<1>4. W \subseteq V \cup {p}
  <2>1. ClosedIn(L, P, V \cup {p}) /\ V \cup {p} \in SUBSET L
    BY <1>2 DEF ClosedIn
  <2> HIDE DEF V
  <2> QED BY <1>2, <2>1, HangsOffLeast
<1> QED BY <1>2, <1>3, <1>4

\* Everything below a pool is what hangs off its children.
LEMMA HangsOffBelow ==
  ASSUME NEW L, NEW P, NEW p \in L, NEW r,
         \A q \in L : r[q] \in Nat,
         \A q \in L : P[q].parent \in L => r[P[q].parent] < r[q],
         NEW K, K = {q \in L : P[q].parent = p}
  PROVE  HangsOff(L, P, K) = HangsOff(L, P, {p}) \ {p}
<1> DEFINE W == HangsOff(L, P, {p})
<1> DEFINE V == HangsOff(L, P, K)
<1>1. {p} \subseteq W /\ W \subseteq L /\ ClosedIn(L, P, W)
  BY HangsOffIs
<1>2. K \subseteq V /\ V \subseteq L /\ ClosedIn(L, P, V)
  BY HangsOffIs
<1>3. p \notin V
  <2> DEFINE C == {q \in L : r[p] < r[q]}
  <2>1. C \in SUBSET L /\ K \subseteq C
    OBVIOUS
  <2>2. ClosedIn(L, P, C)
    <3> SUFFICES ASSUME NEW q \in L, P[q].parent \in C PROVE q \in C
      BY DEF ClosedIn
    <3>1. PICK u \in L : u = P[q].parent /\ r[p] < r[u]
      OBVIOUS
    <3>2. r[u] < r[q] /\ r[p] \in Nat /\ r[u] \in Nat /\ r[q] \in Nat
      BY <3>1
    <3>3. r[p] < r[q]
      BY <3>1, <3>2
    <3> QED BY <3>3
  <2>3. ~(r[p] < r[p])
    OBVIOUS
  <2>4. p \notin C
    BY <2>3
  <2> HIDE DEF C
  <2>5. V \subseteq C
    BY <2>1, <2>2, HangsOffLeast
  <2> QED BY <2>4, <2>5
<1>4. V \subseteq W
  <2>1. K \subseteq W
    BY <1>1 DEF ClosedIn
  <2> HIDE DEF W
  <2> QED BY <1>1, <2>1, HangsOffLeast
<1>5. W \subseteq V \cup {p}
  <2>1. ClosedIn(L, P, V \cup {p}) /\ V \cup {p} \in SUBSET L
    BY <1>2 DEF ClosedIn
  <2> HIDE DEF V
  <2> QED BY <1>2, <2>1, HangsOffLeast
<1> QED BY <1>3, <1>4, <1>5

-----------------------------------------------------------------------------
(***************************************************************************)
(* What the frames of the running call name.                               *)
(***************************************************************************)
Named(s, fn) == {s[i].id : i \in {j \in 1..Len(s) : s[j].fn = fn}}
NamedBelow(s, fn) == {s[i].id : i \in {j \in 2..Len(s) : s[j].fn = fn}}

LEMMA NamedTop ==
  ASSUME NEW s, Len(s) \in Nat, Len(s) > 0, NEW fn
  PROVE  Named(s, fn) = (IF s[1].fn = fn THEN {s[1].id} ELSE {}) \cup NamedBelow(s, fn)
<1>1. 1..Len(s) = {1} \cup 2..Len(s)
  OBVIOUS
<1> QED BY <1>1 DEF Named, NamedBelow

LEMMA NamedOne ==
  ASSUME NEW s, Len(s) = 1, NEW fn
  PROVE  Named(s, fn) = IF s[1].fn = fn THEN {s[1].id} ELSE {}
BY DEF Named

LEMMA NamedTwo ==
  ASSUME NEW s, Len(s) = 2, NEW fn
  PROVE  Named(s, fn) = (IF s[1].fn = fn THEN {s[1].id} ELSE {})
                        \cup (IF s[2].fn = fn THEN {s[2].id} ELSE {})
<1>1. 1..2 = {1, 2}
  OBVIOUS
<1> QED BY <1>1 DEF Named

LEMMA NamedNone ==
  ASSUME NEW s, Len(s) = 0, NEW fn
  PROVE  Named(s, fn) = {}
BY DEF Named

\* The top frame goes.
LEMMA NamedPop ==
  ASSUME NEW s, Len(s) \in Nat, Len(s) > 0, NEW t, Len(t) = Len(s) - 1,
         \A i \in 1..Len(t) : t[i] = s[i + 1], NEW fn
  PROVE  Named(t, fn) = NamedBelow(s, fn)
<1>1. \A x : x \in Named(t, fn) => x \in NamedBelow(s, fn)
  <2> SUFFICES ASSUME NEW i \in 1..Len(t), t[i].fn = fn
               PROVE  t[i].id \in NamedBelow(s, fn)
    BY DEF Named
  <2>1. i + 1 \in 2..Len(s) /\ t[i] = s[i + 1]
    OBVIOUS
  <2> QED BY <2>1 DEF NamedBelow
<1>2. \A x : x \in NamedBelow(s, fn) => x \in Named(t, fn)
  <2> SUFFICES ASSUME NEW i \in 2..Len(s), s[i].fn = fn
               PROVE  s[i].id \in Named(t, fn)
    BY DEF NamedBelow
  <2>1. i - 1 \in 1..Len(t) /\ (i - 1) + 1 = i
    OBVIOUS
  <2>2. t[i - 1] = s[i]
    BY <2>1
  <2> QED BY <2>1, <2>2 DEF Named
<1> QED BY <1>1, <1>2

\* Only the top frame changes.
LEMMA NamedSwap ==
  ASSUME NEW s, NEW t, Len(t) = Len(s), \A i \in 2..Len(s) : t[i] = s[i], NEW fn
  PROVE  NamedBelow(t, fn) = NamedBelow(s, fn)
BY DEF NamedBelow

\* A call is pushed on a loop that keeps its frame.
LEMMA NamedPush ==
  ASSUME NEW s, Len(s) \in Nat, Len(s) > 0, NEW t, Len(t) = Len(s) + 1,
         t[1].fn = "call", t[2].fn = s[1].fn, t[2].id = s[1].id,
         \A i \in 2..Len(s) : t[i + 1] = s[i], NEW fn, fn # "call"
  PROVE  Named(t, fn) = Named(s, fn)
<1>1. \A x : x \in Named(t, fn) => x \in Named(s, fn)
  <2> SUFFICES ASSUME NEW i \in 1..Len(t), t[i].fn = fn
               PROVE  t[i].id \in Named(s, fn)
    BY DEF Named
  <2>1. CASE i = 2
    BY <2>1 DEF Named
  <2>2. CASE i > 2
    <3>1. i - 1 \in 2..Len(s) /\ (i - 1) + 1 = i
      BY <2>2
    <3>2. t[i] = s[i - 1]
      BY <3>1
    <3> QED BY <3>1, <3>2 DEF Named
  <2> QED BY <2>1, <2>2
<1>2. \A x : x \in Named(s, fn) => x \in Named(t, fn)
  <2> SUFFICES ASSUME NEW i \in 1..Len(s), s[i].fn = fn
               PROVE  s[i].id \in Named(t, fn)
    BY DEF Named
  <2>1. CASE i = 1
    BY <2>1 DEF Named
  <2>2. CASE i > 1
    <3>1. i + 1 \in 1..Len(t) /\ t[i + 1] = s[i]
      BY <2>2
    <3> QED BY <3>1 DEF Named
  <2> QED BY <2>1, <2>2
<1> QED BY <1>1, <1>2

-----------------------------------------------------------------------------
(***************************************************************************)
(* The abstract state.                                                     *)
(***************************************************************************)
Standing  == LivePools \ Doomed
TreeNow   == [p \in Standing |-> [above |-> pool[p].parent, home |-> pool[p].zone]]
AgeNow    == [p \in PoolIds |-> pool[p].generation]
PlacesNow == {z \in ZoneIds : zone[z].live} \ Closing

\* Pools of L that a call with frames s is about to drop, in table P.
FallingIn(L, P, s) ==
  {p \in L : \/ P[p].zone \in Named(s, "release")
             \/ p \in Named(s, "drop")
             \/ P[p].parent \in Named(s, "reset")}

\* No frame of s drops, resets or releases.
Quiet(s) == \A fn \in {"release", "drop", "reset"} : Named(s, fn) = {}

LEMMA MapIs ==
  /\ Closing = Named(rt, "release")
  /\ Falling = FallingIn(LivePools, pool, rt)
  /\ Doomed = HangsOff(LivePools, pool, Falling)
  /\ Falling \subseteq LivePools
<1>1. Closing = Named(rt, "release")
  BY DEF Closing, Named
<1>2. Falling = FallingIn(LivePools, pool, rt)
  <2>1. ASSUME NEW fn, NEW x
        PROVE  x \in Named(rt, fn) <=> \E i \in 1..Len(rt) : rt[i].fn = fn /\ rt[i].id = x
    BY DEF Named
  <2> QED BY <1>1, <2>1 DEF Falling, FallingIn
<1>3. Doomed = HangsOff(LivePools, pool, Falling)
  BY DEF Doomed, HangsOff, ClosedIn
<1> QED BY <1>1, <1>2, <1>3 DEF FallingIn

LEMMA MapIsNext ==
  /\ Closing' = Named(rt', "release")
  /\ Falling' = FallingIn(LivePools', pool', rt')
  /\ Doomed' = HangsOff(LivePools', pool', Falling')
<1>1. Closing' = Named(rt', "release")
  BY DEF Closing, Named
<1>2. Falling' = FallingIn(LivePools', pool', rt')
  <2>1. ASSUME NEW fn, NEW x
        PROVE  x \in Named(rt', fn) <=> \E i \in 1..Len(rt') : rt'[i].fn = fn /\ rt'[i].id = x
    BY DEF Named
  <2> QED BY <1>1, <2>1 DEF Falling, FallingIn
<1>3. Doomed' = HangsOff(LivePools', pool', Falling')
  BY DEF Doomed, HangsOff, ClosedIn
<1> QED BY <1>1, <1>2, <1>3

LEMMA QuietIs ==
  ASSUME NEW L, NEW P, NEW s, Quiet(s)
  PROVE  FallingIn(L, P, s) = {} /\ Named(s, "release") = {}
BY DEF Quiet, FallingIn

LEMMA QuietNow ==
  ASSUME Quiet(rt)
  PROVE  Closing = {} /\ Falling = {} /\ Doomed = {} /\ Standing = LivePools
<1>1. Closing = {} /\ Falling = {}
  BY QuietIs, MapIs
<1>2. Doomed = {}
  BY <1>1, MapIs, HangsOffNone
<1> QED BY <1>1, <1>2 DEF Standing

LEMMA QuietNext ==
  ASSUME Quiet(rt')
  PROVE  Closing' = {} /\ Falling' = {} /\ Doomed' = {} /\ Standing' = LivePools'
<1>1. Closing' = {} /\ Falling' = {}
  BY QuietIs, MapIsNext
<1>2. Doomed' = {}
  BY <1>1, MapIsNext, HangsOffNone
<1> QED BY <1>1, <1>2 DEF Standing

\* What the abstract state reads of the tables is kept.
PoolsKept ==
  \A x \in PoolIds :
    /\ pool'[x].live <=> pool[x].live
    /\ pool'[x].zone = pool[x].zone /\ pool'[x].parent = pool[x].parent
    /\ pool'[x].generation = pool[x].generation
ZonesKept == \A z \in ZoneIds : zone'[z].live <=> zone[z].live

LEMMA Stutter ==
  ASSUME TreeNow' = TreeNow, AgeNow' = AgeNow, PlacesNow' = PlacesNow
  PROVE  [Tree!TreeNext]_Tree!treeVars
BY DEF Tree!treeVars, TreeNow, AgeNow, PlacesNow, Standing

LEMMA TreeKept ==
  ASSUME Standing' = Standing,
         \A p \in Standing : pool'[p].parent = pool[p].parent /\ pool'[p].zone = pool[p].zone
  PROVE  TreeNow' = TreeNow
BY DEF TreeNow

\* Tables and frames that read the same change nothing.
LEMMA KeptStutters ==
  ASSUME PoolsKept, ZonesKept,
         \A fn \in {"release", "drop", "reset"} : Named(rt', fn) = Named(rt, fn)
  PROVE  [Tree!TreeNext]_Tree!treeVars
<1>1. LivePools' = LivePools
  BY DEF PoolsKept, LivePools
<1>2. Closing' = Closing /\ Falling' = Falling
  <2>1. Named(rt', "release") = Named(rt, "release")
        /\ Named(rt', "drop") = Named(rt, "drop") /\ Named(rt', "reset") = Named(rt, "reset")
    OBVIOUS
  <2>2. FallingIn(LivePools', pool', rt') = FallingIn(LivePools, pool, rt)
    BY <1>1, <2>1 DEF FallingIn, PoolsKept, LivePools
  <2> QED BY <2>1, <2>2, MapIs, MapIsNext
<1>3. Doomed' = Doomed
  <2>1. \A q \in LivePools : pool'[q].parent = pool[q].parent
    BY DEF PoolsKept, LivePools
  <2>2. HangsOff(LivePools, pool', Falling) = HangsOff(LivePools, pool, Falling)
    BY <2>1, HangsOffAlike
  <2> QED BY <1>1, <1>2, <2>2, MapIs, MapIsNext
<1>4. Standing' = Standing /\ \A p \in Standing : p \in PoolIds
  BY <1>1, <1>3 DEF Standing, LivePools
<1>5. TreeNow' = TreeNow
  BY <1>4, TreeKept DEF PoolsKept
<1>6. AgeNow' = AgeNow
  BY DEF AgeNow, PoolsKept
<1>7. PlacesNow' = PlacesNow
  BY <1>2 DEF PlacesNow, ZonesKept
<1> QED BY <1>5, <1>6, <1>7, Stutter

LEMMA UnderIs ==
  ASSUME NEW S
  PROVE  Tree!Under(S) = HangsOff(Standing, pool, S)
<1>1. Tree!Up = Standing
  BY DEF Tree!Up, Standing
<1>2. \A q \in Standing : TreeNow[q].above = pool[q].parent
  BY DEF TreeNow
<1>3. Tree!Under(S) = {p \in Standing : \A C \in SUBSET Standing :
          (S \subseteq C /\ \A q \in Standing : TreeNow[q].above \in C => q \in C) => p \in C}
  BY <1>1 DEF Tree!Under, TreeNow, Standing
<1> QED BY <1>2, <1>3 DEF HangsOff, ClosedIn

LEMMA RemoveIs ==
  ASSUME NEW S, Standing' = Standing \ S, PoolsKept
  PROVE  TreeNow' = [p \in Standing \ S |-> TreeNow[p]]
<1>1. \A p \in Standing : pool'[p].parent = pool[p].parent /\ pool'[p].zone = pool[p].zone
  BY DEF PoolsKept, Standing, LivePools
<1> QED BY <1>1 DEF TreeNow

LEMMA QuietShort ==
  /\ Quiet(<<>>)
  /\ \A s : Len(s) = 1 /\ s[1].fn \in {"leaveTo", "popTo", "call"} => Quiet(s)
<1>1. Quiet(<<>>)
  BY NamedNone DEF Quiet
<1>2. ASSUME NEW s, Len(s) = 1, s[1].fn \in {"leaveTo", "popTo", "call"} PROVE Quiet(s)
  BY <1>2, NamedOne DEF Quiet
<1> QED BY <1>1, <1>2

\* While no call drops or releases, the abstract tree is the table.
LEMMA QuietStutters ==
  ASSUME PoolsKept, ZonesKept, Quiet(rt), Quiet(rt')
  PROVE  [Tree!TreeNext]_Tree!treeVars
BY KeptStutters DEF Quiet

\* A place opens.
LEMMA OpenMaps ==
  ASSUME Quiet(rt), Quiet(rt'), UNCHANGED pool, NEW z \in ZoneIds,
         ~zone[z].live, zone'[z].live,
         \A y \in ZoneIds \ {z} : zone'[y].live <=> zone[y].live
  PROVE  [Tree!TreeNext]_Tree!treeVars
<1>1. /\ PlacesNow = {y \in ZoneIds : zone[y].live}
      /\ PlacesNow' = {y \in ZoneIds : zone'[y].live}
  BY QuietNow, QuietNext DEF PlacesNow
<1>2. z \notin PlacesNow /\ PlacesNow' = PlacesNow \cup {z}
  BY <1>1
<1>3. Standing' = Standing
  BY QuietNow, QuietNext DEF LivePools
<1>4. TreeNow' = TreeNow /\ AgeNow' = AgeNow
  BY <1>3, TreeKept DEF AgeNow
<1>5. Tree!Open(z)
  BY <1>2, <1>4 DEF Tree!Open, TreeNow, AgeNow, PlacesNow, Standing
<1> QED BY <1>5 DEF Tree!TreeNext

\* A place begins to be released.
LEMMA CloseMaps ==
  ASSUME Quiet(rt), UNCHANGED <<pool, zone>>, NEW z \in ZoneIds, zone[z].live,
         Named(rt', "release") = {z}, Named(rt', "drop") = {}, Named(rt', "reset") = {}
  PROVE  [Tree!TreeNext]_Tree!treeVars
<1>1. Closing = {} /\ Standing = LivePools
  BY QuietNow
<1>2. LivePools' = LivePools /\ Closing' = {z}
  BY MapIsNext DEF LivePools
<1>3. z \in PlacesNow /\ PlacesNow' = PlacesNow \ {z}
  BY <1>1, <1>2 DEF PlacesNow
<1>4. PICK S : S = {p \in LivePools : pool[p].zone = z}
  OBVIOUS
<1>5. Falling' = S
  BY <1>2, <1>4, MapIsNext DEF FallingIn
<1>6. Doomed' = Tree!Under(S)
  BY <1>1, <1>2, <1>5, MapIsNext, UnderIs
<1>7. Standing' = Standing \ Tree!Under(S)
  BY <1>1, <1>2, <1>6 DEF Standing
<1>8. PICK V : V = Tree!Under(S)
  OBVIOUS
<1>9. V = Tree!Under({p \in Tree!Up : TreeNow[p].home = z})
  <2>1. Tree!Up = LivePools /\ \A p \in LivePools : TreeNow[p].home = pool[p].zone
    BY <1>1 DEF Tree!Up, TreeNow, Standing
  <2>2. S = {p \in Tree!Up : TreeNow[p].home = z}
    BY <1>4, <2>1
  <2> QED BY <1>8, <2>2
<1>10. AgeNow' = AgeNow
  BY DEF AgeNow
<1>11. Tree!Close(z)
  <2>1. TreeNow' = [p \in Standing \ V |-> TreeNow[p]]
    <3>1. PoolsKept
      BY DEF PoolsKept
    <3> QED BY ONLY <1>7, <1>8, <3>1, RemoveIs
  <2>2. TreeNow' = Tree!Restrict(TreeNow, Tree!Up \ V)
    BY <2>1 DEF Tree!Restrict, Tree!Up, TreeNow, Standing
  <2> QED BY ONLY <1>3, <1>9, <1>10, <2>2
             DEF Tree!Close, Tree!Remove, TreeNow, AgeNow, PlacesNow, Standing
<1> QED BY <1>11 DEF Tree!TreeNext

-----------------------------------------------------------------------------
(***************************************************************************)
(* Places and tasks.                                                       *)
(***************************************************************************)
LEMMA AllocMaps ==
  ASSUME Typed, ChainInv, NEW u \in ZoneIds \cup {None}, NEW d \in Nat, AllocSlot(u, d),
         UNCHANGED poolVars, rt = <<>>, rt' = <<>>
  PROVE  [Tree!TreeNext]_Tree!treeVars
<1>1. /\ SlotId \in ZoneIds /\ ~zone[SlotId].live /\ zone'[SlotId].live
      /\ \A z \in ZoneIds \ {SlotId} : zone'[z] = zone[z]
  BY AllocTables
<1>2. Quiet(rt) /\ Quiet(rt') /\ UNCHANGED pool
  BY QuietShort DEF poolVars
<1>3. PICK z \in ZoneIds : z = SlotId
  BY <1>1
<1> QED BY <1>1, <1>2, <1>3, OpenMaps

LEMMA EnterPlaceMaps ==
  ASSUME PoolInv, EnterPlace
  PROVE  [Tree!TreeNext]_Tree!treeVars
<1>1. Typed /\ ChainInv /\ rt = <<>> /\ rt' = <<>> /\ UNCHANGED poolVars
  BY DEF PoolInv, EnterPlace, Running
<1>2. PICK d : d = IF zoneTop # None THEN zone[zoneTop].depth + 1 ELSE 1
  OBVIOUS
<1>3. d \in Nat /\ zoneTop \in ZoneIds \cup {None}
  BY <1>1, <1>2, PlaceTypes DEF Typed
<1>4. PICK u \in ZoneIds \cup {None} : u = zoneTop
  BY <1>3
<1>5. AllocSlot(u, d)
  BY <1>2, <1>4 DEF EnterPlace
<1> QED BY ONLY <1>1, <1>3, <1>4, <1>5, AllocMaps

LEMMA TaskBeginMaps ==
  ASSUME PoolInv, TaskBegin
  PROVE  [Tree!TreeNext]_Tree!treeVars
<1>1. Typed /\ ChainInv /\ rt = <<>> /\ rt' = <<>> /\ UNCHANGED poolVars
  BY DEF PoolInv, TaskBegin, Running
<1>2. AllocSlot(None, 0) /\ 0 \in Nat /\ None \in ZoneIds \cup {None}
  BY DEF TaskBegin
<1> QED BY ONLY <1>1, <1>2, AllocMaps

LEMMA EndTaskMaps ==
  ASSUME Typed, ChainInv, NEW t \in 1..Begun, EndTask(t), rt = <<>>,
         UNCHANGED <<poolVars, zone, zoneN, zoneFree, memVars>>
  PROVE  [Tree!TreeNext]_Tree!treeVars
<1>1. Quiet(rt) /\ UNCHANGED <<pool, zone>> /\ PoolsKept /\ ZonesKept
  BY QuietShort DEF poolVars, PoolsKept, ZonesKept
<1>2. PICK z \in ZoneIds : z = tasks[t].zone
  BY LevelTypes
<1>3. CASE tasks[t].live /\ zone[z].live
  <2>1. rt' = ReleaseCall(z)
    BY <1>2, <1>3 DEF EndTask
  <2>2. Depth' = 1 /\ rt'[1].fn = "release" /\ rt'[1].id = z
    BY <1>3, <2>1, TaskRelease
  <2>3. /\ Named(rt', "release") = {z} /\ Named(rt', "drop") = {}
        /\ Named(rt', "reset") = {}
    BY <2>2, NamedOne DEF Depth
  <2> QED BY <1>1, <1>3, <2>3, CloseMaps
<1>4. CASE ~(tasks[t].live /\ zone[z].live)
  <2>1. rt' = <<>>
    BY <1>2, <1>4 DEF EndTask, ReleaseCall
  <2> QED BY <1>1, <2>1, QuietShort, QuietStutters
<1> QED BY <1>3, <1>4

LEMMA TaskDropMaps ==
  ASSUME PoolInv, NEW t, TaskDrop(t)
  PROVE  [Tree!TreeNext]_Tree!treeVars
<1>1. /\ Typed /\ ChainInv /\ rt = <<>> /\ t \in 1..Begun /\ EndTask(t)
      /\ UNCHANGED <<poolVars, zone, zoneN, zoneFree, memVars>>
  BY DEF PoolInv, TaskDrop, Running, Begun, zoneVars
<1> QED BY ONLY <1>1, EndTaskMaps

LEMMA StillMaps ==
  ASSUME rt = <<>>, rt' = <<>>, UNCHANGED <<pool, zone>>
  PROVE  [Tree!TreeNext]_Tree!treeVars
BY QuietShort, QuietStutters DEF PoolsKept, ZonesKept

LEMMA StepReturnMaps ==
  ASSUME PoolInv, NEW done \in BOOLEAN, StepReturn(done)
  PROVE  [Tree!TreeNext]_Tree!treeVars
<1>1. /\ Typed /\ ChainInv /\ rt = <<>> /\ calls # <<>> /\ calls[1].fn = "step"
      /\ UNCHANGED <<poolVars, zone, zoneN, zoneFree, memVars>>
  BY DEF PoolInv, StepReturn, Running
<1>2. CASE done
  <2>1. PICK t : t = calls[1].id
    OBVIOUS
  <2>2. EndTask(t)
    BY <1>2, <2>1 DEF StepReturn
  <2>3. t \in 1..Begun
    <3>1. Level \in Nat /\ Level > 0
      BY <1>1, LevelTypes
    <3> QED BY <1>1, <2>1, <3>1 DEF PoolInv, PlaceInv, Stack
  <2> QED BY ONLY <1>1, <2>2, <2>3, EndTaskMaps
<1>3. CASE ~done
  <2>1. rt' = <<>> /\ UNCHANGED <<pool, zone>>
    BY <1>1, <1>3 DEF StepReturn, poolVars
  <2> QED BY <1>1, <2>1, StillMaps
<1> QED BY <1>2, <1>3

LEMMA LeavePlaceMaps ==
  ASSUME PoolInv, NEW i, LeavePlace(i)
  PROVE  [Tree!TreeNext]_Tree!treeVars
<1>1. /\ Typed /\ rt = <<>> /\ i \in 1..Level /\ UNCHANGED <<poolVars, zoneVars>>
      /\ rt' = Frame("leaveTo", calls[i].id, None)
  BY DEF PoolInv, LeavePlace, Running, Level
<1>2. calls[i].id \in Int /\ None \in Int
  BY <1>1, LevelTypes, NoneApart
<1>3. Depth' = 1 /\ rt'[1].fn = "leaveTo"
  BY <1>1, <1>2, StartFrame
<1>4. Quiet(rt) /\ Quiet(rt')
  BY <1>1, <1>3, QuietShort DEF Depth
<1>5. PoolsKept /\ ZonesKept
  BY <1>1 DEF PoolsKept, ZonesKept, poolVars, zoneVars
<1> QED BY <1>4, <1>5, QuietStutters

LEMMA LeaveRoundMaps ==
  ASSUME PoolInv, LeaveRound
  PROVE  [Tree!TreeNext]_Tree!treeVars
<1>1. /\ Typed /\ ChainInv /\ rt # <<>> /\ rt[1].fn = "leaveTo"
      /\ UNCHANGED <<poolVars, zoneVars, memVars, tasks, calls, halted>>
  BY DEF PoolInv, LeaveRound, InCall, Top
<1>2. Depth = 1 /\ rt[1].id \in ZoneIds
  <2>1. Depth \in Nat /\ Depth > 0
    BY <1>1, FrameTypes
  <2> QED BY <1>1, <2>1 DEF ChainInv, Shape, ShapeAt
<1>3. Quiet(rt) /\ UNCHANGED <<pool, zone>> /\ PoolsKept /\ ZonesKept
  BY <1>1, <1>2, QuietShort DEF Depth, PoolsKept, ZonesKept, poolVars, zoneVars
<1>4. Tail(rt) = <<>>
  <2>1. PICK t : t = Tail(rt)
    OBVIOUS
  <2>2. t \in Seq(FrameRec) /\ Len(t) = 1 - 1
    BY ONLY <1>1, <1>2, <2>1, PopFrame
  <2> QED BY ONLY <2>1, <2>2, EmptySeq
<1>5. CASE zoneTop = None
  <2>1. rt' = <<>>
    BY <1>4, <1>5 DEF LeaveRound
  <2> QED BY <1>3, <2>1, QuietShort, QuietStutters
<1>6. CASE zoneTop # None
  <2>1. PICK z \in ZoneIds : z = zoneTop
    BY <1>1, <1>6 DEF Typed
  <2>2. PICK t \in ZoneIds, u \in ZoneIds \cup {None} : t = rt[1].id /\ u = zone[z].parent
    BY <1>1, <1>2, PlaceTypes
  <2>3. PICK g \in FrameRec : /\ Frame("popTo", t, u) = <<g>>
                              /\ g.fn = "popTo" /\ g.id = t /\ g.next = u
    BY NoneApart, FrameFacts
  <2>4. CASE ~zone[z].live
    <3>1. rt' = (<<>> \o <<g>>) \o <<>>
      BY <1>4, <1>6, <2>1, <2>2, <2>3, <2>4 DEF LeaveRound, ReleaseCall, Top
    <3>2. Len(rt') = 1 /\ rt'[1] = g
      BY <3>1, FrameSeq
    <3> QED BY <1>3, <2>3, <3>2, QuietShort, QuietStutters
  <2>5. CASE zone[z].live
    <3>1. PICK h \in PoolIds \cup {None} : h = zone[z].firstPool
      BY <1>1, PlaceTypes
    <3>2. PICK f \in FrameRec : /\ Frame("release", z, h) = <<f>>
                                /\ f.fn = "release" /\ f.id = z /\ f.next = h
      BY NoneApart, FrameFacts
    <3>3. rt' = (<<f>> \o <<g>>) \o <<>>
      BY <1>4, <1>6, <2>1, <2>2, <2>3, <2>5, <3>1, <3>2 DEF LeaveRound, ReleaseCall, Top
    <3>4. Len(rt') = 2 /\ rt'[1] = f /\ rt'[2] = g
      BY <3>3, FrameSeq
    <3>5. /\ Named(rt', "release") = {z} /\ Named(rt', "drop") = {}
          /\ Named(rt', "reset") = {}
      BY <2>3, <3>2, <3>4, NamedTwo
    <3> QED BY <1>3, <2>5, <3>5, CloseMaps
  <2> QED BY <2>4, <2>5
<1> QED BY <1>5, <1>6

LEMMA LeavePopMaps ==
  ASSUME PoolInv, LeavePop
  PROVE  [Tree!TreeNext]_Tree!treeVars
<1>1. /\ Typed /\ ChainInv /\ rt # <<>> /\ rt[1].fn = "popTo"
      /\ UNCHANGED <<poolVars, zone>>
  BY DEF PoolInv, LeavePop, InCall, Top
<1>2. Depth = 1 /\ rt[1].id \in ZoneIds
  <2>1. Depth \in Nat /\ Depth > 0
    BY <1>1, FrameTypes
  <2> QED BY <1>1, <2>1 DEF ChainInv, Shape, ShapeAt
<1>3. Quiet(rt) /\ PoolsKept /\ ZonesKept
  BY <1>1, <1>2, QuietShort DEF Depth, PoolsKept, ZonesKept, poolVars
<1>4. Tail(rt) = <<>>
  <2>1. PICK t : t = Tail(rt)
    OBVIOUS
  <2>2. t \in Seq(FrameRec) /\ Len(t) = 1 - 1
    BY ONLY <1>1, <1>2, <2>1, PopFrame
  <2> QED BY ONLY <2>1, <2>2, EmptySeq
<1>5. PICK t \in ZoneIds : t = rt[1].id
  BY <1>2
<1>6. PICK f \in FrameRec : Frame("leaveTo", t, None) = <<f>> /\ f.fn = "leaveTo"
  BY NoneApart, FrameFacts
<1>7. rt' = <<>> \/ rt' = <<f>>
  <2>1. rt' = <<>> \o <<>> \/ rt' = <<f>> \o <<>>
    BY <1>4, <1>5, <1>6 DEF LeavePop, Top
  <2>2. <<>> \o <<>> = <<>> /\ <<f>> \o <<>> = <<f>>
    BY FrameSeq
  <2> QED BY <2>1, <2>2
<1>8. Quiet(rt')
  BY <1>6, <1>7, FrameSeq, QuietShort
<1> QED BY <1>3, <1>8, QuietStutters

-----------------------------------------------------------------------------
(***************************************************************************)
(* Containers.                                                             *)
(***************************************************************************)
LEMMA PlateMaps ==
  ASSUME Typed, NEW p \in PoolIds, NEW B, NEW n, rt = <<>>, rt' = <<>>, UNCHANGED zone,
         pool' = [pool EXCEPT ![p].blocks = B, ![p].bytes = n]
  PROVE  [Tree!TreeNext]_Tree!treeVars
<1>1. PICK o \in PoolRec : o = pool[p]
  BY LinkTypes
<1>2. PICK c : c = [o EXCEPT !.blocks = B, !.bytes = n]
  OBVIOUS
<1>3. c.live = o.live /\ c.zone = o.zone /\ c.parent = o.parent
      /\ c.generation = o.generation
  BY <1>2 DEF PoolRec
<1>4. pool' = [pool EXCEPT ![p] = c]
  BY <1>1, <1>2
<1>5. pool'[p] = c /\ \A x \in PoolIds \ {p} : pool'[x] = pool[x]
  BY <1>4 DEF Typed
<1>6. PoolsKept /\ ZonesKept
  BY <1>1, <1>3, <1>5 DEF PoolsKept, ZonesKept
<1> QED BY <1>6, QuietShort, QuietStutters

LEMMA TakeMaps ==
  ASSUME Typed, NEW p \in PoolIds, NEW b, NEW n, Take(p, b, n)
  PROVE  [Tree!TreeNext]_Tree!treeVars
<1>1. /\ rt = <<>> /\ rt' = <<>> /\ UNCHANGED zone
      /\ pool' = [pool EXCEPT ![p].blocks = @ \cup {b}, ![p].bytes = @ + n]
  BY DEF Take, Running, zoneVars
<1>2. PICK B, k : B = pool[p].blocks \cup {b} /\ k = pool[p].bytes + n
  OBVIOUS
<1>3. pool' = [pool EXCEPT ![p].blocks = B, ![p].bytes = k]
  BY <1>1, <1>2
<1> QED BY ONLY Typed, p \in PoolIds, <1>1, <1>3, PlateMaps

LEMMA ReworkMaps ==
  ASSUME Typed, NEW p \in PoolIds, Rework(p)
  PROVE  [Tree!TreeNext]_Tree!treeVars
<1>1. rt = <<>> /\ rt' = <<>> /\ UNCHANGED zone
  BY DEF Rework, Running, zoneVars
<1>2. PICK b \in pool[p].blocks :
        Trap \/ Give(p, b) \/ \E c \in Blocks, n \in Sizes : Resize(p, b, c, n)
  BY DEF Rework
<1>3. CASE Trap
  BY <1>1, <1>3, StillMaps DEF Trap
<1>4. CASE Give(p, b)
  <2>1. PICK B, k : B = pool[p].blocks \ {b} /\ k = pool[p].bytes - size[b]
    OBVIOUS
  <2>2. pool' = [pool EXCEPT ![p].blocks = B, ![p].bytes = k]
    BY <1>4, <2>1 DEF Give
  <2> QED BY ONLY Typed, p \in PoolIds, <1>1, <2>2, PlateMaps
<1>5. ASSUME NEW c, NEW n, Resize(p, b, c, n)
      PROVE  [Tree!TreeNext]_Tree!treeVars
  <2>1. PICK B, k : B = (pool[p].blocks \ {b}) \cup {c} /\ k = pool[p].bytes + n - size[b]
    OBVIOUS
  <2>2. pool' = [pool EXCEPT ![p].blocks = B, ![p].bytes = k]
    BY <1>5, <2>1 DEF Resize
  <2> QED BY ONLY Typed, p \in PoolIds, <1>1, <2>2, PlateMaps
<1> QED BY <1>2, <1>3, <1>4, <1>5

\* A container makes its pool.
LEMMA PoolNewMaps ==
  ASSUME Typed, ChainInv, NEW q \in PoolIds \cup {None}, NEW z \in ZoneIds,
         NEW k, PoolNew(q, z, k)
  PROVE  [Tree!TreeNext]_Tree!treeVars
<1>1. /\ rt = <<>> /\ rt' = <<>> /\ NewAt(z) /\ (q # None => pool[q].live)
      /\ pool' = Born(q, z)
  BY DEF PoolNew, Running
<1>2. PICK p \in PoolIds : p = TakenId
  BY <1>1, TakenFacts DEF NewAt
<1>3. /\ CanTake /\ ~pool[TakenId].live /\ zone[z].live
      /\ zone' = [zone EXCEPT ![z].firstPool = p]
  BY <1>1, <1>2 DEF NewAt
<1>4. q \in LivePools \cup {None} /\ p \notin LivePools /\ p # None /\ p # q
  BY <1>1, <1>2, <1>3, NoneApart DEF LivePools
<1>5. /\ q # TakenId /\ zone[z].firstPool # TakenId
      /\ q # None => pool[q].firstChild # TakenId
  BY <1>2, <1>3, <1>4 DEF ChainInv, PlaceLinks, ChildLinks, LivePools
<1>6. PICK Q, old : Q = Born(q, z) /\ old = IF q = None THEN None ELSE pool[q].firstChild
  OBVIOUS
<1>7. /\ Q \in [PoolIds -> PoolRec]
      /\ Q[p].live /\ Q[p].generation = pool[p].generation + 1
      /\ Q[p].zone = z /\ Q[p].parent = q
      /\ \A x \in PoolIds \ {p} :
           /\ Q[x].live <=> pool[x].live
           /\ Q[x].zone = pool[x].zone /\ Q[x].parent = pool[x].parent
           /\ Q[x].generation = pool[x].generation
  BY ONLY Typed, <1>2, <1>3, <1>5, <1>6, q \in PoolIds \cup {None}, z \in ZoneIds, BornFields
<1>8. /\ pool'[p].live /\ pool'[p].generation = pool[p].generation + 1
      /\ pool'[p].zone = z /\ pool'[p].parent = q
      /\ \A x \in PoolIds \ {p} :
           /\ pool'[x].live <=> pool[x].live
           /\ pool'[x].zone = pool[x].zone /\ pool'[x].parent = pool[x].parent
           /\ pool'[x].generation = pool[x].generation
  BY ONLY <1>1, <1>6, <1>7
<1>9. LivePools' = LivePools \cup {p}
  BY <1>8 DEF LivePools
<1>10. /\ Closing = {} /\ Standing = LivePools
       /\ Closing' = {} /\ Standing' = Standing \cup {p}
  BY <1>1, <1>9, QuietShort, QuietNow, QuietNext
<1>11. TreeNow' = [r \in Standing \cup {p} |->
                     IF r = p THEN [above |-> q, home |-> z] ELSE TreeNow[r]]
  <2>1. \A r \in Standing : r \in PoolIds \ {p}
    BY <1>4, <1>10 DEF LivePools
  <2>2. \A r \in Standing : pool'[r].parent = pool[r].parent /\ pool'[r].zone = pool[r].zone
    BY <1>8, <2>1
  <2> QED BY <1>8, <1>10, <2>1, <2>2 DEF TreeNow
<1>12. AgeNow' = [AgeNow EXCEPT ![p] = @ + 1]
  BY <1>8 DEF AgeNow
<1>13. z \in PlacesNow /\ PlacesNow' = PlacesNow
  <2>1. PICK o \in ZoneRec : o = zone[z]
    BY PlaceTypes
  <2>2. PICK c : c = [o EXCEPT !.firstPool = p]
    OBVIOUS
  <2>3. c.live = o.live
    BY <2>2 DEF ZoneRec
  <2>4. zone' = [zone EXCEPT ![z] = c]
    BY <1>3, <2>1, <2>2
  <2>5. \A y \in ZoneIds : zone'[y].live = zone[y].live
    BY <2>1, <2>3, <2>4 DEF Typed
  <2> QED BY <1>3, <1>10, <2>5 DEF PlacesNow
<1>14. p \notin Standing /\ q \in Standing \cup {None}
  BY <1>4, <1>10
<1>15. Tree!Create(p, q, z)
  <2>1. Tree!Up = Standing
    BY DEF Tree!Up, Standing
  <2> QED BY ONLY <1>11, <1>12, <1>13, <1>14, <2>1
             DEF Tree!Create, TreeNow, AgeNow, PlacesNow, Standing
<1> QED BY <1>15 DEF Tree!TreeNext

\* A pool starts to be dropped.
LEMMA DropMaps ==
  ASSUME Quiet(rt), UNCHANGED <<pool, zone>>, NEW p \in PoolIds, pool[p].live,
         Named(rt', "release") = {}, Named(rt', "drop") = {p}, Named(rt', "reset") = {}
  PROVE  [Tree!TreeNext]_Tree!treeVars
<1>1. Closing = {} /\ Standing = LivePools /\ p \in LivePools
  BY QuietNow DEF LivePools
<1>2. LivePools' = LivePools /\ Closing' = {}
  BY MapIsNext DEF LivePools
<1>3. PlacesNow' = PlacesNow /\ AgeNow' = AgeNow
  BY <1>1, <1>2 DEF PlacesNow, AgeNow
<1>4. Falling' = {p}
  BY <1>1, <1>2, MapIsNext DEF FallingIn
<1>5. PICK V : V = Tree!Under({p})
  OBVIOUS
<1>6. Standing' = Standing \ V
  <2>1. Doomed' = V
    BY <1>1, <1>2, <1>4, <1>5, MapIsNext, UnderIs
  <2> QED BY <1>1, <1>2, <2>1 DEF Standing
<1>7. TreeNow' = Tree!Restrict(TreeNow, Tree!Up \ V)
  <2>1. PoolsKept
    BY DEF PoolsKept
  <2>2. TreeNow' = [x \in Standing \ V |-> TreeNow[x]]
    BY ONLY <1>6, <2>1, RemoveIs
  <2> QED BY <2>2 DEF Tree!Restrict, Tree!Up, TreeNow, Standing
<1>8. Tree!Drop(p)
  <2>1. p \in Tree!Up
    BY <1>1 DEF Tree!Up, Standing
  <2> QED BY ONLY <1>3, <1>5, <1>7, <2>1
             DEF Tree!Drop, Tree!Remove, TreeNow, AgeNow, PlacesNow, Standing
<1> QED BY <1>8 DEF Tree!TreeNext

\* A pool starts to be reset.
LEMMA ClearMaps ==
  ASSUME ChainInv, Quiet(rt), UNCHANGED <<pool, zone>>, NEW p \in PoolIds, pool[p].live,
         Named(rt', "release") = {}, Named(rt', "drop") = {}, Named(rt', "reset") = {p}
  PROVE  [Tree!TreeNext]_Tree!treeVars
<1>1. Closing = {} /\ Standing = LivePools /\ p \in LivePools
  BY QuietNow DEF LivePools
<1>2. LivePools' = LivePools /\ Closing' = {}
  BY MapIsNext DEF LivePools
<1>3. PlacesNow' = PlacesNow /\ AgeNow' = AgeNow
  BY <1>1, <1>2 DEF PlacesNow, AgeNow
<1>4. PICK K : K = {x \in LivePools : pool[x].parent = p}
  OBVIOUS
<1>5. Falling' = K
  BY <1>2, <1>4, MapIsNext DEF FallingIn
<1>6. HangsOff(LivePools, pool, K) = HangsOff(LivePools, pool, {p}) \ {p}
  <2>1. PICK r \in [PoolIds -> Nat], m \in Nat : LinkOrder(r, m)
    BY DEF ChainInv, Ordered
  <2>2. \A x \in LivePools : r[x] \in Nat
    BY DEF LivePools
  <2>3. \A x \in LivePools : pool[x].parent \in LivePools => r[pool[x].parent] < r[x]
    <3> SUFFICES ASSUME NEW x \in LivePools, pool[x].parent \in LivePools
                 PROVE  r[pool[x].parent] < r[x]
      OBVIOUS
    <3>1. pool[x].parent # None
      BY NoneApart DEF LivePools
    <3> QED BY <2>1, <3>1 DEF LinkOrder
  <2> QED BY <1>1, <1>4, <2>2, <2>3, HangsOffBelow
<1>7. PICK V : V = Tree!Under({p}) \ {p}
  OBVIOUS
<1>8. Standing' = Standing \ V
  <2>1. Doomed' = V
    <3>1. Doomed' = HangsOff(LivePools, pool, K)
      BY <1>2, <1>5, MapIsNext
    <3> QED BY <1>1, <1>6, <1>7, <3>1, UnderIs
  <2> QED BY <1>1, <1>2, <2>1 DEF Standing
<1>9. TreeNow' = Tree!Restrict(TreeNow, Tree!Up \ V)
  <2>1. PoolsKept
    BY DEF PoolsKept
  <2>2. TreeNow' = [x \in Standing \ V |-> TreeNow[x]]
    BY ONLY <1>8, <2>1, RemoveIs
  <2> QED BY <2>2 DEF Tree!Restrict, Tree!Up, TreeNow, Standing
<1>10. Tree!Clear(p)
  <2>1. p \in Tree!Up
    BY <1>1 DEF Tree!Up, Standing
  <2> QED BY ONLY <1>3, <1>7, <1>9, <2>1
             DEF Tree!Clear, Tree!Remove, TreeNow, AgeNow, PlacesNow, Standing
<1> QED BY <1>10 DEF Tree!TreeNext

LEMMA PoolCallMaps ==
  ASSUME Typed, ChainInv, NEW p \in PoolIds, PoolDrop(p) \/ PoolReset(p) \/ Release(p)
  PROVE  [Tree!TreeNext]_Tree!treeVars
<1>1. rt = <<>> /\ pool[p].live /\ UNCHANGED <<pool, zone>>
  BY DEF PoolDrop, PoolReset, Release, PoolCall, Running, poolVars, zoneVars
<1>2. Quiet(rt) /\ PoolsKept /\ ZonesKept
  BY <1>1, QuietShort DEF PoolsKept, ZonesKept
<1>3. PICK n \in PoolIds \cup {None} : n = pool[p].firstChild
  BY LinkTypes
<1>4. p \in Int /\ n \in Int /\ None \in Int
  BY NoneApart
<1>5. CASE PoolDrop(p)
  <2>1. rt' = Frame("call", p, None)
    BY <1>5 DEF PoolDrop, PoolCall
  <2>2. Depth' = 1 /\ rt'[1].fn = "call"
    BY <1>4, <2>1, StartFrame
  <2> QED BY <1>2, <2>2, QuietShort, QuietStutters DEF Depth
<1>6. CASE PoolReset(p)
  <2>1. rt' = Frame("reset", p, n)
    BY <1>3, <1>6 DEF PoolReset, PoolCall
  <2>2. Depth' = 1 /\ rt'[1].fn = "reset" /\ rt'[1].id = p
    BY <1>4, <2>1, StartFrame
  <2>3. Named(rt', "release") = {} /\ Named(rt', "drop") = {} /\ Named(rt', "reset") = {p}
    BY <2>2, NamedOne DEF Depth
  <2> QED BY <1>1, <1>2, <2>3, ClearMaps
<1>7. CASE Release(p)
  <2>1. rt' = Frame("reset", p, n) \o Frame("call", p, None)
    BY <1>3, <1>7 DEF Release, PoolCall
  <2>2. PICK f \in FrameRec : Frame("reset", p, n) = <<f>> /\ f.fn = "reset" /\ f.id = p
    BY <1>4, FrameFacts
  <2>3. PICK g \in FrameRec : Frame("call", p, None) = <<g>> /\ g.fn = "call"
    BY <1>4, FrameFacts
  <2>4. rt' = <<f, g>>
    BY <2>1, <2>2, <2>3, FrameSeq
  <2>5. Len(rt') = 2 /\ rt'[1] = f /\ rt'[2] = g
    BY <2>4, FrameSeq
  <2>6. Named(rt', "release") = {} /\ Named(rt', "drop") = {} /\ Named(rt', "reset") = {p}
    BY <2>2, <2>3, <2>5, NamedTwo
  <2> QED BY <1>1, <1>2, <2>6, ClearMaps
<1> QED BY <1>5, <1>6, <1>7

-----------------------------------------------------------------------------
(***************************************************************************)
(* The running call.                                                       *)
(***************************************************************************)
\* A loop that calls extc_pool_drop names what it named before.
LEMMA CallMaps ==
  ASSUME Typed, rt # <<>>, rt[1].fn \in {"drop", "reset", "release"},
         UNCHANGED <<pool, zone>>, NEW c \in PoolIds, NEW n \in PoolIds \cup {None},
         rt' = Frame("call", c, None) \o Moves(n)
  PROVE  [Tree!TreeNext]_Tree!treeVars
<1>1. CallPushed(c, n)
  BY PushCall
<1>2. PICK s, t : s = rt /\ t = rt'
  OBVIOUS
<1>3. /\ Len(s) \in Nat /\ Len(s) > 0 /\ Len(t) = Len(s) + 1
      /\ t[1].fn = "call" /\ t[2].fn = s[1].fn /\ t[2].id = s[1].id
      /\ \A i \in 2..Len(s) : t[i + 1] = s[i]
  BY ONLY <1>1, <1>2 DEF CallPushed, Depth
<1>4. \A fn \in {"release", "drop", "reset"} : Named(t, fn) = Named(s, fn)
  BY ONLY <1>3, NamedPush
<1>5. PoolsKept /\ ZonesKept
  BY DEF PoolsKept, ZonesKept
<1> QED BY <1>2, <1>4, <1>5, KeptStutters

LEMMA NextChildMaps ==
  ASSUME Typed, ChainInv, NextChild
  PROVE  [Tree!TreeNext]_Tree!treeVars
<1>1. /\ rt # <<>> /\ rt[1].fn \in {"drop", "reset"} /\ rt[1].next # None
      /\ UNCHANGED <<pool, zone>>
  BY DEF NextChild, InCall, Top, poolVars, zoneVars
<1>2. Depth \in Nat /\ Depth > 0
  BY <1>1, FrameTypes
<1>3. PICK c \in PoolIds : c = rt[1].next
  BY <1>1, <1>2 DEF ChainInv, Shape, ShapeAt
<1>4. PICK n \in PoolIds \cup {None} : n = pool[c].nextSibling
  BY LinkTypes
<1>5. rt' = Frame("call", c, None) \o Moves(n)
  BY <1>3, <1>4 DEF NextChild, Top
<1> QED BY <1>1, <1>5, CallMaps

LEMMA ReleaseNextMaps ==
  ASSUME Typed, ChainInv, ReleaseNext
  PROVE  [Tree!TreeNext]_Tree!treeVars
<1>1. /\ rt # <<>> /\ rt[1].fn = "release" /\ rt[1].next # None
      /\ UNCHANGED <<pool, zone>>
  BY DEF ReleaseNext, InCall, Top, poolVars, zoneVars
<1>2. Depth \in Nat /\ Depth > 0
  BY <1>1, FrameTypes
<1>3. PICK c \in PoolIds : c = rt[1].next
  BY <1>1, <1>2 DEF ChainInv, Shape, ShapeAt
<1>4. PICK n \in PoolIds \cup {None} : n = pool[c].zoneNext
  BY LinkTypes
<1>5. rt' = Frame("call", c, None) \o Moves(n)
  BY <1>3, <1>4 DEF ReleaseNext, Top
<1> QED BY <1>1, <1>5, CallMaps

\* A nested drop is of a pool that has gone already.
LEMMA NestedDoomed ==
  ASSUME Typed, ChainInv, Depth > 1, rt[1].fn = "call", NEW p \in PoolIds, p = rt[1].id
  PROVE  p \in Doomed
<1>1. Depth \in Nat
  BY FrameTypes
<1>2. ShapeAt(1) /\ ShapeAt(2) /\ SavedAt(1) /\ SavedAt(2)
  BY <1>1 DEF ChainInv, Shape, Saved
<1>3. rt[2].fn \in {"drop", "reset", "release"} /\ p \in LivePools /\ p # None
  BY <1>1, <1>2, NoneApart DEF ShapeAt, SavedAt, LivePools
<1>4. rt[2].id \in Named(rt, rt[2].fn)
  BY <1>1 DEF Named, Depth
<1>5. CASE rt[2].fn = "release"
  <2>1. PICK z \in ZoneIds : z = rt[2].id
    BY <1>2, <1>5 DEF ShapeAt
  <2>2. zone[z].live /\ zone[z].firstPool = p
    BY <1>2, <1>5, <2>1 DEF SavedAt
  <2>3. pool[p].zone = z
    BY <1>3, <2>2 DEF ChainInv, PlaceLinks
  <2>4. p \in Falling
    BY <1>3, <1>4, <1>5, <2>1, <2>3, MapIs DEF FallingIn
  <2> QED BY <2>4, MapIs, HangsOffIs
<1>6. CASE rt[2].fn \in {"drop", "reset"}
  <2>1. PICK q \in PoolIds : q = rt[2].id
    BY <1>2, <1>6 DEF ShapeAt
  <2>2. pool[q].live /\ pool[q].firstChild = p
    BY <1>2, <1>6, <2>1 DEF SavedAt
  <2>3. q \in LivePools /\ pool[p].parent = q
    BY <1>3, <2>2 DEF ChainInv, ChildLinks, LivePools
  <2>4. CASE rt[2].fn = "reset"
    <3>1. p \in Falling
      BY <1>3, <1>4, <2>1, <2>3, <2>4, MapIs DEF FallingIn
    <3> QED BY <3>1, MapIs, HangsOffIs
  <2>5. CASE rt[2].fn = "drop"
    <3>1. q \in Falling
      BY <1>4, <2>1, <2>3, <2>5, MapIs DEF FallingIn
    <3>2. q \in Doomed /\ ClosedIn(LivePools, pool, Doomed)
      BY <3>1, MapIs, HangsOffIs
    <3> QED BY <1>3, <2>3, <3>2 DEF ClosedIn
  <2> QED BY <1>6, <2>4, <2>5
<1> QED BY <1>3, <1>5, <1>6

LEMMA DropEnterMaps ==
  ASSUME Typed, ChainInv, DropEnter
  PROVE  [Tree!TreeNext]_Tree!treeVars
<1>1. rt # <<>> /\ rt[1].fn = "call" /\ UNCHANGED <<pool, zone>>
  BY DEF DropEnter, InCall, Top, poolVars, zoneVars
<1>2. Depth \in Nat /\ Depth > 0
  BY <1>1, FrameTypes
<1>3. PICK p \in PoolIds : p = rt[1].id /\ pool[p].live
  BY <1>1, <1>2 DEF ChainInv, Shape, ShapeAt, Saved, SavedAt
<1>4. PICK n \in PoolIds \cup {None} : n = pool[p].firstChild
  BY LinkTypes
<1>5. PICK f \in FrameRec : Frame("drop", p, n) = <<f>> /\ f.fn = "drop" /\ f.id = p
  BY NoneApart, FrameFacts
<1>6. PICK s, t : s = rt /\ t = rt'
  OBVIOUS
<1>7. Len(t) = Len(s) /\ t[1] = f /\ \A i \in 2..Len(s) : t[i] = s[i]
  <2>1. t = <<f>> \o Tail(rt)
    BY <1>3, <1>4, <1>5, <1>6 DEF DropEnter, Top
  <2>2. Len(t) = Depth /\ t[1] = f /\ \A i \in 2..Depth : t[i] = rt[i]
    <3>1. rt # <<>> /\ t = <<f>> \o Tail(rt)
      BY <1>1, <2>1
    <3> QED BY ONLY ZenonT(30), Typed, <3>1, f \in FrameRec, SwapFrame
  <2> QED BY ONLY <1>6, <2>2 DEF Depth
<1>8. Len(s) \in Nat /\ Len(s) > 0
  BY ONLY <1>2, <1>6 DEF Depth
<1>9. \A fn : NamedBelow(t, fn) = NamedBelow(s, fn)
  BY ONLY <1>7, NamedSwap
<1>10. /\ Named(t, "drop") = Named(s, "drop") \cup {p}
       /\ Named(t, "release") = Named(s, "release") /\ Named(t, "reset") = Named(s, "reset")
  <2>1. \A fn : /\ Named(s, fn) = (IF s[1].fn = fn THEN {s[1].id} ELSE {}) \cup NamedBelow(s, fn)
                /\ Named(t, fn) = (IF t[1].fn = fn THEN {t[1].id} ELSE {}) \cup NamedBelow(t, fn)
    BY ONLY <1>7, <1>8, NamedTop
  <2>2. s[1].fn = "call" /\ t[1].fn = "drop" /\ t[1].id = p
    BY <1>1, <1>5, <1>6, <1>7
  <2> QED BY ONLY <1>9, <2>1, <2>2
<1>11. CASE Depth = 1
  <2>1. Quiet(rt)
    BY <1>1, <1>11, QuietShort DEF Depth
  <2>2. Named(rt', "release") = {} /\ Named(rt', "drop") = {p} /\ Named(rt', "reset") = {}
    BY <1>6, <1>10, <2>1 DEF Quiet
  <2> QED BY <1>1, <1>3, <2>1, <2>2, DropMaps
<1>12. CASE Depth > 1
  <2>1. p \in Doomed
    BY <1>1, <1>3, <1>12, NestedDoomed
  <2>2. LivePools' = LivePools /\ Closing' = Closing /\ p \in LivePools
    BY <1>1, <1>3, <1>6, <1>10, MapIs, MapIsNext DEF LivePools
  <2>3. Falling' = Falling \cup {p}
    BY <1>1, <1>6, <1>10, <2>2, MapIs, MapIsNext DEF FallingIn
  <2>4. Doomed' = Doomed
    <3>1. /\ Falling \subseteq LivePools /\ Falling \subseteq Falling \cup {p}
          /\ Falling \cup {p} \subseteq HangsOff(LivePools, pool, Falling)
      BY <2>1, MapIs, HangsOffIs
    <3>2. HangsOff(LivePools, pool, Falling \cup {p}) = HangsOff(LivePools, pool, Falling)
      BY <3>1, HangsOffAgain
    <3> QED BY <1>1, <2>2, <2>3, <3>2, MapIs, MapIsNext
  <2>5. Standing' = Standing
    BY <2>2, <2>4 DEF Standing
  <2>6. TreeNow' = TreeNow /\ AgeNow' = AgeNow /\ PlacesNow' = PlacesNow
    BY <1>1, <2>2, <2>5, TreeKept DEF AgeNow, PlacesNow
  <2> QED BY <2>6, Stutter
<1> QED BY <1>2, <1>11, <1>12

\* The pool a drop ends has gone already.
LEMMA DropSelfMaps ==
  ASSUME Typed, ChainInv, DropSelf
  PROVE  [Tree!TreeNext]_Tree!treeVars
<1>1. rt # <<>> /\ rt[1].fn = "drop" /\ rt[1].next = None /\ rt' = Tail(rt)
  BY DEF DropSelf, InCall, Top, Return
<1>2. Popped /\ Depth \in Nat /\ Depth > 0
  BY <1>1, PopCall, FrameTypes
<1>3. PICK p \in LivePools : p = rt[1].id /\ pool[p].firstChild = None
  BY <1>1, <1>2 DEF ChainInv, Shape, ShapeAt, Saved, SavedAt, LivePools
<1>4. Dropped(p) /\ pool'[p].generation = pool[p].generation
  BY <1>3, DropTables
<1>5. \A q \in LivePools : pool[q].parent # p
  <2>1. PICK r \in [PoolIds -> Nat], m \in Nat : LinkOrder(r, m)
    BY DEF ChainInv, Ordered
  <2> QED BY <1>3, <2>1, ChildHead, NoneApart DEF ChainInv, LivePools
<1>6. LivePools' = LivePools \ {p}
  BY <1>4 DEF Dropped, LivePools
<1>7. \A x \in LivePools \ {p} : pool'[x].zone = pool[x].zone /\ pool'[x].parent = pool[x].parent
  BY <1>4 DEF Dropped, LivePools
<1>8. /\ p \in Named(rt, "drop") /\ Named(rt', "drop") \ {p} = Named(rt, "drop") \ {p}
      /\ Named(rt', "release") = Named(rt, "release")
      /\ Named(rt', "reset") = Named(rt, "reset")
  <2>1. PICK s, t : s = rt /\ t = rt'
    OBVIOUS
  <2>2. /\ Len(s) \in Nat /\ Len(s) > 0 /\ Len(t) = Len(s) - 1
        /\ \A i \in 1..Len(t) : t[i] = s[i + 1]
    BY ONLY <1>2, <2>1 DEF Popped, Depth
  <2>3. \A fn : /\ Named(s, fn) = (IF s[1].fn = fn THEN {s[1].id} ELSE {}) \cup NamedBelow(s, fn)
                /\ Named(t, fn) = NamedBelow(s, fn)
    BY ONLY <2>2, NamedTop, NamedPop
  <2>4. s[1].fn = "drop" /\ s[1].id = p
    BY <1>1, <1>3, <2>1
  <2>5. /\ p \in Named(s, "drop") /\ Named(t, "drop") \ {p} = Named(s, "drop") \ {p}
        /\ Named(t, "release") = Named(s, "release") /\ Named(t, "reset") = Named(s, "reset")
    BY ONLY <2>3, <2>4
  <2> QED BY ONLY <2>1, <2>5
<1>9. p \in Falling /\ Falling' = Falling \ {p} /\ Closing' = Closing
  <2>1. p \in Falling
    BY <1>8, MapIs DEF FallingIn
  <2>2. Falling' = {x \in LivePools \ {p} : \/ pool[x].zone \in Named(rt, "release")
                                            \/ x \in Named(rt, "drop")
                                            \/ pool[x].parent \in Named(rt, "reset")}
    BY <1>6, <1>7, <1>8, MapIsNext DEF FallingIn
  <2> QED BY <1>8, <2>1, <2>2, MapIs, MapIsNext DEF FallingIn
<1>10. Doomed' = Doomed \ {p} /\ p \in Doomed
  <2>1. Falling \subseteq LivePools /\ Doomed = HangsOff(LivePools, pool, Falling)
    BY MapIs
  <2>2. HangsOff(LivePools \ {p}, pool, Falling \ {p}) = Doomed \ {p}
    BY <1>5, <1>9, <2>1, HangsOffOut
  <2>3. HangsOff(LivePools \ {p}, pool', Falling \ {p})
          = HangsOff(LivePools \ {p}, pool, Falling \ {p})
    BY <1>7, HangsOffAlike
  <2> QED BY <1>6, <1>9, <2>1, <2>2, <2>3, MapIsNext, HangsOffIs
<1>11. Standing' = Standing /\ \A x \in Standing : x \in LivePools \ {p}
  BY <1>6, <1>10 DEF Standing
<1>12. TreeNow' = TreeNow
  BY <1>7, <1>11, TreeKept
<1>13. AgeNow' = AgeNow
  BY <1>4 DEF AgeNow, Dropped
<1>14. PlacesNow' = PlacesNow
  BY <1>4, <1>9 DEF PlacesNow, Dropped
<1> QED BY <1>12, <1>13, <1>14, Stutter

\* The end of a reset, of a pool that stays.
LEMMA ResetSelfMaps ==
  ASSUME Typed, ChainInv, ResetSelf
  PROVE  [Tree!TreeNext]_Tree!treeVars
<1>1. /\ rt # <<>> /\ rt[1].fn = "reset" /\ rt[1].next = None /\ rt' = Tail(rt)
      /\ UNCHANGED zone
  BY DEF ResetSelf, InCall, Top, Return, zoneVars
<1>2. Popped /\ Depth \in Nat /\ Depth > 0
  BY <1>1, PopCall, FrameTypes
<1>3. ShapeAt(1) /\ SavedAt(1)
  BY <1>2 DEF ChainInv, Shape, Saved
<1>4. PICK p \in LivePools : p = rt[1].id /\ pool[p].firstChild = None
  BY <1>1, <1>3 DEF ShapeAt, SavedAt, LivePools
<1>5. \A q \in LivePools : pool[q].parent # p
  <2>1. PICK r \in [PoolIds -> Nat], m \in Nat : LinkOrder(r, m)
    BY DEF ChainInv, Ordered
  <2> QED BY <1>4, <2>1, ChildHead, NoneApart DEF ChainInv, LivePools
<1>6. /\ Named(rt, "release") = {} /\ Named(rt, "drop") = {} /\ Named(rt, "reset") = {p}
      /\ Quiet(rt')
  <2>1. CASE Depth = 1
    <3>1. Len(rt') = 0
      BY <1>2, <2>1 DEF Popped, Depth
    <3> QED BY <1>1, <1>4, <2>1, <3>1, NamedOne, NamedNone DEF Depth, Quiet
  <2>2. CASE Depth > 1
    <3>1. Depth = 2 /\ rt[2].fn = "call"
      BY <1>1, <1>2, <1>3, <2>2 DEF ShapeAt
    <3>2. Len(rt') = 1 /\ rt'[1] = rt[2]
      BY <1>2, <3>1 DEF Popped, Depth
    <3>3. Len(rt) = 2
      BY <3>1 DEF Depth
    <3>4. Quiet(rt')
      BY <3>1, <3>2, QuietShort
    <3> QED BY <1>1, <1>4, <3>1, <3>3, <3>4, NamedTwo
  <2> QED BY <1>2, <2>1, <2>2
<1>7. Closing = {} /\ Doomed = {} /\ Standing = LivePools
  <2>1. Falling = {}
    BY <1>5, <1>6, MapIs DEF FallingIn
  <2> QED BY <1>6, <2>1, MapIs, HangsOffNone DEF Standing
<1>8. /\ pool'[p].live = pool[p].live /\ pool'[p].zone = pool[p].zone
      /\ pool'[p].parent = pool[p].parent
      /\ pool'[p].generation = pool[p].generation + 1
      /\ \A x \in PoolIds \ {p} : pool'[x] = pool[x]
  <2>1. PICK o \in PoolRec : o = pool[p] /\ p \in PoolIds
    BY <1>4, LinkTypes DEF LivePools
  <2>2. PICK c : c = [o EXCEPT !.firstChild = None, !.generation = @ + 1]
    OBVIOUS
  <2>3. /\ c.live = o.live /\ c.zone = o.zone /\ c.parent = o.parent
        /\ c.generation = o.generation + 1
    BY <2>2 DEF PoolRec
  <2>4. pool' = [pool EXCEPT ![p] = c]
    BY <1>4, <2>1, <2>2 DEF ResetSelf, Top
  <2> QED BY <2>1, <2>3, <2>4 DEF Typed
<1>9. LivePools' = LivePools
  BY <1>8 DEF LivePools
<1>10. Standing' = Standing /\ Closing' = {}
  BY <1>6, <1>7, <1>9, QuietNext
<1>11. TreeNow' = TreeNow
  <2>1. \A x \in Standing : x \in PoolIds
    BY DEF Standing, LivePools
  <2> QED BY <1>8, <1>10, <2>1, TreeKept
<1>12. PlacesNow' = PlacesNow
  BY <1>1, <1>7, <1>10 DEF PlacesNow
<1>13. p \in PoolIds /\ AgeNow' = [AgeNow EXCEPT ![p] = @ + 1]
  BY <1>4, <1>8 DEF AgeNow, LivePools
<1>14. Tree!Renew(p)
  <2>1. p \in Tree!Up
    BY <1>4, <1>7 DEF Tree!Up, Standing
  <2> QED BY ONLY <1>11, <1>12, <1>13, <2>1
             DEF Tree!Renew, TreeNow, AgeNow, PlacesNow, Standing
<1> QED BY <1>13, <1>14 DEF Tree!TreeNext

\* The end of a release: the place has gone already, and its pools with it.
LEMMA ReleaseDoneMaps ==
  ASSUME Typed, ChainInv, ReleaseDone
  PROVE  [Tree!TreeNext]_Tree!treeVars
<1>1. /\ rt # <<>> /\ rt[1].fn = "release" /\ rt[1].next = None /\ rt' = Tail(rt)
      /\ UNCHANGED pool
  BY DEF ReleaseDone, InCall, Top, Return, poolVars
<1>2. Popped /\ Depth \in Nat /\ Depth > 0
  BY <1>1, PopCall, FrameTypes
<1>3. ShapeAt(1) /\ SavedAt(1)
  BY <1>2 DEF ChainInv, Shape, Saved
<1>4. PICK z \in ZoneIds : z = rt[1].id /\ zone[z].live /\ zone[z].firstPool = None
  BY <1>1, <1>3 DEF ShapeAt, SavedAt
<1>5. \A p \in LivePools : pool[p].zone # z
  <2>1. PICK r \in [PoolIds -> Nat], m \in Nat : LinkOrder(r, m)
    BY DEF ChainInv, Ordered
  <2> QED BY <1>4, <2>1, PlaceHead, NoneApart DEF ChainInv, LivePools
<1>6. /\ Named(rt, "release") = {z} /\ Named(rt, "drop") = {} /\ Named(rt, "reset") = {}
      /\ Quiet(rt')
  <2>1. CASE Depth = 1
    <3>1. Len(rt') = 0
      BY <1>2, <2>1 DEF Popped, Depth
    <3> QED BY <1>1, <1>4, <2>1, <3>1, NamedOne, NamedNone DEF Depth, Quiet
  <2>2. CASE Depth > 1
    <3>1. Depth = 2 /\ rt[2].fn = "popTo"
      BY <1>1, <1>2, <1>3, <2>2 DEF ShapeAt
    <3>2. Len(rt') = 1 /\ rt'[1] = rt[2]
      BY <1>2, <3>1 DEF Popped, Depth
    <3>3. Len(rt) = 2
      BY <3>1 DEF Depth
    <3>4. Quiet(rt')
      BY <3>1, <3>2, QuietShort
    <3> QED BY <1>1, <1>4, <3>1, <3>3, <3>4, NamedTwo
  <2> QED BY <1>2, <2>1, <2>2
<1>7. Closing = {z} /\ Standing = LivePools
  <2>1. Falling = {}
    BY <1>5, <1>6, MapIs DEF FallingIn
  <2> QED BY <1>6, <2>1, MapIs, HangsOffNone DEF Standing
<1>8. Closing' = {} /\ Standing' = Standing
  BY <1>1, <1>6, <1>7, QuietNext DEF LivePools
<1>9. TreeNow' = TreeNow /\ AgeNow' = AgeNow
  BY <1>1, <1>8, TreeKept DEF AgeNow
<1>10. ~zone'[z].live /\ \A y \in ZoneIds \ {z} : zone'[y] = zone[y]
  <2>1. zone' = [zone EXCEPT ![z].firstPool = None, ![z].live = FALSE, ![z].parent = zoneFree]
    BY <1>4 DEF ReleaseDone, Top
  <2>2. PICK o \in ZoneRec : o = zone[z]
    BY PlaceTypes
  <2>3. PICK c : c = [o EXCEPT !.firstPool = None, !.live = FALSE, !.parent = zoneFree]
    OBVIOUS
  <2>4. ~c.live
    BY <2>3 DEF ZoneRec
  <2>5. zone' = [zone EXCEPT ![z] = c]
    BY <2>1, <2>2, <2>3
  <2> QED BY <2>4, <2>5 DEF Typed
<1>11. PlacesNow' = PlacesNow
  BY <1>7, <1>8, <1>10 DEF PlacesNow
<1> QED BY <1>9, <1>11, Stutter

\* The registry keeps its promise: every step of the two chains, the free lists
\* and the recursive calls is one step of PoolTree, in which a drop, a reset, a
\* release or the end of a task ends exactly the pools that hang off what it
\* names, all at once, or changes nothing there.
THEOREM RegistryImplementsTree == Spec => TreeImplemented
<1>1. Init => Tree!TreeInit
  <2> SUFFICES ASSUME Init PROVE Tree!TreeInit
    OBVIOUS
  <2>1. rt = <<>> /\ pool = [p \in PoolIds |-> NewPool] /\ zone = [z \in ZoneIds |-> NewZone]
    BY DEF Init
  <2>2. LivePools = {} /\ \A z \in ZoneIds : ~zone[z].live
    BY <2>1 DEF LivePools, NewPool, NewZone
  <2>3. Standing = {}
    BY <2>2 DEF Standing
  <2>4. TreeNow = [p \in {} |-> None]
    BY <2>3 DEF TreeNow
  <2>5. AgeNow = [p \in PoolIds |-> 0]
    BY <2>1 DEF AgeNow, NewPool
  <2>6. PlacesNow = {}
    BY <2>2 DEF PlacesNow
  <2> QED BY ONLY <2>4, <2>5, <2>6 DEF Tree!TreeInit, TreeNow, AgeNow, PlacesNow, Standing
<1>2. PoolInv /\ [Next]_vars => [Tree!TreeNext]_Tree!treeVars
  <2> SUFFICES ASSUME PoolInv, [Next]_vars
               PROVE  [Tree!TreeNext]_Tree!treeVars
    OBVIOUS
  <2>1. Typed /\ ChainInv
    BY DEF PoolInv
  <2>2. CASE Places
    <3>1. CASE EnterPlace \/ TaskBegin
      BY <3>1, EnterPlaceMaps, TaskBeginMaps
    <3>2. CASE \E i \in 1..DepthMax : LeavePlace(i)
      BY <3>2, LeavePlaceMaps
    <3>3. ASSUME NEW t \in 1..TaskMax, TaskStep(t) \/ TaskDrop(t)
          PROVE  [Tree!TreeNext]_Tree!treeVars
      <4>1. CASE TaskStep(t)
        <5>1. rt = <<>> /\ rt' = <<>> /\ UNCHANGED <<pool, zone>>
          BY <4>1 DEF TaskStep, Running, poolVars
        <5> QED BY ONLY <5>1, StillMaps
      <4>2. CASE TaskDrop(t)
        BY <4>2, TaskDropMaps
      <4> QED BY <3>3, <4>1, <4>2
    <3>4. CASE \E done \in BOOLEAN : StepReturn(done)
      BY <3>4, StepReturnMaps
    <3> QED BY <2>2, <3>1, <3>2, <3>3, <3>4 DEF Places
  <2>3. CASE Containers
    <3>1. CASE \E q \in PoolIds \cup {None}, z \in ZoneIds, k \in Makes : PoolNew(q, z, k)
      BY <2>1, <3>1, PoolNewMaps
    <3>2. CASE \E p \in PoolIds : PoolDrop(p) \/ PoolReset(p) \/ Release(p)
      BY <2>1, <3>2, PoolCallMaps
    <3>3. CASE \E p \in PoolIds, b \in Blocks, n \in Sizes : Take(p, b, n)
      BY <2>1, <3>3, TakeMaps
    <3>4. CASE \E p \in PoolIds : Rework(p)
      BY <2>1, <3>4, ReworkMaps
    <3> QED BY <2>3, <3>1, <3>2, <3>3, <3>4 DEF Containers
  <2>4. CASE Runtime
    <3>1. CASE DropEnter \/ NextChild \/ DropSelf \/ ResetSelf
      BY <2>1, <3>1, DropEnterMaps, NextChildMaps, DropSelfMaps, ResetSelfMaps
    <3>2. CASE ReleaseNext \/ ReleaseDone \/ LeaveRound \/ LeavePop
      BY <2>1, <3>2, ReleaseNextMaps, ReleaseDoneMaps, LeaveRoundMaps, LeavePopMaps
    <3> QED BY <2>4, <3>1, <3>2 DEF Runtime
  <2>5. CASE UNCHANGED vars
    <3>1. UNCHANGED <<pool, zone, rt>>
      BY <2>5 DEF vars, poolVars, zoneVars
    <3>2. PoolsKept /\ ZonesKept
      BY <3>1 DEF PoolsKept, ZonesKept
    <3> QED BY <3>1, <3>2, KeptStutters
  <2> QED BY <2>2, <2>3, <2>4, <2>5 DEF Next
<1> QED BY <1>1, <1>2, PoolsInvariant, PTL DEF Spec, TreeImplemented, Tree!TreeSpec

-----------------------------------------------------------------------------
(***************************************************************************)
(* Every call returns.  Work is a natural number that each step of a call  *)
(* takes down: it weighs the living pools no frame has come to, the places *)
(* not yet begun, and the frames.                                          *)
(***************************************************************************)
\* A set shrinks, or the frames do.
LEMMA WorkFalls ==
  ASSUME NEW A, NEW B, IsFiniteSet(A), IsFiniteSet(B),
         NEW C, NEW D, C \subseteq A, D \subseteq B,
         NEW d \in Nat, NEW e \in {0, 1}, NEW f \in Nat, NEW g \in {0, 1},
         \/ 2 * f + g < 2 * d + e
         \/ (C # A \/ D # B) /\ f <= d + 1 /\ e = 0
  PROVE  4 * (Cardinality(C) + Cardinality(D)) + 2 * f + g
           < 4 * (Cardinality(A) + Cardinality(B)) + 2 * d + e
<1>1. /\ Cardinality(A) \in Nat /\ Cardinality(B) \in Nat
      /\ Cardinality(C) \in Nat /\ Cardinality(D) \in Nat
      /\ Cardinality(C) <= Cardinality(A) /\ Cardinality(D) <= Cardinality(B)
      /\ C # A => Cardinality(C) < Cardinality(A)
      /\ D # B => Cardinality(D) < Cardinality(B)
  BY FS_Subset, FS_CardinalityType
<1> QED BY <1>1

LEMMA PartsFinite == IsFiniteSet(Waiting) /\ IsFiniteSet(Unreleased)
<1>1. IsFiniteSet(PoolIds) /\ IsFiniteSet(ZoneIds)
  <2>1. TableMax - 1 \in Int /\ PlaceMax - 1 \in Int
    BY PoolsAssumption
  <2>2. \A n \in Int : IsFiniteSet(0..n)
    BY FS_Interval
  <2> QED BY <2>1, <2>2 DEF PoolIds, ZoneIds
<1>2. Waiting \subseteq PoolIds /\ Unreleased \subseteq ZoneIds
  BY DEF Waiting, LivePools, Unreleased
<1> QED BY <1>1, <1>2, FS_Subset

LEMMA WorkCounts ==
  ASSUME Depth \in Nat
  PROVE  Work \in Nat
<1>1. Cardinality(Waiting) \in Nat /\ Cardinality(Unreleased) \in Nat
  BY PartsFinite, FS_CardinalityType
<1>2. PICK a \in Nat, b \in Nat : a = Cardinality(Waiting) /\ b = Cardinality(Unreleased)
  BY <1>1
<1>3. PICK d \in Nat, e \in {0, 1} : d = Depth /\ e = Entering
  BY DEF Entering
<1>4. 4 * (a + b) + 2 * d + e \in Nat
  OBVIOUS
<1> QED BY ONLY <1>2, <1>3, <1>4 DEF Work, Depth

LEMMA WorkDown ==
  ASSUME Waiting' \subseteq Waiting, Unreleased' \subseteq Unreleased,
         Depth \in Nat, Depth' \in Nat,
         \/ 2 * Depth' + Entering' < 2 * Depth + Entering
         \/ /\ Waiting' # Waiting \/ Unreleased' # Unreleased
            /\ Depth' <= Depth + 1 /\ Entering = 0
  PROVE  Work' < Work
<1>1. Entering \in {0, 1} /\ Entering' \in {0, 1}
  BY DEF Entering
<1>2. PICK A, B, C, D : A = Waiting /\ B = Unreleased /\ C = Waiting' /\ D = Unreleased'
  OBVIOUS
<1>3. PICK d \in Nat, e \in {0, 1} : d = Depth /\ e = Entering
  BY <1>1
<1>4. PICK f \in Nat, g \in {0, 1} : f = Depth' /\ g = Entering'
  BY <1>1
<1>5. 4 * (Cardinality(C) + Cardinality(D)) + 2 * f + g
        < 4 * (Cardinality(A) + Cardinality(B)) + 2 * d + e
  BY <1>2, <1>3, <1>4, PartsFinite, WorkFalls
<1> QED BY ONLY <1>2, <1>3, <1>4, <1>5 DEF Work, Depth

\* Waiting, by the frames.
LEMMA WaitingIs ==
  /\ Waiting = LivePools \ (Named(rt, "call") \cup Named(rt, "drop"))
  /\ Waiting' = LivePools' \ (Named(rt', "call") \cup Named(rt', "drop"))
BY DEF Waiting, Named

LEMMA NamedCalled ==
  ASSUME NEW s, Len(s) \in Nat, Len(s) > 0, NEW t, Len(t) = Len(s) + 1,
         s[1].fn # "call", t[1].fn = "call",
         \A i \in 2..Len(s) : t[i + 1] = s[i]
  PROVE  Named(s, "call") \subseteq Named(t, "call") /\ t[1].id \in Named(t, "call")
<1>1. ASSUME NEW i \in 1..Len(s), s[i].fn = "call"
      PROVE  s[i].id \in Named(t, "call")
  <2>1. i + 1 \in 1..Len(t) /\ t[i + 1] = s[i]
    BY <1>1
  <2> QED BY <1>1, <2>1 DEF Named
<1>2. t[1].id \in Named(t, "call")
  BY DEF Named
<1> QED BY <1>1, <1>2 DEF Named

\* A loop of a drop, a reset or a release calls for a pool no frame was at.
LEMMA CallShrinks ==
  ASSUME Typed, rt # <<>>, rt[1].fn \in {"drop", "reset", "release"},
         UNCHANGED <<pool, zone>>, NEW c \in PoolIds, NEW n \in PoolIds \cup {None},
         rt' = Frame("call", c, None) \o Moves(n), c \in Waiting
  PROVE  Work' < Work
<1>1. CallPushed(c, n)
  BY PushCall
<1>2. PICK s, t : s = rt /\ t = rt'
  OBVIOUS
<1>3. /\ Len(s) \in Nat /\ Len(s) > 0 /\ Len(t) = Len(s) + 1
      /\ t[1].fn = "call" /\ t[2].fn = s[1].fn /\ t[2].id = s[1].id
      /\ \A i \in 2..Len(s) : t[i + 1] = s[i]
      /\ t[1].id = c /\ s[1].fn # "call"
  BY ONLY <1>1, <1>2, rt[1].fn \in {"drop", "reset", "release"} DEF CallPushed, Depth
<1>4. /\ Named(t, "drop") = Named(s, "drop")
      /\ Named(t, "release") = Named(s, "release")
      /\ Named(s, "call") \subseteq Named(t, "call") /\ c \in Named(t, "call")
  BY ONLY <1>3, NamedPush, NamedCalled
<1>5. LivePools' = LivePools
  BY DEF LivePools
<1>6. Waiting' \subseteq Waiting /\ c \notin Waiting'
  BY <1>2, <1>4, <1>5, WaitingIs
<1>7. Unreleased' = Unreleased
  BY <1>2, <1>4, MapIs, MapIsNext DEF Unreleased
<1>8. Depth \in Nat /\ Depth' = Depth + 1 /\ Entering = 0
  BY <1>1 DEF CallPushed, Entering, Top
<1> QED BY <1>6, <1>7, <1>8, WorkDown

\* The pool a loop saved is one no frame is at: the frames below are older.
LEMMA NextChildShrinks ==
  ASSUME Typed, ChainInv, NextChild
  PROVE  Work' < Work
<1>1. /\ rt # <<>> /\ rt[1].fn \in {"drop", "reset"} /\ rt[1].next # None
      /\ UNCHANGED <<pool, zone>>
  BY DEF NextChild, InCall, Top, poolVars, zoneVars
<1>2. Depth \in Nat /\ Depth > 0 /\ ShapeAt(1) /\ SavedAt(1)
  BY <1>1, FrameTypes DEF ChainInv, Shape, Saved
<1>3. PICK p \in PoolIds, c \in PoolIds : p = rt[1].id /\ c = rt[1].next
  BY <1>1, <1>2 DEF ShapeAt
<1>4. pool[p].live /\ pool[p].firstChild = c
  BY <1>1, <1>2, <1>3 DEF SavedAt
<1>5. c \in LivePools /\ pool[c].parent = p
  BY <1>4, NoneApart DEF ChainInv, ChildLinks, LivePools
<1>6. PICK n \in PoolIds \cup {None} : n = pool[c].nextSibling
  BY LinkTypes
<1>7. rt' = Frame("call", c, None) \o Moves(n)
  BY <1>3, <1>6 DEF NextChild, Top
<1>8. PICK r \in [PoolIds -> Nat], m \in Nat : LinkOrder(r, m) /\ FrameOrder(r)
  BY DEF ChainInv, Ordered
<1>9. r[p] < r[c]
  BY <1>5, <1>8, NoneApart DEF LinkOrder
<1>10. ASSUME NEW i \in 1..Depth, rt[i].fn \in {"call", "drop"}
       PROVE  rt[i].id # c
  <2>1. CASE i = 1
    BY <1>3, <1>9, <2>1
  <2>2. CASE i > 1 /\ rt[1].fn = "reset"
    <3>1. rt[2].id = p /\ i = 2
      BY <1>2, <1>3, <2>2 DEF ShapeAt
    <3> QED BY <1>9, <3>1
  <2>3. CASE i > 1 /\ rt[1].fn = "drop"
    <3>1. ShapeAt(i) /\ 1 \in 1..Depth
      BY <1>2 DEF ChainInv, Shape
    <3>2. PICK j \in 2..Depth : rt[j].fn \in {"drop", "reset"} /\ rt[j].id = rt[i].id
      <4>1. CASE rt[i].fn = "drop"
        BY <1>2, <2>3, <4>1
      <4>2. CASE rt[i].fn = "call"
        <5>1. rt[i - 1].fn = "reset" /\ rt[i - 1].id = rt[i].id
          BY <2>3, <3>1, <4>2 DEF ShapeAt
        <5>2. i - 1 \in 2..Depth
          BY <1>2, <2>3, <5>1
        <5> QED BY <5>1, <5>2
      <4> QED BY <1>10, <4>1, <4>2
    <3>3. j \in 1..Depth /\ 1 < j
      BY <1>2
    <3>4. r[rt[j].id] < r[p]
      BY <1>3, <1>8, <2>3, <3>1, <3>2, <3>3 DEF FrameOrder
    <3>5. rt[j].id \in PoolIds
      BY <3>2, <3>3 DEF ChainInv, Shape, ShapeAt
    <3> QED BY <1>9, <3>2, <3>4, <3>5
  <2> QED BY <1>1, <2>1, <2>2, <2>3
<1>11. c \in Waiting
  BY <1>5, <1>10 DEF Waiting, Depth
<1> QED BY <1>1, <1>7, <1>11, CallShrinks

\* The head of a place is a pool no frame is at: the release is the first call.
LEMMA ReleaseNextShrinks ==
  ASSUME Typed, ChainInv, ReleaseNext
  PROVE  Work' < Work
<1>1. /\ rt # <<>> /\ rt[1].fn = "release" /\ rt[1].next # None
      /\ UNCHANGED <<pool, zone>>
  BY DEF ReleaseNext, InCall, Top, poolVars, zoneVars
<1>2. Depth \in Nat /\ Depth > 0 /\ ShapeAt(1) /\ SavedAt(1)
  BY <1>1, FrameTypes DEF ChainInv, Shape, Saved
<1>3. PICK z \in ZoneIds, c \in PoolIds : z = rt[1].id /\ c = rt[1].next
  BY <1>1, <1>2 DEF ShapeAt
<1>4. zone[z].live /\ zone[z].firstPool = c
  BY <1>1, <1>2, <1>3 DEF SavedAt
<1>5. c \in LivePools
  BY <1>4, NoneApart DEF ChainInv, PlaceLinks, LivePools
<1>6. PICK n \in PoolIds \cup {None} : n = pool[c].zoneNext
  BY LinkTypes
<1>7. rt' = Frame("call", c, None) \o Moves(n)
  BY <1>3, <1>6 DEF ReleaseNext, Top
<1>8. \A i \in 1..Depth : rt[i].fn \notin {"call", "drop"}
  <2>1. Depth > 1 => Depth = 2 /\ rt[2].fn = "popTo"
    BY <1>1, <1>2 DEF ShapeAt
  <2>2. ASSUME NEW i \in 1..Depth
        PROVE  rt[i].fn \notin {"call", "drop"}
    <3>1. CASE i = 1
      BY <1>1, <3>1
    <3>2. CASE i > 1
      BY <1>2, <2>1, <3>2
    <3> QED BY <3>1, <3>2
  <2> QED BY <2>2
<1>9. c \in Waiting
  BY <1>5, <1>8 DEF Waiting, Depth
<1> QED BY <1>1, <1>7, <1>9, CallShrinks

LEMMA DropEnterShrinks ==
  ASSUME Typed, ChainInv, DropEnter
  PROVE  Work' < Work
<1>1. rt # <<>> /\ rt[1].fn = "call" /\ UNCHANGED <<pool, zone>>
  BY DEF DropEnter, InCall, Top, poolVars, zoneVars
<1>2. Depth \in Nat /\ Depth > 0
  BY <1>1, FrameTypes
<1>3. PICK p \in PoolIds : p = rt[1].id /\ pool[p].live
  BY <1>1, <1>2 DEF ChainInv, Shape, ShapeAt, Saved, SavedAt
<1>4. PICK n \in PoolIds \cup {None} : n = pool[p].firstChild
  BY LinkTypes
<1>5. PICK f \in FrameRec : Frame("drop", p, n) = <<f>> /\ f.fn = "drop" /\ f.id = p
  BY NoneApart, FrameFacts
<1>6. PICK s, t : s = rt /\ t = rt'
  OBVIOUS
<1>7. Len(t) = Len(s) /\ t[1] = f /\ \A i \in 2..Len(s) : t[i] = s[i]
  <2>1. t = <<f>> \o Tail(rt)
    BY <1>3, <1>4, <1>5, <1>6 DEF DropEnter, Top
  <2>2. Len(t) = Depth /\ t[1] = f /\ \A i \in 2..Depth : t[i] = rt[i]
    <3>1. rt # <<>> /\ t = <<f>> \o Tail(rt)
      BY <1>1, <2>1
    <3> QED BY ONLY ZenonT(30), Typed, <3>1, f \in FrameRec, SwapFrame
  <2> QED BY ONLY <1>6, <2>2 DEF Depth
<1>8. Len(s) \in Nat /\ Len(s) > 0
  BY ONLY <1>2, <1>6 DEF Depth
<1>9. \A fn : NamedBelow(t, fn) = NamedBelow(s, fn)
  BY ONLY <1>7, NamedSwap
<1>10. /\ Named(t, "release") = Named(s, "release")
       /\ Named(t, "call") \cup Named(t, "drop") = Named(s, "call") \cup Named(s, "drop")
  <2>1. \A fn : /\ Named(s, fn) = (IF s[1].fn = fn THEN {s[1].id} ELSE {}) \cup NamedBelow(s, fn)
                /\ Named(t, fn) = (IF t[1].fn = fn THEN {t[1].id} ELSE {}) \cup NamedBelow(t, fn)
    BY ONLY <1>7, <1>8, NamedTop
  <2>2. /\ s[1].fn = "call" /\ s[1].id = p
        /\ t[1].fn = "drop" /\ t[1].id = p
    BY <1>1, <1>3, <1>5, <1>6, <1>7
  <2> QED BY ONLY <1>9, <2>1, <2>2
<1>11. Waiting' = Waiting /\ Unreleased' = Unreleased
  <2>1. LivePools' = LivePools
    BY <1>1 DEF LivePools
  <2> QED BY <1>1, <1>6, <1>10, <2>1, WaitingIs, MapIs, MapIsNext DEF Unreleased
<1>12. Depth' = Depth /\ Entering = 1 /\ Entering' = 0
  <2>1. Depth' = Depth
    BY ONLY <1>6, <1>7 DEF Depth
  <2>2. rt'[1].fn = "drop"
    BY <1>5, <1>6, <1>7
  <2> QED BY <1>1, <2>1, <2>2 DEF Entering, Top
<1> QED BY <1>2, <1>11, <1>12, WorkDown

\* A frame that returns names nothing any more.
LEMMA PopShrinks ==
  ASSUME Popped, LivePools' \subseteq LivePools, Entering = 0,
         rt[1].fn \in {"call", "drop"} => rt[1].id \notin LivePools',
         Unreleased' \subseteq Unreleased
  PROVE  Work' < Work
<1>1. PICK s, t : s = rt /\ t = rt'
  OBVIOUS
<1>2. /\ Len(s) \in Nat /\ Len(s) > 0 /\ Len(t) = Len(s) - 1
      /\ \A i \in 1..Len(t) : t[i] = s[i + 1]
  BY ONLY Popped, <1>1 DEF Popped, Depth
<1>3. \A fn : /\ Named(s, fn) = (IF s[1].fn = fn THEN {s[1].id} ELSE {}) \cup NamedBelow(s, fn)
              /\ Named(t, fn) = NamedBelow(s, fn)
  BY ONLY <1>2, NamedTop, NamedPop
<1>4. Waiting' \subseteq Waiting
  <2> SUFFICES ASSUME NEW x \in Waiting'
               PROVE  x \in Waiting
    OBVIOUS
  <2>1. x \in LivePools' /\ x \notin Named(t, "call") \cup Named(t, "drop")
    BY <1>1, WaitingIs
  <2>2. x \notin Named(s, "call") /\ x \notin Named(s, "drop")
    BY <1>1, <1>3, <2>1
  <2> QED BY <1>1, <2>1, <2>2, WaitingIs
<1>5. Depth \in Nat /\ Depth' \in Nat /\ Depth' = Depth - 1
  BY DEF Popped
<1>6. Entering' \in {0, 1}
  BY DEF Entering
<1>7. 2 * Depth' + Entering' < 2 * Depth + Entering
  <2>1. PICK d \in Nat, f \in Nat, g \in {0, 1} : d = Depth /\ f = Depth' /\ g = Entering'
    BY <1>5, <1>6
  <2>2. f = d - 1 => 2 * f + g < 2 * d + 0
    BY ONLY d \in Nat, f \in Nat, g \in {0, 1}
  <2> QED BY <1>5, <2>1, <2>2
<1> QED BY <1>4, <1>5, <1>7, WorkDown

LEMMA DropSelfShrinks ==
  ASSUME Typed, ChainInv, DropSelf
  PROVE  Work' < Work
<1>1. rt # <<>> /\ rt[1].fn = "drop" /\ rt[1].next = None /\ rt' = Tail(rt)
  BY DEF DropSelf, InCall, Top, Return
<1>2. Popped /\ Depth \in Nat /\ Depth > 0
  BY <1>1, PopCall, FrameTypes
<1>3. PICK p \in LivePools : p = rt[1].id
  BY <1>1, <1>2 DEF ChainInv, Shape, ShapeAt, Saved, SavedAt, LivePools
<1>4. Dropped(p)
  BY <1>3, DropTables
<1>5. LivePools' = LivePools \ {p}
  BY <1>4 DEF Dropped, LivePools
<1>6. Closing' = Closing
  <2>1. PICK s, t : s = rt /\ t = rt'
    OBVIOUS
  <2>2. /\ Len(s) \in Nat /\ Len(s) > 0 /\ Len(t) = Len(s) - 1
        /\ \A i \in 1..Len(t) : t[i] = s[i + 1]
    BY ONLY <1>2, <2>1 DEF Popped, Depth
  <2>3. \A fn : /\ Named(s, fn) = (IF s[1].fn = fn THEN {s[1].id} ELSE {}) \cup NamedBelow(s, fn)
                /\ Named(t, fn) = NamedBelow(s, fn)
    BY ONLY <2>2, NamedTop, NamedPop
  <2>4. s[1].fn # "release"
    BY <1>1, <2>1
  <2>5. Named(t, "release") = Named(s, "release")
    BY ONLY <2>3, <2>4
  <2> QED BY <2>1, <2>5, MapIs, MapIsNext
<1>7. Unreleased' = Unreleased
  BY <1>4, <1>6 DEF Unreleased, Dropped
<1>8. Entering = 0
  BY <1>1 DEF Entering, Top
<1> QED BY <1>2, <1>3, <1>5, <1>7, <1>8, PopShrinks

LEMMA ResetSelfShrinks ==
  ASSUME Typed, ChainInv, ResetSelf
  PROVE  Work' < Work
<1>1. /\ rt # <<>> /\ rt[1].fn = "reset" /\ rt[1].next = None /\ rt' = Tail(rt)
      /\ UNCHANGED zone
  BY DEF ResetSelf, InCall, Top, Return, zoneVars
<1>2. Popped /\ Depth \in Nat /\ Depth > 0
  BY <1>1, PopCall, FrameTypes
<1>3. ShapeAt(1) /\ SavedAt(1)
  BY <1>2 DEF ChainInv, Shape, Saved
<1>4. PICK p \in PoolIds : p = rt[1].id
  BY <1>1, <1>3 DEF ShapeAt
<1>5. LivePools' = LivePools
  <2>1. PICK o \in PoolRec : o = pool[p]
    BY <1>4, LinkTypes
  <2>2. PICK c : c = [o EXCEPT !.firstChild = None, !.generation = @ + 1]
    OBVIOUS
  <2>3. c.live = o.live
    BY <2>2 DEF PoolRec
  <2>4. pool' = [pool EXCEPT ![p] = c]
    BY <1>4, <2>1, <2>2 DEF ResetSelf, Top
  <2> QED BY <2>1, <2>3, <2>4 DEF Typed, LivePools
<1>6. Closing' = Closing
  <2>1. PICK s, t : s = rt /\ t = rt'
    OBVIOUS
  <2>2. /\ Len(s) \in Nat /\ Len(s) > 0 /\ Len(t) = Len(s) - 1
        /\ \A i \in 1..Len(t) : t[i] = s[i + 1]
    BY ONLY <1>2, <2>1 DEF Popped, Depth
  <2>3. \A fn : /\ Named(s, fn) = (IF s[1].fn = fn THEN {s[1].id} ELSE {}) \cup NamedBelow(s, fn)
                /\ Named(t, fn) = NamedBelow(s, fn)
    BY ONLY <2>2, NamedTop, NamedPop
  <2>4. s[1].fn # "release"
    BY <1>1, <2>1
  <2>5. Named(t, "release") = Named(s, "release")
    BY ONLY <2>3, <2>4
  <2> QED BY <2>1, <2>5, MapIs, MapIsNext
<1>7. Unreleased' = Unreleased
  BY <1>1, <1>6 DEF Unreleased
<1>8. Entering = 0
  BY <1>1 DEF Entering, Top
<1> QED BY <1>1, <1>2, <1>5, <1>7, <1>8, PopShrinks

\* The place dies, so it is not one to release again.
LEMMA ReleaseDoneShrinks ==
  ASSUME Typed, ChainInv, ReleaseDone
  PROVE  Work' < Work
<1>1. /\ rt # <<>> /\ rt[1].fn = "release" /\ rt[1].next = None /\ rt' = Tail(rt)
      /\ UNCHANGED pool
  BY DEF ReleaseDone, InCall, Top, Return, poolVars
<1>2. Popped /\ Depth \in Nat /\ Depth > 0
  BY <1>1, PopCall, FrameTypes
<1>3. ShapeAt(1)
  BY <1>2 DEF ChainInv, Shape
<1>4. PICK z \in ZoneIds : z = rt[1].id
  BY <1>1, <1>3 DEF ShapeAt
<1>5. LivePools' = LivePools
  BY <1>1 DEF LivePools
<1>6. ~zone'[z].live /\ \A y \in ZoneIds \ {z} : zone'[y] = zone[y]
  <2>1. zone' = [zone EXCEPT ![z].firstPool = None, ![z].live = FALSE, ![z].parent = zoneFree]
    BY <1>4 DEF ReleaseDone, Top
  <2>2. PICK o \in ZoneRec : o = zone[z]
    BY PlaceTypes
  <2>3. PICK c : c = [o EXCEPT !.firstPool = None, !.live = FALSE, !.parent = zoneFree]
    OBVIOUS
  <2>4. ~c.live
    BY <2>3 DEF ZoneRec
  <2>5. zone' = [zone EXCEPT ![z] = c]
    BY <2>1, <2>2, <2>3
  <2> QED BY <2>4, <2>5 DEF Typed
<1>7. Closing \subseteq Closing' \cup {z}
  <2>1. PICK s, t : s = rt /\ t = rt'
    OBVIOUS
  <2>2. /\ Len(s) \in Nat /\ Len(s) > 0 /\ Len(t) = Len(s) - 1
        /\ \A i \in 1..Len(t) : t[i] = s[i + 1]
    BY ONLY <1>2, <2>1 DEF Popped, Depth
  <2>3. \A fn : /\ Named(s, fn) = (IF s[1].fn = fn THEN {s[1].id} ELSE {}) \cup NamedBelow(s, fn)
                /\ Named(t, fn) = NamedBelow(s, fn)
    BY ONLY <2>2, NamedTop, NamedPop
  <2>4. Named(s, "release") \subseteq Named(t, "release") \cup {z}
    BY <1>1, <1>4, <2>1, <2>3
  <2> QED BY <2>1, <2>4, MapIs, MapIsNext
<1>8. Unreleased' \subseteq Unreleased
  BY <1>6, <1>7 DEF Unreleased
<1>9. Entering = 0
  BY <1>1 DEF Entering, Top
<1> QED BY <1>1, <1>2, <1>5, <1>8, <1>9, PopShrinks

\* A round of leaving begins to release the place that is current.
LEMMA LeaveRoundShrinks ==
  ASSUME PoolInv, LeaveRound
  PROVE  Work' < Work
<1>1. /\ Typed /\ ChainInv /\ rt # <<>> /\ rt[1].fn = "leaveTo"
      /\ UNCHANGED <<poolVars, zoneVars, memVars, tasks, calls, halted>>
  BY DEF PoolInv, LeaveRound, InCall, Top
<1>2. Depth = 1 /\ rt[1].id \in ZoneIds
  <2>1. Depth \in Nat /\ Depth > 0
    BY <1>1, FrameTypes
  <2> QED BY <1>1, <2>1 DEF ChainInv, Shape, ShapeAt
<1>3. UNCHANGED <<pool, zone>> /\ LivePools' = LivePools
  BY <1>1 DEF LivePools, poolVars, zoneVars
<1>4. Tail(rt) = <<>>
  <2>1. PICK t : t = Tail(rt)
    OBVIOUS
  <2>2. t \in Seq(FrameRec) /\ Len(t) = 1 - 1
    BY ONLY <1>1, <1>2, <2>1, PopFrame
  <2> QED BY ONLY <2>1, <2>2, EmptySeq
<1>5. PICK z \in ZoneIds : z = zoneTop /\ zone[z].live
  <2>1. PICK n \in Nat : \E w \in [1..n -> ZoneIds] : Unwinding(n, w)
    BY DEF PoolInv, PlaceInv, Unwound
  <2>2. PICK w \in [1..n -> ZoneIds] : Unwinding(n, w)
    BY <2>1
  <2>3. n > 0 /\ zone[w[1]].live /\ zoneTop = w[1]
    BY <1>1, <1>2, <2>2 DEF Unwinding
  <2>4. w[1] \in ZoneIds
    BY <2>3
  <2> QED BY <2>3, <2>4
<1>6. PICK t \in ZoneIds, u \in ZoneIds \cup {None}, h \in PoolIds \cup {None} :
        t = rt[1].id /\ u = zone[z].parent /\ h = zone[z].firstPool
  BY <1>1, <1>2, PlaceTypes
<1>7. PICK g \in FrameRec : Frame("popTo", t, u) = <<g>> /\ g.fn = "popTo"
  BY NoneApart, FrameFacts
<1>8. PICK f \in FrameRec : Frame("release", z, h) = <<f>> /\ f.fn = "release" /\ f.id = z
  BY NoneApart, FrameFacts
<1>9. rt' = (<<f>> \o <<g>>) \o <<>>
  BY <1>4, <1>5, <1>6, <1>7, <1>8, NoneApart DEF LeaveRound, ReleaseCall, Top
<1>10. Len(rt') = 2 /\ rt'[1] = f /\ rt'[2] = g
  BY <1>9, FrameSeq
<1>11. \A fn \in {"call", "drop"} : Named(rt', fn) = {} /\ Named(rt, fn) = {}
  BY <1>1, <1>2, <1>7, <1>8, <1>10, NamedOne, NamedTwo DEF Depth
<1>12. Closing = {} /\ Closing' = {z}
  BY <1>1, <1>2, <1>7, <1>8, <1>10, NamedOne, NamedTwo, MapIs, MapIsNext DEF Depth
<1>13. Waiting' = Waiting
  BY <1>3, <1>11, WaitingIs
<1>14. Unreleased' = Unreleased \ {z} /\ z \in Unreleased
  BY <1>3, <1>5, <1>12 DEF Unreleased
<1>15. Depth' = 2 /\ Entering = 0
  BY <1>1, <1>10 DEF Depth, Entering, Top
<1> QED BY <1>2, <1>13, <1>14, <1>15, WorkDown

\* The place released is left: one more round, or none.
LEMMA LeavePopShrinks ==
  ASSUME Typed, ChainInv, LeavePop
  PROVE  Work' < Work
<1>1. /\ rt # <<>> /\ rt[1].fn = "popTo" /\ UNCHANGED <<poolVars, zone>>
  BY DEF LeavePop, InCall, Top
<1>2. Depth = 1 /\ rt[1].id \in ZoneIds
  <2>1. Depth \in Nat /\ Depth > 0
    BY <1>1, FrameTypes
  <2> QED BY <1>1, <2>1 DEF ChainInv, Shape, ShapeAt
<1>3. UNCHANGED <<pool, zone>> /\ LivePools' = LivePools
  BY <1>1 DEF LivePools, poolVars
<1>4. Tail(rt) = <<>>
  <2>1. PICK t : t = Tail(rt)
    OBVIOUS
  <2>2. t \in Seq(FrameRec) /\ Len(t) = 1 - 1
    BY ONLY Typed, <1>1, <1>2, <2>1, PopFrame
  <2> QED BY ONLY <2>1, <2>2, EmptySeq
<1>5. PICK t \in ZoneIds : t = rt[1].id
  BY <1>2
<1>6. PICK f \in FrameRec : Frame("leaveTo", t, None) = <<f>> /\ f.fn = "leaveTo"
  BY NoneApart, FrameFacts
<1>7. rt' = <<>> \/ rt' = <<f>>
  <2>1. rt' = <<>> \o <<>> \/ rt' = <<f>> \o <<>>
    BY <1>4, <1>5, <1>6 DEF LeavePop, Top
  <2>2. <<>> \o <<>> = <<>> /\ <<f>> \o <<>> = <<f>>
    BY FrameSeq
  <2> QED BY <2>1, <2>2
<1>8. Depth' \in {0, 1} /\ (Depth' = 1 => rt'[1] = f) /\ Entering' = 0
  BY <1>6, <1>7, FrameSeq DEF Depth, Entering, Top
<1>9. \A fn \in {"call", "drop", "release"} : Named(rt', fn) = {} /\ Named(rt, fn) = {}
  BY <1>1, <1>2, <1>6, <1>8, NamedOne, NamedNone DEF Depth
<1>10. Waiting' = Waiting /\ Unreleased' = Unreleased
  BY <1>3, <1>9, WaitingIs, MapIs, MapIsNext DEF Unreleased
<1>11. Entering = 1
  BY <1>1 DEF Entering, Top
<1>12. 2 * Depth' + Entering' < 2 * Depth + Entering
  <2>1. PICK d \in {0, 1} : d = Depth'
    BY <1>8
  <2>2. 2 * d + 0 < 2 * 1 + 1
    OBVIOUS
  <2>3. Entering' = 0 /\ Entering = 1 /\ Depth = 1
    BY <1>2, <1>8, <1>11
  <2> QED BY ONLY <2>1, <2>2, <2>3
<1>13. Depth \in Nat /\ Depth' \in Nat
  BY <1>2, <1>8
<1> QED BY <1>10, <1>12, <1>13, WorkDown

\* WorkShrinks: each step of a running call of the registry takes a natural
\* number down, so a drop, a reset, a release and an unwinding of any depth,
\* over chains of any shape, runs to its end.
THEOREM CallsShrink == Spec => WorkShrinks
<1>1. PoolInv /\ [Next]_vars => [rt # <<>> => Work \in Nat /\ Work' < Work]_vars
  <2> SUFFICES ASSUME PoolInv, Next, rt # <<>>
               PROVE  Work' < Work
    <3>1. PoolInv => Work \in Nat
      BY FrameTypes, WorkCounts DEF PoolInv
    <3> QED BY <3>1 DEF vars
  <2>1. Typed /\ ChainInv
    BY DEF PoolInv
  <2>2. ~Running
    BY DEF Running
  <2>3. ~Places
    BY <2>2 DEF Places, EnterPlace, LeavePlace, TaskBegin, TaskStep, TaskDrop, StepReturn
  <2>4. ~Containers
    BY <2>2 DEF Containers, PoolNew, PoolDrop, PoolReset, Release, PoolCall, Take, Rework
  <2>5. CASE DropEnter \/ NextChild \/ DropSelf \/ ResetSelf
    BY <2>1, <2>5, DropEnterShrinks, NextChildShrinks, DropSelfShrinks, ResetSelfShrinks
  <2>6. CASE ReleaseNext \/ ReleaseDone \/ LeaveRound \/ LeavePop
    BY <2>1, <2>6, ReleaseNextShrinks, ReleaseDoneShrinks, LeaveRoundShrinks, LeavePopShrinks
  <2> QED BY <2>3, <2>4, <2>5, <2>6 DEF Next, Runtime
<1> QED BY <1>1, PoolsInvariant, PTL DEF Spec, WorkShrinks

-----------------------------------------------------------------------------
(***************************************************************************)
(* Dyn.  The registry under it keeps PoolInv, and a step never makes a     *)
(* pool younger nor takes a block from an object table that lives on       *)
(* (Aged).  DynInv adds what the slots and the handles know of it: the     *)
(* free list runs through every vacant slot from the last to the first     *)
(* (Descending), and a slot's generation tells its handles from those of   *)
(* its earlier values (HandleHolds).                                       *)
(***************************************************************************)
SlotRec ==
  [pid : PoolIds \cup {None}, pgen : Nat, gen : Nat,
   next : SlotIds \cup {None}, addr : Blocks \cup {None}]

HandleRec ==
  [pid : PoolIds, slot : SlotIds, gen : Nat, pgen : Nat, addr : Blocks,
   place : ZoneIds, open : BOOLEAN]

\* Types of the state.
DynTyped ==
  /\ dslot \in [SlotIds -> SlotRec]
  /\ dynN \in 0..SlotsMax /\ dynCap \in 0..SlotsMax /\ dynN <= dynCap
  /\ dynFree \in SlotIds \cup {None}
  /\ dynPoolOf \in [ZoneIds -> PoolIds \cup {None}]
  /\ dyns \subseteq HandleRec

\* x is the greatest slot of D, or no slot when there is none.
Greatest(x, D) == IF D = {} THEN x = None ELSE x \in D /\ \A i \in D : i <= x

\* The slots of a table that were used once and hold no value.
Vacant(S, n) == {i \in SlotIds : i < n /\ S[i].pid = None}

\* The free list runs through every vacant slot, from the last to the first.
Descending(S, head, n) ==
  /\ Greatest(head, Vacant(S, n))
  /\ \A i \in Vacant(S, n) : Greatest(S[i].next, {j \in Vacant(S, n) : j < i})

\* A slot never used holds no value; one that holds a value remembers a
\* generation its pool has reached.
SlotsHold ==
  /\ \A i \in SlotIds : i >= dynN => dslot[i].pid = None
  /\ \A i \in SlotIds : dslot[i].pid # None =>
       dslot[i].pgen <= pool[dslot[i].pid].generation

\* What a handle still knows: its slot at its own generation is its slot, a
\* vacant slot has left its generation behind, and as long as its pool is the
\* one it was put in, the pool owns the payload.
HandleHolds(h) ==
  LET s == dslot[h.slot] IN
  /\ h.slot < dynN /\ kind[h.pid] = 1
  /\ h.gen <= s.gen
  /\ s.pid = None => h.gen < s.gen
  /\ s.gen = h.gen => s.addr = h.addr
  /\ h.pgen <= pool[h.pid].generation
  /\ pool[h.pid].live /\ pool[h.pid].generation = h.pgen =>
       h.addr \in pool[h.pid].blocks

\* The inductive invariant.
DynInv ==
  /\ DynTyped /\ SlotsHold
  /\ Descending(dslot, dynFree, dynN)
  /\ \A h \in dyns : HandleHolds(h)

\* A pool grows older; an object table that lives on keeps its blocks.
Aged ==
  \A p \in PoolIds :
    /\ pool[p].generation <= pool'[p].generation
    /\ kind[p] = 1 =>
         /\ kind'[p] = 1
         /\ pool'[p].live /\ pool'[p].generation = pool[p].generation =>
              pool[p].live /\ pool[p].blocks \subseteq pool'[p].blocks

-----------------------------------------------------------------------------
(***************************************************************************)
(* How the registry ages.                                                  *)
(***************************************************************************)
\* Table Q is P but for the plate of pool p, whose blocks are B.
Replated(Q, P, p, B) ==
  /\ Q \in [PoolIds -> PoolRec]
  /\ Q[p].generation = P[p].generation /\ Q[p].blocks = B
  /\ \A x \in PoolIds \ {p} : Q[x] = P[x]
  /\ \A x \in PoolIds :
       /\ Q[x].live <=> P[x].live
       /\ Q[x].zone = P[x].zone /\ Q[x].parent = P[x].parent
       /\ Q[x].zoneNext = P[x].zoneNext /\ Q[x].zonePrev = P[x].zonePrev
       /\ Q[x].nextSibling = P[x].nextSibling
       /\ Q[x].siblingPrev = P[x].siblingPrev
       /\ Q[x].firstChild = P[x].firstChild

\* The plate of a pool changes.
LEMMA PlateTable ==
  ASSUME NEW P \in [PoolIds -> PoolRec], NEW p \in PoolIds,
         NEW B \in SUBSET Blocks, NEW n \in Int,
         NEW Q, Q = [P EXCEPT ![p].blocks = B, ![p].bytes = n]
  PROVE  Replated(Q, P, p, B)
<1>1. PICK o \in PoolRec : o = P[p]
  OBVIOUS
<1>2. PICK c \in PoolRec :
           /\ c = [o EXCEPT !.blocks = B, !.bytes = n]
           /\ c.live <=> o.live
           /\ c.zone = o.zone /\ c.parent = o.parent
           /\ c.zoneNext = o.zoneNext /\ c.zonePrev = o.zonePrev
           /\ c.nextSibling = o.nextSibling /\ c.siblingPrev = o.siblingPrev
           /\ c.firstChild = o.firstChild
  BY PlateSet
<1>3. c.generation = o.generation /\ c.blocks = B
  BY <1>2 DEF PoolRec
<1>4. Q = [P EXCEPT ![p] = c]
  BY <1>1, <1>2
<1>5. Q \in [PoolIds -> PoolRec] /\ Q[p] = c /\ \A x \in PoolIds \ {p} : Q[x] = P[x]
  BY <1>4
<1> QED BY ONLY <1>1, <1>2, <1>3, <1>5, p \in PoolIds DEF Replated

\* A step that leaves the pools and their kinds alone.
LEMMA StillAge ==
  ASSUME Typed, UNCHANGED <<pool, kind>>
  PROVE  Aged
BY LinkTypes DEF Aged

\* A step on the plate of one pool: what it had stays, or it is a container's.
LEMMA PlateAge ==
  ASSUME Typed, NEW p \in PoolIds, NEW B \in SUBSET Blocks, NEW n \in Int,
         pool' = [pool EXCEPT ![p].blocks = B, ![p].bytes = n], UNCHANGED kind,
         kind[p] = 0 \/ pool[p].blocks \subseteq B
  PROVE  Aged
<1>1. pool \in [PoolIds -> PoolRec] /\ pool' = [pool EXCEPT ![p].blocks = B, ![p].bytes = n]
  BY DEF Typed
<1>20. Replated(pool', pool, p, B)
  BY ONLY <1>1, p \in PoolIds, B \in SUBSET Blocks, n \in Int, PlateTable
<1>2. /\ pool'[p].generation = pool[p].generation /\ pool'[p].blocks = B
      /\ pool'[p].live <=> pool[p].live
      /\ \A x \in PoolIds \ {p} : pool'[x] = pool[x]
  BY ONLY <1>20, p \in PoolIds DEF Replated
<1>3. \A x \in PoolIds : pool[x].generation \in Nat
  BY LinkTypes
<1>4. ASSUME NEW x \in PoolIds
      PROVE  /\ pool[x].generation <= pool'[x].generation
             /\ kind[x] = 1 => /\ pool'[x].live => pool[x].live
                               /\ pool[x].blocks \subseteq pool'[x].blocks
  <2>0. kind[p] = 0 \/ pool[p].blocks \subseteq B
    OBVIOUS
  <2>1. CASE x = p
    <3>1. pool[x].generation <= pool'[x].generation
      BY ONLY <1>2, <1>3, <2>1, x \in PoolIds
    <3>2. kind[x] = 1 => pool[x].blocks \subseteq pool'[x].blocks
      BY ONLY <1>2, <2>0, <2>1
    <3>3. pool'[x].live => pool[x].live
      BY ONLY <1>2, <2>1
    <3> QED BY ONLY <3>1, <3>2, <3>3
  <2>2. CASE x # p
    <3>1. pool'[x] = pool[x]
      BY ONLY <1>2, <2>2, x \in PoolIds
    <3>2. pool[x].generation <= pool[x].generation
      BY ONLY <1>3, x \in PoolIds
    <3> QED BY ONLY <3>1, <3>2
  <2> QED BY ONLY <2>1, <2>2
<1>5. UNCHANGED kind
  OBVIOUS
<1> QED BY ONLY <1>4, <1>5 DEF Aged

\* A pool that is born takes its id a generation further.
LEMMA BirthAge ==
  ASSUME Typed, NEW Q, NEW p \in PoolIds, ~pool[p].live,
         Q[p].generation = pool[p].generation + 1,
         \A x \in PoolIds \ {p} :
              /\ Q[x].live <=> pool[x].live
              /\ Q[x].generation = pool[x].generation
              /\ Q[x].blocks = pool[x].blocks,
         \A x \in PoolIds \ {p} : /\ pool'[x].live <=> Q[x].live
                                  /\ pool'[x].generation = Q[x].generation
                                  /\ pool'[x].blocks = Q[x].blocks,
         pool'[p].generation = Q[p].generation,
         \A x \in PoolIds : kind[x] = 1 => kind'[x] = 1
  PROVE  Aged
<1>1. \A x \in PoolIds : pool[x].generation \in Nat
  BY LinkTypes
<1> QED BY <1>1 DEF Aged

\* No step of the registry makes a pool younger or takes a block from an
\* object table that lives on.
LEMMA PoolsAge ==
  ASSUME Typed, ChainInv, [Next]_vars
  PROVE  Aged
<1>1. CASE UNCHANGED vars \/ Places \/ DropEnter \/ NextChild \/ ReleaseNext
           \/ ReleaseDone \/ LeaveRound \/ LeavePop
  <2>1. UNCHANGED <<pool, kind>>
    BY <1>1 DEF vars, poolVars, Places, EnterPlace, LeavePlace, TaskBegin, TaskStep,
                TaskDrop, StepReturn, DropEnter, NextChild, ReleaseNext, ReleaseDone,
                LeaveRound, LeavePop
  <2> QED BY <2>1, StillAge
<1>2. ASSUME NEW q \in PoolIds \cup {None}, NEW z \in ZoneIds, NEW k \in Makes,
             PoolNew(q, z, k)
      PROVE  Aged
  <2>1. NewAt(z) /\ (q # None => pool[q].live)
    BY <1>2 DEF PoolNew
  <2>2. PICK p \in PoolIds : p = TakenId
    BY <2>1, TakenFacts DEF NewAt
  <2>3. PICK Q : Q = Born(q, z)
    OBVIOUS
  <2>4. /\ ~pool[p].live
        /\ Q[p].generation = pool[p].generation + 1
        /\ \A x \in PoolIds \ {p} :
              /\ Q[x].live <=> pool[x].live
              /\ Q[x].generation = pool[x].generation
              /\ Q[x].blocks = pool[x].blocks
    BY ONLY Typed, ChainInv, <2>1, <2>2, <2>3, q \in PoolIds \cup {None}, z \in ZoneIds, BornTable
  <2>5. pool' = Q
    BY <1>2, <2>3 DEF PoolNew
  <2>6. \A x \in PoolIds : kind[x] = 1 => kind'[x] = 1
    <3>1. kind' = IF k = 1 THEN [kind EXCEPT ![p] = 1] ELSE kind
      BY <1>2, <2>2 DEF PoolNew
    <3> QED BY <3>1 DEF Typed
  <2> QED BY ONLY Typed, <2>4, <2>5, <2>6, p \in PoolIds, BirthAge
<1>3. ASSUME NEW p \in PoolIds, PoolDrop(p) \/ PoolReset(p) \/ Release(p)
      PROVE  Aged
  <2>1. UNCHANGED <<pool, kind>>
    BY <1>3 DEF PoolDrop, PoolReset, Release, PoolCall, poolVars
  <2> QED BY <2>1, StillAge
<1>4. ASSUME NEW p \in PoolIds, NEW b \in Blocks, NEW n \in Sizes, Take(p, b, n)
      PROVE  Aged
  <2>1. /\ pool' = [pool EXCEPT ![p].blocks = @ \cup {b}, ![p].bytes = @ + n]
        /\ UNCHANGED kind
    BY <1>4 DEF Take
  <2>2. n \in Nat
    BY PoolsAssumption
  <2>3. pool[p].blocks \in SUBSET Blocks /\ pool[p].bytes \in Int
    BY LinkTypes DEF PoolRec
  <2>4. PICK B \in SUBSET Blocks : B = pool[p].blocks \cup {b}
    BY <2>3
  <2>5. PICK k \in Int : k = pool[p].bytes + n
    BY <2>2, <2>3
  <2>6. pool' = [pool EXCEPT ![p].blocks = B, ![p].bytes = k]
    BY <2>1, <2>4, <2>5
  <2>7. pool[p].blocks \subseteq B
    BY <2>4
  <2> QED BY ONLY Typed, <2>1, <2>6, <2>7, p \in PoolIds, B \in SUBSET Blocks, k \in Int, PlateAge
<1>5. ASSUME NEW p \in PoolIds, Rework(p)
      PROVE  Aged
  <2>1. PICK b \in pool[p].blocks :
          IF kind[p] # 0 THEN Trap
          ELSE Give(p, b) \/ \E c \in Blocks, n \in Sizes : Resize(p, b, c, n)
    BY <1>5 DEF Rework
  <2>2. UNCHANGED kind
    BY <1>5 DEF Rework
  <2>3. pool[p].blocks \in SUBSET Blocks /\ pool[p].bytes \in Int /\ b \in Blocks /\ size[b] \in Nat
    BY LinkTypes DEF PoolRec, Typed
  <2>4. CASE kind[p] # 0
    <3>1. UNCHANGED pool
      BY <2>1, <2>4 DEF Trap
    <3> QED BY <2>2, <3>1, StillAge
  <2>5. CASE kind[p] = 0 /\ Give(p, b)
    <3>0. PICK B \in SUBSET Blocks : B = pool[p].blocks \ {b}
      BY <2>3
    <3>1. PICK k \in Int : k = pool[p].bytes - size[b]
      BY <2>3
    <3>2. pool' = [pool EXCEPT ![p].blocks = B, ![p].bytes = k]
      BY <2>5, <3>0, <3>1 DEF Give
    <3> QED BY ONLY Typed, <2>2, <2>5, <3>2, p \in PoolIds, B \in SUBSET Blocks, k \in Int, PlateAge
  <2>6. ASSUME kind[p] = 0, NEW c \in Blocks, NEW n \in Sizes, Resize(p, b, c, n)
        PROVE  Aged
    <3>0. n \in Nat
      BY PoolsAssumption
    <3>1. PICK B \in SUBSET Blocks : B = (pool[p].blocks \ {b}) \cup {c}
      BY <2>3
    <3>2. PICK k \in Int : k = pool[p].bytes + n - size[b]
      BY <2>3, <3>0
    <3>3. pool' = [pool EXCEPT ![p].blocks = B, ![p].bytes = k]
      BY <2>6, <3>1, <3>2 DEF Resize
    <3> QED BY ONLY Typed, <2>2, <2>6, <3>3, p \in PoolIds, B \in SUBSET Blocks, k \in Int, PlateAge
  <2> QED BY <2>1, <2>4, <2>5, <2>6
<1>6. CASE DropSelf
  <2>1. PICK p \in LivePools : p = rt[1].id
    <3>1. /\ rt # <<>> /\ rt[1].fn = "drop"
      BY <1>6 DEF DropSelf, InCall, Top
    <3>2. Depth \in Nat /\ Depth > 0
      BY <3>1 DEF Typed, Depth
    <3>3. ShapeAt(1) /\ SavedAt(1)
      BY <3>2 DEF ChainInv, Shape, Saved
    <3>4. rt[1].id \in PoolIds /\ pool[rt[1].id].live
      BY <3>1, <3>3 DEF ShapeAt, SavedAt
    <3> QED BY <3>4 DEF LivePools
  <2>2. /\ Dropped(p)
        /\ pool'[p].generation = pool[p].generation
        /\ \A x \in PoolIds \ {p} : pool'[x].blocks = pool[x].blocks
    BY <1>6, <2>1, DropTables
  <2>3. UNCHANGED kind
    BY <1>6 DEF DropSelf
  <2>4. \A x \in PoolIds : pool[x].generation \in Nat
    BY LinkTypes
  <2> QED BY <2>2, <2>3, <2>4 DEF Aged, Dropped
<1>7. CASE ResetSelf
  <2>1. /\ pool' = [pool EXCEPT ![rt[1].id].firstChild = None,
                                ![rt[1].id].generation = @ + 1]
        /\ UNCHANGED kind
    BY <1>7 DEF ResetSelf, Top
  <2>2. PICK p : p = rt[1].id
    OBVIOUS
  <2>3. pool' = [pool EXCEPT ![p].firstChild = None, ![p].generation = @ + 1]
    BY <2>1, <2>2
  <2>4. \A x \in PoolIds : pool[x] \in PoolRec /\ pool[x].generation \in Nat
    BY LinkTypes
  <2>5. \A x \in PoolIds \ {p} : pool'[x] = pool[x]
    BY <2>3 DEF Typed
  <2>6. p \in PoolIds => pool'[p].generation = pool[p].generation + 1
    BY <2>3, <2>4 DEF Typed, PoolRec
  <2>7. ASSUME NEW x \in PoolIds
        PROVE  /\ pool[x].generation <= pool'[x].generation
               /\ pool'[x].generation = pool[x].generation =>
                    (pool'[x].live => pool[x].live) /\ pool[x].blocks \subseteq pool'[x].blocks
    <3>1. CASE x = p
      BY <2>4, <2>6, <3>1
    <3>2. CASE x # p
      BY <2>4, <2>5, <3>2
    <3> QED BY <3>1, <3>2
  <2>8. UNCHANGED kind
    BY <2>1
  <2> QED BY <2>7, <2>8 DEF Aged
<1> QED
  BY <1>1, <1>2, <1>3, <1>4, <1>5, <1>6, <1>7 DEF Next, Containers, Runtime

-----------------------------------------------------------------------------
(***************************************************************************)
(* extc_dyn_put: the pool and the payload.                                 *)
(***************************************************************************)
\* The table of pools in which the value is put.
TableAt(z) == IF Remembered(z) THEN pool ELSE Born(None, z)

\* The place's object table takes the payload; without one, a pool is born.
LEMMA PutPool ==
  ASSUME PoolInv, DynTyped, NEW z \in ZoneIds, NEW b \in Blocks, NEW n \in Sizes,
         DynPut(z, b, n), NEW p, p = TableOf(z), NEW P, P = TableAt(z)
  PROVE  /\ PoolInv' /\ Aged
         /\ p \in PoolIds /\ kind' = [kind EXCEPT ![p] = 1]
         /\ P[p].generation \in Nat /\ pool'[p].generation = P[p].generation
         /\ b \in pool'[p].blocks
         /\ Remembered(z) => P = pool /\ kind[p] = 1
         /\ ~Remembered(z) =>
              /\ P[p].generation = pool[p].generation + 1
              /\ \A x \in PoolIds \ {p} : /\ P[x].live <=> pool[x].live
                                          /\ P[x].generation = pool[x].generation
<1>1. Typed /\ ChainInv /\ PlaceInv
  BY DEF PoolInv
<1>2. /\ rt = <<>> /\ rt' = <<>>
      /\ UNCHANGED <<zoneN, zoneFree, zoneTop, tasks, calls, rt>>
      /\ size' = [size EXCEPT ![b] = n]
      /\ pool' = [P EXCEPT ![p].blocks = @ \cup {b}, ![p].bytes = @ + n]
  BY DEF DynPut, Running, TableAt
<1>3. n \in Nat
  BY PoolsAssumption
<1>4. size' \in [Blocks -> Nat]
  BY <1>1, <1>2, <1>3 DEF Typed
<1>5. Matched
  BY <1>2, IdleMatched
<1>6. CASE Remembered(z)
  <2>1. P = pool /\ p = dynPoolOf[z] /\ kind[p] = 1 /\ p # None
    BY <1>6 DEF TableAt, TableOf, Remembered, IsTable
  <2>2. p \in PoolIds
    BY <2>1 DEF DynTyped
  <2>3. UNCHANGED <<zone, poolFree, poolCap, made, kind>>
    BY <1>6 DEF DynPut
  <2>4. pool[p].blocks \in SUBSET Blocks /\ pool[p].bytes \in Int /\ pool[p].generation \in Nat
    BY <1>1, <2>2, LinkTypes DEF PoolRec
  <2>5. PICK B \in SUBSET Blocks : B = pool[p].blocks \cup {b}
    BY <2>4
  <2>6. PICK k \in Int : k = pool[p].bytes + n
    BY <1>3, <2>4
  <2>7. pool' = [pool EXCEPT ![p].blocks = B, ![p].bytes = k]
    BY <1>2, <2>1, <2>5, <2>6
  <2>8. Typed' /\ ChainInv'
    <3>1. UNCHANGED <<poolCap, poolFree, kind, made, zoneVars, tasks, calls, rt>>
      BY <1>2, <2>3 DEF zoneVars
    <3> QED BY ONLY <1>1, <1>2, <1>4, <2>7, <3>1, p \in PoolIds, <2>2,
                    B \in SUBSET Blocks, k \in Int, PlateStep
  <2>9. PlaceInv'
    BY <1>1, <1>2, <1>5, <2>3, PlacesKept
  <2>10. Aged
    BY ONLY <1>1, <2>2, <2>3, <2>5, <2>7, B \in SUBSET Blocks, k \in Int, PlateAge
  <2>11. pool'[p].generation = pool[p].generation /\ pool'[p].blocks = B
    <3>1. pool \in [PoolIds -> PoolRec]
      BY <1>1 DEF Typed
    <3>2. Replated(pool', pool, p, B)
      BY ONLY <2>2, <2>7, <3>1, B \in SUBSET Blocks, k \in Int, PlateTable
    <3> QED BY ONLY <3>2 DEF Replated
  <2>12. kind' = [kind EXCEPT ![p] = 1]
    <3>1. kind \in [PoolIds -> {0, 1}] /\ kind' = kind
      BY <1>1, <2>3 DEF Typed
    <3> QED BY ONLY <2>1, <2>2, <3>1
  <2> QED BY <1>6, <2>1, <2>2, <2>4, <2>5, <2>8, <2>9, <2>10, <2>11, <2>12 DEF PoolInv
<1>7. CASE ~Remembered(z)
  <2>1. /\ P = Born(None, z) /\ p = TakenId /\ NewAt(z)
        /\ kind' = [kind EXCEPT ![p] = 1] /\ made' = [made EXCEPT ![p] = 2]
    BY <1>7 DEF DynPut, TableAt, TableOf
  <2>2. PICK q \in PoolIds \cup {None} : q = None
    OBVIOUS
  <2>3. P = Born(q, z) /\ (q # None => pool[q].live)
    BY <2>1, <2>2
  <2>4. /\ p \in PoolIds /\ ~pool[p].live
        /\ P \in [PoolIds -> PoolRec]
        /\ P[p].live /\ P[p].generation = pool[p].generation + 1
        /\ P[p].blocks = {} /\ P[p].bytes = 0
        /\ \A x \in PoolIds \ {p} :
             /\ P[x].live <=> pool[x].live
             /\ P[x].generation = pool[x].generation
             /\ P[x].blocks = pool[x].blocks /\ P[x].bytes = pool[x].bytes
    BY ONLY <1>1, <2>1, <2>3, q \in PoolIds \cup {None}, z \in ZoneIds, BornTable
  <2>40. p \in PoolIds /\ P \in [PoolIds -> PoolRec]
    BY <2>4
  <2>5. PICK B \in SUBSET Blocks : B = P[p].blocks \cup {b}
    BY <2>4
  <2>6. PICK k \in Int : k = P[p].bytes + n
    BY <1>3, <2>4
  <2>7. pool' = [P EXCEPT ![p].blocks = B, ![p].bytes = k]
    BY <1>2, <2>40, <2>5, <2>6
  <2>70. Replated(pool', P, p, B)
    BY ONLY <2>40, <2>7, B \in SUBSET Blocks, k \in Int, PlateTable
  <2>8. /\ pool' \in [PoolIds -> PoolRec] /\ LinkedAs(P)
        /\ pool'[p].generation = P[p].generation /\ pool'[p].blocks = B
        /\ \A x \in PoolIds \ {p} : pool'[x] = P[x]
    BY ONLY <2>70 DEF Replated, LinkedAs
  <2>9. kind' \in [PoolIds -> {0, 1}] /\ made' \in [PoolIds -> 0..2]
    BY <1>1, <2>1, <2>4 DEF Typed
  <2>10. /\ Typed' /\ ChainInv'
         /\ \A y \in ZoneIds : (zone'[y].live <=> zone[y].live)
                               /\ zone'[y].parent = zone[y].parent
    <3>1. /\ rt = <<>> /\ NewAt(z)
          /\ UNCHANGED <<zoneN, zoneFree, zoneTop, tasks, calls, rt>>
      BY <1>2, <2>1
    <3>2. pool' \in [PoolIds -> PoolRec] /\ LinkedAs(P)
      BY <2>8
    <3> QED BY ONLY <1>1, <1>4, <2>3, <2>9, <3>1, <3>2, q \in PoolIds \cup {None},
                    z \in ZoneIds, MakeStep
  <2>11. PlaceInv'
    BY <1>1, <1>2, <1>5, <2>10, PlacesKept
  <2>12. Aged
    <3>1. \A x \in PoolIds : kind[x] = 1 => kind'[x] = 1
      BY <1>1, <2>1 DEF Typed
    <3> QED BY ONLY <1>1, <2>4, <2>8, <3>1, BirthAge
  <2>13. P[p].generation \in Nat
    BY <1>1, <2>4, LinkTypes
  <2> QED BY <1>7, <2>1, <2>4, <2>5, <2>8, <2>10, <2>11, <2>12, <2>13 DEF PoolInv
<1> QED BY <1>6, <1>7

-----------------------------------------------------------------------------
(***************************************************************************)
(* The table of slots: sweeping, taking a slot.                            *)
(***************************************************************************)
\* A set of slots has a last one.
LEMMA LastSlot ==
  ASSUME NEW D \in SUBSET SlotIds, D # {}
  PROVE  Max(D) \in D /\ \A i \in D : i <= Max(D)
<1>0. SlotsMax \in Nat /\ \A i \in SlotIds : i \in Nat /\ i < SlotsMax
  BY DynAssumption DEF SlotIds
<1> DEFINE E == {SlotsMax - i : i \in D}
<1>1. E \subseteq Nat /\ E # {}
  BY <1>0
<1>2. PICK e \in E : \A k \in E : e <= k
  <2> HIDE DEF E
  <2> QED BY <1>1, NatMin
<1>3. PICK m \in D : e = SlotsMax - m
  OBVIOUS
<1>4. ASSUME NEW i \in D
      PROVE  i <= m
  <2>1. SlotsMax - m <= SlotsMax - i
    BY <1>2, <1>3
  <2>2. i \in Nat /\ m \in Nat
    BY <1>0
  <2> QED BY <1>0, <2>1, <2>2
<1>5. \A i \in D : m >= i
  BY <1>0, <1>4
<1>6. Max(D) \in D /\ \A i \in D : Max(D) >= i
  BY <1>5 DEF Max
<1> QED BY <1>0, <1>6

\* What a sweep of the slots D does to the table.
LEMMA SweptFields ==
  ASSUME DynTyped, NEW D \in SUBSET SlotIds, NEW T, T = Swept(D)
  PROVE  /\ T \in [SlotIds -> SlotRec]
         /\ \A i \in SlotIds \ D : T[i] = dslot[i]
         /\ \A i \in D :
              /\ T[i].gen = dslot[i].gen + 1 /\ T[i].pid = None
              /\ T[i].next = IF {j \in D : j < i} = {} THEN dynFree
                             ELSE Max({j \in D : j < i})
<1> DEFINE Lower(i) == {j \in D : j < i}
           Link(i) == IF Lower(i) = {} THEN dynFree ELSE Max(Lower(i))
           Cell(i) == [dslot[i] EXCEPT !.gen = @ + 1, !.pid = None, !.next = Link(i)]
<1>1. T = [i \in SlotIds |-> IF i \notin D THEN dslot[i] ELSE Cell(i)]
  BY DEF Swept
<1>2. ASSUME NEW i \in D
      PROVE  /\ Cell(i) \in SlotRec
             /\ Cell(i).gen = dslot[i].gen + 1 /\ Cell(i).pid = None
             /\ Cell(i).next = Link(i)
  <2>1. Link(i) \in SlotIds \cup {None}
    <3>1. Lower(i) # {} => Max(Lower(i)) \in Lower(i)
      BY LastSlot
    <3> QED BY <3>1 DEF DynTyped
  <2>2. PICK o \in SlotRec : o = dslot[i]
    BY DEF DynTyped
  <2>3. PICK l \in SlotIds \cup {None} : l = Link(i)
    BY <2>1
  <2>4. o.gen + 1 \in Nat /\ None \in PoolIds \cup {None}
    BY DEF SlotRec
  <2>5. Cell(i) = [o EXCEPT !.gen = o.gen + 1, !.pid = None, !.next = l]
    BY <2>2, <2>3 DEF SlotRec
  <2> HIDE DEF Cell, Link
  <2> QED BY <2>2, <2>3, <2>4, <2>5 DEF SlotRec
<1>3. dslot \in [SlotIds -> SlotRec]
  BY DEF DynTyped
<1> HIDE DEF Cell, Link
<1>4. T \in [SlotIds -> SlotRec]
  BY <1>1, <1>2, <1>3
<1>5. \A i \in SlotIds \ D : T[i] = dslot[i]
  BY <1>1
<1>6. \A i \in D : T[i] = Cell(i)
  BY <1>1
<1> USE DEF Link
<1> QED BY <1>2, <1>4, <1>5, <1>6

\* None is no slot, and a slot is a number.
LEMMA SlotFactsDyn == None \notin SlotIds /\ \A i \in SlotIds : i \in Nat
BY DynAssumption DEF SlotIds, None

\* A sweep with an empty free list makes one of the slots it swept.
LEMMA SweptList ==
  ASSUME DynTyped, dynFree = None, Descending(dslot, None, dynN),
         NEW D \in SUBSET SlotIds, D # {}, \A i \in D : i < dynN,
         NEW T, T = Swept(D)
  PROVE  Descending(T, Max(D), dynN)
<1>1. Vacant(dslot, dynN) = {}
  BY SlotFactsDyn DEF Descending, Greatest, Vacant
<1>2. /\ \A i \in SlotIds \ D : T[i] = dslot[i]
      /\ \A i \in D :
              /\ T[i].pid = None
              /\ T[i].next = IF {j \in D : j < i} = {} THEN dynFree
                             ELSE Max({j \in D : j < i})
  BY SweptFields
<1>3. Vacant(T, dynN) = D
  BY <1>1, <1>2 DEF Vacant
<1>4. Max(D) \in D /\ \A i \in D : i <= Max(D)
  BY LastSlot
<1>5. ASSUME NEW i \in D
      PROVE  Greatest(T[i].next, {j \in D : j < i})
  <2>1. PICK L \in SUBSET SlotIds : L = {j \in D : j < i}
    OBVIOUS
  <2>2. T[i].next = IF L = {} THEN None ELSE Max(L)
    BY <1>2, <2>1
  <2>3. L # {} => Max(L) \in L /\ \A j \in L : j <= Max(L)
    BY LastSlot
  <2> QED BY <2>1, <2>2, <2>3 DEF Greatest
<1> QED BY <1>3, <1>4, <1>5 DEF Descending, Greatest

\* The head of the free list is taken.
LEMMA TakenList ==
  ASSUME NEW S, NEW h \in SlotIds, NEW m \in Nat, Descending(S, h, m),
         NEW R, R[h].pid # None,
         \A i \in SlotIds \ {h} : R[i].pid = S[i].pid /\ R[i].next = S[i].next
  PROVE  Descending(R, S[h].next, m)
<1> DEFINE F == Vacant(S, m)
<1>1. h \in F /\ \A i \in F : i <= h
  BY SlotFactsDyn DEF Descending, Greatest
<1>2. Vacant(R, m) = F \ {h}
  BY <1>1 DEF Vacant
<1>3. \A i \in F : Greatest(S[i].next, {j \in F : j < i})
  BY DEF Descending
<1>4. \A i \in F : i \in SlotIds /\ i \in Nat
  BY SlotFactsDyn DEF Vacant
<1> HIDE DEF F
<1>5. {j \in F : j < h} = F \ {h}
  BY <1>1, <1>4
<1>6. \A i \in F \ {h} : {j \in F : j < i} = {j \in F \ {h} : j < i}
  BY <1>1, <1>4
<1>7. \A i \in F \ {h} : R[i].next = S[i].next
  BY <1>4
<1>8. Greatest(S[h].next, F \ {h})
  BY <1>1, <1>3, <1>5
<1>9. \A i \in F \ {h} : Greatest(R[i].next, {j \in F \ {h} : j < i})
  BY <1>3, <1>6, <1>7
<1> QED BY <1>2, <1>8, <1>9 DEF Descending

\* A slot never used is taken.
LEMMA FreshList ==
  ASSUME NEW S, NEW h \in SlotIds, Descending(S, None, h),
         NEW R, R[h].pid # None, \A i \in SlotIds \ {h} : R[i].pid = S[i].pid
  PROVE  Descending(R, None, h + 1)
<1>1. Vacant(S, h) = {}
  BY SlotFactsDyn DEF Descending, Greatest, Vacant
<1>2. Vacant(R, h + 1) = {}
  BY <1>1, SlotFactsDyn DEF Vacant
<1> QED BY <1>2 DEF Descending, Greatest

-----------------------------------------------------------------------------
(***************************************************************************)
(* extc_dyn_put: the slot and the handle.                                  *)
(***************************************************************************)
\* The slots a put sweeps, the table it then writes in, and the slot it takes.
SweptBy(p, P) ==
  IF NeedSweep THEN {i \in SlotIds : SlotDead(P, [kind EXCEPT ![p] = 1], i)} ELSE {}
HeadAfter(D) == IF D = {} THEN dynFree ELSE Max(D)

\* Slots that hold no value now or hold the one just put.
LEMMA PutSlots ==
  ASSUME DynInv, NEW z \in ZoneIds, NEW b \in Blocks, NEW n \in Sizes, DynPut(z, b, n),
         NEW p \in PoolIds, p = TableOf(z), NEW P, P = TableAt(z),
         P[p].generation \in Nat,
         NEW D, D = SweptBy(p, P), NEW T, T = Swept(D),
         NEW free, free = HeadAfter(D),
         NEW i, i = IF free # None THEN free ELSE dynN
  PROVE  /\ D \in SUBSET SlotIds /\ i \in SlotIds
         /\ \A j \in D : dslot[j].pid # None /\ j < dynN
         /\ \A j \in SlotIds \ D : T[j] = dslot[j]
         /\ \A j \in D : T[j].gen = dslot[j].gen + 1 /\ T[j].pid = None
         /\ i \in D \/ dslot[i].pid = None
         /\ i < dynN' /\ dynN <= dynN' /\ (i < dynN \/ i = dynN)
         /\ dslot' \in [SlotIds -> SlotRec]
         /\ \A j \in SlotIds \ {i} : dslot'[j] = T[j]
         /\ dslot'[i].pid = p /\ dslot'[i].pgen = P[p].generation
         /\ dslot'[i].addr = b /\ dslot'[i].gen = T[i].gen
         /\ dynN' \in 0..SlotsMax /\ dynCap' \in 0..SlotsMax /\ dynN' <= dynCap'
         /\ dynFree' \in SlotIds \cup {None}
         /\ Descending(dslot', dynFree', dynN')
<1>1. /\ free = None => dynN < dynCap \/ WantSlots <= SlotsMax
      /\ dslot' = [T EXCEPT ![i].pid = p, ![i].pgen = P[p].generation, ![i].addr = b]
      /\ dynFree' = IF free # None THEN T[free].next ELSE None
      /\ dynN' = IF free # None THEN dynN ELSE dynN + 1
      /\ dynCap' = IF free = None /\ dynN >= dynCap THEN WantSlots ELSE dynCap
  BY DEF DynPut, PutSlot, TableAt, SweptBy, HeadAfter
<1>2. /\ DynTyped /\ SlotsHold /\ Descending(dslot, dynFree, dynN)
      /\ dslot \in [SlotIds -> SlotRec] /\ dynN \in 0..SlotsMax /\ dynCap \in 0..SlotsMax
      /\ dynN <= dynCap /\ dynFree \in SlotIds \cup {None}
  BY DEF DynInv, DynTyped
<1>3. D \in SUBSET SlotIds /\ (D # {} => dynFree = None)
      /\ \A j \in D : dslot[j].pid # None
  BY DEF SweptBy, NeedSweep, SlotDead
<1>4. \A j \in SlotIds : j \in Nat
  BY SlotFactsDyn
<1>5. \A j \in D : j < dynN
  BY <1>2, <1>3, <1>4 DEF SlotsHold
<1>6. /\ T \in [SlotIds -> SlotRec]
      /\ \A j \in SlotIds \ D : T[j] = dslot[j]
      /\ \A j \in D : T[j].gen = dslot[j].gen + 1 /\ T[j].pid = None
  <2>1. DynTyped /\ D \in SUBSET SlotIds /\ T = Swept(D)
    BY <1>2, <1>3
  <2>2. /\ T \in [SlotIds -> SlotRec]
        /\ \A j \in SlotIds \ D : T[j] = dslot[j]
        /\ \A j \in D :
             /\ T[j].gen = dslot[j].gen + 1 /\ T[j].pid = None
             /\ T[j].next = IF {k \in D : k < j} = {} THEN dynFree
                            ELSE Max({k \in D : k < j})
    BY ONLY <2>1, SweptFields
  <2> QED BY ONLY <2>2
<1>7. Descending(T, free, dynN) /\ free \in SlotIds \cup {None}
  <2>1. CASE D = {}
    <3>1. free = dynFree
      BY <2>1 DEF HeadAfter
    <3>2. T = dslot
      BY <1>2, <1>6, <2>1
    <3> QED BY <1>2, <3>1, <3>2
  <2>2. CASE D # {}
    <3>1. free = Max(D)
      BY <2>2 DEF HeadAfter
    <3>2. Descending(T, Max(D), dynN)
      BY ONLY <1>2, <1>3, <1>5, <2>2, T = Swept(D), SweptList
    <3>3. Max(D) \in D
      BY <1>3, <2>2, LastSlot
    <3> QED BY <1>3, <3>1, <3>2, <3>3
  <2> QED BY <2>1, <2>2
<1>8. /\ i \in SlotIds /\ (i \in D \/ dslot[i].pid = None)
      /\ i < dynN' /\ dynN <= dynN' /\ (i < dynN \/ i = dynN)
      /\ dynN' \in 0..SlotsMax /\ dynCap' \in 0..SlotsMax /\ dynN' <= dynCap'
  <2>1. CASE free # None
    <3>1. i = free /\ i \in SlotIds /\ dynN' = dynN /\ dynCap' = dynCap
      BY <1>1, <1>7, <2>1
    <3>2. i < dynN /\ T[i].pid = None
      BY <1>7, <2>1, <3>1 DEF Descending, Greatest, Vacant
    <3>3. i \in D \/ dslot[i].pid = None
      BY <1>6, <3>1, <3>2
    <3> QED BY <1>2, <3>1, <3>2, <3>3
  <2>2. CASE free = None
    <3>1. i = dynN /\ dynN' = dynN + 1
      BY <1>1, <2>2
    <3>2. WantSlots \in Nat /\ WantSlots > dynCap
      BY <1>2, DynAssumption DEF WantSlots
    <3>3. SlotsMax \in Nat
      BY DynAssumption
    <3>4. dynN' \in 0..SlotsMax /\ dynCap' \in 0..SlotsMax /\ dynN' <= dynCap'
      BY <1>1, <1>2, <2>2, <3>1, <3>2, <3>3
    <3>5. i \in SlotIds
      BY <1>2, <3>1, <3>3, <3>4 DEF SlotIds
    <3>6. dslot[i].pid = None
      BY <1>2, <3>1, <3>5, <1>4 DEF SlotsHold
    <3> QED BY <1>2, <3>1, <3>3, <3>4, <3>5, <3>6
  <2> QED BY <2>1, <2>2
<1>9. /\ dslot' \in [SlotIds -> SlotRec]
      /\ \A j \in SlotIds \ {i} : dslot'[j] = T[j]
      /\ dslot'[i].pid = p /\ dslot'[i].pgen = P[p].generation
      /\ dslot'[i].addr = b /\ dslot'[i].gen = T[i].gen
      /\ dslot'[i].next = T[i].next
  <2>1. PICK o \in SlotRec : o = T[i]
    BY <1>6, <1>8
  <2>2. PICK g \in Nat : g = P[p].generation
    OBVIOUS
  <2>3. PICK c : c = [o EXCEPT !.pid = p, !.pgen = g, !.addr = b]
    OBVIOUS
  <2>4. /\ c \in SlotRec /\ c.pid = p /\ c.pgen = g /\ c.addr = b
        /\ c.gen = o.gen /\ c.next = o.next
    BY ONLY o \in SlotRec, g \in Nat, p \in PoolIds, b \in Blocks, <2>3 DEF SlotRec
  <2>5. dslot' = [T EXCEPT ![i] = c]
    BY <1>1, <1>6, <1>8, <2>1, <2>2, <2>3
  <2> QED BY ONLY <1>6, <1>8, <2>1, <2>2, <2>4, <2>5
<1>10. dynFree' \in SlotIds \cup {None} /\ Descending(dslot', dynFree', dynN')
  <2>0. p # None
    BY NoneApart
  <2>1. CASE free # None
    <3>1. i = free /\ dynN' = dynN /\ dynFree' = T[i].next
      BY <1>1, <2>1
    <3>2. T[i] \in SlotRec
      BY <1>6, <1>8
    <3>3. \A j \in SlotIds \ {i} : dslot'[j].pid = T[j].pid /\ dslot'[j].next = T[j].next
      BY <1>9
    <3>4. Descending(T, i, dynN) /\ i \in SlotIds /\ dynN \in Nat /\ dslot'[i].pid # None
      BY <1>2, <1>7, <1>8, <1>9, <2>0, <3>1
    <3>5. Descending(dslot', T[i].next, dynN)
      BY ONLY <3>3, <3>4, TakenList
    <3> QED BY <3>1, <3>2, <3>5 DEF SlotRec
  <2>2. CASE free = None
    <3>1. i = dynN /\ dynN' = i + 1 /\ dynFree' = None
      BY <1>1, <2>2
    <3>2. \A j \in SlotIds \ {i} : dslot'[j].pid = T[j].pid
      BY <1>9
    <3>3. Descending(T, None, i) /\ i \in SlotIds /\ dslot'[i].pid # None
      BY <1>7, <1>8, <1>9, <2>0, <2>2, <3>1
    <3>4. Descending(dslot', None, i + 1)
      BY ONLY <3>2, <3>3, FreshList
    <3> QED BY <3>1, <3>4
  <2> QED BY <2>1, <2>2
<1> QED BY ONLY <1>3, <1>5, <1>6, <1>8, <1>9, <1>10

\* A pool that grew older still has what a handle knows of it.
LEMMA HoldsOn ==
  ASSUME Typed, Typed', Aged, NEW q \in PoolIds, NEW g \in Nat, NEW a,
         kind[q] = 1, g <= pool[q].generation,
         pool[q].live /\ pool[q].generation = g => a \in pool[q].blocks
  PROVE  /\ kind'[q] = 1 /\ g <= pool'[q].generation
         /\ pool'[q].live /\ pool'[q].generation = g => a \in pool'[q].blocks
<1>1. pool[q].generation \in Nat
  BY LinkTypes
<1>2. pool'[q].generation \in Nat
  <2>1. pool'[q] \in PoolRec
    BY DEF Typed
  <2> QED BY <2>1 DEF PoolRec
<1>3. /\ pool[q].generation <= pool'[q].generation /\ kind'[q] = 1
      /\ pool'[q].live /\ pool'[q].generation = pool[q].generation =>
           pool[q].live /\ pool[q].blocks \subseteq pool'[q].blocks
  BY DEF Aged
<1>4. pool'[q].generation = g => pool'[q].generation = pool[q].generation
  BY <1>1, <1>2, <1>3
<1> QED BY <1>1, <1>2, <1>3, <1>4

\* The fields of a handle.
LEMMA HandleFields ==
  ASSUME NEW h \in HandleRec
  PROVE  /\ h.pid \in PoolIds /\ h.slot \in SlotIds /\ h.gen \in Nat
         /\ h.pgen \in Nat /\ h.addr \in Blocks
BY DEF HandleRec

\* The fields of a slot.
LEMMA SlotFields ==
  ASSUME DynTyped, NEW i \in SlotIds
  PROVE  /\ dslot[i].pid \in PoolIds \cup {None} /\ dslot[i].pgen \in Nat
         /\ dslot[i].gen \in Nat
BY DEF DynTyped, SlotRec

\* A slot that holds a value remembers a generation that its pool has reached.
LEMMA SlotsAge ==
  ASSUME Typed, Typed', Aged, DynInv, NEW i \in SlotIds, dslot[i].pid # None
  PROVE  dslot[i].pgen <= pool'[dslot[i].pid].generation
<1>1. PICK q \in PoolIds : q = dslot[i].pid
  BY SlotFields DEF DynInv
<1>2. dslot[i].pgen \in Nat /\ dslot[i].pgen <= pool[q].generation
  BY <1>1, SlotFields DEF DynInv, SlotsHold
<1>3. pool[q].generation \in Nat /\ pool[q].generation <= pool'[q].generation
  BY LinkTypes DEF Aged
<1>4. pool'[q].generation \in Nat
  <2>1. pool'[q] \in PoolRec
    BY DEF Typed
  <2> QED BY <2>1 DEF PoolRec
<1> QED BY <1>1, <1>2, <1>3, <1>4

\* A value is put.
LEMMA DynPutStep ==
  ASSUME PoolInv, DynInv, NEW z \in ZoneIds, NEW b \in Blocks, NEW n \in Sizes,
         DynPut(z, b, n)
  PROVE  PoolInv' /\ DynInv'
<1>1. PICK p, P : p = TableOf(z) /\ P = TableAt(z)
  OBVIOUS
<1>2. /\ PoolInv' /\ Aged
      /\ p \in PoolIds /\ kind' = [kind EXCEPT ![p] = 1]
      /\ P[p].generation \in Nat /\ pool'[p].generation = P[p].generation
      /\ b \in pool'[p].blocks
  BY <1>1, PutPool DEF DynInv
<1>3. PICK D, T : D = SweptBy(p, P) /\ T = Swept(D)
  OBVIOUS
<1>4. PICK free : free = HeadAfter(D)
  OBVIOUS
<1>5. PICK i : i = IF free # None THEN free ELSE dynN
  OBVIOUS
<1>6. /\ D \in SUBSET SlotIds /\ i \in SlotIds
      /\ \A j \in D : dslot[j].pid # None /\ j < dynN
      /\ \A j \in SlotIds \ D : T[j] = dslot[j]
      /\ \A j \in D : T[j].gen = dslot[j].gen + 1 /\ T[j].pid = None
      /\ i \in D \/ dslot[i].pid = None
      /\ i < dynN' /\ dynN <= dynN' /\ (i < dynN \/ i = dynN)
      /\ dslot' \in [SlotIds -> SlotRec]
      /\ \A j \in SlotIds \ {i} : dslot'[j] = T[j]
      /\ dslot'[i].pid = p /\ dslot'[i].pgen = P[p].generation
      /\ dslot'[i].addr = b /\ dslot'[i].gen = T[i].gen
      /\ dynN' \in 0..SlotsMax /\ dynCap' \in 0..SlotsMax /\ dynN' <= dynCap'
      /\ dynFree' \in SlotIds \cup {None}
      /\ Descending(dslot', dynFree', dynN')
  BY ONLY DynInv, z \in ZoneIds, b \in Blocks, n \in Sizes, DynPut(z, b, n),
          <1>1, <1>2, <1>3, <1>4, <1>5, PutSlots
<1>7. /\ dynPoolOf' = [dynPoolOf EXCEPT ![z] = p]
      /\ dyns' = dyns \cup
           {[pid |-> p, slot |-> i, gen |-> T[i].gen, pgen |-> P[p].generation,
             addr |-> b, place |-> z, open |-> TRUE]}
  BY <1>1, <1>3, <1>4, <1>5 DEF DynPut, TableAt, SweptBy, HeadAfter
<1>8. /\ Typed /\ Typed' /\ DynTyped /\ SlotsHold
      /\ \A h \in dyns : h \in HandleRec /\ HandleHolds(h)
  BY <1>2 DEF PoolInv, DynInv, DynTyped
<1>9. PICK new : new = [pid |-> p, slot |-> i, gen |-> T[i].gen, pgen |-> P[p].generation,
                        addr |-> b, place |-> z, open |-> TRUE]
  OBVIOUS
<1>10. /\ \A j \in SlotIds : dslot[j].gen \in Nat /\ dslot'[j].gen \in Nat /\ j \in Nat
       /\ dynN \in Nat /\ dynN' \in Nat
  <2>1. \A j \in SlotIds : dslot'[j].gen \in Nat
    BY <1>6 DEF SlotRec
  <2> QED BY <1>6, <1>8, <2>1, SlotFields, SlotFactsDyn DEF DynTyped
<1>11. new \in HandleRec /\ new.pid = p /\ new.slot = i /\ new.gen = dslot'[i].gen
       /\ new.pgen = P[p].generation /\ new.addr = b
  <2>1. PICK g \in Nat : g = T[i].gen
    BY <1>6, <1>10
  <2>2. PICK k \in Nat : k = P[p].generation
    BY <1>2
  <2>3. new = [pid |-> p, slot |-> i, gen |-> g, pgen |-> k,
               addr |-> b, place |-> z, open |-> TRUE]
    BY <1>9, <2>1, <2>2
  <2>4. PICK t \in BOOLEAN : t = TRUE
    OBVIOUS
  <2>5. new = [pid |-> p, slot |-> i, gen |-> g, pgen |-> k,
               addr |-> b, place |-> z, open |-> t]
    BY <2>3, <2>4
  <2>6. new \in HandleRec /\ new.gen = g /\ new.pgen = k
    BY <1>2, <1>6, <2>5 DEF HandleRec
  <2> QED BY <1>6, <2>1, <2>2, <2>5, <2>6
<1>12. DynTyped'
  <2>1. dynPoolOf' \in [ZoneIds -> PoolIds \cup {None}]
    BY <1>2, <1>7, <1>8 DEF DynTyped
  <2>2. dyns' \subseteq HandleRec
    BY <1>7, <1>8, <1>9, <1>11
  <2> QED BY <1>6, <2>1, <2>2 DEF DynTyped
<1>13. SlotsHold'
  <2>1. ASSUME NEW j \in SlotIds, j >= dynN'
        PROVE  dslot'[j].pid = None
    <3>1. j # i /\ j >= dynN /\ j \notin D
      BY <1>6, <1>10, <2>1
    <3>2. dslot'[j] = dslot[j]
      BY <1>6, <3>1
    <3> QED BY <1>8, <3>1, <3>2 DEF SlotsHold
  <2>2. ASSUME NEW j \in SlotIds, dslot'[j].pid # None
        PROVE  dslot'[j].pgen <= pool'[dslot'[j].pid].generation
    <3>1. CASE j = i
      BY <1>2, <1>6, <3>1
    <3>2. CASE j # i
      <4>1. j \notin D /\ dslot'[j] = dslot[j]
        BY <1>6, <2>2, <3>2
      <4> QED BY <1>2, <1>8, <2>2, <4>1, SlotsAge
    <3> QED BY <3>1, <3>2
  <2> QED BY <2>1, <2>2 DEF SlotsHold
<1>14. HandleHolds(new)'
  <2>1. i < dynN' /\ kind'[p] = 1
    <3>1. kind \in [PoolIds -> {0, 1}]
      BY <1>8 DEF Typed
    <3> QED BY <1>2, <1>6, <3>1
  <2>2. p # None
    BY <1>2, NoneApart
  <2>3. dslot'[i].gen \in Nat /\ dslot'[i].gen <= dslot'[i].gen
    BY <1>6, <1>10
  <2>4. P[p].generation <= pool'[p].generation
    BY <1>2
  <2> QED BY <1>2, <1>6, <1>11, <2>1, <2>2, <2>3, <2>4 DEF HandleHolds
<1>15. ASSUME NEW h \in dyns
       PROVE  HandleHolds(h)'
  <2>1. /\ h.pid \in PoolIds /\ h.slot \in SlotIds /\ h.gen \in Nat
        /\ h.pgen \in Nat /\ h.addr \in Blocks
    BY <1>8, HandleFields
  <2>2. PICK s \in SlotIds : s = h.slot
    BY <2>1
  <2>3. /\ s < dynN /\ kind[h.pid] = 1
        /\ h.gen <= dslot[s].gen
        /\ dslot[s].pid = None => h.gen < dslot[s].gen
        /\ dslot[s].gen = h.gen => dslot[s].addr = h.addr
        /\ h.pgen <= pool[h.pid].generation
        /\ pool[h.pid].live /\ pool[h.pid].generation = h.pgen =>
             h.addr \in pool[h.pid].blocks
    BY <1>8, <2>2 DEF HandleHolds
  <2>4. /\ kind'[h.pid] = 1 /\ h.pgen <= pool'[h.pid].generation
        /\ pool'[h.pid].live /\ pool'[h.pid].generation = h.pgen =>
             h.addr \in pool'[h.pid].blocks
    BY <1>2, <1>8, <2>1, <2>3, HoldsOn
  <2>5. /\ h.gen <= dslot'[s].gen
        /\ dslot'[s].pid = None => h.gen < dslot'[s].gen
        /\ dslot'[s].gen = h.gen => dslot'[s].addr = h.addr
    <3>1. CASE s \notin D /\ s # i
      <4>1. dslot'[s] = dslot[s]
        BY <1>6, <3>1
      <4> QED BY <2>3, <4>1
    <3>2. CASE s \in D
      <4>1. dslot'[s].gen = dslot[s].gen + 1
        BY <1>6, <3>2
      <4> QED BY <1>10, <2>1, <2>3, <4>1
    <3>3. CASE s = i /\ s \notin D
      <4>1. dslot[s].pid = None /\ dslot'[s].gen = dslot[s].gen
        BY <1>6, <3>3
      <4> QED BY <1>10, <2>1, <2>3, <4>1
    <3> QED BY <3>1, <3>2, <3>3
  <2>6. s < dynN'
    BY <1>6, <1>10, <2>3
  <2> QED BY <2>2, <2>4, <2>5, <2>6 DEF HandleHolds
<1>16. \A h \in dyns' : HandleHolds(h)'
  BY <1>7, <1>9, <1>14, <1>15
<1> QED BY <1>2, <1>6, <1>12, <1>13, <1>16 DEF DynInv

\* Every other step leaves the slots alone; a handle only loses its place.
LEMMA SlotsStay ==
  ASSUME Typed, Typed', Aged, DynInv,
         UNCHANGED <<dslot, dynN, dynCap, dynFree, dynPoolOf>>,
         \A g \in dyns' : g \in HandleRec /\ \E h \in dyns :
            /\ g.pid = h.pid /\ g.slot = h.slot /\ g.gen = h.gen
            /\ g.pgen = h.pgen /\ g.addr = h.addr
  PROVE  DynInv'
<1>1. DynTyped'
  BY DEF DynInv, DynTyped
<1>2. SlotsHold'
  BY SlotsAge DEF DynInv, SlotsHold
<1>3. Descending(dslot', dynFree', dynN')
  BY DEF DynInv
<1>4. ASSUME NEW g \in dyns'
      PROVE  HandleHolds(g)'
  <2>1. PICK h \in dyns : /\ g.pid = h.pid /\ g.slot = h.slot /\ g.gen = h.gen
                          /\ g.pgen = h.pgen /\ g.addr = h.addr
    OBVIOUS
  <2>2. HandleHolds(h) /\ h \in HandleRec
    BY DEF DynInv, DynTyped
  <2>3. /\ h.pid \in PoolIds /\ h.slot \in SlotIds /\ h.gen \in Nat
        /\ h.pgen \in Nat /\ h.addr \in Blocks
    BY <2>2, HandleFields
  <2>4. /\ kind[h.pid] = 1 /\ h.pgen <= pool[h.pid].generation
        /\ pool[h.pid].live /\ pool[h.pid].generation = h.pgen =>
             h.addr \in pool[h.pid].blocks
    BY <2>2 DEF HandleHolds
  <2>5. /\ kind'[h.pid] = 1 /\ h.pgen <= pool'[h.pid].generation
        /\ pool'[h.pid].live /\ pool'[h.pid].generation = h.pgen =>
             h.addr \in pool'[h.pid].blocks
    BY <2>3, <2>4, HoldsOn
  <2> QED BY <2>1, <2>2, <2>5 DEF HandleHolds
<1> QED BY <1>1, <1>2, <1>3, <1>4 DEF DynInv

\* A step of the registry.
LEMMA OtherStep ==
  ASSUME PoolInv, DynInv, Other
  PROVE  PoolInv' /\ DynInv'
<1>1. /\ Next
      /\ UNCHANGED <<dslot, dynN, dynCap, dynFree, dynPoolOf>>
  BY DEF Other
<1>2. PoolInv' /\ Typed /\ Typed' /\ Aged
  <2>1. PoolInv'
    BY <1>1, PoolStep
  <2>2. Aged
    BY <1>1, PoolsAge DEF PoolInv
  <2> QED BY <2>1, <2>2 DEF PoolInv
<1>3. ASSUME NEW g \in dyns'
      PROVE  g \in HandleRec /\ \E h \in dyns :
               /\ g.pid = h.pid /\ g.slot = h.slot /\ g.gen = h.gen
               /\ g.pgen = h.pgen /\ g.addr = h.addr
  <2>0. dyns \subseteq HandleRec
    BY DEF DynInv, DynTyped
  <2>1. CASE g \in dyns
    BY <2>0, <2>1
  <2>2. CASE g \notin dyns
    <3>1. g \in {[h EXCEPT !.open = @ /\ h.place # Top.id] : h \in dyns}
      BY <2>2 DEF Other
    <3>2. PICK h \in dyns : g = [h EXCEPT !.open = @ /\ h.place # Top.id]
      BY <3>1
    <3>3. h \in HandleRec
      BY <2>0
    <3>4. PICK t \in BOOLEAN : t = (h.open /\ h.place # Top.id)
      OBVIOUS
    <3>5. g = [h EXCEPT !.open = t]
      BY <3>2, <3>3, <3>4 DEF HandleRec
    <3>6. /\ g \in HandleRec /\ g.pid = h.pid /\ g.slot = h.slot /\ g.gen = h.gen
          /\ g.pgen = h.pgen /\ g.addr = h.addr
      BY ONLY <3>3, <3>5, t \in BOOLEAN DEF HandleRec
    <3> QED BY <3>6
  <2> QED BY <2>1, <2>2
<1> QED BY <1>1, <1>2, <1>3, SlotsStay

LEMMA DynStep ==
  ASSUME PoolInv, DynInv, [DynNext]_allVars
  PROVE  PoolInv' /\ DynInv'
<1>1. CASE UNCHANGED allVars
  <2>1. UNCHANGED vars /\ UNCHANGED <<dslot, dynN, dynCap, dynFree, dynPoolOf, dyns>>
    BY <1>1 DEF allVars, dynVars
  <2>2. PoolInv' /\ Typed /\ Typed' /\ Aged
    <3>1. PoolInv'
      BY <2>1, PoolStep
    <3>2. Aged
      BY <2>1, PoolsAge DEF PoolInv
    <3> QED BY <3>1, <3>2 DEF PoolInv
  <2>3. \A g \in dyns' : g \in HandleRec /\ \E h \in dyns :
            /\ g.pid = h.pid /\ g.slot = h.slot /\ g.gen = h.gen
            /\ g.pgen = h.pgen /\ g.addr = h.addr
    BY <2>1 DEF DynInv, DynTyped
  <2> QED BY <2>1, <2>2, <2>3, SlotsStay
<1> QED BY <1>1, DynPutStep, OtherStep DEF DynNext

LEMMA DynStart ==
  ASSUME DynInit
  PROVE  PoolInv /\ DynInv
<1>1. Init /\ PoolInv
  BY PoolInit DEF DynInit
<1>2. /\ SlotsMax \in Nat /\ \A i \in SlotIds : i \in Nat
      /\ dynN = 0 /\ dynCap = 0 /\ dynFree = None /\ dyns = {}
  BY DynAssumption, SlotFactsDyn DEF DynInit
<1>3. \A i \in SlotIds : dslot[i] \in SlotRec /\ dslot[i].pid = None
  BY DEF DynInit, SlotRec
<1>4. DynTyped
  <2>1. dslot \in [SlotIds -> SlotRec]
    BY <1>3 DEF DynInit
  <2>2. dynPoolOf \in [ZoneIds -> PoolIds \cup {None}]
    BY DEF DynInit
  <2> QED BY <1>2, <2>1, <2>2 DEF DynTyped
<1>5. Vacant(dslot, dynN) = {}
  BY <1>2 DEF Vacant
<1>6. Descending(dslot, dynFree, dynN)
  BY <1>2, <1>5 DEF Descending, Greatest
<1> QED BY <1>1, <1>2, <1>3, <1>4, <1>6 DEF DynInv, SlotsHold

-----------------------------------------------------------------------------
(***************************************************************************)
(* The bytes of dyn values.                                                *)
(***************************************************************************)
LEMMA PutAccount ==
  ASSUME PoolInv, DynInv, AccountNow, NEW z \in ZoneIds, NEW b \in Blocks, NEW n \in Sizes,
         DynPut(z, b, n)
  PROVE  AccountNow'
<1>1. PICK p, P : p = TableOf(z) /\ P = TableAt(z)
  OBVIOUS
<1>2. /\ Typed /\ ChainInv /\ DynTyped
      /\ pool' = [P EXCEPT ![p].blocks = @ \cup {b}, ![p].bytes = @ + n]
      /\ size' = [size EXCEPT ![b] = n] /\ bytesAll' = bytesAll + n /\ size[b] = 0
  BY <1>1 DEF DynPut, TableAt, Unused, PoolInv, DynInv
<1>3. /\ P \in [PoolIds -> PoolRec] /\ p \in PoolIds /\ P[p].live
      /\ Account(P, size, bytesAll)
  <2>1. CASE Remembered(z)
    <3>1. P = pool /\ p = dynPoolOf[z] /\ p # None /\ pool[p].live
      BY <1>1, <2>1 DEF TableAt, TableOf, Remembered, IsTable
    <3>2. p \in PoolIds
      BY <1>2, <3>1 DEF DynTyped
    <3> QED BY <1>2, <3>1, <3>2 DEF Typed, AccountNow
  <2>2. CASE ~Remembered(z)
    <3>1. P = Born(None, z) /\ p = TakenId /\ NewAt(z)
      BY <1>1, <2>2 DEF DynPut, TableAt, TableOf
    <3>2. PICK q \in PoolIds \cup {None} : q = None
      OBVIOUS
    <3>3. P = Born(q, z) /\ (q # None => pool[q].live)
      BY <3>1, <3>2
    <3>4. /\ p \in PoolIds /\ ~pool[p].live
          /\ P \in [PoolIds -> PoolRec]
          /\ P[p].live /\ P[p].blocks = {} /\ P[p].bytes = 0
          /\ \A x \in PoolIds \ {p} : /\ P[x].live <=> pool[x].live
                                      /\ P[x].blocks = pool[x].blocks
                                      /\ P[x].bytes = pool[x].bytes
      BY ONLY <1>2, <3>1, <3>3, q \in PoolIds \cup {None}, z \in ZoneIds, BornTable
    <3>5. \A x \in PoolIds \ {p} : PlateKept(P, pool, x)
      BY ONLY <3>4 DEF PlateKept
    <3>6. Account(P, size, bytesAll)
      BY ONLY AccountNow, <3>4, <3>5, AccountBorn DEF AccountNow
    <3> QED BY ONLY <3>4, <3>6
  <2> QED BY <2>1, <2>2
<1>4. Account(pool', size', bytesAll')
  BY ONLY <1>2, <1>3, b \in Blocks, n \in Sizes, AccountTake
<1> QED BY ONLY <1>4 DEF AccountNow

-----------------------------------------------------------------------------
(***************************************************************************)
(* The theorems.                                                           *)
(***************************************************************************)
\* The registry keeps its invariant under the dyn values, and DynInv holds.
THEOREM DynInvariant == DynSpec => [](PoolInv /\ DynInv)
<1>1. DynInit => PoolInv /\ DynInv
  BY DynStart
<1>2. (PoolInv /\ DynInv) /\ [DynNext]_allVars => (PoolInv /\ DynInv)'
  BY DynStep
<1> QED BY <1>1, <1>2, PTL DEF DynSpec

\* DispatchSound: a handle that passes the checks of extc_dyn_slot finds its
\* own payload, in memory its pool still owns, for any size of the tables and
\* however slots and pool ids were recycled.
THEOREM DispatchesSound == DynSpec => []DispatchSound
<1>1. DynInv => DispatchSound
  <2> SUFFICES ASSUME DynInv, NEW h \in dyns, Dispatches(h)
               PROVE  dslot[h.slot].addr = h.addr /\ h.addr \in pool[h.pid].blocks
    BY DEF DispatchSound
  <2>1. HandleHolds(h)
    BY DEF DynInv
  <2> QED BY <2>1 DEF HandleHolds, Dispatches, IsTable
<1> QED BY <1>1, DynInvariant, PTL

\* A put makes the table of slots larger when no slot of it is vacant or dead.
LEMMA GrowStep ==
  ASSUME PoolInv, DynInv, NEW z \in ZoneIds, NEW b \in Blocks, NEW n \in Sizes,
         DynPut(z, b, n), dynCap' # dynCap, NEW i \in 0..(dynCap - 1)
  PROVE  dslot[i].pid # None /\ ~SlotDead(pool, kind, i)
<1>1. PICK p, P : p = TableOf(z) /\ P = TableAt(z)
  OBVIOUS
<1>2. PICK D : D = SweptBy(p, P)
  OBVIOUS
<1>3. HeadAfter(D) = None /\ dynN >= dynCap
  BY <1>1, <1>2 DEF DynPut, TableAt, SweptBy, HeadAfter
<1>4. /\ DynTyped /\ SlotsHold /\ Descending(dslot, dynFree, dynN) /\ Typed
  BY DEF DynInv, PoolInv
<1>5. /\ dynN \in Nat /\ dynCap \in Nat /\ dynN <= dynCap
      /\ SlotsMax \in Nat /\ dynCap <= SlotsMax
  <2>1. SlotsMax \in Nat
    BY DynAssumption
  <2>2. dynN \in 0..SlotsMax /\ dynCap \in 0..SlotsMax /\ dynN <= dynCap
    BY <1>4 DEF DynTyped
  <2> QED BY ONLY <2>1, <2>2
<1>6. i \in SlotIds /\ i < dynN
  BY ONLY <1>3, <1>5, i \in 0..(dynCap - 1) DEF SlotIds
<1>7. D = {}
  <2>1. D \in SUBSET SlotIds
    BY <1>2 DEF SweptBy
  <2> QED BY ONLY <1>3, <2>1, LastSlot, SlotFactsDyn DEF HeadAfter
<1>8. dynFree = None /\ NeedSweep
  BY <1>3, <1>7 DEF HeadAfter, NeedSweep
<1>9. dslot[i].pid # None
  <2>1. Vacant(dslot, dynN) = {}
    BY ONLY <1>4, <1>8, SlotFactsDyn DEF Descending, Greatest, Vacant
  <2> QED BY ONLY <1>6, <2>1 DEF Vacant
<1>10. ~SlotDead(P, [kind EXCEPT ![p] = 1], i)
  BY ONLY <1>2, <1>6, <1>7, <1>8 DEF SweptBy
<1>11. /\ p \in PoolIds
       /\ Remembered(z) => P = pool /\ kind[p] = 1
       /\ ~Remembered(z) =>
            /\ P[p].generation = pool[p].generation + 1
            /\ \A x \in PoolIds \ {p} : /\ P[x].live <=> pool[x].live
                                        /\ P[x].generation = pool[x].generation
  BY <1>1, <1>4, PutPool
<1>12. PICK q \in PoolIds : q = dslot[i].pid
  BY <1>4, <1>6, <1>9, SlotFields
<1>13. /\ dslot[i].pgen \in Nat /\ pool[q].generation \in Nat
       /\ dslot[i].pgen <= pool[q].generation
       /\ kind \in [PoolIds -> {0, 1}]
  <2>1. dslot[i].pgen \in Nat
    BY <1>4, <1>6, SlotFields
  <2>2. pool[q].generation \in Nat
    BY <1>4, LinkTypes
  <2>3. dslot[i].pgen <= pool[q].generation
    BY ONLY <1>4, <1>6, <1>9, <1>12 DEF SlotsHold
  <2>4. kind \in [PoolIds -> {0, 1}]
    BY ONLY <1>4 DEF Typed
  <2> QED BY <2>1, <2>2, <2>3, <2>4
<1>14. P[q].live /\ [kind EXCEPT ![p] = 1][q] = 1 /\ P[q].generation = dslot[i].pgen
  BY <1>9, <1>10, <1>12 DEF SlotDead, IsTable
<1>15. pool[q].live /\ kind[q] = 1 /\ pool[q].generation = dslot[i].pgen
  <2>1. CASE Remembered(z)
    BY ONLY <1>11, <1>13, <1>14, <2>1, q \in PoolIds
  <2>2. CASE ~Remembered(z)
    <3>1. q # p
      BY ONLY <1>11, <1>13, <1>14, <2>2, q \in PoolIds
    <3> QED BY ONLY <1>11, <1>13, <1>14, <2>2, <3>1, q \in PoolIds
  <2> QED BY ONLY <2>1, <2>2
<1> QED BY ONLY <1>9, <1>12, <1>15 DEF SlotDead, IsTable

\* GrowsOnlyWhenFull: a step that makes the table of slots larger found every
\* slot of it holding a value that still dispatches.
THEOREM TableGrowsWhenFull == DynSpec => GrowsOnlyWhenFull
<1>1. ASSUME PoolInv, DynInv, [DynNext]_allVars
      PROVE  dynCap' # dynCap => \A i \in 0..(dynCap - 1) :
                dslot[i].pid # None /\ ~SlotDead(pool, kind, i)
  <2>1. CASE UNCHANGED allVars \/ Other
    BY <2>1 DEF Other, allVars, dynVars
  <2>2. CASE \E z \in ZoneIds, b \in Blocks, n \in Sizes : DynPut(z, b, n)
    BY <1>1, <2>2, GrowStep
  <2> QED BY <1>1, <2>1, <2>2 DEF DynNext
<1> QED BY <1>1, DynInvariant, PTL DEF DynSpec, GrowsOnlyWhenFull

\* BytesExact, with the dyn values: the counters are exact also when payloads
\* are put in the object tables of places.
THEOREM DynBytesCounted == DynSpec => []BytesExact
<1>1. DynInit => AccountNow
  BY AccountInit DEF DynInit
<1>2. PoolInv /\ DynInv /\ AccountNow /\ [DynNext]_allVars => AccountNow'
  <2> SUFFICES ASSUME PoolInv, DynInv, AccountNow, [DynNext]_allVars
               PROVE  AccountNow'
    OBVIOUS
  <2>1. CASE UNCHANGED allVars \/ Other
    <3>1. [Next]_vars
      BY <2>1 DEF Other, allVars
    <3> QED BY <3>1, AccountStep DEF PoolInv
  <2>2. CASE \E z \in ZoneIds, b \in Blocks, n \in Sizes : DynPut(z, b, n)
    BY <2>2, PutAccount
  <2> QED BY <2>1, <2>2 DEF DynNext
<1> QED BY <1>1, <1>2, DynInvariant, AccountIsExact, PTL DEF DynSpec
=============================================================================
