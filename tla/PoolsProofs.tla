---------------------------- MODULE PoolsProofs ----------------------------
(***************************************************************************)
(* Proofs about Pools: the chains of the registry are intact at every step *)
(* of every nested drop, reset and place release (ChainsMutual), the       *)
(* places that generated code names are alive (NamedPlaceAlive), and a     *)
(* place is left by its own mark (MarkOnStack).                            *)
(*                                                                         *)
(* The inductive invariant PoolInv.  Shape: which frames a call stack of   *)
(* the runtime can have.  Saved: the link a loop saved is the link it      *)
(* would read now.  PlaceLinks, ChildLinks: both chains of a living pool,  *)
(* in both directions.  Ordered: pools were born in some order, in which a *)
(* child follows its parent and a chain runs from the youngest to the      *)
(* oldest; it is what keeps a drop away from the links saved below it.     *)
(* PlacesFree: the free places are a list.  Stack and Unwound: the current *)
(* place, the frames of generated code and the places an unwinding call    *)
(* has still to leave form one chain.                                      *)
(***************************************************************************)
EXTENDS Pools, SharedLemmas, SequenceTheorems

PoolRec ==
  [generation : Nat, parent : PoolIds \cup {None}, zone : ZoneIds \cup {None},
   firstChild : PoolIds \cup {None}, nextSibling : PoolIds \cup {None},
   siblingPrev : PoolIds \cup {None}, zoneNext : PoolIds \cup {None},
   zonePrev : PoolIds \cup {None}, freeNext : PoolIds \cup {None},
   live : BOOLEAN, color : Nat, blocks : SUBSET Blocks, bytes : Int]

ZoneRec ==
  [firstPool : PoolIds \cup {None}, parent : ZoneIds \cup {None},
   color : Nat, live : BOOLEAN, depth : Nat]

FrameRec ==
  [fn : {"leaveTo", "popTo", "release", "call", "drop", "reset"},
   id : Int, next : Int]

CallRec == [fn : {"place", "step"}, id : Int, sv : ZoneIds \cup {None}]
TaskRec == [zone : ZoneIds, live : BOOLEAN]

\* Types of the state.
Typed ==
  /\ pool \in [PoolIds -> PoolRec]
  /\ poolCap \in 0..TableMax /\ poolFree \in PoolIds \cup {None}
  /\ kind \in [PoolIds -> {0, 1}] /\ made \in [PoolIds -> 0..2]
  /\ zone \in [ZoneIds -> ZoneRec]
  /\ zoneN \in 0..PlaceMax
  /\ zoneFree \in ZoneIds \cup {None} /\ zoneTop \in ZoneIds \cup {None}
  /\ size \in [Blocks -> Nat]
  /\ tasks \in Seq(TaskRec) /\ calls \in Seq(CallRec) /\ rt \in Seq(FrameRec)

\* Frames of the runtime, frames of generated code, tasks begun.
Depth == Len(rt)
Level == Len(calls)
Begun == Len(tasks)

\* The frames of the runtime's calls, each with what may lie above and below.
ShapeAt(i) ==
  LET f == rt[i] IN
  /\ f.fn = "leaveTo" => Depth = 1 /\ f.id \in ZoneIds
  /\ f.fn = "popTo" =>
       /\ i = Depth /\ f.id \in ZoneIds /\ f.next \in ZoneIds \cup {None}
       /\ i > 1 => rt[i - 1].fn = "release"
  /\ f.fn = "release" =>
       /\ f.id \in ZoneIds /\ f.next \in PoolIds \cup {None}
       /\ i < Depth => i + 1 = Depth /\ rt[i + 1].fn = "popTo"
       /\ i > 1 => rt[i - 1].fn \in {"call", "drop"}
  /\ f.fn \in {"drop", "reset"} =>
       /\ f.id \in PoolIds /\ f.next \in PoolIds \cup {None}
       /\ i > 1 => rt[i - 1].fn \in {"call", "drop"}
  /\ f.fn = "drop" /\ i < Depth => rt[i + 1].fn \in {"drop", "reset", "release"}
  /\ f.fn = "reset" /\ i < Depth =>
       i + 1 = Depth /\ rt[i + 1].fn = "call" /\ rt[i + 1].id = f.id
  /\ f.fn = "call" =>
       /\ f.id \in PoolIds
       /\ i > 1 => i = Depth /\ rt[i - 1].fn = "reset" /\ rt[i - 1].id = f.id
       /\ i = 1 /\ Depth > 1 => rt[2].fn \in {"drop", "reset", "release"}

Shape == \A i \in 1..Depth : ShapeAt(i)

\* A loop over a chain has at its head what it saved, or the pool it is
\* dropping, whose link it saved.
SavedAt(i) ==
  LET f == rt[i] IN
  /\ f.fn \in {"call", "drop", "reset"} => pool[f.id].live
  /\ f.fn = "reset" => pool[f.id].generation < GenMax
  /\ f.fn \in {"drop", "reset"} =>
       IF i = 1 THEN pool[f.id].firstChild = f.next
       ELSE /\ pool[f.id].firstChild = rt[i - 1].id
            /\ pool[rt[i - 1].id].nextSibling = f.next
  /\ f.fn = "release" =>
       /\ zone[f.id].live
       /\ IF i = 1 THEN zone[f.id].firstPool = f.next
          ELSE /\ zone[f.id].firstPool = rt[i - 1].id
               /\ pool[rt[i - 1].id].zoneNext = f.next

Saved == \A i \in 1..Depth : SavedAt(i)

\* The place chain of a living pool, in both directions, and its head.
PlaceLinks ==
  /\ \A p \in LivePools :
       LET r == pool[p] IN
       /\ r.zone \in ZoneIds /\ zone[r.zone].live
       /\ r.zoneNext # None => /\ pool[r.zoneNext].live
                               /\ pool[r.zoneNext].zonePrev = p
                               /\ pool[r.zoneNext].zone = r.zone
       /\ r.zonePrev = None => zone[r.zone].firstPool = p
       /\ r.zonePrev # None => /\ pool[r.zonePrev].live
                               /\ pool[r.zonePrev].zoneNext = p
                               /\ pool[r.zonePrev].zone = r.zone
  /\ \A z \in ZoneIds :
       zone[z].live /\ zone[z].firstPool # None =>
         LET h == pool[zone[z].firstPool] IN
         h.live /\ h.zone = z /\ h.zonePrev = None

\* The child chain of a living pool, likewise.
ChildLinks ==
  \A p \in LivePools :
    LET r == pool[p] IN
    /\ r.parent = None => r.nextSibling = None /\ r.siblingPrev = None
    /\ r.parent # None => pool[r.parent].live
    /\ r.nextSibling # None => /\ pool[r.nextSibling].live
                               /\ pool[r.nextSibling].siblingPrev = p
                               /\ pool[r.nextSibling].parent = r.parent
    /\ r.parent # None /\ r.siblingPrev = None => pool[r.parent].firstChild = p
    /\ r.siblingPrev # None => /\ pool[r.siblingPrev].live
                               /\ pool[r.siblingPrev].nextSibling = p
                               /\ pool[r.siblingPrev].parent = r.parent
    /\ r.firstChild # None => /\ pool[r.firstChild].live
                              /\ pool[r.firstChild].parent = p
                              /\ pool[r.firstChild].siblingPrev = None

\* r orders the living pools by birth, m is later than every one of them.
LinkOrder(r, m) ==
  \A p \in LivePools :
    /\ r[p] < m
    /\ pool[p].zoneNext # None => r[pool[p].zoneNext] < r[p]
    /\ pool[p].nextSibling # None => r[pool[p].nextSibling] < r[p]
    /\ pool[p].parent # None => r[pool[p].parent] < r[p]

\* A pool being dropped is younger than those whose drop or reset led to it.
FrameOrder(r) ==
  \A i, j \in 1..Depth :
    i < j /\ rt[i].fn \in {"call", "drop"} /\ rt[j].fn \in {"drop", "reset"}
      => r[rt[j].id] < r[rt[i].id]

Ordered ==
  \E r \in [PoolIds -> Nat], m \in Nat : LinkOrder(r, m) /\ FrameOrder(r)

\* The free places are a list threaded through parent.
PlacesFree ==
  /\ \A z \in ZoneIds : zone[z].live => z < zoneN
  /\ zoneFree # None => zoneFree < zoneN /\ ~zone[zoneFree].live
  /\ \A z \in ZoneIds : z < zoneN /\ ~zone[z].live /\ zone[z].parent # None =>
       /\ zone[z].parent < zoneN /\ ~zone[zone[z].parent].live
       /\ zone[z].parent # zoneFree
       /\ \A y \in ZoneIds : y < zoneN /\ ~zone[y].live /\ y # z =>
            zone[y].parent # zone[z].parent

\* The current place as the frames of generated code from level j on have it.
Cur(j) ==
  IF j > Level THEN None
  ELSE IF calls[j].fn = "place" THEN calls[j].id ELSE tasks[calls[j].id].zone

\* Places that a block, a function or a living task holds.
Held(z) ==
  \/ \E i \in 1..Level : calls[i].fn = "place" /\ calls[i].id = z
  \/ \E t \in 1..Begun : tasks[t].live /\ tasks[t].zone = z

\* Every frame of generated code holds a living place of its own, whose parent
\* is the place current below it.
Stack ==
  /\ \A i \in 1..Level :
       /\ calls[i].fn = "place" => /\ calls[i].id \in ZoneIds
                                   /\ zone[calls[i].id].live
                                   /\ zone[calls[i].id].parent = Cur(i + 1)
       /\ calls[i].fn = "step" => /\ calls[i].id \in 1..Begun
                                  /\ tasks[calls[i].id].live
                                  /\ calls[i].sv = Cur(i + 1)
       /\ \A j \in 1..Level :
            i # j /\ calls[i].fn = calls[j].fn => calls[i].id # calls[j].id
  /\ \A t \in 1..Begun : tasks[t].live =>
       /\ zone[tasks[t].zone].live
       /\ \A u \in 1..Begun :
            u # t /\ tasks[u].live => tasks[u].zone # tasks[t].zone
       /\ \A i \in 1..Level :
            calls[i].fn = "place" => calls[i].id # tasks[t].zone

\* w are the places a running leaveTo has still to leave, n of them.
Unwinding(n, w) ==
  LET after(k) == IF k = n THEN Cur(1) ELSE w[k + 1] IN
  /\ zoneTop = IF n = 0 THEN Cur(1) ELSE w[1]
  /\ \A k \in 1..n :
       /\ ~Held(w[k])
       /\ k > 1 => zone[w[k]].live /\ zone[w[k]].parent = after(k)
       /\ \A l \in 1..n : l # k => w[l] # w[k]
  /\ \A i \in 1..Depth :
       LET f == rt[i] IN
       /\ f.fn = "leaveTo" => /\ n > 0 /\ w[n] = f.id
                              /\ zone[w[1]].live /\ zone[w[1]].parent = after(1)
       /\ f.fn = "popTo" => n > 0 /\ w[n] = f.id /\ f.next = after(1)
       /\ f.fn = "release" => ~Held(f.id) /\ (i < Depth => f.id = zoneTop)
  /\ Depth = 0 \/ rt[Depth].fn \notin {"leaveTo", "popTo"} => n = 0

Unwound == \E n \in Nat : \E w \in [1..n -> ZoneIds] : Unwinding(n, w)

\* The inductive invariant.
ChainInv == Shape /\ Saved /\ PlaceLinks /\ ChildLinks /\ Ordered /\ PlacesFree
PlaceInv == Stack /\ Unwound
PoolInv == Typed /\ ChainInv /\ PlaceInv

-----------------------------------------------------------------------------
(***************************************************************************)
(* Facts about the operators on the table of pools.                        *)
(***************************************************************************)
\* None is no slot of a table.
LEMMA NoneApart == None \notin PoolIds /\ None \notin ZoneIds /\ None \in Int
                   /\ PoolIds \subseteq Nat /\ ZoneIds \subseteq Nat
  BY PoolsAssumption DEF None, PoolIds, ZoneIds

\* A record of the table stays one when its fields get values of their types.
LEMMA PoolRecFree ==
  ASSUME NEW q \in PoolRec, NEW g \in PoolIds \cup {None}, NEW b \in BOOLEAN
  PROVE  [q EXCEPT !.live = b, !.parent = None, !.firstChild = None,
            !.zonePrev = None, !.siblingPrev = None,
            !.freeNext = g, !.blocks = {}, !.bytes = 0] \in PoolRec
<1>1. PICK u \in PoolRec : u = [q EXCEPT !.live = b]
  BY ZenonT(30) DEF PoolRec
<1>2. PICK v \in PoolRec :
        v = [u EXCEPT !.parent = None, !.firstChild = None, !.zonePrev = None,
                      !.siblingPrev = None, !.freeNext = g]
  BY DEF PoolRec
<1>3. PICK w \in PoolRec : w = [v EXCEPT !.blocks = {}]
  BY ZenonT(30) DEF PoolRec
<1>4. [w EXCEPT !.bytes = 0] \in PoolRec
  BY DEF PoolRec
<1> QED BY <1>1, <1>2, <1>3, <1>4

LEMMA LiveSet == ASSUME NEW q \in PoolRec, NEW b \in BOOLEAN
                 PROVE  [q EXCEPT !.live = b] \in PoolRec
  BY DEF PoolRec

\* Setting a link to a slot or to none keeps the table a table.
LEMMA LinkSet ==
  ASSUME NEW P \in [PoolIds -> PoolRec], NEW x \in PoolIds,
         NEW g \in PoolIds \cup {None}
  PROVE  /\ [P EXCEPT ![x].firstChild = g] \in [PoolIds -> PoolRec]
         /\ [P EXCEPT ![x].nextSibling = g] \in [PoolIds -> PoolRec]
         /\ [P EXCEPT ![x].siblingPrev = g] \in [PoolIds -> PoolRec]
         /\ [P EXCEPT ![x].zoneNext = g] \in [PoolIds -> PoolRec]
         /\ [P EXCEPT ![x].zonePrev = g] \in [PoolIds -> PoolRec]
<1>1. /\ [P[x] EXCEPT !.firstChild = g] \in PoolRec
      /\ [P[x] EXCEPT !.nextSibling = g] \in PoolRec
      /\ [P[x] EXCEPT !.siblingPrev = g] \in PoolRec
      /\ [P[x] EXCEPT !.zoneNext = g] \in PoolRec
      /\ [P[x] EXCEPT !.zonePrev = g] \in PoolRec
  BY DEF PoolRec
<1> QED BY <1>1

\* extc_pool_freeSelf keeps the table a table, and every other record.
LEMMA FreeSelfType ==
  ASSUME NEW P \in [PoolIds -> PoolRec], NEW p \in PoolIds,
         poolFree \in PoolIds \cup {None}
  PROVE  FreeSelf(P, p) \in [PoolIds -> PoolRec]
<1>1. PICK b \in BOOLEAN : b = FALSE
  OBVIOUS
<1> DEFINE q == [P[p] EXCEPT !.live = b, !.parent = None, !.firstChild = None,
                   !.zonePrev = None, !.siblingPrev = None,
                   !.freeNext = poolFree, !.blocks = {}, !.bytes = 0]
<1>2. q \in PoolRec
  BY PoolRecFree
<1>3. FreeSelf(P, p) = [P EXCEPT ![p] = q]
  BY <1>1 DEF FreeSelf
<1> QED BY <1>2, <1>3

LEMMA UnlinkParentType ==
  ASSUME NEW P \in [PoolIds -> PoolRec], NEW p \in PoolIds
  PROVE  UnlinkParent(P, p) \in [PoolIds -> PoolRec]
<1> DEFINE q == P[p].parent
           pv == P[p].siblingPrev
           nx == P[p].nextSibling
           A == IF pv # None THEN [P EXCEPT ![pv].nextSibling = nx]
                             ELSE [P EXCEPT ![q].firstChild = nx]
<1>1. /\ q \in PoolIds \cup {None} /\ pv \in PoolIds \cup {None}
      /\ nx \in PoolIds \cup {None}
  BY DEF PoolRec
<1>2. UnlinkParent(P, p) = IF q = None THEN P
                           ELSE IF nx # None THEN [A EXCEPT ![nx].siblingPrev = pv] ELSE A
  BY DEF UnlinkParent
<1>3. q # None => A \in [PoolIds -> PoolRec]
  BY <1>1, LinkSet
<1> HIDE DEF A, q, pv, nx
<1>4. CASE q = None \/ nx = None
  BY <1>2, <1>3, <1>4
<1>5. CASE q # None /\ nx # None
  <2>1. A \in [PoolIds -> PoolRec] /\ nx \in PoolIds /\ pv \in PoolIds \cup {None}
    BY <1>1, <1>3, <1>5
  <2>2. [A EXCEPT ![nx].siblingPrev = pv] \in [PoolIds -> PoolRec]
    BY ONLY <2>1, LinkSet
  <2> QED BY <1>2, <1>5, <2>2
<1> QED BY <1>4, <1>5

LEMMA UnlinkZoneType ==
  ASSUME NEW P \in [PoolIds -> PoolRec], NEW p \in PoolIds
  PROVE  UnlinkZone(P, p) \in [PoolIds -> PoolRec]
  BY SMTT(20) DEF UnlinkZone, PoolRec

\* Setting one link of a record leaves its other fields alone.
RestKept(r, q) ==
  /\ r.live <=> q.live
  /\ r.zone = q.zone /\ r.parent = q.parent /\ r.generation = q.generation
  /\ r.freeNext = q.freeNext /\ r.blocks = q.blocks /\ r.bytes = q.bytes

LEMMA FirstChildSet ==
  ASSUME NEW q \in PoolRec, NEW g, NEW c, c = [q EXCEPT !.firstChild = g]
  PROVE  /\ RestKept(c, q) /\ c.firstChild = g
         /\ c.nextSibling = q.nextSibling /\ c.siblingPrev = q.siblingPrev
         /\ c.zoneNext = q.zoneNext /\ c.zonePrev = q.zonePrev
  BY DEF PoolRec, RestKept

LEMMA NextSiblingSet ==
  ASSUME NEW q \in PoolRec, NEW g, NEW c, c = [q EXCEPT !.nextSibling = g]
  PROVE  /\ RestKept(c, q) /\ c.nextSibling = g
         /\ c.firstChild = q.firstChild /\ c.siblingPrev = q.siblingPrev
         /\ c.zoneNext = q.zoneNext /\ c.zonePrev = q.zonePrev
  BY DEF PoolRec, RestKept

LEMMA SiblingPrevSet ==
  ASSUME NEW q \in PoolRec, NEW g, NEW c, c = [q EXCEPT !.siblingPrev = g]
  PROVE  /\ RestKept(c, q) /\ c.siblingPrev = g
         /\ c.firstChild = q.firstChild /\ c.nextSibling = q.nextSibling
         /\ c.zoneNext = q.zoneNext /\ c.zonePrev = q.zonePrev
  BY DEF PoolRec, RestKept

LEMMA ZoneNextSet ==
  ASSUME NEW q \in PoolRec, NEW g, NEW c, c = [q EXCEPT !.zoneNext = g]
  PROVE  /\ RestKept(c, q) /\ c.zoneNext = g
         /\ c.firstChild = q.firstChild /\ c.nextSibling = q.nextSibling
         /\ c.siblingPrev = q.siblingPrev /\ c.zonePrev = q.zonePrev
  BY DEF PoolRec, RestKept

LEMMA ZonePrevSet ==
  ASSUME NEW q \in PoolRec, NEW g, NEW c, c = [q EXCEPT !.zonePrev = g]
  PROVE  /\ RestKept(c, q) /\ c.zonePrev = g
         /\ c.firstChild = q.firstChild /\ c.nextSibling = q.nextSibling
         /\ c.siblingPrev = q.siblingPrev /\ c.zoneNext = q.zoneNext
  BY DEF PoolRec, RestKept

\* What extc_pool_drop does to the links of the other pools, whose links to
\* themselves it never follows.
LEMMA DropFields ==
  ASSUME NEW P \in [PoolIds -> PoolRec], NEW p \in PoolIds,
         poolFree \in PoolIds \cup {None},
         P[p].siblingPrev # p, P[p].nextSibling # p, P[p].parent # p,
         P[p].zonePrev # p, P[p].zoneNext # p,
         P[p].parent = None => P[p].nextSibling = None /\ P[p].siblingPrev = None,
         NEW Q, Q = FreeSelf(UnlinkZone(UnlinkParent(P, p), p), p)
  PROVE  /\ Q \in [PoolIds -> PoolRec]
         /\ ~Q[p].live /\ Q[p].generation = P[p].generation
         /\ Q[p].freeNext = poolFree
         /\ \A x \in PoolIds \ {p} :
              /\ Q[x].live <=> P[x].live
              /\ Q[x].zone = P[x].zone /\ Q[x].parent = P[x].parent
              /\ Q[x].generation = P[x].generation
              /\ Q[x].freeNext = P[x].freeNext
              /\ Q[x].blocks = P[x].blocks /\ Q[x].bytes = P[x].bytes
              /\ Q[x].zoneNext = IF x = P[p].zonePrev THEN P[p].zoneNext
                                 ELSE P[x].zoneNext
              /\ Q[x].zonePrev = IF x = P[p].zoneNext THEN P[p].zonePrev
                                 ELSE P[x].zonePrev
              /\ Q[x].nextSibling = IF x = P[p].siblingPrev THEN P[p].nextSibling
                                    ELSE P[x].nextSibling
              /\ Q[x].siblingPrev = IF x = P[p].nextSibling THEN P[p].siblingPrev
                                    ELSE P[x].siblingPrev
              /\ Q[x].firstChild = IF x = P[p].parent /\ P[p].siblingPrev = None
                                   THEN P[p].nextSibling ELSE P[x].firstChild
<1> DEFINE A == UnlinkParent(P, p)
           B == UnlinkZone(A, p)
<1>1. A \in [PoolIds -> PoolRec]
  BY UnlinkParentType
<1>2. /\ A[p].zonePrev = P[p].zonePrev /\ A[p].zoneNext = P[p].zoneNext
      /\ A[p].generation = P[p].generation
      /\ \A x \in PoolIds \ {p} :
              /\ A[x].live <=> P[x].live
              /\ A[x].zone = P[x].zone /\ A[x].parent = P[x].parent
              /\ A[x].generation = P[x].generation
              /\ A[x].freeNext = P[x].freeNext
              /\ A[x].blocks = P[x].blocks /\ A[x].bytes = P[x].bytes
              /\ A[x].zoneNext = P[x].zoneNext
              /\ A[x].zonePrev = P[x].zonePrev
              /\ A[x].nextSibling = IF x = P[p].siblingPrev THEN P[p].nextSibling
                                    ELSE P[x].nextSibling
              /\ A[x].siblingPrev = IF x = P[p].nextSibling THEN P[p].siblingPrev
                                    ELSE P[x].siblingPrev
              /\ A[x].firstChild = IF x = P[p].parent /\ P[p].siblingPrev = None
                                   THEN P[p].nextSibling ELSE P[x].firstChild
  <2>1. CASE P[p].parent = None
    BY <2>1, NoneApart DEF UnlinkParent, PoolRec
  <2>2. CASE P[p].parent # None /\ P[p].siblingPrev = None /\ P[p].nextSibling = None
    BY <2>2, NoneApart DEF UnlinkParent, PoolRec
  <2>3. CASE P[p].parent # None /\ P[p].siblingPrev = None /\ P[p].nextSibling # None
    <3> DEFINE q == P[p].parent
               nx == P[p].nextSibling
               C == [P EXCEPT ![q].firstChild = nx]
    <3>1. q \in PoolIds \ {p} /\ nx \in PoolIds \ {p}
      BY <2>3 DEF PoolRec
    <3>2. C \in [PoolIds -> PoolRec]
      BY ONLY P \in [PoolIds -> PoolRec], <3>1, LinkSet
    <3>3. A = [C EXCEPT ![nx].siblingPrev = None]
      BY <2>3 DEF UnlinkParent
    <3>4. \A x \in PoolIds : C[x] = IF x = q THEN [P[x] EXCEPT !.firstChild = nx] ELSE P[x]
      BY ONLY P \in [PoolIds -> PoolRec], <3>1
    <3> HIDE DEF A, C, q, nx
    <3>5. \A x \in PoolIds : A[x] = IF x = nx THEN [C[x] EXCEPT !.siblingPrev = None] ELSE C[x]
      BY ONLY <3>1, <3>2, <3>3
    <3>6. A[p] = P[p]
      BY ONLY <3>1, <3>4, <3>5, p \in PoolIds
    <3>7. \A x \in PoolIds :
            /\ C[x].live <=> P[x].live
            /\ C[x].zone = P[x].zone /\ C[x].parent = P[x].parent
            /\ C[x].generation = P[x].generation
            /\ C[x].freeNext = P[x].freeNext
            /\ C[x].blocks = P[x].blocks /\ C[x].bytes = P[x].bytes
            /\ C[x].zoneNext = P[x].zoneNext /\ C[x].zonePrev = P[x].zonePrev
            /\ C[x].nextSibling = P[x].nextSibling
            /\ C[x].siblingPrev = P[x].siblingPrev
            /\ C[x].firstChild = IF x = q THEN nx ELSE P[x].firstChild
      <4> TAKE x \in PoolIds
      <4>1. PICK r \in PoolRec : r = P[x]
        BY ONLY P \in [PoolIds -> PoolRec], x \in PoolIds
      <4>2. PICK c : c = [r EXCEPT !.firstChild = nx]
        OBVIOUS
      <4>3. C[x] = IF x = q THEN c ELSE r
        BY ONLY <3>4, <4>1, <4>2, x \in PoolIds
      <4>4. /\ RestKept(c, r) /\ c.firstChild = nx
            /\ c.nextSibling = r.nextSibling
            /\ c.siblingPrev = r.siblingPrev
            /\ c.zoneNext = r.zoneNext
            /\ c.zonePrev = r.zonePrev
        BY ONLY <4>2, r \in PoolRec, FirstChildSet
      <4> QED BY ONLY <4>1, <4>3, <4>4 DEF RestKept
    <3>8. \A x \in PoolIds :
            /\ A[x].live <=> C[x].live
            /\ A[x].zone = C[x].zone /\ A[x].parent = C[x].parent
            /\ A[x].generation = C[x].generation
            /\ A[x].freeNext = C[x].freeNext
            /\ A[x].blocks = C[x].blocks /\ A[x].bytes = C[x].bytes
            /\ A[x].zoneNext = C[x].zoneNext /\ A[x].zonePrev = C[x].zonePrev
            /\ A[x].nextSibling = C[x].nextSibling
            /\ A[x].siblingPrev = IF x = nx THEN None ELSE C[x].siblingPrev
            /\ A[x].firstChild = C[x].firstChild
      <4> TAKE x \in PoolIds
      <4>1. PICK r \in PoolRec : r = C[x]
        BY ONLY <3>2, x \in PoolIds
      <4>2. PICK c : c = [r EXCEPT !.siblingPrev = None]
        OBVIOUS
      <4>3. A[x] = IF x = nx THEN c ELSE r
        BY ONLY <3>5, <4>1, <4>2, x \in PoolIds
      <4>4. /\ RestKept(c, r) /\ c.siblingPrev = None
            /\ c.firstChild = r.firstChild
            /\ c.nextSibling = r.nextSibling
            /\ c.zoneNext = r.zoneNext
            /\ c.zonePrev = r.zonePrev
        BY ONLY <4>2, r \in PoolRec, SiblingPrevSet
      <4> QED BY ONLY <4>1, <4>3, <4>4 DEF RestKept
    <3> QED BY ONLY <2>3, <3>6, <3>7, <3>8, NoneApart DEF q, nx
  <2>4. CASE P[p].parent # None /\ P[p].siblingPrev # None /\ P[p].nextSibling = None
    BY <2>4, NoneApart DEF UnlinkParent, PoolRec
  <2>5. CASE P[p].parent # None /\ P[p].siblingPrev # None /\ P[p].nextSibling # None
    <3> DEFINE pv == P[p].siblingPrev
               nx == P[p].nextSibling
               C == [P EXCEPT ![pv].nextSibling = nx]
    <3>1. pv \in PoolIds \ {p} /\ nx \in PoolIds \ {p}
      BY <2>5 DEF PoolRec
    <3>2. C \in [PoolIds -> PoolRec]
      BY ONLY P \in [PoolIds -> PoolRec], <3>1, LinkSet
    <3>3. A = [C EXCEPT ![nx].siblingPrev = pv]
      BY <2>5 DEF UnlinkParent
    <3>4. \A x \in PoolIds : C[x] = IF x = pv THEN [P[x] EXCEPT !.nextSibling = nx] ELSE P[x]
      BY ONLY P \in [PoolIds -> PoolRec], <3>1
    <3> HIDE DEF A, C, pv, nx
    <3>5. \A x \in PoolIds : A[x] = IF x = nx THEN [C[x] EXCEPT !.siblingPrev = pv] ELSE C[x]
      BY ONLY <3>1, <3>2, <3>3
    <3>6. A[p] = P[p]
      BY ONLY <3>1, <3>4, <3>5, p \in PoolIds
    <3>7. \A x \in PoolIds :
            /\ C[x].live <=> P[x].live
            /\ C[x].zone = P[x].zone /\ C[x].parent = P[x].parent
            /\ C[x].generation = P[x].generation
            /\ C[x].freeNext = P[x].freeNext
            /\ C[x].blocks = P[x].blocks /\ C[x].bytes = P[x].bytes
            /\ C[x].zoneNext = P[x].zoneNext /\ C[x].zonePrev = P[x].zonePrev
            /\ C[x].nextSibling = IF x = pv THEN nx ELSE P[x].nextSibling
            /\ C[x].siblingPrev = P[x].siblingPrev
            /\ C[x].firstChild = P[x].firstChild
      <4> TAKE x \in PoolIds
      <4>1. PICK r \in PoolRec : r = P[x]
        BY ONLY P \in [PoolIds -> PoolRec], x \in PoolIds
      <4>2. PICK c : c = [r EXCEPT !.nextSibling = nx]
        OBVIOUS
      <4>3. C[x] = IF x = pv THEN c ELSE r
        BY ONLY <3>4, <4>1, <4>2, x \in PoolIds
      <4>4. /\ RestKept(c, r) /\ c.nextSibling = nx
            /\ c.firstChild = r.firstChild
            /\ c.siblingPrev = r.siblingPrev
            /\ c.zoneNext = r.zoneNext
            /\ c.zonePrev = r.zonePrev
        BY ONLY <4>2, r \in PoolRec, NextSiblingSet
      <4> QED BY ONLY <4>1, <4>3, <4>4 DEF RestKept
    <3>8. \A x \in PoolIds :
            /\ A[x].live <=> C[x].live
            /\ A[x].zone = C[x].zone /\ A[x].parent = C[x].parent
            /\ A[x].generation = C[x].generation
            /\ A[x].freeNext = C[x].freeNext
            /\ A[x].blocks = C[x].blocks /\ A[x].bytes = C[x].bytes
            /\ A[x].zoneNext = C[x].zoneNext /\ A[x].zonePrev = C[x].zonePrev
            /\ A[x].nextSibling = C[x].nextSibling
            /\ A[x].siblingPrev = IF x = nx THEN pv ELSE C[x].siblingPrev
            /\ A[x].firstChild = C[x].firstChild
      <4> TAKE x \in PoolIds
      <4>1. PICK r \in PoolRec : r = C[x]
        BY ONLY <3>2, x \in PoolIds
      <4>2. PICK c : c = [r EXCEPT !.siblingPrev = pv]
        OBVIOUS
      <4>3. A[x] = IF x = nx THEN c ELSE r
        BY ONLY <3>5, <4>1, <4>2, x \in PoolIds
      <4>4. /\ RestKept(c, r) /\ c.siblingPrev = pv
            /\ c.firstChild = r.firstChild
            /\ c.nextSibling = r.nextSibling
            /\ c.zoneNext = r.zoneNext
            /\ c.zonePrev = r.zonePrev
        BY ONLY <4>2, r \in PoolRec, SiblingPrevSet
      <4> QED BY ONLY <4>1, <4>3, <4>4 DEF RestKept
    <3> QED BY ONLY <2>5, <3>6, <3>7, <3>8, NoneApart DEF pv, nx
  <2> QED BY <2>1, <2>2, <2>3, <2>4, <2>5
<1> HIDE DEF A
<1>3. B \in [PoolIds -> PoolRec]
  BY <1>1, UnlinkZoneType
<1>4. /\ B[p].generation = A[p].generation
      /\ \A x \in PoolIds \ {p} :
              /\ B[x].live <=> A[x].live
              /\ B[x].zone = A[x].zone /\ B[x].parent = A[x].parent
              /\ B[x].generation = A[x].generation
              /\ B[x].freeNext = A[x].freeNext
              /\ B[x].blocks = A[x].blocks /\ B[x].bytes = A[x].bytes
              /\ B[x].zoneNext = IF x = A[p].zonePrev THEN A[p].zoneNext
                                 ELSE A[x].zoneNext
              /\ B[x].zonePrev = IF x = A[p].zoneNext THEN A[p].zonePrev
                                 ELSE A[x].zonePrev
              /\ B[x].nextSibling = A[x].nextSibling
              /\ B[x].siblingPrev = A[x].siblingPrev
              /\ B[x].firstChild = A[x].firstChild
  <2>1. CASE A[p].zonePrev = None /\ A[p].zoneNext = None
    BY <1>1, <1>2, <2>1, NoneApart DEF UnlinkZone, PoolRec
  <2>2. CASE A[p].zonePrev = None /\ A[p].zoneNext # None
    <3>1. A[p].zoneNext \in PoolIds \ {p} /\ A[p].zonePrev \in PoolIds \cup {None}
      BY <1>1, <1>2, <2>2 DEF PoolRec
    <3>2. B = [A EXCEPT ![A[p].zoneNext].zonePrev = A[p].zonePrev]
      BY <2>2 DEF UnlinkZone
    <3> HIDE DEF B
    <3>3. \A x \in PoolIds :
            B[x] = IF x = A[p].zoneNext THEN [A[x] EXCEPT !.zonePrev = A[p].zonePrev]
                   ELSE A[x]
      BY ONLY <1>1, <3>1, <3>2
    <3>4. B[p] = A[p]
      BY ONLY <3>1, <3>3, p \in PoolIds
    <3>5. \A x \in PoolIds :
            /\ B[x].live <=> A[x].live
            /\ B[x].zone = A[x].zone /\ B[x].parent = A[x].parent
            /\ B[x].generation = A[x].generation
            /\ B[x].freeNext = A[x].freeNext
            /\ B[x].blocks = A[x].blocks /\ B[x].bytes = A[x].bytes
            /\ B[x].nextSibling = A[x].nextSibling
            /\ B[x].siblingPrev = A[x].siblingPrev
            /\ B[x].firstChild = A[x].firstChild
            /\ B[x].zonePrev = IF x = A[p].zoneNext THEN A[p].zonePrev ELSE A[x].zonePrev
            /\ B[x].zoneNext = A[x].zoneNext
      <4> TAKE x \in PoolIds
      <4>1. PICK r \in PoolRec : r = A[x]
        BY ONLY <1>1, x \in PoolIds
      <4>2. PICK c : c = [r EXCEPT !.zonePrev = A[p].zonePrev]
        OBVIOUS
      <4>3. B[x] = IF x = A[p].zoneNext THEN c ELSE r
        BY ONLY <3>3, <4>1, <4>2, x \in PoolIds
      <4>4. /\ RestKept(c, r) /\ c.zonePrev = A[p].zonePrev
            /\ c.firstChild = r.firstChild
            /\ c.nextSibling = r.nextSibling
            /\ c.siblingPrev = r.siblingPrev
            /\ c.zoneNext = r.zoneNext
        BY ONLY <4>2, r \in PoolRec, ZonePrevSet
      <4> QED BY ONLY <4>1, <4>3, <4>4 DEF RestKept
    <3> QED BY ONLY <2>2, <3>1, <3>4, <3>5, NoneApart
  <2>3. CASE A[p].zonePrev # None /\ A[p].zoneNext = None
    <3>1. A[p].zonePrev \in PoolIds \ {p} /\ A[p].zoneNext \in PoolIds \cup {None}
      BY <1>1, <1>2, <2>3 DEF PoolRec
    <3>2. B = [A EXCEPT ![A[p].zonePrev].zoneNext = A[p].zoneNext]
      BY <2>3 DEF UnlinkZone
    <3> HIDE DEF B
    <3>3. \A x \in PoolIds :
            B[x] = IF x = A[p].zonePrev THEN [A[x] EXCEPT !.zoneNext = A[p].zoneNext]
                   ELSE A[x]
      BY ONLY <1>1, <3>1, <3>2
    <3>4. B[p] = A[p]
      BY ONLY <3>1, <3>3, p \in PoolIds
    <3>5. \A x \in PoolIds :
            /\ B[x].live <=> A[x].live
            /\ B[x].zone = A[x].zone /\ B[x].parent = A[x].parent
            /\ B[x].generation = A[x].generation
            /\ B[x].freeNext = A[x].freeNext
            /\ B[x].blocks = A[x].blocks /\ B[x].bytes = A[x].bytes
            /\ B[x].nextSibling = A[x].nextSibling
            /\ B[x].siblingPrev = A[x].siblingPrev
            /\ B[x].firstChild = A[x].firstChild
            /\ B[x].zoneNext = IF x = A[p].zonePrev THEN A[p].zoneNext ELSE A[x].zoneNext
            /\ B[x].zonePrev = A[x].zonePrev
      <4> TAKE x \in PoolIds
      <4>1. PICK r \in PoolRec : r = A[x]
        BY ONLY <1>1, x \in PoolIds
      <4> DEFINE g == A[p].zoneNext
      <4> HIDE DEF g
      <4>2. PICK c : c = [r EXCEPT !.zoneNext = g]
        OBVIOUS
      <4>3. B[x] = IF x = A[p].zonePrev THEN c ELSE r
        BY ONLY <3>3, <4>1, <4>2, x \in PoolIds DEF g
      <4>4. /\ RestKept(c, r) /\ c.zoneNext = g
            /\ c.firstChild = r.firstChild
            /\ c.nextSibling = r.nextSibling
            /\ c.siblingPrev = r.siblingPrev
            /\ c.zonePrev = r.zonePrev
        BY ONLY <4>2, r \in PoolRec, ZoneNextSet
      <4> QED BY ONLY <4>1, <4>3, <4>4 DEF RestKept, g
    <3> QED BY ONLY <2>3, <3>1, <3>4, <3>5, NoneApart
  <2>4. CASE A[p].zonePrev # None /\ A[p].zoneNext # None
    <3> DEFINE C == [A EXCEPT ![A[p].zonePrev].zoneNext = A[p].zoneNext]
    <3>1. /\ C \in [PoolIds -> PoolRec] /\ C[p] = A[p]
          /\ \A x \in PoolIds :
               C[x] = IF x = A[p].zonePrev THEN [A[x] EXCEPT !.zoneNext = A[p].zoneNext]
                      ELSE A[x]
      BY <1>1, <1>2, <2>4 DEF PoolRec
    <3>2. B = [C EXCEPT ![A[p].zoneNext].zonePrev = A[p].zonePrev]
      BY <2>4 DEF UnlinkZone
    <3> HIDE DEF C, B
    <3>3. A[p].zoneNext \in PoolIds \ {p} /\ A[p].zonePrev \in PoolIds \ {p}
      BY <1>1, <1>2, <2>4 DEF PoolRec
    <3>4. \A x \in PoolIds :
            B[x] = IF x = A[p].zoneNext THEN [C[x] EXCEPT !.zonePrev = A[p].zonePrev]
                   ELSE C[x]
      BY <3>1, <3>2, <3>3
    <3>5. B[p] = A[p]
      BY <3>1, <3>3, <3>4
    <3>6. \A x \in PoolIds \ {p} :
              /\ C[x].live <=> A[x].live
              /\ C[x].zone = A[x].zone /\ C[x].parent = A[x].parent
              /\ C[x].generation = A[x].generation
              /\ C[x].freeNext = A[x].freeNext
              /\ C[x].blocks = A[x].blocks /\ C[x].bytes = A[x].bytes
              /\ C[x].zoneNext = IF x = A[p].zonePrev THEN A[p].zoneNext
                                 ELSE A[x].zoneNext
              /\ C[x].zonePrev = A[x].zonePrev
              /\ C[x].nextSibling = A[x].nextSibling
              /\ C[x].siblingPrev = A[x].siblingPrev
              /\ C[x].firstChild = A[x].firstChild
      BY <1>1, <3>1, <3>3 DEF PoolRec
    <3>7. \A x \in PoolIds \ {p} :
              /\ B[x].live <=> C[x].live
              /\ B[x].zone = C[x].zone /\ B[x].parent = C[x].parent
              /\ B[x].generation = C[x].generation
              /\ B[x].freeNext = C[x].freeNext
              /\ B[x].blocks = C[x].blocks /\ B[x].bytes = C[x].bytes
              /\ B[x].zoneNext = C[x].zoneNext
              /\ B[x].zonePrev = IF x = A[p].zoneNext THEN A[p].zonePrev
                                 ELSE C[x].zonePrev
              /\ B[x].nextSibling = C[x].nextSibling
              /\ B[x].siblingPrev = C[x].siblingPrev
              /\ B[x].firstChild = C[x].firstChild
      <4> TAKE x \in PoolIds \ {p}
      <4>1. CASE x = A[p].zoneNext
        <5>1. C[x] \in PoolRec /\ B[x] = [C[x] EXCEPT !.zonePrev = A[p].zonePrev]
          BY <3>1, <3>4, <4>1
        <5> QED BY <4>1, <5>1 DEF PoolRec
      <4>2. CASE x # A[p].zoneNext
        BY <3>4, <4>2
      <4> QED BY <4>1, <4>2
    <3> QED BY <3>5, <3>6, <3>7
  <2> QED BY <2>1, <2>2, <2>3, <2>4
<1> HIDE DEF B
<1>5. Q = FreeSelf(B, p)
  BY DEF A, B
<1>6. Q \in [PoolIds -> PoolRec]
  BY <1>3, <1>5, FreeSelfType
<1>7. ~Q[p].live /\ Q[p].generation = B[p].generation /\ Q[p].freeNext = poolFree
  BY <1>3, <1>5 DEF FreeSelf, PoolRec
<1>8. \A x \in PoolIds \ {p} : Q[x] = B[x]
  BY <1>3, <1>5 DEF FreeSelf
<1> QED BY <1>2, <1>4, <1>6, <1>7, <1>8

\* Where new_at takes its slot, and what growing the table changes.
LEMMA TakenFacts ==
  ASSUME Typed, CanTake
  PROVE  /\ TakenId \in PoolIds
         /\ WantCap \in Nat /\ WantCap > poolCap
         /\ (poolFree = None => WantCap <= TableMax)
         /\ FreeAfterTake \in PoolIds \cup {None}
         /\ Grown \in [PoolIds -> PoolRec]
         /\ \A x \in PoolIds :
              /\ Grown[x].live <=> pool[x].live
              /\ Grown[x].zone = pool[x].zone /\ Grown[x].parent = pool[x].parent
              /\ Grown[x].generation = pool[x].generation
              /\ Grown[x].blocks = pool[x].blocks /\ Grown[x].bytes = pool[x].bytes
              /\ Grown[x].zoneNext = pool[x].zoneNext
              /\ Grown[x].zonePrev = pool[x].zonePrev
              /\ Grown[x].nextSibling = pool[x].nextSibling
              /\ Grown[x].siblingPrev = pool[x].siblingPrev
              /\ Grown[x].firstChild = pool[x].firstChild
              /\ Grown[x].freeNext =
                   IF poolFree = None /\ x \in (poolCap + 1)..(WantCap - 1)
                   THEN IF x + 1 < WantCap THEN x + 1 ELSE None
                   ELSE pool[x].freeNext
<1>1. /\ WantCap \in Nat /\ WantCap > poolCap
      /\ poolFree = None => WantCap <= TableMax
      /\ poolCap \in Nat
  BY PoolsAssumption DEF Typed, CanTake, WantCap
<1> HIDE DEF WantCap
<1>2. TakenId \in PoolIds
  BY <1>1, PoolsAssumption, NoneApart DEF TakenId, PoolIds, Typed
<1>3. FreeAfterTake \in PoolIds \cup {None}
  <2>1. CASE poolFree # None
    BY <2>1 DEF FreeAfterTake, Typed, PoolRec
  <2>2. CASE poolFree = None
    BY <1>1, <2>2, PoolsAssumption DEF FreeAfterTake, Typed, PoolIds
  <2> QED BY <2>1, <2>2
<1>4. CASE poolFree # None
  BY <1>1, <1>2, <1>3, <1>4 DEF Grown, Typed
<1>5. CASE poolFree = None
  <2> DEFINE nx(x) == IF x + 1 < WantCap THEN x + 1 ELSE None
             more == (poolCap + 1)..(WantCap - 1)
  <2>1. \A x \in PoolIds : x \in more => nx(x) \in PoolIds \cup {None}
    BY <1>1, <1>5, PoolsAssumption DEF PoolIds
  <2>2. Grown = [x \in PoolIds |-> IF x \in more THEN [pool[x] EXCEPT !.freeNext = nx(x)]
                                   ELSE pool[x]]
    BY <1>5 DEF Grown
  <2>3. more = (poolCap + 1)..(WantCap - 1) /\ \A x : nx(x) = IF x + 1 < WantCap THEN x + 1 ELSE None
    OBVIOUS
  <2> HIDE DEF nx, more
  <2>4. \A x \in PoolIds :
          /\ x \in more => Grown[x] = [pool[x] EXCEPT !.freeNext = nx(x)]
          /\ x \notin more => Grown[x] = pool[x]
    BY <2>2
  <2>5. ASSUME NEW x \in PoolIds
        PROVE  /\ Grown[x] \in PoolRec
               /\ Grown[x].live <=> pool[x].live
               /\ Grown[x].zone = pool[x].zone /\ Grown[x].parent = pool[x].parent
               /\ Grown[x].generation = pool[x].generation
               /\ Grown[x].blocks = pool[x].blocks /\ Grown[x].bytes = pool[x].bytes
               /\ Grown[x].zoneNext = pool[x].zoneNext
               /\ Grown[x].zonePrev = pool[x].zonePrev
               /\ Grown[x].nextSibling = pool[x].nextSibling
               /\ Grown[x].siblingPrev = pool[x].siblingPrev
               /\ Grown[x].firstChild = pool[x].firstChild
               /\ Grown[x].freeNext = IF x \in more THEN nx(x) ELSE pool[x].freeNext
    <3>1. pool[x] \in PoolRec
      BY DEF Typed
    <3>2. CASE x \in more
      <4>1. PICK g \in PoolIds \cup {None} : g = nx(x)
        BY <2>1, <3>2
      <4>2. Grown[x] = [pool[x] EXCEPT !.freeNext = g]
        BY <2>4, <3>2, <4>1
      <4> QED BY <3>1, <3>2, <4>1, <4>2 DEF PoolRec
    <3>3. CASE x \notin more
      BY <2>4, <3>1, <3>3
    <3> QED BY <3>2, <3>3
  <2>8. Grown \in [PoolIds -> PoolRec]
    <3>1. Grown = [x \in PoolIds |-> Grown[x]]
      BY <2>2
    <3> QED BY <2>5, <3>1
  <2> QED BY <1>1, <1>2, <1>3, <1>5, <2>3, <2>5, <2>8
<1> QED BY <1>4, <1>5

LEMMA NewPoolType == NewPool \in PoolRec
<1>1. PICK b \in BOOLEAN : b = FALSE
  OBVIOUS
<1>2. [generation |-> 0, parent |-> None, zone |-> None,
       firstChild |-> None, nextSibling |-> None, siblingPrev |-> None,
       zoneNext |-> None, zonePrev |-> None, freeNext |-> None,
       live |-> b, color |-> 0, blocks |-> {}, bytes |-> 0] \in PoolRec
  BY DEF PoolRec
<1> QED BY <1>1, <1>2 DEF NewPool

\* What extc_pool_new_at does: the record of the new pool, and the two heads
\* that get it as their predecessor.
LEMMA BornFields ==
  ASSUME Typed, CanTake, NEW z \in ZoneIds, NEW q \in PoolIds \cup {None},
         ~pool[TakenId].live,
         q # TakenId, zone[z].firstPool # TakenId,
         q # None => pool[q].firstChild # TakenId,
         NEW p, p = TakenId, NEW Q, Q = Born(q, z),
         NEW old, old = IF q = None THEN None ELSE pool[q].firstChild
  PROVE  /\ Q \in [PoolIds -> PoolRec]
         /\ Q[p].live /\ Q[p].generation = pool[p].generation + 1
         /\ Q[p].zone = z /\ Q[p].parent = q /\ Q[p].firstChild = None
         /\ Q[p].zoneNext = zone[z].firstPool /\ Q[p].zonePrev = None
         /\ Q[p].nextSibling = old /\ Q[p].siblingPrev = None
         /\ Q[p].blocks = {} /\ Q[p].bytes = 0
         /\ Q[p].freeNext = pool[p].freeNext
         /\ \A x \in PoolIds \ {p} :
              /\ Q[x].live <=> pool[x].live
              /\ Q[x].zone = pool[x].zone /\ Q[x].parent = pool[x].parent
              /\ Q[x].generation = pool[x].generation
              /\ Q[x].freeNext = Grown[x].freeNext
              /\ Q[x].blocks = pool[x].blocks /\ Q[x].bytes = pool[x].bytes
              /\ Q[x].zoneNext = pool[x].zoneNext
              /\ Q[x].zonePrev = IF x = zone[z].firstPool THEN p ELSE pool[x].zonePrev
              /\ Q[x].nextSibling = pool[x].nextSibling
              /\ Q[x].siblingPrev = IF x = old THEN p ELSE pool[x].siblingPrev
              /\ Q[x].firstChild = IF x = q THEN p ELSE pool[x].firstChild
<1>1. p \in PoolIds /\ Grown \in [PoolIds -> PoolRec]
  BY TakenFacts
<1> DEFINE fresh == [NewPool EXCEPT !.generation = pool[p].generation + 1,
                               !.parent = q, !.zone = z, !.live = TRUE,
                               !.color = zone[z].color,
                               !.freeNext = pool[p].freeNext]
           G == [Grown EXCEPT ![p] = fresh]
           L == LinkZone(G, p, z)
<1>2. /\ fresh \in PoolRec
      /\ fresh.live /\ fresh.generation = pool[p].generation + 1
      /\ fresh.zone = z /\ fresh.parent = q /\ fresh.firstChild = None
      /\ fresh.zoneNext = None /\ fresh.zonePrev = None
      /\ fresh.nextSibling = None /\ fresh.siblingPrev = None
      /\ fresh.blocks = {} /\ fresh.bytes = 0
      /\ fresh.freeNext = pool[p].freeNext
  <2>1. PICK b \in BOOLEAN, g \in Nat, f \in PoolIds \cup {None}, c \in Nat :
          /\ b = TRUE /\ g = pool[p].generation + 1 /\ f = pool[p].freeNext
          /\ c = zone[z].color
    <3>1. pool[p].generation + 1 \in Nat /\ pool[p].freeNext \in PoolIds \cup {None}
          /\ zone[z].color \in Nat
      BY <1>1 DEF Typed, PoolRec, ZoneRec
    <3> QED BY <3>1
  <2>2. fresh = [NewPool EXCEPT !.generation = g, !.parent = q, !.zone = z, !.live = b,
                                !.color = c, !.freeNext = f]
    BY <2>1
  <2>3. PICK u \in PoolRec : u = NewPool
    BY NewPoolType
  <2>4. PICK v \in PoolRec : v = [u EXCEPT !.generation = g, !.parent = q, !.zone = z]
    <3>1. z \in ZoneIds \cup {None}
      OBVIOUS
    <3> QED BY <3>1 DEF PoolRec
  <2>5. PICK w \in PoolRec : w = [v EXCEPT !.live = b]
    BY LiveSet
  <2>6. fresh = [w EXCEPT !.color = c, !.freeNext = f]
    BY <2>2, <2>3, <2>4, <2>5
  <2>7. /\ u.firstChild = None /\ u.zoneNext = None /\ u.zonePrev = None
        /\ u.nextSibling = None /\ u.siblingPrev = None
        /\ u.blocks = {} /\ u.bytes = 0
    BY <2>3 DEF NewPool
  <2>8. /\ w.live /\ w.generation = g /\ w.zone = z /\ w.parent = q
        /\ w.firstChild = None /\ w.zoneNext = None /\ w.zonePrev = None
        /\ w.nextSibling = None /\ w.siblingPrev = None
        /\ w.blocks = {} /\ w.bytes = 0
    BY <2>1, <2>4, <2>5, <2>7 DEF PoolRec
  <2> HIDE DEF fresh
  <2> QED BY <2>1, <2>6, <2>8 DEF PoolRec
<1> HIDE DEF fresh
<1>3. /\ G \in [PoolIds -> PoolRec] /\ G[p] = fresh
      /\ \A x \in PoolIds \ {p} : G[x] = Grown[x]
  BY <1>1, <1>2
<1> HIDE DEF G
<1>4. zone[z].firstPool \in (PoolIds \cup {None}) \ {p}
  BY DEF Typed, ZoneRec
<1>5. /\ L \in [PoolIds -> PoolRec]
      /\ L[p] = [G[p] EXCEPT !.zoneNext = zone[z].firstPool]
      /\ \A x \in PoolIds \ {p} :
           L[x] = IF x = zone[z].firstPool THEN [G[x] EXCEPT !.zonePrev = p] ELSE G[x]
  <2>1. CASE zone[z].firstPool = None
    BY <1>1, <1>3, <1>4, <2>1, NoneApart DEF LinkZone, PoolRec
  <2>2. CASE zone[z].firstPool # None
    BY <1>1, <1>3, <1>4, <2>2, NoneApart DEF LinkZone, PoolRec
  <2> QED BY <2>1, <2>2
<1>6. Q = LinkParent(L, p, q)
  BY DEF Born, L, G, fresh
<1> HIDE DEF L
<1>7. \A x \in PoolIds \ {p} : L[x].firstChild = pool[x].firstChild
  BY <1>3, <1>5, TakenFacts DEF PoolRec
<1>8. old \in (PoolIds \cup {None}) \ {p}
  BY DEF Typed, PoolRec
<1>9. /\ Q \in [PoolIds -> PoolRec]
      /\ Q[p] = [L[p] EXCEPT !.nextSibling = old]
      /\ \A x \in PoolIds \ {p} :
           LET y == IF x = q THEN [L[x] EXCEPT !.firstChild = p] ELSE L[x]
           IN Q[x] = IF x = old THEN [y EXCEPT !.siblingPrev = p] ELSE y
  <2>1. CASE q = None
    <3>1. L[p].nextSibling = None
      BY <1>1, <1>2, <1>3, <1>5 DEF PoolRec
    <3>2. L[p] = [L[p] EXCEPT !.nextSibling = None]
      BY <1>1, <1>5, <3>1 DEF PoolRec
    <3> QED BY <1>1, <1>5, <1>6, <2>1, <3>2, NoneApart DEF LinkParent
  <2>2. CASE q # None
    <3>1. q \in PoolIds \ {p} /\ L[q].firstChild = old
      BY <1>7, <2>2
    <3> DEFINE K == [L EXCEPT ![p].nextSibling = old]
               M == [K EXCEPT ![q].firstChild = p]
    <3>2. /\ K \in [PoolIds -> PoolRec]
          /\ K[p] = [L[p] EXCEPT !.nextSibling = old]
          /\ \A x \in PoolIds \ {p} : K[x] = L[x]
      BY <1>1, <1>5, <1>8, LinkSet
    <3>3. LinkParent(L, p, q) =
            IF old # None THEN [M EXCEPT ![old].siblingPrev = p] ELSE M
      BY <2>2, <3>1 DEF LinkParent
    <3> HIDE DEF K
    <3>4. /\ M \in [PoolIds -> PoolRec] /\ M[p] = K[p]
          /\ \A x \in PoolIds \ {p} :
               M[x] = IF x = q THEN [L[x] EXCEPT !.firstChild = p] ELSE L[x]
      BY ZenonT(30), <1>1, <3>1, <3>2, LinkSet
    <3> HIDE DEF M
    <3>5. CASE old = None
      BY <1>6, <3>2, <3>3, <3>4, <3>5, NoneApart
    <3>6. CASE old # None
      <4>1. Q = [M EXCEPT ![old].siblingPrev = p] /\ old \in PoolIds \ {p}
        BY <1>6, <1>8, <3>3, <3>6
      <4>2. Q \in [PoolIds -> PoolRec]
        <5>1. M \in [PoolIds -> PoolRec] /\ old \in PoolIds /\ p \in PoolIds \cup {None}
          BY <1>1, <3>4, <4>1
        <5>2. [M EXCEPT ![old].siblingPrev = p] \in [PoolIds -> PoolRec]
          BY ONLY <5>1, LinkSet
        <5> QED BY <4>1, <5>2
      <4>3. Q[p] = K[p]
        BY <1>1, <3>4, <4>1
      <4>4. \A x \in PoolIds \ {p} :
              Q[x] = IF x = old THEN [M[x] EXCEPT !.siblingPrev = p] ELSE M[x]
        BY <3>4, <4>1
      <4> QED BY <3>2, <3>4, <4>2, <4>3, <4>4
    <3> QED BY <3>5, <3>6
  <2> QED BY <2>1, <2>2
<1>10. /\ Q[p].live /\ Q[p].generation = pool[p].generation + 1
       /\ Q[p].zone = z /\ Q[p].parent = q /\ Q[p].firstChild = None
       /\ Q[p].zoneNext = zone[z].firstPool /\ Q[p].zonePrev = None
       /\ Q[p].nextSibling = old /\ Q[p].siblingPrev = None
       /\ Q[p].blocks = {} /\ Q[p].bytes = 0
       /\ Q[p].freeNext = pool[p].freeNext
  BY <1>1, <1>2, <1>3, <1>5, <1>9 DEF PoolRec
<1>11. \A x \in PoolIds \ {p} :
              /\ L[x].live <=> pool[x].live
              /\ L[x].zone = pool[x].zone /\ L[x].parent = pool[x].parent
              /\ L[x].generation = pool[x].generation
              /\ L[x].freeNext = Grown[x].freeNext
              /\ L[x].blocks = pool[x].blocks /\ L[x].bytes = pool[x].bytes
              /\ L[x].zoneNext = pool[x].zoneNext
              /\ L[x].zonePrev = IF x = zone[z].firstPool THEN p ELSE pool[x].zonePrev
              /\ L[x].nextSibling = pool[x].nextSibling
              /\ L[x].siblingPrev = pool[x].siblingPrev
              /\ L[x].firstChild = pool[x].firstChild
  BY <1>3, <1>5, TakenFacts DEF PoolRec
<1>12. ASSUME NEW x \in PoolIds \ {p}
       PROVE  /\ Q[x].live <=> L[x].live
              /\ Q[x].zone = L[x].zone /\ Q[x].parent = L[x].parent
              /\ Q[x].generation = L[x].generation
              /\ Q[x].freeNext = L[x].freeNext
              /\ Q[x].blocks = L[x].blocks /\ Q[x].bytes = L[x].bytes
              /\ Q[x].zoneNext = L[x].zoneNext
              /\ Q[x].zonePrev = L[x].zonePrev
              /\ Q[x].nextSibling = L[x].nextSibling
              /\ Q[x].siblingPrev = IF x = old THEN p ELSE L[x].siblingPrev
              /\ Q[x].firstChild = IF x = q THEN p ELSE L[x].firstChild
  <2>1. L[x] \in PoolRec
    BY <1>5
  <2>2. PICK y \in PoolRec : y = IF x = q THEN [L[x] EXCEPT !.firstChild = p] ELSE L[x]
    BY <1>1, <2>1 DEF PoolRec
  <2>3. Q[x] = IF x = old THEN [y EXCEPT !.siblingPrev = p] ELSE y
    BY <1>9, <2>2
  <2> QED BY <2>1, <2>2, <2>3 DEF PoolRec
<1> QED BY <1>9, <1>10, <1>11, <1>12

-----------------------------------------------------------------------------
(***************************************************************************)
(* Frames of the runtime's calls.                                          *)
(***************************************************************************)
LEMMA PushedSeq ==
  ASSUME NEW s \in Seq(FrameRec), NEW a \in FrameRec, NEW t, t = <<a>> \o s
  PROVE  /\ t \in Seq(FrameRec) /\ Len(t) = Len(s) + 1 /\ Len(s) \in Nat
         /\ t[1] = a /\ \A i \in 2..Len(t) : t[i] = s[i - 1]
<1>1. <<a>> \in Seq(FrameRec) /\ Len(<<a>>) = 1 /\ <<a>>[1] = a /\ Len(s) \in Nat
  OBVIOUS
<1> QED BY <1>1, ConcatProperties

LEMMA PoppedSeq ==
  ASSUME NEW s \in Seq(FrameRec), s # <<>>, NEW t, t = Tail(s)
  PROVE  /\ t \in Seq(FrameRec) /\ Len(t) = Len(s) - 1
         /\ Len(s) \in Nat /\ Len(s) > 0 /\ s[1] \in FrameRec
         /\ \A i \in 1..Len(t) : t[i] = s[i + 1]
<1>1. Len(s) \in Nat /\ Len(s) > 0
  BY EmptySeq, LenProperties
<1>2. s[1] \in FrameRec
  BY <1>1, ElementOfSeq
<1> QED BY <1>1, <1>2, HeadTailProperties

\* The frame a call starts with.
LEMMA FrameFacts ==
  ASSUME NEW fn \in {"leaveTo", "popTo", "release", "call", "drop", "reset"},
         NEW id \in Int, NEW next \in Int
  PROVE  \E f \in FrameRec : /\ Frame(fn, id, next) = <<f>>
                             /\ f.fn = fn /\ f.id = id /\ f.next = next
<1>1. [fn |-> fn, id |-> id, next |-> next] \in FrameRec
  BY DEF FrameRec
<1> QED BY <1>1 DEF Frame

-----------------------------------------------------------------------------
(***************************************************************************)
(* Steps that leave the links alone.                                       *)
(***************************************************************************)
SameLinks ==
  \A x \in PoolIds :
    /\ pool'[x].live <=> pool[x].live
    /\ pool'[x].zone = pool[x].zone /\ pool'[x].parent = pool[x].parent
    /\ pool'[x].zoneNext = pool[x].zoneNext /\ pool'[x].zonePrev = pool[x].zonePrev
    /\ pool'[x].nextSibling = pool[x].nextSibling
    /\ pool'[x].siblingPrev = pool[x].siblingPrev
    /\ pool'[x].firstChild = pool[x].firstChild

SameHeads ==
  \A z \in ZoneIds : /\ zone'[z].live <=> zone[z].live
                     /\ zone'[z].firstPool = zone[z].firstPool

LEMMA LinksKept ==
  ASSUME Typed, PlaceLinks, ChildLinks, SameLinks, SameHeads
  PROVE  PlaceLinks' /\ ChildLinks'
<1>0. \A x \in PoolIds : pool[x] \in PoolRec
  BY DEF Typed
<1>00. \A z \in ZoneIds : zone[z].firstPool \in PoolIds \cup {None}
  BY DEF Typed, ZoneRec
<1>1. \A x \in PoolIds :
        /\ pool[x].zone \in ZoneIds \cup {None} /\ pool[x].parent \in PoolIds \cup {None}
        /\ pool[x].zoneNext \in PoolIds \cup {None}
        /\ pool[x].zonePrev \in PoolIds \cup {None}
        /\ pool[x].nextSibling \in PoolIds \cup {None}
        /\ pool[x].siblingPrev \in PoolIds \cup {None}
        /\ pool[x].firstChild \in PoolIds \cup {None}
  BY <1>0 DEF PoolRec
<1>2. PlaceLinks'
  BY <1>00, <1>1 DEF PlaceLinks, SameLinks, SameHeads, LivePools
<1>3. ChildLinks'
  BY <1>1 DEF ChildLinks, SameLinks, LivePools
<1> QED BY <1>2, <1>3

LEMMA OrderKept ==
  ASSUME Typed, SameLinks, NEW r, NEW m, LinkOrder(r, m)
  PROVE  LinkOrder(r, m)'
  BY DEF LinkOrder, SameLinks, LivePools

LEMMA SameTables ==
  /\ UNCHANGED pool => SameLinks
  /\ UNCHANGED zone => SameHeads
  BY DEF SameLinks, SameHeads

-----------------------------------------------------------------------------
(***************************************************************************)
(* Steps of the runtime's calls that only move frames.                     *)
(***************************************************************************)
LEMMA FrameTypes ==
  ASSUME Typed
  PROVE  /\ Depth \in Nat /\ (rt # <<>> <=> Depth > 0)
         /\ \A i \in 1..Depth :
              /\ rt[i] \in FrameRec
              /\ rt[i].fn \in {"leaveTo", "popTo", "release", "call", "drop", "reset"}
              /\ rt[i].id \in Int /\ rt[i].next \in Int
<1>1. Depth \in Nat /\ (rt # <<>> <=> Depth > 0)
  BY LenProperties, EmptySeq DEF Typed, Depth
<1>2. \A i \in 1..Depth : rt[i] \in FrameRec
  BY ElementOfSeq DEF Typed, Depth
<1> QED BY <1>1, <1>2 DEF FrameRec

\* A frame is pushed, the topmost one is popped.
LEMMA PushFrame ==
  ASSUME Typed, NEW f \in FrameRec, NEW t, t = <<f>> \o rt
  PROVE  /\ t \in Seq(FrameRec) /\ Len(t) = Depth + 1
         /\ t[1] = f /\ \A i \in 1..Depth : t[i + 1] = rt[i]
<1>1. rt \in Seq(FrameRec)
  BY DEF Typed
<1>2. /\ t \in Seq(FrameRec) /\ Len(t) = Len(rt) + 1 /\ Len(rt) \in Nat
      /\ t[1] = f /\ \A i \in 2..Len(t) : t[i] = rt[i - 1]
  BY <1>1, PushedSeq
<1> QED BY <1>2 DEF Depth

LEMMA PopFrame ==
  ASSUME Typed, rt # <<>>, NEW t, t = Tail(rt)
  PROVE  /\ t \in Seq(FrameRec) /\ Len(t) = Depth - 1
         /\ \A i \in 1..(Depth - 1) : t[i] = rt[i + 1]
<1>1. rt \in Seq(FrameRec)
  BY DEF Typed
<1> QED BY <1>1, PoppedSeq DEF Depth

\* The topmost frame is replaced.
LEMMA SwapFrame ==
  ASSUME Typed, rt # <<>>, NEW f \in FrameRec, NEW t, t = <<f>> \o Tail(rt)
  PROVE  /\ t \in Seq(FrameRec) /\ Len(t) = Depth
         /\ t[1] = f /\ \A i \in 2..Depth : t[i] = rt[i]
<1>1. PICK s : s = Tail(rt)
  OBVIOUS
<1>2. /\ s \in Seq(FrameRec) /\ Len(s) = Depth - 1 /\ Depth \in Nat
      /\ \A i \in 1..(Depth - 1) : s[i] = rt[i + 1]
  BY <1>1, PopFrame, FrameTypes
<1>3. s \in Seq(FrameRec) /\ t = <<f>> \o s
  BY <1>1, <1>2
<1>4. /\ t \in Seq(FrameRec) /\ Len(t) = Len(s) + 1 /\ Len(s) \in Nat
      /\ t[1] = f /\ \A i \in 2..Len(t) : t[i] = s[i - 1]
  BY ONLY <1>3, f \in FrameRec, PushedSeq
<1>5. ASSUME NEW i \in 2..Depth
      PROVE  t[i] = rt[i]
  <2>1. i \in 2..Len(t) /\ i - 1 \in 1..(Depth - 1) /\ (i - 1) + 1 = i
    BY <1>2, <1>4
  <2> QED BY <1>2, <1>4, <2>1
<1> QED BY <1>2, <1>4, <1>5

LEMMA LinkTypes ==
  ASSUME Typed, NEW x \in PoolIds
  PROVE  /\ pool[x] \in PoolRec
         /\ pool[x].zone \in ZoneIds \cup {None} /\ pool[x].parent \in PoolIds \cup {None}
         /\ pool[x].zoneNext \in PoolIds \cup {None}
         /\ pool[x].zonePrev \in PoolIds \cup {None}
         /\ pool[x].nextSibling \in PoolIds \cup {None}
         /\ pool[x].siblingPrev \in PoolIds \cup {None}
         /\ pool[x].firstChild \in PoolIds \cup {None}
         /\ pool[x].freeNext \in PoolIds \cup {None}
         /\ pool[x].generation \in Nat
<1>1. pool[x] \in PoolRec
  BY DEF Typed
<1> QED BY <1>1 DEF PoolRec

LEMMA PlaceTypes ==
  ASSUME Typed, NEW z \in ZoneIds
  PROVE  /\ zone[z] \in ZoneRec
         /\ zone[z].firstPool \in PoolIds \cup {None}
         /\ zone[z].parent \in ZoneIds \cup {None}
         /\ zone[z].color \in Nat /\ zone[z].depth \in Nat
<1>1. zone[z] \in ZoneRec
  BY DEF Typed
<1> QED BY <1>1 DEF ZoneRec

\* The parts of the invariant a step leaves alone when it changes no table.
LEMMA TablesKept ==
  ASSUME Typed, ChainInv, UNCHANGED <<poolVars, zone, zoneN, zoneFree>>,
         Shape', Saved',
         \A r \in [PoolIds -> Nat] : FrameOrder(r) /\ (\E m \in Nat : LinkOrder(r, m)) => FrameOrder(r)'
  PROVE  ChainInv'
<1>1. PlaceLinks' /\ ChildLinks' /\ SameLinks
  BY LinksKept, SameTables DEF ChainInv, poolVars
<1>2. PlacesFree'
  BY DEF ChainInv, PlacesFree, poolVars
<1>3. Ordered'
  <2>1. PICK r \in [PoolIds -> Nat], m \in Nat : LinkOrder(r, m) /\ FrameOrder(r)
    BY DEF ChainInv, Ordered
  <2>2. LinkOrder(r, m)' /\ FrameOrder(r)'
    BY <1>1, <2>1, OrderKept
  <2> QED BY <2>2 DEF Ordered
<1> QED BY <1>1, <1>2, <1>3 DEF ChainInv

\* The frames of leaving and releasing places stay as they are.
Matched ==
  /\ \A j \in 1..Depth' : rt'[j].fn \in {"leaveTo", "popTo", "release"} =>
       \E i \in 1..Depth :
         /\ rt[i].fn = rt'[j].fn /\ rt[i].id = rt'[j].id
         /\ rt[i].fn = "popTo" => rt[i].next = rt'[j].next
         /\ j < Depth' => i < Depth
  /\ Depth' = 0 \/ rt'[Depth'].fn \notin {"leaveTo", "popTo"} =>
       Depth = 0 \/ rt[Depth].fn \notin {"leaveTo", "popTo"}

\* The entry of extc_pool_drop: its pool lives.
LEMMA DropEnterStep ==
  ASSUME Typed, ChainInv, DropEnter
  PROVE  Typed' /\ ChainInv' /\ Matched
<1>1. /\ rt # <<>> /\ rt[1].fn = "call"
      /\ UNCHANGED <<poolVars, zoneVars, memVars, tasks, calls, halted>>
  BY DEF DropEnter, InCall, Top
<1>2. Depth \in Nat /\ Depth > 0
  BY <1>1, FrameTypes
<1>3. ShapeAt(1)
  BY <1>2 DEF ChainInv, Shape
<1>4. rt[1].id \in PoolIds /\ pool[rt[1].id].live
  BY <1>1, <1>2, <1>3 DEF ShapeAt, ChainInv, Saved, SavedAt
<1>5. PICK p \in PoolIds : p = rt[1].id
  BY <1>4
<1>6. PICK n \in PoolIds \cup {None} : n = pool[p].firstChild
  BY LinkTypes
<1>7. rt' = Frame("drop", p, n) \o Tail(rt)
  BY <1>4, <1>5, <1>6 DEF DropEnter, Top
<1>8. p \in Int /\ n \in Int
  BY NoneApart
<1>9. PICK f \in FrameRec : /\ Frame("drop", p, n) = <<f>>
                           /\ f.fn = "drop" /\ f.id = p /\ f.next = n
  BY <1>8, FrameFacts
<1>10. /\ rt' \in Seq(FrameRec) /\ Depth' = Depth /\ rt'[1] = f
       /\ \A i \in 2..Depth' : rt'[i] = rt[i]
  <2>1. rt' = <<f>> \o Tail(rt)
    BY <1>7, <1>9
  <2>2. PICK t : t = rt'
    OBVIOUS
  <2>3. /\ t \in Seq(FrameRec) /\ Len(t) = Depth
        /\ t[1] = f /\ \A i \in 2..Depth : t[i] = rt[i]
    <3>1. rt # <<>> /\ t = <<f>> \o Tail(rt)
      BY <1>1, <2>1, <2>2
    <3> QED BY ONLY ZenonT(30), Typed, <3>1, f \in FrameRec, SwapFrame
  <2>4. Depth' = Len(t)
    BY ONLY <2>2 DEF Depth
  <2> QED BY ONLY <2>2, <2>3, <2>4
<1>11. Typed'
  BY <1>1, <1>10 DEF Typed, poolVars, zoneVars, memVars
<1>12. Shape'
  <2> SUFFICES ASSUME NEW i \in 1..Depth'
               PROVE  ShapeAt(i)'
    BY DEF Shape
  <2>1. ShapeAt(i) /\ i \in 1..Depth
    BY <1>10 DEF ChainInv, Shape
  <2>2. CASE i = 1
    BY <1>1, <1>2, <1>3, <1>9, <1>10, <2>2 DEF ShapeAt
  <2>3. CASE i = 2
    BY <1>1, <1>2, <1>5, <1>9, <1>10, <2>1, <2>3 DEF ShapeAt
  <2>4. CASE i > 2
    <3>1. /\ rt'[i] = rt[i] /\ rt'[i - 1] = rt[i - 1] /\ Depth' = Depth
          /\ i < Depth => rt'[i + 1] = rt[i + 1]
          /\ i # 1
      BY <1>2, <1>10, <2>1, <2>4
    <3> QED BY <1>2, <2>1, <3>1 DEF ShapeAt
  <2> QED BY <1>10, <2>2, <2>3, <2>4
<1>13. Saved'
  BY <1>1, <1>2, <1>4, <1>5, <1>6, <1>9, <1>10 DEF ChainInv, Saved, SavedAt, poolVars, zoneVars
<1>14. \A r \in [PoolIds -> Nat] : FrameOrder(r) => FrameOrder(r)'
  <2> SUFFICES ASSUME NEW r \in [PoolIds -> Nat], FrameOrder(r),
                      NEW i \in 1..Depth', NEW j \in 1..Depth', i < j,
                      rt'[i].fn \in {"call", "drop"}, rt'[j].fn \in {"drop", "reset"}
               PROVE  r[rt'[j].id] < r[rt'[i].id]
    BY DEF FrameOrder
  <2>1. rt'[j] = rt[j] /\ rt'[i].id = rt[i].id /\ rt[i].fn \in {"call", "drop"}
    BY <1>1, <1>2, <1>5, <1>9, <1>10
  <2> QED BY <1>10, <2>1 DEF FrameOrder
<1>15. Matched
  <2>1. ASSUME NEW j \in 1..Depth', rt'[j].fn \in {"leaveTo", "popTo", "release"}
        PROVE  j \in 1..Depth /\ rt[j] = rt'[j] /\ (j < Depth' => j < Depth)
    BY <1>2, <1>9, <1>10, <2>1
  <2>2. Depth' # 0 /\ (rt'[Depth'].fn \notin {"leaveTo", "popTo"} =>
                         rt[Depth].fn \notin {"leaveTo", "popTo"})
    BY <1>1, <1>2, <1>9, <1>10
  <2> QED BY <2>1, <2>2 DEF Matched
<1> QED BY <1>1, <1>11, <1>12, <1>13, <1>14, <1>15, TablesKept DEF zoneVars

LEMMA MovedFrame ==
  ASSUME NEW h \in FrameRec, NEW n \in Int
  PROVE  \E g \in FrameRec : /\ g = [h EXCEPT !.next = n]
                             /\ g.fn = h.fn /\ g.id = h.id /\ g.next = n
<1>1. [h EXCEPT !.next = n] \in FrameRec
  BY DEF FrameRec
<1>2. /\ [h EXCEPT !.next = n].fn = h.fn /\ [h EXCEPT !.next = n].id = h.id
      /\ [h EXCEPT !.next = n].next = n
  BY DEF FrameRec
<1> QED BY <1>1, <1>2

\* A loop saves the next link and calls extc_pool_drop.
CallPushed(c, n) ==
  /\ Depth' = Depth + 1 /\ Depth \in Nat /\ Depth > 0
  /\ rt'[1].fn = "call" /\ rt'[1].id = c
  /\ rt'[2].fn = rt[1].fn /\ rt'[2].id = rt[1].id /\ rt'[2].next = n
  /\ \A i \in 2..Depth : rt'[i + 1] = rt[i]

LEMMA PushCall ==
  ASSUME Typed, rt # <<>>, NEW c \in PoolIds, NEW n \in PoolIds \cup {None},
         rt' = Frame("call", c, None) \o Moves(n)
  PROVE  rt' \in Seq(FrameRec) /\ CallPushed(c, n)
<1>1. Depth \in Nat /\ Depth > 0 /\ rt[1] \in FrameRec
  BY FrameTypes
<1>2. c \in Int /\ n \in Int /\ None \in Int
  BY NoneApart
<1>3. PICK f \in FrameRec : Frame("call", c, None) = <<f>> /\ f.fn = "call" /\ f.id = c
  BY <1>2, FrameFacts
<1>4. PICK g \in FrameRec : /\ g = [rt[1] EXCEPT !.next = n]
                            /\ g.fn = rt[1].fn /\ g.id = rt[1].id /\ g.next = n
  BY <1>1, <1>2, MovedFrame
<1>5. PICK m : m = <<g>> \o Tail(rt)
  OBVIOUS
<1>6. rt' = <<f>> \o m
  BY <1>3, <1>4, <1>5 DEF Moves, Top
<1>7. /\ m \in Seq(FrameRec) /\ Len(m) = Depth /\ m[1] = g
      /\ \A i \in 2..Depth : m[i] = rt[i]
  BY ZenonT(30), <1>5, SwapFrame
<1>8. /\ rt' \in Seq(FrameRec) /\ Depth' = Len(m) + 1 /\ rt'[1] = f
      /\ \A i \in 2..Depth' : rt'[i] = m[i - 1]
  <2>1. m \in Seq(FrameRec)
    BY <1>7
  <2> QED BY ONLY <1>6, <2>1, f \in FrameRec, PushedSeq DEF Depth
<1>9. Depth' = Depth + 1 /\ rt'[1] = f /\ rt'[2] = g
  <2>1. 2 \in 2..Depth' /\ Depth' = Depth + 1
    BY ONLY <1>1, <1>7, <1>8
  <2>2. rt'[2] = m[2 - 1]
    BY ONLY <1>8, <2>1
  <2> QED BY ONLY <1>7, <1>8, <2>1, <2>2
<1>10. ASSUME NEW i \in 2..Depth
       PROVE  rt'[i + 1] = rt[i]
  <2>1. i + 1 \in 2..Depth' /\ (i + 1) - 1 = i
    BY <1>1, <1>9
  <2> QED BY <1>7, <1>8, <2>1
<1> QED BY ONLY <1>1, <1>3, <1>4, <1>8, <1>9, <1>10 DEF CallPushed

\* Both loops push a call on a frame that is neither a call nor an unwinding.
LEMMA PushCallShape ==
  ASSUME Shape, rt[1].fn \in {"drop", "reset", "release"},
         NEW c \in PoolIds, NEW n \in PoolIds \cup {None}, CallPushed(c, n)
  PROVE  Shape'
<1>1. /\ Depth' = Depth + 1 /\ Depth \in Nat /\ Depth > 0
      /\ rt'[1].fn = "call" /\ rt'[1].id = c
      /\ rt'[2].fn = rt[1].fn /\ rt'[2].id = rt[1].id /\ rt'[2].next = n
      /\ \A i \in 2..Depth : rt'[i + 1] = rt[i]
  BY DEF CallPushed
<1> SUFFICES ASSUME NEW i \in 1..Depth'
             PROVE  ShapeAt(i)'
  BY DEF Shape
<1>2. CASE i = 1
  BY <1>1, <1>2 DEF ShapeAt
<1>3. CASE i = 2
  <2>1. ShapeAt(1) /\ (Depth > 1 => rt'[3] = rt[2])
    BY <1>1 DEF Shape
  <2>2. ShapeAt(2)'
    BY <1>1, <2>1 DEF ShapeAt
  <2> QED BY <1>3, <2>2
<1>4. CASE i > 2
  <2>1. PICK k \in 2..Depth : i = k + 1
    BY <1>1, <1>4
  <2>2. /\ ShapeAt(k) /\ rt'[i] = rt[k]
        /\ rt'[i - 1].fn = rt[k - 1].fn /\ rt'[i - 1].id = rt[k - 1].id
        /\ k < Depth => rt'[i + 1] = rt[k + 1]
    BY <1>1, <2>1 DEF Shape
  <2> QED BY <1>1, <2>1, <2>2 DEF ShapeAt
<1> QED BY <1>1, <1>2, <1>3, <1>4

LEMMA PushCallMatched ==
  ASSUME rt[1].fn \in {"drop", "reset", "release"}, NEW c, NEW n, CallPushed(c, n)
  PROVE  Matched
<1>1. /\ Depth' = Depth + 1 /\ Depth \in Nat /\ Depth > 0
      /\ rt'[1].fn = "call"
      /\ rt'[2].fn = rt[1].fn /\ rt'[2].id = rt[1].id /\ rt'[2].next = n
      /\ \A i \in 2..Depth : rt'[i + 1] = rt[i]
  BY DEF CallPushed
<1>2. ASSUME NEW j \in 1..Depth', rt'[j].fn \in {"leaveTo", "popTo", "release"}
      PROVE  \E i \in 1..Depth :
               /\ rt[i].fn = rt'[j].fn /\ rt[i].id = rt'[j].id
               /\ rt[i].fn = "popTo" => rt[i].next = rt'[j].next
               /\ j < Depth' => i < Depth
  <2>1. CASE j = 2
    <3>1. 1 \in 1..Depth /\ (j < Depth' => 1 < Depth)
      BY <1>1, <2>1
    <3>2. rt[1].fn = rt'[j].fn /\ rt[1].id = rt'[j].id /\ rt[1].fn # "popTo"
      BY <1>1, <2>1
    <3> QED BY <3>1, <3>2
  <2>2. CASE j > 2
    <3>1. PICK k \in 2..Depth : j = k + 1
      BY <1>1, <2>2
    <3>2. k \in 1..Depth /\ rt'[j] = rt[k] /\ (j < Depth' => k < Depth)
      BY <1>1, <3>1
    <3> QED BY <3>2
  <2>3. j # 1
    BY <1>1, <1>2
  <2> QED BY <1>1, <2>1, <2>2, <2>3
<1>3. Depth' # 0 /\ (rt'[Depth'].fn \notin {"leaveTo", "popTo"} =>
                       rt[Depth].fn \notin {"leaveTo", "popTo"})
  <2>1. CASE Depth = 1
    BY <1>1, <2>1
  <2>2. CASE Depth > 1
    <3>1. Depth \in 2..Depth /\ Depth' = Depth + 1 /\ Depth' # 0
      BY <1>1, <2>2
    <3> QED BY <1>1, <3>1
  <2> QED BY <1>1, <2>1, <2>2
<1> QED BY <1>2, <1>3 DEF Matched

\* The child loops of extc_pool_drop and extc_pool_reset.
LEMMA NextChildStep ==
  ASSUME Typed, ChainInv, NextChild
  PROVE  Typed' /\ ChainInv' /\ Matched
<1>1. /\ rt # <<>> /\ rt[1].fn \in {"drop", "reset"} /\ rt[1].next # None
      /\ UNCHANGED <<poolVars, zoneVars, memVars, tasks, calls, halted>>
  BY DEF NextChild, InCall, Top
<1>2. Depth \in Nat /\ Depth > 0
  BY <1>1, FrameTypes
<1>3. PICK p \in PoolIds, c \in PoolIds : p = rt[1].id /\ c = rt[1].next
  BY <1>1, <1>2 DEF ChainInv, Shape, ShapeAt
<1>4. pool[p].live /\ pool[p].firstChild = c
  BY <1>1, <1>2, <1>3 DEF ChainInv, Saved, SavedAt
<1>5. pool[c].live /\ pool[c].parent = p
  BY <1>4, NoneApart DEF ChainInv, ChildLinks, LivePools
<1>6. PICK n \in PoolIds \cup {None} : n = pool[c].nextSibling
  BY LinkTypes
<1>7. rt' = Frame("call", c, None) \o Moves(n)
  BY <1>3, <1>6 DEF NextChild, Top
<1>70. rt' \in Seq(FrameRec) /\ CallPushed(c, n)
  BY <1>1, <1>7, PushCall
<1>8. /\ Depth' = Depth + 1
      /\ rt'[1].fn = "call" /\ rt'[1].id = c
      /\ rt'[2].fn = rt[1].fn /\ rt'[2].id = rt[1].id /\ rt'[2].next = n
      /\ \A i \in 2..Depth : rt'[i + 1] = rt[i]
  BY <1>70 DEF CallPushed
<1>9. Typed'
  BY <1>1, <1>70 DEF Typed, poolVars, zoneVars, memVars
<1>10. Shape'
  BY <1>1, <1>70, PushCallShape DEF ChainInv
<1>11. Saved'
  <2> SUFFICES ASSUME NEW i \in 1..Depth'
               PROVE  SavedAt(i)'
    BY DEF Saved
  <2>1. CASE i = 1
    BY <1>1, <1>5, <1>8, <2>1 DEF SavedAt, poolVars
  <2>2. CASE i = 2
    BY <1>1, <1>2, <1>3, <1>4, <1>6, <1>8, <2>2 DEF ChainInv, Saved, SavedAt, poolVars
  <2>3. CASE i > 2
    <3>1. PICK k \in 2..Depth : i = k + 1
      BY <1>2, <1>8, <2>3
    <3>2. SavedAt(k) /\ rt'[i] = rt[k] /\ rt'[i - 1].id = rt[k - 1].id
      BY <1>2, <1>8, <3>1 DEF ChainInv, Saved
    <3> QED BY <1>1, <3>1, <3>2 DEF SavedAt, poolVars, zoneVars
  <2> QED BY <1>8, <2>1, <2>2, <2>3
<1>12. \A r \in [PoolIds -> Nat] :
         FrameOrder(r) /\ (\E m \in Nat : LinkOrder(r, m)) => FrameOrder(r)'
  <2> SUFFICES ASSUME NEW r \in [PoolIds -> Nat], FrameOrder(r),
                      NEW m \in Nat, LinkOrder(r, m),
                      NEW i \in 1..Depth', NEW j \in 1..Depth', i < j,
                      rt'[i].fn \in {"call", "drop"}, rt'[j].fn \in {"drop", "reset"}
               PROVE  r[rt'[j].id] < r[rt'[i].id]
    BY DEF FrameOrder
  <2>1. r[p] < r[c]
    BY <1>5, NoneApart DEF LinkOrder, LivePools
  <2>2. CASE i = 1 /\ j = 2
    BY <1>3, <1>8, <2>1, <2>2
  <2>3. CASE j > 2
    <3>1. PICK k \in 2..Depth : j = k + 1 /\ rt'[j] = rt[k]
      BY <1>2, <1>8, <2>3
    <3>2. CASE i = 1
      <4>1. ShapeAt(1)
        BY <1>2 DEF ChainInv, Shape
      <4>2. rt[1].fn = "drop"
        BY <1>1, <1>2, <3>1, <4>1 DEF ShapeAt
      <4>3. r[rt[k].id] < r[p] /\ rt[k].id \in PoolIds
        BY <1>2, <1>3, <3>1, <4>2 DEF FrameOrder, ChainInv, Shape, ShapeAt
      <4> QED BY <1>8, <2>1, <3>1, <3>2, <4>3
    <3>3. CASE i > 1
      <4>1. PICK l \in 1..Depth : i = l + 1 /\ rt'[i].fn = rt[l].fn /\ rt'[i].id = rt[l].id
        BY <1>2, <1>8, <3>3
      <4> QED BY <3>1, <4>1 DEF FrameOrder
    <3> QED BY <3>2, <3>3
  <2> QED BY <1>8, <2>2, <2>3
<1>13. Matched
  BY <1>1, <1>70, PushCallMatched
<1> QED BY <1>1, <1>9, <1>10, <1>11, <1>12, <1>13, TablesKept DEF zoneVars

\* The loop of extc_zoneRelease.
LEMMA ReleaseNextStep ==
  ASSUME Typed, ChainInv, ReleaseNext
  PROVE  Typed' /\ ChainInv' /\ Matched
<1>1. /\ rt # <<>> /\ rt[1].fn = "release" /\ rt[1].next # None
      /\ UNCHANGED <<poolVars, zoneVars, memVars, tasks, calls, halted>>
  BY DEF ReleaseNext, InCall, Top
<1>2. Depth \in Nat /\ Depth > 0
  BY <1>1, FrameTypes
<1>3. PICK z \in ZoneIds, c \in PoolIds : z = rt[1].id /\ c = rt[1].next
  BY <1>1, <1>2 DEF ChainInv, Shape, ShapeAt
<1>4. zone[z].live /\ zone[z].firstPool = c
  BY <1>1, <1>2, <1>3 DEF ChainInv, Saved, SavedAt
<1>5. pool[c].live
  BY <1>4, NoneApart DEF ChainInv, PlaceLinks
<1>6. PICK n \in PoolIds \cup {None} : n = pool[c].zoneNext
  BY LinkTypes
<1>7. rt' = Frame("call", c, None) \o Moves(n)
  BY <1>3, <1>6 DEF ReleaseNext, Top
<1>8. rt' \in Seq(FrameRec) /\ CallPushed(c, n)
  BY <1>1, <1>7, PushCall
<1>9. /\ Depth' = Depth + 1
      /\ rt'[1].fn = "call" /\ rt'[1].id = c
      /\ rt'[2].fn = rt[1].fn /\ rt'[2].id = rt[1].id /\ rt'[2].next = n
      /\ \A i \in 2..Depth : rt'[i + 1] = rt[i]
  BY <1>8 DEF CallPushed
<1>10. Typed'
  BY <1>1, <1>8 DEF Typed, poolVars, zoneVars, memVars
<1>11. Shape'
  BY <1>1, <1>8, PushCallShape DEF ChainInv
<1>12. Saved'
  <2> SUFFICES ASSUME NEW i \in 1..Depth'
               PROVE  SavedAt(i)'
    BY DEF Saved
  <2>1. CASE i = 1
    BY <1>1, <1>5, <1>9, <2>1 DEF SavedAt, poolVars
  <2>2. CASE i = 2
    BY <1>1, <1>2, <1>3, <1>4, <1>6, <1>9, <2>2 DEF SavedAt, poolVars, zoneVars
  <2>3. CASE i > 2
    <3>1. PICK k \in 2..Depth : i = k + 1
      BY <1>2, <1>9, <2>3
    <3>2. SavedAt(k) /\ rt'[i] = rt[k] /\ rt'[i - 1].id = rt[k - 1].id
      BY <1>2, <1>9, <3>1 DEF ChainInv, Saved
    <3> QED BY <1>1, <3>1, <3>2 DEF SavedAt, poolVars, zoneVars
  <2> QED BY <1>9, <2>1, <2>2, <2>3
<1>13. \A r : FrameOrder(r)'
  <2>1. ASSUME NEW j \in 2..Depth'
        PROVE  rt'[j].fn \notin {"drop", "reset"}
    <3>1. ShapeAt(1)
      BY <1>2 DEF ChainInv, Shape
    <3>2. CASE j = 2
      BY <1>1, <1>9, <3>2
    <3>3. CASE j > 2
      BY <1>1, <1>2, <1>9, <3>1, <3>3 DEF ShapeAt
    <3> QED BY <3>2, <3>3
  <2> QED BY <2>1 DEF FrameOrder
<1>14. Matched
  BY <1>1, <1>8, PushCallMatched
<1> QED BY <1>1, <1>10, <1>11, <1>12, <1>13, <1>14, TablesKept DEF zoneVars

\* A single frame, or none, when a call ends and another begins.
LEMMA OneFrame ==
  ASSUME Depth' \in {0, 1},
         Depth' = 1 => /\ rt'[1].fn \in {"leaveTo", "popTo"} /\ rt'[1].id \in ZoneIds
                       /\ rt'[1].next \in ZoneIds \cup {None}
  PROVE  Shape' /\ Saved' /\ \A r : FrameOrder(r)'
<1>1. \A i \in 1..Depth' : i = 1 /\ Depth' = 1
  OBVIOUS
<1>2. Shape'
  BY <1>1 DEF Shape, ShapeAt
<1>3. Saved'
  BY <1>1 DEF Saved, SavedAt
<1>4. \A r : FrameOrder(r)'
  BY <1>1 DEF FrameOrder
<1> QED BY <1>2, <1>3, <1>4

LEMMA FrameSeq ==
  ASSUME NEW f \in FrameRec, NEW g \in FrameRec
  PROVE  /\ <<f>> \in Seq(FrameRec) /\ Len(<<f>>) = 1 /\ <<f>>[1] = f
         /\ <<f>> \o <<>> = <<f>>
         /\ <<>> \o <<f>> = <<f>>
         /\ <<f>> \o <<g>> = <<f, g>>
         /\ <<f, g>> \o <<>> = <<f, g>>
         /\ <<f, g>> \in Seq(FrameRec) /\ Len(<<f, g>>) = 2
         /\ <<f, g>>[1] = f /\ <<f, g>>[2] = g
<1>1. /\ <<f>> \in Seq(FrameRec) /\ Len(<<f>>) = 1 /\ <<f>>[1] = f
      /\ <<g>> \in Seq(FrameRec) /\ Len(<<g>>) = 1 /\ <<g>>[1] = g
  OBVIOUS
<1>2. /\ <<f, g>> \in Seq(FrameRec) /\ Len(<<f, g>>) = 2
      /\ <<f, g>>[1] = f /\ <<f, g>>[2] = g
  OBVIOUS
<1>3. <<f>> \o <<>> = <<f>> /\ <<>> \o <<f>> = <<f>> /\ <<f, g>> \o <<>> = <<f, g>>
  BY <1>1, <1>2, ConcatEmptySeq
<1>4. <<f>> \o <<g>> = <<f, g>>
  <2>1. PICK t : t = <<f>> \o <<g>>
    OBVIOUS
  <2>2. PICK u \in Seq(FrameRec) : u = <<f, g>> /\ Len(u) = 2 /\ u[1] = f /\ u[2] = g
    BY <1>2
  <2>3. PICK v \in Seq(FrameRec) : v = <<g>> /\ Len(v) = 1 /\ v[1] = g
    BY <1>1
  <2>4. t = <<f>> \o v
    BY <2>1, <2>3
  <2>5. /\ t \in Seq(FrameRec) /\ Len(t) = Len(v) + 1
        /\ t[1] = f /\ \A i \in 2..Len(t) : t[i] = v[i - 1]
    BY ONLY <2>4, f \in FrameRec, v \in Seq(FrameRec), PushedSeq
  <2>6. \A i \in 2..Len(t) : t[i] = v[i - 1]
    BY ONLY <2>5
  <2>7. Len(t) = Len(u) /\ \A i \in 1..Len(t) : t[i] = u[i]
    <3>1. Len(t) = 2 /\ t[1] = f
      BY ONLY <2>3, <2>5
    <3>2. 2 \in 2..Len(t) /\ 2 - 1 = 1 /\ \A i \in 1..Len(t) : i = 1 \/ i = 2
      BY ONLY <3>1
    <3>3. t[2] = v[1]
      BY ONLY <2>6, <3>2
    <3> QED BY ONLY <2>2, <2>3, <3>1, <3>2, <3>3
  <2>8. t = u
    BY ONLY <2>5, <2>7, u \in Seq(FrameRec), SeqEqual
  <2> QED BY ONLY <2>1, <2>2, <2>8
<1> QED BY <1>1, <1>2, <1>3, <1>4

\* One round of extc_pool_zoneLeaveTo: the place left is released first.
LEMMA LeaveRoundStep ==
  ASSUME Typed, ChainInv, LeaveRound
  PROVE  Typed' /\ ChainInv'
<1>1. /\ rt # <<>> /\ rt[1].fn = "leaveTo"
      /\ UNCHANGED <<poolVars, zoneVars, memVars, tasks, calls, halted>>
  BY DEF LeaveRound, InCall, Top
<1>2. Depth = 1 /\ rt[1].id \in ZoneIds
  <2>1. Depth \in Nat /\ Depth > 0
    BY <1>1, FrameTypes
  <2> QED BY <1>1, <2>1 DEF ChainInv, Shape, ShapeAt
<1>3. Tail(rt) = <<>>
  <2>1. PICK t : t = Tail(rt)
    OBVIOUS
  <2>2. t \in Seq(FrameRec) /\ Len(t) = 1 - 1
    BY ONLY Typed, <1>1, <1>2, <2>1, PopFrame
  <2> QED BY ONLY <2>1, <2>2, EmptySeq
<1>4. PICK t \in ZoneIds : t = rt[1].id
  BY <1>2
<1>5. CASE zoneTop = None
  <2>1. rt' = <<>>
    BY <1>3, <1>5 DEF LeaveRound
  <2>2. rt' \in Seq(FrameRec) /\ Depth' = 0
    BY <2>1 DEF Depth
  <2>3. Typed'
    BY <1>1, <2>2 DEF Typed, poolVars, zoneVars, memVars
  <2> QED BY <1>1, <2>2, <2>3, OneFrame, TablesKept DEF zoneVars
<1>6. CASE zoneTop # None
  <2>1. zoneTop \in ZoneIds
    BY <1>6 DEF Typed
  <2>2. PICK u \in ZoneIds \cup {None} : u = zone[zoneTop].parent
    BY <2>1, PlaceTypes
  <2>3. PICK g \in FrameRec : /\ Frame("popTo", t, u) = <<g>>
                              /\ g.fn = "popTo" /\ g.id = t /\ g.next = u
    BY NoneApart, FrameFacts
  <2>4. CASE ~zone[zoneTop].live
    <3>1. rt' = <<g>>
      <4>1. rt' = (<<>> \o <<g>>) \o <<>>
        BY <1>3, <1>4, <1>6, <2>2, <2>3, <2>4 DEF LeaveRound, ReleaseCall, Top
      <4> QED BY <4>1, FrameSeq
    <3>2. rt' \in Seq(FrameRec) /\ Depth' = 1 /\ rt'[1] = g
      BY <3>1, FrameSeq DEF Depth
    <3>3. Typed'
      BY <1>1, <3>2 DEF Typed, poolVars, zoneVars, memVars
    <3>4. Shape' /\ Saved' /\ \A r : FrameOrder(r)'
      BY <2>3, <3>2, OneFrame
    <3> QED BY <1>1, <3>3, <3>4, TablesKept DEF zoneVars
  <2>5. CASE zone[zoneTop].live
    <3>1. PICK h \in PoolIds \cup {None} : h = zone[zoneTop].firstPool
      BY <2>1, PlaceTypes
    <3>2. PICK f \in FrameRec : /\ Frame("release", zoneTop, h) = <<f>>
                                /\ f.fn = "release" /\ f.id = zoneTop /\ f.next = h
      BY <2>1, NoneApart, FrameFacts
    <3>3. rt' = <<f, g>>
      <4>1. rt' = (<<f>> \o <<g>>) \o <<>>
        BY <1>3, <1>4, <1>6, <2>2, <2>3, <2>5, <3>1, <3>2 DEF LeaveRound, ReleaseCall, Top
      <4> QED BY <4>1, FrameSeq
    <3>4. rt' \in Seq(FrameRec) /\ Depth' = 2 /\ rt'[1] = f /\ rt'[2] = g
      BY <3>3, FrameSeq DEF Depth
    <3>5. Typed'
      BY <1>1, <3>4 DEF Typed, poolVars, zoneVars, memVars
    <3>6. Shape'
      <4>1. ShapeAt(1)' /\ ShapeAt(2)'
        BY <2>1, <2>3, <3>2, <3>4 DEF ShapeAt
      <4> QED BY <3>4, <4>1 DEF Shape
    <3>7. Saved'
      <4>1. SavedAt(1)' /\ SavedAt(2)'
        BY <1>1, <2>3, <2>5, <3>1, <3>2, <3>4 DEF SavedAt, poolVars, zoneVars
      <4> QED BY <3>4, <4>1 DEF Saved
    <3>8. \A r : FrameOrder(r)'
      <4>1. \A i \in 1..Depth' : rt'[i].fn \notin {"drop", "reset"}
        BY <2>3, <3>2, <3>4
      <4> QED BY <4>1 DEF FrameOrder
    <3> QED BY <1>1, <3>5, <3>6, <3>7, <3>8, TablesKept DEF zoneVars
  <2> QED BY <2>4, <2>5
<1> QED BY <1>5, <1>6

LEMMA LeavePopStep ==
  ASSUME Typed, ChainInv, LeavePop
  PROVE  Typed' /\ ChainInv'
<1>1. /\ rt # <<>> /\ rt[1].fn = "popTo" /\ zoneTop' = rt[1].next
      /\ UNCHANGED <<poolVars, zone, zoneN, zoneFree, memVars, tasks, calls, halted>>
  BY DEF LeavePop, InCall, Top
<1>2. Depth = 1 /\ rt[1].id \in ZoneIds /\ rt[1].next \in ZoneIds \cup {None}
  <2>1. Depth \in Nat /\ Depth > 0
    BY <1>1, FrameTypes
  <2> QED BY <1>1, <2>1 DEF ChainInv, Shape, ShapeAt
<1>3. Tail(rt) = <<>>
  <2>1. PICK t : t = Tail(rt)
    OBVIOUS
  <2>2. t \in Seq(FrameRec) /\ Len(t) = 1 - 1
    BY ONLY Typed, <1>1, <1>2, <2>1, PopFrame
  <2> QED BY ONLY <2>1, <2>2, EmptySeq
<1>4. PICK t \in ZoneIds : t = rt[1].id
  BY <1>2
<1>5. PICK f \in FrameRec : /\ Frame("leaveTo", t, None) = <<f>>
                            /\ f.fn = "leaveTo" /\ f.id = t /\ f.next = None
  BY NoneApart, FrameFacts
<1>6. /\ rt' \in Seq(FrameRec) /\ Depth' \in {0, 1}
      /\ Depth' = 1 => rt'[1] = f
  <2>1. CASE zoneTop = t
    <3>1. rt' = <<>> \o <<>>
      BY <1>3, <1>4, <2>1 DEF LeavePop, Top
    <3>2. rt' = <<>>
      BY <3>1
    <3> QED BY <3>2 DEF Depth
  <2>2. CASE zoneTop # t
    <3>1. rt' = <<f>> \o <<>>
      BY <1>3, <1>4, <1>5, <2>2 DEF LeavePop, Top
    <3>2. rt' = <<f>>
      BY <3>1, FrameSeq
    <3> QED BY <3>2, FrameSeq DEF Depth
  <2> QED BY <2>1, <2>2
<1>7. Typed'
  BY <1>1, <1>2, <1>6 DEF Typed, poolVars, memVars
<1>8. Shape' /\ Saved' /\ \A r : FrameOrder(r)'
  BY <1>5, <1>6, OneFrame
<1> QED BY <1>1, <1>7, <1>8, TablesKept

-----------------------------------------------------------------------------
(***************************************************************************)
(* The head of a chain is the youngest pool on it.                         *)
(***************************************************************************)
\* A nonempty set of pools has a youngest one.
LEMMA Youngest ==
  ASSUME NEW r \in [PoolIds -> Nat], NEW m \in Nat, NEW S, S \subseteq PoolIds,
         S # {}, \A x \in S : r[x] < m
  PROVE  \E x \in S : \A y \in S : r[y] <= r[x]
<1> DEFINE D == {n \in Nat : \E x \in S : n = m - r[x]}
<1>1. D \subseteq Nat
  OBVIOUS
<1>2. D # {}
  <2>1. PICK x \in S : TRUE
    OBVIOUS
  <2>2. m - r[x] \in Nat
    BY <2>1
  <2> QED BY <2>1, <2>2
<1>3. PICK n \in D : \A k \in D : n <= k
  BY <1>1, <1>2, NatMin
<1>4. PICK x \in S : n = m - r[x]
  BY <1>3
<1>5. ASSUME NEW y \in S
      PROVE  r[y] <= r[x]
  <2>1. m - r[y] \in D
    OBVIOUS
  <2>2. n <= m - r[y]
    BY <1>3, <2>1
  <2> QED BY <1>4, <2>2
<1> QED BY <1>4, <1>5

LEMMA PlaceHead ==
  ASSUME Typed, PlaceLinks, NEW r \in [PoolIds -> Nat], NEW m \in Nat, LinkOrder(r, m),
         NEW z \in ZoneIds, NEW p \in LivePools, pool[p].zone = z
  PROVE  zone[z].firstPool \in LivePools /\ pool[zone[z].firstPool].zone = z
<1> DEFINE S == {x \in LivePools : pool[x].zone = z}
<1>1. S \subseteq PoolIds /\ S # {} /\ \A x \in S : r[x] < m
  BY DEF LivePools, LinkOrder
<1>2. PICK x \in S : \A y \in S : r[y] <= r[x]
  BY <1>1, Youngest
<1>3. ASSUME pool[x].zonePrev # None
      PROVE  FALSE
  <2>1. PICK y \in PoolIds : y = pool[x].zonePrev
    BY <1>1, <1>3, LinkTypes
  <2>2. pool[y].live /\ pool[y].zoneNext = x /\ pool[y].zone = z
    BY <1>3, <2>1 DEF PlaceLinks
  <2>3. x \in PoolIds /\ y \in S
    BY <1>1, <2>1, <2>2 DEF LivePools
  <2>4. r[x] < r[y]
    BY <2>2, <2>3, NoneApart DEF LinkOrder
  <2> QED BY <1>2, <2>3, <2>4
<1> QED BY <1>2, <1>3 DEF PlaceLinks

LEMMA ChildHead ==
  ASSUME Typed, ChildLinks, NEW r \in [PoolIds -> Nat], NEW m \in Nat, LinkOrder(r, m),
         NEW q \in PoolIds, NEW p \in LivePools, pool[p].parent = q
  PROVE  pool[q].firstChild \in LivePools
<1> DEFINE S == {x \in LivePools : pool[x].parent = q}
<1>1. S \subseteq PoolIds /\ S # {} /\ \A x \in S : r[x] < m
  BY DEF LivePools, LinkOrder
<1>2. PICK x \in S : \A y \in S : r[y] <= r[x]
  BY <1>1, Youngest
<1>3. ASSUME pool[x].siblingPrev # None
      PROVE  FALSE
  <2>1. PICK y \in PoolIds : y = pool[x].siblingPrev
    BY <1>1, <1>3, LinkTypes
  <2>2. pool[y].live /\ pool[y].nextSibling = x /\ pool[y].parent = q
    BY <1>3, <2>1 DEF ChildLinks
  <2>3. x \in PoolIds /\ y \in S
    BY <1>1, <2>1, <2>2 DEF LivePools
  <2>4. r[x] < r[y]
    BY <2>2, <2>3, NoneApart DEF LinkOrder
  <2> QED BY <1>2, <2>3, <2>4
<1> QED BY <1>2, <1>3, NoneApart DEF ChildLinks

\* A call returns: its frame is popped.
Popped ==
  /\ Depth \in Nat /\ Depth > 0 /\ Depth' = Depth - 1
  /\ \A i \in 1..Depth' : rt'[i] = rt[i + 1]

LEMMA PopCall ==
  ASSUME Typed, rt # <<>>, rt' = Tail(rt)
  PROVE  rt' \in Seq(FrameRec) /\ Popped
<1>1. Depth \in Nat /\ Depth > 0
  BY FrameTypes
<1>2. PICK t : t = rt'
  OBVIOUS
<1>3. /\ t \in Seq(FrameRec) /\ Len(t) = Depth - 1
      /\ \A i \in 1..(Depth - 1) : t[i] = rt[i + 1]
  <2>1. t = Tail(rt)
    BY <1>2
  <2> QED BY ONLY Typed, rt # <<>>, <2>1, PopFrame
<1>4. Depth' = Len(t)
  BY ONLY <1>2 DEF Depth
<1> QED BY ONLY <1>1, <1>2, <1>3, <1>4 DEF Popped

LEMMA PopMatched ==
  ASSUME Popped, rt[1].fn \in {"drop", "reset", "release"}
  PROVE  Matched
<1>1. /\ Depth \in Nat /\ Depth > 0 /\ Depth' = Depth - 1
      /\ \A i \in 1..Depth' : rt'[i] = rt[i + 1]
  BY DEF Popped
<1>2. ASSUME NEW j \in 1..Depth'
      PROVE  j + 1 \in 1..Depth /\ rt'[j] = rt[j + 1] /\ (j < Depth' => j + 1 < Depth)
  BY <1>1
<1>3. Depth' = 0 \/ rt'[Depth'].fn \notin {"leaveTo", "popTo"} =>
        rt[Depth].fn \notin {"leaveTo", "popTo"}
  <2>1. CASE Depth = 1
    BY <2>1
  <2>2. CASE Depth > 1
    <3>1. Depth' \in 1..Depth' /\ Depth' + 1 = Depth /\ Depth' # 0
      BY <1>1, <2>2
    <3> QED BY <1>1, <3>1
  <2> QED BY <1>1, <2>1, <2>2
<1> QED BY <1>2, <1>3 DEF Matched

\* The end of extc_zoneRelease: nothing is left in the place.
LEMMA ReleaseDoneStep ==
  ASSUME Typed, ChainInv, ReleaseDone
  PROVE  Typed' /\ ChainInv'
<1>1. /\ rt # <<>> /\ rt[1].fn = "release" /\ rt[1].next = None /\ rt' = Tail(rt)
      /\ UNCHANGED <<poolVars, zoneN, zoneTop, memVars, tasks, calls, halted>>
  BY DEF ReleaseDone, InCall, Top, Return
<1>2. rt' \in Seq(FrameRec) /\ Popped
  BY <1>1, PopCall
<1>3. /\ Depth \in Nat /\ Depth > 0 /\ Depth' = Depth - 1
      /\ \A i \in 1..Depth' : rt'[i] = rt[i + 1]
  BY <1>2 DEF Popped
<1>4. ShapeAt(1) /\ SavedAt(1)
  BY <1>3 DEF ChainInv, Shape, Saved
<1>5. PICK z \in ZoneIds : z = rt[1].id
  BY <1>1, <1>4 DEF ShapeAt
<1>6. zone[z].live /\ zone[z].firstPool = None
  BY <1>1, <1>4, <1>5 DEF SavedAt
<1>7. \A p \in LivePools : pool[p].zone # z
  <2>1. PICK r \in [PoolIds -> Nat], m \in Nat : LinkOrder(r, m)
    BY DEF ChainInv, Ordered
  <2> QED BY <1>6, <2>1, PlaceHead, NoneApart DEF ChainInv, LivePools
<1>8. /\ zone' = [zone EXCEPT ![z].firstPool = None, ![z].live = FALSE,
                              ![z].parent = zoneFree]
      /\ zoneFree' = z
  BY <1>5 DEF ReleaseDone, Top
<1>9. PICK c \in ZoneRec : /\ zone' = [zone EXCEPT ![z] = c]
                           /\ ~c.live /\ c.parent = zoneFree
  <2>1. PICK b \in BOOLEAN : b = FALSE
    OBVIOUS
  <2>2. PICK e \in ZoneIds \cup {None}, o \in ZoneRec : e = zoneFree /\ o = zone[z]
    BY DEF Typed
  <2>30. PICK v \in ZoneRec : v = [o EXCEPT !.firstPool = None]
    BY DEF ZoneRec
  <2>3. PICK u \in ZoneRec : u = [v EXCEPT !.parent = e]
    BY DEF ZoneRec
  <2>4. PICK c \in ZoneRec : c = [u EXCEPT !.live = b]
    BY DEF ZoneRec
  <2>40. ~c.live /\ c.parent = e
    BY <2>1, <2>3, <2>4 DEF ZoneRec
  <2>5. zone' = [zone EXCEPT ![z] = c]
    BY <1>8, <2>1, <2>2, <2>30, <2>3, <2>4
  <2> QED BY <2>2, <2>40, <2>5
<1>10. zone \in [ZoneIds -> ZoneRec] /\ zone'[z] = c /\ \A y \in ZoneIds \ {z} : zone'[y] = zone[y]
  BY <1>9 DEF Typed
<1>11. Typed'
  BY <1>1, <1>2, <1>8, <1>9, <1>10 DEF Typed, poolVars, memVars
<1>12. Shape' /\ Saved' /\ \A r : FrameOrder(r)'
  <2>1. Depth' \in {0, 1}
    BY <1>1, <1>3, <1>4 DEF ShapeAt
  <2>2. Depth' = 1 => rt'[1].fn = "popTo" /\ rt'[1].id \in ZoneIds
                      /\ rt'[1].next \in ZoneIds \cup {None}
    <3>1. Depth' = 1 => Depth = 2 /\ ShapeAt(2) /\ rt'[1] = rt[2]
      BY <1>3 DEF ChainInv, Shape
    <3>2. Depth' = 1 => rt[2].fn = "popTo"
      BY <1>1, <1>4, <3>1 DEF ShapeAt
    <3> QED BY <3>1, <3>2 DEF ShapeAt
  <2> QED BY <2>1, <2>2, OneFrame
<1>13. PlaceLinks'
  <2>1. LivePools' = LivePools /\ pool' = pool
    BY <1>1 DEF LivePools, poolVars
  <2>2. \A p \in LivePools : pool[p].zone \in ZoneIds \ {z}
    BY <1>7 DEF ChainInv, PlaceLinks
  <2> QED BY <1>9, <1>10, <2>1, <2>2 DEF ChainInv, PlaceLinks
<1>14. ChildLinks' /\ SameLinks
  BY <1>1 DEF ChainInv, ChildLinks, LivePools, SameLinks, poolVars
<1>15. Ordered'
  <2>1. PICK r \in [PoolIds -> Nat], m \in Nat : LinkOrder(r, m)
    BY DEF ChainInv, Ordered
  <2>2. LinkOrder(r, m)'
    BY <1>14, <2>1, OrderKept
  <2> QED BY <1>12, <2>2 DEF Ordered
<1>16. PlacesFree'
  <2>1. /\ \A y \in ZoneIds : zone[y].live => y < zoneN
        /\ zoneFree # None => zoneFree < zoneN /\ ~zone[zoneFree].live
        /\ \A y \in ZoneIds : y < zoneN /\ ~zone[y].live /\ zone[y].parent # None =>
             /\ zone[y].parent < zoneN /\ ~zone[zone[y].parent].live
             /\ zone[y].parent # zoneFree
             /\ \A x \in ZoneIds : x < zoneN /\ ~zone[x].live /\ x # y =>
                  zone[x].parent # zone[y].parent
    BY DEF ChainInv, PlacesFree
  <2>2. zoneN' = zoneN /\ zoneFree' = z /\ zoneFree \in ZoneIds \cup {None} /\ z # None
    BY <1>1, <1>8, NoneApart DEF Typed
  <2>3. \A y \in ZoneIds : zone[y].parent \in ZoneIds \cup {None}
    BY PlaceTypes
  <2>4. \A y \in ZoneIds : zone'[y].live => y < zoneN
    BY <1>9, <1>10, <2>1
  <2>5. z < zoneN /\ ~zone'[z].live
    BY <1>6, <1>9, <1>10, <2>1
  <2>6. ASSUME NEW y \in ZoneIds, y < zoneN, ~zone'[y].live, zone'[y].parent # None
        PROVE  /\ zone'[y].parent < zoneN /\ ~zone'[zone'[y].parent].live
               /\ zone'[y].parent # z
               /\ \A x \in ZoneIds : x < zoneN /\ ~zone'[x].live /\ x # y =>
                    zone'[x].parent # zone'[y].parent
    <3>1. CASE y = z
      <4>1. zone'[y].parent = zoneFree /\ zoneFree \in ZoneIds \ {z}
        BY <1>6, <1>9, <1>10, <2>1, <2>2, <2>6, <3>1
      <4>2. \A x \in ZoneIds : x < zoneN /\ ~zone'[x].live /\ x # y =>
                    zone'[x].parent # zoneFree
        BY <1>10, <2>1, <2>6, <3>1, <4>1
      <4> QED BY <1>10, <2>1, <2>2, <2>6, <4>1, <4>2
    <3>2. CASE y # z
      <4>1. zone'[y] = zone[y] /\ zone[y].parent \in ZoneIds
        BY <1>10, <2>3, <2>6, <3>2
      <4>2. zone[y].parent # z /\ zone[y].parent # zoneFree
            /\ zone[y].parent < zoneN /\ ~zone[zone[y].parent].live
        BY <1>6, <2>1, <2>6, <4>1
      <4>3. \A x \in ZoneIds : x < zoneN /\ ~zone'[x].live /\ x # y =>
                    zone'[x].parent # zone[y].parent
        BY <1>9, <1>10, <2>1, <2>6, <4>1, <4>2
      <4> QED BY <1>10, <4>1, <4>2, <4>3
    <3> QED BY <3>1, <3>2
  <2> QED BY <2>2, <2>4, <2>5, <2>6 DEF PlacesFree
<1> QED BY <1>11, <1>12, <1>13, <1>14, <1>15, <1>16 DEF ChainInv

\* The end of extc_pool_reset.
LEMMA ResetSelfStep ==
  ASSUME Typed, ChainInv, ResetSelf
  PROVE  Typed' /\ ChainInv' /\ Matched
<1>1. /\ rt # <<>> /\ rt[1].fn = "reset" /\ rt[1].next = None /\ rt' = Tail(rt)
      /\ UNCHANGED <<poolCap, poolFree, kind, made, zoneVars, memVars, tasks, calls, halted>>
  BY DEF ResetSelf, InCall, Top, Return
<1>2. rt' \in Seq(FrameRec) /\ Popped
  BY <1>1, PopCall
<1>3. /\ Depth \in Nat /\ Depth > 0 /\ Depth' = Depth - 1
      /\ \A i \in 1..Depth' : rt'[i] = rt[i + 1]
  BY <1>2 DEF Popped
<1>4. ShapeAt(1) /\ SavedAt(1)
  BY <1>3 DEF ChainInv, Shape, Saved
<1>5. PICK p \in PoolIds : p = rt[1].id
  BY <1>1, <1>4 DEF ShapeAt
<1>6. pool[p].live /\ pool[p].firstChild = None
  BY <1>1, <1>4, <1>5 DEF SavedAt
<1>7. PICK c \in PoolRec : /\ pool' = [pool EXCEPT ![p] = c]
                           /\ c = [pool[p] EXCEPT !.firstChild = None,
                                                  !.generation = pool[p].generation + 1]
  <2>1. [pool[p] EXCEPT !.firstChild = None, !.generation = pool[p].generation + 1] \in PoolRec
    <3>1. PICK g \in Nat, o \in PoolRec : g = pool[p].generation + 1 /\ o = pool[p]
      BY LinkTypes
    <3>2. [o EXCEPT !.firstChild = None, !.generation = g] \in PoolRec
      BY DEF PoolRec
    <3> QED BY <3>1, <3>2
  <2> QED BY <1>5, <2>1 DEF ResetSelf, Top
<1>8. /\ pool' \in [PoolIds -> PoolRec] /\ pool'[p] = c
      /\ \A x \in PoolIds \ {p} : pool'[x] = pool[x]
  BY <1>7 DEF Typed
<1>9. SameLinks
  <2>1. /\ c.live = pool[p].live
        /\ c.zone = pool[p].zone /\ c.parent = pool[p].parent
        /\ c.zoneNext = pool[p].zoneNext /\ c.zonePrev = pool[p].zonePrev
        /\ c.nextSibling = pool[p].nextSibling
        /\ c.siblingPrev = pool[p].siblingPrev
        /\ c.firstChild = None
    BY <1>7, LinkTypes DEF PoolRec
  <2> QED BY <1>6, <1>8, <2>1 DEF SameLinks
<1>10. Typed'
  BY <1>1, <1>2, <1>8 DEF Typed, zoneVars, memVars
<1>11. PlaceLinks' /\ ChildLinks'
  BY <1>1, <1>9, LinksKept, SameTables DEF ChainInv, zoneVars
<1>12. PlacesFree'
  BY <1>1 DEF ChainInv, PlacesFree, zoneVars
<1>13. Depth' \in {0, 1} /\ (Depth' = 1 => rt'[1].fn = "call" /\ rt'[1].id = p)
  <2>1. CASE Depth = 1
    BY <1>3, <2>1
  <2>2. CASE Depth > 1
    <3>1. Depth = 2 /\ rt[2].fn = "call" /\ rt[2].id = rt[1].id
      BY <1>1, <1>3, <1>4, <2>2 DEF ShapeAt
    <3>2. Depth' = 1 /\ rt'[1] = rt[2]
      BY <1>3, <3>1
    <3> QED BY <1>5, <3>1, <3>2
  <2> QED BY <1>3, <2>1, <2>2
<1>14. Shape' /\ Saved' /\ \A r : FrameOrder(r)'
  <2>1. \A i \in 1..Depth' : i = 1 /\ Depth' = 1
    BY <1>13
  <2>2. Shape'
    BY <1>13, <2>1 DEF Shape, ShapeAt
  <2>3. Saved'
    BY <1>6, <1>9, <1>13, <2>1 DEF Saved, SavedAt, SameLinks
  <2>4. \A r : FrameOrder(r)'
    BY <2>1 DEF FrameOrder
  <2> QED BY <2>2, <2>3, <2>4
<1>15. Ordered'
  <2>1. PICK r \in [PoolIds -> Nat], m \in Nat : LinkOrder(r, m)
    BY DEF ChainInv, Ordered
  <2>2. LinkOrder(r, m)'
    BY <1>9, <2>1, OrderKept
  <2> QED BY <1>14, <2>2 DEF Ordered
<1>16. Matched
  BY <1>1, <1>2, PopMatched
<1> QED BY <1>10, <1>11, <1>12, <1>14, <1>15, <1>16 DEF ChainInv

-----------------------------------------------------------------------------
(***************************************************************************)
(* The end of extc_pool_drop.                                              *)
(***************************************************************************)
\* The tables without pool p.
Dropped(p) ==
  /\ ~pool'[p].live
  /\ \A x \in PoolIds \ {p} :
       /\ pool'[x].live <=> pool[x].live
       /\ pool'[x].zone = pool[x].zone /\ pool'[x].parent = pool[x].parent
       /\ pool'[x].generation = pool[x].generation
       /\ pool'[x].zoneNext = IF x = pool[p].zonePrev THEN pool[p].zoneNext
                              ELSE pool[x].zoneNext
       /\ pool'[x].zonePrev = IF x = pool[p].zoneNext THEN pool[p].zonePrev
                              ELSE pool[x].zonePrev
       /\ pool'[x].nextSibling = IF x = pool[p].siblingPrev THEN pool[p].nextSibling
                                 ELSE pool[x].nextSibling
       /\ pool'[x].siblingPrev = IF x = pool[p].nextSibling THEN pool[p].siblingPrev
                                 ELSE pool[x].siblingPrev
       /\ pool'[x].firstChild = IF x = pool[p].parent /\ pool[p].siblingPrev = None
                                THEN pool[p].nextSibling ELSE pool[x].firstChild
  /\ \A z \in ZoneIds :
       /\ zone'[z].live <=> zone[z].live
       /\ zone'[z].parent = zone[z].parent
       /\ zone'[z].firstPool = IF z = pool[p].zone /\ pool[p].zonePrev = None
                               THEN pool[p].zoneNext ELSE zone[z].firstPool

\* No link of a living pool leads back to it.
LEMMA Loopless ==
  ASSUME Typed, PlaceLinks, ChildLinks, NEW r \in [PoolIds -> Nat], NEW m \in Nat,
         LinkOrder(r, m), NEW p \in LivePools
  PROVE  /\ pool[p].siblingPrev # p /\ pool[p].nextSibling # p /\ pool[p].parent # p
         /\ pool[p].zonePrev # p /\ pool[p].zoneNext # p
<1>1. p \in PoolIds /\ p # None
  BY NoneApart DEF LivePools
<1>2. pool[p].nextSibling # p /\ pool[p].parent # p /\ pool[p].zoneNext # p
  BY <1>1 DEF LinkOrder
<1> QED BY <1>1, <1>2 DEF PlaceLinks, ChildLinks

LEMMA DropTables ==
  ASSUME Typed, ChainInv, DropSelf, NEW p \in LivePools, p = rt[1].id
  PROVE  /\ pool' \in [PoolIds -> PoolRec] /\ zone' \in [ZoneIds -> ZoneRec] /\ Dropped(p)
         /\ pool'[p].generation = pool[p].generation
         /\ pool'[p].freeNext = poolFree
         /\ \A x \in PoolIds \ {p} : /\ pool'[x].blocks = pool[x].blocks
                                     /\ pool'[x].bytes = pool[x].bytes
                                     /\ pool'[x].freeNext = pool[x].freeNext
<1>1. p \in PoolIds
  BY DEF LivePools
<1>2. PICK P \in [PoolIds -> PoolRec] : P = pool
  BY DEF Typed
<1>3. PICK Q : Q = FreeSelf(UnlinkZone(UnlinkParent(P, p), p), p)
  OBVIOUS
<1>4. pool' = Q
  BY <1>2, <1>3 DEF DropSelf, Top
<1>5. /\ P[p].siblingPrev # p /\ P[p].nextSibling # p /\ P[p].parent # p
      /\ P[p].zonePrev # p /\ P[p].zoneNext # p
  <2>1. PICK r \in [PoolIds -> Nat], m \in Nat : LinkOrder(r, m)
    BY DEF ChainInv, Ordered
  <2> QED BY <1>2, <2>1, Loopless DEF ChainInv
<1>6. P[p].parent = None => P[p].nextSibling = None /\ P[p].siblingPrev = None
  BY <1>2 DEF ChainInv, ChildLinks
<1>7. poolFree \in PoolIds \cup {None}
  BY DEF Typed
<1>8. /\ Q \in [PoolIds -> PoolRec]
      /\ ~Q[p].live /\ Q[p].generation = P[p].generation
      /\ Q[p].freeNext = poolFree
      /\ \A x \in PoolIds \ {p} :
              /\ Q[x].live <=> P[x].live
              /\ Q[x].zone = P[x].zone /\ Q[x].parent = P[x].parent
              /\ Q[x].generation = P[x].generation
              /\ Q[x].blocks = P[x].blocks /\ Q[x].bytes = P[x].bytes
              /\ Q[x].freeNext = P[x].freeNext
              /\ Q[x].zoneNext = IF x = P[p].zonePrev THEN P[p].zoneNext
                                 ELSE P[x].zoneNext
              /\ Q[x].zonePrev = IF x = P[p].zoneNext THEN P[p].zonePrev
                                 ELSE P[x].zonePrev
              /\ Q[x].nextSibling = IF x = P[p].siblingPrev THEN P[p].nextSibling
                                    ELSE P[x].nextSibling
              /\ Q[x].siblingPrev = IF x = P[p].nextSibling THEN P[p].siblingPrev
                                    ELSE P[x].siblingPrev
              /\ Q[x].firstChild = IF x = P[p].parent /\ P[p].siblingPrev = None
                                   THEN P[p].nextSibling ELSE P[x].firstChild
  BY ONLY <1>1, <1>3, <1>5, <1>6, <1>7, P \in [PoolIds -> PoolRec], DropFields
<1>9. PICK z \in ZoneIds, h \in PoolIds \cup {None} :
        z = pool[p].zone /\ h = pool[p].zoneNext
  BY <1>1, LinkTypes DEF ChainInv, PlaceLinks
<1>10. zone' = IF pool[p].zonePrev = None THEN [zone EXCEPT ![z].firstPool = h] ELSE zone
  BY <1>9 DEF DropSelf, Top
<1>11. zone' \in [ZoneIds -> ZoneRec]
       /\ \A y \in ZoneIds :
            /\ zone'[y].live <=> zone[y].live
            /\ zone'[y].parent = zone[y].parent
            /\ zone'[y].firstPool = IF y = z /\ pool[p].zonePrev = None
                                    THEN h ELSE zone[y].firstPool
  <2>1. PICK o \in ZoneRec : o = zone[z]
    BY PlaceTypes
  <2>2. PICK c \in ZoneRec : c = [o EXCEPT !.firstPool = h]
    BY DEF ZoneRec
  <2>3. /\ c.live <=> o.live
        /\ c.parent = o.parent /\ c.firstPool = h
    BY <2>2 DEF ZoneRec
  <2>4. CASE pool[p].zonePrev = None
    <3>1. zone' = [zone EXCEPT ![z] = c]
      BY <1>10, <2>1, <2>2, <2>4
    <3> QED BY <2>1, <2>3, <2>4, <3>1 DEF Typed
  <2>5. CASE pool[p].zonePrev # None
    BY <1>10, <2>5 DEF Typed
  <2> QED BY <2>4, <2>5
<1>12. Dropped(p)
  BY <1>2, <1>4, <1>8, <1>9, <1>11 DEF Dropped
<1>13. /\ pool' \in [PoolIds -> PoolRec]
       /\ pool'[p].generation = pool[p].generation
       /\ pool'[p].freeNext = poolFree
       /\ \A x \in PoolIds \ {p} : /\ pool'[x].blocks = pool[x].blocks
                                   /\ pool'[x].bytes = pool[x].bytes
                                   /\ pool'[x].freeNext = pool[x].freeNext
  BY ONLY <1>2, <1>4, <1>8
<1> QED BY ONLY <1>11, <1>12, <1>13

LEMMA DropPlaceLinks ==
  ASSUME Typed, PlaceLinks, NEW r \in [PoolIds -> Nat], NEW m \in Nat, LinkOrder(r, m),
         NEW p \in LivePools, Dropped(p)
  PROVE  PlaceLinks'
<1>1. /\ p \in PoolIds /\ LivePools' = LivePools \ {p}
      /\ LivePools \subseteq PoolIds /\ None \notin PoolIds
      /\ \A x \in LivePools : pool[x].live
      /\ \A x \in PoolIds : pool[x].live => x \in LivePools
  BY NoneApart DEF Dropped, LivePools
<1>2. \A x \in LivePools :
        /\ pool[x].zone \in ZoneIds /\ zone[pool[x].zone].live
        /\ pool[x].zoneNext # None => /\ pool[x].zoneNext \in LivePools
                                      /\ pool[pool[x].zoneNext].zonePrev = x
                                      /\ pool[pool[x].zoneNext].zone = pool[x].zone
                                      /\ pool[x].zoneNext # x
        /\ pool[x].zonePrev = None => zone[pool[x].zone].firstPool = x
        /\ pool[x].zonePrev # None => /\ pool[x].zonePrev \in LivePools
                                      /\ pool[pool[x].zonePrev].zoneNext = x
                                      /\ pool[pool[x].zonePrev].zone = pool[x].zone
                                      /\ pool[x].zonePrev # x
  <2> TAKE x \in LivePools
  <2>1. /\ pool[x].zoneNext # x
        /\ pool[x].zoneNext \in PoolIds \cup {None} /\ pool[x].zonePrev \in PoolIds \cup {None}
    BY <1>1, LinkTypes DEF LinkOrder
  <2> QED BY <1>1, <2>1 DEF PlaceLinks
<1>3. \A z \in ZoneIds : zone[z].live /\ zone[z].firstPool # None =>
        /\ zone[z].firstPool \in LivePools
        /\ pool[zone[z].firstPool].zone = z /\ pool[zone[z].firstPool].zonePrev = None
  BY <1>1, PlaceTypes DEF PlaceLinks
<1>4. ASSUME NEW x \in LivePools \ {p}
      PROVE  /\ pool'[x].zone \in ZoneIds /\ zone'[pool'[x].zone].live
             /\ pool'[x].zoneNext # None => /\ pool'[pool'[x].zoneNext].live
                                            /\ pool'[pool'[x].zoneNext].zonePrev = x
                                            /\ pool'[pool'[x].zoneNext].zone = pool'[x].zone
             /\ pool'[x].zonePrev = None => zone'[pool'[x].zone].firstPool = x
             /\ pool'[x].zonePrev # None => /\ pool'[pool'[x].zonePrev].live
                                            /\ pool'[pool'[x].zonePrev].zoneNext = x
                                            /\ pool'[pool'[x].zonePrev].zone = pool'[x].zone
  <2>1. pool'[x].zone = pool[x].zone /\ pool[x].zone \in ZoneIds /\ zone'[pool[x].zone].live
    BY <1>1, <1>2 DEF Dropped
  <2>2. ASSUME pool'[x].zoneNext # None
        PROVE  /\ pool'[pool'[x].zoneNext].live
               /\ pool'[pool'[x].zoneNext].zonePrev = x
               /\ pool'[pool'[x].zoneNext].zone = pool'[x].zone
    <3>1. CASE x = pool[p].zonePrev
      <4>1. PICK n \in LivePools \ {p} : n = pool[p].zoneNext /\ pool'[x].zoneNext = n
        BY <1>1, <1>2, <2>2, <3>1 DEF Dropped
      <4>2. pool'[n].live /\ pool'[n].zonePrev = x /\ pool'[n].zone = pool[n].zone
        BY <1>1, <3>1, <4>1 DEF Dropped
      <4>3. pool[n].zone = pool[p].zone /\ pool[x].zone = pool[p].zone
        BY <1>1, <1>2, <3>1, <4>1
      <4> QED BY <2>1, <4>1, <4>2, <4>3
    <3>2. CASE x # pool[p].zonePrev
      <4>1. PICK n \in LivePools : n = pool[x].zoneNext /\ pool'[x].zoneNext = n
        BY <1>1, <1>2, <2>2, <3>2 DEF Dropped
      <4>2. n # p /\ n # pool[p].zoneNext
        BY <1>1, <1>2, <3>2, <4>1
      <4>3. pool'[n].live /\ pool'[n].zonePrev = pool[n].zonePrev /\ pool'[n].zone = pool[n].zone
        BY <1>1, <4>2 DEF Dropped
      <4> QED BY <1>1, <1>2, <2>1, <4>1, <4>3
    <3> QED BY <3>1, <3>2
  <2>3. ASSUME pool'[x].zonePrev # None
        PROVE  /\ pool'[pool'[x].zonePrev].live
               /\ pool'[pool'[x].zonePrev].zoneNext = x
               /\ pool'[pool'[x].zonePrev].zone = pool'[x].zone
    <3>1. CASE x = pool[p].zoneNext
      <4>1. PICK n \in LivePools \ {p} : n = pool[p].zonePrev /\ pool'[x].zonePrev = n
        BY <1>1, <1>2, <2>3, <3>1 DEF Dropped
      <4>2. pool'[n].live /\ pool'[n].zoneNext = x /\ pool'[n].zone = pool[n].zone
        BY <1>1, <3>1, <4>1 DEF Dropped
      <4>3. pool[n].zone = pool[p].zone /\ pool[x].zone = pool[p].zone
        BY <1>1, <1>2, <3>1, <4>1
      <4> QED BY <2>1, <4>1, <4>2, <4>3
    <3>2. CASE x # pool[p].zoneNext
      <4>1. PICK n \in LivePools : n = pool[x].zonePrev /\ pool'[x].zonePrev = n
        BY <1>1, <1>2, <2>3, <3>2 DEF Dropped
      <4>2. n # p /\ n # pool[p].zonePrev
        BY <1>1, <1>2, <3>2, <4>1
      <4>3. pool'[n].live /\ pool'[n].zoneNext = pool[n].zoneNext /\ pool'[n].zone = pool[n].zone
        BY <1>1, <4>2 DEF Dropped
      <4> QED BY <1>1, <1>2, <2>1, <4>1, <4>3
    <3> QED BY <3>1, <3>2
  <2>4. ASSUME pool'[x].zonePrev = None
        PROVE  zone'[pool[x].zone].firstPool = x
    <3>1. CASE x = pool[p].zoneNext
      BY <1>1, <1>2, <2>4, <3>1 DEF Dropped
    <3>2. CASE x # pool[p].zoneNext
      <4>1. pool[x].zonePrev = None /\ zone[pool[x].zone].firstPool = x
        BY <1>1, <1>2, <2>4, <3>2 DEF Dropped
      <4>2. ~(pool[x].zone = pool[p].zone /\ pool[p].zonePrev = None)
        BY <1>2, <4>1
      <4> QED BY <1>2, <4>1, <4>2 DEF Dropped
    <3> QED BY <3>1, <3>2
  <2> QED BY <2>1, <2>2, <2>3, <2>4
<1>5. ASSUME NEW z \in ZoneIds, zone'[z].live, zone'[z].firstPool # None
      PROVE  /\ pool'[zone'[z].firstPool].live /\ pool'[zone'[z].firstPool].zone = z
             /\ pool'[zone'[z].firstPool].zonePrev = None
  <2>1. zone[z].live
    BY <1>5 DEF Dropped
  <2>2. CASE z = pool[p].zone /\ pool[p].zonePrev = None
    <3>1. PICK n \in LivePools \ {p} : n = pool[p].zoneNext /\ zone'[z].firstPool = n
      BY <1>1, <1>2, <1>5, <2>2 DEF Dropped
    <3> QED BY <1>1, <1>2, <2>2, <3>1 DEF Dropped
  <2>3. CASE ~(z = pool[p].zone /\ pool[p].zonePrev = None)
    <3>1. PICK n \in LivePools : n = zone[z].firstPool /\ zone'[z].firstPool = n
      BY <1>3, <1>5, <2>1, <2>3 DEF Dropped
    <3>2. n # p /\ pool[n].zone = z /\ pool[n].zonePrev = None
      BY <1>3, <2>1, <2>3, <3>1, <1>1
    <3>3. n # pool[p].zoneNext
      BY <1>1, <1>2, <3>2
    <3> QED BY <1>1, <3>1, <3>2, <3>3 DEF Dropped
  <2> QED BY <2>2, <2>3
<1> QED BY <1>1, <1>4, <1>5 DEF PlaceLinks

LEMMA DropChildLinks ==
  ASSUME Typed, ChildLinks, NEW r \in [PoolIds -> Nat], NEW m \in Nat, LinkOrder(r, m),
         NEW p \in LivePools, pool[p].firstChild = None, Dropped(p)
  PROVE  ChildLinks'
<1>1. /\ p \in PoolIds /\ LivePools' = LivePools \ {p}
      /\ LivePools \subseteq PoolIds /\ None \notin PoolIds
      /\ \A x \in LivePools : pool[x].live
      /\ \A x \in PoolIds : pool[x].live => x \in LivePools
  BY NoneApart DEF Dropped, LivePools
<1>2. \A x \in LivePools :
        /\ pool[x].parent = None => pool[x].nextSibling = None /\ pool[x].siblingPrev = None
        /\ pool[x].parent # None => pool[x].parent \in LivePools \ {p}
        /\ pool[x].nextSibling # None => /\ pool[x].nextSibling \in LivePools
                                         /\ pool[pool[x].nextSibling].siblingPrev = x
                                         /\ pool[pool[x].nextSibling].parent = pool[x].parent
                                         /\ pool[x].nextSibling # x
        /\ pool[x].parent # None /\ pool[x].siblingPrev = None =>
             pool[pool[x].parent].firstChild = x
        /\ pool[x].siblingPrev # None => /\ pool[x].siblingPrev \in LivePools
                                         /\ pool[pool[x].siblingPrev].nextSibling = x
                                         /\ pool[pool[x].siblingPrev].parent = pool[x].parent
                                         /\ pool[x].siblingPrev # x
        /\ pool[x].firstChild # None => /\ pool[x].firstChild \in LivePools
                                        /\ pool[pool[x].firstChild].parent = x
                                        /\ pool[pool[x].firstChild].siblingPrev = None
  <2> TAKE x \in LivePools
  <2>1. /\ pool[x].nextSibling # x
        /\ pool[x].nextSibling \in PoolIds \cup {None}
        /\ pool[x].siblingPrev \in PoolIds \cup {None}
        /\ pool[x].parent \in PoolIds \cup {None}
        /\ pool[x].firstChild \in PoolIds \cup {None}
    BY <1>1, LinkTypes DEF LinkOrder
  <2>2. pool[x].parent # p
    BY <1>1, ChildHead
  <2> QED BY <1>1, <2>1, <2>2 DEF ChildLinks
<1>3. \A x \in LivePools \ {p} : pool'[x].parent = pool[x].parent /\ pool'[x].live
  BY <1>1 DEF Dropped
<1>4. ASSUME NEW x \in LivePools \ {p}
      PROVE  /\ pool'[x].parent = None => pool'[x].nextSibling = None /\ pool'[x].siblingPrev = None
             /\ pool'[x].parent # None => pool'[pool'[x].parent].live
    <2>1. CASE pool[x].parent # None
      BY <1>1, <1>2, <1>3, <2>1
    <2>2. CASE pool[x].parent = None
      <3>1. x # pool[p].siblingPrev \/ pool[p].nextSibling = None
        BY <1>1, <1>2, <2>2
      <3>2. x # pool[p].nextSibling \/ pool[p].siblingPrev = None
        BY <1>1, <1>2, <2>2
      <3> QED BY <1>1, <1>2, <1>3, <2>2, <3>1, <3>2 DEF Dropped
    <2> QED BY <2>1, <2>2
<1>5. ASSUME NEW x \in LivePools \ {p}, pool'[x].nextSibling # None
      PROVE  /\ pool'[pool'[x].nextSibling].live
             /\ pool'[pool'[x].nextSibling].siblingPrev = x
             /\ pool'[pool'[x].nextSibling].parent = pool'[x].parent
    <3>1. CASE x = pool[p].siblingPrev
      <4>1. PICK n \in LivePools \ {p} : n = pool[p].nextSibling /\ pool'[x].nextSibling = n
        BY <1>1, <1>2, <1>5, <3>1 DEF Dropped
      <4>2. pool'[n].live /\ pool'[n].siblingPrev = x /\ pool'[n].parent = pool[n].parent
        BY <1>1, <3>1, <4>1 DEF Dropped
      <4>3. pool[n].parent = pool[p].parent /\ pool[x].parent = pool[p].parent
        BY <1>1, <1>2, <3>1, <4>1
      <4> QED BY <1>3, <4>1, <4>2, <4>3
    <3>2. CASE x # pool[p].siblingPrev
      <4>1. PICK n \in LivePools : n = pool[x].nextSibling /\ pool'[x].nextSibling = n
        BY <1>1, <1>2, <1>5, <3>2 DEF Dropped
      <4>2. n # p /\ n # pool[p].nextSibling
        BY <1>1, <1>2, <3>2, <4>1
      <4>3. /\ pool'[n].live /\ pool'[n].siblingPrev = pool[n].siblingPrev
            /\ pool'[n].parent = pool[n].parent
        BY <1>1, <4>2 DEF Dropped
      <4> QED BY <1>1, <1>2, <1>3, <4>1, <4>3
    <3> QED BY <3>1, <3>2
<1>6. ASSUME NEW x \in LivePools \ {p}, pool'[x].siblingPrev # None
      PROVE  /\ pool'[pool'[x].siblingPrev].live
             /\ pool'[pool'[x].siblingPrev].nextSibling = x
             /\ pool'[pool'[x].siblingPrev].parent = pool'[x].parent
    <3>1. CASE x = pool[p].nextSibling
      <4>1. PICK n \in LivePools \ {p} : n = pool[p].siblingPrev /\ pool'[x].siblingPrev = n
        BY <1>1, <1>2, <1>6, <3>1 DEF Dropped
      <4>2. pool'[n].live /\ pool'[n].nextSibling = x /\ pool'[n].parent = pool[n].parent
        BY <1>1, <3>1, <4>1 DEF Dropped
      <4>3. pool[n].parent = pool[p].parent /\ pool[x].parent = pool[p].parent
        BY <1>1, <1>2, <3>1, <4>1
      <4> QED BY <1>3, <4>1, <4>2, <4>3
    <3>2. CASE x # pool[p].nextSibling
      <4>1. PICK n \in LivePools : n = pool[x].siblingPrev /\ pool'[x].siblingPrev = n
        BY <1>1, <1>2, <1>6, <3>2 DEF Dropped
      <4>2. n # p /\ n # pool[p].siblingPrev
        BY <1>1, <1>2, <3>2, <4>1
      <4>3. /\ pool'[n].live /\ pool'[n].nextSibling = pool[n].nextSibling
            /\ pool'[n].parent = pool[n].parent
        BY <1>1, <4>2 DEF Dropped
      <4> QED BY <1>1, <1>2, <1>3, <4>1, <4>3
    <3> QED BY <3>1, <3>2
<1>7. ASSUME NEW x \in LivePools \ {p}, pool'[x].parent # None, pool'[x].siblingPrev = None
      PROVE  pool'[pool'[x].parent].firstChild = x
  <2>1. PICK q \in LivePools \ {p} : q = pool[x].parent /\ pool'[x].parent = q
    BY <1>1, <1>2, <1>3, <1>7
  <2>2. CASE x = pool[p].nextSibling
    BY <1>1, <1>2, <1>7, <2>1, <2>2 DEF Dropped
  <2>3. CASE x # pool[p].nextSibling
    <3>1. pool[x].siblingPrev = None /\ pool[q].firstChild = x
      BY <1>1, <1>2, <1>7, <2>1, <2>3 DEF Dropped
    <3>2. ~(q = pool[p].parent /\ pool[p].siblingPrev = None)
      BY <1>1, <1>2, <3>1
    <3> QED BY <1>1, <2>1, <3>1, <3>2 DEF Dropped
  <2> QED BY <2>2, <2>3
<1>8. ASSUME NEW x \in LivePools \ {p}, pool'[x].firstChild # None
      PROVE  /\ pool'[pool'[x].firstChild].live /\ pool'[pool'[x].firstChild].parent = x
             /\ pool'[pool'[x].firstChild].siblingPrev = None
  <2>2. CASE x = pool[p].parent /\ pool[p].siblingPrev = None
    <3>1. PICK n \in LivePools \ {p} : n = pool[p].nextSibling /\ pool'[x].firstChild = n
      BY <1>1, <1>2, <1>8, <2>2 DEF Dropped
    <3> QED BY <1>1, <1>2, <2>2, <3>1 DEF Dropped
  <2>3. CASE ~(x = pool[p].parent /\ pool[p].siblingPrev = None)
    <3>1. PICK n \in LivePools : n = pool[x].firstChild /\ pool'[x].firstChild = n
      BY <1>1, <1>2, <1>8, <2>3 DEF Dropped
    <3>2. n # p /\ pool[n].parent = x /\ pool[n].siblingPrev = None
      BY <1>1, <1>2, <2>3, <3>1
    <3>3. n # pool[p].nextSibling
      BY <1>1, <1>2, <3>2
    <3> QED BY <1>1, <3>1, <3>2, <3>3 DEF Dropped
  <2> QED BY <2>2, <2>3
<1> QED BY <1>1, <1>4, <1>5, <1>6, <1>7, <1>8 DEF ChildLinks

LEMMA DropOrder ==
  ASSUME Typed, PlaceLinks, ChildLinks, NEW r \in [PoolIds -> Nat], NEW m \in Nat,
         LinkOrder(r, m), NEW p \in LivePools, Dropped(p)
  PROVE  LinkOrder(r, m)'
<1> SUFFICES ASSUME NEW x \in LivePools'
             PROVE  /\ r[x] < m
                    /\ pool'[x].zoneNext # None => r[pool'[x].zoneNext] < r[x]
                    /\ pool'[x].nextSibling # None => r[pool'[x].nextSibling] < r[x]
                    /\ pool'[x].parent # None => r[pool'[x].parent] < r[x]
  BY DEF LinkOrder
<1>1. p \in PoolIds /\ x \in PoolIds \ {p} /\ x \in LivePools
  BY DEF Dropped, LivePools
<1>2. r[x] < m /\ (pool'[x].parent # None => r[pool'[x].parent] < r[x])
  BY <1>1 DEF Dropped, LinkOrder
<1>3. ASSUME pool'[x].zoneNext # None
      PROVE  r[pool'[x].zoneNext] < r[x]
  <2>1. CASE x = pool[p].zonePrev
    <3>1. PICK n \in PoolIds : n = pool[p].zoneNext /\ pool'[x].zoneNext = n
      BY <1>1, <1>3, <2>1, LinkTypes DEF Dropped
    <3>2. r[n] < r[p]
      BY <3>1, NoneApart DEF LinkOrder
    <3>3. pool[x].zoneNext = p
      BY <1>1, <2>1, NoneApart DEF PlaceLinks
    <3>4. r[p] < r[x]
      BY <1>1, <3>3, NoneApart DEF LinkOrder
    <3> QED BY <1>1, <3>1, <3>2, <3>4
  <2>2. CASE x # pool[p].zonePrev
    BY <1>1, <1>3, <2>2 DEF Dropped, LinkOrder
  <2> QED BY <2>1, <2>2
<1>4. ASSUME pool'[x].nextSibling # None
      PROVE  r[pool'[x].nextSibling] < r[x]
  <2>1. CASE x = pool[p].siblingPrev
    <3>1. PICK n \in PoolIds : n = pool[p].nextSibling /\ pool'[x].nextSibling = n
      BY <1>1, <1>4, <2>1, LinkTypes DEF Dropped
    <3>2. r[n] < r[p]
      BY <3>1, NoneApart DEF LinkOrder
    <3>3. pool[x].nextSibling = p
      BY <1>1, <2>1, NoneApart DEF ChildLinks
    <3>4. r[p] < r[x]
      BY <1>1, <3>3, NoneApart DEF LinkOrder
    <3> QED BY <1>1, <3>1, <3>2, <3>4
  <2>2. CASE x # pool[p].siblingPrev
    BY <1>1, <1>4, <2>2 DEF Dropped, LinkOrder
  <2> QED BY <2>1, <2>2
<1> QED BY <1>2, <1>3, <1>4

LEMMA DropSelfStep ==
  ASSUME Typed, ChainInv, DropSelf
  PROVE  /\ Typed' /\ ChainInv' /\ Matched
         /\ \A z \in ZoneIds : (zone'[z].live <=> zone[z].live)
                               /\ zone'[z].parent = zone[z].parent
<1>1. /\ rt # <<>> /\ rt[1].fn = "drop" /\ rt[1].next = None /\ rt' = Tail(rt)
      /\ UNCHANGED <<poolCap, kind, made, zoneN, zoneFree, zoneTop, tasks, calls, halted>>
  BY DEF DropSelf, InCall, Top, Return
<1>2. rt' \in Seq(FrameRec) /\ Popped
  BY <1>1, PopCall
<1>3. /\ Depth \in Nat /\ Depth > 0 /\ Depth' = Depth - 1
      /\ \A i \in 1..Depth' : rt'[i] = rt[i + 1]
  BY <1>2 DEF Popped
<1>4. ShapeAt(1) /\ SavedAt(1)
  BY <1>3 DEF ChainInv, Shape, Saved
<1>5. PICK p \in PoolIds : p = rt[1].id
  BY <1>1, <1>4 DEF ShapeAt
<1>6. p \in LivePools /\ pool[p].firstChild = None
  BY <1>1, <1>4, <1>5 DEF SavedAt, LivePools
<1>7. pool' \in [PoolIds -> PoolRec] /\ zone' \in [ZoneIds -> ZoneRec] /\ Dropped(p)
  BY <1>5, <1>6, DropTables
<1>8. Typed'
  <2>1. poolFree' \in PoolIds \cup {None}
    BY <1>5 DEF DropSelf, Top
  <2>2. size' \in [Blocks -> Nat]
    BY DEF DropSelf, Typed
  <2> QED BY <1>1, <1>2, <1>7, <2>1, <2>2 DEF Typed
<1>9. PICK r \in [PoolIds -> Nat], m \in Nat : LinkOrder(r, m) /\ FrameOrder(r)
  BY DEF ChainInv, Ordered
<1>10. PlaceLinks' /\ ChildLinks' /\ LinkOrder(r, m)'
  BY <1>6, <1>7, <1>9, DropPlaceLinks, DropChildLinks, DropOrder DEF ChainInv
<1>11. FrameOrder(r)'
  BY <1>3, <1>9 DEF FrameOrder
<1>12. PlacesFree'
  <2>1. /\ zoneN' = zoneN /\ zoneFree' = zoneFree /\ zoneFree \in ZoneIds \cup {None}
        /\ \A z \in ZoneIds : (zone'[z].live <=> zone[z].live) /\ zone'[z].parent = zone[z].parent
    BY <1>1, <1>7 DEF Dropped, Typed
  <2>2. \A z \in ZoneIds : zone[z].parent \in ZoneIds \cup {None}
    BY PlaceTypes
  <2> QED BY <2>1, <2>2 DEF ChainInv, PlacesFree
\* Below it are only loops that drop older pools.
<1>13. ASSUME NEW k \in 2..Depth, rt[k].fn \in {"drop", "reset"}
       PROVE  /\ rt[k].id \in PoolIds \ {p} /\ r[rt[k].id] < r[p]
              /\ pool[rt[k].id].live /\ pool'[rt[k].id].live
              /\ pool'[rt[k].id].generation = pool[rt[k].id].generation
  <2>1. ShapeAt(k) /\ SavedAt(k)
    BY <1>3 DEF ChainInv, Shape, Saved
  <2>2. PICK q \in PoolIds : q = rt[k].id
    BY <1>13, <2>1 DEF ShapeAt
  <2>3. r[q] < r[p]
    BY SMTT(20), <1>1, <1>3, <1>5, <1>9, <1>13, <2>2 DEF FrameOrder
  <2>4. pool[q].live
    BY <1>13, <2>1, <2>2 DEF SavedAt
  <2> QED BY <1>7, <2>2, <2>3, <2>4 DEF Dropped
<1>14. ASSUME NEW k \in 2..Depth, rt[k].fn \in {"drop", "reset", "release"}
       PROVE  rt[k - 1].fn = "drop" /\ rt[k - 1].id \in PoolIds
  <2>1. ShapeAt(k) /\ ShapeAt(k - 1)
    BY <1>3 DEF ChainInv, Shape
  <2>2. rt[k - 1].fn \in {"call", "drop"}
    BY <1>3, <1>14, <2>1 DEF ShapeAt
  <2>3. rt[k - 1].fn # "call"
    <3>1. CASE k = 2
      BY <1>1, <3>1
    <3>2. CASE k > 2
      BY <1>3, <2>1, <3>2 DEF ShapeAt
    <3> QED BY <3>1, <3>2
  <2> QED BY <2>1, <2>2, <2>3 DEF ShapeAt
<1>15. ASSUME NEW k \in 2..Depth, rt[k].fn \notin {"leaveTo", "popTo"}
       PROVE  rt[k].fn # "call" \/ (k = Depth /\ k > 2 /\ rt[k - 1].fn = "reset" /\ rt[k - 1].id = rt[k].id)
  <2>1. ShapeAt(k)
    BY <1>3 DEF ChainInv, Shape
  <2>2. rt[k].fn = "call" => k = Depth /\ rt[k - 1].fn = "reset" /\ rt[k - 1].id = rt[k].id
    BY <2>1 DEF ShapeAt
  <2>3. CASE k = 2
    BY <1>1, <2>2, <2>3
  <2>4. CASE k > 2
    BY <2>2, <2>4
  <2> QED BY <2>3, <2>4
<1>16. Shape'
  <2> SUFFICES ASSUME NEW i \in 1..Depth'
               PROVE  ShapeAt(i)'
    BY DEF Shape
  <2>1. PICK k \in 2..Depth : k = i + 1
    BY <1>3
  <2>2. /\ ShapeAt(k) /\ rt'[i] = rt[k]
        /\ i > 1 => rt'[i - 1] = rt[k - 1]
        /\ k < Depth => rt'[i + 1] = rt[k + 1]
        /\ i = Depth' <=> k = Depth
    BY <1>3, <2>1 DEF ChainInv, Shape
  <2>3. rt[k].fn # "leaveTo"
    BY <1>3, <2>1, <2>2 DEF ShapeAt
  <2>4. rt[k].fn = "call" => i > 1
    BY <1>3, <1>15, <2>1
  <2> QED BY <1>3, <2>1, <2>2, <2>3, <2>4 DEF ShapeAt
<1>17. Saved'
  <2> SUFFICES ASSUME NEW i \in 1..Depth'
               PROVE  SavedAt(i)'
    BY DEF Saved
  <2>1. PICK k \in 2..Depth : k = i + 1
    BY <1>3
  <2>2. /\ SavedAt(k) /\ ShapeAt(k) /\ rt'[i] = rt[k]
        /\ i > 1 => rt'[i - 1] = rt[k - 1]
    BY <1>3, <2>1 DEF ChainInv, Saved, Shape
  <2>3. CASE rt[k].fn \in {"leaveTo", "popTo"}
    BY <2>2, <2>3 DEF SavedAt
  <2>4. CASE rt[k].fn = "call"
    <3>1. k - 1 \in 2..Depth /\ rt[k - 1].fn = "reset" /\ rt[k - 1].id = rt[k].id
      BY <1>15, <2>4
    <3>2. pool'[rt[k].id].live
      BY <1>13, <3>1
    <3> QED BY <2>2, <2>4, <3>2 DEF SavedAt
  <2>5. CASE rt[k].fn \in {"drop", "reset"}
    <3>1. PICK q \in PoolIds \ {p}, g \in PoolIds : q = rt[k].id /\ g = rt[k - 1].id
      BY <1>13, <1>14, <2>5
    <3>2. PICK n \in PoolIds \cup {None} : n = rt[k].next
      BY <2>2, <2>5 DEF ShapeAt
    <3>3. pool[q].firstChild = g /\ pool[g].nextSibling = n
      BY <2>2, <2>5, <3>1, <3>2 DEF SavedAt
    <3>4. pool[q].live /\ pool'[q].live /\ pool'[q].generation = pool[q].generation
      BY <1>13, <2>5, <3>1
    <3>5. pool[g].live /\ pool[g].parent = q /\ pool[g].siblingPrev = None
      BY <3>3, <3>4, NoneApart DEF ChainInv, ChildLinks, LivePools
    <3>6. CASE i = 1
      <4>1. g = p
        BY <1>5, <2>1, <3>1, <3>6
      <4>2. pool'[q].firstChild = n
        BY <1>7, <3>1, <3>3, <3>5, <4>1 DEF Dropped
      <4> QED BY <2>2, <2>5, <3>1, <3>2, <3>4, <3>6, <4>2 DEF SavedAt
    <3>7. CASE i > 1
      <4>1. k - 1 \in 2..Depth /\ rt[k - 1].fn = "drop"
        BY <1>3, <1>14, <2>1, <2>5, <3>7
      <4>2. g # p /\ r[g] < r[p]
        BY <1>13, <3>1, <4>1
      <4>3. pool'[q].firstChild = g
        <5>1. ~(q = pool[p].parent /\ pool[p].siblingPrev = None)
          BY <1>6, <3>1, <3>3, <4>2, NoneApart DEF ChainInv, ChildLinks
        <5> QED BY <1>7, <3>1, <3>3, <5>1 DEF Dropped
      <4>4. pool'[g].nextSibling = n
        <5>1. g # pool[p].siblingPrev
          <6> SUFFICES ASSUME g = pool[p].siblingPrev PROVE FALSE
            OBVIOUS
          <6>1. pool[g].nextSibling = p
            BY <1>6, NoneApart DEF ChainInv, ChildLinks
          <6>2. r[p] < r[g]
            BY <1>9, <3>5, <6>1, NoneApart DEF LinkOrder, LivePools
          <6> QED BY <4>2, <6>2
        <5> QED BY <1>7, <3>3, <4>2, <5>1 DEF Dropped
      <4> QED BY <2>2, <2>5, <3>1, <3>2, <3>4, <3>7, <4>3, <4>4 DEF SavedAt
    <3> QED BY <1>3, <3>6, <3>7
  <2>6. CASE rt[k].fn = "release"
    <3>1. PICK z \in ZoneIds, g \in PoolIds : z = rt[k].id /\ g = rt[k - 1].id
      BY <1>14, <2>2, <2>6 DEF ShapeAt
    <3>2. PICK n \in PoolIds \cup {None} : n = rt[k].next
      BY <2>2, <2>6 DEF ShapeAt
    <3>3. zone[z].live /\ zone[z].firstPool = g /\ pool[g].zoneNext = n
      BY <2>2, <2>6, <3>1, <3>2 DEF SavedAt
    <3>4. zone'[z].live
      BY <1>7, <3>3 DEF Dropped
    <3>5. pool[g].live /\ pool[g].zone = z /\ pool[g].zonePrev = None
      BY <3>3, NoneApart DEF ChainInv, PlaceLinks
    <3>6. CASE i = 1
      <4>1. g = p
        BY <1>5, <2>1, <3>1, <3>6
      <4>2. zone'[z].firstPool = n
        BY <1>7, <3>1, <3>3, <3>5, <4>1 DEF Dropped
      <4> QED BY <2>2, <2>6, <3>1, <3>2, <3>4, <3>6, <4>2 DEF SavedAt
    <3>7. CASE i > 1
      <4>1. k - 1 \in 2..Depth /\ rt[k - 1].fn = "drop"
        BY <1>3, <1>14, <2>1, <2>6, <3>7
      <4>2. g # p /\ r[g] < r[p]
        BY <1>13, <3>1, <4>1
      <4>3. zone'[z].firstPool = g
        <5>1. ~(z = pool[p].zone /\ pool[p].zonePrev = None)
          BY <1>6, <3>1, <3>3, <4>2, NoneApart DEF ChainInv, PlaceLinks
        <5> QED BY <1>7, <3>1, <3>3, <5>1 DEF Dropped
      <4>4. pool'[g].zoneNext = n
        <5>1. g # pool[p].zonePrev
          <6> SUFFICES ASSUME g = pool[p].zonePrev PROVE FALSE
            OBVIOUS
          <6>1. pool[g].zoneNext = p
            BY <1>6, NoneApart DEF ChainInv, PlaceLinks
          <6>2. r[p] < r[g]
            BY <1>9, <3>5, <6>1, NoneApart DEF LinkOrder, LivePools
          <6> QED BY <4>2, <6>2
        <5> QED BY <1>7, <3>3, <4>2, <5>1 DEF Dropped
      <4> QED BY <2>2, <2>6, <3>1, <3>2, <3>4, <3>7, <4>3, <4>4 DEF SavedAt
    <3> QED BY <1>3, <3>6, <3>7
  <2>7. rt[k].fn \in {"leaveTo", "popTo", "release", "call", "drop", "reset"}
    BY <1>3, FrameTypes
  <2> QED BY <2>3, <2>4, <2>5, <2>6, <2>7
<1>18. Ordered'
  BY <1>10, <1>11 DEF Ordered
<1>19. Matched /\ \A z \in ZoneIds : (zone'[z].live <=> zone[z].live)
                                      /\ zone'[z].parent = zone[z].parent
  BY <1>1, <1>2, <1>7, PopMatched DEF Dropped
<1> QED BY <1>8, <1>10, <1>12, <1>16, <1>17, <1>18, <1>19 DEF ChainInv

-----------------------------------------------------------------------------
(***************************************************************************)
(* Steps of the generated code.                                            *)
(***************************************************************************)
LEMMA NoFrames ==
  ASSUME rt' = <<>>
  PROVE  rt' \in Seq(FrameRec) /\ Depth' = 0 /\ Shape' /\ Saved' /\ \A r : FrameOrder(r)'
<1>1. rt' \in Seq(FrameRec) /\ Depth' = 0
  BY EmptySeq DEF Depth
<1>2. \A i \in 1..Depth' : FALSE
  BY <1>1
<1> QED BY <1>1, <1>2 DEF Shape, Saved, FrameOrder

\* Neither table changes, and one frame or none begins.
LEMMA StillTables ==
  ASSUME Typed, ChainInv, UNCHANGED <<poolVars, zone, zoneN, zoneFree>>,
         Shape', Saved', \A r : FrameOrder(r)'
  PROVE  ChainInv'
<1>1. \A r \in [PoolIds -> Nat] : FrameOrder(r) /\ (\E m \in Nat : LinkOrder(r, m)) => FrameOrder(r)'
  OBVIOUS
<1> QED BY <1>1, TablesKept

\* The frame a call of the generated code starts with.
LEMMA StartFrame ==
  ASSUME NEW fn \in {"leaveTo", "popTo", "release", "call", "drop", "reset"},
         NEW id \in Int, NEW next \in Int, rt' = Frame(fn, id, next)
  PROVE  /\ rt' \in Seq(FrameRec) /\ Depth' = 1
         /\ rt'[1].fn = fn /\ rt'[1].id = id /\ rt'[1].next = next
<1>1. PICK f \in FrameRec : /\ Frame(fn, id, next) = <<f>>
                            /\ f.fn = fn /\ f.id = id /\ f.next = next
  BY FrameFacts
<1>2. rt' = <<f>>
  BY <1>1
<1> QED BY <1>1, <1>2, FrameSeq DEF Depth

\* The only frame of a call that has just begun.
LEMMA FirstFrame ==
  ASSUME Typed, UNCHANGED <<pool, zone>>, Depth' = 1,
         \/ rt'[1].fn = "leaveTo" /\ rt'[1].id \in ZoneIds
         \/ /\ rt'[1].fn = "release" /\ rt'[1].id \in ZoneIds
            /\ zone[rt'[1].id].live /\ rt'[1].next = zone[rt'[1].id].firstPool
         \/ rt'[1].fn = "call" /\ rt'[1].id \in PoolIds /\ pool[rt'[1].id].live
         \/ /\ rt'[1].fn = "reset" /\ rt'[1].id \in PoolIds /\ pool[rt'[1].id].live
            /\ pool[rt'[1].id].generation < GenMax
            /\ rt'[1].next = pool[rt'[1].id].firstChild
  PROVE  Shape' /\ Saved' /\ \A r : FrameOrder(r)'
<1>1. \A i \in 1..Depth' : i = 1 /\ Depth' = 1
  OBVIOUS
<1>2. ShapeAt(1)'
  <2>1. CASE rt'[1].fn = "leaveTo" /\ rt'[1].id \in ZoneIds
    BY <2>1 DEF ShapeAt
  <2>2. CASE rt'[1].fn = "release" /\ rt'[1].id \in ZoneIds
             /\ zone[rt'[1].id].live /\ rt'[1].next = zone[rt'[1].id].firstPool
    BY <2>2, PlaceTypes DEF ShapeAt
  <2>3. CASE rt'[1].fn = "call" /\ rt'[1].id \in PoolIds
    BY <2>3 DEF ShapeAt
  <2>4. CASE rt'[1].fn = "reset" /\ rt'[1].id \in PoolIds
             /\ rt'[1].next = pool[rt'[1].id].firstChild
    BY <2>4, LinkTypes DEF ShapeAt
  <2> QED BY <2>1, <2>2, <2>3, <2>4
<1>3. SavedAt(1)'
  BY DEF SavedAt
<1> QED BY <1>1, <1>2, <1>3 DEF Shape, Saved, FrameOrder

\* extc_zoneAllocSlot: what it takes is free, and holds no pool.
LEMMA SlotFacts ==
  ASSUME Typed, PlacesFree, SlotFree
  PROVE  /\ SlotId \in ZoneIds /\ ~zone[SlotId].live
         /\ NextColor(zone[SlotId].color) \in Nat
<1>1. SlotId \in ZoneIds
  BY NoneApart, PoolsAssumption DEF SlotFree, SlotId, Typed, ZoneIds
<1>2. ~zone[SlotId].live
  BY <1>1, NoneApart DEF PlacesFree, SlotId, Typed, SlotFree
<1>3. NextColor(zone[SlotId].color) \in Nat
  <2>1. PICK c \in Nat : c = zone[SlotId].color
    BY <1>1, PlaceTypes
  <2>2. (c + 1) % ColorMod \in Nat
    BY PoolsAssumption
  <2> QED BY <2>1, <2>2 DEF NextColor
<1> QED BY <1>1, <1>2, <1>3

LEMMA AllocTables ==
  ASSUME Typed, ChainInv, NEW u \in ZoneIds \cup {None}, NEW d \in Nat, AllocSlot(u, d),
         UNCHANGED poolVars, rt = <<>>, rt' = <<>>
  PROVE  /\ zone' \in [ZoneIds -> ZoneRec] /\ zoneN' \in 0..PlaceMax
         /\ zoneFree' \in ZoneIds \cup {None}
         /\ SlotId \in ZoneIds /\ ~zone[SlotId].live
         /\ zone'[SlotId].live /\ zone'[SlotId].parent = u
         /\ \A z \in ZoneIds \ {SlotId} : zone'[z] = zone[z]
         /\ ChainInv'
<1>1. SlotFree /\ PlacesFree
  BY DEF AllocSlot, ChainInv
<1>2. PICK s \in ZoneIds : s = SlotId
  BY <1>1, SlotFacts
<1>3. ~zone[s].live
  BY <1>1, <1>2, SlotFacts
<1>4. PICK c \in ZoneRec : /\ zone' = [zone EXCEPT ![s] = c]
                           /\ c.live /\ c.parent = u /\ c.firstPool = None
  <2>1. PICK n \in Nat, b \in BOOLEAN : n = NextColor(zone[s].color) /\ b = TRUE
    BY <1>1, <1>2, SlotFacts
  <2>2. PICK c : c = [firstPool |-> None, parent |-> u, color |-> n, live |-> b, depth |-> d]
    OBVIOUS
  <2>3. c \in ZoneRec
    BY <2>2 DEF ZoneRec
  <2>4. zone' = [zone EXCEPT ![s] = c]
    BY <1>2, <2>1, <2>2 DEF AllocSlot
  <2> QED BY <2>1, <2>2, <2>3, <2>4
<1>5. /\ zone' \in [ZoneIds -> ZoneRec] /\ zone'[s] = c
      /\ \A z \in ZoneIds \ {s} : zone'[z] = zone[z]
  BY <1>4 DEF Typed
<1>6. PlaceLinks'
  <2>1. LivePools' = LivePools /\ pool' = pool
    BY DEF LivePools, poolVars
  <2>2. \A p \in LivePools : pool[p].zone \in ZoneIds \ {s}
    BY <1>3 DEF ChainInv, PlaceLinks
  <2> QED BY <1>4, <1>5, <2>1, <2>2 DEF ChainInv, PlaceLinks
<1>7. ChildLinks' /\ SameLinks
  BY DEF ChainInv, ChildLinks, LivePools, SameLinks, poolVars
<1>8. Shape' /\ Saved' /\ \A r : FrameOrder(r)'
  BY NoFrames
<1>9. Ordered'
  <2>1. PICK r \in [PoolIds -> Nat], m \in Nat : LinkOrder(r, m)
    BY DEF ChainInv, Ordered
  <2>2. LinkOrder(r, m)'
    BY <1>7, <2>1, OrderKept
  <2> QED BY <1>8, <2>2 DEF Ordered
<1>10. /\ \A y \in ZoneIds : zone[y].live => y < zoneN
       /\ zoneFree # None => zoneFree < zoneN /\ ~zone[zoneFree].live
       /\ \A y \in ZoneIds : y < zoneN /\ ~zone[y].live /\ zone[y].parent # None =>
            /\ zone[y].parent < zoneN /\ ~zone[zone[y].parent].live
            /\ zone[y].parent # zoneFree
            /\ \A x \in ZoneIds : x < zoneN /\ ~zone[x].live /\ x # y =>
                 zone[x].parent # zone[y].parent
  BY <1>1 DEF PlacesFree
<1>11. /\ zoneN \in Nat /\ zoneFree \in ZoneIds \cup {None} /\ None \notin ZoneIds
       /\ \A y \in ZoneIds : zone[y].parent \in ZoneIds \cup {None}
  BY PlaceTypes, NoneApart DEF Typed
<1>12. CASE zoneFree # None
  <2>1. s = zoneFree /\ zoneFree' = zone[s].parent /\ zoneN' = zoneN
    BY <1>2, <1>12 DEF SlotId, AllocSlot
  <2>2. \A y \in ZoneIds : zone'[y].live => y < zoneN
    BY <1>5, <1>10, <1>12, <2>1
  <2>3. zoneFree' # None => zoneFree' < zoneN /\ ~zone'[zoneFree'].live
    BY <1>3, <1>5, <1>10, <1>11, <1>12, <2>1
  <2>4. ASSUME NEW y \in ZoneIds, y < zoneN, ~zone'[y].live, zone'[y].parent # None
        PROVE  /\ zone'[y].parent < zoneN /\ ~zone'[zone'[y].parent].live
               /\ zone'[y].parent # zoneFree'
               /\ \A x \in ZoneIds : x < zoneN /\ ~zone'[x].live /\ x # y =>
                    zone'[x].parent # zone'[y].parent
    <3>1. y # s /\ zone'[y] = zone[y]
      BY <1>4, <1>5, <2>4
    <3>2. PICK v \in ZoneIds : v = zone[y].parent
      BY <1>11, <2>4, <3>1
    <3>3. v < zoneN /\ ~zone[v].live /\ v # s
      BY <1>10, <2>1, <2>4, <3>1, <3>2, <1>11
    <3>4. v # zoneFree'
      BY <1>3, <1>10, <1>12, <2>1, <2>4, <3>1, <3>2, <1>11
    <3>5. \A x \in ZoneIds : x < zoneN /\ ~zone'[x].live /\ x # y => zone'[x].parent # v
      BY <1>4, <1>5, <1>10, <2>4, <3>1, <3>2, <1>11
    <3> QED BY <1>5, <3>1, <3>2, <3>3, <3>4, <3>5
  <2>5. PlacesFree'
    BY <2>1, <2>2, <2>3, <2>4 DEF PlacesFree
  <2>6. zoneN' \in 0..PlaceMax /\ zoneFree' \in ZoneIds \cup {None}
    BY <1>11, <2>1 DEF Typed
  <2> QED BY <1>2, <1>3, <1>4, <1>5, <1>6, <1>7, <1>8, <1>9, <2>5, <2>6 DEF ChainInv
<1>13. CASE zoneFree = None
  <2>1. s = zoneN /\ zoneFree' = None /\ zoneN' = zoneN + 1 /\ zoneN < PlaceMax
    BY <1>1, <1>2, <1>13 DEF SlotId, AllocSlot, SlotFree
  <2>2. \A y \in ZoneIds : zone'[y].live => y < zoneN + 1
    BY <1>5, <1>10, <1>11, <2>1, NoneApart
  <2>4. ASSUME NEW y \in ZoneIds, y < zoneN + 1, ~zone'[y].live, zone'[y].parent # None
        PROVE  /\ zone'[y].parent < zoneN + 1 /\ ~zone'[zone'[y].parent].live
               /\ \A x \in ZoneIds : x < zoneN + 1 /\ ~zone'[x].live /\ x # y =>
                    zone'[x].parent # zone'[y].parent
    <3>1. y # s /\ zone'[y] = zone[y]
      BY <1>4, <1>5, <2>4
    <3>2. PICK v \in ZoneIds : v = zone[y].parent
      BY <1>11, <2>4, <3>1
    <3>0. y < zoneN
      BY <1>11, <2>1, <2>4, <3>1, NoneApart
    <3>3. v < zoneN /\ ~zone[v].live /\ v # s
      BY <1>10, <1>11, <2>1, <2>4, <3>0, <3>1, <3>2, NoneApart
    <3>5. \A x \in ZoneIds : x < zoneN + 1 /\ ~zone'[x].live /\ x # y => zone'[x].parent # v
      <4> TAKE x \in ZoneIds
      <4> HAVE x < zoneN + 1 /\ ~zone'[x].live /\ x # y
      <4>1. x # s /\ zone'[x] = zone[x]
        BY <1>4, <1>5
      <4>2. x < zoneN
        BY <1>11, <2>1, <4>1, NoneApart
      <4> QED BY <1>10, <2>4, <3>0, <3>1, <3>2, <4>1, <4>2
    <3>6. v < zoneN + 1 /\ ~zone'[v].live
      BY <1>5, <1>11, <3>3, NoneApart
    <3> QED BY <3>1, <3>2, <3>5, <3>6
  <2>5. PlacesFree'
    BY <1>11, <2>1, <2>2, <2>4 DEF PlacesFree
  <2>6. zoneN' \in 0..PlaceMax /\ zoneFree' \in ZoneIds \cup {None}
    BY <1>11, <2>1, PoolsAssumption
  <2> QED BY <1>2, <1>3, <1>4, <1>5, <1>6, <1>7, <1>8, <1>9, <2>5, <2>6 DEF ChainInv
<1> QED BY <1>12, <1>13

\* A pool is made: it is the youngest, and heads both chains.
Made(p, q, z, old) ==
  /\ pool'[p].live
  /\ pool'[p].zone = z /\ pool'[p].parent = q /\ pool'[p].firstChild = None
  /\ pool'[p].zoneNext = zone[z].firstPool /\ pool'[p].zonePrev = None
  /\ pool'[p].nextSibling = old /\ pool'[p].siblingPrev = None
  /\ \A x \in PoolIds \ {p} :
       /\ pool'[x].live <=> pool[x].live
       /\ pool'[x].zone = pool[x].zone /\ pool'[x].parent = pool[x].parent
       /\ pool'[x].zoneNext = pool[x].zoneNext
       /\ pool'[x].zonePrev = IF x = zone[z].firstPool THEN p ELSE pool[x].zonePrev
       /\ pool'[x].nextSibling = pool[x].nextSibling
       /\ pool'[x].siblingPrev = IF x = old THEN p ELSE pool[x].siblingPrev
       /\ pool'[x].firstChild = IF x = q THEN p ELSE pool[x].firstChild
  /\ \A y \in ZoneIds :
       /\ zone'[y].live <=> zone[y].live
       /\ zone'[y].parent = zone[y].parent
       /\ zone'[y].firstPool = IF y = z THEN p ELSE zone[y].firstPool

LEMMA MadeLinks ==
  ASSUME Typed, PlaceLinks, ChildLinks,
         NEW p \in PoolIds, ~pool[p].live, NEW q \in LivePools \cup {None},
         NEW z \in ZoneIds, zone[z].live,
         NEW old, old = IF q = None THEN None ELSE pool[q].firstChild, Made(p, q, z, old)
  PROVE  PlaceLinks' /\ ChildLinks'
<1>1. /\ LivePools' = LivePools \cup {p} /\ p \notin LivePools
      /\ LivePools \subseteq PoolIds /\ None \notin PoolIds
      /\ \A x \in LivePools : pool[x].live
      /\ \A x \in PoolIds : pool[x].live => x \in LivePools
  <2>1. pool'[p].live /\ \A x \in PoolIds \ {p} : pool'[x].live <=> pool[x].live
    BY DEF Made
  <2>2. LivePools' = LivePools \cup {p}
    BY ONLY <2>1, p \in PoolIds DEF LivePools
  <2>3. p \notin LivePools /\ LivePools \subseteq PoolIds
    BY ONLY ~pool[p].live DEF LivePools
  <2>4. \A x \in PoolIds : pool[x].live <=> x \in LivePools
    BY ONLY TRUE DEF LivePools
  <2> QED BY ONLY <2>2, <2>3, <2>4, NoneApart
<1>2. \A x \in LivePools :
        /\ pool[x].zone \in ZoneIds /\ zone[pool[x].zone].live
        /\ pool[x].zoneNext # None => /\ pool[x].zoneNext \in LivePools
                                      /\ pool[pool[x].zoneNext].zonePrev = x
                                      /\ pool[pool[x].zoneNext].zone = pool[x].zone
        /\ pool[x].zonePrev = None => zone[pool[x].zone].firstPool = x
        /\ pool[x].zonePrev # None => /\ pool[x].zonePrev \in LivePools
                                      /\ pool[pool[x].zonePrev].zoneNext = x
                                      /\ pool[pool[x].zonePrev].zone = pool[x].zone
  <2> TAKE x \in LivePools
  <2>1. pool[x].zoneNext \in PoolIds \cup {None} /\ pool[x].zonePrev \in PoolIds \cup {None}
    BY <1>1, LinkTypes
  <2> QED BY <1>1, <2>1 DEF PlaceLinks
<1>3. \A y \in ZoneIds : zone[y].live /\ zone[y].firstPool # None =>
        /\ zone[y].firstPool \in LivePools
        /\ pool[zone[y].firstPool].zone = y /\ pool[zone[y].firstPool].zonePrev = None
  BY <1>1, PlaceTypes DEF PlaceLinks
<1>4. \A x \in LivePools :
        /\ pool[x].parent = None => pool[x].nextSibling = None /\ pool[x].siblingPrev = None
        /\ pool[x].parent # None => pool[x].parent \in LivePools
        /\ pool[x].nextSibling # None => /\ pool[x].nextSibling \in LivePools
                                         /\ pool[pool[x].nextSibling].siblingPrev = x
                                         /\ pool[pool[x].nextSibling].parent = pool[x].parent
        /\ pool[x].parent # None /\ pool[x].siblingPrev = None =>
             pool[pool[x].parent].firstChild = x
        /\ pool[x].siblingPrev # None => /\ pool[x].siblingPrev \in LivePools
                                         /\ pool[pool[x].siblingPrev].nextSibling = x
                                         /\ pool[pool[x].siblingPrev].parent = pool[x].parent
        /\ pool[x].firstChild # None => /\ pool[x].firstChild \in LivePools
                                        /\ pool[pool[x].firstChild].parent = x
                                        /\ pool[pool[x].firstChild].siblingPrev = None
  <2> TAKE x \in LivePools
  <2>1. /\ pool[x].nextSibling \in PoolIds \cup {None}
        /\ pool[x].siblingPrev \in PoolIds \cup {None}
        /\ pool[x].parent \in PoolIds \cup {None}
        /\ pool[x].firstChild \in PoolIds \cup {None}
    BY <1>1, LinkTypes
  <2> QED BY <1>1, <2>1 DEF ChildLinks
<1>5. old \in LivePools \cup {None} /\ (old # None => /\ pool[old].parent = q
                                                      /\ pool[old].siblingPrev = None
                                                      /\ q \in LivePools)
  BY <1>1, <1>4
<1>6. ASSUME NEW x \in LivePools
      PROVE  /\ pool'[x].zone \in ZoneIds /\ zone'[pool'[x].zone].live
             /\ pool'[x].zoneNext # None => /\ pool'[pool'[x].zoneNext].live
                                            /\ pool'[pool'[x].zoneNext].zonePrev = x
                                            /\ pool'[pool'[x].zoneNext].zone = pool'[x].zone
             /\ pool'[x].zonePrev = None => zone'[pool'[x].zone].firstPool = x
             /\ pool'[x].zonePrev # None => /\ pool'[pool'[x].zonePrev].live
                                            /\ pool'[pool'[x].zonePrev].zoneNext = x
                                            /\ pool'[pool'[x].zonePrev].zone = pool'[x].zone
  <2>1. x \in PoolIds \ {p} /\ pool'[x].zone = pool[x].zone /\ pool'[x].zoneNext = pool[x].zoneNext
    BY <1>1 DEF Made
  <2>2. ASSUME pool[x].zoneNext # None
        PROVE  /\ pool'[pool[x].zoneNext].live /\ pool'[pool[x].zoneNext].zonePrev = x
               /\ pool'[pool[x].zoneNext].zone = pool[x].zone
    <3>1. pool[x].zoneNext \in PoolIds \ {p} /\ pool[x].zoneNext # zone[z].firstPool
      BY <1>1, <1>2, <1>3, <2>2
    <3> QED BY <1>1, <1>2, <2>2, <3>1 DEF Made
  <2>3. CASE x = zone[z].firstPool
    BY <1>1, <1>2, <1>3, <2>1, <2>2, <2>3 DEF Made
  <2>4. CASE x # zone[z].firstPool
    <3>1. pool'[x].zonePrev = pool[x].zonePrev
      BY <2>1, <2>4 DEF Made
    <3>2. pool[x].zonePrev = None => zone'[pool[x].zone].firstPool = x
      BY <1>2, <2>4 DEF Made
    <3>3. pool[x].zonePrev # None => /\ pool'[pool[x].zonePrev].live
                                     /\ pool'[pool[x].zonePrev].zoneNext = x
                                     /\ pool'[pool[x].zonePrev].zone = pool[x].zone
      BY <1>1, <1>2 DEF Made
    <3>4. pool[x].zone \in ZoneIds /\ zone'[pool[x].zone].live
      BY <1>2 DEF Made
    <3> QED BY <2>1, <2>2, <3>1, <3>2, <3>3, <3>4
  <2> QED BY <2>3, <2>4
<1>7. /\ pool'[p].zone \in ZoneIds /\ zone'[pool'[p].zone].live
      /\ pool'[p].zoneNext # None => /\ pool'[pool'[p].zoneNext].live
                                     /\ pool'[pool'[p].zoneNext].zonePrev = p
                                     /\ pool'[pool'[p].zoneNext].zone = pool'[p].zone
      /\ pool'[p].zonePrev = None => zone'[pool'[p].zone].firstPool = p
      /\ pool'[p].zonePrev = None
  <2>1. zone[z].firstPool # None => zone[z].firstPool \in PoolIds \ {p}
                                    /\ pool[zone[z].firstPool].live
                                    /\ pool[zone[z].firstPool].zone = z
    BY <1>1, <1>3
  <2> QED BY <2>1 DEF Made
<1>8. ASSUME NEW y \in ZoneIds, zone'[y].live, zone'[y].firstPool # None
      PROVE  /\ pool'[zone'[y].firstPool].live /\ pool'[zone'[y].firstPool].zone = y
             /\ pool'[zone'[y].firstPool].zonePrev = None
  <2>1. CASE y = z
    BY <2>1 DEF Made
  <2>2. CASE y # z
    <3>1. zone'[y].firstPool = zone[y].firstPool /\ zone[y].live /\ zone[y].firstPool # None
      BY <1>8, <2>2 DEF Made
    <3>2. PICK n \in LivePools : n = zone[y].firstPool /\ pool[n].zone = y /\ pool[n].zonePrev = None
      BY <1>3, <3>1
    <3>3. n \in PoolIds \ {p} /\ n # zone[z].firstPool
      BY <1>1, <1>3, <2>2, <3>2
    <3> QED BY <1>1, <3>1, <3>2, <3>3 DEF Made
  <2> QED BY <2>1, <2>2
<1>9. PlaceLinks'
  BY <1>1, <1>6, <1>7, <1>8 DEF PlaceLinks
<1>10. ASSUME NEW x \in LivePools
       PROVE  /\ pool'[x].parent = None => pool'[x].nextSibling = None /\ pool'[x].siblingPrev = None
              /\ pool'[x].parent # None => pool'[pool'[x].parent].live
              /\ pool'[x].nextSibling # None => /\ pool'[pool'[x].nextSibling].live
                                                /\ pool'[pool'[x].nextSibling].siblingPrev = x
                                                /\ pool'[pool'[x].nextSibling].parent = pool'[x].parent
  <2>1. /\ x \in PoolIds \ {p} /\ pool'[x].parent = pool[x].parent
        /\ pool'[x].nextSibling = pool[x].nextSibling
    BY <1>1 DEF Made
  <2>2. pool[x].parent = None => pool[x].nextSibling = None /\ pool'[x].siblingPrev = None
    BY <1>1, <1>4, <1>5, <2>1 DEF Made
  <2>3. pool[x].parent # None => pool'[pool[x].parent].live
    BY <1>1, <1>4 DEF Made
  <2>4. ASSUME pool[x].nextSibling # None
        PROVE  /\ pool'[pool[x].nextSibling].live
               /\ pool'[pool[x].nextSibling].siblingPrev = x
               /\ pool'[pool[x].nextSibling].parent = pool[x].parent
    <3>1. PICK n \in LivePools : /\ n = pool[x].nextSibling /\ pool[n].siblingPrev = x
                                 /\ pool[n].parent = pool[x].parent
      BY <1>4, <2>4
    <3>2. n \in PoolIds \ {p} /\ n # old
      BY <1>1, <1>5, <3>1
    <3> QED BY <1>1, <3>1, <3>2 DEF Made
  <2> QED BY <2>1, <2>2, <2>3, <2>4
<1>11. ASSUME NEW x \in LivePools
       PROVE  /\ pool'[x].parent # None /\ pool'[x].siblingPrev = None =>
                   pool'[pool'[x].parent].firstChild = x
              /\ pool'[x].siblingPrev # None => /\ pool'[pool'[x].siblingPrev].live
                                                /\ pool'[pool'[x].siblingPrev].nextSibling = x
                                                /\ pool'[pool'[x].siblingPrev].parent = pool'[x].parent
              /\ pool'[x].firstChild # None => /\ pool'[pool'[x].firstChild].live
                                               /\ pool'[pool'[x].firstChild].parent = x
                                               /\ pool'[pool'[x].firstChild].siblingPrev = None
  <2>1. x \in PoolIds \ {p} /\ pool'[x].parent = pool[x].parent
    BY <1>1 DEF Made
  <2>2. ASSUME pool[x].parent # None, pool'[x].siblingPrev = None
        PROVE  pool'[pool[x].parent].firstChild = x
    <3>1. x # old /\ pool[x].siblingPrev = None
      BY <1>1, <2>1, <2>2 DEF Made
    <3>2. PICK u \in LivePools : u = pool[x].parent /\ pool[u].firstChild = x
      BY <1>4, <2>2, <3>1
    <3>3. u # q /\ u \in PoolIds \ {p}
      BY <1>1, <3>1, <3>2
    <3> QED BY <3>2, <3>3 DEF Made
  <2>3. ASSUME pool'[x].siblingPrev # None
        PROVE  /\ pool'[pool'[x].siblingPrev].live
               /\ pool'[pool'[x].siblingPrev].nextSibling = x
               /\ pool'[pool'[x].siblingPrev].parent = pool[x].parent
    <3>1. CASE x = old
      BY <1>1, <1>5, <2>1, <3>1 DEF Made
    <3>2. CASE x # old
      <4>1. pool'[x].siblingPrev = pool[x].siblingPrev
        BY <2>1, <3>2 DEF Made
      <4>2. PICK n \in LivePools : /\ n = pool[x].siblingPrev /\ pool[n].nextSibling = x
                                   /\ pool[n].parent = pool[x].parent
        BY <1>4, <2>3, <4>1
      <4>3. n \in PoolIds \ {p}
        BY <1>1
      <4> QED BY <1>1, <4>1, <4>2, <4>3 DEF Made
    <3> QED BY <3>1, <3>2
  <2>4. ASSUME pool'[x].firstChild # None
        PROVE  /\ pool'[pool'[x].firstChild].live
               /\ pool'[pool'[x].firstChild].parent = x
               /\ pool'[pool'[x].firstChild].siblingPrev = None
    <3>1. CASE x = q
      BY <2>1, <3>1 DEF Made
    <3>2. CASE x # q
      <4>1. pool'[x].firstChild = pool[x].firstChild
        BY <2>1, <3>2 DEF Made
      <4>2. PICK n \in LivePools : /\ n = pool[x].firstChild /\ pool[n].parent = x
                                   /\ pool[n].siblingPrev = None
        BY <1>4, <2>4, <4>1
      <4>3. n \in PoolIds \ {p} /\ n # old
        BY <1>1, <1>5, <3>2, <4>2
      <4> QED BY <1>1, <4>1, <4>2, <4>3 DEF Made
    <3> QED BY <3>1, <3>2
  <2> QED BY <2>1, <2>2, <2>3, <2>4
<1>12. /\ pool'[p].parent = None => pool'[p].nextSibling = None /\ pool'[p].siblingPrev = None
       /\ pool'[p].parent # None => pool'[pool'[p].parent].live
       /\ pool'[p].nextSibling # None => /\ pool'[pool'[p].nextSibling].live
                                         /\ pool'[pool'[p].nextSibling].siblingPrev = p
                                         /\ pool'[pool'[p].nextSibling].parent = pool'[p].parent
       /\ pool'[p].parent # None /\ pool'[p].siblingPrev = None =>
            pool'[pool'[p].parent].firstChild = p
       /\ pool'[p].siblingPrev = None /\ pool'[p].firstChild = None
  <2>1. q # None => q \in PoolIds \ {p} /\ pool[q].live
    BY <1>1
  <2>2. old # None => old \in PoolIds \ {p} /\ pool[old].live /\ pool[old].parent = q
    BY <1>1, <1>5
  <2> QED BY <2>1, <2>2 DEF Made
<1>13. ChildLinks'
  BY <1>1, <1>10, <1>11, <1>12 DEF ChildLinks
<1> QED BY <1>9, <1>13

\* The table with a pool born in it, when nothing that is free is linked to.
LEMMA BornTable ==
  ASSUME Typed, ChainInv, NEW q \in PoolIds \cup {None}, NEW z \in ZoneIds,
         NewAt(z), q # None => pool[q].live, NEW Q, Q = Born(q, z),
         NEW p, p = TakenId
  PROVE  /\ p \in PoolIds /\ ~pool[p].live
         /\ Q \in [PoolIds -> PoolRec]
         /\ Q[p].live /\ Q[p].generation = pool[p].generation + 1
         /\ Q[p].blocks = {} /\ Q[p].bytes = 0
         /\ \A x \in PoolIds \ {p} :
              /\ Q[x].live <=> pool[x].live
              /\ Q[x].generation = pool[x].generation
              /\ Q[x].blocks = pool[x].blocks /\ Q[x].bytes = pool[x].bytes
              /\ Q[x].freeNext = Grown[x].freeNext
<1>1. /\ CanTake /\ ~pool[p].live /\ p \in PoolIds /\ zone[z].live
  BY TakenFacts DEF NewAt
<1>2. p \notin LivePools /\ p # None /\ p # q
  BY <1>1, NoneApart DEF LivePools
<1>3. zone[z].firstPool # p
  BY <1>1, <1>2 DEF ChainInv, PlaceLinks
<1>4. q # None => pool[q].firstChild # p
  BY <1>1, <1>2 DEF ChainInv, ChildLinks, LivePools
<1>5. /\ q # TakenId /\ zone[z].firstPool # TakenId
      /\ q # None => pool[q].firstChild # TakenId
      /\ ~pool[TakenId].live
  BY <1>1, <1>2, <1>3, <1>4
<1>6. PICK old : old = IF q = None THEN None ELSE pool[q].firstChild
  OBVIOUS
<1>7. Q = Born(q, z) /\ p = TakenId
  OBVIOUS
<1> QED BY ONLY Typed, <1>1, <1>5, <1>6, <1>7, q \in PoolIds \cup {None},
               z \in ZoneIds, BornFields

\* The next table has the links of Q.
LinkedAs(Q) ==
  \A x \in PoolIds :
    /\ pool'[x].live <=> Q[x].live
    /\ pool'[x].zone = Q[x].zone /\ pool'[x].parent = Q[x].parent
    /\ pool'[x].zoneNext = Q[x].zoneNext /\ pool'[x].zonePrev = Q[x].zonePrev
    /\ pool'[x].nextSibling = Q[x].nextSibling
    /\ pool'[x].siblingPrev = Q[x].siblingPrev
    /\ pool'[x].firstChild = Q[x].firstChild

\* A pool is born, and its plate may change in the same step.
LEMMA MakeStep ==
  ASSUME Typed, ChainInv, NEW q \in PoolIds \cup {None}, NEW z \in ZoneIds,
         NewAt(z), rt = <<>>, q # None => pool[q].live,
         NEW Q, Q = Born(q, z),
         pool' \in [PoolIds -> PoolRec],
         LinkedAs(Q),
         kind' \in [PoolIds -> {0, 1}], made' \in [PoolIds -> 0..2],
         size' \in [Blocks -> Nat],
         UNCHANGED <<zoneN, zoneFree, zoneTop, tasks, calls, rt>>
  PROVE  /\ Typed' /\ ChainInv'
         /\ \A y \in ZoneIds : (zone'[y].live <=> zone[y].live)
                               /\ zone'[y].parent = zone[y].parent
<1>1. /\ rt = <<>> /\ rt' = <<>> /\ CanTake /\ ~pool[TakenId].live
      /\ zone[z].live /\ (q # None => pool[q].live)
      /\ UNCHANGED <<zoneN, zoneFree, zoneTop, tasks, calls>>
  BY DEF NewAt
<1>2. PICK p \in PoolIds : p = TakenId
  BY <1>1, TakenFacts
<1>3. q \in LivePools \cup {None} /\ p \notin LivePools /\ p # None /\ p # q
  BY <1>1, <1>2, NoneApart DEF LivePools
<1>4. PICK old \in PoolIds \cup {None} :
        old = IF q = None THEN None ELSE pool[q].firstChild
  BY LinkTypes
<1>5. zone[z].firstPool # p
  BY <1>1, <1>2, <1>3 DEF ChainInv, PlaceLinks
<1>6. q # None => pool[q].firstChild # p
  BY <1>1, <1>2, <1>3 DEF ChainInv, ChildLinks, LivePools
<1>8. /\ Q \in [PoolIds -> PoolRec]
         /\ Q[p].live
         /\ Q[p].zone = z /\ Q[p].parent = q /\ Q[p].firstChild = None
         /\ Q[p].zoneNext = zone[z].firstPool /\ Q[p].zonePrev = None
         /\ Q[p].nextSibling = old /\ Q[p].siblingPrev = None
         /\ \A x \in PoolIds \ {p} :
              /\ Q[x].live <=> pool[x].live
              /\ Q[x].zone = pool[x].zone /\ Q[x].parent = pool[x].parent
              /\ Q[x].zoneNext = pool[x].zoneNext
              /\ Q[x].zonePrev = IF x = zone[z].firstPool THEN p ELSE pool[x].zonePrev
              /\ Q[x].nextSibling = pool[x].nextSibling
              /\ Q[x].siblingPrev = IF x = old THEN p ELSE pool[x].siblingPrev
              /\ Q[x].firstChild = IF x = q THEN p ELSE pool[x].firstChild
  <2>1. /\ q # TakenId /\ zone[z].firstPool # TakenId
        /\ q # None => pool[q].firstChild # TakenId
    BY <1>2, <1>3, <1>5, <1>6
  <2>2. Q = Born(q, z)
    OBVIOUS
  <2> QED BY ONLY Typed, <1>1, <1>2, <1>4, <2>1, <2>2, q \in PoolIds \cup {None},
                  z \in ZoneIds, BornFields
<1>10. zone' = [zone EXCEPT ![z].firstPool = p]
  BY <1>2 DEF NewAt
<1>11. zone' \in [ZoneIds -> ZoneRec]
       /\ \A y \in ZoneIds :
            /\ zone'[y].live <=> zone[y].live
            /\ zone'[y].parent = zone[y].parent
            /\ zone'[y].firstPool = IF y = z THEN p ELSE zone[y].firstPool
  <2>1. PICK o \in ZoneRec : o = zone[z]
    BY PlaceTypes
  <2>2. PICK c \in ZoneRec : c = [o EXCEPT !.firstPool = p]
    BY DEF ZoneRec
  <2>3. /\ c.live <=> o.live
        /\ c.parent = o.parent /\ c.firstPool = p
    BY <2>2 DEF ZoneRec
  <2>4. zone' = [zone EXCEPT ![z] = c]
    BY <1>10, <2>1, <2>2
  <2> QED BY <2>1, <2>3, <2>4 DEF Typed
<1>12. Made(p, q, z, old)
  <2>1. \A x \in PoolIds :
           /\ pool'[x].live <=> Q[x].live
           /\ pool'[x].zone = Q[x].zone /\ pool'[x].parent = Q[x].parent
           /\ pool'[x].zoneNext = Q[x].zoneNext /\ pool'[x].zonePrev = Q[x].zonePrev
           /\ pool'[x].nextSibling = Q[x].nextSibling
           /\ pool'[x].siblingPrev = Q[x].siblingPrev
           /\ pool'[x].firstChild = Q[x].firstChild
    BY DEF LinkedAs
  <2> QED BY ONLY <1>8, <1>11, <2>1, p \in PoolIds DEF Made
<1>13. PlaceLinks' /\ ChildLinks'
  BY <1>1, <1>2, <1>3, <1>4, <1>12, MadeLinks DEF ChainInv
<1>14. rt' \in Seq(FrameRec) /\ Shape' /\ Saved' /\ \A r : FrameOrder(r)'
  BY <1>1, NoFrames
<1>15. Typed'
  <2>1. poolCap' \in 0..TableMax /\ poolFree' \in PoolIds \cup {None}
    <3>1. /\ WantCap \in Nat /\ (poolFree = None => WantCap <= TableMax)
          /\ FreeAfterTake \in PoolIds \cup {None}
      BY <1>1, TakenFacts
    <3>2. poolFree' = FreeAfterTake /\ poolCap' = IF poolFree # None THEN poolCap ELSE WantCap
      BY DEF NewAt
    <3> QED BY <3>1, <3>2, PoolsAssumption DEF Typed
  <2> QED BY <1>1, <1>11, <1>14, <2>1 DEF Typed
<1>16. Ordered'
  <2>1. PICK r \in [PoolIds -> Nat], m \in Nat : LinkOrder(r, m)
    BY DEF ChainInv, Ordered
  <2>2. PICK s \in [PoolIds -> Nat] : s = [r EXCEPT ![p] = m]
    OBVIOUS
  <2>3. s[p] = m /\ \A x \in PoolIds \ {p} : s[x] = r[x]
    BY <2>2
  <2>4. \A x \in LivePools : x \in PoolIds \ {p} /\ r[x] < m
    BY <1>3, <2>1 DEF LinkOrder, LivePools
  <2>5. LivePools' = LivePools \cup {p}
    BY <1>12 DEF Made, LivePools
  <2>6. LinkOrder(s, m + 1)'
    <3> SUFFICES ASSUME NEW x \in LivePools \cup {p}
                 PROVE  /\ s[x] < m + 1
                        /\ pool'[x].zoneNext # None => s[pool'[x].zoneNext] < s[x]
                        /\ pool'[x].nextSibling # None => s[pool'[x].nextSibling] < s[x]
                        /\ pool'[x].parent # None => s[pool'[x].parent] < s[x]
      BY <2>5 DEF LinkOrder
    <3>1. CASE x = p
      <4>1. zone[z].firstPool # None => zone[z].firstPool \in LivePools
        BY <1>1, PlaceTypes DEF ChainInv, PlaceLinks, LivePools
      <4>2. old # None => old \in LivePools
        BY <1>3, <1>4 DEF ChainInv, ChildLinks, LivePools
      <4> QED BY <1>3, <1>12, <2>3, <2>4, <3>1, <4>1, <4>2 DEF Made
    <3>2. CASE x # p
      <4>1. x \in LivePools /\ x \in PoolIds \ {p} /\ s[x] = r[x] /\ r[x] < m
        BY <2>3, <2>4, <3>2
      <4>2. /\ pool'[x].zoneNext = pool[x].zoneNext
            /\ pool'[x].nextSibling = pool[x].nextSibling /\ pool'[x].parent = pool[x].parent
        BY <1>12, <4>1 DEF Made
      <4>3. /\ pool[x].zoneNext # None => pool[x].zoneNext \in LivePools
            /\ pool[x].nextSibling # None => pool[x].nextSibling \in LivePools
            /\ pool[x].parent # None => pool[x].parent \in LivePools
        BY <4>1, LinkTypes DEF ChainInv, PlaceLinks, ChildLinks, LivePools
      <4>4. /\ pool[x].zoneNext # None => r[pool[x].zoneNext] < r[x]
            /\ pool[x].nextSibling # None => r[pool[x].nextSibling] < r[x]
            /\ pool[x].parent # None => r[pool[x].parent] < r[x]
        BY <2>1, <4>1 DEF LinkOrder
      <4>5. s[x] < m + 1
        BY <4>1
      <4> QED BY <2>3, <2>4, <4>1, <4>2, <4>3, <4>4, <4>5
    <3> QED BY <3>1, <3>2
  <2>7. FrameOrder(s)' /\ m + 1 \in Nat
    BY <1>14
  <2> QED BY <2>6, <2>7 DEF Ordered
<1>17. PlacesFree'
  <2>1. /\ zoneN' = zoneN /\ zoneFree' = zoneFree /\ zoneFree \in ZoneIds \cup {None}
    BY <1>1 DEF Typed
  <2>2. \A y \in ZoneIds : zone[y].parent \in ZoneIds \cup {None}
    BY PlaceTypes
  <2> QED BY <1>11, <2>1, <2>2 DEF ChainInv, PlacesFree
<1> QED BY <1>11, <1>13, <1>14, <1>15, <1>16, <1>17 DEF ChainInv

LEMMA PoolNewStep ==
  ASSUME Typed, ChainInv, NEW q \in PoolIds \cup {None}, NEW z \in ZoneIds,
         NEW k \in Makes, PoolNew(q, z, k)
  PROVE  /\ Typed' /\ ChainInv'
         /\ \A y \in ZoneIds : (zone'[y].live <=> zone[y].live)
                               /\ zone'[y].parent = zone[y].parent
<1>1. /\ rt = <<>> /\ NewAt(z) /\ (q # None => pool[q].live)
      /\ UNCHANGED <<zoneN, zoneFree, zoneTop, tasks, calls, rt>>
  BY DEF PoolNew, Running
<1>2. PICK p \in PoolIds : p = TakenId
  BY <1>1, TakenFacts DEF NewAt
<1>3. PICK Q : Q = Born(q, z)
  OBVIOUS
<1>4. pool' = Q /\ size' \in [Blocks -> Nat]
  BY <1>3 DEF PoolNew, memVars, Typed
<1>5. Q \in [PoolIds -> PoolRec]
  BY ONLY Typed, ChainInv, <1>1, <1>2, <1>3, q \in PoolIds \cup {None}, z \in ZoneIds, BornTable
<1>6. kind' \in [PoolIds -> {0, 1}] /\ made' \in [PoolIds -> 0..2]
  <2>1. k \in 0..2
    BY PoolsAssumption
  <2>2. made' = [made EXCEPT ![p] = k] /\ kind' = IF k = 1 THEN [kind EXCEPT ![p] = 1] ELSE kind
    BY <1>2 DEF PoolNew
  <2> QED BY <2>1, <2>2 DEF Typed
<1>7. LinkedAs(Q)
  BY <1>4 DEF LinkedAs
<1> QED BY ONLY Typed, ChainInv, q \in PoolIds \cup {None}, z \in ZoneIds, <1>1, <1>3, <1>4,
               <1>5, <1>6, <1>7, MakeStep

\* A container drops, resets or releases its pool.
LEMMA PoolCallStep ==
  ASSUME Typed, ChainInv, NEW p \in PoolIds, PoolDrop(p) \/ PoolReset(p) \/ Release(p)
  PROVE  Typed' /\ ChainInv' /\ Matched
<1>1. /\ pool[p].live
      /\ UNCHANGED <<poolVars, zoneVars, memVars, tasks, calls, halted>>
  BY DEF PoolDrop, PoolReset, Release, PoolCall
<1>2. PICK n \in PoolIds \cup {None} : n = pool[p].firstChild
  BY LinkTypes
<1>3. p \in Int /\ n \in Int /\ None \in Int
  BY NoneApart
<1>4. /\ rt' \in Seq(FrameRec)
      /\ Shape' /\ Saved' /\ \A r : FrameOrder(r)'
      /\ \A j \in 1..Depth' : rt'[j].fn \in {"call", "reset"}
  <2>1. CASE PoolDrop(p)
    <3>1. rt' = Frame("call", p, None)
      BY <2>1 DEF PoolDrop, PoolCall
    <3>2. rt' \in Seq(FrameRec) /\ Depth' = 1 /\ rt'[1].fn = "call" /\ rt'[1].id = p
      BY <1>3, <3>1, StartFrame
    <3> QED BY <1>1, <3>2, FirstFrame DEF poolVars, zoneVars
  <2>2. CASE PoolReset(p)
    <3>1. rt' = Frame("reset", p, n) /\ pool[p].generation < GenMax
      BY <1>2, <2>2 DEF PoolReset, PoolCall
    <3>2. /\ rt' \in Seq(FrameRec) /\ Depth' = 1 /\ rt'[1].fn = "reset" /\ rt'[1].id = p
          /\ rt'[1].next = n
      BY <1>3, <3>1, StartFrame
    <3> QED BY <1>1, <1>2, <3>1, <3>2, FirstFrame DEF poolVars, zoneVars
  <2>3. CASE Release(p)
    <3>1. rt' = Frame("reset", p, n) \o Frame("call", p, None) /\ pool[p].generation < GenMax
      BY <1>2, <2>3 DEF Release, PoolCall
    <3>2. PICK f \in FrameRec : /\ Frame("reset", p, n) = <<f>>
                                /\ f.fn = "reset" /\ f.id = p /\ f.next = n
      BY <1>3, FrameFacts
    <3>3. PICK g \in FrameRec : /\ Frame("call", p, None) = <<g>>
                                /\ g.fn = "call" /\ g.id = p /\ g.next = None
      BY <1>3, FrameFacts
    <3>4. rt' = <<f, g>>
      BY <3>1, <3>2, <3>3, FrameSeq
    <3>5. rt' \in Seq(FrameRec) /\ Depth' = 2 /\ rt'[1] = f /\ rt'[2] = g
      BY <3>4, FrameSeq DEF Depth
    <3>6. Shape'
      <4>1. ShapeAt(1)' /\ ShapeAt(2)'
        BY <3>2, <3>3, <3>5 DEF ShapeAt
      <4> QED BY <3>5, <4>1 DEF Shape
    <3>7. Saved'
      <4>1. SavedAt(1)' /\ SavedAt(2)'
        BY <1>1, <1>2, <3>1, <3>2, <3>3, <3>5 DEF SavedAt, poolVars
      <4> QED BY <3>5, <4>1 DEF Saved
    <3>8. \A r : FrameOrder(r)'
      <4>1. rt'[2].fn = "call" /\ \A i, j \in 1..Depth' : i < j => j = 2
        BY <3>3, <3>5
      <4> QED BY <4>1 DEF FrameOrder
    <3>9. \A j \in 1..Depth' : rt'[j].fn \in {"call", "reset"}
      BY <3>2, <3>3, <3>5
    <3> QED BY <3>5, <3>6, <3>7, <3>8, <3>9
  <2> QED BY <2>1, <2>2, <2>3
<1>5. Typed'
  BY <1>1, <1>4 DEF Typed, poolVars, zoneVars, memVars
<1>6. Depth = 0
  BY FrameTypes DEF PoolDrop, PoolReset, Release, PoolCall, Running
<1>7. Matched
  BY <1>4, <1>6 DEF Matched
<1> QED BY <1>1, <1>4, <1>5, <1>7, StillTables DEF zoneVars

\* The record of a pool whose plate changes.
LEMMA PlateSet ==
  ASSUME NEW o \in PoolRec, NEW B \in SUBSET Blocks, NEW n \in Int
  PROVE  \E c \in PoolRec :
           /\ c = [o EXCEPT !.blocks = B, !.bytes = n]
           /\ c.live <=> o.live
           /\ c.zone = o.zone /\ c.parent = o.parent
           /\ c.zoneNext = o.zoneNext /\ c.zonePrev = o.zonePrev
           /\ c.nextSibling = o.nextSibling /\ c.siblingPrev = o.siblingPrev
           /\ c.firstChild = o.firstChild
<1>1. PICK u \in PoolRec : u = [o EXCEPT !.blocks = B]
  BY DEF PoolRec
<1>2. PICK c \in PoolRec : c = [u EXCEPT !.bytes = n]
  BY ZenonT(30) DEF PoolRec
<1>3. c = [o EXCEPT !.blocks = B, !.bytes = n]
  BY <1>1, <1>2
<1>4. /\ c.live <=> o.live
      /\ c.zone = o.zone /\ c.parent = o.parent
      /\ c.zoneNext = o.zoneNext /\ c.zonePrev = o.zonePrev
      /\ c.nextSibling = o.nextSibling /\ c.siblingPrev = o.siblingPrev
      /\ c.firstChild = o.firstChild
  BY <1>1, <1>2 DEF PoolRec
<1> QED BY <1>3, <1>4

\* A step of a container on its plate.
LEMMA PlateStep ==
  ASSUME Typed, ChainInv, NEW p \in PoolIds, NEW B \in SUBSET Blocks, NEW n \in Int,
         pool' = [pool EXCEPT ![p].blocks = B, ![p].bytes = n],
         size' \in [Blocks -> Nat], rt = <<>>,
         UNCHANGED <<poolCap, poolFree, kind, made, zoneVars, tasks, calls, rt>>
  PROVE  Typed' /\ ChainInv'
<1>1. PICK o \in PoolRec : o = pool[p]
  BY LinkTypes
<1>2. PICK c \in PoolRec :
           /\ c = [o EXCEPT !.blocks = B, !.bytes = n]
           /\ c.live <=> o.live
           /\ c.zone = o.zone /\ c.parent = o.parent
           /\ c.zoneNext = o.zoneNext /\ c.zonePrev = o.zonePrev
           /\ c.nextSibling = o.nextSibling /\ c.siblingPrev = o.siblingPrev
           /\ c.firstChild = o.firstChild
  BY PlateSet
<1>3. pool' = [pool EXCEPT ![p] = c]
  BY <1>1, <1>2
<1>4. pool' \in [PoolIds -> PoolRec] /\ pool'[p] = c /\ \A x \in PoolIds \ {p} : pool'[x] = pool[x]
  BY <1>3 DEF Typed
<1>5. SameLinks
  BY <1>1, <1>2, <1>4 DEF SameLinks
<1>6. PlaceLinks' /\ ChildLinks'
  BY <1>5, LinksKept, SameTables DEF ChainInv, zoneVars
<1>7. rt' \in Seq(FrameRec) /\ Shape' /\ Saved' /\ \A r : FrameOrder(r)'
  BY NoFrames
<1>8. Typed'
  BY <1>4, <1>7 DEF Typed, zoneVars
<1>9. PlacesFree'
  BY DEF ChainInv, PlacesFree, zoneVars
<1>10. Ordered'
  <2>1. PICK r \in [PoolIds -> Nat], m \in Nat : LinkOrder(r, m)
    BY DEF ChainInv, Ordered
  <2>2. LinkOrder(r, m)'
    BY <1>5, <2>1, OrderKept
  <2> QED BY <1>7, <2>2 DEF Ordered
<1> QED BY <1>6, <1>7, <1>8, <1>9, <1>10 DEF ChainInv

LEMMA TakeStep ==
  ASSUME Typed, ChainInv, NEW p \in PoolIds, NEW b \in Blocks, NEW n \in Sizes, Take(p, b, n)
  PROVE  Typed' /\ ChainInv'
<1>1. /\ rt = <<>>
      /\ pool' = [pool EXCEPT ![p].blocks = @ \cup {b}, ![p].bytes = @ + n]
      /\ size' = [size EXCEPT ![b] = n]
      /\ UNCHANGED <<poolCap, poolFree, kind, made, zoneVars, tasks, calls, rt>>
  BY DEF Take, Running
<1>2. n \in Nat
  BY PoolsAssumption
<1>3. pool[p].blocks \in SUBSET Blocks /\ pool[p].bytes \in Int
  BY LinkTypes DEF PoolRec
<1>40. PICK B \in SUBSET Blocks : B = pool[p].blocks \cup {b}
  BY <1>3
<1>4. PICK k \in Int : k = pool[p].bytes + n
  BY <1>2, <1>3
<1>5. pool' = [pool EXCEPT ![p].blocks = B, ![p].bytes = k]
  BY <1>1, <1>4, <1>40
<1>6. size' \in [Blocks -> Nat]
  BY <1>1, <1>2 DEF Typed
<1> QED BY ONLY Typed, ChainInv, p \in PoolIds, B \in SUBSET Blocks, k \in Int, <1>1, <1>5, <1>6, PlateStep

LEMMA ReworkStep ==
  ASSUME Typed, ChainInv, NEW p \in PoolIds, Rework(p)
  PROVE  Typed' /\ ChainInv'
<1>1. rt = <<>> /\ UNCHANGED <<poolCap, poolFree, kind, made, zoneVars, tasks, calls, rt>>
  BY DEF Rework, Running
<1>2. PICK b \in pool[p].blocks :
        Trap \/ Give(p, b) \/ \E c \in Blocks, n \in Sizes : Resize(p, b, c, n)
  BY DEF Rework
<1>3. pool[p].blocks \in SUBSET Blocks /\ pool[p].bytes \in Int /\ b \in Blocks /\ size[b] \in Nat
  BY LinkTypes DEF PoolRec, Typed
<1>4. CASE Trap
  <2>1. UNCHANGED <<poolVars, zone, zoneN, zoneFree, zoneVars, memVars, tasks, calls>>
    BY <1>1, <1>4 DEF Trap, poolVars, zoneVars
  <2>2. rt' \in Seq(FrameRec) /\ Shape' /\ Saved' /\ \A r : FrameOrder(r)'
    BY <1>1, NoFrames
  <2>3. Typed'
    BY <2>1, <2>2 DEF Typed, poolVars, zoneVars, memVars
  <2> QED BY <2>1, <2>2, <2>3, StillTables
<1>5. CASE Give(p, b)
  <2>0. PICK B \in SUBSET Blocks : B = pool[p].blocks \ {b}
    BY <1>3
  <2>1. PICK k \in Int : k = pool[p].bytes - size[b]
    BY <1>3
  <2>2. pool' = [pool EXCEPT ![p].blocks = B, ![p].bytes = k]
    BY <1>5, <2>0, <2>1 DEF Give
  <2>3. size' \in [Blocks -> Nat]
    BY <1>5 DEF Give, Typed
  <2> QED BY ONLY Typed, ChainInv, p \in PoolIds, B \in SUBSET Blocks, k \in Int, <1>1, <2>2, <2>3, PlateStep
<1>6. ASSUME NEW c \in Blocks, NEW n \in Sizes, Resize(p, b, c, n)
      PROVE  Typed' /\ ChainInv'
  <2>0. n \in Nat
    BY PoolsAssumption
  <2>10. PICK B \in SUBSET Blocks : B = (pool[p].blocks \ {b}) \cup {c}
    BY <1>3
  <2>1. PICK k \in Int : k = pool[p].bytes + n - size[b]
    BY <1>3, <2>0
  <2>2. pool' = [pool EXCEPT ![p].blocks = B, ![p].bytes = k]
    BY <1>6, <2>10, <2>1 DEF Resize
  <2>3. size' \in [Blocks -> Nat]
    BY <1>6, <2>0 DEF Resize, Typed
  <2> QED BY ONLY Typed, ChainInv, p \in PoolIds, B \in SUBSET Blocks, k \in Int, <1>1, <2>2, <2>3, PlateStep
<1> QED BY <1>2, <1>4, <1>5, <1>6

-----------------------------------------------------------------------------
(***************************************************************************)
(* Frames of the generated code and tasks.                                 *)
(***************************************************************************)
LEMMA LevelTypes ==
  ASSUME Typed
  PROVE  /\ Level \in Nat /\ Begun \in Nat
         /\ (calls # <<>> => Level > 0)
         /\ \A i \in 1..Level : /\ calls[i].fn \in {"place", "step"}
                                /\ calls[i].id \in Int
                                /\ calls[i].sv \in ZoneIds \cup {None}
         /\ \A t \in 1..Begun : tasks[t] \in TaskRec /\ tasks[t].zone \in ZoneIds
<1>1. Level \in Nat /\ Begun \in Nat
  BY LenProperties DEF Typed, Level, Begun
<1>2. calls # <<>> => Level > 0
  BY EmptySeq DEF Typed, Level
<1>3. \A i \in 1..Level : calls[i] \in CallRec
  BY ElementOfSeq DEF Typed, Level
<1>4. \A t \in 1..Begun : tasks[t] \in TaskRec
  BY ElementOfSeq DEF Typed, Begun
<1> QED BY <1>1, <1>2, <1>3, <1>4 DEF CallRec, TaskRec

LEMMA CallPush ==
  ASSUME Typed, NEW c \in CallRec, calls' = <<c>> \o calls
  PROVE  /\ calls' \in Seq(CallRec) /\ Level' = Level + 1
         /\ calls'[1] = c /\ \A i \in 1..Level : calls'[i + 1] = calls[i]
<1>1. PICK s \in Seq(CallRec) : s = calls
  BY DEF Typed
<1>2. PICK t : t = <<c>> \o s
  OBVIOUS
<1>3. <<c>> \in Seq(CallRec) /\ Len(<<c>>) = 1 /\ <<c>>[1] = c /\ Len(s) \in Nat
  BY LenProperties
<1>4. /\ t \in Seq(CallRec) /\ Len(t) = 1 + Len(s)
      /\ \A i \in 1..(1 + Len(s)) : t[i] = IF i <= 1 THEN <<c>>[i] ELSE s[i - 1]
  BY ONLY <1>2, <1>3, s \in Seq(CallRec), ConcatProperties
<1>5. t[1] = c /\ \A i \in 1..Len(s) : t[i + 1] = s[i]
  <2>1. 1 \in 1..(1 + Len(s)) /\ \A i \in 1..Len(s) : i + 1 \in 1..(1 + Len(s)) /\ ~(i + 1 <= 1) /\ (i + 1) - 1 = i
    BY ONLY <1>3
  <2>2. \A i \in 1..(1 + Len(s)) : t[i] = IF i <= 1 THEN <<c>>[i] ELSE s[i - 1]
    BY ONLY <1>4
  <2>3. t[1] = <<c>>[1]
    BY ONLY <2>1, <2>2
  <2>4. ASSUME NEW i \in 1..Len(s)
        PROVE  t[i + 1] = s[i]
    <3>1. i + 1 \in 1..(1 + Len(s)) /\ ~(i + 1 <= 1) /\ (i + 1) - 1 = i
      BY ONLY <2>1, i \in 1..Len(s)
    <3> QED BY ONLY <2>2, <3>1
  <2> QED BY ONLY <1>3, <2>3, <2>4
<1>6. Level' = Len(t) /\ Level = Len(s) /\ calls' = t
  BY ONLY <1>1, <1>2, calls' = <<c>> \o calls DEF Level
<1>7. Level' = Level + 1
  BY ONLY <1>3, <1>4, <1>6
<1> QED BY ONLY <1>1, <1>4, <1>5, <1>6, <1>7

LEMMA CallCut ==
  ASSUME Typed, NEW k \in 1..Level, calls' = SubSeq(calls, k + 1, Level)
  PROVE  /\ calls' \in Seq(CallRec) /\ Level' = Level - k
         /\ \A i \in 1..(Level - k) : calls'[i] = calls[i + k]
<1>1. PICK s \in Seq(CallRec) : s = calls
  BY DEF Typed
<1>2. PICK n \in Nat : n = Level /\ k \in 1..n
  BY LevelTypes
<1>3. \A i \in 1..n : s[i] \in CallRec
  BY <1>1, <1>2, ElementOfSeq DEF Level
<1>4. PICK t : t = SubSeq(s, k + 1, n)
  OBVIOUS
<1>5. k + 1 \in Int /\ n \in Int /\ \A i \in (k + 1)..n : s[i] \in CallRec
  BY <1>2, <1>3
<1>6. /\ t \in Seq(CallRec)
      /\ Len(t) = IF k + 1 <= n THEN n - (k + 1) + 1 ELSE 0
      /\ \A i \in 1..(n - (k + 1) + 1) : t[i] = s[(k + 1) + i - 1]
  BY ONLY <1>4, <1>5, SubSeqProperties
<1>7. Len(t) = n - k
  BY ONLY <1>2, <1>6, k \in 1..n
<1>8. \A i \in 1..(n - k) : t[i] = s[i + k]
  <2>1. \A i \in 1..(n - (k + 1) + 1) : t[i] = s[(k + 1) + i - 1]
    BY ONLY <1>6
  <2> SUFFICES ASSUME NEW i \in 1..(n - k) PROVE t[i] = s[i + k]
    OBVIOUS
  <2>2. i \in 1..(n - (k + 1) + 1) /\ (k + 1) + i - 1 = i + k
    BY ONLY <1>2, i \in 1..(n - k)
  <2> QED BY ONLY <2>1, <2>2
<1>9. calls' = t /\ Level' = Len(t)
  BY ONLY <1>1, <1>2, <1>4, calls' = SubSeq(calls, k + 1, Level) DEF Level
<1> QED BY ONLY <1>1, <1>2, <1>6, <1>7, <1>8, <1>9

LEMMA CallReturn ==
  ASSUME Typed, calls # <<>>, calls' = Tail(calls)
  PROVE  /\ calls' \in Seq(CallRec) /\ Level' = Level - 1 /\ Level > 0
         /\ \A i \in 1..(Level - 1) : calls'[i] = calls[i + 1]
<1>1. PICK s \in Seq(CallRec) : s = calls /\ s # <<>>
  BY DEF Typed
<1>2. Tail(s) = SubSeq(s, 2, Len(s))
  BY ONLY <1>1, s \in Seq(CallRec), TailIsSubSeq
<1>3. Level > 0 /\ Level \in Nat
  BY LevelTypes
<1>4. calls' = SubSeq(calls, 1 + 1, Level)
  BY ONLY <1>1, <1>2, calls' = Tail(calls) DEF Level
<1>5. 1 \in 1..Level
  BY <1>3
<1> QED BY ONLY Typed, <1>3, <1>4, <1>5, CallCut

LEMMA TaskAppend ==
  ASSUME Typed, NEW e \in TaskRec, tasks' = Append(tasks, e)
  PROVE  /\ tasks' \in Seq(TaskRec) /\ Begun' = Begun + 1
         /\ tasks'[Begun + 1] = e /\ \A t \in 1..Begun : tasks'[t] = tasks[t]
<1>1. PICK s \in Seq(TaskRec) : s = tasks
  BY DEF Typed
<1>2. PICK u : u = Append(s, e)
  OBVIOUS
<1>3. /\ u \in Seq(TaskRec) /\ Len(u) = Len(s) + 1
      /\ \A t \in 1..Len(s) : u[t] = s[t]
      /\ u[Len(s) + 1] = e
  BY ONLY <1>2, s \in Seq(TaskRec), e \in TaskRec, AppendProperties
<1>4. Begun' = Len(u) /\ Begun = Len(s) /\ tasks' = u
  BY ONLY <1>1, <1>2, tasks' = Append(tasks, e) DEF Begun
<1> QED BY ONLY <1>1, <1>3, <1>4

LEMMA TaskEnd ==
  ASSUME Typed, NEW t \in 1..Begun, tasks' = [tasks EXCEPT ![t].live = FALSE]
  PROVE  /\ tasks' \in Seq(TaskRec) /\ Begun' = Begun
         /\ ~tasks'[t].live /\ tasks'[t].zone = tasks[t].zone
         /\ \A u \in 1..Begun : u # t => tasks'[u] = tasks[u]
<1>1. PICK s \in Seq(TaskRec) : s = tasks
  BY DEF Typed
<1>2. t \in 1..Len(s) /\ Begun = Len(s)
  BY <1>1 DEF Begun
<1>3. PICK b \in BOOLEAN : b = FALSE
  OBVIOUS
<1>4. PICK o \in TaskRec : o = s[t]
  BY <1>2, ElementOfSeq
<1>5. PICK c \in TaskRec : c = [o EXCEPT !.live = b]
  BY DEF TaskRec
<1>6. c.zone = o.zone /\ ~c.live
  BY <1>3, <1>5 DEF TaskRec
<1>7. PICK v : v = [s EXCEPT ![t] = c]
  OBVIOUS
<1>8. /\ v \in Seq(TaskRec) /\ Len(v) = Len(s)
      /\ \A j \in 1..Len(s) : v[j] = IF j = t THEN c ELSE s[j]
  BY ONLY <1>2, <1>7, s \in Seq(TaskRec), c \in TaskRec, ExceptSeq
<1>9. tasks' = v
  BY <1>1, <1>3, <1>4, <1>5, <1>7
<1>10. Begun' = Len(v)
  BY ONLY <1>9 DEF Begun
<1> QED BY ONLY <1>1, <1>2, <1>4, <1>6, <1>8, <1>9, <1>10

-----------------------------------------------------------------------------
(***************************************************************************)
(* Places.                                                                 *)
(***************************************************************************)
LEMMA Settled ==
  ASSUME Unwound, Depth = 0
  PROVE  zoneTop = Cur(1)
  BY DEF Unwound, Unwinding

\* No place is being left.
LEMMA Calm ==
  ASSUME zoneTop' = Cur(1)',
         \A i \in 1..Depth' : /\ rt'[i].fn \notin {"leaveTo", "popTo"}
                              /\ rt'[i].fn = "release" => ~Held(rt[i].id)' /\ ~(i < Depth')
  PROVE  Unwound'
<1> DEFINE w == [k \in 1..0 |-> 0]
<1>1. w \in [1..0 -> ZoneIds]
  OBVIOUS
<1> HIDE DEF w
<1>2. \A k \in 1..0 : FALSE
  OBVIOUS
<1>3. Unwinding(0, w)'
  BY <1>2 DEF Unwinding
<1> QED BY <1>1, <1>3 DEF Unwound

\* Places that are held keep their place on the stack of places.
LEMMA StackKept ==
  ASSUME Typed, Stack, UNCHANGED <<calls, tasks>>,
         \A z \in ZoneIds : Held(z) => (zone'[z].live <=> zone[z].live)
                                       /\ zone'[z].parent = zone[z].parent
  PROVE  /\ Stack' /\ Level' = Level /\ Begun' = Begun
         /\ \A z : Held(z)' <=> Held(z)
         /\ \A j : Cur(j)' = Cur(j)
<1>1. Level' = Level /\ Begun' = Begun
  BY DEF Level, Begun
<1>2. \A z : Held(z)' <=> Held(z)
  BY <1>1 DEF Held
<1>3. \A j : Cur(j)' = Cur(j)
  BY <1>1 DEF Cur
<1>4. \A i \in 1..Level : calls[i].fn = "place" => Held(calls[i].id)
  BY DEF Held
<1>5. \A t \in 1..Begun : tasks[t].live => Held(tasks[t].zone)
  BY DEF Held
<1>6. ASSUME NEW i \in 1..Level
      PROVE  /\ calls[i].fn = "place" => /\ calls[i].id \in ZoneIds
                                         /\ zone'[calls[i].id].live
                                         /\ zone'[calls[i].id].parent = Cur(i + 1)'
             /\ calls[i].fn = "step" => /\ calls[i].id \in 1..Begun
                                        /\ tasks[calls[i].id].live
                                        /\ calls[i].sv = Cur(i + 1)'
             /\ \A j \in 1..Level :
                  i # j /\ calls[i].fn = calls[j].fn => calls[i].id # calls[j].id
  BY <1>3, <1>4 DEF Stack
<1>7. ASSUME NEW t \in 1..Begun, tasks[t].live
      PROVE  /\ zone'[tasks[t].zone].live
             /\ \A u \in 1..Begun :
                  u # t /\ tasks[u].live => tasks[u].zone # tasks[t].zone
             /\ \A i \in 1..Level :
                  calls[i].fn = "place" => calls[i].id # tasks[t].zone
  BY <1>5, <1>7, LevelTypes DEF Stack
<1>8. Stack'
  BY <1>1, <1>6, <1>7 DEF Stack
<1> QED BY <1>1, <1>2, <1>3, <1>8

LEMMA PlacesKept ==
  ASSUME Typed, PlaceInv, Matched, UNCHANGED <<calls, tasks, zoneTop>>,
         \A z \in ZoneIds : (zone'[z].live <=> zone[z].live)
                            /\ zone'[z].parent = zone[z].parent
  PROVE  PlaceInv'
<1>1. /\ Stack' /\ Level' = Level /\ Begun' = Begun
      /\ \A z : Held(z)' <=> Held(z)
      /\ \A j : Cur(j)' = Cur(j)
  BY StackKept DEF PlaceInv
<1>20. PICK n \in Nat : \E w \in [1..n -> ZoneIds] : Unwinding(n, w)
  BY DEF PlaceInv, Unwound
<1>2. PICK w \in [1..n -> ZoneIds] : Unwinding(n, w)
  BY <1>20
<1>3. Unwinding(n, w)'
  <2>1. zoneTop' = IF n = 0 THEN Cur(1)' ELSE w[1]
    BY <1>1, <1>2 DEF Unwinding
  <2>2. ASSUME NEW k \in 1..n
        PROVE  /\ ~Held(w[k])'
               /\ k > 1 => zone'[w[k]].live /\ zone'[w[k]].parent = IF k = n THEN Cur(1)' ELSE w[k + 1]
               /\ \A l \in 1..n : l # k => w[l] # w[k]
    BY <1>1, <1>2 DEF Unwinding
  <2>3. ASSUME NEW j \in 1..Depth'
        PROVE  /\ rt'[j].fn = "leaveTo" =>
                    /\ n > 0 /\ w[n] = rt'[j].id
                    /\ zone'[w[1]].live
                    /\ zone'[w[1]].parent = IF 1 = n THEN Cur(1)' ELSE w[1 + 1]
               /\ rt'[j].fn = "popTo" =>
                    n > 0 /\ w[n] = rt'[j].id /\ rt'[j].next = IF 1 = n THEN Cur(1)' ELSE w[1 + 1]
               /\ rt'[j].fn = "release" => ~Held(rt[j].id)' /\ (j < Depth' => rt'[j].id = zoneTop')
    <3>1. CASE rt'[j].fn \in {"leaveTo", "popTo", "release"}
      <4>1. PICK i \in 1..Depth : /\ rt[i].fn = rt'[j].fn /\ rt[i].id = rt'[j].id
                                  /\ rt[i].fn = "popTo" => rt[i].next = rt'[j].next
                                  /\ j < Depth' => i < Depth
        BY <3>1 DEF Matched
      <4>2. CASE rt[i].fn = "leaveTo"
        <5>1. /\ n > 0 /\ w[n] = rt[i].id /\ zone[w[1]].live
              /\ zone[w[1]].parent = IF 1 = n THEN Cur(1) ELSE w[1 + 1]
          BY <1>2, <4>2 DEF Unwinding
        <5>2. w[1] \in ZoneIds
          BY <5>1
        <5> QED BY <1>1, <4>1, <4>2, <5>1, <5>2
      <4>3. CASE rt[i].fn = "popTo"
        BY <1>1, <1>2, <4>1, <4>3 DEF Unwinding
      <4>4. CASE rt[i].fn = "release"
        <5>1. ~Held(rt[i].id) /\ (i < Depth => rt[i].id = zoneTop)
          BY <1>2, <4>4 DEF Unwinding
        <5>2. ~Held(rt[j].id)'
          BY <1>1, <4>1, <5>1 DEF Held
        <5> QED BY <4>1, <4>4, <5>1, <5>2
      <4> QED BY <3>1, <4>1, <4>2, <4>3, <4>4
    <3>2. CASE rt'[j].fn \notin {"leaveTo", "popTo", "release"}
      BY <3>2
    <3> QED BY <3>1, <3>2
  <2>4. Depth' = 0 \/ rt'[Depth'].fn \notin {"leaveTo", "popTo"} => n = 0
    BY <1>2 DEF Matched, Unwinding
  <2> QED BY <2>1, <2>2, <2>3, <2>4 DEF Unwinding
<1> QED BY <1>1, <1>3 DEF PlaceInv, Unwound

\* The place that ReleaseDone gives back is held by nobody.
LEMMA ReleaseDonePlaces ==
  ASSUME Typed, ChainInv, PlaceInv, ReleaseDone
  PROVE  PlaceInv'
<1>1. /\ rt # <<>> /\ rt[1].fn = "release" /\ rt' = Tail(rt)
      /\ UNCHANGED <<zoneTop, tasks, calls>>
  BY DEF ReleaseDone, InCall, Top, Return
<1>2. rt' \in Seq(FrameRec) /\ Popped
  BY <1>1, PopCall
<1>3. /\ Depth \in Nat /\ Depth > 0 /\ Depth' = Depth - 1
      /\ \A i \in 1..Depth' : rt'[i] = rt[i + 1]
  BY <1>2 DEF Popped
<1>4. ShapeAt(1)
  BY <1>3 DEF ChainInv, Shape
<1>5. PICK z \in ZoneIds : z = rt[1].id
  BY <1>1, <1>4 DEF ShapeAt
<1>6. \A y \in ZoneIds \ {z} : zone'[y] = zone[y]
  BY <1>5 DEF ReleaseDone, Top, Typed
<1>70. PICK n \in Nat : \E w \in [1..n -> ZoneIds] : Unwinding(n, w)
  BY DEF PlaceInv, Unwound
<1>7. PICK w \in [1..n -> ZoneIds] : Unwinding(n, w)
  BY <1>70
<1>8. ~Held(z) /\ (1 < Depth => z = zoneTop)
  <2>1. ~Held(rt[1].id) /\ (1 < Depth => rt[1].id = zoneTop)
    BY <1>1, <1>3, <1>7 DEF Unwinding
  <2> QED BY <1>5, <2>1
<1>9. /\ Stack' /\ Level' = Level /\ Begun' = Begun
      /\ \A y : Held(y)' <=> Held(y)
      /\ \A j : Cur(j)' = Cur(j)
  <2>1. \A y \in ZoneIds : Held(y) => (zone'[y].live <=> zone[y].live)
                                      /\ zone'[y].parent = zone[y].parent
    BY <1>6, <1>8
  <2> QED BY <1>1, <2>1, StackKept DEF PlaceInv
<1>10. CASE Depth = 1
  <2>1. n = 0
    BY <1>1, <1>7, <1>10 DEF Unwinding
  <2>2. zoneTop' = Cur(1)'
    BY <1>1, <1>7, <1>9, <2>1 DEF Unwinding
  <2>3. \A i \in 1..Depth' : FALSE
    BY <1>3, <1>10
  <2>4. Unwound'
    BY <2>2, <2>3, Calm
  <2> QED BY <1>9, <2>4 DEF PlaceInv
<1>11. CASE Depth > 1
  <2>1. Depth = 2 /\ rt[2].fn = "popTo" /\ Depth' = 1 /\ rt'[1] = rt[2]
    <3>1. Depth = 2 /\ rt[2].fn = "popTo"
      BY <1>1, <1>4, <1>11 DEF ShapeAt
    <3> QED BY <1>3, <3>1
  <2>2. n > 0 /\ w[n] = rt[2].id /\ rt[2].next = IF 1 = n THEN Cur(1) ELSE w[1 + 1]
    BY <1>7, <2>1 DEF Unwinding
  <2>3. zoneTop = w[1] /\ z = w[1]
    BY <1>7, <1>8, <2>1, <2>2 DEF Unwinding
  <2>4. ASSUME NEW k \in 1..n
        PROVE  /\ ~Held(w[k])'
               /\ k > 1 => zone'[w[k]].live /\ zone'[w[k]].parent = IF k = n THEN Cur(1)' ELSE w[k + 1]
               /\ \A l \in 1..n : l # k => w[l] # w[k]
    <3>1. /\ ~Held(w[k])
          /\ k > 1 => zone[w[k]].live /\ zone[w[k]].parent = IF k = n THEN Cur(1) ELSE w[k + 1]
          /\ \A l \in 1..n : l # k => w[l] # w[k]
      BY <1>7 DEF Unwinding
    <3>2. k > 1 => w[k] \in ZoneIds \ {z}
      BY <2>2, <2>3, <3>1
    <3> QED BY <1>6, <1>9, <3>1, <3>2
  <2>5. Unwinding(n, w)'
    <3>1. \A i \in 1..Depth' : i = 1
      BY <2>1
    <3>2. ASSUME NEW j \in 1..Depth'
          PROVE  /\ rt'[j].fn = "popTo" /\ n > 0 /\ w[n] = rt'[j].id
                 /\ rt'[j].next = IF 1 = n THEN Cur(1)' ELSE w[1 + 1]
      BY <1>9, <2>1, <2>2, <3>1
    <3>3. zoneTop' = IF n = 0 THEN Cur(1)' ELSE w[1]
      BY <1>1, <2>2, <2>3
    <3>4. Depth' # 0 /\ rt'[Depth'].fn = "popTo"
      BY <2>1
    <3> QED BY <2>4, <3>2, <3>3, <3>4 DEF Unwinding
  <2> QED BY <1>9, <2>5 DEF PlaceInv, Unwound
<1> QED BY <1>3, <1>10, <1>11

\* The place being left is the current one, alive and held by nobody.
LEMMA LeaveRoundPlaces ==
  ASSUME Typed, ChainInv, PlaceInv, LeaveRound
  PROVE  PlaceInv'
<1>1. /\ rt # <<>> /\ rt[1].fn = "leaveTo"
      /\ UNCHANGED <<zone, zoneTop, tasks, calls>>
  BY DEF LeaveRound, InCall, Top, zoneVars
<1>2. Depth = 1 /\ rt[1].id \in ZoneIds
  <2>1. Depth \in Nat /\ Depth > 0
    BY <1>1, FrameTypes
  <2> QED BY <1>1, <2>1 DEF ChainInv, Shape, ShapeAt
<1>3. Tail(rt) = <<>>
  <2>1. PICK t : t = Tail(rt)
    OBVIOUS
  <2>2. t \in Seq(FrameRec) /\ Len(t) = 1 - 1
    BY ONLY Typed, <1>1, <1>2, <2>1, PopFrame
  <2> QED BY ONLY <2>1, <2>2, EmptySeq
<1>4. PICK t \in ZoneIds : t = rt[1].id
  BY <1>2
<1>50. PICK n \in Nat : \E w \in [1..n -> ZoneIds] : Unwinding(n, w)
  BY DEF PlaceInv, Unwound
<1>5. PICK w \in [1..n -> ZoneIds] : Unwinding(n, w)
  BY <1>50
<1>6. /\ n > 0 /\ w[n] = t /\ zone[w[1]].live
      /\ zone[w[1]].parent = IF 1 = n THEN Cur(1) ELSE w[1 + 1]
      /\ zoneTop = w[1] /\ ~Held(w[1])
  BY <1>1, <1>2, <1>4, <1>5 DEF Unwinding
<1>7. PICK z \in ZoneIds, h \in PoolIds \cup {None}, u \in ZoneIds \cup {None} :
        z = zoneTop /\ h = zone[z].firstPool /\ u = zone[z].parent
  <2>1. zoneTop \in ZoneIds
    BY <1>6
  <2> QED BY <2>1, PlaceTypes
<1>70. t \in Int /\ u \in Int /\ z \in Int /\ h \in Int
  BY NoneApart
<1>8. PICK g \in FrameRec : /\ Frame("popTo", t, u) = <<g>>
                            /\ g.fn = "popTo" /\ g.id = t /\ g.next = u
  BY ONLY <1>70, FrameFacts
<1>9. PICK f \in FrameRec : /\ Frame("release", z, h) = <<f>>
                            /\ f.fn = "release" /\ f.id = z /\ f.next = h
  BY ONLY <1>70, FrameFacts
<1>10. rt' = (<<f>> \o <<g>>) \o <<>>
  <2>1. zoneTop # None /\ zone[zoneTop].live
    BY <1>6, <1>7, NoneApart
  <2> QED BY <1>3, <1>4, <1>7, <1>8, <1>9, <2>1 DEF LeaveRound, ReleaseCall, Top
<1>11. rt' = <<f, g>>
  BY <1>10, FrameSeq
<1>12. Depth' = 2 /\ rt'[1] = f /\ rt'[2] = g
  BY <1>11, FrameSeq DEF Depth
<1>13. /\ Stack' /\ Level' = Level /\ Begun' = Begun
       /\ \A y : Held(y)' <=> Held(y)
       /\ \A j : Cur(j)' = Cur(j)
  BY <1>1, StackKept DEF PlaceInv
<1>14. Unwinding(n, w)'
  <2>1. ASSUME NEW k \in 1..n
        PROVE  /\ ~Held(w[k])'
               /\ k > 1 => zone'[w[k]].live /\ zone'[w[k]].parent = IF k = n THEN Cur(1)' ELSE w[k + 1]
               /\ \A l \in 1..n : l # k => w[l] # w[k]
    BY <1>1, <1>5, <1>13 DEF Unwinding
  <2>2. zoneTop' = IF n = 0 THEN Cur(1)' ELSE w[1]
    BY <1>1, <1>6
  <2>3. ~Held(rt[1].id)'
    <3>1. ~Held(z)'
      BY <1>6, <1>7, <1>13
    <3>2. rt'[1].id = z
      BY <1>9, <1>12
    <3> QED BY ONLY <3>1, <3>2 DEF Held
  <2>4. ASSUME NEW j \in 1..Depth'
        PROVE  /\ rt'[j].fn # "leaveTo"
               /\ rt'[j].fn = "popTo" =>
                    n > 0 /\ w[n] = rt'[j].id /\ rt'[j].next = IF 1 = n THEN Cur(1)' ELSE w[1 + 1]
               /\ rt'[j].fn = "release" => ~Held(rt[j].id)' /\ (j < Depth' => rt'[j].id = zoneTop')
    <3>1. CASE j = 1
      BY <1>1, <1>7, <1>9, <1>12, <2>3, <3>1
    <3>2. CASE j = 2
      BY <1>6, <1>7, <1>8, <1>12, <1>13, <3>2
    <3> QED BY <1>12, <3>1, <3>2
  <2>5. Depth' # 0 /\ rt'[Depth'].fn = "popTo"
    BY <1>8, <1>12
  <2> QED BY <2>1, <2>2, <2>4, <2>5 DEF Unwinding
<1> QED BY <1>13, <1>14 DEF PlaceInv, Unwound

\* The walk stops at its mark, or goes on with the next place.
LEMMA LeavePopPlaces ==
  ASSUME Typed, ChainInv, PlaceInv, LeavePop
  PROVE  PlaceInv'
<1>1. /\ rt # <<>> /\ rt[1].fn = "popTo" /\ zoneTop' = rt[1].next
      /\ UNCHANGED <<zone, tasks, calls>>
  BY DEF LeavePop, InCall, Top
<1>2. Depth = 1 /\ rt[1].id \in ZoneIds /\ rt[1].next \in ZoneIds \cup {None}
  <2>1. Depth \in Nat /\ Depth > 0
    BY <1>1, FrameTypes
  <2> QED BY <1>1, <2>1 DEF ChainInv, Shape, ShapeAt
<1>3. Tail(rt) = <<>>
  <2>1. PICK t : t = Tail(rt)
    OBVIOUS
  <2>2. t \in Seq(FrameRec) /\ Len(t) = 1 - 1
    BY ONLY Typed, <1>1, <1>2, <2>1, PopFrame
  <2> QED BY ONLY <2>1, <2>2, EmptySeq
<1>4. PICK t \in ZoneIds : t = rt[1].id
  BY <1>2
<1>50. PICK n \in Nat : \E w \in [1..n -> ZoneIds] : Unwinding(n, w)
  BY DEF PlaceInv, Unwound
<1>5. PICK w \in [1..n -> ZoneIds] : Unwinding(n, w)
  BY <1>50
<1>6. /\ n > 0 /\ w[n] = t /\ zoneTop = w[1]
      /\ zoneTop' = IF 1 = n THEN Cur(1) ELSE w[1 + 1]
  BY <1>1, <1>2, <1>4, <1>5 DEF Unwinding
<1>7. /\ Stack' /\ Level' = Level /\ Begun' = Begun
      /\ \A y : Held(y)' <=> Held(y)
      /\ \A j : Cur(j)' = Cur(j)
  BY <1>1, StackKept DEF PlaceInv
<1>8. \A k \in 1..n : /\ ~Held(w[k])
                      /\ k > 1 => zone[w[k]].live /\ zone[w[k]].parent = IF k = n THEN Cur(1) ELSE w[k + 1]
                      /\ \A l \in 1..n : l # k => w[l] # w[k]
  BY <1>5 DEF Unwinding
<1>9. CASE n = 1
  <2>1. rt' = <<>> \o <<>>
    BY <1>3, <1>4, <1>6, <1>9 DEF LeavePop, Top
  <2>2. rt' = <<>>
    BY <2>1
  <2>3. Depth' = 0
    BY <2>2 DEF Depth
  <2>4. zoneTop' = Cur(1)' /\ \A i \in 1..Depth' : FALSE
    BY <1>6, <1>7, <1>9, <2>3
  <2>5. Unwound'
    BY <2>4, Calm
  <2> QED BY <1>7, <2>5 DEF PlaceInv
<1>10. CASE n > 1
  <2>1. zoneTop # t
    BY <1>6, <1>8, <1>10
  <2>2. PICK f \in FrameRec : /\ Frame("leaveTo", t, None) = <<f>>
                              /\ f.fn = "leaveTo" /\ f.id = t /\ f.next = None
    BY NoneApart, FrameFacts
  <2>3. rt' = <<f>> \o <<>>
    BY <1>3, <1>4, <2>1, <2>2 DEF LeavePop, Top
  <2>4. rt' = <<f>>
    BY <2>3, FrameSeq
  <2>5. Depth' = 1 /\ rt'[1] = f
    BY <2>4, FrameSeq DEF Depth
  <2>6. PICK m \in Nat : n = m + 1 /\ m > 0
    BY <1>10
  <2>7. PICK v \in [1..m -> ZoneIds] : v = [k \in 1..m |-> w[k + 1]]
    <3>1. [k \in 1..m |-> w[k + 1]] \in [1..m -> ZoneIds]
      BY <2>6
    <3> QED BY <3>1
  <2>8. \A k \in 1..m : v[k] = w[k + 1] /\ k + 1 \in 1..n
    BY <2>6, <2>7
  <2>9. ASSUME NEW k \in 1..m
        PROVE  /\ ~Held(v[k])'
               /\ zone'[v[k]].live /\ zone'[v[k]].parent = IF k = m THEN Cur(1)' ELSE v[k + 1]
               /\ \A l \in 1..m : l # k => v[l] # v[k]
    <3>1. ~Held(v[k])'
      BY <1>7, <1>8, <2>8
    <3>2. zone'[v[k]].live
      BY <1>1, <1>8, <2>8
    <3>3. \A l \in 1..m : l # k => v[l] # v[k]
      BY <1>8, <2>8
    <3>4. CASE k = m
      BY <1>1, <1>7, <1>8, <2>6, <2>8, <3>4
    <3>5. CASE k # m
      <4>1. v[k + 1] = w[(k + 1) + 1]
        BY <2>6, <2>8, <3>5
      <4> QED BY <1>1, <1>8, <2>6, <2>8, <3>1, <3>2, <3>3, <3>5, <4>1
    <3> QED BY <3>1, <3>2, <3>3, <3>4, <3>5
  <2>10. zoneTop' = v[1] /\ v[m] = f.id /\ 1 \in 1..m
    BY <1>6, <2>2, <2>6, <2>8
  <2>11. Unwinding(m, v)'
    <3>1. \A i \in 1..Depth' : i = 1
      BY <2>5
    <3>2. m # 0 /\ Depth' # 0
      BY <2>5, <2>6
    <3> QED BY <2>2, <2>5, <2>6, <2>9, <2>10, <3>1, <3>2 DEF Unwinding
  <2> QED BY <1>7, <2>11 DEF PlaceInv, Unwound
<1> QED BY <1>6, <1>9, <1>10

\* A new frame of generated code moves the others down one level.
LEMMA CurPush ==
  ASSUME Typed, UNCHANGED tasks, Level' = Level + 1,
         \A i \in 1..Level : calls'[i + 1] = calls[i]
  PROVE  \A j \in 1..(Level + 1) : Cur(j + 1)' = Cur(j)
<1>1. Level \in Nat
  BY LevelTypes
<1> SUFFICES ASSUME NEW j \in 1..(Level + 1) PROVE Cur(j + 1)' = Cur(j)
  OBVIOUS
<1>2. CASE j = Level + 1
  BY <1>1, <1>2 DEF Cur
<1>3. CASE j < Level + 1
  <2>1. /\ calls'[j + 1] = calls[j] /\ ~(j + 1 > Level') /\ ~(j > Level)
    BY <1>1, <1>3
  <2>2. Cur(j) = IF calls[j].fn = "place" THEN calls[j].id ELSE tasks[calls[j].id].zone
    BY <2>1 DEF Cur
  <2>3. Cur(j + 1)' = IF calls'[j + 1].fn = "place" THEN calls'[j + 1].id
                      ELSE tasks'[calls'[j + 1].id].zone
    BY <2>1 DEF Cur
  <2>4. tasks' = tasks
    OBVIOUS
  <2> QED BY ONLY <2>1, <2>2, <2>3, <2>4
<1> QED BY <1>1, <1>2, <1>3

LEMMA EnterPlaceStep ==
  ASSUME PoolInv, EnterPlace
  PROVE  PoolInv'
<1>0. Typed /\ ChainInv /\ Stack /\ Unwound
  BY DEF PoolInv, PlaceInv
<1>1. /\ rt = <<>> /\ rt' = <<>> /\ zoneTop' = SlotId
      /\ calls' = <<[fn |-> "place", id |-> SlotId, sv |-> None]>> \o calls
      /\ UNCHANGED <<poolVars, memVars, tasks, halted>>
  BY DEF EnterPlace, Running
<1>2. PICK d \in Nat : AllocSlot(zoneTop, d)
  <2>1. ASSUME zoneTop # None PROVE zone[zoneTop].depth + 1 \in Nat
    BY <1>0, <2>1, PlaceTypes DEF Typed
  <2>2. (IF zoneTop # None THEN zone[zoneTop].depth + 1 ELSE 1) \in Nat
    BY <2>1
  <2> QED BY <2>2 DEF EnterPlace
<1>3. /\ zone' \in [ZoneIds -> ZoneRec] /\ zoneN' \in 0..PlaceMax
      /\ zoneFree' \in ZoneIds \cup {None}
      /\ SlotId \in ZoneIds /\ ~zone[SlotId].live
      /\ zone'[SlotId].live /\ zone'[SlotId].parent = zoneTop
      /\ \A z \in ZoneIds \ {SlotId} : zone'[z] = zone[z]
      /\ ChainInv'
  <2>1. zoneTop \in ZoneIds \cup {None}
    BY <1>0 DEF Typed
  <2> QED BY <1>0, <1>1, <1>2, <2>1, AllocTables
<1>4. PICK s \in ZoneIds : s = SlotId
  BY <1>3
<1>5. PICK c \in CallRec : /\ c = [fn |-> "place", id |-> s, sv |-> None]
                           /\ c.fn = "place" /\ c.id = s
  <2>1. [fn |-> "place", id |-> s, sv |-> None] \in CallRec
    BY NoneApart DEF CallRec
  <2> QED BY <2>1
<1>6. /\ calls' \in Seq(CallRec) /\ Level' = Level + 1
      /\ calls'[1] = c /\ \A i \in 1..Level : calls'[i + 1] = calls[i]
  <2>1. calls' = <<c>> \o calls
    BY <1>1, <1>4, <1>5
  <2> QED BY ONLY <1>0, <2>1, c \in CallRec, CallPush
<1>7. rt' \in Seq(FrameRec) /\ Depth' = 0 /\ Depth = 0
  BY <1>0, <1>1, NoFrames, FrameTypes
<1>8. Typed'
  BY <1>0, <1>1, <1>3, <1>4, <1>6, <1>7 DEF Typed, poolVars, memVars
<1>9. /\ Level \in Nat /\ Begun \in Nat /\ Begun' = Begun
      /\ \A i \in 1..Level : calls[i].fn \in {"place", "step"}
  BY <1>0, <1>1, LevelTypes DEF Begun
<1>10. zoneTop = Cur(1)
  BY <1>0, <1>7, Settled
<1>11. Cur(1)' = s
  BY <1>5, <1>6, <1>9 DEF Cur
<1>12. \A j \in 1..(Level + 1) : Cur(j + 1)' = Cur(j)
  BY <1>0, <1>1, <1>6, CurPush
<1>13. Stack'
  <2>1. ASSUME NEW i \in 1..Level
        PROVE  /\ calls[i].fn = "place" => /\ calls[i].id \in ZoneIds \ {s}
                                           /\ zone'[calls[i].id].live
                                           /\ zone'[calls[i].id].parent = Cur(i + 1)
               /\ calls[i].fn = "step" => /\ calls[i].id \in 1..Begun
                                          /\ tasks[calls[i].id].live
                                          /\ calls[i].sv = Cur(i + 1)
               /\ \A j \in 1..Level :
                    i # j /\ calls[i].fn = calls[j].fn => calls[i].id # calls[j].id
    BY <1>0, <1>3, <1>4 DEF Stack
  <2>2. ASSUME NEW i \in 1..(Level + 1)
        PROVE  /\ calls'[i].fn = "place" => /\ calls'[i].id \in ZoneIds
                                            /\ zone'[calls'[i].id].live
                                            /\ zone'[calls'[i].id].parent = Cur(i + 1)'
               /\ calls'[i].fn = "step" => /\ calls'[i].id \in 1..Begun
                                           /\ tasks[calls'[i].id].live
                                           /\ calls'[i].sv = Cur(i + 1)'
               /\ \A j \in 1..(Level + 1) :
                    i # j /\ calls'[i].fn = calls'[j].fn => calls'[i].id # calls'[j].id
    <3>1. CASE i = 1
      <4>1. ASSUME NEW j \in 1..(Level + 1), j # 1, calls'[j].fn = "place"
            PROVE  calls'[j].id # s
        <5>1. PICK k \in 1..Level : j = k + 1
          BY <1>9, <4>1
        <5> QED BY <1>6, <2>1, <4>1, <5>1
      <4>2. Cur(1 + 1)' = Cur(1)
        BY <1>9, <1>12
      <4> QED BY <1>3, <1>4, <1>5, <1>6, <1>10, <3>1, <4>1, <4>2
    <3>2. CASE i > 1
      <4>1. PICK k \in 1..Level : i = k + 1
        BY <1>9, <3>2
      <4>2. calls'[i] = calls[k] /\ Cur(i + 1)' = Cur(k + 1)
        BY <1>6, <1>9, <1>12, <4>1
      <4>3. ASSUME NEW j \in 1..(Level + 1), i # j, calls'[i].fn = calls'[j].fn
            PROVE  calls'[i].id # calls'[j].id
        <5>1. CASE j = 1
          BY <1>5, <1>6, <2>1, <4>2, <4>3, <5>1
        <5>2. CASE j > 1
          <6>1. PICK l \in 1..Level : j = l + 1
            BY <1>9, <5>2
          <6>2. l # k /\ calls'[j] = calls[l]
            BY <1>6, <4>1, <4>3, <6>1
          <6> QED BY <2>1, <4>2, <4>3, <6>2
        <5> QED BY <1>9, <5>1, <5>2
      <4> QED BY <2>1, <4>2, <4>3
    <3> QED BY <1>9, <3>1, <3>2
  <2>3. ASSUME NEW t \in 1..Begun, tasks[t].live
        PROVE  /\ zone'[tasks[t].zone].live
               /\ \A u \in 1..Begun :
                    u # t /\ tasks[u].live => tasks[u].zone # tasks[t].zone
               /\ \A i \in 1..(Level + 1) :
                    calls'[i].fn = "place" => calls'[i].id # tasks[t].zone
    <3>1. /\ zone[tasks[t].zone].live /\ tasks[t].zone \in ZoneIds
          /\ \A u \in 1..Begun :
               u # t /\ tasks[u].live => tasks[u].zone # tasks[t].zone
          /\ \A i \in 1..Level :
               calls[i].fn = "place" => calls[i].id # tasks[t].zone
      BY <1>0, <2>3, LevelTypes DEF Stack
    <3>2. tasks[t].zone # s
      BY <1>3, <1>4, <3>1
    <3>3. ASSUME NEW i \in 1..(Level + 1), calls'[i].fn = "place"
          PROVE  calls'[i].id # tasks[t].zone
      <4>1. CASE i = 1
        BY <1>5, <1>6, <3>2, <4>1
      <4>2. CASE i > 1
        <5>1. PICK k \in 1..Level : i = k + 1
          BY <1>9, <4>2
        <5> QED BY <1>6, <3>1, <3>3, <5>1
      <4> QED BY <1>9, <4>1, <4>2
    <3> QED BY <1>3, <1>4, <3>1, <3>2, <3>3
  <2> QED BY ZenonT(30), <1>1, <1>6, <1>9, <2>2, <2>3 DEF Stack
<1>14. Unwound'
  <2>1. zoneTop' = Cur(1)' /\ \A i \in 1..Depth' : FALSE
    BY <1>1, <1>4, <1>7, <1>11
  <2> QED BY <2>1, Calm
<1> QED BY <1>3, <1>8, <1>13, <1>14 DEF PoolInv, PlaceInv

LEMMA TaskBeginStep ==
  ASSUME PoolInv, TaskBegin
  PROVE  PoolInv'
<1>0. Typed /\ ChainInv /\ Stack /\ Unwound
  BY DEF PoolInv, PlaceInv
<1>1. /\ rt = <<>> /\ rt' = <<>> /\ AllocSlot(None, 0)
      /\ tasks' = Append(tasks, [zone |-> SlotId, live |-> TRUE])
      /\ UNCHANGED <<poolVars, zoneTop, memVars, calls, halted>>
  BY DEF TaskBegin, Running
<1>3. /\ zone' \in [ZoneIds -> ZoneRec] /\ zoneN' \in 0..PlaceMax
      /\ zoneFree' \in ZoneIds \cup {None}
      /\ SlotId \in ZoneIds /\ ~zone[SlotId].live
      /\ zone'[SlotId].live
      /\ \A z \in ZoneIds \ {SlotId} : zone'[z] = zone[z]
      /\ ChainInv'
  BY <1>0, <1>1, AllocTables
<1>4. PICK s \in ZoneIds : s = SlotId
  BY <1>3
<1>5. PICK e \in TaskRec : e = [zone |-> s, live |-> TRUE] /\ e.zone = s /\ e.live
  <2>1. PICK b \in BOOLEAN : b = TRUE
    OBVIOUS
  <2>2. [zone |-> s, live |-> b] \in TaskRec
    BY DEF TaskRec
  <2> QED BY <2>1, <2>2
<1>6. /\ tasks' \in Seq(TaskRec) /\ Begun' = Begun + 1
      /\ tasks'[Begun + 1] = e /\ \A t \in 1..Begun : tasks'[t] = tasks[t]
  <2>1. tasks' = Append(tasks, e)
    BY <1>1, <1>4, <1>5
  <2> QED BY ONLY <1>0, <2>1, e \in TaskRec, TaskAppend
<1>7. rt' \in Seq(FrameRec) /\ Depth' = 0 /\ Depth = 0
  BY <1>0, <1>1, NoFrames, FrameTypes
<1>8. Typed'
  BY <1>0, <1>1, <1>3, <1>6, <1>7 DEF Typed, poolVars, memVars
<1>9. Level \in Nat /\ Begun \in Nat /\ Level' = Level
  BY <1>0, <1>1, LevelTypes DEF Level
<1>10. \A j \in Nat : j > 0 => Cur(j)' = Cur(j)
  <2> SUFFICES ASSUME NEW j \in Nat, j > 0 PROVE Cur(j)' = Cur(j)
    OBVIOUS
  <2>1. CASE j > Level
    BY <1>9, <2>1 DEF Cur
  <2>2. CASE j <= Level
    <3>1. calls[j].fn = "step" => calls[j].id \in 1..Begun
      BY <1>0, <1>9, <2>2 DEF Stack
    <3>2. calls[j].fn \in {"place", "step"}
      BY <1>0, <1>9, <2>2, LevelTypes
    <3> QED BY <1>1, <1>6, <1>9, <2>2, <3>1, <3>2 DEF Cur
  <2> QED BY <1>9, <2>1, <2>2
<1>11. Stack'
  <2>1. ASSUME NEW i \in 1..Level
        PROVE  /\ calls[i].fn = "place" => /\ calls[i].id \in ZoneIds \ {s}
                                           /\ zone'[calls[i].id].live
                                           /\ zone'[calls[i].id].parent = Cur(i + 1)'
               /\ calls[i].fn = "step" => /\ calls[i].id \in 1..(Begun + 1)
                                          /\ tasks'[calls[i].id].live
                                          /\ calls[i].sv = Cur(i + 1)'
               /\ \A j \in 1..Level :
                    i # j /\ calls[i].fn = calls[j].fn => calls[i].id # calls[j].id
    <3>1. Cur(i + 1)' = Cur(i + 1)
      BY <1>9, <1>10
    <3>2. /\ calls[i].fn = "place" => /\ calls[i].id \in ZoneIds
                                      /\ zone[calls[i].id].live
                                      /\ zone[calls[i].id].parent = Cur(i + 1)
          /\ calls[i].fn = "step" => /\ calls[i].id \in 1..Begun
                                     /\ tasks[calls[i].id].live
                                     /\ calls[i].sv = Cur(i + 1)
          /\ \A j \in 1..Level :
               i # j /\ calls[i].fn = calls[j].fn => calls[i].id # calls[j].id
      BY <1>0 DEF Stack
    <3> QED BY <1>3, <1>4, <1>6, <1>9, <3>1, <3>2
  <2>2. ASSUME NEW t \in 1..Begun, tasks[t].live
        PROVE  /\ zone'[tasks[t].zone].live /\ tasks[t].zone # s
               /\ \A u \in 1..Begun :
                    u # t /\ tasks[u].live => tasks[u].zone # tasks[t].zone
               /\ \A i \in 1..Level :
                    calls[i].fn = "place" => calls[i].id # tasks[t].zone
    <3>1. /\ zone[tasks[t].zone].live /\ tasks[t].zone \in ZoneIds
          /\ \A u \in 1..Begun :
               u # t /\ tasks[u].live => tasks[u].zone # tasks[t].zone
          /\ \A i \in 1..Level :
               calls[i].fn = "place" => calls[i].id # tasks[t].zone
      BY <1>0, <2>2, LevelTypes DEF Stack
    <3> QED BY <1>3, <1>4, <3>1
  <2>3. ASSUME NEW t \in 1..(Begun + 1), tasks'[t].live
        PROVE  /\ zone'[tasks'[t].zone].live
               /\ \A u \in 1..(Begun + 1) :
                    u # t /\ tasks'[u].live => tasks'[u].zone # tasks'[t].zone
               /\ \A i \in 1..Level :
                    calls[i].fn = "place" => calls[i].id # tasks'[t].zone
    <3>1. CASE t = Begun + 1
      <4>1. \A u \in 1..(Begun + 1) : u # t => u \in 1..Begun
        BY <1>9, <3>1
      <4> QED BY <1>3, <1>4, <1>5, <1>6, <2>1, <2>2, <3>1, <4>1
    <3>2. CASE t # Begun + 1
      <4>1. t \in 1..Begun /\ tasks'[t] = tasks[t]
        BY <1>6, <1>9, <3>2
      <4>2. ASSUME NEW u \in 1..(Begun + 1), u # t, tasks'[u].live
            PROVE  tasks'[u].zone # tasks'[t].zone
        <5>1. CASE u = Begun + 1
          BY <1>5, <1>6, <2>2, <2>3, <4>1, <5>1
        <5>2. CASE u # Begun + 1
          <6>1. u \in 1..Begun /\ tasks'[u] = tasks[u]
            BY <1>6, <1>9, <5>2
          <6> QED BY <2>2, <2>3, <4>1, <4>2, <6>1
        <5> QED BY <5>1, <5>2
      <4> QED BY <2>2, <2>3, <4>1, <4>2
    <3> QED BY <3>1, <3>2
  <2> QED BY <1>1, <1>6, <1>9, <2>1, <2>3 DEF Stack
<1>12. Unwound'
  <2>1. zoneTop = Cur(1) /\ Cur(1)' = Cur(1)
    BY <1>0, <1>7, <1>10, Settled
  <2>2. zoneTop' = Cur(1)' /\ \A i \in 1..Depth' : FALSE
    BY <1>1, <1>7, <2>1
  <2> QED BY <2>2, Calm
<1> QED BY <1>3, <1>8, <1>11, <1>12 DEF PoolInv, PlaceInv

\* Frames of generated code end and a task may: what is left of the stack of
\* places is as it was.
LEMMA StackCut ==
  ASSUME Typed, Stack, UNCHANGED zone, NEW k \in 0..Level, Level' = Level - k,
         \A i \in 1..(Level - k) : calls'[i] = calls[i + k],
         Begun' = Begun,
         \A u \in 1..Begun : /\ tasks'[u].zone = tasks[u].zone
                             /\ tasks'[u].live => tasks[u].live,
         \A i \in 1..(Level - k) :
           calls[i + k].fn = "step" => tasks'[calls[i + k].id].live
  PROVE  Stack' /\ \A j \in 1..(Level - k + 1) : Cur(j)' = Cur(j + k)
<1>1. Level \in Nat /\ Begun \in Nat
  BY LevelTypes
<1>2. ASSUME NEW i \in 1..(Level - k)
      PROVE  /\ i + k \in 1..Level /\ calls'[i] = calls[i + k]
             /\ calls[i + k].fn \in {"place", "step"}
             /\ calls[i + k].fn = "place" => /\ calls[i + k].id \in ZoneIds
                                             /\ zone[calls[i + k].id].live
                                             /\ zone[calls[i + k].id].parent = Cur(i + k + 1)
             /\ calls[i + k].fn = "step" => /\ calls[i + k].id \in 1..Begun
                                            /\ tasks[calls[i + k].id].live
                                            /\ calls[i + k].sv = Cur(i + k + 1)
  <2>1. PICK l \in 1..Level : l = i + k
    BY <1>1
  <2>2. /\ calls[l].fn \in {"place", "step"}
        /\ calls[l].fn = "place" => /\ calls[l].id \in ZoneIds
                                    /\ zone[calls[l].id].live
                                    /\ zone[calls[l].id].parent = Cur(l + 1)
        /\ calls[l].fn = "step" => /\ calls[l].id \in 1..Begun
                                   /\ tasks[calls[l].id].live
                                   /\ calls[l].sv = Cur(l + 1)
    BY LevelTypes DEF Stack
  <2> QED BY <2>1, <2>2
<1>3. ASSUME NEW j \in 1..(Level - k + 1)
      PROVE  Cur(j)' = Cur(j + k)
  <2>1. CASE j = Level - k + 1
    BY <1>1, <2>1 DEF Cur
  <2>2. CASE j # Level - k + 1
    <3>1. j \in 1..(Level - k) /\ ~(j > Level') /\ ~(j + k > Level)
      BY <1>1, <2>2
    <3>2. PICK c : c = calls[j + k]
      OBVIOUS
    <3>3. /\ calls'[j] = c /\ c.fn \in {"place", "step"}
          /\ c.fn = "step" => tasks'[c.id].zone = tasks[c.id].zone
      BY <1>2, <3>1, <3>2
    <3>4. Cur(j + k) = IF c.fn = "place" THEN c.id ELSE tasks[c.id].zone
      BY <3>1, <3>2 DEF Cur
    <3>5. Cur(j)' = IF c.fn = "place" THEN c.id ELSE tasks'[c.id].zone
      BY <3>1, <3>3 DEF Cur
    <3> QED BY ONLY <3>3, <3>4, <3>5
  <2> QED BY <2>1, <2>2
<1>4. ASSUME NEW i \in 1..(Level - k)
      PROVE  /\ calls'[i].fn = "place" => /\ calls'[i].id \in ZoneIds
                                          /\ zone'[calls'[i].id].live
                                          /\ zone'[calls'[i].id].parent = Cur(i + 1)'
             /\ calls'[i].fn = "step" => /\ calls'[i].id \in 1..Begun
                                         /\ tasks'[calls'[i].id].live
                                         /\ calls'[i].sv = Cur(i + 1)'
             /\ \A j \in 1..(Level - k) :
                  i # j /\ calls'[i].fn = calls'[j].fn => calls'[i].id # calls'[j].id
  <2>1. Cur(i + 1)' = Cur(i + k + 1)
    <3>1. i + 1 \in 1..(Level - k + 1) /\ (i + 1) + k = i + k + 1
      BY <1>1
    <3> QED BY <1>3, <3>1
  <2>2. ASSUME NEW j \in 1..(Level - k), i # j, calls'[i].fn = calls'[j].fn
        PROVE  calls'[i].id # calls'[j].id
    <3>1. /\ i + k \in 1..Level /\ j + k \in 1..Level /\ i + k # j + k
          /\ calls'[i] = calls[i + k] /\ calls'[j] = calls[j + k]
      BY <1>1, <1>2, <2>2
    <3> QED BY <2>2, <3>1 DEF Stack
  <2> QED BY <1>2, <2>1, <2>2
<1>5. ASSUME NEW t \in 1..Begun, tasks'[t].live
      PROVE  /\ zone'[tasks'[t].zone].live
             /\ \A u \in 1..Begun :
                  u # t /\ tasks'[u].live => tasks'[u].zone # tasks'[t].zone
             /\ \A i \in 1..(Level - k) :
                  calls'[i].fn = "place" => calls'[i].id # tasks'[t].zone
  <2>1. tasks[t].live /\ tasks'[t].zone = tasks[t].zone
    BY <1>5
  <2>2. /\ zone[tasks[t].zone].live
        /\ \A u \in 1..Begun :
             u # t /\ tasks[u].live => tasks[u].zone # tasks[t].zone
        /\ \A i \in 1..Level :
             calls[i].fn = "place" => calls[i].id # tasks[t].zone
    BY <2>1 DEF Stack
  <2>3. ASSUME NEW u \in 1..Begun, u # t, tasks'[u].live
        PROVE  tasks'[u].zone # tasks'[t].zone
    BY <2>1, <2>2, <2>3
  <2>4. ASSUME NEW i \in 1..(Level - k), calls'[i].fn = "place"
        PROVE  calls'[i].id # tasks'[t].zone
    BY <1>2, <2>1, <2>2, <2>4
  <2> QED BY <2>1, <2>2, <2>3, <2>4
<1>6. Stack'
  BY <1>4, <1>5 DEF Stack
<1> QED BY <1>3, <1>6

\* The release of a task's place begins.
LEMMA TaskRelease ==
  ASSUME Typed, ChainInv, NEW z \in ZoneIds, zone[z].live, rt' = ReleaseCall(z),
         UNCHANGED <<poolVars, zone, zoneN, zoneFree, memVars>>
  PROVE  /\ rt' \in Seq(FrameRec) /\ ChainInv'
         /\ Depth' = 1 /\ rt'[1].fn = "release" /\ rt'[1].id = z
<1>1. PICK n \in PoolIds \cup {None} : n = zone[z].firstPool
  BY PlaceTypes
<1>2. z \in Int /\ n \in Int
  BY NoneApart
<1>3. rt' = Frame("release", z, n)
  BY <1>1 DEF ReleaseCall
<1>4. /\ rt' \in Seq(FrameRec) /\ Depth' = 1
      /\ rt'[1].fn = "release" /\ rt'[1].id = z /\ rt'[1].next = n
  BY <1>2, <1>3, StartFrame
<1>5. Shape' /\ Saved' /\ \A r : FrameOrder(r)'
  BY <1>1, <1>4, FirstFrame DEF poolVars
<1>6. ChainInv'
  BY <1>5, StillTables
<1> QED BY <1>4, <1>6

\* A task that no frame steps ends: its place, which nothing holds any more,
\* is released.
LEMMA EndTaskStep ==
  ASSUME Typed, ChainInv, Stack, NEW t \in 1..Begun, tasks[t].live, EndTask(t),
         UNCHANGED <<poolVars, zone, zoneN, zoneFree, memVars>>,
         NEW k \in 0..Level, Level' = Level - k,
         \A i \in 1..(Level - k) : calls'[i] = calls[i + k],
         \A i \in 1..(Level - k) : calls[i + k].fn = "step" => calls[i + k].id # t,
         calls' \in Seq(CallRec), zoneTop' \in ZoneIds \cup {None},
         zoneTop' = Cur(1 + k)
  PROVE  PoolInv'
<1>1. tasks' = [tasks EXCEPT ![t].live = FALSE] /\ rt' = ReleaseCall(tasks[t].zone)
  BY DEF EndTask
<1>2. PICK z \in ZoneIds : z = tasks[t].zone /\ zone[z].live
  BY LevelTypes DEF Stack
<1>3. /\ tasks' \in Seq(TaskRec) /\ Begun' = Begun
      /\ ~tasks'[t].live /\ tasks'[t].zone = tasks[t].zone
      /\ \A u \in 1..Begun : u # t => tasks'[u] = tasks[u]
  BY <1>1, TaskEnd
<1>4. /\ rt' \in Seq(FrameRec) /\ ChainInv'
      /\ Depth' = 1 /\ rt'[1].fn = "release" /\ rt'[1].id = z
  BY <1>1, <1>2, TaskRelease
<1>5. Level \in Nat /\ Begun \in Nat
  BY LevelTypes
<1>6. \A u \in 1..Begun : /\ tasks'[u].zone = tasks[u].zone
                          /\ tasks'[u].live => tasks[u].live
  BY <1>3
<1>7. ASSUME NEW i \in 1..(Level - k), calls[i + k].fn = "step"
      PROVE  tasks'[calls[i + k].id].live
  <2>1. i + k \in 1..Level
    BY <1>5
  <2>2. PICK u : u = calls[i + k].id
    OBVIOUS
  <2>3. u \in 1..Begun /\ tasks[u].live /\ u # t
    BY <1>7, <2>1, <2>2 DEF Stack
  <2> QED BY <1>3, <2>2, <2>3
<1>8. UNCHANGED zone
  OBVIOUS
<1>9. Stack' /\ \A j \in 1..(Level - k + 1) : Cur(j)' = Cur(j + k)
  BY <1>3, <1>6, <1>7, <1>8, StackCut
<1>10. Typed'
  BY <1>3, <1>4 DEF Typed, poolVars, memVars
<1>11. zoneTop' = Cur(1)'
  <2>1. 1 \in 1..(Level - k + 1)
    BY <1>5
  <2> QED BY <1>9, <2>1
<1>12. ~Held(z)'
  <2>1. ASSUME NEW i \in 1..(Level - k), calls'[i].fn = "place"
        PROVE  calls'[i].id # z
    <3>1. i + k \in 1..Level /\ calls'[i] = calls[i + k]
      BY <1>5
    <3>2. \A j \in 1..Level : calls[j].fn = "place" => calls[j].id # tasks[t].zone
      BY DEF Stack
    <3> QED BY <1>2, <2>1, <3>1, <3>2
  <2>2. ASSUME NEW u \in 1..Begun, tasks'[u].live
        PROVE  tasks'[u].zone # z
    <3>1. u # t /\ tasks'[u] = tasks[u]
      BY <1>3, <2>2
    <3> QED BY <1>2, <2>2, <3>1 DEF Stack
  <2> QED BY <1>3, <2>1, <2>2 DEF Held
<1>13. Unwound'
  <2>1. ASSUME NEW i \in 1..Depth'
        PROVE  /\ rt'[i].fn \notin {"leaveTo", "popTo"}
               /\ rt'[i].fn = "release" => ~Held(rt[i].id)' /\ ~(i < Depth')
    <3>1. i = 1 /\ Depth' = 1
      BY <1>4
    <3>2. ~Held(rt[1].id)'
      BY ONLY <1>4, <1>12 DEF Held
    <3> QED BY <1>4, <3>1, <3>2
  <2> QED BY <1>11, <2>1, Calm
<1> QED BY <1>4, <1>9, <1>10, <1>13 DEF PoolInv, PlaceInv

LEMMA TaskDropStep ==
  ASSUME PoolInv, NEW t \in Nat, TaskDrop(t)
  PROVE  PoolInv'
<1>0. Typed /\ ChainInv /\ Stack /\ Unwound
  BY DEF PoolInv, PlaceInv
<1>1. /\ rt = <<>> /\ t \in 1..Begun /\ tasks[t].live /\ ~OnStack(t) /\ EndTask(t)
      /\ UNCHANGED <<poolVars, zoneVars, memVars, calls, halted>>
  BY DEF TaskDrop, Running, Begun
<1>2. UNCHANGED <<poolVars, zone, zoneN, zoneFree, memVars>>
  BY <1>1 DEF zoneVars
<1>3. Depth = 0
  BY <1>0, <1>1, FrameTypes
<1>4. zoneTop' = Cur(1) /\ zoneTop' \in ZoneIds \cup {None}
  BY <1>0, <1>1, <1>3, Settled DEF zoneVars, Typed
<1>5. Level \in Nat /\ Level' = Level /\ calls' \in Seq(CallRec) /\ calls' = calls
  BY <1>0, <1>1, LevelTypes DEF Level, Typed
<1>6. /\ 0 \in 0..Level /\ Level' = Level - 0 /\ Cur(1 + 0) = Cur(1)
      /\ \A i \in 1..(Level - 0) : calls'[i] = calls[i + 0]
  BY <1>5
<1>7. \A i \in 1..(Level - 0) : calls[i + 0].fn = "step" => calls[i + 0].id # t
  BY <1>1, <1>5 DEF OnStack, Level
<1>8. zoneTop' = Cur(1 + 0)
  BY <1>4, <1>6
<1> QED BY ONLY <1>0, <1>1, <1>2, <1>4, <1>5, <1>6, <1>7, <1>8, EndTaskStep

LEMMA StepReturnStep ==
  ASSUME PoolInv, NEW done \in BOOLEAN, StepReturn(done)
  PROVE  PoolInv'
<1>0. Typed /\ ChainInv /\ Stack /\ Unwound
  BY DEF PoolInv, PlaceInv
<1>1. /\ rt = <<>> /\ calls # <<>> /\ calls[1].fn = "step"
      /\ zoneTop' = calls[1].sv /\ calls' = Tail(calls)
      /\ UNCHANGED <<poolVars, zone, zoneN, zoneFree, memVars>>
  BY DEF StepReturn, Running
<1>2. /\ calls' \in Seq(CallRec) /\ Level' = Level - 1 /\ Level > 0
      /\ \A i \in 1..(Level - 1) : calls'[i] = calls[i + 1]
  BY <1>0, <1>1, CallReturn
<1>3. Level \in Nat /\ 1 \in 0..Level /\ 1 \in 1..Level
  BY <1>0, <1>2, LevelTypes
<1>4. PICK t \in 1..Begun : t = calls[1].id /\ tasks[t].live
  BY <1>0, <1>1, <1>3 DEF Stack
<1>5. zoneTop' = Cur(1 + 1)
  BY <1>0, <1>1, <1>3 DEF Stack
<1>6. zoneTop' \in ZoneIds \cup {None}
  BY <1>0, <1>1, <1>3, LevelTypes
<1>7. \A i \in 1..(Level - 1) : calls[i + 1].fn = "step" => calls[i + 1].id # t
  <2> SUFFICES ASSUME NEW i \in 1..(Level - 1), calls[i + 1].fn = "step"
               PROVE  calls[i + 1].id # t
    OBVIOUS
  <2>1. i + 1 \in 1..Level /\ i + 1 # 1
    BY <1>3
  <2> QED BY <1>0, <1>1, <1>3, <1>4, <2>1 DEF Stack
<1>8. CASE done
  <2>1. EndTask(t)
    BY <1>4, <1>8 DEF StepReturn
  <2> QED BY ONLY <1>0, <1>1, <1>2, <1>3, <1>4, <1>5, <1>6, <1>7, <2>1, EndTaskStep
<1>9. CASE ~done
  <2>1. tasks' = tasks /\ rt' = rt
    BY <1>9 DEF StepReturn
  <2>2. rt' = <<>>
    BY <1>1, <2>1
  <2>3. /\ rt' \in Seq(FrameRec) /\ Depth' = 0 /\ Shape' /\ Saved'
        /\ \A r : FrameOrder(r)'
    BY <2>2, NoFrames
  <2>4. ChainInv'
    BY <1>0, <1>1, <2>3, StillTables
  <2>5. Typed'
    BY <1>0, <1>1, <1>2, <1>6, <2>1, <2>3 DEF Typed, poolVars, memVars
  <2>6. Begun' = Begun
    BY <2>1 DEF Begun
  <2>7. \A i \in 1..(Level - 1) : calls[i + 1].fn = "step" => tasks'[calls[i + 1].id].live
    <3> SUFFICES ASSUME NEW i \in 1..(Level - 1), calls[i + 1].fn = "step"
                 PROVE  tasks'[calls[i + 1].id].live
      OBVIOUS
    <3>1. i + 1 \in 1..Level
      BY <1>3
    <3> QED BY <1>0, <2>1, <3>1 DEF Stack
  <2>8. /\ \A u \in 1..Begun : /\ tasks'[u].zone = tasks[u].zone
                               /\ tasks'[u].live => tasks[u].live
        /\ UNCHANGED zone
    BY <1>1, <2>1
  <2>9. Stack' /\ \A j \in 1..(Level - 1 + 1) : Cur(j)' = Cur(j + 1)
    BY ONLY <1>0, <1>2, <1>3, <2>6, <2>7, <2>8, StackCut
  <2>10. zoneTop' = Cur(1)' /\ \A i \in 1..Depth' : FALSE
    <3>1. 1 \in 1..(Level - 1 + 1)
      BY <1>3
    <3> QED BY <1>5, <2>3, <2>9, <3>1
  <2>11. Unwound'
    BY <2>10, Calm
  <2> QED BY <2>4, <2>5, <2>9, <2>11 DEF PoolInv, PlaceInv
<1> QED BY <1>8, <1>9

LEMMA LeavePlaceStep ==
  ASSUME PoolInv, NEW k \in Nat, LeavePlace(k)
  PROVE  PoolInv'
<1>0. Typed /\ ChainInv /\ Stack /\ Unwound
  BY DEF PoolInv, PlaceInv
<1>1. /\ rt = <<>> /\ k \in 1..Level /\ \A j \in 1..k : calls[j].fn = "place"
      /\ rt' = Frame("leaveTo", calls[k].id, None)
      /\ calls' = SubSeq(calls, k + 1, Level)
      /\ UNCHANGED <<poolVars, zoneVars, memVars, tasks, halted>>
  BY DEF LeavePlace, Running, Level
<1>2. /\ calls' \in Seq(CallRec) /\ Level' = Level - k
      /\ \A i \in 1..(Level - k) : calls'[i] = calls[i + k]
  BY <1>0, <1>1, CallCut
<1>3. Level \in Nat /\ Begun \in Nat /\ k \in 0..Level /\ k > 0
  BY <1>0, <1>1, LevelTypes
<1>4. ASSUME NEW j \in 1..k
      PROVE  /\ j \in 1..Level /\ calls[j].fn = "place" /\ calls[j].id \in ZoneIds
             /\ zone[calls[j].id].live /\ zone[calls[j].id].parent = Cur(j + 1)
             /\ Cur(j) = calls[j].id
  <2>1. j \in 1..Level /\ calls[j].fn = "place" /\ ~(j > Level)
    BY <1>1, <1>3
  <2> QED BY <1>0, <2>1 DEF Stack, Cur
<1>5. PICK w \in [1..k -> ZoneIds] : w = [j \in 1..k |-> calls[j].id]
  <2>1. [j \in 1..k |-> calls[j].id] \in [1..k -> ZoneIds]
    BY <1>4
  <2> QED BY <2>1
<1>6. \A j \in 1..k : w[j] = calls[j].id
  BY <1>5
<1>7. /\ rt' \in Seq(FrameRec) /\ Depth' = 1 /\ rt'[1].fn = "leaveTo"
      /\ rt'[1].id = w[k] /\ rt'[1].next = None
  <2>1. PICK z \in ZoneIds : z = w[k] /\ z = calls[k].id
    BY <1>3, <1>6
  <2>2. rt' = Frame("leaveTo", z, None) /\ z \in Int /\ None \in Int
    BY <1>1, <2>1, NoneApart
  <2> QED BY <2>1, <2>2, StartFrame
<1>8. ChainInv'
  <2>1. w[k] \in ZoneIds
    BY <1>3
  <2>2. Shape' /\ Saved' /\ \A r : FrameOrder(r)'
    BY <1>7, <2>1, OneFrame
  <2>3. UNCHANGED <<poolVars, zone, zoneN, zoneFree>>
    BY <1>1 DEF zoneVars
  <2> QED BY <1>0, <2>2, <2>3, StillTables
<1>9. Typed'
  BY <1>0, <1>1, <1>2, <1>7 DEF Typed, poolVars, zoneVars, memVars
<1>10. zone' = zone /\ zoneTop' = zoneTop /\ tasks' = tasks /\ Begun' = Begun
  BY <1>1 DEF zoneVars, Begun
<1>11. Stack' /\ \A j \in 1..(Level - k + 1) : Cur(j)' = Cur(j + k)
  <2>1. \A i \in 1..(Level - k) : calls[i + k].fn = "step" => tasks'[calls[i + k].id].live
    <3> SUFFICES ASSUME NEW i \in 1..(Level - k), calls[i + k].fn = "step"
                 PROVE  tasks'[calls[i + k].id].live
      OBVIOUS
    <3>1. i + k \in 1..Level
      BY <1>3
    <3> QED BY <1>0, <1>10, <3>1 DEF Stack
  <2>2. /\ \A u \in 1..Begun : /\ tasks'[u].zone = tasks[u].zone
                               /\ tasks'[u].live => tasks[u].live
        /\ UNCHANGED zone
    BY <1>10
  <2> QED BY ONLY <1>0, <1>2, <1>3, <1>10, <2>1, <2>2, StackCut
<1>12. Cur(1)' = Cur(k + 1)
  <2>1. 1 \in 1..(Level - k + 1) /\ 1 + k = k + 1
    BY <1>3
  <2> QED BY <1>11, <2>1
<1>13. zoneTop = Cur(1)
  <2>1. Depth = 0
    BY <1>0, <1>1, FrameTypes
  <2> QED BY <1>0, <2>1, Settled
<1>14. ASSUME NEW j \in 1..k
       PROVE  /\ ~Held(w[j])'
              /\ zone'[w[j]].live /\ zone'[w[j]].parent = IF j = k THEN Cur(1)' ELSE w[j + 1]
              /\ \A l \in 1..k : l # j => w[l] # w[j]
  <2>0. j \in 1..Level /\ calls[j].fn = "place" /\ w[j] = calls[j].id
    BY <1>4, <1>6
  <2>1. ASSUME NEW l \in 1..Level, l # j, calls[l].fn = "place"
        PROVE  calls[l].id # w[j]
    BY <1>0, <2>0, <2>1 DEF Stack
  <2>2. ~Held(w[j])'
    <3>1. ASSUME NEW i \in 1..(Level - k), calls'[i].fn = "place"
          PROVE  calls'[i].id # w[j]
      <4>1. i + k \in 1..Level /\ calls'[i] = calls[i + k] /\ i + k # j
        BY <1>2, <1>3
      <4> QED BY <2>1, <3>1, <4>1
    <3>2. ASSUME NEW u \in 1..Begun, tasks[u].live
          PROVE  tasks[u].zone # w[j]
      BY <1>0, <2>0, <3>2 DEF Stack
    <3> QED BY <1>2, <1>10, <3>1, <3>2 DEF Held
  <2>3. zone'[w[j]].live
    BY <1>4, <1>6, <1>10
  <2>4. zone'[w[j]].parent = IF j = k THEN Cur(1)' ELSE w[j + 1]
    <3>1. zone'[w[j]].parent = Cur(j + 1)
      BY <1>4, <1>6, <1>10
    <3>2. CASE j = k
      BY <1>12, <3>1, <3>2
    <3>3. CASE j # k
      <4>1. j + 1 \in 1..k
        BY <1>3, <3>3
      <4> QED BY <1>4, <1>6, <3>1, <3>3, <4>1
    <3> QED BY <3>2, <3>3
  <2>5. \A l \in 1..k : l # j => w[l] # w[j]
    BY <1>4, <1>6, <2>1
  <2> QED BY <2>2, <2>3, <2>4, <2>5
<1>15. Unwinding(k, w)'
  <2>1. zoneTop' = w[1] /\ 1 \in 1..k /\ k # 0
    BY <1>3, <1>4, <1>6, <1>10, <1>13
  <2>2. \A i \in 1..Depth' : i = 1
    BY <1>7
  <2>3. Depth' # 0
    BY <1>7
  <2> QED BY <1>3, <1>7, <1>14, <2>1, <2>2, <2>3 DEF Unwinding
<1> QED BY <1>8, <1>9, <1>11, <1>15 DEF PoolInv, PlaceInv, Unwound

LEMMA TaskStepStep ==
  ASSUME PoolInv, NEW t \in Nat, TaskStep(t)
  PROVE  PoolInv'
<1>0. Typed /\ ChainInv /\ Stack /\ Unwound
  BY DEF PoolInv, PlaceInv
<1>1. /\ rt = <<>> /\ rt' = <<>> /\ zoneTop' = tasks[t].zone
      /\ t \in 1..Begun /\ tasks[t].live /\ ~OnStack(t)
      /\ calls' = <<[fn |-> "step", id |-> t, sv |-> zoneTop]>> \o calls
      /\ UNCHANGED <<poolVars, zone, zoneN, zoneFree, memVars, tasks, halted>>
  BY DEF TaskStep, Running, Begun
<1>2. zoneTop \in ZoneIds \cup {None} /\ tasks[t].zone \in ZoneIds
  BY <1>0, <1>1, LevelTypes DEF Typed
<1>3. PICK c \in CallRec : /\ c = [fn |-> "step", id |-> t, sv |-> zoneTop]
                           /\ c.fn = "step" /\ c.id = t /\ c.sv = zoneTop
  <2>1. [fn |-> "step", id |-> t, sv |-> zoneTop] \in CallRec
    BY <1>2 DEF CallRec
  <2> QED BY <2>1
<1>4. /\ calls' \in Seq(CallRec) /\ Level' = Level + 1
      /\ calls'[1] = c /\ \A i \in 1..Level : calls'[i + 1] = calls[i]
  <2>1. calls' = <<c>> \o calls
    BY <1>1, <1>3
  <2> QED BY ONLY <1>0, <2>1, c \in CallRec, CallPush
<1>5. /\ rt' \in Seq(FrameRec) /\ Depth' = 0 /\ Depth = 0 /\ Shape' /\ Saved'
      /\ \A r : FrameOrder(r)'
  BY <1>0, <1>1, NoFrames, FrameTypes
<1>6. ChainInv'
  BY <1>0, <1>1, <1>5, StillTables
<1>7. Typed'
  BY <1>0, <1>1, <1>2, <1>4, <1>5 DEF Typed, poolVars, memVars
<1>8. Level \in Nat /\ Begun \in Nat /\ Begun' = Begun /\ tasks' = tasks /\ zone' = zone
  BY <1>0, <1>1, LevelTypes DEF Begun
<1>9. zoneTop = Cur(1)
  BY <1>0, <1>5, Settled
<1>10. \A j \in 1..(Level + 1) : Cur(j + 1)' = Cur(j)
  BY <1>0, <1>4, <1>8, CurPush
<1>11. Cur(1)' = tasks[t].zone
  BY <1>3, <1>4, <1>8 DEF Cur
<1>12. ASSUME NEW i \in 1..Level
       PROVE  /\ calls[i].fn = "place" => /\ calls[i].id \in ZoneIds
                                          /\ zone[calls[i].id].live
                                          /\ zone[calls[i].id].parent = Cur(i + 1)
              /\ calls[i].fn = "step" => /\ calls[i].id \in 1..Begun
                                         /\ tasks[calls[i].id].live
                                         /\ calls[i].sv = Cur(i + 1)
                                         /\ calls[i].id # t
              /\ \A j \in 1..Level :
                   i # j /\ calls[i].fn = calls[j].fn => calls[i].id # calls[j].id
  <2>1. calls[i].fn = "step" => calls[i].id # t
    BY <1>1 DEF OnStack, Level
  <2> QED BY <1>0, <2>1 DEF Stack
<1>13. ASSUME NEW i \in 1..(Level + 1)
       PROVE  /\ calls'[i].fn = "place" => /\ calls'[i].id \in ZoneIds
                                           /\ zone[calls'[i].id].live
                                           /\ zone[calls'[i].id].parent = Cur(i + 1)'
              /\ calls'[i].fn = "step" => /\ calls'[i].id \in 1..Begun
                                          /\ tasks[calls'[i].id].live
                                          /\ calls'[i].sv = Cur(i + 1)'
              /\ \A j \in 1..(Level + 1) :
                   i # j /\ calls'[i].fn = calls'[j].fn => calls'[i].id # calls'[j].id
  <2>1. CASE i = 1
    <3>1. ASSUME NEW j \in 1..(Level + 1), j # 1, calls'[j].fn = "step"
          PROVE  calls'[j].id # t
      <4>1. PICK k \in 1..Level : j = k + 1
        BY <1>8, <3>1
      <4>2. calls'[j] = calls[k]
        BY <1>4, <4>1
      <4> QED BY <1>12, <3>1, <4>2
    <3>2. Cur(1 + 1)' = Cur(1)
      BY <1>8, <1>10
    <3>3. /\ calls'[i].fn = "step" /\ calls'[i].id = t /\ calls'[i].sv = zoneTop
          /\ Cur(i + 1)' = zoneTop
      BY <1>3, <1>4, <1>9, <2>1, <3>2
    <3>4. ASSUME NEW j \in 1..(Level + 1), i # j, calls'[i].fn = calls'[j].fn
          PROVE  calls'[i].id # calls'[j].id
      BY <2>1, <3>1, <3>3, <3>4
    <3> QED BY <1>1, <3>3, <3>4
  <2>2. CASE i > 1
    <3>1. PICK k \in 1..Level : i = k + 1
      BY <1>8, <2>2
    <3>2. calls'[i] = calls[k] /\ Cur(i + 1)' = Cur(k + 1)
      BY <1>4, <1>8, <1>10, <3>1
    <3>3. ASSUME NEW j \in 1..(Level + 1), i # j, calls'[i].fn = calls'[j].fn
          PROVE  calls'[i].id # calls'[j].id
      <4>1. CASE j = 1
        BY <1>3, <1>4, <1>12, <3>2, <3>3, <4>1
      <4>2. CASE j > 1
        <5>1. PICK l \in 1..Level : j = l + 1
          BY <1>8, <4>2
        <5>2. l # k /\ calls'[j] = calls[l]
          BY <1>4, <3>1, <3>3, <5>1
        <5> QED BY <1>12, <3>2, <3>3, <5>2
      <4> QED BY <1>8, <4>1, <4>2
    <3> QED BY <1>12, <3>2, <3>3
  <2> QED BY <1>8, <2>1, <2>2
<1>14. ASSUME NEW u \in 1..Begun, tasks[u].live
       PROVE  /\ zone[tasks[u].zone].live
              /\ \A v \in 1..Begun :
                   v # u /\ tasks[v].live => tasks[v].zone # tasks[u].zone
              /\ \A i \in 1..(Level + 1) :
                   calls'[i].fn = "place" => calls'[i].id # tasks[u].zone
  <2>1. /\ zone[tasks[u].zone].live
        /\ \A v \in 1..Begun :
             v # u /\ tasks[v].live => tasks[v].zone # tasks[u].zone
        /\ \A i \in 1..Level :
             calls[i].fn = "place" => calls[i].id # tasks[u].zone
    BY <1>0, <1>14 DEF Stack
  <2>2. ASSUME NEW i \in 1..(Level + 1), calls'[i].fn = "place"
        PROVE  calls'[i].id # tasks[u].zone
    <3>1. CASE i = 1
      BY <1>3, <1>4, <2>2, <3>1
    <3>2. CASE i > 1
      <4>1. PICK k \in 1..Level : i = k + 1
        BY <1>8, <3>2
      <4> QED BY <1>4, <2>1, <2>2, <4>1
    <3> QED BY <1>8, <3>1, <3>2
  <2> QED BY <2>1, <2>2
<1>15. Stack'
  BY <1>4, <1>8, <1>13, <1>14 DEF Stack
<1>16. Unwound'
  <2>1. zoneTop' = Cur(1)' /\ \A i \in 1..Depth' : FALSE
    BY <1>1, <1>5, <1>11
  <2> QED BY <2>1, Calm
<1> QED BY <1>6, <1>7, <1>15, <1>16 DEF PoolInv, PlaceInv

-----------------------------------------------------------------------------
(***************************************************************************)
(* The invariant holds.                                                    *)
(***************************************************************************)
\* No call of the runtime runs before or after the step.
LEMMA IdleMatched ==
  ASSUME rt = <<>>, rt' = <<>>
  PROVE  Matched
<1>1. Depth = 0 /\ Depth' = 0
  BY NoFrames, EmptySeq DEF Depth
<1> QED BY <1>1 DEF Matched

LEMMA PoolInit ==
  ASSUME Init
  PROVE  PoolInv
<1>1. PICK b \in BOOLEAN : b = FALSE
  OBVIOUS
<1>2. PICK e : e = NewPool
  OBVIOUS
<1>3. PICK y : y = NewZone
  OBVIOUS
<1>4. e \in PoolRec /\ ~e.live
  <2>1. [generation |-> 0, parent |-> None, zone |-> None,
         firstChild |-> None, nextSibling |-> None, siblingPrev |-> None,
         zoneNext |-> None, zonePrev |-> None, freeNext |-> None,
         live |-> b, color |-> 0, blocks |-> {}, bytes |-> 0] \in PoolRec
    BY DEF PoolRec
  <2> QED BY <1>1, <1>2, <2>1 DEF NewPool
<1>5. y \in ZoneRec /\ ~y.live /\ y.firstPool = None
  <2>1. [firstPool |-> None, parent |-> None, color |-> 0, live |-> b,
         depth |-> 0] \in ZoneRec
    BY DEF ZoneRec
  <2> QED BY <1>1, <1>3, <2>1 DEF NewZone
<1>6. pool = [p \in PoolIds |-> e] /\ zone = [z \in ZoneIds |-> y]
  BY <1>2, <1>3 DEF Init
<1>7. /\ rt = <<>> /\ calls = <<>> /\ tasks = <<>> /\ zoneTop = None
      /\ zoneN = 0 /\ zoneFree = None
  BY DEF Init
<1>8. /\ rt \in Seq(FrameRec) /\ calls \in Seq(CallRec) /\ tasks \in Seq(TaskRec)
      /\ Depth = 0 /\ Level = 0 /\ Begun = 0
  BY <1>7, EmptySeq DEF Depth, Level, Begun
<1>9. Typed
  <2>1. pool \in [PoolIds -> PoolRec] /\ zone \in [ZoneIds -> ZoneRec]
    BY <1>4, <1>5, <1>6
  <2>2. 0 \in 0..TableMax /\ 0 \in 0..PlaceMax
    BY PoolsAssumption
  <2> QED BY <1>7, <1>8, <2>1, <2>2 DEF Typed, Init
<1>10. LivePools = {} /\ \A z \in ZoneIds : ~zone[z].live
  BY <1>4, <1>5, <1>6 DEF LivePools
<1>11. \A i \in 1..Depth : FALSE
  BY <1>8
<1>12. ChainInv
  <2>1. PICK r \in [PoolIds -> Nat] : r = [p \in PoolIds |-> 0]
    OBVIOUS
  <2>2. Ordered
    BY <1>10, <1>11 DEF Ordered, LinkOrder, FrameOrder
  <2>3. PlacesFree
    BY <1>7, <1>10, NoneApart DEF PlacesFree
  <2> QED BY <1>10, <1>11, <2>2, <2>3 DEF ChainInv, Shape, Saved, PlaceLinks, ChildLinks
<1>13. Stack
  BY <1>8 DEF Stack
<1>14. Unwound
  <2> DEFINE w == [k \in 1..0 |-> 0]
  <2>1. w \in [1..0 -> ZoneIds]
    OBVIOUS
  <2> HIDE DEF w
  <2>2. \A k \in 1..0 : FALSE
    OBVIOUS
  <2>3. zoneTop = Cur(1)
    BY <1>7, <1>8 DEF Cur
  <2>4. Unwinding(0, w)
    BY <1>11, <2>2, <2>3 DEF Unwinding
  <2> QED BY <2>1, <2>4 DEF Unwound
<1> QED BY <1>9, <1>12, <1>13, <1>14 DEF PoolInv, PlaceInv

\* Every step of every call, block, task and container keeps the invariant.
LEMMA PoolStep ==
  ASSUME PoolInv, [Next]_vars
  PROVE  PoolInv'
<1>0. Typed /\ ChainInv /\ PlaceInv
  BY DEF PoolInv
<1>1. CASE EnterPlace
  BY <1>1, EnterPlaceStep
<1>2. ASSUME NEW i \in 1..DepthMax, LeavePlace(i)
      PROVE  PoolInv'
  <2>1. i \in Nat
    BY PoolsAssumption
  <2> QED BY <1>2, <2>1, LeavePlaceStep
<1>3. CASE TaskBegin
  BY <1>3, TaskBeginStep
<1>4. ASSUME NEW t \in 1..TaskMax, TaskStep(t) \/ TaskDrop(t)
      PROVE  PoolInv'
  <2>1. t \in Nat
    BY PoolsAssumption
  <2> QED BY <1>4, <2>1, TaskStepStep, TaskDropStep
<1>5. ASSUME NEW done \in BOOLEAN, StepReturn(done)
      PROVE  PoolInv'
  BY <1>5, StepReturnStep
<1>6. ASSUME NEW q \in PoolIds \cup {None}, NEW z \in ZoneIds, NEW k \in Makes,
             PoolNew(q, z, k)
      PROVE  PoolInv'
  <2>1. /\ Typed' /\ ChainInv'
        /\ \A y \in ZoneIds : (zone'[y].live <=> zone[y].live)
                              /\ zone'[y].parent = zone[y].parent
    BY <1>0, <1>6, PoolNewStep
  <2>2. rt = <<>> /\ rt' = <<>> /\ UNCHANGED <<calls, tasks, zoneTop>>
    BY <1>6 DEF PoolNew, Running
  <2>3. Matched
    BY <2>2, IdleMatched
  <2>4. PlaceInv'
    BY <1>0, <2>1, <2>2, <2>3, PlacesKept
  <2> QED BY <2>1, <2>4 DEF PoolInv
<1>7. ASSUME NEW p \in PoolIds, PoolDrop(p) \/ PoolReset(p) \/ Release(p)
      PROVE  PoolInv'
  <2>1. Typed' /\ ChainInv' /\ Matched
    BY <1>0, <1>7, PoolCallStep
  <2>2. UNCHANGED <<calls, tasks, zoneTop, zone>>
    BY <1>7 DEF PoolDrop, PoolReset, Release, PoolCall, zoneVars
  <2>3. PlaceInv'
    BY <1>0, <2>1, <2>2, PlacesKept
  <2> QED BY <2>1, <2>3 DEF PoolInv
<1>8. ASSUME NEW p \in PoolIds, NEW b \in Blocks, NEW n \in Sizes, Take(p, b, n)
      PROVE  PoolInv'
  <2>1. Typed' /\ ChainInv'
    BY <1>0, <1>8, TakeStep
  <2>2. rt = <<>> /\ rt' = <<>> /\ UNCHANGED <<calls, tasks, zoneTop, zone>>
    BY <1>8 DEF Take, Running, zoneVars
  <2>3. Matched
    BY <2>2, IdleMatched
  <2>4. PlaceInv'
    BY <1>0, <2>2, <2>3, PlacesKept
  <2> QED BY <2>1, <2>4 DEF PoolInv
<1>9. ASSUME NEW p \in PoolIds, Rework(p)
      PROVE  PoolInv'
  <2>1. Typed' /\ ChainInv'
    BY <1>0, <1>9, ReworkStep
  <2>2. rt = <<>> /\ rt' = <<>> /\ UNCHANGED <<calls, tasks, zoneTop, zone>>
    BY <1>9 DEF Rework, Running, zoneVars
  <2>3. Matched
    BY <2>2, IdleMatched
  <2>4. PlaceInv'
    BY <1>0, <2>2, <2>3, PlacesKept
  <2> QED BY <2>1, <2>4 DEF PoolInv
<1>10. CASE DropEnter \/ NextChild \/ ReleaseNext
  <2>1. Typed' /\ ChainInv' /\ Matched
    BY <1>0, <1>10, DropEnterStep, NextChildStep, ReleaseNextStep
  <2>2. UNCHANGED <<calls, tasks, zoneTop, zone>>
    BY <1>10 DEF DropEnter, NextChild, ReleaseNext, zoneVars
  <2>3. PlaceInv'
    BY <1>0, <2>1, <2>2, PlacesKept
  <2> QED BY <2>1, <2>3 DEF PoolInv
<1>11. CASE DropSelf
  <2>1. /\ Typed' /\ ChainInv' /\ Matched
        /\ \A z \in ZoneIds : (zone'[z].live <=> zone[z].live)
                              /\ zone'[z].parent = zone[z].parent
    BY <1>0, <1>11, DropSelfStep
  <2>2. UNCHANGED <<calls, tasks, zoneTop>>
    BY <1>11 DEF DropSelf
  <2>3. PlaceInv'
    BY <1>0, <2>1, <2>2, PlacesKept
  <2> QED BY <2>1, <2>3 DEF PoolInv
<1>12. CASE ResetSelf
  <2>1. Typed' /\ ChainInv' /\ Matched
    BY <1>0, <1>12, ResetSelfStep
  <2>2. UNCHANGED <<calls, tasks, zoneTop, zone>>
    BY <1>12 DEF ResetSelf, zoneVars
  <2>3. PlaceInv'
    BY <1>0, <2>1, <2>2, PlacesKept
  <2> QED BY <2>1, <2>3 DEF PoolInv
<1>13. CASE ReleaseDone
  BY <1>0, <1>13, ReleaseDoneStep, ReleaseDonePlaces DEF PoolInv
<1>14. CASE LeaveRound
  BY <1>0, <1>14, LeaveRoundStep, LeaveRoundPlaces DEF PoolInv
<1>15. CASE LeavePop
  BY <1>0, <1>15, LeavePopStep, LeavePopPlaces DEF PoolInv
<1>16. CASE UNCHANGED vars
  <2>1. /\ UNCHANGED <<pool, poolCap, poolFree, kind, made>>
        /\ UNCHANGED <<zone, zoneN, zoneFree, zoneTop, size, bytesAll>>
        /\ UNCHANGED <<tasks, calls, rt, halted>>
    BY <1>16 DEF vars, poolVars, zoneVars, memVars
  <2>2. Depth' = Depth /\ Level' = Level /\ Begun' = Begun /\ LivePools' = LivePools
    BY <2>1 DEF Depth, Level, Begun, LivePools
  <2>3. Typed'
    BY <1>0, <2>1 DEF Typed
  <2>4. Shape' /\ Saved'
    BY <1>0, <2>1, <2>2 DEF ChainInv, Shape, ShapeAt, Saved, SavedAt
  <2>5. \A r : FrameOrder(r) => FrameOrder(r)'
    BY <2>1, <2>2 DEF FrameOrder
  <2>6. ChainInv'
    <3>1. UNCHANGED <<poolVars, zone, zoneN, zoneFree>>
      BY <2>1 DEF poolVars
    <3> QED BY <1>0, <2>4, <2>5, <3>1, TablesKept
  <2>7. Matched
    BY <2>1, <2>2 DEF Matched
  <2>8. PlaceInv'
    BY <1>0, <2>1, <2>7, PlacesKept
  <2> QED BY <2>3, <2>6, <2>8 DEF PoolInv
<1> QED
  BY <1>1, <1>2, <1>3, <1>4, <1>5, <1>6, <1>7, <1>8, <1>9, <1>10, <1>11, <1>12,
     <1>13, <1>14, <1>15, <1>16 DEF Next, Places, Containers, Runtime

\* PoolInv is an invariant of the registry.
THEOREM PoolsInvariant == Spec => []PoolInv
<1>1. Init => PoolInv
  BY PoolInit
<1>2. PoolInv /\ [Next]_vars => PoolInv'
  BY PoolStep
<1> QED BY <1>1, <1>2, PTL DEF Spec

\* ChainsMutual: at every step of every nested drop, reset and release, both
\* chains of every living pool are intact, so that extc_pool_drop unlinks the
\* pool it was given and no other.
THEOREM ChainsIntact == Spec => []ChainsMutual
<1>1. PoolInv => ChainsMutual
  <2> SUFFICES ASSUME PoolInv, NEW p \in LivePools
               PROVE  LET r == pool[p] IN
                      /\ zone[r.zone].live
                      /\ r.zoneNext # None => /\ pool[r.zoneNext].live
                                              /\ pool[r.zoneNext].zonePrev = p
                                              /\ pool[r.zoneNext].zone = r.zone
                      /\ IF r.zonePrev = None THEN zone[r.zone].firstPool = p
                                              ELSE pool[r.zonePrev].zoneNext = p
                      /\ r.nextSibling # None => /\ pool[r.nextSibling].siblingPrev = p
                                                 /\ pool[r.nextSibling].parent = r.parent
                      /\ r.parent # None =>
                           /\ pool[r.parent].live
                           /\ IF r.siblingPrev = None THEN pool[r.parent].firstChild = p
                                                      ELSE pool[r.siblingPrev].nextSibling = p
    BY DEF ChainsMutual
  <2>1. PlaceLinks /\ ChildLinks
    BY DEF PoolInv, ChainInv
  <2> QED BY <2>1 DEF PlaceLinks, ChildLinks
<1> QED BY <1>1, PoolsInvariant, PTL

\* NamedPlaceAlive: whenever generated code runs, every place it can name for
\* a new pool is alive, whatever tasks began, ended or were dropped before.
THEOREM PlacesNamedAlive == Spec => []NamedPlaceAlive
<1>1. PoolInv => NamedPlaceAlive
  <2> SUFFICES ASSUME PoolInv, rt = <<>>, NEW z \in Nameable, z # None
               PROVE  zone[z].live
    BY DEF NamedPlaceAlive
  <2>0. Typed /\ Stack /\ Unwound
    BY DEF PoolInv, PlaceInv
  <2>1. Level \in Nat /\ \A i \in 1..Level : calls[i].fn \in {"place", "step"}
    BY <2>0, LevelTypes
  <2>2. ASSUME NEW i \in 1..Level
        PROVE  zone[IF calls[i].fn = "step" THEN tasks[calls[i].id].zone
                                            ELSE calls[i].id].live
    BY <2>0, <2>1 DEF Stack
  <2>3. CASE z = zoneTop
    <3>1. Depth = 0
      BY <2>0, FrameTypes
    <3>2. z = Cur(1)
      BY <2>0, <2>3, <3>1, Settled
    <3>3. 1 \in 1..Level
      BY <2>1, <3>2 DEF Cur
    <3>4. z = IF calls[1].fn = "step" THEN tasks[calls[1].id].zone ELSE calls[1].id
      <4>1. calls[1].fn \in {"place", "step"} /\ ~(1 > Level)
        BY <2>1, <3>3
      <4> QED BY <3>2, <4>1 DEF Cur
    <3> QED BY <2>2, <3>3, <3>4
  <2>4. CASE z # zoneTop
    <3> DEFINE steps == {i \in 1..Level : calls[i].fn = "step"}
               last == IF steps = {} THEN Level
                       ELSE CHOOSE i \in steps : \A j \in steps : i <= j
    <3>1. last \in Nat /\ last <= Level
      <4>1. CASE steps = {}
        BY <2>1, <4>1
      <4>2. CASE steps # {}
        <5>1. steps \in SUBSET Nat
          BY <2>1
        <5> HIDE DEF steps
        <5>2. \E i \in steps : \A j \in steps : i <= j
          BY <4>2, <5>1, NatMin
        <5>3. last \in steps
          BY <4>2, <5>2
        <5> QED BY <2>1, <5>3 DEF steps
      <4> QED BY <4>1, <4>2
    <3>2. PICK i \in 1..last :
            z = IF calls[i].fn = "step" THEN tasks[calls[i].id].zone ELSE calls[i].id
      BY <2>4 DEF Nameable, Level
    <3>3. i \in 1..Level
      BY <2>1, <3>1
    <3> QED BY <2>2, <3>2, <3>3
  <2> QED BY <2>3, <2>4
<1> QED BY <1>1, PoolsInvariant, PTL

\* MarkOnStack: leaving a place, out of however many blocks, never walks past
\* its mark: the loop always stands on a living place.
THEOREM LeaveStopsAtMark == Spec => []MarkOnStack
<1>1. PoolInv => MarkOnStack
  <2> SUFFICES ASSUME PoolInv, NEW i \in 1..Depth, rt[i].fn = "leaveTo"
               PROVE  zoneTop # None /\ zone[zoneTop].live
    BY DEF MarkOnStack, Depth
  <2>1. PICK n \in Nat : \E w \in [1..n -> ZoneIds] : Unwinding(n, w)
    BY DEF PoolInv, PlaceInv, Unwound
  <2>2. PICK w \in [1..n -> ZoneIds] : Unwinding(n, w)
    BY <2>1
  <2>3. n > 0 /\ zone[w[1]].live /\ zoneTop = w[1]
    BY <2>2 DEF Unwinding
  <2>4. w[1] \in ZoneIds
    BY <2>3
  <2> QED BY <2>3, <2>4, NoneApart
<1> QED BY <1>1, PoolsInvariant, PTL

\* SavedLinkAlive: the link a loop saved before it dropped a pool still names a
\* living pool of the same chain when the loop comes back to it, however deep
\* the drop went.
THEOREM SavedLinksLive == Spec => []SavedLinkAlive
<1>1. PoolInv => SavedLinkAlive
  <2> SUFFICES ASSUME PoolInv, NEW i \in 1..Depth, rt[i].next # None
               PROVE  /\ rt[i].fn = "release" =>
                           pool[rt[i].next].live /\ pool[rt[i].next].zone = rt[i].id
                      /\ rt[i].fn \in {"drop", "reset"} =>
                           pool[rt[i].next].live /\ pool[rt[i].next].parent = rt[i].id
    BY DEF SavedLinkAlive, Depth
  <2>1. Typed /\ Shape /\ Saved /\ PlaceLinks /\ ChildLinks
    BY DEF PoolInv, ChainInv
  <2>2. ShapeAt(i) /\ SavedAt(i) /\ Depth \in Nat
    BY <2>1, FrameTypes DEF Shape, Saved
  <2>3. ASSUME i > 1, rt[i - 1].fn \in {"call", "drop"}
        PROVE  rt[i - 1].id \in PoolIds /\ pool[rt[i - 1].id].live
    <3>1. PICK j \in 1..Depth : j = i - 1
      BY <2>2, <2>3
    <3>2. ShapeAt(j) /\ SavedAt(j)
      BY <2>1 DEF Shape, Saved
    <3> QED BY <2>3, <3>1, <3>2 DEF ShapeAt, SavedAt
  <2>4. CASE rt[i].fn = "release"
    <3>1. rt[i].id \in ZoneIds /\ zone[rt[i].id].live
      BY <2>2, <2>4 DEF ShapeAt, SavedAt
    <3>2. CASE i = 1
      <4>1. zone[rt[i].id].firstPool = rt[i].next
        BY <2>2, <2>4, <3>2 DEF SavedAt
      <4> QED BY <2>1, <2>4, <3>1, <4>1 DEF PlaceLinks
    <3>3. CASE i > 1
      <4>1. PICK c : c = rt[i - 1].id
        OBVIOUS
      <4>2. c \in LivePools
        BY <2>2, <2>3, <2>4, <3>3, <4>1 DEF ShapeAt, LivePools
      <4>3. zone[rt[i].id].firstPool = c /\ pool[c].zoneNext = rt[i].next
        BY <2>2, <2>4, <3>3, <4>1 DEF SavedAt
      <4>4. pool[c].zone = rt[i].id
        BY <2>1, <3>1, <4>2, <4>3, NoneApart DEF PlaceLinks, LivePools
      <4> QED BY <2>1, <2>4, <4>2, <4>3, <4>4 DEF PlaceLinks
    <3> QED BY <3>2, <3>3
  <2>5. CASE rt[i].fn \in {"drop", "reset"}
    <3>1. rt[i].id \in LivePools
      BY <2>2, <2>5 DEF ShapeAt, SavedAt, LivePools
    <3>2. CASE i = 1
      <4>1. pool[rt[i].id].firstChild = rt[i].next
        BY <2>2, <2>5, <3>2 DEF SavedAt
      <4> QED BY <2>1, <2>5, <3>1, <4>1 DEF ChildLinks
    <3>3. CASE i > 1
      <4>1. PICK c : c = rt[i - 1].id
        OBVIOUS
      <4>2. c \in LivePools
        BY <2>2, <2>3, <2>5, <3>3, <4>1 DEF ShapeAt, LivePools
      <4>3. pool[rt[i].id].firstChild = c /\ pool[c].nextSibling = rt[i].next
        BY <2>2, <2>5, <3>3, <4>1 DEF SavedAt
      <4>4. pool[c].parent = rt[i].id
        BY <2>1, <3>1, <4>2, <4>3, NoneApart DEF ChildLinks, LivePools
      <4> QED BY <2>1, <2>5, <4>2, <4>3, <4>4 DEF ChildLinks
    <3> QED BY <3>2, <3>3
  <2> QED BY <2>4, <2>5
<1> QED BY <1>1, PoolsInvariant, PTL
=============================================================================
