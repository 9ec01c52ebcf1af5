-------------------------------- MODULE Pools --------------------------------
(***************************************************************************)
(* The pool registry of the emitted runtime (src/back/pools.c), the places *)
(* the generated code opens and closes around blocks and functions         *)
(* (src/back/codegen.c) and the task table (src/back/coroutine.c).         *)
(*                                                                         *)
(* A pool is a slot of a table, reused through a free list.  It hangs off  *)
(* two doubly linked chains: its place's chain (lifetime) and its parent's *)
(* child chain (nesting).  Dropping a pool is recursive, and three loops   *)
(* (place release, drop, reset) save the next link before a call that      *)
(* frees records: those calls are modelled link by link, with their C      *)
(* stack, because that saved link is what can go wrong.                    *)
(*                                                                         *)
(* Abstractions.  Blocks of memory are addresses with a size; zeroing,     *)
(* copying and out-of-memory exits are left out.                           *)
(***************************************************************************)
EXTENDS Integers, Sequences, FiniteSets, SequencesExt

CONSTANTS
  FirstCap,    \* first size of the pool table (64 in the code)
  TableMax,    \* bound of the model: size the pool table may grow to
  PlaceMax,    \* bound: place slots
  DepthMax,    \* bound: frames of the generated code on the C stack
  TaskMax,     \* bound: tasks ever begun
  GenMax,      \* bound: generation of a pool
  ColorMod,    \* 1 << EXTC_ZONE_COLOR_BITS
  Blocks,      \* addresses malloc can return for a plate block
  Sizes,       \* sizes a container asks for
  Makes        \* what the program creates: 0 containers, 1 object tables

ASSUME PoolsAssumption ==
  /\ FirstCap \in Nat \ {0}
  /\ {TableMax, PlaceMax, DepthMax, TaskMax, GenMax} \subseteq Nat
  /\ ColorMod \in Nat \ {0, 1}
  /\ IsFiniteSet(Blocks) /\ Sizes \subseteq Nat \ {0}
  /\ Makes \subseteq {0, 1}

None == -1
PoolIds == 0..(TableMax - 1)
ZoneIds == 0..(PlaceMax - 1)
TaskIds == 0..(TaskMax - 1)

VARIABLES
  pool,      \* extc_pools: id -> record
  poolCap,   \* extc_poolCap
  poolFree,  \* extc_poolFreeHead
  kind,      \* extc_poolKind: 0 container plate, 1 object table
  made,      \* what it was created as: 0, 1, or 2 for a pool of dyn values
             \* (history: who holds the pool)
  zone,      \* extc_zones: id -> record
  zoneN,     \* extc_zoneNext: slots ever used
  zoneFree,  \* extc_zoneFree, threaded through parent
  zoneTop,   \* extc_zoneTop: the current place
  size,      \* address -> bytes of the block there, 0 when not allocated
  bytesAll,  \* extc_poolBytesAll
  tasks,     \* extc_taskZone and extc_taskLive, in order of extc_taskNext
  calls,     \* frames of generated code, innermost first
  rt,        \* frames of the runtime's own calls, innermost first
  halted     \* the program ended in a trap

poolVars == <<pool, poolCap, poolFree, kind, made>>
zoneVars == <<zone, zoneN, zoneFree, zoneTop>>
memVars  == <<size, bytesAll>>
vars == <<poolVars, zoneVars, memVars, tasks, calls, rt, halted>>

NewPool == [generation |-> 0, parent |-> None, zone |-> None,
            firstChild |-> None, nextSibling |-> None, siblingPrev |-> None,
            zoneNext |-> None, zonePrev |-> None, freeNext |-> None,
            live |-> FALSE, color |-> 0, blocks |-> {}, bytes |-> 0]
NewZone == [firstPool |-> None, parent |-> None, color |-> 0, live |-> FALSE,
            depth |-> 0]

Init ==
  /\ pool = [p \in PoolIds |-> NewPool]
  /\ poolCap = 0 /\ poolFree = None
  /\ kind = [p \in PoolIds |-> 0]
  /\ made = [p \in PoolIds |-> 0]
  /\ zone = [z \in ZoneIds |-> NewZone]
  /\ zoneN = 0 /\ zoneFree = None /\ zoneTop = None
  /\ size = [b \in Blocks |-> 0] /\ bytesAll = 0
  /\ tasks = <<>> /\ calls = <<>> /\ rt = <<>>
  /\ halted = FALSE

\* Generated code runs only when no call of the runtime is in progress.
Running == rt = <<>> /\ ~halted

\* Frames of the runtime's calls.  A release or a drop of something that is
\* not live returns at once.
Frame(fn, id, next) == <<[fn |-> fn, id |-> id, next |-> next]>>
ReleaseCall(z) ==
  IF zone[z].live THEN Frame("release", z, zone[z].firstPool) ELSE <<>>

(***************************************************************************)
(* Places                                                                  *)
(***************************************************************************)
\* extc_zoneAllocSlot: a recycled slot or the next one, with the next colour.
SlotFree == zoneFree # None \/ zoneN < PlaceMax
SlotId   == IF zoneFree # None THEN zoneFree ELSE zoneN
NextColor(c) == IF (c + 1) % ColorMod = 0 THEN 1 ELSE (c + 1) % ColorMod

AllocSlot(parent, depth) ==
  /\ SlotFree
  /\ zone' = [zone EXCEPT ![SlotId] =
                [firstPool |-> None, parent |-> parent,
                 color |-> NextColor(@.color), live |-> TRUE, depth |-> depth]]
  /\ IF zoneFree # None THEN zoneFree' = zone[zoneFree].parent /\ zoneN' = zoneN
                        ELSE zoneFree' = zoneFree /\ zoneN' = zoneN + 1

\* A block or a function body that creates pools opens its place
\* (extc_pool_zoneEnter) and keeps the mark.
EnterPlace ==
  /\ Running
  /\ Len(calls) < DepthMax
  /\ AllocSlot(zoneTop, IF zoneTop # None THEN zone[zoneTop].depth + 1 ELSE 1)
  /\ zoneTop' = SlotId
  /\ calls' = <<[fn |-> "place", id |-> SlotId, sv |-> None]>> \o calls
  /\ UNCHANGED <<poolVars, memVars, tasks, rt, halted>>

\* It leaves by its mark: the end of a block, or an early exit out of several
\* at once, within the function (no coroutine step in between).
LeavePlace(i) ==
  /\ Running
  /\ i \in 1..Len(calls)
  /\ \A j \in 1..i : calls[j].fn = "place"
  /\ rt' = Frame("leaveTo", calls[i].id, None)
  /\ calls' = SubSeq(calls, i + 1, Len(calls))
  /\ UNCHANGED <<poolVars, zoneVars, memVars, tasks, halted>>

(***************************************************************************)
(* Tasks: a coroutine's storage hangs off a place of its own that is not   *)
(* on the stack of places.                                                 *)
(***************************************************************************)
TaskBegin ==
  /\ Running
  /\ Len(tasks) < TaskMax
  /\ AllocSlot(None, 0)
  /\ tasks' = Append(tasks, [zone |-> SlotId, live |-> TRUE])
  /\ UNCHANGED <<poolVars, zoneTop, memVars, calls, rt, halted>>

OnStack(t) == \E i \in 1..Len(calls) : calls[i].fn = "step" /\ calls[i].id = t

\* $next: the task's place becomes the current one for a step.
TaskStep(t) ==
  /\ Running
  /\ t \in 1..Len(tasks) /\ tasks[t].live /\ ~OnStack(t)
  /\ Len(calls) < DepthMax
  /\ calls' = <<[fn |-> "step", id |-> t, sv |-> zoneTop]>> \o calls
  /\ zoneTop' = tasks[t].zone
  /\ UNCHANGED <<poolVars, zone, zoneN, zoneFree, memVars, tasks, rt, halted>>

\* Mutant: a task ends by leaving to its place.
EndTaskLeaves(t) ==
  /\ tasks' = [tasks EXCEPT ![t].live = FALSE]
  /\ rt' = IF tasks[t].live THEN Frame("leaveTo", tasks[t].zone, None) ELSE rt

\* extc_task_end: released once, whatever the stack looks like.
EndTask(t) ==
  /\ tasks' = [tasks EXCEPT ![t].live = FALSE]
  /\ rt' = IF tasks[t].live
           THEN ReleaseCall(tasks[t].zone)
           ELSE rt

\* Mutant: the caller's place is not made current again.
StepReturnStays(done) ==
  /\ Running
  /\ calls # <<>> /\ calls[1].fn = "step"
  /\ calls' = Tail(calls)
  /\ IF done THEN EndTask(calls[1].id) ELSE UNCHANGED <<tasks, rt>>
  /\ UNCHANGED <<poolVars, zoneVars, memVars, halted>>

\* The step returns, suspended or done.
StepReturn(done) ==
  /\ Running
  /\ calls # <<>> /\ calls[1].fn = "step"
  /\ zoneTop' = calls[1].sv
  /\ calls' = Tail(calls)
  /\ IF done THEN EndTask(calls[1].id) ELSE UNCHANGED <<tasks, rt>>
  /\ UNCHANGED <<poolVars, zone, zoneN, zoneFree, memVars, halted>>

\* A scheduler drops a suspended task.
TaskDrop(t) ==
  /\ Running
  /\ t \in 1..Len(tasks) /\ tasks[t].live /\ ~OnStack(t)
  /\ EndTask(t)
  /\ UNCHANGED <<poolVars, zoneVars, memVars, calls, halted>>

(***************************************************************************)
(* Creating pools                                                          *)
(***************************************************************************)
\* Places the generated code can name here (zoneArgRef): those opened since
\* the innermost coroutine step, that step's own place, and the current one.
Nameable ==
  LET steps == {i \in 1..Len(calls) : calls[i].fn = "step"}
      last == IF steps = {} THEN Len(calls)
                            ELSE CHOOSE i \in steps : \A j \in steps : i <= j
  IN {IF calls[i].fn = "step" THEN tasks[calls[i].id].zone ELSE calls[i].id :
        i \in 1..last} \cup {zoneTop}

\* extc_pool_new_at takes the head of the free list; an empty list means a
\* table of twice the size, whose other new slots go on the list in order.
WantCap == IF poolCap = 0 THEN FirstCap ELSE 2 * poolCap
CanTake == poolFree # None \/ WantCap <= TableMax
TakenId == IF poolFree # None THEN poolFree ELSE poolCap

\* Mutant: the list of new slots runs one past the table.
GrownPastEnd ==
  IF poolFree # None THEN pool
  ELSE [p \in PoolIds |->
          IF p \in (poolCap + 1)..(WantCap - 1)
          THEN [pool[p] EXCEPT !.freeNext = p + 1] ELSE pool[p]]
Grown ==
  IF poolFree # None THEN pool
  ELSE [p \in PoolIds |->
          IF p \in (poolCap + 1)..(WantCap - 1)
          THEN [pool[p] EXCEPT !.freeNext = IF p + 1 < WantCap THEN p + 1 ELSE None]
          ELSE pool[p]]

\* Mutant: the other new slots are not put on the free list.
FreeUnthreaded == IF poolFree # None THEN pool[poolFree].freeNext ELSE None
FreeAfterTake ==
  IF poolFree # None THEN pool[poolFree].freeNext
  ELSE IF WantCap > poolCap + 1 THEN poolCap + 1 ELSE None

\* Mutant: only a pool without parent is linked to its place.
LinkZoneRoots(P, p, z) ==
  IF P[p].parent = None THEN [P EXCEPT ![p].zoneNext = zone[z].firstPool] ELSE P

\* Head of the place's chain: every pool, nested or not.
LinkZone(P, p, z) ==
  LET old == zone[z].firstPool
      Q == [P EXCEPT ![p].zoneNext = old]
  IN IF old # None THEN [Q EXCEPT ![old].zonePrev = p] ELSE Q

\* Head of the parent's child chain.
LinkParent(P, p, q) ==
  IF q = None THEN P
  ELSE LET old == P[q].firstChild
           Q == [P EXCEPT ![p].nextSibling = old, ![q].firstChild = p]
       IN IF old # None THEN [Q EXCEPT ![old].siblingPrev = p] ELSE Q

\* The table with the new pool in it.
Born(q, z) ==
  LET p == TakenId
      fresh == [NewPool EXCEPT !.generation = pool[p].generation + 1,
                               !.parent = q, !.zone = z, !.live = TRUE,
                               !.color = zone[z].color,
                               !.freeNext = pool[p].freeNext]
  IN LinkParent(LinkZone([Grown EXCEPT ![p] = fresh], p, z), p, q)

NewAt(z) ==
  /\ z # None /\ zone[z].live
  /\ CanTake
  /\ ~pool[TakenId].live
  /\ pool[TakenId].generation < GenMax
  /\ zone' = [zone EXCEPT ![z].firstPool = TakenId]
  /\ poolFree' = FreeAfterTake
  /\ poolCap' = IF poolFree # None THEN poolCap ELSE WantCap

\* A container makes its pool: parent q when it nests one.  new_at leaves the
\* mode of the slot as it was; extc_pool_new_table sets it.
PoolNew(q, z, k) ==
  /\ Running
  /\ q # None => pool[q].live /\ made[q] # 2
  /\ z \in Nameable
  /\ NewAt(z)
  /\ pool' = Born(q, z)
  /\ kind' = IF k = 1 THEN [kind EXCEPT ![TakenId] = 1] ELSE kind
  /\ made' = [made EXCEPT ![TakenId] = k]
  /\ UNCHANGED <<zoneN, zoneFree, zoneTop, memVars, tasks, calls, rt, halted>>

(***************************************************************************)
(* Dropping pools.  A container's release resets its pool and drops it; it *)
(* does nothing when its generation is not the pool's (stale copy).        *)
(***************************************************************************)
PoolCall(p, frames) ==
  /\ Running
  /\ pool[p].live /\ made[p] # 2
  /\ rt' = frames
  /\ UNCHANGED <<poolVars, zoneVars, memVars, tasks, calls, halted>>

PoolDrop(p)  == PoolCall(p, Frame("call", p, None))
PoolReset(p) == pool[p].generation < GenMax /\
                PoolCall(p, Frame("reset", p, pool[p].firstChild))
Release(p)   == pool[p].generation < GenMax /\
                PoolCall(p, Frame("reset", p, pool[p].firstChild)
                              \o Frame("call", p, None))

Top == rt[1]
Return == rt' = Tail(rt)
InCall(fn) == rt # <<>> /\ Top.fn = fn
Moves(next) == <<[Top EXCEPT !.next = next]>> \o Tail(rt)

\* Entry of extc_pool_drop.
DropEnter ==
  /\ InCall("call")
  /\ rt' = (IF pool[Top.id].live THEN Frame("drop", Top.id, pool[Top.id].firstChild)
                                 ELSE <<>>) \o Tail(rt)
  /\ UNCHANGED <<poolVars, zoneVars, memVars, tasks, calls, halted>>

\* Mutant: the loop does not advance.
NextChildStuck ==
  /\ InCall("drop") \/ InCall("reset")
  /\ Top.next # None
  /\ rt' = Frame("call", Top.next, None) \o rt
  /\ UNCHANGED <<poolVars, zoneVars, memVars, tasks, calls, halted>>

\* Both child loops: the next sibling is read, then the child is dropped.
NextChild ==
  /\ InCall("drop") \/ InCall("reset")
  /\ Top.next # None
  /\ rt' = Frame("call", Top.next, None) \o Moves(pool[Top.next].nextSibling)
  /\ UNCHANGED <<poolVars, zoneVars, memVars, tasks, calls, halted>>

\* Mutant: the pool is taken for the head of its parent's chain.
UnlinkParentHead(P, p) ==
  LET q == P[p].parent
      nx == P[p].nextSibling
      Q == [P EXCEPT ![q].firstChild = nx]
  IN IF q = None THEN P
     ELSE IF nx # None THEN [Q EXCEPT ![nx].siblingPrev = None] ELSE Q
UnlinkParent(P, p) ==
  LET q == P[p].parent
      pv == P[p].siblingPrev
      nx == P[p].nextSibling
      Q == IF pv # None THEN [P EXCEPT ![pv].nextSibling = nx]
                        ELSE [P EXCEPT ![q].firstChild = nx]
  IN IF q = None THEN P
     ELSE IF nx # None THEN [Q EXCEPT ![nx].siblingPrev = pv] ELSE Q

\* Mutant: the successor keeps its link back.
UnlinkZoneOneSide(P, p) ==
  LET pv == P[p].zonePrev
  IN IF pv # None THEN [P EXCEPT ![pv].zoneNext = P[p].zoneNext] ELSE P
UnlinkZone(P, p) ==
  LET pv == P[p].zonePrev
      nx == P[p].zoneNext
      Q == IF pv # None THEN [P EXCEPT ![pv].zoneNext = nx] ELSE P
  IN IF nx # None THEN [Q EXCEPT ![nx].zonePrev = pv] ELSE Q

\* extc_pool_freeSelf: nextSibling and zoneNext keep their old values.
FreeSelf(P, p) ==
  [P EXCEPT ![p].live = FALSE, ![p].parent = None, ![p].firstChild = None,
            ![p].zonePrev = None, ![p].siblingPrev = None,
            ![p].freeNext = poolFree, ![p].blocks = {}, ![p].bytes = 0]

\* The children are gone: the pool leaves both chains and frees its plate.
DropSelf ==
  LET p == Top.id IN
  /\ InCall("drop") /\ Top.next = None
  /\ pool' = FreeSelf(UnlinkZone(UnlinkParent(pool, p), p), p)
  /\ zone' = IF pool[p].zonePrev = None
             THEN [zone EXCEPT ![pool[p].zone].firstPool = pool[p].zoneNext]
             ELSE zone
  /\ poolFree' = p
  /\ size' = [b \in Blocks |-> IF b \in pool[p].blocks THEN 0 ELSE size[b]]
  /\ bytesAll' = bytesAll - MapThenSumSet(LAMBDA b : size[b], pool[p].blocks)
  /\ Return
  /\ UNCHANGED <<poolCap, kind, made, zoneN, zoneFree, zoneTop, tasks, calls,
                 halted>>

\* A reset keeps the pool and its plate; its handles go stale.
ResetSelf ==
  /\ InCall("reset") /\ Top.next = None
  /\ pool' = [pool EXCEPT ![Top.id].firstChild = None,
                          ![Top.id].generation = @ + 1]
  /\ Return
  /\ UNCHANGED <<poolCap, poolFree, kind, made, zoneVars, memVars, tasks, calls,
                 halted>>

\* extc_zoneRelease: the next link is read, then the pool is dropped.
ReleaseNext ==
  /\ InCall("release") /\ Top.next # None
  /\ rt' = Frame("call", Top.next, None) \o Moves(pool[Top.next].zoneNext)
  /\ UNCHANGED <<poolVars, zoneVars, memVars, tasks, calls, halted>>

ReleaseDone ==
  /\ InCall("release") /\ Top.next = None
  /\ zone' = [zone EXCEPT ![Top.id].firstPool = None, ![Top.id].live = FALSE,
                          ![Top.id].parent = zoneFree]
  /\ zoneFree' = Top.id
  /\ Return
  /\ UNCHANGED <<poolVars, zoneN, zoneTop, memVars, tasks, calls, halted>>

\* extc_pool_zoneLeaveTo: one round of the loop.  The parent is read before
\* the release, which threads the free list through it.
LeaveRound ==
  /\ InCall("leaveTo")
  /\ rt' = (IF zoneTop = None THEN <<>>
            ELSE ReleaseCall(zoneTop)
                   \o Frame("popTo", Top.id, zone[zoneTop].parent)) \o Tail(rt)
  /\ UNCHANGED <<poolVars, zoneVars, memVars, tasks, calls, halted>>

LeavePop ==
  /\ InCall("popTo")
  /\ zoneTop' = Top.next
  /\ rt' = (IF zoneTop = Top.id THEN <<>> ELSE Frame("leaveTo", Top.id, None))
           \o Tail(rt)
  /\ UNCHANGED <<poolVars, zone, zoneN, zoneFree, memVars, tasks, calls, halted>>

(***************************************************************************)
(* The plate: blocks a container takes, gives back and resizes             *)
(***************************************************************************)
Unused(b) == size[b] = 0

Take(p, b, n) ==
  /\ Running
  /\ pool[p].live /\ made[p] # 2 /\ Unused(b)
  /\ pool' = [pool EXCEPT ![p].blocks = @ \cup {b}, ![p].bytes = @ + n]
  /\ size' = [size EXCEPT ![b] = n]
  /\ bytesAll' = bytesAll + n
  /\ UNCHANGED <<poolCap, poolFree, kind, made, zoneVars, tasks, calls, rt, halted>>

Give(p, b) ==
  /\ pool[p].live /\ b \in pool[p].blocks
  /\ pool' = [pool EXCEPT ![p].blocks = @ \ {b}, ![p].bytes = @ - size[b]]
  /\ size' = [size EXCEPT ![b] = 0]
  /\ bytesAll' = bytesAll - size[b]
  /\ UNCHANGED halted

\* Mutant: the counters take the new size for the growth.
ResizeWhole(p, b, c, n) ==
  /\ pool[p].live /\ b \in pool[p].blocks
  /\ c = b \/ Unused(c)
  /\ pool' = [pool EXCEPT ![p].blocks = (@ \ {b}) \cup {c}, ![p].bytes = @ + n]
  /\ size' = [size EXCEPT ![b] = 0, ![c] = n]
  /\ bytesAll' = bytesAll + n
  /\ UNCHANGED halted

\* realloc keeps the address or moves the block.
Resize(p, b, c, n) ==
  /\ pool[p].live /\ b \in pool[p].blocks
  /\ c = b \/ Unused(c)
  /\ pool' = [pool EXCEPT ![p].blocks = (@ \ {b}) \cup {c},
                          ![p].bytes = @ + n - size[b]]
  /\ size' = [size EXCEPT ![b] = 0, ![c] = n]
  /\ bytesAll' = bytesAll + n - size[b]
  /\ UNCHANGED halted

\* A block of an object table may not move or go: the program traps.
Trap ==
  /\ halted' = TRUE
  /\ UNCHANGED <<pool, memVars>>

\* A container grows, shrinks or replaces its storage.
Rework(p) ==
  /\ Running
  /\ \E b \in pool[p].blocks :
       IF kind[p] # 0 THEN Trap
       ELSE Give(p, b) \/ \E c \in Blocks, n \in Sizes : Resize(p, b, c, n)
  /\ made[p] = 0
  /\ UNCHANGED <<poolCap, poolFree, kind, made, zoneVars, tasks, calls, rt>>

(***************************************************************************)
(* Specification                                                           *)
(***************************************************************************)
Places ==
  \/ EnterPlace
  \/ \E i \in 1..DepthMax : LeavePlace(i)
  \/ TaskBegin
  \/ \E t \in 1..TaskMax : TaskStep(t) \/ TaskDrop(t)
  \/ \E done \in BOOLEAN : StepReturn(done)

Containers ==
  \/ \E q \in PoolIds \cup {None}, z \in ZoneIds, k \in Makes : PoolNew(q, z, k)
  \/ \E p \in PoolIds : PoolDrop(p) \/ PoolReset(p) \/ Release(p)
  \/ \E p \in PoolIds, b \in Blocks, n \in Sizes : Take(p, b, n)
  \/ \E p \in PoolIds : Rework(p)

\* The running call of the runtime.
Runtime ==
  \/ DropEnter \/ NextChild \/ DropSelf \/ ResetSelf
  \/ ReleaseNext \/ ReleaseDone
  \/ LeaveRound \/ LeavePop

Next == Places \/ Containers \/ Runtime

Spec == Init /\ [][Next]_vars

\* A call of the runtime runs to its end: it is the program's only thread.
FairSpec == Spec /\ WF_vars(Runtime)

(***************************************************************************)
(* Properties                                                              *)
(***************************************************************************)
\* Types: every link of a pool or place record names a slot of its table or none,
\* also in the records of slots that are free.
TypeOK ==
  /\ poolCap \in 0..TableMax
  /\ poolFree \in PoolIds \cup {None}
  /\ \A p \in PoolIds :
       /\ pool[p].generation \in 0..GenMax
       /\ {pool[p].parent, pool[p].firstChild, pool[p].nextSibling,
           pool[p].siblingPrev, pool[p].zoneNext, pool[p].zonePrev,
           pool[p].freeNext} \subseteq PoolIds \cup {None}
       /\ pool[p].zone \in ZoneIds \cup {None}
       /\ pool[p].live \in BOOLEAN
       /\ pool[p].blocks \subseteq Blocks /\ pool[p].bytes \in Nat
  /\ kind \in [PoolIds -> {0, 1}] /\ made \in [PoolIds -> 0..2]
  /\ \A z \in ZoneIds :
       /\ zone[z].firstPool \in PoolIds \cup {None}
       /\ zone[z].parent \in ZoneIds \cup {None}
       /\ zone[z].live \in BOOLEAN
  /\ zoneN \in 0..PlaceMax
  /\ {zoneFree, zoneTop} \subseteq ZoneIds \cup {None}
  /\ size \in [Blocks -> Nat] /\ bytesAll \in Int
  /\ halted \in BOOLEAN

LivePools == {p \in PoolIds : pool[p].live}

\* Both chains of every living pool are intact: the links are mutual, the head
\* is the one pool without a predecessor, and the pool it hangs off is alive.
\* extc_pool_drop unlinks by these links alone, in whatever order pools go.
ChainsMutual ==
  \A p \in LivePools :
    LET r == pool[p] IN
    /\ zone[r.zone].live
    /\ r.zoneNext # None => /\ pool[r.zoneNext].live
                            /\ pool[r.zoneNext].zonePrev = p
                            /\ pool[r.zoneNext].zone = r.zone
    /\ IF r.zonePrev = None THEN zone[r.zone].firstPool = p
                            ELSE pool[r.zonePrev].zoneNext = p
    /\ r.nextSibling # None => /\ pool[r.nextSibling].siblingPrev = p
                               /\ pool[r.nextSibling].parent = r.parent
    /\ r.parent # None =>
         /\ pool[r.parent].live
         /\ IF r.siblingPrev = None THEN pool[r.parent].firstChild = p
                                    ELSE pool[r.siblingPrev].nextSibling = p

\* The link a loop saved before it dropped a pool still names a living pool of
\* the same chain when the loop comes back to it, however deep the drop went.
SavedLinkAlive ==
  \A i \in 1..Len(rt) :
    LET f == rt[i] IN
    /\ f.fn = "release" /\ f.next # None =>
         pool[f.next].live /\ pool[f.next].zone = f.id
    /\ f.fn \in {"drop", "reset"} /\ f.next # None =>
         pool[f.next].live /\ pool[f.next].parent = f.id

\* Every place generated code can name for a new pool is alive: marks left by
\* blocks and functions, and the place of the coroutine being stepped,
\* whatever tasks began, ended or were dropped in between.
NamedPlaceAlive ==
  rt = <<>> => \A z \in Nameable \ {None} : zone[z].live

\* Leaving a place finds its mark on the chain of current places: a walk that
\* missed it would release every place of the program.
MarkOnStack ==
  \A i \in 1..Len(rt) : rt[i].fn = "leaveTo" => zoneTop # None /\ zone[zoneTop].live

\* No slot of the pool table is lost or handed out twice: a slot is free
\* exactly when it is on the free list.
FreeListExact ==
  LET next == [p \in PoolIds |-> pool[p].freeNext]
      onList == {p \in 0..(poolCap - 1) :
                   \E n \in 0..TableMax :
                     LET at[k \in 0..n] == IF k = 0 THEN poolFree
                                           ELSE IF at[k-1] = None THEN None
                                           ELSE next[at[k-1]]
                     IN at[n] = p}
  IN onList = (0..(poolCap - 1)) \ LivePools

\* The byte counters are exact: every block taken, given back, resized or
\* released with its pool, its place or its task is accounted once.
BytesExact ==
  /\ \A p \in LivePools :
       pool[p].bytes = MapThenSumSet(LAMBDA b : size[b], pool[p].blocks)
  /\ bytesAll = MapThenSumSet(LAMBDA b : size[b], Blocks)
  /\ \A b \in Blocks : size[b] > 0 <=> \E p \in LivePools : b \in pool[p].blocks

\* A container's pool keeps the container mode, so the container may grow and
\* shrink ("the guard applies by the pool's mode", tests/pool/
\* rt_container_resize_ok.extc).
ContainerMode == \A p \in LivePools : made[p] = 0 => kind[p] = 0

\* Every call of the runtime returns: no chain is ever walked in a circle.
CallsReturn == (rt # <<>>) ~> (rt = <<>>)

\* Places a running call is releasing.
Closing == {rt[i].id : i \in {j \in 1..Len(rt) : rt[j].fn = "release"}}

\* What a running call may still have to do: the living pools no frame has come
\* to, the places it has not begun to release, and the frames to return from.
Waiting ==
  {p \in LivePools :
     \A i \in 1..Len(rt) : rt[i].fn \in {"call", "drop"} => rt[i].id # p}
Unreleased == {z \in ZoneIds : zone[z].live} \ Closing
Entering == IF rt # <<>> /\ Top.fn \in {"call", "popTo"} THEN 1 ELSE 0
Work == 4 * (Cardinality(Waiting) + Cardinality(Unreleased)) + 2 * Len(rt) + Entering

\* Each step of a call leaves less work than there was: a drop, a reset, a
\* release or an unwinding comes to every pool and place once, so Work bounds
\* its steps, whatever hangs off what.
WorkShrinks == [][rt # <<>> => Work \in Nat /\ Work' < Work]_vars

(***************************************************************************)
(* Refinement of PoolTree.  A pool or a place that a running call is about *)
(* to end has already ended abstractly.                                    *)
(***************************************************************************)

Falling ==
  {p \in LivePools :
     \/ pool[p].zone \in Closing
     \/ \E i \in 1..Len(rt) : \/ rt[i].fn = "drop" /\ rt[i].id = p
                              \/ rt[i].fn = "reset" /\ rt[i].id = pool[p].parent}

Doomed ==
  {p \in LivePools :
     \A C \in SUBSET LivePools :
       /\ Falling \subseteq C
       /\ \A q \in LivePools : pool[q].parent \in C => q \in C
       => p \in C}

Tree == INSTANCE PoolTree
  WITH PlaceIds <- ZoneIds, NoPool <- None,
       tree <- [p \in LivePools \ Doomed |->
                  [above |-> pool[p].parent, home |-> pool[p].zone]],
       age <- [p \in PoolIds |-> pool[p].generation],
       places <- {z \in ZoneIds : zone[z].live} \ Closing

\* Leaving a place, dropping, resetting or releasing a pool and ending a task
\* end exactly the pools that hang off what they name, and no call does more.
TreeImplemented == Tree!TreeSpec
=============================================================================
