------------------------------- MODULE Reclaim -------------------------------
(***************************************************************************)
(* The region collector of the emitted runtime (src/back/reclaim.c), in    *)
(* its default build: no holder counts (EXTC_RC_NOCOUNT = 1).              *)
(*                                                                         *)
(* One thread runs the program (the mutator) and, inside its allocation    *)
(* and trigger calls, the collector.  A round of a region marks in small   *)
(* steps, closes the barrier in finish, and sweeps in small steps.  What   *)
(* the mutator does between two of those steps is what the barriers, the   *)
(* allocate-black rules and the cross-region registration must survive.    *)
(*                                                                         *)
(* Abstractions.  The mark stack and the two cursors (seed scan, sweep)    *)
(* are sets: any order is allowed where the code uses LIFO or list order.  *)
(* Byte credit and thresholds are left out: a round may start whenever the *)
(* code's structural guards let it (RcTrigger models the credit).  A call  *)
(* of the runtime runs as a sequence of steps under the program counter pc *)
(* and no mutator action is possible until it has returned.                *)
(***************************************************************************)
EXTENDS Naturals, FiniteSets

CONSTANTS
  Regions,      \* region records, one per arena that hosts rc objects
  Slabs,        \* slab-sized blocks the C allocator can hand out
  Words,        \* 64-slot bitmap words: the unit of seed scan and of sweep
  Slots,        \* object slots; a slot is the address of an object
  Fields,       \* reference fields of an object
  Locals,       \* reference slots of the program's frames: the root table
  Hosts,        \* slots outside every slab (view elements, pool buffers)
  Null,         \* the null reference
  NoRegion,     \* "this block is not a slab at the moment"
  SlabOf,       \* the slab a word belongs to
  WordOf,       \* the bitmap word a slot belongs to
  Depth,        \* arena depth of a region: larger means shorter-lived
  RsSat,        \* EXTC_RC_HOLD_SAT: rscnt sticks here
  SweepBudget,  \* EXTC_RC_SWEEP_BUDGET: words per sweep step
  SeedBudget,   \* EXTC_RC_SEED_WORDS: rsbit words per mark step
  MarkBudget,   \* objects popped per mark step
  MarkEvery,    \* EXTC_RC_MARK_EVERY: allocations per mark step
  ScanChunk,    \* EXTC_RC_SCAN_CHUNK: fields scanned in one piece
  PinMax,       \* bound of the model: pins of one object
  Allow         \* situations the environment may create, see Situations

(***************************************************************************)
(* Situations the generated code can create and that the comments of the   *)
(* runtime do not take into account.  A run leaves them out to check the   *)
(* protocol proper, or allows one to show what the code does in it.        *)
(*   "release"  a targeted release while a round of the region is open     *)
(*   "newslab"  a new slab for a region that is being swept                *)
(*   "unlink"   objects with cross-region edges die (region dropped,       *)
(*              swept, released) while the target's region is marking      *)
(*   "struct"   a conservative whole-value store                           *)
(*   "structmark"  ... while a region is marking                           *)
(*   "sameold"  a same-region store over a reference to another region     *)
(***************************************************************************)
Situations ==
  {"release", "newslab", "unlink", "struct", "structmark", "sameold"}

ASSUME ConstantsOK ==
  /\ SlabOf \in [Words -> Slabs]
  /\ WordOf \in [Slots -> Words]
  /\ Depth \in [Regions -> Nat]
  /\ RsSat \in Nat \ {0}
  /\ SweepBudget \in Nat \ {0}
  /\ SeedBudget \in Nat \ {0}
  /\ MarkBudget \in Nat \ {0}
  /\ MarkEvery \in Nat \ {0}
  /\ ScanChunk \in Nat \ {0}
  /\ PinMax \in Nat
  /\ Allow \subseteq Situations
  /\ Null \notin Slots
  /\ IsFiniteSet(Words)
  /\ IsFiniteSet(Slots)
  /\ IsFiniteSet(Fields)
  /\ IsFiniteSet(Hosts)
  /\ NoRegion \notin Regions

VARIABLES
  owner,     \* slab -> the region whose list r->slabs it is on
  occ,       \* occupied slots (bitmap occ)
  mark,      \* marked slots (bitmap mark)
  rscnt,     \* slot -> registered cross-region in-edges (rsbit: rscnt > 0)
  field,     \* slot -> field -> reference
  local,     \* frame slot -> reference
  ext,       \* outside slot -> reference
  pin,       \* slot -> entries of the pin table for it
  alive,     \* regions that exist
  part,      \* regions with the part flag
  partN,     \* extc_rc_partN, counted up to 2
  foreign,   \* regions that ever stored a reference to another region
  seedAny,   \* regions that ever had a registered in-edge
  noSweep,   \* regions with an in-edge that cannot be tracked
  marking,   \* regions with a mark phase in flight
  sweeping,  \* regions with a sweep in flight
  markTick,  \* region -> allocations until the next mark step
  seedTodo,  \* region -> words the seed cursor has not reached
  mstk,      \* region -> plain entries of the mark stack
  force,     \* region -> entries pushed by the barrier (low bit set)
  scan,      \* region -> fields of scanObj not scanned yet
  swTodo,    \* region -> words the sweep cursor will still reach
  swDone,    \* region -> words this sweep has passed (swEpoch, swWord)
  pc,        \* where the running call of the runtime is
  cur,       \* the region it works for
  left,      \* pops left in the current mark step
  ret        \* which call it is: alloc ("take"), checkOwed ("owed") or another

heapVars  == <<occ, mark, rscnt, field>>
rootVars  == <<local, ext, pin>>
partVars  == <<alive, part, partN, foreign, seedAny, noSweep>>
roundVars == <<marking, sweeping, markTick>>
markVars  == <<seedTodo, mstk, force, scan>>
sweepVars == <<swTodo, swDone>>
callVars  == <<pc, cur, left, ret>>
vars == <<owner, heapVars, rootVars, partVars, roundVars, markVars,
          sweepVars, callVars>>

\* One step's share of the work S: n pieces of it, or all that is left.
Portions(S, n) ==
  {C \in SUBSET S : Cardinality(C) = n \/ (C = S /\ Cardinality(S) < n)}

Ref == Slots \cup {Null}

(***************************************************************************)
(* Looking up a pointer: ownSlab answers with the slab, hence the region.  *)
(***************************************************************************)
Region(s)      == owner[SlabOf[WordOf[s]]]
RegionWords(r) == {w \in Words : owner[SlabOf[w]] = r}
RegionSlots(r) == {s \in Slots : Region(s) = r}

\* The pair <<o, f>> is an edge out of the region of o.
CrossEdge(o, f) ==
  /\ field[o][f] # Null
  /\ Region(field[o][f]) # NoRegion
  /\ Region(field[o][f]) # Region(o)

\* Is the mark phase of r out of work?
MarkComplete(r) ==
  seedTodo[r] = {} /\ mstk[r] = {} /\ force[r] = {} /\ scan[r] = {}

(***************************************************************************)
(* shade: the barrier.  A white object of a marking region becomes black   *)
(* and is pushed with the force bit, so that it is scanned although it is  *)
(* marked.  shadeOld is shade of the value a store overwrites.             *)
(***************************************************************************)
\* Faulty variant: what is black already is pushed again.
ShadedAgain(V) == {v \in V \cap occ : Region(v) \in marking}

Shaded(V) == {v \in V \cap occ : Region(v) \in marking /\ v \notin mark}

\* Faulty variant: coloured but not pushed.
ShadeUnpushed(V) == mark' = mark \cup Shaded(V) /\ UNCHANGED force

Shade(V) ==
  /\ mark' = mark \cup Shaded(V)
  /\ force' = [r \in Regions |->
                 force[r] \cup {v \in Shaded(V) : Region(v) = r}]

(***************************************************************************)
(* rscnt arithmetic: sticky at RsSat, never below zero.                    *)
(***************************************************************************)
\* Faulty variant: without the sticky limit.
RsIncUnbounded(n) == n + 1

RsInc(n) == IF n = RsSat THEN n ELSE n + 1
RsDecBy(n, k) == IF n = RsSat THEN n ELSE IF n >= k THEN n - k ELSE 0

\* Faulty variant: the edges of the dead stay registered.
UnlinkNothing(D) == [s \in Slots |-> IF s \in D THEN 0 ELSE rscnt[s]]

\* rscnt after the slots in D died: each of their cross-region edges to an
\* occupied target outside D is unregistered, and the dead have no entry.
UnlinkChildren(D) ==
  [s \in Slots |->
     IF s \in D THEN 0
     ELSE IF s \in occ
          THEN RsDecBy(rscnt[s],
                 Cardinality({e \in D \X Fields :
                    field[e[1]][e[2]] = s /\ CrossEdge(e[1], e[2])}))
          ELSE rscnt[s]]

\* What a freed slot holds is never read again: alloc zeroes it.
WipeFields(D) ==
  [s \in Slots |-> IF s \in D THEN [f \in Fields |-> Null] ELSE field[s]]

\* Regions, other than r itself, that the dying slots D hold edges into.
UnlinkTargets(D) ==
  {Region(field[e[1]][e[2]]) :
     e \in {x \in D \X Fields : CrossEdge(x[1], x[2])}}

(***************************************************************************)
(* Life of a region: regionNew, regionFree.                                *)
(***************************************************************************)
RegionNew(r) ==
  /\ pc = "mutator"
  /\ r \notin alive
  /\ \A q \in alive : Depth[q] # Depth[r]
  /\ alive' = alive \cup {r}
  /\ UNCHANGED <<owner, heapVars, rootVars, part, partN, foreign, seedAny,
                 noSweep, roundVars, markVars, sweepVars, callVars>>

\* The arena of r ends.  Arenas nest, and the escape rule
\* depth(reference) >= depth(place) leaves no reference into r behind.
RegionFree(r) ==
  LET D == RegionSlots(r) \cap occ IN
  /\ pc = "mutator"
  /\ r \in alive
  /\ \A q \in alive : Depth[q] <= Depth[r]
  /\ \A l \in Locals : local[l] \notin RegionSlots(r)
  /\ \A h \in Hosts : ext[h] \notin RegionSlots(r)
  /\ "unlink" \in Allow \/ UnlinkTargets(D) \cap marking = {}
  /\ alive' = alive \ {r}
  /\ part' = part \ {r}
  /\ foreign' = foreign \ {r}
  /\ seedAny' = seedAny \ {r}
  /\ noSweep' = noSweep \ {r}
  /\ marking' = marking \ {r}      \* extc_rc_abort: cancelled, not drained
  /\ sweeping' = sweeping \ {r}
  /\ markTick' = [markTick EXCEPT ![r] = MarkEvery]
  /\ seedTodo' = [seedTodo EXCEPT ![r] = {}]
  /\ mstk' = [mstk EXCEPT ![r] = {}]
  /\ force' = [force EXCEPT ![r] = {}]
  /\ scan' = [scan EXCEPT ![r] = {}]
  /\ swTodo' = [swTodo EXCEPT ![r] = {}]
  /\ swDone' = [swDone EXCEPT ![r] = {}]
  /\ pin' = [s \in Slots |-> IF s \in RegionSlots(r) THEN 0 ELSE pin[s]]
  /\ rscnt' = UnlinkChildren(D)
  /\ owner' = [b \in Slabs |-> IF owner[b] = r THEN NoRegion ELSE owner[b]]
  /\ occ' = occ \ RegionSlots(r)
  /\ mark' = mark \ RegionSlots(r)
  /\ field' = WipeFields(D)
  /\ UNCHANGED <<local, ext, partN, callVars>>

(***************************************************************************)
(* extc_rc_alloc(r): let an open sweep advance, let an open mark phase     *)
(* advance or finish, then take a slot.                                    *)
(***************************************************************************)
\* The running call goes on at p, or returns to the program.
Goto(p) ==
  /\ pc' = p
  /\ left' = 0
  /\ cur' = IF p = "mutator" THEN NoRegion ELSE cur

\* Where the call goes on when its share of collector work is done.
Caller == IF ret = "take" THEN "take" ELSE "mutator"

\* Entry: notePart, then one sweep step (or abandon the sweep of a noSweep
\* region).
AllocEnter(r) ==
  /\ pc = "mutator"
  /\ r \in alive
  /\ part' = part \cup {r}
  /\ partN' = IF r \in part \/ partN = 2 THEN partN ELSE partN + 1
  /\ cur' = r
  /\ ret' = "take"
  /\ IF r \in sweeping \ noSweep
     THEN pc' = "entrySweep"
     ELSE pc' = "advance"
  /\ sweeping' = sweeping \ ({r} \cap noSweep)
  /\ UNCHANGED <<owner, heapVars, rootVars, alive, foreign, seedAny, noSweep,
                 marking, markTick, markVars, sweepVars, left>>

\* markAdvance: every MarkEvery-th call walks one mark step.
Advance ==
  /\ pc = "advance"
  /\ IF cur \in marking /\ (ret = "owed" \/ ~MarkComplete(cur))
     THEN IF markTick[cur] > 1
          THEN /\ markTick' = [markTick EXCEPT ![cur] = @ - 1]
               /\ Goto("finish")
          ELSE /\ markTick' = [markTick EXCEPT ![cur] = MarkEvery]
               /\ Goto("mark")
     ELSE Goto("finish") /\ UNCHANGED markTick
  /\ UNCHANGED <<owner, heapVars, rootVars, partVars, marking, sweeping,
                 markVars, sweepVars, ret>>

\* A slot that has never been handed out, or a free one: the hot slab, the
\* size-class chain and the free list only choose which.  A slab is added
\* when the region has no free slot.
FreeSlots(r) == RegionSlots(r) \ occ
SpareSlabs == {b \in Slabs : owner[b] = NoRegion}

\* Faulty variants: white during a sweep; black wherever the cursor is.
BornWhiteInSweep(r, s) == r \in marking
BornBlackAlways(r, s) == r \in marking \cup sweeping

\* Allocated black while marking, and while sweeping where the cursor has
\* not been: s->swEpoch # r->swId and not below swWord of the current slab.
BornBlack(r, s) ==
  \/ r \in marking
  \/ r \in sweeping /\ WordOf[s] \notin swDone[r]

TakeSlot(s, l) ==
  /\ occ' = occ \cup {s}
  /\ mark' = IF BornBlack(cur, s) THEN mark \cup {s} ELSE mark
  /\ field' = [field EXCEPT ![s] = [f \in Fields |-> Null]]
  /\ local' = [local EXCEPT ![l] = s]
  /\ Goto("mutator")
  /\ ret' = "mutator"
  /\ UNCHANGED <<rscnt, ext, pin, partVars, roundVars, markVars, sweepVars>>

Take ==
  /\ pc = "take"
  /\ \E s \in FreeSlots(cur), l \in Locals : TakeSlot(s, l)
  /\ UNCHANGED owner

\* slabNew: the block is zeroed and put at the head of r->slabs, where no
\* cursor of an open round will look for it.
TakeNewSlab ==
  /\ pc = "take"
  /\ FreeSlots(cur) = {}
  /\ "newslab" \in Allow \/ cur \notin sweeping
  /\ \E b \in SpareSlabs :
       /\ owner' = [owner EXCEPT ![b] = cur]
       /\ \E s \in {x \in Slots : SlabOf[WordOf[x]] = b}, l \in Locals :
            TakeSlot(s, l)

\* The bound of the model: no block is left, or a new slab during the sweep
\* is left out of this run.  The program does not get its object.
TakeNothing ==
  /\ pc = "take"
  /\ FreeSlots(cur) = {}
  /\ SpareSlabs = {} \/ ("newslab" \notin Allow /\ cur \in sweeping)
  /\ Goto("mutator")
  /\ ret' = "mutator"
  /\ UNCHANGED <<owner, heapVars, rootVars, partVars, roundVars, markVars,
                 sweepVars>>

(***************************************************************************)
(* maybeCollect(r) and checkOwed(r), at a trigger point of the frame that  *)
(* owns r, whose root table is complete.                                   *)
(***************************************************************************)
\* Both calls abandon the sweep of a region that has become noSweep.
Abandon(r) ==
  /\ r \in sweeping \cap noSweep
  /\ sweeping' = sweeping \ {r}
  /\ UNCHANGED <<pc, cur, ret>>

\* maybeCollect goes on with an open round; a mark phase also where noSweep
\* has been set since it began.
ResumeRound(r) ==
  /\ pc = "mutator"
  /\ \/ r \notin marking /\ Abandon(r)
     \/ /\ r \in marking \cup (sweeping \ noSweep)
        /\ pc' = IF r \in sweeping /\ (r \notin marking \/ MarkComplete(r))
                 THEN "sweep" ELSE "advance"
        /\ cur' = r /\ ret' = "mutator"
        /\ UNCHANGED sweeping
  /\ UNCHANGED <<owner, heapVars, rootVars, partVars, marking, markTick,
                 markVars, sweepVars, left>>

\* checkOwed goes on with an open sweep; an open mark phase it advances but
\* leaves to others to finish.
CheckOwed(r) ==
  /\ pc = "mutator"
  /\ \/ Abandon(r)
     \/ /\ r \in sweeping \ noSweep
        /\ pc' = "sweep" /\ cur' = r /\ ret' = "mutator"
        /\ UNCHANGED sweeping
     \/ /\ r \in marking \ (sweeping \cup noSweep)
        /\ pc' = "advance" /\ cur' = r /\ ret' = "owed"
        /\ UNCHANGED sweeping
  /\ UNCHANGED <<owner, heapVars, rootVars, partVars, marking, markTick,
                 markVars, sweepVars, left>>

\* Faulty variant: the pins are not roots.
PinnedNone(r) == {}

\* The entries of the pin table that name objects of r.
Pinned(r) == {s \in RegionSlots(r) : pin[s] > 0}

\* A new round: extc_rc_begin, markBegin, and a first mark step.  The root
\* table and the pins of r are pushed; seeds are only given a cursor.
BeginRound(r) ==
  /\ pc = "mutator"
  /\ r \in alive
  /\ r \notin marking \cup sweeping
  /\ r \notin noSweep
  /\ marking' = marking \cup {r}
  /\ markTick' = [markTick EXCEPT ![r] = MarkEvery]
  /\ mstk' = [mstk EXCEPT ![r] =
                ({local[l] : l \in Locals} \cap occ) \cup Pinned(r)]
  /\ force' = [force EXCEPT ![r] = {}]
  /\ scan' = [scan EXCEPT ![r] = {}]
  /\ seedTodo' = [seedTodo EXCEPT ![r] =
                    IF r \in seedAny THEN RegionWords(r) ELSE {}]
  /\ pc' = "mark"
  /\ cur' = r
  /\ ret' = "mutator"
  /\ UNCHANGED <<owner, heapVars, rootVars, partVars, sweeping, sweepVars,
                 left>>

(***************************************************************************)
(* markStep: some seed words, then some pops.  A large object left half    *)
(* scanned comes first and then takes the place of the pops.               *)
(***************************************************************************)
\* Fields of an object that name something not black yet.
Children(o, F) == {field[o][f] : f \in F} \ (mark \cup {Null})

\* Faulty variants: no seeds; the rest of a large object is forgotten.
SeedsNone(W) == {}
ScanForget(S, C) == {}

\* What is left of the object under the scan cursor.
ScanRest(S, C) == S \ C

\* The objects of the words W that other regions hold.
Seeds(W) == {s \in occ : WordOf[s] \in W /\ rscnt[s] > 0}

\* The seed loop has a budget of its own (EXTC_RC_WORK_BUDGET is 0 unless the
\* C compiler is told otherwise): it runs in a step that resumes an object too.
MarkResume ==
  /\ pc = "mark"
  /\ scan[cur] # {}
  /\ \E C \in Portions(scan[cur], ScanChunk),
       W \in Portions(seedTodo[cur], SeedBudget) :
       /\ mstk' = [mstk EXCEPT ![cur] =
                     @ \cup Seeds(W)
                       \cup UNION {Children(e[1], {e[2]}) : e \in C}]
       /\ scan' = [scan EXCEPT ![cur] = ScanRest(@, C)]
       /\ seedTodo' = [seedTodo EXCEPT ![cur] = @ \ W]
  /\ Goto("finish")
  /\ UNCHANGED <<owner, heapVars, rootVars, partVars, roundVars, force,
                 sweepVars, ret>>

SeedStep ==
  /\ pc = "mark"
  /\ scan[cur] = {}
  /\ \E W \in Portions(seedTodo[cur], SeedBudget) :
       /\ mstk' = [mstk EXCEPT ![cur] = @ \cup Seeds(W)]
       /\ seedTodo' = [seedTodo EXCEPT ![cur] = @ \ W]
  /\ pc' = "walk"
  /\ left' = MarkBudget
  /\ UNCHANGED <<owner, heapVars, rootVars, partVars, roundVars, force, scan,
                 sweepVars, cur, ret>>

\* One entry o is popped.  Objects of other regions and free slots are
\* skipped, black ones too unless the barrier pushed them.
Pop(o, forced) ==
  /\ mstk' = [mstk EXCEPT ![cur] =
       (IF forced THEN @ ELSE @ \ {o}) \cup
         (IF /\ Region(o) = cur /\ o \in occ
             /\ forced \/ o \notin mark
             /\ Cardinality(Fields) <= ScanChunk
          THEN Children(o, Fields) \ {o}
          ELSE {})]
  /\ force' = [force EXCEPT ![cur] = IF forced THEN @ \ {o} ELSE @]
  /\ IF /\ Region(o) = cur /\ o \in occ
        /\ forced \/ o \notin mark
     THEN /\ mark' = mark \cup {o}
          /\ scan' = [scan EXCEPT ![cur] =
                        IF Cardinality(Fields) > ScanChunk
                        THEN {o} \X Fields ELSE {}]
     ELSE UNCHANGED <<mark, scan>>

WalkPop ==
  /\ pc = "walk"
  /\ left > 0
  /\ scan[cur] = {}
  /\ \/ \E o \in mstk[cur] : Pop(o, FALSE)
     \/ \E o \in force[cur] : Pop(o, TRUE)
  /\ left' = left - 1
  /\ UNCHANGED <<owner, occ, rscnt, field, rootVars, partVars, roundVars,
                 seedTodo, sweepVars, pc, cur, ret>>

WalkEnd ==
  /\ pc = "walk"
  /\ left = 0 \/ scan[cur] # {} \/ (mstk[cur] = {} /\ force[cur] = {})
  /\ Goto("finish")
  /\ UNCHANGED <<owner, heapVars, rootVars, partVars, roundVars, markVars,
                 sweepVars, ret>>

(***************************************************************************)
(* finish: marking is complete, so the barrier is closed and the sweep     *)
(* begins with its first step.                                             *)
(***************************************************************************)
Finish ==
  /\ pc = "finish"
  /\ IF cur \in marking /\ MarkComplete(cur) /\ ret # "owed"
     THEN /\ marking' = marking \ {cur}
          /\ sweeping' = sweeping \cup {cur}
          /\ swTodo' = [swTodo EXCEPT ![cur] = RegionWords(cur)]
          /\ swDone' = [swDone EXCEPT ![cur] = {}]
          /\ Goto("sweep")
     ELSE /\ Goto(Caller)
          /\ UNCHANGED <<marking, sweeping, swTodo, swDone>>
  /\ UNCHANGED <<owner, heapVars, rootVars, partVars, markTick, markVars, ret>>

(***************************************************************************)
(* sweepStep: word by word, the unmarked slots are freed and the marks     *)
(* cleared; at the end of the list the round is over.                      *)
(***************************************************************************)
\* Faulty variant: the marks survive the sweep.
MarksKept(W) == mark

\* The marks after the words W have been swept.
MarksLeft(W) == {s \in mark : WordOf[s] \notin W}

Dead(W) == {s \in occ \ mark : WordOf[s] \in W}

\* Objects that die with the words W hold objects of a marking region.
Unlinks(W) == UnlinkTargets(Dead(W)) \cap marking # {}

SweepStep ==
  /\ pc \in {"entrySweep", "sweep"}
  /\ \E W \in Portions(swTodo[cur], SweepBudget) :
       /\ "unlink" \in Allow \/ ~Unlinks(W)
       /\ occ' = occ \ Dead(W)
       /\ rscnt' = UnlinkChildren(Dead(W))
       /\ field' = WipeFields(Dead(W))
       /\ mark' = MarksLeft(W)
       /\ swTodo' = [swTodo EXCEPT ![cur] = @ \ W]
       /\ IF swTodo[cur] = W
          THEN sweeping' = sweeping \ {cur} /\ swDone' = [swDone EXCEPT ![cur] = {}]
          ELSE /\ swDone' = [swDone EXCEPT ![cur] = @ \cup W]
               /\ UNCHANGED sweeping
  /\ Goto(IF pc = "entrySweep" THEN "advance" ELSE Caller)
  /\ UNCHANGED <<owner, rootVars, partVars, marking, markTick, markVars, ret>>

\* The bound of the model: where "unlink" is left out, a step whose dead hold
\* objects of a marking region waits until that mark phase is over.
SweepWait ==
  /\ pc \in {"entrySweep", "sweep"}
  /\ "unlink" \notin Allow
  /\ \E W \in Portions(swTodo[cur], SweepBudget) : Unlinks(W)
  /\ Goto(IF pc = "entrySweep" THEN "advance" ELSE Caller)
  /\ UNCHANGED <<owner, heapVars, rootVars, partVars, roundVars, markVars,
                 sweepVars, ret>>

(***************************************************************************)
(* The mutator.  Reading a reference into a frame slot, copying and        *)
(* dropping frame slots have no barrier (initRef, initRefNoHold).          *)
(***************************************************************************)
SetLocal(l, v) ==
  /\ pc = "mutator"
  /\ local[l] # v
  /\ local' = [local EXCEPT ![l] = v]
  /\ UNCHANGED <<owner, heapVars, ext, pin, partVars, roundVars, markVars,
                 sweepVars, callVars>>

LoadField(l, k, f) == local[k] \in occ /\ SetLocal(l, field[local[k]][f])
LoadHost(l, h) == SetLocal(l, ext[h])
DropLocal(l) == SetLocal(l, Null)
CopyLocal(l, k) == SetLocal(l, local[k])

\* What the program can store, and where the depth rule lets it: the holder
\* lives no longer than the target.
Values == {local[l] : l \in Locals} \cup {Null}
MayHold(o, v) == v # Null => Depth[Region(v)] <= Depth[Region(o)]

\* Faulty variant: no deletion barrier.
InsertionOnly(v, old) == {v}

\* What a barriered store shades: the new value (shade) and the value it
\* overwrites (shadeOld).
Barrier(v, old) == {v, old}

(***************************************************************************)
(* storeRefOwned and storeRefOwnedReg: o.f = v with the region of the      *)
(* holder known.  Both barriers, then the cross-region registration, new   *)
(* value first; the old one is looked up only in a foreign region, and     *)
(* nothing is looked up while only one region takes part.                  *)
(***************************************************************************)
StoreOwned(o, f, v) ==
  LET r   == Region(o)
      old == field[o][f]
      inc == partN > 1 /\ v # Null /\ v \in occ /\ Region(v) # r
      dec == /\ partN > 1
             /\ r \in foreign \/ inc
             /\ old \in occ /\ Region(old) # r
      up  == [s \in Slots |-> IF inc /\ s = v THEN RsInc(rscnt[s])
                                              ELSE rscnt[s]]
  IN
  /\ pc = "mutator"
  /\ MayHold(o, v)
  /\ v # old
  /\ Shade(Barrier(v, old))
  /\ foreign' = IF inc THEN foreign \cup {r} ELSE foreign
  /\ seedAny' = IF inc THEN seedAny \cup {Region(v)} ELSE seedAny
  /\ rscnt' = [s \in Slots |-> IF dec /\ s = old THEN RsDecBy(up[s], 1)
                                                 ELSE up[s]]
  /\ field' = [field EXCEPT ![o][f] = v]
  /\ UNCHANGED <<owner, occ, rootVars, alive, part, partN, noSweep, roundVars,
                 seedTodo, mstk, scan, sweepVars, callVars>>

\* storeRefSameRegion: holder and value are new locals of one arena level,
\* so the compiler emits the barriers and no registration at all.
StoreSameRegion(o, f, v) ==
  /\ pc = "mutator"
  /\ v \in occ /\ Region(v) = Region(o)
  /\ v # field[o][f]
  /\ "sameold" \in Allow \/ ~CrossEdge(o, f)
  /\ Shade(Barrier(v, field[o][f]))
  /\ field' = [field EXCEPT ![o][f] = v]
  /\ UNCHANGED <<owner, occ, rscnt, rootVars, partVars, roundVars, seedTodo,
                 mstk, scan, sweepVars, callVars>>

\* storeStructCons with a known host: the block has been copied already, the
\* new leaves are shaded and registered, the old ones are only overwritten.
StoreStruct(o, f, v) ==
  LET inc == v # Null /\ v \in occ /\ Region(v) # Region(o) IN
  /\ pc = "mutator"
  /\ MayHold(o, v)
  /\ v # field[o][f]
  /\ "struct" \in Allow
  /\ "structmark" \in Allow \/ marking = {}
  /\ Shade({v})
  /\ foreign' = IF inc THEN foreign \cup {Region(o)} ELSE foreign
  /\ seedAny' = IF inc THEN seedAny \cup {Region(v)} ELSE seedAny
  /\ rscnt' = [s \in Slots |-> IF inc /\ s = v THEN RsInc(rscnt[s])
                                              ELSE rscnt[s]]
  /\ field' = [field EXCEPT ![o][f] = v]
  /\ UNCHANGED <<owner, occ, rootVars, alive, part, partN, noSweep, roundVars,
                 seedTodo, mstk, scan, sweepVars, callVars>>

(***************************************************************************)
(* storeRefUnknown: the slot h is outside every slab.  The old value loses *)
(* one pin, the new one gains one; when the pin table cannot grow, the     *)
(* region of the value leaves sweeping for good.                           *)
(***************************************************************************)
\* Faulty variant: the whole entry goes although others still hold it.
PinForget(n) == 0
\* One holder less.
PinDrop(n) == IF n > 0 THEN n - 1 ELSE 0

StoreUnknown(h, v, pinned) ==
  LET old == ext[h]
      sub == [s \in Slots |-> IF s = old THEN PinDrop(pin[s]) ELSE pin[s]]
  IN
  /\ pc = "mutator"
  /\ v # old
  /\ v \in occ => pin[v] < PinMax
  /\ Shade(Barrier(v, old))
  /\ pin' = [s \in Slots |-> IF pinned /\ s = v /\ v \in occ THEN sub[s] + 1
                                                             ELSE sub[s]]
  /\ noSweep' = IF ~pinned /\ v \in occ THEN noSweep \cup {Region(v)}
                                        ELSE noSweep
  /\ ext' = [ext EXCEPT ![h] = v]
  /\ UNCHANGED <<owner, occ, rscnt, field, local, alive, part, partN, foreign,
                 seedAny, roundVars, seedTodo, mstk, scan, sweepVars, callVars>>

\* storeStructCons with an unknown host: no pin, the region leaves sweeping.
StoreStructUnknown(h, v) ==
  /\ pc = "mutator"
  /\ v # ext[h]
  /\ Shade({v})
  /\ noSweep' = IF v \in occ THEN noSweep \cup {Region(v)} ELSE noSweep
  /\ ext' = [ext EXCEPT ![h] = v]
  /\ UNCHANGED <<owner, occ, rscnt, field, local, pin, alive, part, partN,
                 foreign, seedAny, roundVars, seedTodo, mstk, scan, sweepVars,
                 callVars>>

\* A frame slot is overwritten through a barrier: the whole-value copy
\* storeStructRooted, which shades the new value, and a targeted release
\* that is skipped (no credit, noSweep, another region), which shades both.
StoreLocal(l, k) ==
  /\ pc = "mutator"
  /\ local[l] # local[k]
  /\ Shade({local[k]}) \/ Shade(Barrier(local[k], local[l]))
  /\ local' = [local EXCEPT ![l] = local[k]]
  /\ UNCHANGED <<owner, occ, rscnt, field, ext, pin, partVars, roundVars,
                 seedTodo, mstk, scan, sweepVars, callVars>>

(***************************************************************************)
(* Targeted release: l is overwritten with v, an object of the region      *)
(* `home` this frame owns.  From the other roots, the pins and the seeds   *)
(* the region is marked in one go; what only the old value reaches is      *)
(* freed; all marks of the region are cleared.  The guards are the code's: *)
(* noSweep, and the region of the old value (the credit is in RcTrigger).  *)
(***************************************************************************)
\* T contains, with an object, what its fields name.
FieldClosed(T) == \A o \in T, f \in Fields : field[o][f] \in T \cup {Null}

\* Objects of r reached from the set X through objects of r that are not in
\* the set B: the least set that is closed in this way.
ReachIn(r, X, B) ==
  LET In == (occ \cap RegionSlots(r)) \ B
      Holds(T) == /\ X \cap In \subseteq T
                  /\ \A o \in T, f \in Fields :
                       field[o][f] \in In => field[o][f] \in T
  IN {s \in In : \A T \in SUBSET In : Holds(T) => s \in T}

Release(l, k) ==
  LET old   == local[l]
      v     == local[k]
      home  == Region(v)
      roots == {local[x] : x \in Locals \ {l}}
                 \cup Pinned(home)
                 \cup {s \in RegionSlots(home) : rscnt[s] > 0}
      \* the store has shaded v; extc_rc_mark neither clears the marks nor
      \* scans what is black
      known == mark \cup Shaded({v})
      black == known \cup ReachIn(home, roots, known)
      dead  == ReachIn(home, {old}, black)
      \* the store that follows shades both values into the emptied stack
      grey  == IF home \in marking THEN {v, old} \ dead ELSE {}
  IN
  /\ pc = "mutator"
  /\ v \in occ /\ old \in occ /\ v # old
  /\ Region(old) = home
  /\ home \notin noSweep
  /\ "release" \in Allow \/ home \notin marking \cup sweeping
  /\ "unlink" \in Allow \/ UnlinkTargets(dead) \cap marking = {}
  /\ occ' = occ \ dead
  /\ rscnt' = UnlinkChildren(dead)
  /\ field' = WipeFields(dead)
  /\ mark' = (mark \ RegionSlots(home)) \cup grey
  /\ mstk' = [mstk EXCEPT ![home] = {}]
  /\ force' = [force EXCEPT ![home] = grey]
  /\ scan' = [scan EXCEPT ![home] = {}]
  /\ seedTodo' = [seedTodo EXCEPT ![home] = {}]
  /\ local' = [local EXCEPT ![l] = v]
  /\ UNCHANGED <<owner, ext, pin, partVars, roundVars, sweepVars, callVars>>

-----------------------------------------------------------------------------
Init ==
  /\ owner = [b \in Slabs |-> NoRegion]
  /\ occ = {}
  /\ mark = {}
  /\ rscnt = [s \in Slots |-> 0]
  /\ field = [s \in Slots |-> [f \in Fields |-> Null]]
  /\ local = [l \in Locals |-> Null]
  /\ ext = [h \in Hosts |-> Null]
  /\ pin = [s \in Slots |-> 0]
  /\ alive = {}
  /\ part = {}
  /\ partN = 0
  /\ foreign = {}
  /\ seedAny = {}
  /\ noSweep = {}
  /\ marking = {}
  /\ sweeping = {}
  /\ markTick = [r \in Regions |-> MarkEvery]
  /\ seedTodo = [r \in Regions |-> {}]
  /\ mstk = [r \in Regions |-> {}]
  /\ force = [r \in Regions |-> {}]
  /\ scan = [r \in Regions |-> {}]
  /\ swTodo = [r \in Regions |-> {}]
  /\ swDone = [r \in Regions |-> {}]
  /\ pc = "mutator"
  /\ cur = NoRegion
  /\ left = 0
  /\ ret = "mutator"

Store ==
  \E k \in Locals, f \in Fields, v \in Values :
    /\ local[k] \in occ
    /\ \/ StoreOwned(local[k], f, v)
       \/ StoreSameRegion(local[k], f, v)
       \/ StoreStruct(local[k], f, v)

StoreHost ==
  \E h \in Hosts, v \in Values :
    \/ \E pinned \in BOOLEAN : StoreUnknown(h, v, pinned)
    \/ StoreStructUnknown(h, v)

MoveLocal ==
  \/ \E l, k \in Locals, f \in Fields : LoadField(l, k, f)
  \/ \E l \in Locals, h \in Hosts : LoadHost(l, h)
  \/ \E l \in Locals : DropLocal(l)
  \/ \E l, k \in Locals : CopyLocal(l, k) \/ StoreLocal(l, k)

Mutator ==
  \/ \E r \in Regions : RegionNew(r) \/ RegionFree(r)
  \/ MoveLocal
  \/ Store
  \/ StoreHost
  \/ \E l, k \in Locals : Release(l, k)

Calls == \E r \in Regions : 
  \/ AllocEnter(r) \/ ResumeRound(r) \/ CheckOwed(r) \/ BeginRound(r)

\* The steps of a call that is running.
Runtime ==
  \/ Advance \/ Take \/ TakeNewSlab \/ TakeNothing
  \/ MarkResume \/ SeedStep \/ WalkPop \/ WalkEnd
  \/ Finish \/ SweepStep \/ SweepWait

Next == Mutator \/ Calls \/ Runtime

Spec == Init /\ [][Next]_vars

-----------------------------------------------------------------------------
(***************************************************************************)
(* Properties.                                                             *)
(***************************************************************************)
\* Types, and the limits the runtime relies on: rscnt is sticky at RsSat, pins are
\* counted, the mark counter stays in its period, a call works for a living region.
TypeOK ==
  /\ owner \in [Slabs -> Regions \cup {NoRegion}]
  /\ occ \subseteq Slots
  /\ mark \subseteq Slots
  /\ rscnt \in [Slots -> 0..RsSat]
  /\ field \in [Slots -> [Fields -> Ref]]
  /\ local \in [Locals -> Ref]
  /\ ext \in [Hosts -> Ref]
  /\ pin \in [Slots -> 0..PinMax]
  /\ alive \subseteq Regions
  /\ part \subseteq Regions
  /\ partN \in 0..2
  /\ foreign \subseteq Regions
  /\ seedAny \subseteq Regions
  /\ noSweep \subseteq Regions
  /\ marking \subseteq Regions
  /\ sweeping \subseteq Regions
  /\ markTick \in [Regions -> 1..MarkEvery]
  /\ seedTodo \in [Regions -> SUBSET Words]
  /\ mstk \in [Regions -> SUBSET Slots]
  /\ force \in [Regions -> SUBSET Slots]
  /\ scan \in [Regions -> SUBSET (Slots \X Fields)]
  /\ swTodo \in [Regions -> SUBSET Words]
  /\ swDone \in [Regions -> SUBSET Words]
  /\ pc \in {"mutator", "entrySweep", "advance", "mark", "walk", "finish",
             "sweep", "take"}
  /\ cur \in IF pc = "mutator" THEN {NoRegion} ELSE alive
  /\ left \in 0..MarkBudget
  /\ ret \in {"mutator", "take", "owed"}

\* Everything a frame slot or an outside slot reaches: the least set that
\* contains the roots and is closed under fields.
Roots == ({local[l] : l \in Locals} \cup {ext[h] : h \in Hosts}) \ {Null}
Reachable ==
  {s \in Slots : \A T \in SUBSET Slots :
                   Roots \subseteq T /\ FieldClosed(T) => s \in T}

\* No object the program can still reach has been freed.
LiveIntact == Reachable \subseteq occ

\* The cross-region edges into s.
CrossEdgesInto(s) ==
  {e \in occ \X Fields : field[e[1]][e[2]] = s /\ CrossEdge(e[1], e[2])}

\* Where nothing is stored conservatively the registrations are exactly the
\* living cross-region edges (the comment on rs_live = rsInc - rsDec).
RsExact ==
  \A s \in occ : rscnt[s] = RsSat \/ rscnt[s] = Cardinality(CrossEdgesInto(s))

\* The tri-colour invariant: a child of a black object of a marking region is
\* black, or still to be popped, or its holder is still to be scanned.
BlackClosed ==
  \A r \in marking, o \in occ \cap mark, f \in Fields :
    (/\ Region(o) = r
     /\ field[o][f] \in occ
     /\ Region(field[o][f]) = r) =>
        \/ field[o][f] \in mark \cup mstk[r]
        \/ o \in force[r]
        \/ <<o, f>> \in scan[r]

\* The mark-both invariant, where it is relied upon: when the marking of a
\* region has run out of work, every reference in the program's hands is
\* black, although loads and frame slots have no barrier.
RootsBlack ==
  \A r \in marking :
    MarkComplete(r) => \A s \in Roots : Region(s) = r => s \in mark

\* A round may begin only over a clean mark bitmap.
MarksClean ==
  \A r \in alive \ (marking \cup sweeping \cup noSweep) :
    mark \cap RegionSlots(r) = {}

\* A reference held from outside is pinned, or its region is never swept.
PinCovers ==
  \A s \in occ :
    \/ Region(s) \in noSweep
    \/ pin[s] >= Cardinality({h \in Hosts : ext[h] = s})

-----------------------------------------------------------------------------
(***************************************************************************)
(* What MarksClean and BlackClosed rest on (see ReclaimProofs): together   *)
(* with them these are an inductive invariant wherever no slab is added    *)
(* during a sweep.                                                         *)
(***************************************************************************)
\* An occupied slot lies in a slab of a living region; so does a marked one.
OccOwned  == \A s \in occ : Region(s) \in alive
MarkOwned == \A s \in mark : Region(s) \in alive

\* A round belongs to a living region.
RoundsAlive == marking \cup sweeping \subseteq alive

\* A region marks or sweeps, not both; a mark step runs for a region that
\* marks, the sweep loop for one that sweeps.
Phases ==
  /\ marking \cap sweeping = {}
  /\ pc \in {"mark", "walk"} => cur \in marking
  /\ pc \in {"entrySweep", "sweep"} => cur \in sweeping

\* The sweep cursor divides the words of the region, and no mark is left
\* behind it.
SweepDivides ==
  \A r \in sweeping :
    /\ swTodo[r] \subseteq RegionWords(r)
    /\ \A s \in Slots : Region(s) = r =>
         /\ WordOf[s] \in swTodo[r] \/ WordOf[s] \in swDone[r]
         /\ s \in mark => WordOf[s] \in swTodo[r]

-----------------------------------------------------------------------------
(***************************************************************************)
(* What is left to a mark phase.  An object that is still white can cost   *)
(* one pop and then one entry for each of its fields; an object pushed by  *)
(* the barrier is scanned although it is black; a seed word can push every *)
(* object; a plain entry may turn out to be black and costs one pop.  The  *)
(* weights make each of these steps pay for the entries it creates.        *)
(***************************************************************************)
White(r)   == {s \in occ \ mark : Region(s) = r}
Cursors(r) == <<seedTodo[r], mstk[r], force[r], scan[r]>>

MarkWork(r) ==
  LET n == Cardinality(Fields) IN
    (2 * n + 2) * Cardinality(White(r))
      + (2 * n + 1) * Cardinality(force[r])
      + 2 * Cardinality(scan[r])
      + Cardinality(mstk[r])
      + (Cardinality(Slots) + 1) * Cardinality(seedTodo[r])

\* No store, load, allocation, release or step for another region adds to the
\* work of an open mark phase, and each mark step that moves a cursor takes some
\* of it away: the barrier cannot feed a phase faster than it is worked off, so a
\* phase makes finitely many such steps (each object is pushed by it once, the
\* fields of a wide object once per push).
MarkingShrinks ==
  [][\A r \in marking \cap marking' :
       /\ MarkWork(r)' <= MarkWork(r)
       /\ pc # "mutator" /\ Cursors(r)' # Cursors(r) =>
            MarkWork(r)' < MarkWork(r)]_vars

-----------------------------------------------------------------------------
(***************************************************************************)
(* Liveness.  A call of the runtime runs to its end.  A program that keeps *)
(* allocating in a region earns the credit for the next round again and    *)
(* again and meets the trigger next to an allocation of the owning frame.  *)
(***************************************************************************)
FairSpec ==
  /\ Spec
  /\ WF_vars(Runtime)
  /\ \A r \in Regions : SF_vars(AllocEnter(r)) /\ SF_vars(BeginRound(r))

\* A mark phase ends, whatever the program stores and allocates meanwhile.
RoundEnds == \A r \in Regions : (r \in marking) ~> (r \notin marking)

\* Garbage, cycles included, is freed.
GarbageFreed ==
  \A s \in Slots :
    (s \in occ /\ s \notin Reachable) ~> (s \notin occ)
=============================================================================
