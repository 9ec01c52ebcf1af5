---------------------------- MODULE ReclaimProofs ----------------------------
(***************************************************************************)
(* Theorems about Reclaim for every number of regions, slabs, words, slots *)
(* and fields, every budget and every set Allow of situations named in the *)
(* statement: first types, the marks between rounds and the order of       *)
(* colours, then the safety of the collector - nothing the program can     *)
(* reach is freed, registrations and pins cover what they must cover, and  *)
(* the roots are black when a mark phase ends - and last that every mark   *)
(* phase runs out of work.                                                 *)
(***************************************************************************)
EXTENDS Reclaim, TLAPS, FiniteSetTheorems

USE ConstantsOK

(***************************************************************************)
(* Types of the operators the actions are built from.                      *)
(***************************************************************************)
\* rscnt stays within 0..RsSat under both of its operations.
LEMMA RsTypes ==
  ASSUME NEW n \in 0..RsSat, NEW k \in Nat
  PROVE  RsInc(n) \in 0..RsSat /\ RsDecBy(n, k) \in 0..RsSat
BY DEF RsInc, RsDecBy

\* The table of registrations keeps its type when objects die.
LEMMA UnlinkType ==
  ASSUME TypeOK, NEW D \in SUBSET Slots
  PROVE  UnlinkChildren(D) \in [Slots -> 0..RsSat]
<1> DEFINE E(s) == {e \in D \X Fields :
                      field[e[1]][e[2]] = s /\ CrossEdge(e[1], e[2])}
<1>1. IsFiniteSet(D \X Fields)
  <2>1. IsFiniteSet(D)
    BY FS_Subset
  <2> QED
    BY <2>1, FS_Product
<1>2. ASSUME NEW s \in Slots PROVE Cardinality(E(s)) \in Nat
  <2>1. E(s) \in SUBSET (D \X Fields)
    OBVIOUS
  <2> QED
    BY <1>1, <2>1, FS_Subset, FS_CardinalityType
<1>3. ASSUME NEW s \in Slots
      PROVE  RsDecBy(rscnt[s], Cardinality(E(s))) \in 0..RsSat
  <2>1. rscnt[s] \in 0..RsSat
    BY DEF TypeOK
  <2> QED
    BY <1>2, <2>1, RsTypes
<1> QED
  BY <1>3 DEF UnlinkChildren, TypeOK

\* Fields stay typed when the dead are wiped.
LEMMA WipeType ==
  ASSUME TypeOK, NEW D
  PROVE  WipeFields(D) \in [Slots -> [Fields -> Ref]]
BY DEF WipeFields, TypeOK, Ref

\* The region of a slot.
LEMMA RegionType ==
  ASSUME TypeOK, NEW s \in Slots
  PROVE  Region(s) \in Regions \cup {NoRegion}
BY DEF TypeOK, Region

\* The barrier keeps the types of the mark bitmap and of the stacks.
LEMMA ShadeType ==
  ASSUME TypeOK, NEW V, Shade(V)
  PROVE  mark' \subseteq Slots /\ force' \in [Regions -> SUBSET Slots]
BY DEF TypeOK, Shade, Shaded

-----------------------------------------------------------------------------
(***************************************************************************)
(* Type correctness.  Sets such as foreign, seedAny and noSweep receive    *)
(* the region of an object, so the type invariant is inductive only with   *)
(* the facts that every occupied slot lies in a slab of a living region    *)
(* and that a round belongs to a living region.                            *)
(***************************************************************************)
TInv == TypeOK /\ OccOwned /\ RoundsAlive

USE DEF heapVars, rootVars, partVars, roundVars, markVars, sweepVars, callVars

LEMMA RegionsType ==
  ASSUME TInv, NEW r \in Regions, RegionNew(r) \/ RegionFree(r)
  PROVE  TInv'
<1>1. CASE RegionNew(r)
  BY <1>1 DEF TInv, TypeOK, OccOwned, RoundsAlive, RegionNew, Region
<1>2. CASE RegionFree(r)
  <2> DEFINE D == RegionSlots(r) \cap occ
  <2>1. D \in SUBSET Slots
    BY DEF TInv, TypeOK, RegionSlots
  <2>2. rscnt' \in [Slots -> 0..RsSat]
    BY <1>2, <2>1, UnlinkType DEF TInv, RegionFree
  <2>3. field' \in [Slots -> [Fields -> Ref]]
    BY <1>2, WipeType DEF TInv, RegionFree
  <2>6. /\ markTick' \in [Regions -> 1..MarkEvery]
        /\ seedTodo' \in [Regions -> SUBSET Words]
        /\ mstk' \in [Regions -> SUBSET Slots]
        /\ force' \in [Regions -> SUBSET Slots]
        /\ scan' \in [Regions -> SUBSET (Slots \X Fields)]
        /\ swTodo' \in [Regions -> SUBSET Words]
        /\ swDone' \in [Regions -> SUBSET Words]
    BY <1>2 DEF TInv, TypeOK, RegionFree
  <2>7. /\ owner' \in [Slabs -> Regions \cup {NoRegion}]
        /\ pin' \in [Slots -> 0..PinMax]
        /\ occ' \subseteq Slots /\ mark' \subseteq Slots
    BY <1>2 DEF TInv, TypeOK, RegionFree
  <2>4. TypeOK'
    BY <1>2, <2>2, <2>3, <2>6, <2>7 DEF TInv, TypeOK, RegionFree
  <2>5. (OccOwned /\ RoundsAlive)'
    BY <1>2 DEF TInv, TypeOK, OccOwned, RoundsAlive, RegionFree, RegionSlots, Region
  <2> QED
    BY <2>4, <2>5 DEF TInv
<1> QED
  BY <1>1, <1>2

LEMMA CallsType ==
  ASSUME TInv, NEW r \in Regions,
         AllocEnter(r) \/ ResumeRound(r) \/ CheckOwed(r) \/ BeginRound(r)
  PROVE  TInv'
<1>1. CASE AllocEnter(r)
  BY <1>1 DEF TInv, TypeOK, OccOwned, RoundsAlive, AllocEnter, Region
<1>2. CASE ResumeRound(r)
  BY <1>2 DEF TInv, TypeOK, OccOwned, RoundsAlive, ResumeRound, Abandon, Region
<1>3. CASE CheckOwed(r)
  BY <1>3 DEF TInv, TypeOK, OccOwned, RoundsAlive, CheckOwed, Abandon, Region
<1>4. CASE BeginRound(r)
  BY <1>4 DEF TInv, TypeOK, OccOwned, RoundsAlive, BeginRound, Region, RegionSlots,
              RegionWords, Pinned
<1> QED
  BY <1>1, <1>2, <1>3, <1>4

LEMMA TakeType ==
  ASSUME TInv, Take \/ TakeNewSlab \/ TakeNothing
  PROVE  TInv'
<1>1. CASE Take
  BY <1>1 DEF TInv, TypeOK, OccOwned, RoundsAlive, Take, TakeSlot, FreeSlots, RegionSlots,
              Region, Goto, Ref
<1>2. CASE TakeNewSlab
  BY <1>2 DEF TInv, TypeOK, OccOwned, RoundsAlive, TakeNewSlab, TakeSlot, SpareSlabs,
              Region, Goto, Ref
<1>3. CASE TakeNothing
  BY <1>3 DEF TInv, TypeOK, OccOwned, RoundsAlive, TakeNothing, Region, Goto
<1> QED
  BY <1>1, <1>2, <1>3

LEMMA CollectType ==
  ASSUME TInv, Advance \/ MarkResume \/ SeedStep \/ WalkPop \/ WalkEnd
               \/ Finish \/ SweepStep \/ SweepWait
  PROVE  TInv'
<1>0. pc # "mutator" /\ cur \in alive /\ cur \in Regions
  BY DEF TInv, TypeOK, Advance, MarkResume, SeedStep, WalkPop, WalkEnd,
         Finish, SweepStep, SweepWait
<1>1. CASE Advance
  <2>1. markTick' \in [Regions -> 1..MarkEvery]
    <3>1. /\ markTick \in [Regions -> 1..MarkEvery]
          /\ markTick[cur] \in 1..MarkEvery
      BY <1>0 DEF TInv, TypeOK
    <3>2. \/ /\ markTick[cur] > 1
             /\ markTick' = [markTick EXCEPT ![cur] = markTick[cur] - 1]
          \/ markTick' = [markTick EXCEPT ![cur] = MarkEvery]
          \/ markTick' = markTick
      BY <1>1 DEF Advance
    <3> QED
      BY <3>1, <3>2
  <2>2. /\ pc' \in {"finish", "mark"} /\ left' = 0 /\ cur' = cur
        /\ UNCHANGED <<owner, heapVars, rootVars, partVars, marking, sweeping,
                       markVars, sweepVars, ret>>
    BY <1>1 DEF Advance, Goto
  <2> QED
    BY <1>0, <2>1, <2>2 DEF TInv, TypeOK, OccOwned, RoundsAlive, Region
<1>2. CASE MarkResume
  <2>1. PICK C \in Portions(scan[cur], ScanChunk),
             W \in Portions(seedTodo[cur], SeedBudget) :
          /\ mstk' = [mstk EXCEPT ![cur] =
                        @ \cup Seeds(W)
                          \cup UNION {Children(e[1], {e[2]}) : e \in C}]
          /\ scan' = [scan EXCEPT ![cur] = ScanRest(@, C)]
          /\ seedTodo' = [seedTodo EXCEPT ![cur] = @ \ W]
    BY <1>2 DEF MarkResume
  <2>2. C \subseteq Slots \X Fields
    BY <1>0 DEF Portions, TInv, TypeOK
  <2>3. \A e \in C : Children(e[1], {e[2]}) \subseteq Slots
    BY <2>2 DEF Children, TInv, TypeOK, Ref
  <2>4. UNION {Children(e[1], {e[2]}) : e \in C} \subseteq Slots
    BY <2>3
  <2>5. mstk' \in [Regions -> SUBSET Slots]
    BY <1>0, <2>1, <2>4 DEF TInv, TypeOK, Seeds
  <2>6. /\ scan' \in [Regions -> SUBSET (Slots \X Fields)]
        /\ seedTodo' \in [Regions -> SUBSET Words]
    BY <1>0, <2>1 DEF TInv, TypeOK, ScanRest
  <2>7. /\ Goto("finish")
        /\ UNCHANGED <<owner, heapVars, rootVars, partVars, roundVars, force,
                       sweepVars, ret>>
    BY <1>2 DEF MarkResume
  <2> QED
    BY <1>0, <2>5, <2>6, <2>7
    DEF TInv, TypeOK, OccOwned, RoundsAlive, Goto, Region
<1>3. CASE SeedStep
  BY <1>0, <1>3 DEF TInv, TypeOK, OccOwned, RoundsAlive, SeedStep, Seeds, Region
<1>4. CASE WalkPop
  <2>1. PICK o \in Slots, forced \in BOOLEAN : Pop(o, forced)
    BY <1>0, <1>4 DEF WalkPop, TInv, TypeOK
  <2>2. Children(o, Fields) \subseteq Slots
    BY DEF Children, TInv, TypeOK, Ref
  <2>3. /\ mark' \subseteq Slots
        /\ force' \in [Regions -> SUBSET Slots]
        /\ scan' \in [Regions -> SUBSET (Slots \X Fields)]
        /\ mstk' \in [Regions -> SUBSET Slots]
    <3>1. mark' \subseteq Slots
      BY <2>1 DEF TInv, TypeOK, Pop
    <3>2. force' \in [Regions -> SUBSET Slots]
      BY <1>0, <2>1 DEF TInv, TypeOK, Pop
    <3>3. scan' = scan \/ \E X \in SUBSET (Slots \X Fields) : scan' = [scan EXCEPT ![cur] = X]
      BY <2>1 DEF Pop
    <3>4. scan' \in [Regions -> SUBSET (Slots \X Fields)]
      BY <1>0, <3>3 DEF TInv, TypeOK
    <3>5. \E X \in SUBSET Slots : mstk' = [mstk EXCEPT ![cur] = (IF forced THEN @ ELSE @ \ {o}) \cup X]
      BY <2>1, <2>2 DEF Pop
    <3>6. mstk' \in [Regions -> SUBSET Slots]
      BY <1>0, <3>5 DEF TInv, TypeOK
    <3> QED
      BY <3>1, <3>2, <3>4, <3>6
  <2> QED
    BY <1>0, <1>4, <2>3 DEF TInv, TypeOK, OccOwned, RoundsAlive, WalkPop, Region
<1>5. CASE WalkEnd
  BY <1>0, <1>5 DEF TInv, TypeOK, OccOwned, RoundsAlive, WalkEnd, Goto, Region
<1>6. CASE Finish
  <2>1. /\ swTodo' \in [Regions -> SUBSET Words]
        /\ swDone' \in [Regions -> SUBSET Words]
    <3>1. RegionWords(cur) \subseteq Words
      BY DEF RegionWords
    <3>2. \/ UNCHANGED <<swTodo, swDone>>
          \/ /\ swTodo' = [swTodo EXCEPT ![cur] = RegionWords(cur)]
             /\ swDone' = [swDone EXCEPT ![cur] = {}]
      BY <1>6 DEF Finish
    <3>3. /\ swTodo \in [Regions -> SUBSET Words]
          /\ swDone \in [Regions -> SUBSET Words]
      BY DEF TInv, TypeOK
    <3> QED
      BY <1>0, <3>1, <3>2, <3>3
  <2>2. marking' \subseteq marking /\ sweeping' \subseteq sweeping \cup {cur}
    BY <1>6 DEF Finish
  <2>3. Goto("sweep") \/ Goto("take") \/ Goto("mutator")
    BY <1>6 DEF Finish, Caller
  <2>4. UNCHANGED <<owner, heapVars, rootVars, partVars, markTick, markVars,
                    ret>>
    BY <1>6 DEF Finish
  <2> QED
    BY <1>0, <2>1, <2>2, <2>3, <2>4
    DEF TInv, TypeOK, OccOwned, RoundsAlive, Goto, Region
<1>7. CASE SweepStep
  <2>1. PICK W \in Portions(swTodo[cur], SweepBudget) :
          /\ occ' = occ \ Dead(W)
          /\ rscnt' = UnlinkChildren(Dead(W))
          /\ field' = WipeFields(Dead(W))
          /\ mark' = MarksLeft(W)
          /\ swTodo' = [swTodo EXCEPT ![cur] = @ \ W]
          /\ sweeping' \subseteq sweeping
          /\ swDone' \in {[swDone EXCEPT ![cur] = {}],
                          [swDone EXCEPT ![cur] = @ \cup W]}
    BY <1>7 DEF SweepStep
  <2>2. Dead(W) \in SUBSET Slots /\ W \subseteq Words
    BY <1>0 DEF Dead, Portions, TInv, TypeOK
  <2>3. /\ rscnt' \in [Slots -> 0..RsSat]
        /\ field' \in [Slots -> [Fields -> Ref]]
    BY <2>1, <2>2, UnlinkType, WipeType DEF TInv
  <2>4. /\ swTodo' \in [Regions -> SUBSET Words]
        /\ swDone' \in [Regions -> SUBSET Words]
    BY <1>0, <2>1, <2>2 DEF TInv, TypeOK
  <2>5. /\ mark' \subseteq Slots
        /\ occ' \subseteq occ
        /\ sweeping' \subseteq sweeping
    BY <2>1 DEF TInv, TypeOK, MarksLeft
  <2> QED
    BY <1>0, <1>7, <2>3, <2>4, <2>5
    DEF TInv, TypeOK, OccOwned, RoundsAlive, SweepStep, Goto, Caller, Region
<1>8. CASE SweepWait
  BY <1>0, <1>8 DEF TInv, TypeOK, OccOwned, RoundsAlive, SweepWait, Goto, Caller, Region
<1> QED
  BY <1>1, <1>2, <1>3, <1>4, <1>5, <1>6, <1>7, <1>8

LEMMA MoveType ==
  ASSUME TInv, MoveLocal
  PROVE  TInv'
<1>1. ASSUME NEW l \in Locals, NEW v \in Ref, SetLocal(l, v)
      PROVE  TInv'
  BY <1>1 DEF TInv, TypeOK, OccOwned, RoundsAlive, SetLocal, Region
<1>2. ASSUME NEW l \in Locals, NEW k \in Locals, StoreLocal(l, k)
      PROVE  TInv'
  <2>1. mark' \subseteq Slots /\ force' \in [Regions -> SUBSET Slots]
    BY <1>2, ShadeType DEF StoreLocal, TInv
  <2> QED
    BY <1>2, <2>1 DEF TInv, TypeOK, OccOwned, RoundsAlive, StoreLocal, Region
<1> QED
  <2>1. \A l, k \in Locals, f \in Fields :
          local[k] \in occ => field[local[k]][f] \in Ref
    BY DEF TInv, TypeOK
  <2>2. /\ \A k \in Locals : local[k] \in Ref
        /\ \A h \in Hosts : ext[h] \in Ref
        /\ Null \in Ref
    BY DEF TInv, TypeOK, Ref
  <2> QED
    BY <1>1, <1>2, <2>1, <2>2
    DEF MoveLocal, LoadField, LoadHost, DropLocal, CopyLocal

LEMMA StoreType ==
  ASSUME TInv, NEW o \in occ, NEW f \in Fields, NEW v \in Ref,
         StoreOwned(o, f, v) \/ StoreSameRegion(o, f, v)
           \/ StoreStruct(o, f, v)
  PROVE  TInv'
<1>1. mark' \subseteq Slots /\ force' \in [Regions -> SUBSET Slots]
  BY ShadeType DEF StoreOwned, StoreSameRegion, StoreStruct, TInv
<1>2. o \in Slots /\ Region(o) \in Regions
  BY DEF TInv, TypeOK, OccOwned
<1>3. v \in occ => v \in Slots /\ Region(v) \in Regions
  BY DEF TInv, TypeOK, OccOwned
<1>4. field' \in [Slots -> [Fields -> Ref]]
  <2>1. field' = [field EXCEPT ![o][f] = v]
    BY DEF StoreOwned, StoreSameRegion, StoreStruct
  <2>2. field \in [Slots -> [Fields -> Ref]]
    BY DEF TInv, TypeOK
  <2> QED
    BY <1>2, <2>1, <2>2
<1>5. CASE StoreOwned(o, f, v)
  <2>1. rscnt' \in [Slots -> 0..RsSat]
    <3> DEFINE inc == partN > 1 /\ v # Null /\ v \in occ /\ Region(v) # Region(o)
               up == [s \in Slots |-> IF inc /\ s = v THEN RsInc(rscnt[s])
                                                      ELSE rscnt[s]]
    <3>1. \A s \in Slots : up[s] \in 0..RsSat
      BY RsTypes DEF TInv, TypeOK
    <3>2. \A s \in Slots : RsDecBy(up[s], 1) \in 0..RsSat
      BY <3>1, RsTypes
    <3> QED
      BY <1>5, <3>1, <3>2 DEF StoreOwned
  <2>2. foreign' \subseteq Regions /\ seedAny' \subseteq Regions
    BY <1>5, <1>2, <1>3 DEF StoreOwned, TInv, TypeOK
  <2> QED
    BY <1>1, <1>4, <1>5, <2>1, <2>2
    DEF TInv, TypeOK, OccOwned, RoundsAlive, StoreOwned, Region
<1>6. CASE StoreSameRegion(o, f, v)
  BY <1>1, <1>4, <1>6
  DEF TInv, TypeOK, OccOwned, RoundsAlive, StoreSameRegion, Region
<1>7. CASE StoreStruct(o, f, v)
  <2>1. rscnt' \in [Slots -> 0..RsSat]
    BY <1>7, RsTypes DEF StoreStruct, TInv, TypeOK
  <2>2. foreign' \subseteq Regions /\ seedAny' \subseteq Regions
    BY <1>7, <1>2, <1>3 DEF StoreStruct, TInv, TypeOK
  <2> QED
    BY <1>1, <1>4, <1>7, <2>1, <2>2
    DEF TInv, TypeOK, OccOwned, RoundsAlive, StoreStruct, Region
<1> QED
  BY <1>5, <1>6, <1>7

LEMMA HostType ==
  ASSUME TInv, NEW h \in Hosts, NEW v \in Ref, NEW pinned \in BOOLEAN,
         StoreUnknown(h, v, pinned) \/ StoreStructUnknown(h, v)
  PROVE  TInv'
<1>1. mark' \subseteq Slots /\ force' \in [Regions -> SUBSET Slots]
  BY ShadeType DEF StoreUnknown, StoreStructUnknown, TInv
<1>2. v \in occ => v \in Slots /\ Region(v) \in Regions
  BY DEF TInv, TypeOK, OccOwned
<1>3. noSweep' \subseteq Regions /\ ext' \in [Hosts -> Ref]
  <2>1. /\ \/ noSweep' = noSweep
           \/ v \in occ /\ noSweep' = noSweep \cup {Region(v)}
        /\ ext' = [ext EXCEPT ![h] = v]
    <3>1. CASE StoreUnknown(h, v, pinned)
      <4>1. /\ noSweep' = IF ~pinned /\ v \in occ THEN noSweep \cup {Region(v)}
                                                  ELSE noSweep
            /\ ext' = [ext EXCEPT ![h] = v]
        BY <3>1 DEF StoreUnknown
      <4> QED
        BY <4>1
    <3>2. CASE StoreStructUnknown(h, v)
      <4>1. /\ noSweep' = IF v \in occ THEN noSweep \cup {Region(v)} ELSE noSweep
            /\ ext' = [ext EXCEPT ![h] = v]
        BY <3>2 DEF StoreStructUnknown
      <4> QED
        BY <4>1
    <3> QED
      BY <3>1, <3>2
  <2>2. noSweep \subseteq Regions /\ ext \in [Hosts -> Ref]
    BY DEF TInv, TypeOK
  <2> QED
    BY <1>2, <2>1, <2>2
<1>4. CASE StoreUnknown(h, v, pinned)
  <2>1. pin' \in [Slots -> 0..PinMax]
    <3> DEFINE sub == [s \in Slots |-> IF s = ext[h] THEN PinDrop(pin[s])
                                                     ELSE pin[s]]
    <3>1. \A s \in Slots : sub[s] \in 0..PinMax /\ sub[s] <= pin[s]
      BY DEF TInv, TypeOK, PinDrop
    <3>2. v \in occ => pin[v] < PinMax /\ pin[v] \in 0..PinMax
      BY <1>2, <1>4 DEF StoreUnknown, TInv, TypeOK
    <3>3. pin' = [s \in Slots |-> IF pinned /\ s = v /\ v \in occ
                                  THEN sub[s] + 1 ELSE sub[s]]
      BY <1>4 DEF StoreUnknown
    <3> HIDE DEF sub
    <3> QED
      BY <3>1, <3>2, <3>3
  <2> QED
    BY <1>1, <1>3, <1>4, <2>1
    DEF TInv, TypeOK, OccOwned, RoundsAlive, StoreUnknown, Region
<1>5. CASE StoreStructUnknown(h, v)
  BY <1>1, <1>3, <1>5
  DEF TInv, TypeOK, OccOwned, RoundsAlive, StoreStructUnknown, Region
<1> QED
  BY <1>4, <1>5

\* A targeted release frees objects of the released region only.
LEMMA ReachInType ==
  ASSUME NEW r, NEW X, NEW B
  PROVE  ReachIn(r, X, B) \subseteq (occ \cap RegionSlots(r)) \ B
BY DEF ReachIn

\* What a targeted release does, without the closure it computes: it frees a
\* set `dead` of objects of one region, home, and leaves there no mark but
\* those of the objects it has just pushed.
ReleaseEffect(l, k, home, dead, grey) ==
  /\ home \in alive /\ home = Region(local[k])
  /\ \A s \in dead \cup grey : Region(s) = home
  /\ grey # {} => home \in marking
  /\ occ' = occ \ dead
  /\ rscnt' = UnlinkChildren(dead)
  /\ field' = WipeFields(dead)
  /\ mark' = (mark \ RegionSlots(home)) \cup grey
  /\ mstk' = [mstk EXCEPT ![home] = {}]
  /\ force' = [force EXCEPT ![home] = grey]
  /\ scan' = [scan EXCEPT ![home] = {}]
  /\ seedTodo' = [seedTodo EXCEPT ![home] = {}]
  /\ local' = [local EXCEPT ![l] = local[k]]
  /\ UNCHANGED <<owner, ext, pin, partVars, roundVars, sweepVars, callVars>>

LEMMA ReleaseFacts ==
  ASSUME TInv, NEW l \in Locals, NEW k \in Locals, Release(l, k)
  PROVE  \E home \in Regions, dead \in SUBSET occ, grey \in SUBSET Slots :
           ReleaseEffect(l, k, home, dead, grey)
<1> DEFINE old   == local[l]
           v     == local[k]
           home  == Region(v)
           roots == {local[x] : x \in Locals \ {l}} \cup Pinned(home)
                      \cup {s \in RegionSlots(home) : rscnt[s] > 0}
           known == mark \cup Shaded({v})
           black == known \cup ReachIn(home, roots, known)
           dead  == ReachIn(home, {old}, black)
           grey  == IF home \in marking THEN {v, old} \ dead ELSE {}
<1>1. v \in occ /\ old \in occ /\ Region(old) = home
  BY DEF Release
<1>2. v \in Slots /\ old \in Slots /\ home \in Regions /\ home \in alive
  BY <1>1 DEF TInv, TypeOK, OccOwned
<1>3. dead \subseteq occ \cap RegionSlots(home)
  BY ReachInType
<1>4. grey \in SUBSET Slots /\ \A s \in grey : Region(s) = home
  BY <1>1, <1>2
<1>5. \A s \in dead : Region(s) = home
  BY <1>3 DEF RegionSlots
<1>6. /\ occ' = occ \ dead
      /\ rscnt' = UnlinkChildren(dead)
      /\ field' = WipeFields(dead)
      /\ mark' = (mark \ RegionSlots(home)) \cup grey
      /\ mstk' = [mstk EXCEPT ![home] = {}]
      /\ force' = [force EXCEPT ![home] = grey]
      /\ scan' = [scan EXCEPT ![home] = {}]
      /\ seedTodo' = [seedTodo EXCEPT ![home] = {}]
      /\ local' = [local EXCEPT ![l] = v]
      /\ UNCHANGED <<owner, ext, pin, partVars, roundVars, sweepVars,
                     callVars>>
  BY DEF Release
<1>7. grey # {} => home \in marking
  OBVIOUS
<1>8. home = Region(local[k])
  OBVIOUS
<1> HIDE DEF home, dead, grey
<1> QED
  BY <1>2, <1>3, <1>4, <1>5, <1>6, <1>7, <1>8 DEF ReleaseEffect

LEMMA ReleaseType ==
  ASSUME TInv, NEW l \in Locals, NEW k \in Locals, Release(l, k)
  PROVE  TInv'
<1>1. PICK home \in Regions, dead \in SUBSET occ, grey \in SUBSET Slots :
        ReleaseEffect(l, k, home, dead, grey)
  BY ReleaseFacts
<1> USE DEF ReleaseEffect
<1>2. dead \in SUBSET Slots
  BY DEF TInv, TypeOK
<1>3. rscnt' \in [Slots -> 0..RsSat] /\ field' \in [Slots -> [Fields -> Ref]]
  BY <1>1, <1>2, UnlinkType, WipeType DEF TInv
<1>4. /\ mstk' \in [Regions -> SUBSET Slots]
      /\ force' \in [Regions -> SUBSET Slots]
      /\ scan' \in [Regions -> SUBSET (Slots \X Fields)]
      /\ seedTodo' \in [Regions -> SUBSET Words]
      /\ local' \in [Locals -> Ref]
  BY <1>1 DEF TInv, TypeOK
<1>5. mark' \subseteq Slots /\ occ' \subseteq occ
  BY <1>1 DEF TInv, TypeOK
<1> QED
  BY <1>1, <1>3, <1>4, <1>5 DEF TInv, TypeOK, OccOwned, RoundsAlive, Region

LEMMA TypeStep ==
  ASSUME TInv, [Next]_vars
  PROVE  TInv'
<1>1. CASE UNCHANGED vars
  BY <1>1 DEF TInv, TypeOK, OccOwned, RoundsAlive, vars, Region
<1>2. CASE Runtime
  BY <1>2, TakeType, CollectType DEF Runtime
<1>3. CASE Calls
  BY <1>3, CallsType DEF Calls
<1>4. CASE Mutator
  <2>1. Values \subseteq Ref
    BY DEF Values, TInv, TypeOK, Ref
  <2>2. CASE Store
    BY <2>1, <2>2, StoreType DEF Store
  <2>3. CASE StoreHost
    <3>1. PICK h \in Hosts, v \in Values :
            \/ \E pinned \in BOOLEAN : StoreUnknown(h, v, pinned)
            \/ StoreStructUnknown(h, v)
      BY <2>3 DEF StoreHost
    <3>2. v \in Ref
      BY <2>1, <3>1
    <3>3. CASE \E pinned \in BOOLEAN : StoreUnknown(h, v, pinned)
      BY <3>2, <3>3, HostType
    <3>4. CASE StoreStructUnknown(h, v)
      <4>1. TRUE \in BOOLEAN
        OBVIOUS
      <4> QED
        BY <3>2, <3>4, <4>1, HostType
    <3> QED
      BY <3>1, <3>3, <3>4
  <2> QED
    BY <1>4, <2>2, <2>3, RegionsType, MoveType, ReleaseType DEF Mutator
<1> QED
  BY <1>1, <1>2, <1>3, <1>4 DEF Next

\* The type invariant of the collector holds in every reachable state, for
\* every instance and in every situation: rscnt sticks at its limit, cursors
\* and stacks stay inside the region's words and slots, and a running call
\* works for a living region.
THEOREM TypeCorrect == Spec => []TypeOK
<1>1. Init => TInv
  BY DEF Init, TInv, TypeOK, OccOwned, RoundsAlive, Ref
<1>2. TInv /\ [Next]_vars => TInv'
  BY TypeStep
<1>3. TInv => TypeOK
  BY DEF TInv
<1> QED
  BY <1>1, <1>2, <1>3, PTL DEF Spec

-----------------------------------------------------------------------------
(***************************************************************************)
(* The bitmaps.  MarksClean and BlackClosed are inductive together with    *)
(* the division of a swept region by its cursor, provided that no slab is  *)
(* added during a sweep.                                                   *)
(***************************************************************************)
ColourInv == MarkOwned /\ Phases /\ SweepDivides /\ MarksClean /\ BlackClosed
MInv == TInv /\ ColourInv

\* A step that touches no bitmap, no field, no slab list, no round and no
\* stack keeps the colours.
LEMMA ColourFrame ==
  ASSUME MInv, Phases',
         UNCHANGED <<owner, occ, mark, field, alive, noSweep, marking, sweeping,
                     mstk, force, scan, swTodo, swDone>>
  PROVE  ColourInv'
BY DEF MInv, TInv, TypeOK, ColourInv, MarkOwned, SweepDivides, MarksClean,
       BlackClosed, Region, RegionSlots, RegionWords

LEMMA RegionsColour ==
  ASSUME MInv, TInv', NEW r \in Regions, RegionNew(r) \/ RegionFree(r)
  PROVE  ColourInv'
<1> USE DEF Region, RegionSlots, RegionWords
<1>1. CASE RegionNew(r)
  <2>1. MarkOwned' /\ Phases' /\ MarksClean'
    BY <1>1 DEF MInv, TInv, TypeOK, ColourInv, MarkOwned, Phases, MarksClean,
                RegionNew
  <2>2. SweepDivides'
    BY <1>1 DEF MInv, ColourInv, SweepDivides, RegionNew
  <2>3. BlackClosed'
    BY <1>1 DEF MInv, ColourInv, BlackClosed, RegionNew
  <2> QED
    BY <2>1, <2>2, <2>3 DEF ColourInv
<1>2. CASE RegionFree(r)
  <2>1. /\ marking' = marking \ {r} /\ sweeping' = sweeping \ {r}
        /\ alive' = alive \ {r} /\ noSweep' = noSweep \ {r}
        /\ occ' = occ \ RegionSlots(r) /\ mark' = mark \ RegionSlots(r)
        /\ UNCHANGED <<pc, cur>> /\ pc = "mutator"
    BY <1>2 DEF RegionFree
  <2>2. ASSUME NEW q \in Regions, q # r
        PROVE  /\ \A s \in Slots : (Region(s) = q)' <=> Region(s) = q
               /\ RegionWords(q)' = RegionWords(q)
               /\ mstk'[q] = mstk[q] /\ force'[q] = force[q]
               /\ scan'[q] = scan[q]
               /\ swTodo'[q] = swTodo[q] /\ swDone'[q] = swDone[q]
    <3>1. owner' = [b \in Slabs |-> IF owner[b] = r THEN NoRegion ELSE owner[b]]
      BY <1>2 DEF RegionFree
    <3>2. \A b \in Slabs : owner'[b] = q <=> owner[b] = q
      BY <2>2, <3>1
    <3>3. /\ \A s \in Slots : (Region(s) = q)' <=> Region(s) = q
          /\ RegionWords(q)' = RegionWords(q)
      BY <3>2
    <3>4. /\ mstk'[q] = mstk[q] /\ force'[q] = force[q]
          /\ scan'[q] = scan[q]
          /\ swTodo'[q] = swTodo[q] /\ swDone'[q] = swDone[q]
      <4>1. /\ mstk' = [mstk EXCEPT ![r] = {}]
            /\ force' = [force EXCEPT ![r] = {}]
            /\ scan' = [scan EXCEPT ![r] = {}]
            /\ swTodo' = [swTodo EXCEPT ![r] = {}]
            /\ swDone' = [swDone EXCEPT ![r] = {}]
        BY <1>2 DEF RegionFree
      <4>2. /\ mstk \in [Regions -> SUBSET Slots]
            /\ force \in [Regions -> SUBSET Slots]
            /\ scan \in [Regions -> SUBSET (Slots \X Fields)]
            /\ swTodo \in [Regions -> SUBSET Words]
            /\ swDone \in [Regions -> SUBSET Words]
        BY DEF MInv, TInv, TypeOK
      <4> QED
        BY <2>2, <4>1, <4>2
    <3> QED
      BY <3>3, <3>4
  <2>3. \A o \in occ' : o \in occ /\ Region(o) # r /\ field'[o] = field[o]
    BY <1>2 DEF RegionFree, WipeFields, MInv, TInv, TypeOK
  <2>4. MarkOwned'
    <3> SUFFICES ASSUME NEW s \in mark' PROVE (Region(s) \in alive)'
      BY DEF MarkOwned
    <3>1. s \in mark /\ s \in Slots /\ Region(s) # r /\ Region(s) \in alive
      BY <2>1 DEF MInv, TInv, TypeOK, ColourInv, MarkOwned
    <3>2. Region(s) \in Regions
      BY <3>1 DEF MInv, TInv, TypeOK
    <3> QED
      BY <2>1, <2>2, <3>1, <3>2
  <2>5. Phases'
    BY <2>1 DEF MInv, ColourInv, Phases
  <2>6. SweepDivides'
    <3> SUFFICES ASSUME NEW q \in sweeping'
                 PROVE  /\ swTodo'[q] \subseteq RegionWords(q)'
                        /\ \A s \in Slots : (Region(s) = q)' =>
                             /\ WordOf[s] \in swTodo'[q] \/ WordOf[s] \in swDone'[q]
                             /\ s \in mark' => WordOf[s] \in swTodo'[q]
      BY DEF SweepDivides
    <3>1. q \in sweeping /\ q \in Regions /\ q # r
      BY <2>1 DEF MInv, TInv, TypeOK
    <3>2. /\ swTodo[q] \subseteq RegionWords(q)
          /\ \A s \in Slots : Region(s) = q =>
               /\ WordOf[s] \in swTodo[q] \/ WordOf[s] \in swDone[q]
               /\ s \in mark => WordOf[s] \in swTodo[q]
      BY <3>1 DEF MInv, ColourInv, SweepDivides
    <3> QED
      BY <2>1, <2>2, <3>1, <3>2
  <2>7. MarksClean'
    <3> SUFFICES ASSUME NEW q \in alive' \ (marking' \cup sweeping' \cup noSweep'),
                        NEW s \in mark'
                 PROVE  (Region(s) # q)'
      BY DEF MarksClean
    <3>1. q \in Regions /\ q # r
          /\ q \in alive \ (marking \cup sweeping \cup noSweep)
      BY <2>1 DEF MInv, TInv, TypeOK
    <3>2. s \in mark /\ s \in Slots
      BY <2>1 DEF MInv, TInv, TypeOK
    <3>3. Region(s) # q
      BY <3>1, <3>2 DEF MInv, ColourInv, MarksClean
    <3> QED
      BY <2>2, <3>1, <3>2, <3>3
  <2>8. BlackClosed'
    <3> SUFFICES ASSUME NEW q \in marking', NEW o \in occ' \cap mark',
                        NEW f \in Fields, (Region(o) = q)',
                        field'[o][f] \in occ', (Region(field[o][f]) = q)'
                 PROVE  \/ field'[o][f] \in mark' \cup mstk'[q]
                        \/ o \in force'[q]
                        \/ <<o, f>> \in scan'[q]
      BY DEF BlackClosed
    <3>1. q \in marking /\ q \in Regions /\ q # r
      BY <2>1 DEF MInv, TInv, TypeOK
    <3>2. o \in occ \cap mark /\ o \in Slots /\ field'[o][f] = field[o][f]
      BY <2>1, <2>3 DEF MInv, TInv, TypeOK
    <3>3. field[o][f] \in occ /\ field[o][f] \in Slots /\ Region(field[o][f]) # r
      BY <2>3, <3>2 DEF MInv, TInv, TypeOK
    <3>4. Region(o) = q /\ Region(field[o][f]) = q
      BY <2>2, <3>1, <3>2, <3>3
    <3>5. \/ field[o][f] \in mark \cup mstk[q]
          \/ o \in force[q]
          \/ <<o, f>> \in scan[q]
      BY <3>1, <3>2, <3>3, <3>4 DEF MInv, ColourInv, BlackClosed
    <3> QED
      BY <2>1, <2>2, <3>1, <3>2, <3>3, <3>5
  <2> QED
    BY <2>4, <2>5, <2>6, <2>7, <2>8 DEF ColourInv
<1> QED
  BY <1>1, <1>2

LEMMA CallsColour ==
  ASSUME MInv, NEW r \in Regions,
         AllocEnter(r) \/ ResumeRound(r) \/ CheckOwed(r) \/ BeginRound(r)
  PROVE  ColourInv'
<1> USE DEF Region, RegionSlots, RegionWords
<1>1. ASSUME AllocEnter(r) \/ ResumeRound(r) \/ CheckOwed(r) PROVE ColourInv'
  <2>1. /\ sweeping' \subseteq sweeping
        /\ sweeping \ sweeping' \subseteq noSweep
        /\ UNCHANGED <<owner, occ, mark, field, alive, noSweep, marking, mstk,
                       force, scan, swTodo, swDone>>
    BY <1>1 DEF AllocEnter, ResumeRound, CheckOwed, Abandon
  <2>2. Phases'
    BY <1>1 DEF AllocEnter, ResumeRound, CheckOwed, Abandon, MInv, ColourInv, Phases
  <2>3. MarkOwned' /\ SweepDivides' /\ MarksClean' /\ BlackClosed'
    BY <2>1 DEF MInv, ColourInv, MarkOwned, SweepDivides, MarksClean,
                BlackClosed
  <2> QED
    BY <2>2, <2>3 DEF ColourInv
<1>2. CASE BeginRound(r)
  <2>1. /\ marking' = marking \cup {r}
        /\ r \in alive \ (marking \cup sweeping \cup noSweep)
        /\ pc' = "mark" /\ cur' = r
        /\ UNCHANGED <<owner, occ, mark, field, alive, noSweep, sweeping,
                       swTodo, swDone>>
        /\ \A q \in Regions \ {r} : /\ mstk'[q] = mstk[q]
                                    /\ force'[q] = force[q]
                                    /\ scan'[q] = scan[q]
    BY <1>2 DEF BeginRound, MInv, TInv, TypeOK
  <2>2. \A s \in mark : Region(s) # r
    BY <2>1 DEF MInv, ColourInv, MarksClean, TInv, TypeOK
  <2>3. Phases' /\ MarkOwned' /\ SweepDivides' /\ MarksClean'
    BY <2>1 DEF MInv, ColourInv, MarkOwned, SweepDivides, MarksClean, Phases
  <2>4. BlackClosed'
    BY <2>1, <2>2 DEF MInv, TInv, TypeOK, ColourInv, BlackClosed
  <2> QED
    BY <2>3, <2>4 DEF ColourInv
<1> QED
  BY <1>1, <1>2

\* The slot that alloc hands out: free before, of region cur, and black
\* exactly as BornBlack says.
LEMMA TakeColour ==
  ASSUME MInv, "newslab" \notin Allow, Take \/ TakeNewSlab \/ TakeNothing
  PROVE  ColourInv'
<1> USE DEF Region, RegionSlots, RegionWords
<1>0. pc # "mutator" /\ cur \in alive /\ cur \in Regions
  BY DEF MInv, TInv, TypeOK, Take, TakeNewSlab, TakeNothing
<1>1. CASE TakeNothing
  <2>1. Phases'
    BY <1>1 DEF TakeNothing, Goto, MInv, ColourInv, Phases
  <2> QED
    BY <1>1, <2>1, ColourFrame DEF TakeNothing
<1>2. CASE Take \/ TakeNewSlab
  <2>1. PICK s \in Slots :
          /\ s \notin occ
          /\ Region(s)' = cur
          /\ occ' = occ \cup {s}
          /\ mark' = IF BornBlack(cur, s) THEN mark \cup {s} ELSE mark
          /\ field' = [field EXCEPT ![s] = [f \in Fields |-> Null]]
          /\ UNCHANGED <<alive, noSweep, marking, sweeping, mstk, force, scan,
                         swTodo, swDone>>
          /\ pc' = "mutator"
    <3>1. CASE Take
      BY <3>1 DEF Take, TakeSlot, FreeSlots, Goto
    <3>2. CASE TakeNewSlab
      <4>1. PICK b \in SpareSlabs :
              /\ owner' = [owner EXCEPT ![b] = cur]
              /\ \E s \in {x \in Slots : SlabOf[WordOf[x]] = b}, l \in Locals :
                   TakeSlot(s, l)
        BY <3>2 DEF TakeNewSlab
      <4>2. PICK s \in Slots, l \in Locals :
              SlabOf[WordOf[s]] = b /\ TakeSlot(s, l)
        BY <4>1
      <4>3. s \notin occ
        BY <4>1, <4>2 DEF SpareSlabs, MInv, TInv, TypeOK, OccOwned
      <4>4. Region(s)' = cur
        BY <4>1, <4>2, <3>2
        DEF SpareSlabs, MInv, TInv, TypeOK, TakeNewSlab, TakeSlot, Goto
      <4> QED
        BY <4>2, <4>3, <4>4 DEF TakeSlot, Goto
    <3> QED
      BY <1>2, <3>1, <3>2
  \* A slot of a region keeps it; a slot that changes region was in no slab,
  \* and its new region does not sweep.
  <2>2. \A x \in Slots : \/ Region(x)' = Region(x)
                         \/ /\ Region(x) = NoRegion
                            /\ Region(x)' = cur
                            /\ cur \notin sweeping
    <3>1. CASE Take
      BY <3>1 DEF Take
    <3>2. CASE TakeNewSlab
      BY <3>2 DEF TakeNewSlab, SpareSlabs, MInv, TInv, TypeOK
    <3> QED
      BY <1>2, <3>1, <3>2
  <2>3. \A w \in Words : \/ owner'[SlabOf[w]] = owner[SlabOf[w]]
                         \/ owner[SlabOf[w]] = NoRegion
    BY <1>2 DEF Take, TakeNewSlab, SpareSlabs, MInv, TInv, TypeOK
  <2>4. MarkOwned'
    BY <1>0, <2>1, <2>2 DEF MInv, TInv, TypeOK, ColourInv, MarkOwned
  <2>5. Phases'
    BY <2>1 DEF MInv, ColourInv, Phases
  <2>6. SweepDivides'
    <3> SUFFICES ASSUME NEW q \in sweeping
                 PROVE  /\ swTodo[q] \subseteq RegionWords(q)'
                        /\ \A x \in Slots : (Region(x) = q)' =>
                             /\ WordOf[x] \in swTodo[q] \/ WordOf[x] \in swDone[q]
                             /\ x \in mark' => WordOf[x] \in swTodo[q]
      BY <2>1 DEF SweepDivides
    <3>1. /\ swTodo[q] \subseteq RegionWords(q)
          /\ \A x \in Slots : Region(x) = q =>
               /\ WordOf[x] \in swTodo[q] \/ WordOf[x] \in swDone[q]
               /\ x \in mark => WordOf[x] \in swTodo[q]
      BY DEF MInv, ColourInv, SweepDivides
    <3>2. q \in Regions /\ q # NoRegion /\ q \notin marking
      BY DEF MInv, TInv, TypeOK, ColourInv, Phases
    <3>3. swTodo[q] \subseteq RegionWords(q)'
      BY <2>3, <3>1, <3>2
    <3>4. ASSUME NEW x \in Slots, (Region(x) = q)'
          PROVE  /\ WordOf[x] \in swTodo[q] \/ WordOf[x] \in swDone[q]
                 /\ x \in mark' => WordOf[x] \in swTodo[q]
      <4>1. Region(x) = q
        BY <2>2, <3>2, <3>4
      <4>2. CASE x = s
        BY <2>1, <3>1, <3>2, <3>4, <4>1, <4>2 DEF BornBlack
      <4>3. CASE x # s
        BY <2>1, <3>1, <4>1, <4>3
      <4> QED
        BY <4>2, <4>3
    <3> QED
      BY <3>3, <3>4
  <2>7. MarksClean'
    <3> SUFFICES ASSUME NEW q \in alive \ (marking \cup sweeping \cup noSweep),
                        NEW x \in mark', (Region(x) = q)'
                 PROVE  FALSE
      BY <2>1 DEF MarksClean
    <3>1. x \in mark
      BY <2>1 DEF BornBlack
    <3>2. x \in Slots /\ Region(x) \in alive /\ Region(x) # NoRegion
      BY <3>1 DEF MInv, TInv, TypeOK, ColourInv, MarkOwned
    <3>3. Region(x) = q
      BY <2>2, <3>2
    <3> QED
      BY <3>1, <3>2, <3>3 DEF MInv, ColourInv, MarksClean
  <2>8. BlackClosed'
    <3> SUFFICES ASSUME NEW q \in marking, NEW o \in occ' \cap mark',
                        NEW f \in Fields, (Region(o) = q)',
                        field'[o][f] \in occ', (Region(field[o][f]) = q)'
                 PROVE  \/ field'[o][f] \in mark' \cup mstk[q]
                        \/ o \in force[q]
                        \/ <<o, f>> \in scan[q]
      BY <2>1 DEF BlackClosed
    <3>1. o # s
      <4>1. field'[s][f] = Null
        BY <2>1 DEF MInv, TInv, TypeOK
      <4>2. Null \notin occ'
        BY <2>1 DEF MInv, TInv, TypeOK
      <4> QED
        BY <4>1, <4>2
    <3>2. o \in occ /\ o \in mark /\ o \in Slots /\ field'[o][f] = field[o][f]
      BY <2>1, <3>1 DEF MInv, TInv, TypeOK
    <3>3. CASE field[o][f] = s
      BY <2>1, <3>2, <3>3 DEF BornBlack
    <3>4. CASE field[o][f] # s
      <4>1. field[o][f] \in occ /\ field[o][f] \in Slots
        BY <2>1, <3>2, <3>4 DEF MInv, TInv, TypeOK
      <4>2. Region(o) \in alive /\ Region(field[o][f]) \in alive
        BY <3>2, <4>1 DEF MInv, TInv, OccOwned
      <4>3. Region(o) = q /\ Region(field[o][f]) = q
        BY <2>2, <3>2, <4>1, <4>2 DEF MInv, TInv, TypeOK
      <4>4. \/ field[o][f] \in mark \cup mstk[q]
            \/ o \in force[q]
            \/ <<o, f>> \in scan[q]
        BY <3>2, <4>1, <4>3 DEF MInv, ColourInv, BlackClosed
      <4> QED
        BY <2>1, <3>2, <4>4
    <3> QED
      BY <3>3, <3>4
  <2> QED
    BY <2>4, <2>5, <2>6, <2>7, <2>8 DEF ColourInv
<1> QED
  BY <1>1, <1>2

\* A store that shades every value it writes keeps the colours, whatever it
\* overwrites.
LEMMA ShadeColour ==
  ASSUME MInv, NEW V, Shade(V),
         UNCHANGED <<owner, occ, alive, marking, sweeping, mstk, scan, swTodo,
                     swDone, pc, cur>>,
         noSweep \subseteq noSweep',
         \A x \in occ, g \in Fields :
           field'[x][g] = field[x][g] \/ field'[x][g] \in V
  PROVE  ColourInv'
<1> USE DEF Region, RegionSlots, RegionWords
<1>1. /\ mark' = mark \cup Shaded(V)
      /\ \A s \in Shaded(V) : s \in occ /\ s \in Slots /\ Region(s) \in marking
      /\ \A r \in Regions :
           force'[r] = force[r] \cup {s \in Shaded(V) : Region(s) = r}
  BY DEF Shade, Shaded, MInv, TInv, TypeOK
<1>2. MarkOwned'
  BY <1>1 DEF MInv, TInv, RoundsAlive, ColourInv, MarkOwned
<1>3. Phases'
  BY DEF MInv, ColourInv, Phases
<1>4. SweepDivides'
  BY <1>1 DEF MInv, ColourInv, SweepDivides, Phases
<1>5. MarksClean'
  BY <1>1 DEF MInv, ColourInv, MarksClean
<1>6. BlackClosed'
  <2> SUFFICES ASSUME NEW q \in marking, NEW o \in occ \cap mark',
                      NEW f \in Fields, Region(o) = q,
                      field'[o][f] \in occ, Region(field'[o][f]) = q
               PROVE  \/ field'[o][f] \in mark' \cup mstk[q]
                      \/ o \in force'[q]
                      \/ <<o, f>> \in scan[q]
    BY DEF BlackClosed
  <2>1. q \in Regions
    BY DEF MInv, TInv, TypeOK
  <2>2. CASE field'[o][f] \in V
    BY <1>1, <2>2 DEF Shaded
  <2>3. CASE o \in Shaded(V)
    BY <1>1, <2>1, <2>3
  <2>4. CASE field'[o][f] = field[o][f] /\ o \in mark
    BY <1>1, <2>1, <2>4 DEF MInv, ColourInv, BlackClosed
  <2> QED
    BY <1>1, <2>2, <2>3, <2>4
<1> QED
  BY <1>2, <1>3, <1>4, <1>5, <1>6 DEF ColourInv

LEMMA MoveColour ==
  ASSUME MInv, MoveLocal
  PROVE  ColourInv'
<1>1. ASSUME NEW l \in Locals, NEW v, SetLocal(l, v)
      PROVE  ColourInv'
  <2>1. Phases'
    BY <1>1 DEF SetLocal, MInv, ColourInv, Phases
  <2> QED
    BY <1>1, <2>1, ColourFrame DEF SetLocal
<1>2. ASSUME NEW l \in Locals, NEW k \in Locals, StoreLocal(l, k)
      PROVE  ColourInv'
  <2>1. /\ UNCHANGED <<owner, occ, alive, marking, sweeping, mstk, scan, swTodo,
                       swDone, pc, cur, field, noSweep>>
        /\ \E V : Shade(V)
    BY <1>2 DEF StoreLocal
  <2> QED
    BY <2>1, ShadeColour
<1> QED
  BY <1>1, <1>2
  DEF MoveLocal, LoadField, LoadHost, DropLocal, CopyLocal

LEMMA StoreColour ==
  ASSUME MInv, NEW o \in occ, NEW f \in Fields, NEW v \in Ref,
         StoreOwned(o, f, v) \/ StoreSameRegion(o, f, v)
           \/ StoreStruct(o, f, v)
  PROVE  ColourInv'
<1>1. PICK V : Shade(V) /\ v \in V
  BY DEF StoreOwned, StoreSameRegion, StoreStruct, Barrier
<1>2. /\ field' = [field EXCEPT ![o][f] = v]
      /\ UNCHANGED <<owner, occ, alive, marking, sweeping, mstk, scan, swTodo,
                     swDone, pc, cur, noSweep>>
  BY DEF StoreOwned, StoreSameRegion, StoreStruct
<1>3. \A x \in occ, g \in Fields :
        field'[x][g] = field[x][g] \/ field'[x][g] \in V
  <2>1. /\ field \in [Slots -> [Fields -> Ref]]
        /\ occ \subseteq Slots
    BY DEF MInv, TInv, TypeOK
  <2> QED
    BY <1>1, <1>2, <2>1
<1> QED
  BY <1>1, <1>2, <1>3, ShadeColour

LEMMA HostColour ==
  ASSUME MInv, NEW h \in Hosts, NEW v \in Ref, NEW pinned \in BOOLEAN,
         StoreUnknown(h, v, pinned) \/ StoreStructUnknown(h, v)
  PROVE  ColourInv'
<1>1. PICK V : Shade(V)
  BY DEF StoreUnknown, StoreStructUnknown
<1>2. /\ UNCHANGED <<owner, occ, alive, marking, sweeping, mstk, scan, swTodo,
                     swDone, pc, cur, field>>
      /\ noSweep \subseteq noSweep'
  BY DEF StoreUnknown, StoreStructUnknown
<1> QED
  BY <1>1, <1>2, ShadeColour

LEMMA ReleaseColour ==
  ASSUME MInv, NEW l \in Locals, NEW k \in Locals, Release(l, k)
  PROVE  ColourInv'
<1>0. TInv
  BY DEF MInv
<1>1. PICK home \in Regions, dead \in SUBSET occ, grey \in SUBSET Slots :
        ReleaseEffect(l, k, home, dead, grey)
  BY <1>0, ReleaseFacts
<1> USE DEF ReleaseEffect, Region, RegionSlots, RegionWords
<1>2. \A s \in mark' : s \in grey \/ (s \in mark /\ Region(s) # home)
  BY <1>1 DEF MInv, TInv, TypeOK
<1>3. MarkOwned'
  BY <1>1, <1>2 DEF MInv, ColourInv, MarkOwned
<1>4. Phases'
  BY <1>1 DEF MInv, ColourInv, Phases
<1>5. SweepDivides'
  BY <1>1, <1>2 DEF MInv, ColourInv, SweepDivides, Phases
<1>6. MarksClean'
  BY <1>1, <1>2 DEF MInv, ColourInv, MarksClean
<1>7. BlackClosed'
  <2> SUFFICES ASSUME NEW q \in marking, NEW o \in occ' \cap mark',
                      NEW f \in Fields, Region(o) = q,
                      field'[o][f] \in occ', Region(field'[o][f]) = q
               PROVE  \/ field'[o][f] \in mark' \cup mstk'[q]
                      \/ o \in force'[q]
                      \/ <<o, f>> \in scan'[q]
    BY <1>1 DEF BlackClosed
  <2>1. q \in Regions
    BY DEF MInv, TInv, TypeOK
  <2>2. CASE q = home
    BY <1>1, <1>2, <2>2 DEF MInv, TInv, TypeOK
  <2>3. CASE q # home
    <3>1. o \in occ /\ o \in mark /\ o \in Slots
      BY <1>1, <1>2, <2>3 DEF MInv, TInv, TypeOK
    <3>2. field'[o][f] = field[o][f]
      BY <1>1, <2>3, <3>1 DEF WipeFields
    <3>3. field[o][f] \in occ /\ field[o][f] \in Slots
      BY <1>1, <3>2 DEF MInv, TInv, TypeOK
    <3>4. \/ field[o][f] \in mark \cup mstk[q]
          \/ o \in force[q]
          \/ <<o, f>> \in scan[q]
      BY <3>1, <3>2, <3>3 DEF MInv, ColourInv, BlackClosed
    <3>5. mstk'[q] = mstk[q] /\ force'[q] = force[q] /\ scan'[q] = scan[q]
      BY <1>1, <2>1, <2>3 DEF MInv, TInv, TypeOK
    <3>6. field[o][f] \in mark => field[o][f] \in mark'
      BY <1>1, <2>3, <3>2, <3>3
    <3> QED
      BY <3>2, <3>4, <3>5, <3>6
  <2> QED
    BY <2>2, <2>3
<1> QED
  BY <1>3, <1>4, <1>5, <1>6, <1>7 DEF ColourInv

\* The steps of a mark phase: the mark bitmap grows, and what leaves a stack
\* or the scan cursor is black with its children pushed.
LEMMA MarkColour ==
  ASSUME MInv, Advance \/ MarkResume \/ SeedStep \/ WalkPop \/ WalkEnd \/ SweepWait
  PROVE  ColourInv'
<1> USE DEF Region, RegionSlots, RegionWords
<1>0. cur \in alive /\ cur \in Regions
  BY DEF MInv, TInv, TypeOK, Advance, MarkResume, SeedStep, WalkPop, WalkEnd, SweepWait
<1>1. Phases'
  <2>1. CASE Advance
    BY <2>1 DEF Advance, Goto, MInv, ColourInv, Phases
  <2>2. CASE MarkResume
    <3>1. pc' = "finish" /\ UNCHANGED <<marking, sweeping>>
      BY <2>2 DEF MarkResume, Goto
    <3> QED
      BY <3>1 DEF MInv, ColourInv, Phases
  <2>3. CASE SeedStep
    <3>1. pc = "mark" /\ pc' = "walk" /\ UNCHANGED <<marking, sweeping, cur>>
      BY <2>3 DEF SeedStep
    <3> QED
      BY <3>1 DEF MInv, ColourInv, Phases
  <2>4. CASE WalkPop
    <3>1. UNCHANGED <<marking, sweeping, pc, cur>>
      BY <2>4 DEF WalkPop
    <3> QED
      BY <3>1 DEF MInv, ColourInv, Phases
  <2>5. CASE WalkEnd
    BY <2>5 DEF WalkEnd, Goto, MInv, ColourInv, Phases
  <2>6. CASE SweepWait
    BY <2>6 DEF SweepWait, Goto, Caller, MInv, ColourInv, Phases
  <2> QED
    BY <2>1, <2>2, <2>3, <2>4, <2>5, <2>6
<1>2. CASE Advance \/ WalkEnd \/ SweepWait
  BY <1>1, <1>2, ColourFrame DEF Advance, WalkEnd, SweepWait
<1>3. ASSUME MarkResume \/ SeedStep PROVE ColourInv'
  <2>1. /\ UNCHANGED <<owner, occ, mark, field, alive, noSweep, marking,
                       sweeping, force, swTodo, swDone>>
        /\ \A r \in Regions \ {cur} : mstk'[r] = mstk[r] /\ scan'[r] = scan[r]
        /\ mstk[cur] \subseteq mstk'[cur]
    BY <1>0, <1>3 DEF MarkResume, SeedStep, MInv, TInv, TypeOK
  <2>2. MarkOwned' /\ SweepDivides' /\ MarksClean'
    BY <2>1 DEF MInv, ColourInv, MarkOwned, SweepDivides, MarksClean
  <2>3. \A e \in scan[cur] : e \in scan'[cur]
          \/ field[e[1]][e[2]] \in mark \cup mstk'[cur] \cup {Null}
    <3>1. CASE SeedStep
      BY <3>1 DEF SeedStep
    <3>2. CASE MarkResume
      <4>1. PICK C \in SUBSET scan[cur], W \in SUBSET seedTodo[cur] :
              /\ mstk' = [mstk EXCEPT ![cur] =
                            @ \cup Seeds(W)
                              \cup UNION {Children(e[1], {e[2]}) : e \in C}]
              /\ scan' = [scan EXCEPT ![cur] = ScanRest(@, C)]
        BY <3>2 DEF MarkResume, Portions
      <4>2. \A e \in scan[cur] : e \in scan'[cur] \/ e \in C
        BY <1>0, <4>1 DEF ScanRest, MInv, TInv, TypeOK
      <4>3. \A e \in C : field[e[1]][e[2]] \in
                          Children(e[1], {e[2]}) \cup mark \cup {Null}
        BY DEF Children
      <4>4. \A e \in C : Children(e[1], {e[2]}) \subseteq mstk'[cur]
        <5>1. mstk'[cur] = mstk[cur] \cup Seeds(W)
                             \cup UNION {Children(e[1], {e[2]}) : e \in C}
          BY <1>0, <4>1 DEF MInv, TInv, TypeOK
        <5> QED
          BY <5>1
      <4> QED
        BY <4>2, <4>3, <4>4
    <3> QED
      BY <1>3, <3>1, <3>2
  <2>4. BlackClosed'
    <3> SUFFICES ASSUME NEW q \in marking, NEW o \in occ \cap mark,
                        NEW f \in Fields, Region(o) = q,
                        field[o][f] \in occ, Region(field[o][f]) = q
                 PROVE  \/ field[o][f] \in mark \cup mstk'[q]
                        \/ o \in force[q]
                        \/ <<o, f>> \in scan'[q]
      BY <2>1 DEF BlackClosed
    <3>1. \/ field[o][f] \in mark \cup mstk[q]
          \/ o \in force[q]
          \/ <<o, f>> \in scan[q]
      BY DEF MInv, ColourInv, BlackClosed
    <3>2. q \in Regions /\ field[o][f] # Null
      BY DEF MInv, TInv, TypeOK
    <3>3. CASE q # cur
      BY <2>1, <3>1, <3>2, <3>3
    <3>4. CASE q = cur
      BY <2>1, <2>3, <3>1, <3>2, <3>4
    <3> QED
      BY <3>3, <3>4
  <2> QED
    BY <1>1, <2>2, <2>4 DEF ColourInv
<1>4. CASE WalkPop
  <2>1. PICK p \in Slots, forced \in BOOLEAN :
          /\ Pop(p, forced)
          /\ IF forced THEN p \in force[cur] ELSE p \in mstk[cur]
    BY <1>0, <1>4 DEF WalkPop, MInv, TInv, TypeOK
  <2> DEFINE scans == /\ Region(p) = cur /\ p \in occ
                      /\ forced \/ p \notin mark
  <2>2. /\ scan[cur] = {}
        /\ UNCHANGED <<owner, occ, field, alive, noSweep, marking, sweeping,
                       swTodo, swDone>>
    BY <1>4 DEF WalkPop
  <2>3. /\ \A r \in Regions \ {cur} : /\ mstk'[r] = mstk[r]
                                      /\ force'[r] = force[r]
                                      /\ scan'[r] = scan[r]
        /\ \A x \in mstk[cur] : x \in mstk'[cur] \/ (~forced /\ x = p)
        /\ \A x \in force[cur] : x \in force'[cur] \/ (forced /\ x = p)
    BY <1>0, <2>1 DEF Pop, MInv, TInv, TypeOK
  <2>4. ~scans => mark' = mark
    BY <2>1 DEF Pop
  <2>5. scans => /\ mark' = mark \cup {p}
                 /\ \A f \in Fields : \/ field[p][f] \in mark' \cup mstk'[cur] \cup {Null}
                                     \/ <<p, f>> \in scan'[cur]
    <3> SUFFICES ASSUME scans
                 PROVE  /\ mark' = mark \cup {p}
                        /\ \A f \in Fields :
                             \/ field[p][f] \in mark' \cup mstk'[cur] \cup {Null}
                             \/ <<p, f>> \in scan'[cur]
      OBVIOUS
    <3>1. mark' = mark \cup {p}
      BY <2>1 DEF Pop
    <3>2. CASE Cardinality(Fields) > ScanChunk
      <4>1. scan'[cur] = {p} \X Fields
        BY <1>0, <2>1, <3>2 DEF Pop, MInv, TInv, TypeOK
      <4> QED
        BY <3>1, <4>1
    <3>3. CASE ~(Cardinality(Fields) > ScanChunk)
      <4>1. Cardinality(Fields) \in Nat
        BY FS_CardinalityType
      <4>2. Cardinality(Fields) <= ScanChunk
        BY <3>3, <4>1
      <4>3. Children(p, Fields) \ {p} \subseteq mstk'[cur]
        BY <1>0, <2>1, <4>2 DEF Pop, MInv, TInv, TypeOK
      <4>4. \A f \in Fields : field[p][f] \in Children(p, Fields) \cup mark \cup {Null}
        BY DEF Children
      <4> QED
        BY <3>1, <4>3, <4>4
    <3> QED
      BY <3>2, <3>3
  <2>6. cur \in marking /\ cur \notin sweeping
    BY <1>4 DEF WalkPop, MInv, ColourInv, Phases
  <2>7. scans => Region(p) = cur
    OBVIOUS
  <2>8. forced /\ p \in occ /\ Region(p) = cur => scans
    OBVIOUS
  <2>9. p \in occ /\ Region(p) = cur => p \in mark'
    BY <2>4, <2>5
  <2> HIDE DEF scans
  <2>10. MarkOwned' /\ SweepDivides' /\ MarksClean'
    BY <1>0, <2>2, <2>4, <2>5, <2>6, <2>7
    DEF MInv, ColourInv, MarkOwned, SweepDivides, MarksClean
  <2>11. BlackClosed'
    <3> SUFFICES ASSUME NEW q \in marking, NEW o \in occ \cap mark',
                        NEW f \in Fields, Region(o) = q,
                        field[o][f] \in occ, Region(field[o][f]) = q
                 PROVE  \/ field[o][f] \in mark' \cup mstk'[q]
                        \/ o \in force'[q]
                        \/ <<o, f>> \in scan'[q]
      BY <2>2 DEF BlackClosed
    <3>1. q \in Regions /\ field[o][f] # Null
      BY DEF MInv, TInv, TypeOK
    <3>2. CASE scans /\ o = p
      BY <2>5, <2>7, <3>1, <3>2
    <3>3. CASE ~(scans /\ o = p)
      <4>1. o \in mark /\ mark \subseteq mark'
        BY <2>4, <2>5, <3>3
      <4>2. \/ field[o][f] \in mark \cup mstk[q]
            \/ o \in force[q]
            \/ <<o, f>> \in scan[q]
        BY <4>1 DEF MInv, ColourInv, BlackClosed
      <4>3. CASE q # cur
        BY <2>3, <3>1, <4>1, <4>2, <4>3
      <4>4. CASE q = cur
        BY <2>2, <2>3, <2>8, <2>9, <3>3, <4>1, <4>2, <4>4
      <4> QED
        BY <4>3, <4>4
    <3> QED
      BY <3>2, <3>3
  <2> QED
    BY <1>1, <2>10, <2>11 DEF ColourInv
<1> QED
  BY <1>2, <1>3, <1>4

LEMMA FinishColour ==
  ASSUME MInv, Finish
  PROVE  ColourInv'
<1> USE DEF Region, RegionSlots, RegionWords
<1>0. cur \in alive /\ cur \in Regions
  BY DEF MInv, TInv, TypeOK, Finish
<1>1. UNCHANGED <<owner, occ, mark, field, alive, noSweep, mstk, force, scan>>
  BY DEF Finish
<1>2. CASE cur \in marking /\ MarkComplete(cur) /\ ret # "owed"
  <2>1. /\ marking' = marking \ {cur}
        /\ sweeping' = sweeping \cup {cur}
        /\ swTodo'[cur] = RegionWords(cur)
        /\ \A r \in Regions \ {cur} : /\ swTodo'[r] = swTodo[r]
                                     /\ swDone'[r] = swDone[r]
        /\ pc' = "sweep" /\ cur' = cur
    BY <1>0, <1>2 DEF Finish, Goto, MInv, TInv, TypeOK
  <2>2. Phases' /\ MarkOwned' /\ MarksClean'
    BY <1>1, <2>1 DEF MInv, ColourInv, Phases, MarkOwned, MarksClean
  <2>3. SweepDivides'
    BY <1>0, <1>1, <2>1 DEF MInv, TInv, TypeOK, ColourInv, SweepDivides
  <2>4. BlackClosed'
    BY <1>1, <2>1 DEF MInv, ColourInv, BlackClosed
  <2> QED
    BY <2>2, <2>3, <2>4 DEF ColourInv
<1>3. CASE ~(cur \in marking /\ MarkComplete(cur) /\ ret # "owed")
  <2>1. /\ UNCHANGED <<marking, sweeping, swTodo, swDone>>
        /\ pc' \in {"take", "mutator"}
    BY <1>3 DEF Finish, Goto, Caller
  <2>2. Phases'
    BY <2>1 DEF MInv, ColourInv, Phases
  <2> QED
    BY <1>1, <2>1, <2>2, ColourFrame
<1> QED
  BY <1>2, <1>3

LEMMA SweepColour ==
  ASSUME MInv, SweepStep
  PROVE  ColourInv'
<1> USE DEF Region, RegionSlots, RegionWords
<1>0. cur \in alive /\ cur \in Regions /\ cur \in sweeping /\ cur \notin marking
  BY DEF MInv, TInv, TypeOK, ColourInv, Phases, SweepStep
<1>1. PICK W \in SUBSET swTodo[cur] :
        /\ occ' = occ \ Dead(W)
        /\ field' = WipeFields(Dead(W))
        /\ mark' = MarksLeft(W)
        /\ swTodo' = [swTodo EXCEPT ![cur] = @ \ W]
        /\ IF swTodo[cur] = W
           THEN sweeping' = sweeping \ {cur} /\ swDone' = [swDone EXCEPT ![cur] = {}]
           ELSE /\ swDone' = [swDone EXCEPT ![cur] = @ \cup W]
                /\ UNCHANGED sweeping
  BY DEF SweepStep, Portions
<1>2. /\ UNCHANGED <<owner, alive, noSweep, marking, mstk, force, scan>>
      /\ pc' \in {"advance", "take", "mutator"}
  BY DEF SweepStep, Goto, Caller
<1>3. \A w \in W : w \in Words /\ owner[SlabOf[w]] = cur
  BY <1>0, <1>1 DEF MInv, ColourInv, SweepDivides, TInv, TypeOK
<1>4. \A s \in Slots : WordOf[s] \in W => Region(s) = cur
  BY <1>3
<1>5. Phases'
  BY <1>1, <1>2 DEF MInv, ColourInv, Phases
<1>6. MarkOwned'
  BY <1>1, <1>2 DEF MInv, ColourInv, MarkOwned, MarksLeft
<1>7. /\ swTodo'[cur] = swTodo[cur] \ W
      /\ swTodo[cur] # W => swDone'[cur] = swDone[cur] \cup W
      /\ \A r \in Regions \ {cur} : /\ swTodo'[r] = swTodo[r]
                                   /\ swDone'[r] = swDone[r]
  BY <1>0, <1>1 DEF MInv, TInv, TypeOK
<1>8. /\ swTodo[cur] = W => sweeping' = sweeping \ {cur}
      /\ swTodo[cur] # W => sweeping' = sweeping
  BY <1>1
<1>9. \A s \in mark' : s \in mark /\ s \in Slots /\ WordOf[s] \notin W
  BY <1>1 DEF MarksLeft, MInv, TInv, TypeOK
<1>10. SweepDivides'
  BY <1>0, <1>2, <1>7, <1>8, <1>9 DEF MInv, TInv, TypeOK, ColourInv, SweepDivides
<1>11. MarksClean'
  <2> SUFFICES ASSUME NEW q \in alive \ (marking \cup sweeping' \cup noSweep),
                      NEW s \in mark', Region(s) = q
               PROVE  FALSE
    BY <1>2 DEF MarksClean
  <2>1. CASE q \in sweeping
    <3>1. q = cur /\ swTodo[cur] = W
      BY <1>8, <2>1
    <3>2. WordOf[s] \in swTodo[cur]
      BY <1>0, <1>9, <3>1 DEF MInv, ColourInv, SweepDivides
    <3> QED
      BY <1>9, <3>1, <3>2
  <2>2. CASE q \notin sweeping
    BY <1>9, <2>2 DEF MInv, ColourInv, MarksClean
  <2> QED
    BY <2>1, <2>2
<1>12. BlackClosed'
  <2> SUFFICES ASSUME NEW q \in marking, NEW o \in occ' \cap mark',
                      NEW f \in Fields, Region(o) = q,
                      field'[o][f] \in occ', Region(field'[o][f]) = q
               PROVE  \/ field'[o][f] \in mark' \cup mstk[q]
                      \/ o \in force[q]
                      \/ <<o, f>> \in scan[q]
    BY <1>2 DEF BlackClosed
  <2>1. o \in occ /\ o \in mark /\ o \in Slots /\ field'[o][f] = field[o][f]
    BY <1>1, <1>9 DEF WipeFields
  <2>2. field[o][f] \in occ /\ field[o][f] \in Slots
    BY <1>1, <2>1 DEF MInv, TInv, TypeOK
  <2>3. WordOf[field[o][f]] \notin W
    BY <1>0, <1>4, <2>1, <2>2
  <2>4. field[o][f] \in mark => field[o][f] \in mark'
    BY <1>1, <2>3 DEF MarksLeft
  <2> QED
    BY <2>1, <2>2, <2>4 DEF MInv, ColourInv, BlackClosed
<1> QED
  BY <1>5, <1>6, <1>10, <1>11, <1>12 DEF ColourInv

\* MInv is inductive where no slab is added during a sweep.
LEMMA ColourStep ==
  ASSUME MInv, [Next]_vars, "newslab" \notin Allow
  PROVE  MInv'
<1>0. TInv /\ TInv'
  BY TypeStep DEF MInv
<1>1. CASE UNCHANGED vars
  <2>1. Phases'
    BY <1>1 DEF MInv, ColourInv, Phases, vars
  <2> QED
    BY <1>0, <1>1, <2>1, ColourFrame DEF MInv, vars
<1>2. CASE Runtime
  BY <1>0, <1>2, TakeColour, MarkColour, FinishColour, SweepColour
  DEF Runtime, MInv
<1>3. CASE Calls
  BY <1>0, <1>3, CallsColour DEF Calls, MInv
<1>4. CASE Mutator
  <2>1. Values \subseteq Ref
    BY <1>0 DEF Values, TInv, TypeOK, Ref
  <2>2. CASE Store
    BY <1>0, <2>1, <2>2, StoreColour DEF Store, MInv
  <2>3. CASE StoreHost
    <3>1. PICK h \in Hosts, v \in Values :
            \/ \E pinned \in BOOLEAN : StoreUnknown(h, v, pinned)
            \/ StoreStructUnknown(h, v)
      BY <2>3 DEF StoreHost
    <3>2. v \in Ref
      BY <2>1, <3>1
    <3>3. CASE \E pinned \in BOOLEAN : StoreUnknown(h, v, pinned)
      BY <1>0, <3>2, <3>3, HostColour DEF MInv
    <3>4. CASE StoreStructUnknown(h, v)
      <4>1. TRUE \in BOOLEAN
        OBVIOUS
      <4> QED
        BY <1>0, <3>2, <3>4, <4>1, HostColour DEF MInv
    <3> QED
      BY <3>1, <3>3, <3>4
  <2> QED
    BY <1>0, <1>4, <2>2, <2>3, RegionsColour, MoveColour, ReleaseColour
    DEF Mutator, MInv
<1> QED
  BY <1>1, <1>2, <1>3, <1>4 DEF Next

\* MInv holds in every reachable state where no slab is added during a sweep.
LEMMA ColourInvariant == "newslab" \notin Allow => (Spec => []MInv)
<1> SUFFICES ASSUME "newslab" \notin Allow PROVE Spec => []MInv
  OBVIOUS
<1>1. Init => MInv
  BY DEF Init, MInv, TInv, TypeOK, OccOwned, RoundsAlive, Ref, ColourInv,
         MarkOwned, Phases, SweepDivides, MarksClean, BlackClosed
<1>2. MInv /\ [Next]_vars => MInv'
  BY ColourStep
<1> QED
  BY <1>1, <1>2, PTL DEF Spec

\* In a program that adds no slab during a sweep the mark bitmap of a region
\* without an open round is clean, whatever stores, releases, region ends and
\* whole-value copies happen in between: the premise on which markBegin starts
\* a round without clearing it.
THEOREM CleanStart == "newslab" \notin Allow => (Spec => []MarksClean)
<1>1. MInv => MarksClean
  BY DEF MInv, ColourInv
<1> QED
  BY <1>1, ColourInvariant, PTL

\* Under the same condition the tri-colour invariant holds between any two
\* steps of an incremental mark phase, with the mutator storing, releasing,
\* dropping regions and allocating in between: no child of a black object is
\* forgotten, although the walk of a wide object stops and resumes.
THEOREM TriColour == "newslab" \notin Allow => (Spec => []BlackClosed)
<1>1. MInv => BlackClosed
  BY DEF MInv, ColourInv
<1> QED
  BY <1>1, ColourInvariant, PTL

-----------------------------------------------------------------------------
(***************************************************************************)
(* References and regions.                                                 *)
(***************************************************************************)
\* Arenas nest: no two living regions have the same depth.
DepthsApart == \A p, q \in alive : Depth[p] = Depth[q] => p = q

\* A field names a slot of a living region that outlives its holder.
DepthRule ==
  \A o \in occ, f \in Fields :
    field[o][f] # Null =>
      /\ Region(field[o][f]) \in alive
      /\ Depth[Region(field[o][f])] <= Depth[Region(o)]

\* Regions that hold objects take part, and partN tells one from several.
PartCounts ==
  /\ \A s \in occ : Region(s) \in part
  /\ pc # "mutator" /\ ret = "take" => cur \in part
  /\ pc = "take" => ret = "take"
  /\ \A p, q \in part : partN >= 1 /\ (p # q => partN >= 2)

\* The flags that let a store skip the registration are up where it must not.
CrossKnown ==
  \A o \in occ, f \in Fields :
    CrossEdge(o, f) => /\ Region(o) \in foreign
                       /\ Region(field[o][f]) \in seedAny

\* n registrations cover k edges, and are exact where no store bypasses them.
Registered(n, k) ==
  n = RsSat \/ (n >= k /\ (Allow \cap {"struct", "sameold"} = {} => n = k))

\* Registrations cover the cross-region edges; a free slot has none.
RsHeld ==
  /\ \A s \in occ : Registered(rscnt[s], Cardinality(CrossEdgesInto(s)))
  /\ \A s \in Slots \ occ : rscnt[s] = 0

(***************************************************************************)
(* Rounds.                                                                 *)
(***************************************************************************)
\* The sweep cursor is at no word it has passed.
CursorSplits == \A r \in sweeping : swTodo[r] \cap swDone[r] = {}

\* T contains what the marking of r has found or will still look at, and with
\* an object of r its children in r.
Covers(r, T) ==
  /\ \A s \in occ :
       /\ Region(s) = r
       /\ s \in mark \cup mstk[r] \/ (WordOf[s] \in seedTodo[r] /\ rscnt[s] > 0)
       => s \in T
  /\ \A o \in occ \cap T, f \in Fields :
       Region(o) = r /\ field[o][f] \in occ /\ Region(field[o][f]) = r
         => field[o][f] \in T

\* T contains the roots and the objects other regions hold that lie in r.
HoldsRoots(r, T) ==
  /\ \A s \in Roots : Region(s) = r => s \in T
  /\ \A o \in occ, f \in Fields :
       CrossEdge(o, f) /\ Region(field[o][f]) = r => field[o][f] \in T

\* What the program and the other regions hold in a marking region will be found:
\* it is in every set the marking covers.
Snapshot == \A r \in marking : \A T \in SUBSET Slots : Covers(r, T) => HoldsRoots(r, T)

(***************************************************************************)
(* S is a set of occupied slots that no sweep will free, closed under the  *)
(* fields, with the roots and everything that a cross-region edge names.   *)
(***************************************************************************)
Keeps(S) ==
  /\ S \subseteq occ
  /\ Roots \subseteq S
  /\ \A o \in S, f \in Fields : field[o][f] \in S \cup {Null}
  /\ \A o \in occ, f \in Fields : CrossEdge(o, f) => field[o][f] \in S
  /\ \A s \in S : Region(s) \in sweeping /\ WordOf[s] \in swTodo[Region(s)] => s \in mark

LiveCore == \E S \in SUBSET Slots : Keeps(S)

EdgeInv == DepthsApart /\ DepthRule /\ PartCounts /\ CrossKnown /\ RsHeld
RoundInv == CursorSplits /\ Snapshot
SafeInv == MInv /\ EdgeInv /\ RoundInv /\ PinCovers /\ LiveCore

\* What the proofs below use of SafeInv.
LEMMA Held ==
  ASSUME SafeInv
  PROVE  /\ TInv /\ MInv /\ TypeOK /\ OccOwned
         /\ \A s \in Roots : s \in occ
         /\ \A s \in Roots, f \in Fields : field[s][f] \in occ \cup {Null}
         /\ \A o \in occ, f \in Fields : CrossEdge(o, f) => field[o][f] \in occ
BY DEF SafeInv, MInv, TInv, LiveCore, Keeps

-----------------------------------------------------------------------------
(***************************************************************************)
(* Edges.                                                                  *)
(***************************************************************************)
LEMMA EdgesFinite ==
  ASSUME TypeOK, NEW s
  PROVE  IsFiniteSet(CrossEdgesInto(s)) /\ Cardinality(CrossEdgesInto(s)) \in Nat
<1>1. IsFiniteSet(Slots \X Fields)
  BY FS_Product
<1>2. CrossEdgesInto(s) \in SUBSET (Slots \X Fields)
  BY DEF CrossEdgesInto, TypeOK
<1> QED
  BY <1>1, <1>2, FS_Subset, FS_CardinalityType

\* A step that touches no object, no field and no slab keeps what is said of
\* edges.
LEMMA EdgeFrame ==
  ASSUME SafeInv, UNCHANGED <<owner, occ, field, rscnt>>,
         foreign \subseteq foreign', seedAny \subseteq seedAny',
         alive \subseteq alive'
  PROVE  DepthRule' /\ CrossKnown' /\ RsHeld'
<1> USE DEF Region, CrossEdge
<1>1. DepthRule'
  BY DEF SafeInv, EdgeInv, DepthRule
<1>2. CrossKnown'
  BY DEF SafeInv, EdgeInv, CrossKnown
<1>3. ASSUME NEW s PROVE CrossEdgesInto(s)' = CrossEdgesInto(s)
  BY DEF CrossEdgesInto
<1>4. RsHeld'
  BY <1>3 DEF SafeInv, EdgeInv, RsHeld
<1> QED
  BY <1>1, <1>2, <1>4

\* K holds the slots whose slab stays where it is, with all that is said of
\* its region.
Stays(K) ==
  \A x \in K :
    /\ x \in Slots
    /\ owner'[SlabOf[WordOf[x]]] = Region(x)
    /\ Region(x) \in alive => Region(x) \in alive'
    /\ Region(x) \in foreign => Region(x) \in foreign'
    /\ Region(x) \in seedAny => Region(x) \in seedAny'

\* The objects in D die: the edges they held are unregistered.
LEMMA DeathEdges ==
  ASSUME SafeInv, NEW D \in SUBSET occ, NEW K, Stays(K),
         occ' = occ \ D, rscnt' = UnlinkChildren(D), field' = WipeFields(D),
         occ \ D \subseteq K,
         \A o \in occ \ D, f \in Fields : field[o][f] \in K \cup {Null}
  PROVE  DepthRule' /\ CrossKnown' /\ RsHeld'
<1>0. TypeOK /\ D \in SUBSET Slots /\ occ \subseteq Slots
  BY Held DEF TypeOK
<1>1. ASSUME NEW o \in occ \ D, NEW f \in Fields
      PROVE  /\ field'[o][f] = field[o][f]
             /\ CrossEdge(o, f)' <=> CrossEdge(o, f)
  <2>1. field'[o] = field[o]
    BY <1>0 DEF WipeFields
  <2> QED
    BY <2>1, <1>0 DEF CrossEdge, Region, Stays
<1>2. DepthRule'
  <2> SUFFICES ASSUME NEW o \in occ \ D, NEW f \in Fields, field[o][f] # Null
               PROVE  (/\ Region(field[o][f]) \in alive
                       /\ Depth[Region(field[o][f])] <= Depth[Region(o)])'
    BY <1>1 DEF DepthRule
  <2>1. /\ Region(field[o][f]) \in alive
        /\ Depth[Region(field[o][f])] <= Depth[Region(o)]
    BY DEF SafeInv, EdgeInv, DepthRule
  <2>2. Region(field[o][f])' = Region(field[o][f]) /\ Region(o)' = Region(o)
    BY <1>1 DEF Region, Stays
  <2> QED
    BY <2>1, <2>2 DEF Stays
<1>3. CrossKnown'
  <2> SUFFICES ASSUME NEW o \in occ \ D, NEW f \in Fields, CrossEdge(o, f)'
               PROVE  (Region(o) \in foreign /\ Region(field[o][f]) \in seedAny)'
    BY DEF CrossKnown
  <2>1. Region(o) \in foreign /\ Region(field[o][f]) \in seedAny /\ field[o][f] # Null
    BY <1>1 DEF SafeInv, EdgeInv, CrossKnown, CrossEdge
  <2> QED
    BY <1>1, <2>1 DEF Region, Stays
<1>4. RsHeld'
  <2>1. ASSUME NEW s \in occ \ D
        PROVE  Registered(rscnt'[s], Cardinality(CrossEdgesInto(s)'))
    <3> DEFINE A == CrossEdgesInto(s)
               E == {e \in D \X Fields : field[e[1]][e[2]] = s /\ CrossEdge(e[1], e[2])}
    <3>1. CrossEdgesInto(s)' = A \ E
      BY <1>1 DEF CrossEdgesInto
    <3>2. A \cap E = E
      BY DEF CrossEdgesInto
    <3>3. /\ IsFiniteSet(A) /\ IsFiniteSet(A \ E) /\ IsFiniteSet(E)
          /\ Cardinality(A \ E) = Cardinality(A) - Cardinality(E)
      <4>1. IsFiniteSet(A)
        BY <1>0, EdgesFinite
      <4> HIDE DEF A, E
      <4>2. IsFiniteSet(A \cap E)
        BY <4>1, FS_Intersection
      <4> QED
        BY <3>2, <4>1, <4>2, FS_Difference
    <3>4. /\ Cardinality(A) \in Nat /\ Cardinality(A \ E) \in Nat /\ Cardinality(E) \in Nat
      BY <3>3, FS_CardinalityType
    <3>5. rscnt'[s] = RsDecBy(rscnt[s], Cardinality(E)) /\ rscnt[s] \in 0..RsSat
      BY <1>0 DEF UnlinkChildren, TypeOK
    <3>6. Registered(rscnt[s], Cardinality(A))
      BY DEF SafeInv, EdgeInv, RsHeld
    <3> HIDE DEF A, E
    <3> QED
      BY <3>1, <3>3, <3>4, <3>5, <3>6 DEF Registered, RsDecBy
  <2>2. ASSUME NEW s \in Slots, s \notin occ \ D PROVE rscnt'[s] = 0
    BY <1>0, <2>2 DEF UnlinkChildren, SafeInv, EdgeInv, RsHeld
  <2> QED
    BY <2>1, <2>2 DEF RsHeld
<1> QED
  BY <1>2, <1>3, <1>4

\* What a birth does: a slot that was free becomes an object of cur without
\* references, held by a frame slot; an added slab belonged to no region.
BirthEffect(s, l) ==
  /\ s \in Slots \ occ /\ l \in Locals /\ cur \in alive
  /\ TakeSlot(s, l) /\ pc = "take"
  /\ owner'[SlabOf[WordOf[s]]] = cur
  /\ \A x \in Slots :
       \/ owner'[SlabOf[WordOf[x]]] = Region(x)
       \/ /\ Region(x) = NoRegion /\ cur \notin sweeping
          /\ owner'[SlabOf[WordOf[x]]] = cur

LEMMA BirthFacts ==
  ASSUME SafeInv, Take \/ TakeNewSlab, "newslab" \notin Allow
  PROVE  \E s, l : BirthEffect(s, l)
<1>1. TypeOK /\ OccOwned /\ NoRegion \notin alive
  BY Held DEF TypeOK
<1>2. pc = "take" /\ cur \in alive /\ cur \in Regions
  BY <1>1 DEF Take, TakeNewSlab, TypeOK
<1>3. CASE Take
  <2>1. PICK s \in FreeSlots(cur), l \in Locals : TakeSlot(s, l)
    BY <1>3 DEF Take
  <2>2. UNCHANGED owner
    BY <1>3 DEF Take
  <2> QED
    BY <1>1, <1>2, <2>1, <2>2 DEF BirthEffect, FreeSlots, RegionSlots, Region
<1>4. CASE TakeNewSlab
  <2>1. PICK b \in SpareSlabs :
          /\ owner' = [owner EXCEPT ![b] = cur]
          /\ \E s \in {x \in Slots : SlabOf[WordOf[x]] = b}, l \in Locals :
               TakeSlot(s, l)
    BY <1>4 DEF TakeNewSlab
  <2>2. PICK s \in Slots, l \in Locals : SlabOf[WordOf[s]] = b /\ TakeSlot(s, l)
    BY <2>1
  <2>3. cur \notin sweeping /\ b \in Slabs /\ owner[b] = NoRegion
    BY <1>4 DEF TakeNewSlab, SpareSlabs
  <2>4. s \notin occ
    BY <1>1, <2>2, <2>3 DEF OccOwned, Region
  <2>5. \A x \in Slots :
          \/ owner'[SlabOf[WordOf[x]]] = Region(x)
          \/ Region(x) = NoRegion /\ owner'[SlabOf[WordOf[x]]] = cur
    BY <1>1, <2>1, <2>3 DEF Region, TypeOK
  <2>6. owner'[SlabOf[WordOf[s]]] = cur
    BY <1>1, <2>1, <2>2, <2>3 DEF TypeOK
  <2> QED
    BY <1>2, <2>2, <2>3, <2>4, <2>5, <2>6 DEF BirthEffect
<1> QED
  BY <1>3, <1>4

\* An object is born: it neither holds nor is held by another region.
LEMMA BirthEdges ==
  ASSUME SafeInv, NEW s, NEW l, BirthEffect(s, l)
  PROVE  DepthRule' /\ CrossKnown' /\ RsHeld'
<1>0. TypeOK /\ OccOwned /\ NoRegion \notin alive /\ occ \subseteq Slots
  BY Held DEF TypeOK
<1>1. /\ occ' = occ \cup {s} /\ s \in Slots \ occ
      /\ field' = [field EXCEPT ![s] = [f \in Fields |-> Null]]
      /\ UNCHANGED <<rscnt, alive, foreign, seedAny>>
  BY DEF BirthEffect, TakeSlot, partVars
<1>2. \A x \in Slots : Region(x) \in alive => owner'[SlabOf[WordOf[x]]] = Region(x)
  BY <1>0 DEF BirthEffect
<1>3. \A f \in Fields : field'[s][f] = Null
  BY <1>0, <1>1 DEF TypeOK
<1>4. ASSUME NEW o \in occ, NEW f \in Fields
      PROVE  /\ field'[o][f] = field[o][f]
             /\ field[o][f] # Null =>
                  /\ field[o][f] \in Slots
                  /\ Region(field[o][f]) \in alive
                  /\ Depth[Region(field[o][f])] <= Depth[Region(o)]
                  /\ Region(field[o][f])' = Region(field[o][f])
             /\ Region(o)' = Region(o)
             /\ CrossEdge(o, f)' <=> CrossEdge(o, f)
  <2>1. field'[o] = field[o] /\ field[o][f] \in Ref
    BY <1>0, <1>1 DEF TypeOK
  <2>2. Region(o)' = Region(o)
    BY <1>0, <1>2 DEF OccOwned, Region
  <2>3. CASE field[o][f] = Null
    BY <2>1, <2>2, <2>3 DEF CrossEdge
  <2>4. CASE field[o][f] # Null
    <3>1. /\ Region(field[o][f]) \in alive
          /\ Depth[Region(field[o][f])] <= Depth[Region(o)]
      BY <2>4 DEF SafeInv, EdgeInv, DepthRule
    <3>2. Region(field[o][f])' = Region(field[o][f]) /\ field[o][f] \in Slots
      BY <1>2, <2>1, <2>4, <3>1 DEF Region, Ref
    <3> QED
      BY <2>1, <2>2, <3>1, <3>2 DEF CrossEdge
  <2> QED
    BY <2>3, <2>4
<1>5. DepthRule'
  BY <1>1, <1>3, <1>4 DEF DepthRule
<1>6. CrossKnown'
  <2> SUFFICES ASSUME NEW o \in occ', NEW f \in Fields, CrossEdge(o, f)'
               PROVE  (Region(o) \in foreign /\ Region(field[o][f]) \in seedAny)'
    BY DEF CrossKnown
  <2>1. o \in occ /\ field[o][f] # Null
    BY <1>1, <1>3, <1>4 DEF CrossEdge
  <2>2. Region(o) \in foreign /\ Region(field[o][f]) \in seedAny
    BY <1>4, <2>1 DEF SafeInv, EdgeInv, CrossKnown
  <2> QED
    BY <1>1, <1>4, <2>1, <2>2
<1>7. ASSUME NEW x PROVE CrossEdgesInto(x)' = CrossEdgesInto(x)
  <2>1. \A f \in Fields : ~CrossEdge(s, f)'
    BY <1>3 DEF CrossEdge
  <2> QED
    BY <1>1, <1>4, <2>1 DEF CrossEdgesInto
<1>8. CrossEdgesInto(s) = {}
  BY <1>1, Held DEF CrossEdgesInto
<1>9. RsHeld'
  <2>1. rscnt[s] = 0 /\ Cardinality(CrossEdgesInto(s)) = 0
    BY <1>1, <1>8, FS_EmptySet DEF SafeInv, EdgeInv, RsHeld
  <2>2. Registered(rscnt[s], Cardinality(CrossEdgesInto(s)))
    BY <2>1 DEF Registered
  <2>3. \A x \in occ : Registered(rscnt[x], Cardinality(CrossEdgesInto(x)))
    BY DEF SafeInv, EdgeInv, RsHeld
  <2>4. \A x \in occ' : Registered(rscnt'[x], Cardinality(CrossEdgesInto(x)'))
    BY <1>1, <1>7, <2>2, <2>3
  <2>5. \A x \in Slots \ occ' : rscnt'[x] = 0
    BY <1>1 DEF SafeInv, EdgeInv, RsHeld
  <2> QED
    BY <2>4, <2>5 DEF RsHeld
<1> QED
  BY <1>5, <1>6, <1>9

\* A store o.f = v of a reference in the program's hands.
StoreEffect(o, f, v) ==
  /\ o \in occ /\ f \in Fields
  /\ v # Null => v \in occ /\ Depth[Region(v)] <= Depth[Region(o)]
  /\ v # field[o][f]
  /\ field' = [field EXCEPT ![o][f] = v]
  /\ UNCHANGED <<owner, occ, alive>>

\* The edges into s after a store: one more for the new value, one less for
\* the old one, where those lie in another region than the holder.
LEMMA EdgeCount ==
  ASSUME SafeInv, NEW o, NEW f, NEW v, StoreEffect(o, f, v), NEW s \in Slots
  PROVE  LET c == Cardinality(CrossEdgesInto(s))
             d == Cardinality(CrossEdgesInto(s)')
         IN /\ c \in Nat /\ d \in Nat
            /\ s = v => d = IF Region(v) # Region(o) THEN c + 1 ELSE c
            /\ s = field[o][f] => d = IF CrossEdge(o, f) THEN c - 1 ELSE c
            /\ s # v /\ s # field[o][f] => d = c
<1>0. TypeOK /\ OccOwned /\ occ \subseteq Slots /\ NoRegion \notin alive
  BY Held DEF TypeOK
<1> DEFINE A == CrossEdgesInto(s)
           B == CrossEdgesInto(s)'
<1>1. /\ field'[o][f] = v
      /\ \A x \in Slots, g \in Fields : <<x, g>> # <<o, f>> => field'[x][g] = field[x][g]
  BY <1>0 DEF StoreEffect, TypeOK
<1>2. \A x \in occ, g \in Fields : <<x, g>> # <<o, f>> => (CrossEdge(x, g)' <=> CrossEdge(x, g))
  BY <1>0, <1>1 DEF CrossEdge, Region, StoreEffect
<1>3. CrossEdge(o, f)' <=> v # Null /\ Region(v) # Region(o)
  BY <1>0, <1>1 DEF CrossEdge, Region, StoreEffect, OccOwned
<1>4. IsFiniteSet(A) /\ Cardinality(A) \in Nat
  BY <1>0, EdgesFinite
<1>5. \A e : e # <<o, f>> => (e \in B <=> e \in A)
  <2> SUFFICES ASSUME NEW x \in occ, NEW g \in Fields, <<x, g>> # <<o, f>>
               PROVE  <<x, g>> \in B <=> <<x, g>> \in A
    BY DEF CrossEdgesInto, StoreEffect
  <2> QED
    BY <1>0, <1>1, <1>2 DEF CrossEdgesInto, StoreEffect
<1>6. <<o, f>> \in A <=> CrossEdge(o, f) /\ field[o][f] = s
  BY DEF CrossEdgesInto, StoreEffect
<1>7. <<o, f>> \in B <=> s = v /\ Region(v) # Region(o)
  BY <1>0, <1>1, <1>3 DEF CrossEdgesInto, StoreEffect
<1>8. v # field[o][f]
  BY DEF StoreEffect
<1>9. B = IF <<o, f>> \in B THEN A \cup {<<o, f>>} ELSE A \ {<<o, f>>}
  BY <1>5
<1> HIDE DEF A, B
<1>10. /\ <<o, f>> \in B => Cardinality(B) = IF <<o, f>> \in A THEN Cardinality(A)
                                                             ELSE Cardinality(A) + 1
       /\ <<o, f>> \notin B => Cardinality(B) = IF <<o, f>> \in A THEN Cardinality(A) - 1
                                                                 ELSE Cardinality(A)
       /\ IsFiniteSet(B)
  <2> DEFINE e == <<o, f>>
  <2> HIDE DEF e
  <2>0. B = IF e \in B THEN A \cup {e} ELSE A \ {e}
    BY <1>9 DEF e
  <2>1. CASE e \in B
    <3>1. B = A \cup {e}
      BY <2>0, <2>1
    <3>2. IsFiniteSet(B) /\ Cardinality(B) = IF e \in A THEN Cardinality(A) ELSE Cardinality(A) + 1
      BY <1>4, <3>1, FS_AddElement
    <3> QED
      BY <2>1, <3>2 DEF e
  <2>2. CASE e \notin B
    <3>1. B = A \ {e}
      BY <2>0, <2>2
    <3>2. IsFiniteSet(B) /\ Cardinality(B) = IF e \in A THEN Cardinality(A) - 1 ELSE Cardinality(A)
      BY <1>4, <3>1, FS_RemoveElement
    <3> QED
      BY <2>2, <3>2 DEF e
  <2> QED
    BY <2>1, <2>2
<1>11. Cardinality(B) \in Nat
  BY <1>10, FS_CardinalityType
<1>12. /\ Cardinality(A) \in Nat /\ Cardinality(B) \in Nat
       /\ s = v => Cardinality(B) = IF Region(v) # Region(o) THEN Cardinality(A) + 1
                                                           ELSE Cardinality(A)
       /\ s = field[o][f] => Cardinality(B) = IF CrossEdge(o, f) THEN Cardinality(A) - 1
                                                                 ELSE Cardinality(A)
       /\ s # v /\ s # field[o][f] => Cardinality(B) = Cardinality(A)
  BY <1>4, <1>6, <1>7, <1>8, <1>10, <1>11
<1> QED
  BY <1>12 DEF A, B

AnyStore(o, f, v) ==
  StoreOwned(o, f, v) \/ StoreSameRegion(o, f, v) \/ StoreStruct(o, f, v)

\* A value the program can store is null or an object.
LEMMA ValuesHeld ==
  ASSUME SafeInv
  PROVE  \A v \in Values : v # Null => v \in occ /\ v \in Roots
BY Held DEF Values, Roots

LEMMA StoreFacts ==
  ASSUME SafeInv, NEW o \in occ, NEW f \in Fields, NEW v \in Values, AnyStore(o, f, v)
  PROVE  StoreEffect(o, f, v)
<1>0. TypeOK /\ OccOwned /\ occ \subseteq Slots /\ alive \subseteq Regions
  BY Held DEF TypeOK
<1>1. v # Null => v \in occ
  BY ValuesHeld
<1>2. \A x \in occ : Depth[Region(x)] \in Nat
  BY <1>0 DEF OccOwned
<1>3. CASE StoreOwned(o, f, v)
  BY <1>1, <1>3 DEF StoreOwned, StoreEffect, MayHold
<1>4. CASE StoreSameRegion(o, f, v)
  BY <1>1, <1>2, <1>4 DEF StoreSameRegion, StoreEffect, partVars
<1>5. CASE StoreStruct(o, f, v)
  BY <1>1, <1>5 DEF StoreStruct, StoreEffect, MayHold
<1> QED
  BY <1>3, <1>4, <1>5 DEF AnyStore

\* A store registers its new cross-region edge and unregisters the old one,
\* unless it is one of the stores that bypass the registration.
LEMMA StoreEdges ==
  ASSUME SafeInv, NEW o \in occ, NEW f \in Fields, NEW v \in Values, AnyStore(o, f, v)
  PROVE  DepthRule' /\ CrossKnown' /\ RsHeld'
<1> DEFINE old == field[o][f]
           isX == v # Null /\ Region(v) # Region(o)
<1>0. /\ TypeOK /\ OccOwned /\ occ \subseteq Slots /\ NoRegion \notin alive
      /\ alive \subseteq Regions /\ StoreEffect(o, f, v)
  BY Held, StoreFacts DEF TypeOK
<1>1. v # Null => v \in occ /\ Region(v) \in alive /\ v \in Slots
  BY <1>0, ValuesHeld DEF OccOwned
<1>2. /\ field'[o][f] = v
      /\ \A x \in Slots, g \in Fields : <<x, g>> # <<o, f>> => field'[x][g] = field[x][g]
      /\ UNCHANGED <<owner, occ, alive>>
      /\ v # old
  BY <1>0 DEF StoreEffect, TypeOK
<1>3. DepthRule'
  <2> SUFFICES ASSUME NEW x \in occ, NEW g \in Fields, field'[x][g] # Null
               PROVE  (/\ Region(field[x][g]) \in alive
                       /\ Depth[Region(field[x][g])] <= Depth[Region(x)])'
    BY <1>2 DEF DepthRule
  <2>1. CASE <<x, g>> = <<o, f>>
    BY <1>0, <1>1, <1>2, <2>1 DEF StoreEffect, Region
  <2>2. CASE <<x, g>> # <<o, f>>
    BY <1>0, <1>2, <2>2 DEF SafeInv, EdgeInv, DepthRule, Region
  <2> QED
    BY <2>1, <2>2
\* The flags that let a store skip its lookups.
<1>4. isX => partN > 1
  BY <1>0, <1>1 DEF SafeInv, EdgeInv, PartCounts, TypeOK
<1>5. CrossEdge(o, f) => /\ partN > 1 /\ Region(o) \in foreign
                         /\ old \in occ /\ Region(old) # Region(o)
  <2> SUFFICES ASSUME CrossEdge(o, f)
               PROVE  /\ partN > 1 /\ Region(o) \in foreign
                      /\ old \in occ /\ Region(old) # Region(o)
    OBVIOUS
  <2>1. old \in occ /\ Region(o) \in foreign /\ Region(old) # Region(o)
    BY Held DEF SafeInv, EdgeInv, CrossKnown, CrossEdge
  <2> QED
    BY <1>0, <2>1 DEF SafeInv, EdgeInv, PartCounts, TypeOK
<1>6. old \in occ /\ Region(old) # Region(o) => CrossEdge(o, f)
  BY <1>0 DEF CrossEdge, OccOwned
<1>7. /\ foreign \subseteq foreign' /\ seedAny \subseteq seedAny'
      /\ isX => Region(o) \in foreign' /\ Region(v) \in seedAny'
  <2>1. CASE StoreOwned(o, f, v)
    BY <1>1, <1>4, <2>1 DEF StoreOwned
  <2>2. CASE StoreSameRegion(o, f, v)
    BY <2>2 DEF StoreSameRegion, partVars
  <2>3. CASE StoreStruct(o, f, v)
    BY <1>1, <2>3 DEF StoreStruct
  <2> QED
    BY <2>1, <2>2, <2>3 DEF AnyStore
<1>8. CrossKnown'
  <2> SUFFICES ASSUME NEW x \in occ, NEW g \in Fields, CrossEdge(x, g)'
               PROVE  (Region(x) \in foreign /\ Region(field[x][g]) \in seedAny)'
    BY <1>2 DEF CrossKnown
  <2>1. CASE <<x, g>> = <<o, f>>
    BY <1>0, <1>2, <1>7, <2>1 DEF CrossEdge, Region
  <2>2. CASE <<x, g>> # <<o, f>>
    <3>1. field'[x][g] = field[x][g] /\ CrossEdge(x, g)
      BY <1>0, <1>2, <2>2 DEF CrossEdge, Region
    <3>2. Region(x) \in foreign /\ Region(field[x][g]) \in seedAny
      BY <3>1 DEF SafeInv, EdgeInv, CrossKnown
    <3> QED
      BY <1>2, <1>7, <3>1, <3>2 DEF Region
  <2> QED
    BY <2>1, <2>2
\* What happens to the count of a slot.
<1>9. ASSUME NEW s \in Slots
      PROVE  /\ s = v /\ isX => rscnt'[s] = RsInc(rscnt[s])
             /\ s = old /\ CrossEdge(o, f) =>
                  rscnt'[s] = IF StoreOwned(o, f, v) THEN RsDecBy(rscnt[s], 1) ELSE rscnt[s]
             /\ ~(s = v /\ isX) /\ ~(s = old /\ CrossEdge(o, f)) => rscnt'[s] = rscnt[s]
  <2>1. CASE StoreOwned(o, f, v)
    BY <1>1, <1>2, <1>4, <1>5, <1>6, <2>1 DEF StoreOwned
  <2>2. CASE ~StoreOwned(o, f, v) /\ StoreSameRegion(o, f, v)
    BY <1>1, <1>2, <2>2 DEF StoreSameRegion
  <2>3. CASE ~StoreOwned(o, f, v) /\ StoreStruct(o, f, v)
    BY <1>1, <1>2, <2>3 DEF StoreStruct
  <2> QED
    BY <2>1, <2>2, <2>3 DEF AnyStore
<1>10. CrossEdge(o, f) /\ ~StoreOwned(o, f, v) => Allow \cap {"struct", "sameold"} # {}
  BY DEF AnyStore, StoreSameRegion, StoreStruct
<1>11. RsHeld'
  <2>1. ASSUME NEW s \in occ
        PROVE  Registered(rscnt'[s], Cardinality(CrossEdgesInto(s)'))
    <3> DEFINE c == Cardinality(CrossEdgesInto(s))
               d == Cardinality(CrossEdgesInto(s)')
    <3>1. Registered(rscnt[s], c) /\ rscnt[s] \in 0..RsSat /\ s \in Slots /\ s # Null
      BY <1>0 DEF SafeInv, EdgeInv, RsHeld, TypeOK
    <3>0. RsSat \in Nat
      OBVIOUS
    <3>2. /\ c \in Nat /\ d \in Nat
          /\ s = v => d = IF Region(v) # Region(o) THEN c + 1 ELSE c
          /\ s = old => d = IF CrossEdge(o, f) THEN c - 1 ELSE c
          /\ s # v /\ s # old => d = c
      BY <1>0, <3>1, EdgeCount
    <3> DEFINE exact == Allow \cap {"struct", "sameold"} = {}
               bare == StoreOwned(o, f, v)
    <3> HIDE DEF c, d, exact, bare
    <3>3. CASE s = v /\ isX
      <4>1. rscnt'[s] = RsInc(rscnt[s]) /\ d = c + 1
        BY <1>9, <3>1, <3>2, <3>3
      <4> QED
        BY <3>1, <3>2, <4>1 DEF Registered, RsInc, d
    <3>4. CASE s = old /\ CrossEdge(o, f)
      <4>1. d = c - 1 /\ rscnt'[s] = IF bare THEN RsDecBy(rscnt[s], 1) ELSE rscnt[s]
        BY <1>9, <3>1, <3>2, <3>4 DEF bare
      <4>2. ~bare => ~exact
        BY <1>10, <3>4 DEF bare, exact
      <4> QED
        BY <3>1, <3>2, <4>1, <4>2 DEF Registered, RsDecBy, exact, d
    <3>5. CASE ~(s = v /\ isX) /\ ~(s = old /\ CrossEdge(o, f))
      <4>1. rscnt'[s] = rscnt[s] /\ d = c
        BY <1>2, <1>9, <3>1, <3>2, <3>5
      <4> QED
        BY <3>1, <3>2, <4>1 DEF Registered, d
    <3> QED
      BY <3>3, <3>4, <3>5 DEF d
  <2>2. ASSUME NEW s \in Slots \ occ PROVE rscnt'[s] = 0
    <3>1. rscnt[s] = 0 /\ ~(s = v /\ isX) /\ ~(s = old /\ CrossEdge(o, f))
      BY <1>1, <1>5 DEF SafeInv, EdgeInv, RsHeld
    <3> QED
      BY <1>9, <3>1
  <2> QED
    BY <1>2, <2>1, <2>2 DEF RsHeld
<1> QED
  BY <1>3, <1>8, <1>11

\* No object outside the deepest living region refers into it.
LEMMA DeepestUnheld ==
  ASSUME SafeInv, NEW r \in alive, \A q \in alive : Depth[q] <= Depth[r],
         NEW o \in occ, NEW f \in Fields, field[o][f] # Null, Region(field[o][f]) = r
  PROVE  Region(o) = r
<1>1. /\ Region(o) \in alive /\ Depth[r] <= Depth[Region(o)]
      /\ alive \subseteq Regions
  BY Held DEF SafeInv, EdgeInv, DepthRule, OccOwned, TypeOK
<1>2. Depth[r] = Depth[Region(o)]
  <2>1. Depth[r] \in Nat /\ Depth[Region(o)] \in Nat
    BY <1>1
  <2> QED
    BY <1>1, <2>1
<1> QED
  BY <1>1, <1>2 DEF SafeInv, EdgeInv, DepthsApart

LEMMA RegionFreeEdges ==
  ASSUME SafeInv, NEW r \in Regions, RegionFree(r)
  PROVE  DepthRule' /\ CrossKnown' /\ RsHeld'
<1> DEFINE D == RegionSlots(r) \cap occ
           K == {x \in Slots : Region(x) \in alive \ {r}}
<1>0. /\ TypeOK /\ OccOwned /\ occ \subseteq Slots /\ D \in SUBSET occ
      /\ alive \subseteq Regions
  BY Held DEF TypeOK
<1>1. /\ r \in alive /\ \A q \in alive : Depth[q] <= Depth[r]
      /\ alive' = alive \ {r} /\ foreign' = foreign \ {r} /\ seedAny' = seedAny \ {r}
      /\ owner' = [b \in Slabs |-> IF owner[b] = r THEN NoRegion ELSE owner[b]]
      /\ occ' = occ \ RegionSlots(r)
      /\ rscnt' = UnlinkChildren(D) /\ field' = WipeFields(D)
  BY DEF RegionFree
<1>2. occ' = occ \ D
  BY <1>1
<1>3. Stays(K)
  BY <1>0, <1>1 DEF Stays, Region, TypeOK
<1>4. occ \ D \subseteq K
  BY <1>0 DEF OccOwned, RegionSlots
<1>5. \A o \in occ \ D, f \in Fields : field[o][f] \in K \cup {Null}
  <2> SUFFICES ASSUME NEW o \in occ \ D, NEW f \in Fields, field[o][f] # Null
               PROVE  field[o][f] \in K
    OBVIOUS
  <2>1. field[o][f] \in Slots /\ Region(field[o][f]) \in alive
    BY <1>0 DEF TypeOK, Ref, SafeInv, EdgeInv, DepthRule
  <2>2. Region(o) # r
    BY <1>0 DEF RegionSlots
  <2>3. Region(field[o][f]) # r
    BY <1>1, <2>2, DeepestUnheld
  <2> QED
    BY <2>1, <2>3
<1> HIDE DEF D, K
<1> QED
  BY <1>0, <1>1, <1>2, <1>3, <1>4, <1>5, DeathEdges

\* Objects die while every slab and every region stays.
LEMMA LocalDeathEdges ==
  ASSUME SafeInv, NEW D \in SUBSET occ,
         occ' = occ \ D, rscnt' = UnlinkChildren(D), field' = WipeFields(D),
         UNCHANGED <<owner, alive, foreign, seedAny>>
  PROVE  DepthRule' /\ CrossKnown' /\ RsHeld'
<1>0. TypeOK /\ occ \subseteq Slots
  BY Held DEF TypeOK
<1>1. Stays(Slots)
  BY DEF Stays, Region
<1>2. occ \ D \subseteq Slots /\ \A o \in occ \ D, f \in Fields : field[o][f] \in Slots \cup {Null}
  BY <1>0 DEF TypeOK, Ref
<1> QED
  BY <1>1, <1>2, DeathEdges

LEMMA SweepEdges ==
  ASSUME SafeInv, SweepStep
  PROVE  DepthRule' /\ CrossKnown' /\ RsHeld'
<1>1. PICK W :
        /\ occ' = occ \ Dead(W)
        /\ rscnt' = UnlinkChildren(Dead(W))
        /\ field' = WipeFields(Dead(W))
  BY DEF SweepStep
<1>2. Dead(W) \in SUBSET occ
  BY DEF Dead
<1>3. UNCHANGED <<owner, alive, foreign, seedAny>>
  BY DEF SweepStep, partVars
<1> QED
  BY <1>1, <1>2, <1>3, LocalDeathEdges

LEMMA ReleaseEdges ==
  ASSUME SafeInv, NEW l \in Locals, NEW k \in Locals, Release(l, k)
  PROVE  DepthRule' /\ CrossKnown' /\ RsHeld'
<1>1. PICK home \in Regions, dead \in SUBSET occ, grey \in SUBSET Slots :
        ReleaseEffect(l, k, home, dead, grey)
  BY Held, ReleaseFacts
<1> QED
  BY <1>1, LocalDeathEdges DEF ReleaseEffect, partVars

-----------------------------------------------------------------------------
(***************************************************************************)
(* Regions that take part.                                                 *)
(***************************************************************************)
\* The parts of a step that PartCounts looks at.
LEMMA PartFrame ==
  ASSUME SafeInv, occ' \subseteq occ,
         \A s \in occ' : Region(s)' = Region(s),
         UNCHANGED <<part, partN>>,
         pc' # "mutator" /\ ret' = "take" => pc # "mutator" /\ ret = "take" /\ cur' = cur,
         pc' = "take" => ret' = "take"
  PROVE  PartCounts'
BY DEF SafeInv, EdgeInv, PartCounts

LEMMA PartBirth ==
  ASSUME SafeInv, NEW s, NEW l, BirthEffect(s, l)
  PROVE  PartCounts'
<1>1. /\ occ' = occ \cup {s} /\ UNCHANGED <<part, partN>> /\ pc' = "mutator"
      /\ cur \in part /\ Region(s)' = cur
  BY DEF BirthEffect, TakeSlot, partVars, Goto, SafeInv, EdgeInv, PartCounts, Region
<1>2. \A x \in occ : Region(x)' = Region(x)
  <2>1. \A x \in occ : x \in Slots /\ Region(x) # NoRegion
    BY Held DEF TypeOK, OccOwned
  <2> QED
    BY <2>1 DEF BirthEffect, Region
<1> QED
  BY <1>1, <1>2 DEF SafeInv, EdgeInv, PartCounts

\* The region of an allocation takes part from its first call on.
LEMMA PartEnter ==
  ASSUME SafeInv, NEW r \in Regions, AllocEnter(r)
  PROVE  PartCounts'
<1>1. /\ part' = part \cup {r}
      /\ partN' = IF r \in part \/ partN = 2 THEN partN ELSE partN + 1
      /\ cur' = r /\ UNCHANGED <<owner, occ>> /\ pc' # "take"
  BY DEF AllocEnter, heapVars
<1>2. partN \in 0..2
  BY Held DEF TypeOK
<1> QED
  BY <1>1, <1>2 DEF SafeInv, EdgeInv, PartCounts, Region

LEMMA PartRegionFree ==
  ASSUME SafeInv, NEW r \in Regions, RegionFree(r)
  PROVE  PartCounts'
<1>1. /\ part' = part \ {r} /\ occ' = occ \ RegionSlots(r) /\ pc = "mutator"
      /\ UNCHANGED <<partN, pc>>
      /\ owner' = [b \in Slabs |-> IF owner[b] = r THEN NoRegion ELSE owner[b]]
  BY DEF RegionFree, callVars
<1>2. \A s \in occ' : Region(s)' = Region(s) /\ Region(s) # r
  <2>1. occ \subseteq Slots
    BY Held DEF TypeOK
  <2> QED
    BY <1>1, <2>1 DEF Region, RegionSlots
<1> QED
  BY <1>1, <1>2 DEF SafeInv, EdgeInv, PartCounts

\* Steps that neither create nor free objects, nor change a field.
Still ==
  \/ MoveLocal \/ StoreHost
  \/ \E r \in Regions : ResumeRound(r) \/ CheckOwed(r) \/ BeginRound(r)
  \/ Advance \/ TakeNothing
  \/ MarkResume \/ SeedStep \/ WalkPop \/ WalkEnd
  \/ Finish \/ SweepWait

LEMMA StillFacts ==
  ASSUME TypeOK, Still
  PROVE  /\ UNCHANGED <<owner, occ, field, rscnt, alive, foreign, seedAny, part, partN>>
         /\ pc' # "mutator" /\ ret' = "take" => pc # "mutator" /\ ret = "take" /\ cur' = cur
         /\ (pc = "take" => ret = "take") => (pc' = "take" => ret' = "take")
<1>1. CASE MoveLocal
  BY <1>1 DEF MoveLocal, LoadField, LoadHost, DropLocal, CopyLocal, SetLocal, StoreLocal,
              heapVars, partVars, callVars
<1>2. CASE StoreHost
  BY <1>2 DEF StoreHost, StoreUnknown, StoreStructUnknown, heapVars, partVars, callVars
<1>3. CASE \E r \in Regions : ResumeRound(r) \/ CheckOwed(r) \/ BeginRound(r)
  BY <1>3 DEF ResumeRound, CheckOwed, Abandon, BeginRound, heapVars, partVars
<1>4. CASE Advance \/ TakeNothing \/ SweepWait
  BY <1>4 DEF Advance, TakeNothing, SweepWait, Goto, Caller, heapVars, partVars
<1>5. CASE MarkResume \/ SeedStep \/ WalkPop \/ WalkEnd
  BY <1>5 DEF MarkResume, SeedStep, WalkPop, WalkEnd, Pop, Goto, heapVars, partVars
<1>6. CASE Finish
  BY <1>6 DEF Finish, Goto, Caller, heapVars, partVars
<1> QED
  BY <1>1, <1>2, <1>3, <1>4, <1>5, <1>6 DEF Still

\* What a step of the program and the collector is.
LEMMA Steps ==
  ASSUME [Next]_vars
  PROVE  \/ Still \/ UNCHANGED vars
         \/ \E r \in Regions : RegionNew(r) \/ RegionFree(r) \/ AllocEnter(r)
         \/ \E o \in occ, f \in Fields, v \in Values : AnyStore(o, f, v)
         \/ \E l, k \in Locals : Release(l, k)
         \/ Take \/ TakeNewSlab \/ SweepStep
BY DEF Next, Mutator, Calls, Runtime, Still, Store, AnyStore

\* What is said of edges and of regions that take part is inductive.
LEMMA EdgeStep ==
  ASSUME SafeInv, [Next]_vars, "newslab" \notin Allow
  PROVE  EdgeInv'
<1>0. TypeOK /\ EdgeInv /\ DepthsApart /\ (pc = "take" => ret = "take")
  BY Held DEF SafeInv, EdgeInv, PartCounts
<1>1. CASE Still
  <2>1. /\ UNCHANGED <<owner, occ, field, rscnt, alive, foreign, seedAny, part, partN>>
        /\ pc' # "mutator" /\ ret' = "take" => pc # "mutator" /\ ret = "take" /\ cur' = cur
        /\ pc' = "take" => ret' = "take"
    BY <1>0, <1>1, StillFacts
  <2>2. PartCounts'
    BY <2>1, PartFrame DEF Region
  <2> QED
    BY <1>0, <2>1, <2>2, EdgeFrame DEF EdgeInv, DepthsApart
<1>2. CASE UNCHANGED vars
  <2>1. /\ UNCHANGED <<owner, occ, field, rscnt, alive, foreign, seedAny, part, partN>>
        /\ UNCHANGED <<pc, ret, cur>>
    BY <1>2 DEF vars, heapVars, partVars, callVars
  <2>2. PartCounts'
    BY <1>0, <2>1, PartFrame DEF Region
  <2> QED
    BY <1>0, <2>1, <2>2, EdgeFrame DEF EdgeInv, DepthsApart
<1>3. ASSUME NEW r \in Regions, RegionNew(r) PROVE EdgeInv'
  <2>1. /\ UNCHANGED <<owner, occ, field, rscnt, foreign, seedAny, part, partN, pc, ret, cur>>
        /\ alive' = alive \cup {r} /\ \A q \in alive : Depth[q] # Depth[r]
    BY <1>3 DEF RegionNew, heapVars, callVars
  <2>2. PartCounts'
    BY <1>0, <2>1, PartFrame DEF Region
  <2> QED
    BY <1>0, <2>1, <2>2, EdgeFrame DEF EdgeInv, DepthsApart
<1>4. ASSUME NEW r \in Regions, RegionFree(r) PROVE EdgeInv'
  <2>1. alive' \subseteq alive
    BY <1>4 DEF RegionFree
  <2> QED
    BY <1>0, <1>4, <2>1, RegionFreeEdges, PartRegionFree DEF EdgeInv, DepthsApart
<1>5. ASSUME NEW r \in Regions, AllocEnter(r) PROVE EdgeInv'
  <2>1. UNCHANGED <<owner, occ, field, rscnt, alive, foreign, seedAny>>
    BY <1>5 DEF AllocEnter, heapVars
  <2> QED
    BY <1>0, <1>5, <2>1, EdgeFrame, PartEnter DEF EdgeInv, DepthsApart
<1>6. ASSUME NEW o \in occ, NEW f \in Fields, NEW v \in Values, AnyStore(o, f, v)
      PROVE  EdgeInv'
  <2>1. UNCHANGED <<owner, occ, alive, part, partN, pc, ret, cur>>
    BY <1>6 DEF AnyStore, StoreOwned, StoreSameRegion, StoreStruct, partVars, callVars
  <2>2. PartCounts'
    BY <1>0, <2>1, PartFrame DEF Region
  <2> QED
    BY <1>0, <1>6, <2>1, <2>2, StoreEdges DEF EdgeInv, DepthsApart
<1>7. ASSUME NEW l \in Locals, NEW k \in Locals, Release(l, k) PROVE EdgeInv'
  <2>1. UNCHANGED <<owner, alive, part, partN, pc, ret, cur>> /\ occ' \subseteq occ
    BY <1>7 DEF Release, partVars, callVars
  <2>2. PartCounts'
    BY <1>0, <2>1, PartFrame DEF Region
  <2> QED
    BY <1>0, <1>7, <2>1, <2>2, ReleaseEdges DEF EdgeInv, DepthsApart
<1>8. CASE Take \/ TakeNewSlab
  <2>1. PICK s, l : BirthEffect(s, l)
    BY <1>8, BirthFacts
  <2>2. UNCHANGED alive
    BY <2>1 DEF BirthEffect, TakeSlot, partVars
  <2> QED
    BY <1>0, <2>1, <2>2, BirthEdges, PartBirth DEF EdgeInv, DepthsApart
<1>9. CASE SweepStep
  <2>1. /\ UNCHANGED <<owner, alive, part, partN, ret>> /\ occ' \subseteq occ
        /\ pc # "mutator" /\ pc' # "mutator" => cur' = cur
        /\ pc' = "take" => ret' = "take"
    BY <1>9 DEF SweepStep, partVars, Goto, Caller
  <2>2. PartCounts'
    <3>1. pc # "mutator"
      BY <1>9 DEF SweepStep
    <3> QED
      BY <2>1, <3>1, PartFrame DEF Region
  <2> QED
    BY <1>0, <1>9, <2>1, <2>2, SweepEdges DEF EdgeInv, DepthsApart
<1> QED
  BY <1>1, <1>2, <1>3, <1>4, <1>5, <1>6, <1>7, <1>8, <1>9, Steps

-----------------------------------------------------------------------------
(***************************************************************************)
(* Rounds: the sweep cursor, and what a mark phase will still find.        *)
(***************************************************************************)
LEMMA CursorStep ==
  ASSUME SafeInv, [Next]_vars
  PROVE  CursorSplits'
<1>0. /\ TypeOK /\ CursorSplits /\ Phases /\ sweeping \subseteq Regions
  BY Held DEF SafeInv, RoundInv, TypeOK, MInv, ColourInv
<1>1. ASSUME sweeping' \subseteq sweeping, UNCHANGED <<swTodo, swDone>>
      PROVE  CursorSplits'
  BY <1>0, <1>1 DEF CursorSplits
<1>2. ASSUME NEW r \in Regions, RegionFree(r) PROVE CursorSplits'
  <2>1. /\ sweeping' = sweeping \ {r}
        /\ swTodo' = [swTodo EXCEPT ![r] = {}] /\ swDone' = [swDone EXCEPT ![r] = {}]
    BY <1>2 DEF RegionFree
  <2> QED
    BY <1>0, <2>1 DEF CursorSplits, TypeOK
<1>3. CASE Finish
  <2>1. CASE UNCHANGED <<sweeping, swTodo, swDone>>
    BY <1>1, <2>1
  <2>2. CASE /\ cur \in marking
             /\ sweeping' = sweeping \cup {cur}
             /\ swTodo' = [swTodo EXCEPT ![cur] = RegionWords(cur)]
             /\ swDone' = [swDone EXCEPT ![cur] = {}]
    BY <1>0, <2>2 DEF CursorSplits, TypeOK
  <2> QED
    BY <1>3, <2>1, <2>2 DEF Finish
<1>4. CASE SweepStep
  <2>1. PICK W \in SUBSET swTodo[cur] :
          /\ swTodo' = [swTodo EXCEPT ![cur] = @ \ W]
          /\ IF swTodo[cur] = W
             THEN sweeping' = sweeping \ {cur} /\ swDone' = [swDone EXCEPT ![cur] = {}]
             ELSE /\ swDone' = [swDone EXCEPT ![cur] = @ \cup W]
                  /\ UNCHANGED sweeping
    BY <1>4 DEF SweepStep, Portions
  <2>2. cur \in sweeping
    BY <1>0, <1>4 DEF SweepStep, Phases
  <2> QED
    BY <1>0, <2>1, <2>2 DEF CursorSplits, TypeOK
<1>5. ASSUME Still, ~Finish
      PROVE  sweeping' \subseteq sweeping /\ UNCHANGED <<swTodo, swDone>>
  <2>1. CASE MoveLocal \/ StoreHost
    BY <2>1 DEF MoveLocal, LoadField, LoadHost, DropLocal, CopyLocal, SetLocal, StoreLocal,
                StoreHost, StoreUnknown, StoreStructUnknown, roundVars, sweepVars
  <2>2. CASE \E r \in Regions : ResumeRound(r) \/ CheckOwed(r) \/ BeginRound(r)
    BY <2>2 DEF ResumeRound, CheckOwed, Abandon, BeginRound, sweepVars
  <2>3. CASE Advance \/ TakeNothing \/ MarkResume \/ SeedStep \/ WalkPop \/ WalkEnd
             \/ SweepWait
    BY <2>3 DEF Advance, TakeNothing, MarkResume, SeedStep, WalkPop, WalkEnd, SweepWait,
                roundVars, sweepVars
  <2> QED
    BY <1>5, <2>1, <2>2, <2>3 DEF Still
<1>6. ASSUME NEW r \in Regions, RegionNew(r) \/ AllocEnter(r)
      PROVE  sweeping' \subseteq sweeping /\ UNCHANGED <<swTodo, swDone>>
  BY <1>6 DEF RegionNew, AllocEnter, roundVars, sweepVars
<1>7. ASSUME NEW o, NEW f, NEW v, AnyStore(o, f, v)
      PROVE  UNCHANGED <<sweeping, swTodo, swDone>>
  BY <1>7 DEF AnyStore, StoreOwned, StoreSameRegion, StoreStruct, roundVars, sweepVars
<1>8. ASSUME NEW l, NEW k, Release(l, k)
      PROVE  UNCHANGED <<sweeping, swTodo, swDone>>
  BY <1>8 DEF Release, roundVars, sweepVars
<1>9. ASSUME Take \/ TakeNewSlab \/ UNCHANGED vars
      PROVE  UNCHANGED <<sweeping, swTodo, swDone>>
  BY <1>9 DEF Take, TakeNewSlab, TakeSlot, vars, roundVars, sweepVars
<1> QED
  BY <1>1, <1>2, <1>3, <1>4, <1>5, <1>6, <1>7, <1>8, <1>9, Steps

\* A marking region covers as much after the step as before: what the program
\* and the other regions held is in every set that covers the new state.
LEMMA StillSnap ==
  ASSUME SafeInv, UNCHANGED <<owner, occ, field, rscnt>>, NEW r \in marking,
         \A s \in occ :
           /\ Region(s) = r
           /\ s \in mark \cup mstk[r] \/ (WordOf[s] \in seedTodo[r] /\ rscnt[s] > 0)
           => s \in mark' \cup mstk'[r] \/ (WordOf[s] \in seedTodo'[r] /\ rscnt[s] > 0),
         NEW T \in SUBSET Slots, Covers(r, T)'
  PROVE  Covers(r, T) /\ HoldsRoots(r, T)
<1>1. Covers(r, T)
  BY DEF Covers, Region
<1> QED
  BY <1>1 DEF SafeInv, RoundInv, Snapshot

LEMMA RootsSnap ==
  ASSUME SafeInv, UNCHANGED <<owner, occ, field>>, NEW r, NEW T, HoldsRoots(r, T),
         \A s \in Roots' : Region(s) = r => s \in T
  PROVE  HoldsRoots(r, T)'
BY DEF HoldsRoots, CrossEdge, Region

\* A mark step drops nothing from what it still has to look at: a popped entry
\* is black or no object of the region, a seed it passes is pushed.
LEMMA MarkSnap ==
  ASSUME SafeInv, MarkResume \/ SeedStep \/ WalkPop
  PROVE  Snapshot'
<1>0. /\ TypeOK /\ Phases /\ marking \subseteq Regions
  BY Held DEF SafeInv, TypeOK, MInv, ColourInv
<1>1. /\ UNCHANGED <<owner, occ, field, rscnt, local, ext, marking>>
      /\ cur \in marking /\ cur \in Regions
  BY <1>0 DEF MarkResume, SeedStep, WalkPop, Phases, heapVars, rootVars, roundVars
<1>2. ASSUME NEW s \in occ, Region(s) = cur,
             s \in mark \cup mstk[cur] \/ (WordOf[s] \in seedTodo[cur] /\ rscnt[s] > 0)
      PROVE  s \in mark' \cup mstk'[cur] \/ (WordOf[s] \in seedTodo'[cur] /\ rscnt[s] > 0)
  <2>1. CASE MarkResume
    <3>1. PICK W, X : /\ mstk' = [mstk EXCEPT ![cur] = @ \cup Seeds(W) \cup X]
                      /\ seedTodo' = [seedTodo EXCEPT ![cur] = @ \ W]
      BY <2>1 DEF MarkResume
    <3>2. mark' = mark
      BY <2>1 DEF MarkResume, heapVars
    <3> QED
      BY <1>0, <1>1, <1>2, <3>1, <3>2 DEF Seeds, TypeOK
  <2>2. CASE SeedStep
    <3>1. PICK W : /\ mstk' = [mstk EXCEPT ![cur] = @ \cup Seeds(W)]
                   /\ seedTodo' = [seedTodo EXCEPT ![cur] = @ \ W]
      BY <2>2 DEF SeedStep
    <3>2. mark' = mark
      BY <2>2 DEF SeedStep, heapVars
    <3> QED
      BY <1>0, <1>1, <1>2, <3>1, <3>2 DEF Seeds, TypeOK
  <2>3. CASE WalkPop
    <3>1. PICK o : Pop(o, FALSE) \/ Pop(o, TRUE)
      BY <2>3 DEF WalkPop
    <3>2. seedTodo' = seedTodo
      BY <2>3 DEF WalkPop
    <3>3. mark \subseteq mark'
      BY <3>1 DEF Pop
    <3>4. s \in mstk[cur] => s \in mstk'[cur] \/ s = o
      BY <1>0, <1>1, <3>1 DEF Pop, TypeOK
    <3>5. s = o => s \in mark'
      BY <1>2, <3>1 DEF Pop
    <3> QED
      BY <1>2, <3>2, <3>3, <3>4, <3>5
  <2> QED
    BY <2>1, <2>2, <2>3
<1> SUFFICES ASSUME NEW r \in marking, NEW T \in SUBSET Slots, Covers(r, T)'
             PROVE  HoldsRoots(r, T)'
  BY <1>1 DEF Snapshot
<1>3. ASSUME r # cur
      PROVE  mark \subseteq mark' /\ mstk'[r] = mstk[r] /\ seedTodo'[r] = seedTodo[r]
  BY <1>0, <1>3 DEF MarkResume, SeedStep, WalkPop, Pop, heapVars, TypeOK
<1>4. HoldsRoots(r, T)
  BY <1>1, <1>2, <1>3, StillSnap
<1>5. Roots' = Roots
  BY <1>1 DEF Roots
<1> QED
  BY <1>1, <1>4, <1>5, RootsSnap DEF HoldsRoots

\* The barrier only adds.
LEMMA ShadeAdds ==
  ASSUME NEW V, Shade(V)
  PROVE  mark \subseteq mark' /\ \A v \in V \cap occ : Region(v) \in marking => v \in mark'
BY DEF Shade, Shaded

\* Loads have no barrier: what is loaded was reachable from something held.
LEMMA MoveSnap ==
  ASSUME SafeInv, MoveLocal
  PROVE  Snapshot'
<1>0. TypeOK
  BY Held
<1>1. ASSUME NEW l \in Locals, NEW v, local' = [local EXCEPT ![l] = v],
             UNCHANGED <<owner, occ, field, rscnt, ext, marking, mstk, seedTodo>>,
             mark \subseteq mark',
             \/ v \in Roots \cup {Null}
             \/ \E x \in Roots, f \in Fields : v = field[x][f]
      PROVE  Snapshot'
  <2> SUFFICES ASSUME NEW r \in marking, NEW T \in SUBSET Slots, Covers(r, T)'
               PROVE  HoldsRoots(r, T)'
    BY <1>1 DEF Snapshot
  <2>1. Covers(r, T) /\ HoldsRoots(r, T)
    BY <1>1, StillSnap
  <2>2. Roots' \subseteq Roots \cup {v}
    BY <1>0, <1>1 DEF Roots, TypeOK
  <2>3. v # Null /\ Region(v) = r => v \in T
    <3>1. CASE v \in Roots \cup {Null}
      BY <2>1, <3>1 DEF HoldsRoots
    <3>2. ASSUME NEW x \in Roots, NEW f \in Fields, v = field[x][f], v # Null, Region(v) = r
          PROVE  v \in T
      <4>1. x \in occ /\ v \in occ
        BY <3>2, Held
      <4>2. CASE Region(x) = r
        BY <2>1, <3>2, <4>1, <4>2 DEF HoldsRoots, Covers
      <4>3. CASE Region(x) # r
        <5>1. CrossEdge(x, f)
          BY <3>2, <4>1, <4>3, Held DEF CrossEdge, OccOwned, TypeOK
        <5> QED
          BY <2>1, <3>2, <4>1, <5>1 DEF HoldsRoots
      <4> QED
        BY <4>2, <4>3
    <3> QED
      BY <1>1, <3>1, <3>2
  <2>4. \A s \in Roots' : Region(s) = r => s \in T
    <3>1. Null \notin Roots'
      BY DEF Roots
    <3> QED
      BY <2>1, <2>2, <2>3, <3>1 DEF HoldsRoots
  <2> QED
    BY <1>1, <2>1, <2>4, RootsSnap
<1>2. ASSUME NEW l \in Locals, NEW v, SetLocal(l, v),
             \/ v \in Roots \cup {Null}
             \/ \E x \in Roots, f \in Fields : v = field[x][f]
      PROVE  Snapshot'
  BY <1>1, <1>2 DEF SetLocal, heapVars, roundVars, markVars
<1>3. \A l \in Locals : local[l] \in Roots \cup {Null}
  BY DEF Roots
<1>4. \A h \in Hosts : ext[h] \in Roots \cup {Null}
  BY DEF Roots
<1>5. ASSUME NEW l \in Locals, NEW k \in Locals, StoreLocal(l, k)
      PROVE  Snapshot'
  <2>1. /\ local' = [local EXCEPT ![l] = local[k]] /\ \E V : Shade(V)
        /\ UNCHANGED <<owner, occ, field, rscnt, ext, marking, mstk, seedTodo>>
    BY <1>5 DEF StoreLocal, roundVars
  <2>2. mark \subseteq mark'
    BY <2>1, ShadeAdds
  <2> QED
    BY <1>1, <1>3, <2>1, <2>2
<1>6. ASSUME NEW l \in Locals, NEW k \in Locals, NEW f \in Fields, LoadField(l, k, f)
      PROVE  Snapshot'
  <2>1. local[k] \in Roots
    BY <1>0, <1>6 DEF LoadField, Roots, TypeOK
  <2> QED
    BY <1>2, <1>6, <2>1 DEF LoadField
<1> QED
  BY <1>2, <1>3, <1>4, <1>5, <1>6 DEF MoveLocal, LoadHost, DropLocal, CopyLocal

\* Steps that touch nothing a mark phase looks at; the phase may end.
LEMMA QuietSnap ==
  ASSUME SafeInv, marking' \subseteq marking,
         UNCHANGED <<owner, occ, field, rscnt, local, ext, mark, mstk, seedTodo>>
  PROVE  Snapshot'
<1> SUFFICES ASSUME NEW r \in marking, NEW T \in SUBSET Slots, Covers(r, T)'
             PROVE  HoldsRoots(r, T)'
  BY DEF Snapshot
<1>1. HoldsRoots(r, T)
  BY StillSnap
<1>2. Roots' = Roots
  BY DEF Roots
<1> QED
  BY <1>1, <1>2, RootsSnap DEF HoldsRoots

\* A cross-region edge is counted at its target.
LEMMA CrossCounted ==
  ASSUME SafeInv, NEW o \in occ, NEW f \in Fields, CrossEdge(o, f)
  PROVE  field[o][f] \in occ /\ rscnt[field[o][f]] > 0
<1> DEFINE x == field[o][f]
<1>0. TypeOK /\ x \in occ /\ x \in Slots
  BY Held DEF TypeOK
<1>1. <<o, f>> \in CrossEdgesInto(x)
  BY DEF CrossEdgesInto
<1>2. IsFiniteSet(CrossEdgesInto(x)) /\ Cardinality(CrossEdgesInto(x)) \in Nat
  BY <1>0, EdgesFinite
<1>3. Cardinality(CrossEdgesInto(x)) > 0
  BY <1>1, <1>2, FS_EmptySet
<1>4. Registered(rscnt[x], Cardinality(CrossEdgesInto(x))) /\ rscnt[x] \in 0..RsSat
  BY <1>0 DEF SafeInv, EdgeInv, RsHeld, TypeOK
<1> QED
  BY <1>0, <1>2, <1>3, <1>4 DEF Registered

\* The outside slots that hold s.
Holders(s) == {h \in Hosts : ext[h] = s}

LEMMA HoldersFinite ==
  ASSUME NEW H \in SUBSET Hosts
  PROVE  IsFiniteSet(H) /\ Cardinality(H) \in Nat
BY FS_Subset, FS_CardinalityType

\* An object held from outside is pinned, unless its region is never swept.
LEMMA HeldPinned ==
  ASSUME SafeInv, NEW h \in Hosts, ext[h] # Null, Region(ext[h]) \notin noSweep
  PROVE  ext[h] \in occ /\ ext[h] \in Pinned(Region(ext[h]))
<1> DEFINE s == ext[h]
           H == Holders(s)
<1> USE DEF Holders
<1>0. TypeOK /\ s \in occ /\ s \in Slots
  BY Held DEF Roots, TypeOK
<1>1. IsFiniteSet(H) /\ Cardinality(H) \in Nat
  BY HoldersFinite
<1>2. h \in H
  OBVIOUS
<1>3. pin[s] >= Cardinality(H) /\ pin[s] \in Nat
  BY <1>0 DEF SafeInv, PinCovers, TypeOK
<1> HIDE DEF H
<1>4. Cardinality(H) > 0
  BY <1>1, <1>2, FS_EmptySet
<1>5. pin[s] > 0
  BY <1>1, <1>3, <1>4
<1> QED
  BY <1>0, <1>5 DEF Pinned, RegionSlots

\* A round begins with the roots and the pins on its stack and with a cursor
\* before every object another region holds.
LEMMA BeginSnap ==
  ASSUME SafeInv, NEW r \in Regions, BeginRound(r)
  PROVE  Snapshot'
<1>0. TypeOK /\ r \notin marking /\ r \notin noSweep /\ marking \subseteq Regions
  BY Held DEF BeginRound, TypeOK
<1>1. /\ marking' = marking \cup {r}
      /\ UNCHANGED <<owner, occ, mark, field, rscnt, local, ext>>
      /\ mstk' = [mstk EXCEPT ![r] = ({local[l] : l \in Locals} \cap occ) \cup Pinned(r)]
      /\ seedTodo' = [seedTodo EXCEPT ![r] = IF r \in seedAny THEN RegionWords(r) ELSE {}]
  BY DEF BeginRound, heapVars, rootVars
<1>2. ASSUME NEW q \in marking, NEW T \in SUBSET Slots, Covers(q, T)'
      PROVE  HoldsRoots(q, T)'
  <2>1. mstk'[q] = mstk[q] /\ seedTodo'[q] = seedTodo[q]
    BY <1>0, <1>1 DEF TypeOK
  <2>2. HoldsRoots(q, T)
    BY <1>1, <1>2, <2>1, StillSnap
  <2>3. Roots' = Roots
    BY <1>1 DEF Roots
  <2> QED
    BY <1>1, <2>2, <2>3, RootsSnap DEF HoldsRoots
<1>3. /\ mstk'[r] = ({local[l] : l \in Locals} \cap occ) \cup Pinned(r)
      /\ r \in seedAny => seedTodo'[r] = RegionWords(r)
  BY <1>0, <1>1 DEF TypeOK
<1> SUFFICES ASSUME NEW T \in SUBSET Slots, Covers(r, T)'
             PROVE  HoldsRoots(r, T)'
  BY <1>1, <1>2 DEF Snapshot
<1>4. ASSUME NEW s \in occ, Region(s) = r, s \in mstk'[r] PROVE s \in T
  BY <1>1, <1>4 DEF Covers, Region
<1>5. ASSUME NEW s \in Roots, Region(s) = r PROVE s \in T
  <2>1. s \in occ
    BY Held
  <2>2. CASE \E l \in Locals : s = local[l]
    BY <1>3, <1>4, <1>5, <2>1, <2>2
  <2>3. CASE \E h \in Hosts : s = ext[h]
    <3>1. s \in Pinned(r)
      BY <1>0, <1>5, <2>3, HeldPinned DEF Roots
    <3> QED
      BY <1>3, <1>4, <1>5, <2>1, <3>1
  <2> QED
    BY <2>2, <2>3 DEF Roots
<1>6. ASSUME NEW o \in occ, NEW f \in Fields, CrossEdge(o, f), Region(field[o][f]) = r
      PROVE  field[o][f] \in T
  <2>1. field[o][f] \in occ /\ rscnt[field[o][f]] > 0 /\ r \in seedAny
    BY <1>6, CrossCounted DEF SafeInv, EdgeInv, CrossKnown
  <2>2. WordOf[field[o][f]] \in seedTodo'[r]
    BY <1>0, <1>3, <1>6, <2>1 DEF RegionWords, Region, TypeOK
  <2>3. \A s \in occ : Region(s) = r /\ WordOf[s] \in seedTodo'[r] /\ rscnt[s] > 0 => s \in T
    BY <1>1 DEF Covers, Region
  <2> QED
    BY <1>6, <2>1, <2>2, <2>3
<1>7. Roots' = Roots
  BY <1>1 DEF Roots
<1>8. HoldsRoots(r, T)
  BY <1>5, <1>6 DEF HoldsRoots
<1> QED
  BY <1>1, <1>7, <1>8, RootsSnap DEF HoldsRoots

\* What an outside slot receives was in the program's hands.
LEMMA HostSnap ==
  ASSUME SafeInv, StoreHost
  PROVE  Snapshot'
<1>1. PICK h \in Hosts, v \in Values :
        /\ ext' = [ext EXCEPT ![h] = v] /\ \E V : Shade(V)
        /\ UNCHANGED <<owner, occ, field, rscnt, local, marking, mstk, seedTodo>>
  BY DEF StoreHost, StoreUnknown, StoreStructUnknown, roundVars
<1> SUFFICES ASSUME NEW r \in marking, NEW T \in SUBSET Slots, Covers(r, T)'
             PROVE  HoldsRoots(r, T)'
  BY <1>1 DEF Snapshot
<1>2. HoldsRoots(r, T)
  BY <1>1, ShadeAdds, StillSnap
<1>3. Roots' \subseteq Roots
  <2>1. TypeOK /\ v \in Roots \cup {Null}
    BY Held, ValuesHeld
  <2> QED
    BY <1>1, <2>1 DEF Roots, TypeOK
<1> QED
  BY <1>1, <1>2, <1>3, RootsSnap DEF HoldsRoots

\* Both barriers: the old value of the field, which the snapshot may need, is
\* black or in the snapshot; the new one is held by the program.
LEMMA StoreSnap ==
  ASSUME SafeInv, NEW o \in occ, NEW f \in Fields, NEW v \in Values, AnyStore(o, f, v),
         "structmark" \notin Allow
  PROVE  Snapshot'
<1> DEFINE old == field[o][f]
<1>0. /\ TypeOK /\ occ \subseteq Slots /\ StoreEffect(o, f, v)
      /\ v \in Roots \cup {Null} /\ v # old
  BY Held, StoreFacts, ValuesHeld DEF TypeOK, StoreEffect
<1>1. UNCHANGED <<owner, occ, local, ext, marking, mstk, seedTodo>>
  BY DEF AnyStore, StoreOwned, StoreSameRegion, StoreStruct, rootVars, roundVars
<1>2. /\ field'[o][f] = v
      /\ \A x \in Slots, g \in Fields : <<x, g>> # <<o, f>> => field'[x][g] = field[x][g]
  BY <1>0 DEF StoreEffect, TypeOK
<1>3. marking # {} => Shade({v, old})
  BY DEF AnyStore, StoreOwned, StoreSameRegion, StoreStruct, Barrier
<1>4. ASSUME NEW s \in occ, rscnt[s] > 0, s # old PROVE rscnt'[s] > 0
  <2>1. rscnt'[s] = rscnt[s] \/ rscnt'[s] = RsInc(rscnt[s])
    BY <1>0, <1>4 DEF AnyStore, StoreOwned, StoreSameRegion, StoreStruct
  <2>2. rscnt[s] \in 0..RsSat
    BY <1>0 DEF TypeOK
  <2> QED
    BY <1>4, <2>1, <2>2 DEF RsInc
<1> SUFFICES ASSUME NEW r \in marking, NEW T \in SUBSET Slots, Covers(r, T)'
             PROVE  HoldsRoots(r, T)'
  BY <1>1 DEF Snapshot
<1>5. mark \subseteq mark' /\ (old \in occ /\ Region(old) = r => old \in mark')
  BY <1>3, ShadeAdds
<1>6. /\ \A s \in occ :
           Region(s) = r /\ s \in mark' \cup mstk[r] => s \in T
      /\ \A s \in occ :
           Region(s) = r /\ WordOf[s] \in seedTodo[r] /\ rscnt'[s] > 0 => s \in T
      /\ \A x \in occ \cap T, g \in Fields :
           Region(x) = r /\ field'[x][g] \in occ /\ owner'[SlabOf[WordOf[field'[x][g]]]] = r
             => field'[x][g] \in T
  BY <1>1 DEF Covers, Region
<1>7. Covers(r, T)
  <2>1. ASSUME NEW s \in occ, Region(s) = r,
               s \in mark \cup mstk[r] \/ (WordOf[s] \in seedTodo[r] /\ rscnt[s] > 0)
        PROVE  s \in T
    BY <1>4, <1>5, <1>6, <2>1
  <2>2. ASSUME NEW x \in occ \cap T, NEW g \in Fields, Region(x) = r, field[x][g] \in occ,
               Region(field[x][g]) = r
        PROVE  field[x][g] \in T
    <3>1. CASE <<x, g>> = <<o, f>>
      BY <1>5, <1>6, <2>2, <3>1
    <3>2. CASE <<x, g>> # <<o, f>>
      BY <1>0, <1>1, <1>2, <1>6, <2>2, <3>2 DEF Region
    <3> QED
      BY <3>1, <3>2
  <2> QED
    BY <2>1, <2>2 DEF Covers
<1>8. HoldsRoots(r, T)
  BY <1>7 DEF SafeInv, RoundInv, Snapshot
<1>9. Roots' = Roots /\ \A s \in Slots : Region(s)' = Region(s)
  BY <1>1 DEF Roots, Region
<1>10. ASSUME NEW x \in occ, NEW g \in Fields, CrossEdge(x, g)', Region(field[x][g])' = r
       PROVE  field'[x][g] \in T
  <2>1. CASE <<x, g>> = <<o, f>>
    BY <1>0, <1>1, <1>2, <1>8, <1>10, <2>1 DEF HoldsRoots, CrossEdge, Region
  <2>2. CASE <<x, g>> # <<o, f>>
    <3>1. field'[x][g] = field[x][g] /\ CrossEdge(x, g) /\ Region(field[x][g]) = r
      BY <1>0, <1>1, <1>2, <1>10, <2>2 DEF CrossEdge, Region
    <3> QED
      BY <1>8, <3>1 DEF HoldsRoots
  <2> QED
    BY <2>1, <2>2
<1>11. \A s \in Roots' : Region(s)' = r => s \in T
  <2>1. Roots \subseteq Slots
    BY <1>0, Held
  <2> QED
    BY <1>8, <1>9, <2>1 DEF HoldsRoots
<1> QED
  BY <1>1, <1>10, <1>11 DEF HoldsRoots

\* A new object of a marking region is black.
LEMMA BirthSnap ==
  ASSUME SafeInv, NEW s, NEW l, BirthEffect(s, l)
  PROVE  Snapshot'
<1>0. /\ TypeOK /\ OccOwned /\ NoRegion \notin alive /\ occ \subseteq Slots
      /\ marking \subseteq alive
  BY Held DEF TypeOK, TInv, RoundsAlive
<1>1. /\ occ' = occ \cup {s} /\ s \in Slots \ occ
      /\ mark' = IF BornBlack(cur, s) THEN mark \cup {s} ELSE mark
      /\ field' = [field EXCEPT ![s] = [f \in Fields |-> Null]]
      /\ local' = [local EXCEPT ![l] = s]
      /\ UNCHANGED <<rscnt, ext, marking, mstk, seedTodo>>
  BY DEF BirthEffect, TakeSlot, roundVars, markVars
<1>2. \A x \in Slots : Region(x) \in alive => owner'[SlabOf[WordOf[x]]] = Region(x)
  BY <1>0 DEF BirthEffect
<1>3. \A x \in occ : Region(x)' = Region(x) /\ field'[x] = field[x]
  BY <1>0, <1>1, <1>2 DEF OccOwned, Region, TypeOK
<1>4. Region(s)' = cur /\ \A f \in Fields : field'[s][f] = Null
  BY <1>0, <1>1 DEF BirthEffect, Region, TypeOK
<1> SUFFICES ASSUME NEW r \in marking, NEW T \in SUBSET Slots, Covers(r, T)'
             PROVE  HoldsRoots(r, T)'
  BY <1>1 DEF Snapshot
<1>5. /\ \A x \in occ' :
           /\ owner'[SlabOf[WordOf[x]]] = r
           /\ x \in mark' \cup mstk[r] \/ (WordOf[x] \in seedTodo[r] /\ rscnt[x] > 0)
           => x \in T
      /\ \A x \in occ' \cap T, g \in Fields :
           /\ owner'[SlabOf[WordOf[x]]] = r /\ field'[x][g] \in occ'
           /\ owner'[SlabOf[WordOf[field'[x][g]]]] = r
           => field'[x][g] \in T
  BY <1>1 DEF Covers, Region
<1>6. Covers(r, T)
  <2>1. ASSUME NEW x \in occ, Region(x) = r,
               x \in mark \cup mstk[r] \/ (WordOf[x] \in seedTodo[r] /\ rscnt[x] > 0)
        PROVE  x \in T
    BY <1>1, <1>3, <1>5, <2>1 DEF Region
  <2>2. ASSUME NEW x \in occ \cap T, NEW g \in Fields, Region(x) = r, field[x][g] \in occ,
               Region(field[x][g]) = r
        PROVE  field[x][g] \in T
    BY <1>1, <1>3, <1>5, <2>2 DEF Region
  <2> QED
    BY <2>1, <2>2 DEF Covers
<1>7. HoldsRoots(r, T)
  BY <1>6 DEF SafeInv, RoundInv, Snapshot
<1>8. ASSUME NEW x \in Roots', Region(x)' = r PROVE x \in T
  <2>1. CASE x = s
    <3>1. s \in mark'
      BY <1>1, <1>4, <1>8, <2>1 DEF BornBlack
    <3> QED
      BY <1>1, <1>5, <1>8, <2>1, <3>1 DEF Region
  <2>2. CASE x # s
    <3>1. x \in Roots
      BY <1>0, <1>1, <1>8, <2>2 DEF Roots, TypeOK
    <3> QED
      BY <1>3, <1>7, <1>8, <3>1, Held DEF HoldsRoots
  <2> QED
    BY <2>1, <2>2
<1>9. ASSUME NEW x \in occ', NEW g \in Fields, CrossEdge(x, g)', Region(field[x][g])' = r
      PROVE  field'[x][g] \in T
  <2>1. x \in occ /\ field[x][g] # Null /\ field'[x][g] = field[x][g]
    BY <1>1, <1>3, <1>4, <1>9 DEF CrossEdge
  <2>2. field[x][g] \in Slots /\ Region(field[x][g]) \in alive
    BY <1>0, <2>1 DEF SafeInv, EdgeInv, DepthRule, TypeOK, Ref
  <2>3. Region(field[x][g]) = r /\ Region(x) # r
    BY <1>2, <1>3, <1>9, <2>1, <2>2 DEF Region, CrossEdge
  <2>4. CrossEdge(x, g)
    BY <1>0, <2>1, <2>3 DEF CrossEdge
  <2> QED
    BY <1>7, <2>1, <2>3, <2>4 DEF HoldsRoots
<1> QED
  BY <1>8, <1>9 DEF HoldsRoots

\* Objects of other regions die, and none of them held one of r.
LEMMA DeathSnap ==
  ASSUME SafeInv, NEW r \in marking, NEW D \in SUBSET occ,
         occ' = occ \ D, rscnt' = UnlinkChildren(D), field' = WipeFields(D),
         \A x \in D : Region(x) # r, r \notin UnlinkTargets(D),
         \A x \in Slots : Region(x)' = r <=> Region(x) = r,
         \A x \in mark : Region(x) = r => x \in mark',
         mstk'[r] = mstk[r], seedTodo'[r] = seedTodo[r],
         Roots' \subseteq Roots,
         NEW T \in SUBSET Slots, Covers(r, T)'
  PROVE  HoldsRoots(r, T)'
<1>0. TypeOK /\ occ \subseteq Slots /\ r # NoRegion
  BY Held DEF TypeOK
<1>1. \A x \in occ \ D : field'[x] = field[x]
  BY <1>0 DEF WipeFields
<1>2. ASSUME NEW x \in occ, Region(x) = r PROVE rscnt'[x] = rscnt[x] /\ x \in occ'
  <2>1. {e \in D \X Fields : field[e[1]][e[2]] = x /\ CrossEdge(e[1], e[2])} = {}
    BY <1>2 DEF UnlinkTargets
  <2>2. x \in occ \ D /\ rscnt[x] \in 0..RsSat
    BY <1>0, <1>2 DEF TypeOK
  <2>3. rscnt'[x] = RsDecBy(rscnt[x], 0)
    BY <1>0, <2>1, <2>2, FS_EmptySet DEF UnlinkChildren
  <2> QED
    BY <2>2, <2>3 DEF RsDecBy
<1>3. Covers(r, T)
  <2>1. ASSUME NEW x \in occ, Region(x) = r,
               x \in mark \cup mstk[r] \/ (WordOf[x] \in seedTodo[r] /\ rscnt[x] > 0)
        PROVE  x \in T
    <3>1. x \in occ' /\ Region(x)' = r /\ rscnt'[x] = rscnt[x]
      BY <1>0, <1>2, <2>1
    <3> QED
      BY <2>1, <3>1 DEF Covers
  <2>2. ASSUME NEW x \in occ \cap T, NEW g \in Fields, Region(x) = r, field[x][g] \in occ,
               Region(field[x][g]) = r
        PROVE  field[x][g] \in T
    <3>1. x \in occ' /\ field[x][g] \in occ' /\ field'[x] = field[x]
      BY <1>1, <1>2, <2>2
    <3>2. owner'[SlabOf[WordOf[x]]] = r /\ owner'[SlabOf[WordOf[field[x][g]]]] = r
      BY <1>0, <2>2 DEF Region
    <3> QED
      BY <2>2, <3>1, <3>2 DEF Covers, Region
  <2> QED
    BY <2>1, <2>2 DEF Covers
<1>4. HoldsRoots(r, T)
  BY <1>3 DEF SafeInv, RoundInv, Snapshot
<1>5. ASSUME NEW x \in Roots', Region(x)' = r PROVE x \in T
  BY <1>0, <1>4, <1>5, Held DEF HoldsRoots
<1>6. ASSUME NEW x \in occ', NEW g \in Fields, CrossEdge(x, g)', Region(field[x][g])' = r
      PROVE  field'[x][g] \in T
  <2>1. x \in occ /\ field'[x][g] = field[x][g] /\ field[x][g] # Null /\ field[x][g] \in Slots
    BY <1>0, <1>1, <1>6 DEF CrossEdge, TypeOK, Ref
  <2>2. Region(field[x][g]) = r /\ Region(x) # r
    BY <1>0, <1>6, <2>1 DEF Region, CrossEdge
  <2>3. CrossEdge(x, g)
    BY <1>0, <2>1, <2>2 DEF CrossEdge
  <2> QED
    BY <1>4, <2>1, <2>2, <2>3 DEF HoldsRoots
<1> QED
  BY <1>5, <1>6 DEF HoldsRoots

\* ReachIn(r, X, B) contains what it starts from and is closed.
LEMMA ReachInClosed ==
  ASSUME NEW r, NEW X, NEW B
  PROVE  LET In == (occ \cap RegionSlots(r)) \ B
         IN /\ X \cap In \subseteq ReachIn(r, X, B)
            /\ \A o \in ReachIn(r, X, B), f \in Fields :
                 field[o][f] \in In => field[o][f] \in ReachIn(r, X, B)
BY DEF ReachIn

\* A release outside a round: kept contains every object of home that another
\* root, a pin or another region holds, and its children in home; what is freed
\* lies outside it.
SafeRelease(l, k, home, dead, kept) ==
  /\ l # k /\ home \in Regions /\ home \in alive
  /\ home \notin marking /\ home \notin sweeping /\ home \notin noSweep
  /\ dead \subseteq occ /\ dead \cap kept = {}
  /\ \A x \in dead : Region(x) = home
  /\ \A x \in occ :
       /\ Region(x) = home
       /\ (\E y \in Locals \ {l} : x = local[y]) \/ x \in Pinned(home) \/ rscnt[x] > 0
       => x \in kept
  /\ \A o \in kept, f \in Fields :
       field[o][f] \in occ /\ Region(field[o][f]) = home => field[o][f] \in kept
  /\ UnlinkTargets(dead) \cap marking = {}
  /\ occ' = occ \ dead
  /\ rscnt' = UnlinkChildren(dead)
  /\ field' = WipeFields(dead)
  /\ mark' = mark \ RegionSlots(home)
  /\ mstk' = [mstk EXCEPT ![home] = {}]
  /\ seedTodo' = [seedTodo EXCEPT ![home] = {}]
  /\ local' = [local EXCEPT ![l] = local[k]]
  /\ UNCHANGED <<owner, ext, pin, noSweep, marking, sweeping, swTodo, swDone>>

LEMMA ReleaseIsSafe ==
  ASSUME SafeInv, NEW l \in Locals, NEW k \in Locals, Release(l, k),
         "release" \notin Allow, "unlink" \notin Allow
  PROVE  \E home, dead, kept : SafeRelease(l, k, home, dead, kept)
<1> DEFINE old   == local[l]
           v     == local[k]
           home  == Region(v)
           roots == {local[x] : x \in Locals \ {l}} \cup Pinned(home)
                      \cup {s \in RegionSlots(home) : rscnt[s] > 0}
           known == mark \cup Shaded({v})
           kept  == ReachIn(home, roots, known)
           black == known \cup kept
           dead  == ReachIn(home, {old}, black)
           grey  == IF home \in marking THEN {v, old} \ dead ELSE {}
<1>0. /\ TypeOK /\ OccOwned /\ MarksClean /\ occ \subseteq Slots /\ alive \subseteq Regions
  BY Held DEF TypeOK, MInv, ColourInv
<1>1. /\ v \in occ /\ v # old
      /\ home \notin marking /\ home \notin sweeping /\ home \notin noSweep
      /\ UnlinkTargets(dead) \cap marking = {}
      /\ occ' = occ \ dead
      /\ rscnt' = UnlinkChildren(dead)
      /\ field' = WipeFields(dead)
      /\ mark' = (mark \ RegionSlots(home)) \cup grey
      /\ mstk' = [mstk EXCEPT ![home] = {}]
      /\ seedTodo' = [seedTodo EXCEPT ![home] = {}]
      /\ local' = [local EXCEPT ![l] = v]
      /\ UNCHANGED <<owner, ext, pin, noSweep, marking, sweeping, swTodo, swDone>>
  BY DEF Release, partVars, roundVars, sweepVars
<1>2. home \in alive /\ home \in Regions /\ l # k
  BY <1>0, <1>1 DEF OccOwned
<1>3. mark \cap RegionSlots(home) = {}
  BY <1>0, <1>1, <1>2 DEF MarksClean
<1>4. known = mark
  BY <1>1 DEF Shaded
<1>5. (occ \cap RegionSlots(home)) \ known = occ \cap RegionSlots(home)
  BY <1>3, <1>4
<1> HIDE DEF roots, known
<1>6. /\ roots \cap (occ \cap RegionSlots(home)) \subseteq kept
      /\ \A o \in kept, f \in Fields :
           field[o][f] \in occ \cap RegionSlots(home) => field[o][f] \in kept
  BY <1>5, ReachInClosed
<1>7. /\ dead \subseteq occ /\ dead \cap kept = {} /\ \A x \in dead : Region(x) = home
  BY ReachInType DEF RegionSlots
<1>8. ASSUME NEW x \in occ, Region(x) = home,
             (\E y \in Locals \ {l} : x = local[y]) \/ x \in Pinned(home) \/ rscnt[x] > 0
      PROVE  x \in kept
  <2>1. x \in RegionSlots(home)
    BY <1>0, <1>8 DEF RegionSlots
  <2>2. x \in roots
    BY <1>8, <2>1 DEF roots
  <2> QED
    BY <1>6, <2>1, <2>2
<1>9. ASSUME NEW o \in kept, NEW f \in Fields, field[o][f] \in occ, Region(field[o][f]) = home
      PROVE  field[o][f] \in kept
  <2>1. field[o][f] \in RegionSlots(home)
    BY <1>0, <1>9 DEF RegionSlots
  <2> QED
    BY <1>6, <1>9, <2>1
<1>10. mark' = mark \ RegionSlots(home)
  BY <1>1
<1> HIDE DEF kept, dead, home
<1>11. SafeRelease(l, k, home, dead, kept)
  BY <1>1, <1>2, <1>7, <1>8, <1>9, <1>10 DEF SafeRelease
<1> QED
  BY <1>2, <1>11

LEMMA ReleaseSnap ==
  ASSUME SafeInv, NEW l \in Locals, NEW k \in Locals, Release(l, k),
         "release" \notin Allow, "unlink" \notin Allow
  PROVE  Snapshot'
<1>0. TypeOK /\ marking \subseteq Regions /\ mark \subseteq Slots
  BY Held DEF TypeOK
<1>1. PICK home, dead, kept : SafeRelease(l, k, home, dead, kept)
  BY ReleaseIsSafe
<1>2. Roots' \subseteq Roots
  BY <1>0, <1>1 DEF SafeRelease, Roots, TypeOK
<1> SUFFICES ASSUME NEW r \in marking, NEW T \in SUBSET Slots, Covers(r, T)'
             PROVE  HoldsRoots(r, T)'
  BY <1>1 DEF Snapshot, SafeRelease
<1>3. r # home
  BY <1>1 DEF SafeRelease
<1>4. dead \in SUBSET occ /\ r \notin UnlinkTargets(dead) /\ \A x \in dead : Region(x) # r
  BY <1>1, <1>3 DEF SafeRelease
<1>5. /\ \A x \in Slots : Region(x)' = r <=> Region(x) = r
      /\ \A x \in mark : Region(x) = r => x \in mark'
      /\ mstk'[r] = mstk[r] /\ seedTodo'[r] = seedTodo[r]
      /\ occ' = occ \ dead /\ rscnt' = UnlinkChildren(dead) /\ field' = WipeFields(dead)
  BY <1>0, <1>1, <1>3 DEF SafeRelease, Region, RegionSlots, TypeOK
<1> QED
  BY <1>2, <1>4, <1>5, DeathSnap

LEMMA RegionFreeSnap ==
  ASSUME SafeInv, NEW q \in Regions, RegionFree(q), "unlink" \notin Allow
  PROVE  Snapshot'
<1> DEFINE D == RegionSlots(q) \cap occ
<1>0. TypeOK /\ marking \subseteq Regions /\ mark \subseteq Slots /\ NoRegion \notin Regions
  BY Held DEF TypeOK
<1>1. /\ UnlinkTargets(D) \cap marking = {}
      /\ marking' = marking \ {q}
      /\ seedTodo' = [seedTodo EXCEPT ![q] = {}] /\ mstk' = [mstk EXCEPT ![q] = {}]
      /\ owner' = [b \in Slabs |-> IF owner[b] = q THEN NoRegion ELSE owner[b]]
      /\ occ' = occ \ RegionSlots(q) /\ mark' = mark \ RegionSlots(q)
      /\ rscnt' = UnlinkChildren(D) /\ field' = WipeFields(D)
      /\ UNCHANGED <<local, ext>>
  BY DEF RegionFree
<1> SUFFICES ASSUME NEW r \in marking, r # q, NEW T \in SUBSET Slots, Covers(r, T)'
             PROVE  HoldsRoots(r, T)'
  BY <1>1 DEF Snapshot
<1>2. /\ D \in SUBSET occ /\ r \notin UnlinkTargets(D) /\ \A x \in D : Region(x) # r
  BY <1>1 DEF RegionSlots
<1>3. /\ \A x \in Slots : Region(x)' = r <=> Region(x) = r
      /\ \A x \in mark : Region(x) = r => x \in mark'
      /\ mstk'[r] = mstk[r] /\ seedTodo'[r] = seedTodo[r]
      /\ occ' = occ \ D
      /\ Roots' \subseteq Roots
  BY <1>0, <1>1 DEF Region, RegionSlots, TypeOK, Roots
<1> HIDE DEF D
<1> QED
  BY <1>1, <1>2, <1>3, DeathSnap

\* What a step of the sweep frees lies in the swept region.
LEMMA SweepFacts ==
  ASSUME SafeInv, SweepStep
  PROVE  \E W \in SUBSET swTodo[cur] :
           /\ cur \in sweeping /\ cur \in Regions
           /\ Dead(W) \in SUBSET occ /\ \A x \in Slots : WordOf[x] \in W => Region(x) = cur
           /\ occ' = occ \ Dead(W)
           /\ rscnt' = UnlinkChildren(Dead(W))
           /\ field' = WipeFields(Dead(W))
           /\ mark' = MarksLeft(W)
           /\ swTodo' = [swTodo EXCEPT ![cur] = @ \ W]
           /\ sweeping' \subseteq sweeping
           /\ "unlink" \in Allow \/ ~Unlinks(W)
<1>0. TypeOK /\ Phases /\ SweepDivides
  BY Held DEF MInv, ColourInv
<1>1. PICK W \in SUBSET swTodo[cur] :
           /\ occ' = occ \ Dead(W)
           /\ rscnt' = UnlinkChildren(Dead(W))
           /\ field' = WipeFields(Dead(W))
           /\ mark' = MarksLeft(W)
           /\ swTodo' = [swTodo EXCEPT ![cur] = @ \ W]
           /\ sweeping' \subseteq sweeping
           /\ "unlink" \in Allow \/ ~Unlinks(W)
  BY DEF SweepStep, Portions
<1>2. cur \in sweeping /\ cur \in Regions
  BY <1>0 DEF SweepStep, Phases, TypeOK
<1>3. \A x \in Slots : WordOf[x] \in W => Region(x) = cur
  BY <1>0, <1>1, <1>2 DEF SweepDivides, RegionWords, Region
<1>4. Dead(W) \in SUBSET occ
  BY DEF Dead
<1> QED
  BY <1>1, <1>2, <1>3, <1>4

\* A sweep that frees no holder of an object of a marking region.
LEMMA SweepSnap ==
  ASSUME SafeInv, SweepStep, "unlink" \notin Allow
  PROVE  Snapshot'
<1>0. /\ TypeOK /\ marking \subseteq Regions /\ mark \subseteq Slots /\ Phases /\ occ \subseteq Slots
  BY Held DEF TypeOK, MInv, ColourInv
<1>1. PICK W \in SUBSET swTodo[cur] :
           /\ cur \in sweeping /\ cur \in Regions
           /\ Dead(W) \in SUBSET occ /\ \A x \in Slots : WordOf[x] \in W => Region(x) = cur
           /\ occ' = occ \ Dead(W)
           /\ rscnt' = UnlinkChildren(Dead(W))
           /\ field' = WipeFields(Dead(W))
           /\ mark' = MarksLeft(W)
           /\ ~Unlinks(W)
  BY SweepFacts
<1>2. UNCHANGED <<owner, local, ext, marking, mstk, seedTodo>>
  BY DEF SweepStep, rootVars, markVars
<1> SUFFICES ASSUME NEW r \in marking, NEW T \in SUBSET Slots, Covers(r, T)'
             PROVE  HoldsRoots(r, T)'
  BY <1>2 DEF Snapshot
<1>3. cur # r
  BY <1>0, <1>1 DEF Phases
<1>4. \A x \in Dead(W) : Region(x) = cur
  BY <1>0, <1>1 DEF Dead
<1>5. r \notin UnlinkTargets(Dead(W))
  BY <1>1 DEF Unlinks
<1>6. /\ \A x \in Slots : Region(x)' = r <=> Region(x) = r
      /\ Roots' \subseteq Roots
  BY <1>2 DEF Region, Roots
<1>7. \A x \in mark : Region(x) = r => x \in mark'
  BY <1>0, <1>1, <1>3 DEF MarksLeft
<1> QED
  BY <1>1, <1>2, <1>3, <1>4, <1>5, <1>6, <1>7, DeathSnap

\* None of the situations that break the protocol (see Situations in Reclaim).
Strict == Allow \cap {"release", "newslab", "unlink", "structmark"} = {}

LEMMA SnapStep ==
  ASSUME SafeInv, [Next]_vars, Strict
  PROVE  Snapshot'
<1>0. "release" \notin Allow /\ "newslab" \notin Allow /\ "unlink" \notin Allow /\ "structmark" \notin Allow
  BY DEF Strict
<1>1. CASE Still
  <2>1. CASE MoveLocal \/ StoreHost \/ MarkResume \/ SeedStep \/ WalkPop
    BY <2>1, MoveSnap, HostSnap, MarkSnap
  <2>2. ASSUME NEW r \in Regions, ResumeRound(r) \/ CheckOwed(r) PROVE Snapshot'
    BY <2>2, QuietSnap DEF ResumeRound, CheckOwed, Abandon, heapVars, rootVars, markVars
  <2>3. CASE Advance \/ TakeNothing \/ WalkEnd \/ SweepWait
    BY <2>3, QuietSnap DEF Advance, TakeNothing, WalkEnd, SweepWait, heapVars, rootVars, roundVars,
                           markVars
  <2>4. CASE Finish
    BY <2>4, QuietSnap DEF Finish, heapVars, rootVars, roundVars, markVars
  <2> QED
    BY <1>0, <1>1, <2>1, <2>2, <2>3, <2>4, BeginSnap DEF Still
<1>2. CASE UNCHANGED vars
  BY <1>2, QuietSnap DEF vars, heapVars, rootVars, roundVars, markVars
<1>3. ASSUME NEW r \in Regions, RegionNew(r) \/ AllocEnter(r) PROVE Snapshot'
  BY <1>3, QuietSnap DEF RegionNew, AllocEnter, heapVars, rootVars, roundVars, markVars
<1>4. CASE Take \/ TakeNewSlab
  BY <1>0, <1>4, BirthFacts, BirthSnap
<1> QED
  BY <1>0, <1>1, <1>2, <1>3, <1>4, Steps, RegionFreeSnap, StoreSnap, ReleaseSnap, SweepSnap

-----------------------------------------------------------------------------
(***************************************************************************)
(* Pins.                                                                   *)
(***************************************************************************)
LEMMA PinFrame ==
  ASSUME SafeInv, occ' \subseteq occ, UNCHANGED <<ext>>,
         \A s \in occ' : Region(s)' = Region(s) /\ pin'[s] = pin[s],
         \A s \in occ' : Region(s) \in noSweep => Region(s) \in noSweep'
  PROVE  PinCovers'
BY DEF SafeInv, PinCovers

\* The outside slots that hold s after ext[h] = v.
LEMMA HolderCount ==
  ASSUME TypeOK, NEW h \in Hosts, NEW v, v # ext[h], ext' = [ext EXCEPT ![h] = v], NEW s
  PROVE  LET c == Cardinality(Holders(s))
             d == Cardinality(Holders(s)')
         IN /\ c \in Nat /\ d \in Nat
            /\ s = v => d = c + 1
            /\ s = ext[h] => d = c - 1
            /\ s # v /\ s # ext[h] => d = c
<1> DEFINE A == Holders(s)
           B == Holders(s)'
<1>0. A \in SUBSET Hosts /\ B \in SUBSET Hosts
  BY DEF Holders
<1>1. IsFiniteSet(A) /\ Cardinality(A) \in Nat /\ IsFiniteSet(B) /\ Cardinality(B) \in Nat
  <2> HIDE DEF A, B
  <2> QED
    BY <1>0, HoldersFinite
<1>2. /\ s = v => B = A \cup {h} /\ h \notin A
      /\ s = ext[h] => B = A \ {h} /\ h \in A
      /\ s # v /\ s # ext[h] => B = A
  BY DEF TypeOK, Holders
<1> HIDE DEF A, B
<1>3. s = v => Cardinality(B) = Cardinality(A) + 1
  BY <1>1, <1>2, FS_AddElement
<1>4. s = ext[h] => Cardinality(B) = Cardinality(A) - 1
  BY <1>1, <1>2, FS_RemoveElement
<1>5. /\ Cardinality(A) \in Nat /\ Cardinality(B) \in Nat
      /\ s = v => Cardinality(B) = Cardinality(A) + 1
      /\ s = ext[h] => Cardinality(B) = Cardinality(A) - 1
      /\ s # v /\ s # ext[h] => Cardinality(B) = Cardinality(A)
  BY <1>1, <1>2, <1>3, <1>4
<1> QED
  BY <1>5 DEF A, B

\* A store from outside pins its new value or gives up sweeping its region.
LEMMA PinHost ==
  ASSUME SafeInv, StoreHost
  PROVE  PinCovers'
<1>0. TypeOK /\ occ \subseteq Slots
  BY Held DEF TypeOK
<1>1. PICK h \in Hosts, v \in Values :
        \/ StoreUnknown(h, v, TRUE) \/ StoreUnknown(h, v, FALSE) \/ StoreStructUnknown(h, v)
  <2>1. PICK h \in Hosts, v \in Values :
          (\E pinned \in BOOLEAN : StoreUnknown(h, v, pinned)) \/ StoreStructUnknown(h, v)
    BY ONLY StoreHost DEF StoreHost
  <2>2. ASSUME NEW pinned \in BOOLEAN, StoreUnknown(h, v, pinned)
        PROVE  StoreUnknown(h, v, TRUE) \/ StoreUnknown(h, v, FALSE)
    <3>1. CASE pinned = TRUE
      BY ONLY <2>2, <3>1
    <3>2. CASE pinned = FALSE
      BY ONLY <2>2, <3>2
    <3> QED BY <3>1, <3>2
  <2> QED BY ONLY <2>1, <2>2
<1>2. /\ v # ext[h] /\ ext' = [ext EXCEPT ![h] = v] /\ UNCHANGED <<owner, occ>>
      /\ noSweep \subseteq noSweep'
  BY <1>1 DEF StoreUnknown, StoreStructUnknown
<1> SUFFICES ASSUME NEW s \in occ, Region(s) \notin noSweep'
             PROVE  pin'[s] >= Cardinality(Holders(s)')
  BY <1>2 DEF PinCovers, Region, Holders
<1> DEFINE c == Cardinality(Holders(s))
           d == Cardinality(Holders(s)')
<1>3. /\ c \in Nat /\ d \in Nat
      /\ s = v => d = c + 1
      /\ s = ext[h] => d = c - 1
      /\ s # v /\ s # ext[h] => d = c
  BY <1>0, <1>2, HolderCount
<1>4. pin[s] >= c /\ pin[s] \in Nat /\ s \in Slots
  BY <1>0, <1>2 DEF SafeInv, PinCovers, TypeOK, Holders
<1>5. /\ s = v => pin'[s] = pin[s] + 1
      /\ s = ext[h] => pin'[s] = pin[s] \/ pin'[s] = PinDrop(pin[s])
      /\ s # v /\ s # ext[h] => pin'[s] = pin[s]
  <2>1. CASE StoreUnknown(h, v, TRUE)
    BY <1>2, <1>4, <2>1 DEF StoreUnknown
  <2>2. CASE StoreUnknown(h, v, FALSE)
    <3>1. s # v
      BY <2>2 DEF StoreUnknown
    <3> QED
      BY <1>2, <1>4, <2>2, <3>1 DEF StoreUnknown
  <2>3. CASE StoreStructUnknown(h, v)
    <3>1. s # v
      BY <2>3 DEF StoreStructUnknown
    <3> QED
      BY <1>2, <2>3, <3>1 DEF StoreStructUnknown
  <2> QED
    BY <1>1, <2>1, <2>2, <2>3
<1> HIDE DEF c, d
<1>6. pin'[s] >= d
  BY <1>2, <1>3, <1>4, <1>5 DEF PinDrop
<1> QED
  BY <1>6 DEF d

LEMMA PinBirth ==
  ASSUME SafeInv, NEW s, NEW l, BirthEffect(s, l)
  PROVE  PinCovers'
<1>0. /\ TypeOK /\ OccOwned /\ NoRegion \notin alive /\ occ \subseteq Slots
  BY Held DEF TypeOK
<1>1. occ' = occ \cup {s} /\ s \in Slots \ occ /\ UNCHANGED <<ext, pin, noSweep>>
  BY DEF BirthEffect, TakeSlot, partVars
<1>2. \A x \in occ : Region(x)' = Region(x)
  BY <1>0 DEF BirthEffect, OccOwned, Region
<1>3. {h \in Hosts : ext[h] = s} = {}
  BY <1>0, <1>1, Held DEF Roots
<1>4. pin[s] \in Nat /\ pin[s] >= 0 /\ Cardinality({h \in Hosts : ext[h] = s}) = 0
  <2>1. pin[s] \in 0..PinMax
    BY <1>0, <1>1 DEF TypeOK
  <2>2. Cardinality({h \in Hosts : ext[h] = s}) = 0
    BY ONLY <1>3, FS_EmptySet
  <2>3. pin[s] \in Nat /\ pin[s] >= 0
    BY <2>1
  <2> QED
    BY ONLY <2>2, <2>3
<1> QED
  BY <1>1, <1>2, <1>4 DEF SafeInv, PinCovers

LEMMA PinStep ==
  ASSUME SafeInv, [Next]_vars, "newslab" \notin Allow
  PROVE  PinCovers'
<1>0. TypeOK /\ occ \subseteq Slots
  BY Held DEF TypeOK
<1>1. CASE Still
  <2>1. CASE StoreHost
    BY <2>1, PinHost
  <2>2. ASSUME ~StoreHost
        PROVE  UNCHANGED <<owner, occ, ext, pin, noSweep>>
    <3>1. CASE MoveLocal
      BY <3>1 DEF MoveLocal, LoadField, LoadHost, DropLocal, CopyLocal, SetLocal, StoreLocal,
                  heapVars, partVars
    <3>2. CASE \E r \in Regions : ResumeRound(r) \/ CheckOwed(r) \/ BeginRound(r)
      BY <3>2 DEF ResumeRound, CheckOwed, BeginRound, heapVars, rootVars, partVars
    <3>3. CASE \/ Advance \/ TakeNothing \/ MarkResume \/ SeedStep \/ WalkPop \/ WalkEnd
               \/ Finish \/ SweepWait
      BY <3>3 DEF Advance, TakeNothing, MarkResume, SeedStep, WalkPop, WalkEnd, Finish, SweepWait,
                  heapVars, rootVars, partVars
    <3> QED
      BY <1>1, <2>2, <3>1, <3>2, <3>3 DEF Still
  <2> QED
    BY <2>1, <2>2, PinFrame DEF Region
<1>2. CASE UNCHANGED vars
  BY <1>2, PinFrame DEF vars, heapVars, rootVars, partVars, Region
<1>3. ASSUME NEW r \in Regions, RegionNew(r) \/ AllocEnter(r) PROVE PinCovers'
  BY <1>3, PinFrame DEF RegionNew, AllocEnter, heapVars, rootVars, partVars, Region
<1>4. ASSUME NEW r \in Regions, RegionFree(r) PROVE PinCovers'
  <2>1. /\ noSweep' = noSweep \ {r} /\ occ' = occ \ RegionSlots(r) /\ UNCHANGED ext
        /\ pin' = [s \in Slots |-> IF s \in RegionSlots(r) THEN 0 ELSE pin[s]]
        /\ owner' = [b \in Slabs |-> IF owner[b] = r THEN NoRegion ELSE owner[b]]
    BY <1>4 DEF RegionFree
  <2>2. \A s \in occ' : /\ Region(s)' = Region(s) /\ pin'[s] = pin[s]
                        /\ Region(s) # r
    BY <1>0, <2>1 DEF Region, RegionSlots
  <2> QED
    BY <2>1, <2>2, PinFrame
<1>5. ASSUME NEW o, NEW f, NEW v, AnyStore(o, f, v) PROVE PinCovers'
  BY <1>5, PinFrame DEF AnyStore, StoreOwned, StoreSameRegion, StoreStruct, rootVars, partVars, Region
<1>6. ASSUME NEW l, NEW k, Release(l, k) PROVE PinCovers'
  BY <1>6, PinFrame DEF Release, partVars, Region
<1>7. CASE SweepStep
  BY <1>7, PinFrame DEF SweepStep, rootVars, partVars, Region
<1>8. CASE Take \/ TakeNewSlab
  BY <1>8, BirthFacts, PinBirth
<1> QED
  BY <1>1, <1>2, <1>3, <1>4, <1>5, <1>6, <1>7, <1>8, Steps

-----------------------------------------------------------------------------
(***************************************************************************)
(* What the program can reach.                                             *)
(***************************************************************************)
\* Nothing is freed, stored or swept, and the roots stay within S.
LEMMA KeepFrame ==
  ASSUME SafeInv, NEW S \in SUBSET Slots, Keeps(S), UNCHANGED <<owner, occ, field, swTodo>>,
         Roots' \subseteq S, sweeping' \subseteq sweeping, mark \subseteq mark'
  PROVE  Keeps(S)'
BY DEF Keeps, Region, CrossEdge

\* Only Finish makes a sweep free what S does not protect yet.
LEMMA KeepStill ==
  ASSUME SafeInv, NEW S \in SUBSET Slots, Keeps(S), Still, ~Finish
  PROVE  Keeps(S)'
<1>0. TypeOK /\ Roots \subseteq S /\ \A o \in S, f \in Fields : field[o][f] \in S \cup {Null}
  BY Held DEF Keeps
<1>1. UNCHANGED <<owner, occ, field>>
  BY <1>0, StillFacts
<1>2. CASE MoveLocal
  <2>1. PICK l \in Locals, v \in S \cup {Null} :
          /\ local' = [local EXCEPT ![l] = v]
          /\ UNCHANGED <<ext, sweeping, swTodo>> /\ (mark' = mark \/ \E V : Shade(V))
    <3>1. \A l \in Locals : local[l] \in S \cup {Null}
      BY <1>0 DEF Roots
    <3>2. \A h \in Hosts : ext[h] \in S \cup {Null}
      BY <1>0 DEF Roots
    <3>3. ASSUME NEW l \in Locals, NEW v \in S \cup {Null}, SetLocal(l, v)
          PROVE  \E m \in Locals, w \in S \cup {Null} :
                   /\ local' = [local EXCEPT ![m] = w]
                   /\ UNCHANGED <<ext, sweeping, swTodo>> /\ (mark' = mark \/ \E V : Shade(V))
      BY <3>3 DEF SetLocal, heapVars, roundVars, sweepVars
    <3>4. CASE \E l, k \in Locals, f \in Fields : LoadField(l, k, f)
      <4>1. PICK l \in Locals, k \in Locals, f \in Fields : LoadField(l, k, f)
        BY <3>4
      <4>2. local[k] \in S
        BY <1>0, <3>1, <4>1 DEF LoadField, TypeOK
      <4> QED
        BY <1>0, <3>3, <4>1, <4>2 DEF LoadField
    <3>5. CASE \E l \in Locals, h \in Hosts : LoadHost(l, h)
      BY <3>2, <3>3, <3>5 DEF LoadHost
    <3>6. CASE \E l \in Locals : DropLocal(l)
      BY <3>3, <3>6 DEF DropLocal
    <3>7. CASE \E l, k \in Locals : CopyLocal(l, k)
      BY <3>1, <3>3, <3>7 DEF CopyLocal
    <3>8. CASE \E l, k \in Locals : StoreLocal(l, k)
      BY <3>1, <3>8 DEF StoreLocal, roundVars, sweepVars
    <3> QED
      BY <1>2, <3>4, <3>5, <3>6, <3>7, <3>8 DEF MoveLocal
  <2>2. Roots' \subseteq S
    BY <1>0, <2>1 DEF Roots, TypeOK
  <2>3. mark \subseteq mark'
    BY <2>1, ShadeAdds
  <2> QED
    BY <1>1, <2>1, <2>2, <2>3, KeepFrame
<1>3. CASE StoreHost
  <2>1. PICK h \in Hosts, v \in Values :
          /\ ext' = [ext EXCEPT ![h] = v] /\ \E V : Shade(V)
          /\ UNCHANGED <<local, sweeping, swTodo>>
    BY <1>3 DEF StoreHost, StoreUnknown, StoreStructUnknown, roundVars, sweepVars
  <2>2. v \in Roots \cup {Null}
    BY ValuesHeld
  <2>3. Roots' \subseteq S
    BY <1>0, <2>1, <2>2 DEF Roots, TypeOK
  <2> QED
    BY <1>1, <2>1, <2>3, ShadeAdds, KeepFrame
<1>4. ASSUME UNCHANGED <<local, ext, swTodo>>, mark \subseteq mark', sweeping' \subseteq sweeping
      PROVE  Keeps(S)'
  BY <1>0, <1>1, <1>4, KeepFrame DEF Roots
<1>5. CASE \E r \in Regions : ResumeRound(r) \/ CheckOwed(r) \/ BeginRound(r)
  BY <1>4, <1>5 DEF ResumeRound, CheckOwed, Abandon, BeginRound, heapVars, rootVars, roundVars,
                    sweepVars
<1>6. CASE Advance \/ TakeNothing \/ MarkResume \/ SeedStep \/ WalkEnd \/ SweepWait
  BY <1>4, <1>6 DEF Advance, TakeNothing, MarkResume, SeedStep, WalkEnd, SweepWait, heapVars,
                    rootVars, roundVars, sweepVars
<1>7. CASE WalkPop
  BY <1>4, <1>7 DEF WalkPop, Pop, rootVars, roundVars, sweepVars
<1> QED
  BY <1>2, <1>3, <1>5, <1>6, <1>7 DEF Still

LEMMA KeepStore ==
  ASSUME SafeInv, NEW S \in SUBSET Slots, Keeps(S),
         NEW o \in occ, NEW f \in Fields, NEW v \in Values, AnyStore(o, f, v)
  PROVE  Keeps(S)'
<1>0. /\ TypeOK /\ occ \subseteq Slots /\ StoreEffect(o, f, v) /\ v \in S \cup {Null}
  BY Held, StoreFacts, ValuesHeld DEF TypeOK, Keeps
<1>1. /\ UNCHANGED <<owner, occ, local, ext, sweeping, swTodo>> /\ \E V : Shade(V)
  BY DEF AnyStore, StoreOwned, StoreSameRegion, StoreStruct, rootVars, roundVars, sweepVars
<1>2. /\ field'[o][f] = v
      /\ \A x \in Slots, g \in Fields : <<x, g>> # <<o, f>> => field'[x][g] = field[x][g]
  BY <1>0 DEF StoreEffect, TypeOK
<1>3. mark \subseteq mark' /\ Roots' = Roots
  BY <1>1, ShadeAdds DEF Roots
<1>4. \A x \in S, g \in Fields : field'[x][g] \in S \cup {Null}
  BY <1>0, <1>2 DEF Keeps
<1>5. ASSUME NEW x \in occ, NEW g \in Fields, CrossEdge(x, g)' PROVE field'[x][g] \in S
  <2>1. CASE <<x, g>> = <<o, f>>
    BY <1>0, <1>2, <1>5, <2>1 DEF CrossEdge
  <2>2. CASE <<x, g>> # <<o, f>>
    BY <1>0, <1>1, <1>2, <1>5, <2>2 DEF CrossEdge, Region, Keeps
  <2> QED
    BY <2>1, <2>2
<1> QED
  BY <1>1, <1>3, <1>4, <1>5 DEF Keeps, Region

\* A new object is black where the sweep has still to come.
LEMMA KeepBirth ==
  ASSUME SafeInv, NEW S \in SUBSET Slots, Keeps(S), NEW s, NEW l, BirthEffect(s, l)
  PROVE  Keeps(S \cup {s})'
<1>0. /\ TypeOK /\ OccOwned /\ NoRegion \notin alive /\ occ \subseteq Slots /\ S \subseteq occ
      /\ CursorSplits
  BY Held DEF TypeOK, Keeps, SafeInv, RoundInv
<1>1. /\ occ' = occ \cup {s} /\ s \in Slots \ occ
      /\ mark' = IF BornBlack(cur, s) THEN mark \cup {s} ELSE mark
      /\ field' = [field EXCEPT ![s] = [f \in Fields |-> Null]]
      /\ local' = [local EXCEPT ![l] = s]
      /\ UNCHANGED <<ext, sweeping, swTodo>>
  BY DEF BirthEffect, TakeSlot, roundVars, sweepVars
<1>2. \A x \in Slots : Region(x) \in alive => owner'[SlabOf[WordOf[x]]] = Region(x)
  BY <1>0 DEF BirthEffect
<1>3. \A x \in occ : Region(x)' = Region(x) /\ field'[x] = field[x]
  BY <1>0, <1>1, <1>2 DEF OccOwned, Region, TypeOK
<1>4. Region(s)' = cur /\ \A f \in Fields : field'[s][f] = Null
  BY <1>0, <1>1 DEF BirthEffect, Region, TypeOK
<1>5. Roots' \subseteq S \cup {s}
  <2>1. Roots \subseteq S
    BY DEF Keeps
  <2> QED
    BY <1>0, <1>1, <2>1 DEF Roots, TypeOK
<1>6. \A x \in S \cup {s}, g \in Fields : field'[x][g] \in (S \cup {s}) \cup {Null}
  BY <1>0, <1>3, <1>4 DEF Keeps
<1>7. ASSUME NEW x \in occ', NEW g \in Fields, CrossEdge(x, g)' PROVE field'[x][g] \in S
  <2>1. x \in occ /\ field[x][g] # Null /\ field'[x][g] = field[x][g]
    BY <1>1, <1>3, <1>4, <1>7 DEF CrossEdge
  <2>2. field[x][g] \in Slots /\ Region(field[x][g]) \in alive
    BY <1>0, <2>1 DEF SafeInv, EdgeInv, DepthRule, TypeOK, Ref
  <2>3. Region(field[x][g]) # Region(x)
    BY <1>2, <1>3, <1>7, <2>1, <2>2 DEF Region, CrossEdge
  <2>4. CrossEdge(x, g)
    BY <1>0, <2>1, <2>2, <2>3 DEF CrossEdge
  <2> QED
    BY <2>1, <2>4 DEF Keeps
<1>8. ASSUME NEW x \in S \cup {s}, Region(x)' \in sweeping, WordOf[x] \in swTodo[Region(x)']
      PROVE  x \in mark'
  <2>1. CASE x = s
    BY <1>0, <1>1, <1>4, <1>8, <2>1 DEF BornBlack, CursorSplits
  <2>2. CASE x \in S
    BY <1>0, <1>1, <1>3, <1>8, <2>2 DEF Keeps
  <2> QED
    BY <2>1, <2>2
<1> QED
  BY <1>0, <1>1, <1>5, <1>6, <1>7, <1>8 DEF Keeps

\* When the marking of r has run out of work, its black objects are closed
\* under the fields and hold the roots and what other regions refer to.
LEMMA MarkedEnough ==
  ASSUME SafeInv, NEW r \in marking, MarkComplete(r)
  PROVE  /\ \A s \in Roots : Region(s) = r => s \in mark
         /\ \A o \in occ, f \in Fields : CrossEdge(o, f) /\ Region(field[o][f]) = r
                                           => field[o][f] \in mark
         /\ \A o \in occ \cap mark, f \in Fields :
              Region(o) = r /\ field[o][f] \in occ /\ Region(field[o][f]) = r
                => field[o][f] \in mark
<1> DEFINE T == {s \in occ \cap mark : Region(s) = r}
<1>0. BlackClosed /\ T \in SUBSET Slots
  BY Held DEF MInv, ColourInv, TypeOK
<1>1. \A o \in occ \cap mark, f \in Fields :
        Region(o) = r /\ field[o][f] \in occ /\ Region(field[o][f]) = r
          => field[o][f] \in mark
  BY <1>0 DEF BlackClosed, MarkComplete
<1>2. Covers(r, T)
  BY <1>1 DEF Covers, MarkComplete
<1>3. HoldsRoots(r, T)
  BY <1>0, <1>2 DEF SafeInv, RoundInv, Snapshot
<1> QED
  BY <1>1, <1>3 DEF HoldsRoots

\* At the end of the mark phase the white objects of the region leave S.
LEMMA KeepFinish ==
  ASSUME SafeInv, NEW S \in SUBSET Slots, Keeps(S), Finish
  PROVE  LiveCore'
<1>0. TypeOK /\ UNCHANGED <<owner, occ, mark, field, local, ext>> /\ S \subseteq occ
  BY Held DEF Finish, heapVars, rootVars, Keeps
<1>1. CASE UNCHANGED <<sweeping, swTodo>>
  <2>1. Roots' \subseteq S
    BY <1>0 DEF Roots, Keeps
  <2>2. Keeps(S)'
    BY <1>0, <1>1, <2>1, KeepFrame
  <2> QED
    BY <2>2 DEF LiveCore
<1>2. CASE /\ cur \in marking /\ MarkComplete(cur)
           /\ sweeping' = sweeping \cup {cur}
           /\ swTodo' = [swTodo EXCEPT ![cur] = RegionWords(cur)]
  <2>0. PICK Q \in SUBSET Slots : Q = {s \in S : Region(s) = cur => s \in mark}
    OBVIOUS
  <2>1. cur \in Regions
    BY <1>0, <1>2 DEF TypeOK
  <2>2. Roots' \subseteq Q
    BY <1>0, <1>2, <2>0, MarkedEnough DEF Roots, Keeps
  <2>3. \A o \in Q, f \in Fields : field[o][f] \in Q \cup {Null}
    <3> SUFFICES ASSUME NEW o \in Q, NEW f \in Fields, field[o][f] # Null,
                        Region(field[o][f]) = cur
                 PROVE  field[o][f] \in mark
      BY <2>0 DEF Keeps
    <3>1. field[o][f] \in occ /\ o \in occ
      BY <1>0, <2>0 DEF Keeps
    <3>2. CASE Region(o) = cur
      BY <1>2, <2>0, <3>1, <3>2, MarkedEnough
    <3>3. CASE Region(o) # cur
      <4>1. CrossEdge(o, f)
        BY <2>1, <3>3 DEF CrossEdge
      <4> QED
        BY <1>2, <3>1, <4>1, MarkedEnough
    <3> QED
      BY <3>2, <3>3
  <2>4. \A o \in occ, f \in Fields : CrossEdge(o, f) => field[o][f] \in Q
    BY <1>2, <2>0, MarkedEnough DEF Keeps
  <2>5. \A s \in Q : Region(s) \in sweeping' /\ WordOf[s] \in swTodo'[Region(s)] => s \in mark
    BY <1>0, <1>2, <2>0, <2>1 DEF Keeps, TypeOK
  <2>6. Keeps(Q)'
    <3>1. Q \subseteq occ'
      BY <1>0, <2>0
    <3> QED
      BY <1>0, <2>2, <2>3, <2>4, <2>5, <3>1 DEF Keeps, Region, CrossEdge
  <2> QED
    BY <2>6 DEF LiveCore
<1> QED
  BY <1>1, <1>2 DEF Finish

\* The sweep frees nothing of S.
LEMMA KeepSweep ==
  ASSUME SafeInv, NEW S \in SUBSET Slots, Keeps(S), SweepStep
  PROVE  Keeps(S)'
<1>0. TypeOK /\ S \subseteq occ /\ occ \subseteq Slots
  BY Held DEF Keeps, TypeOK
<1>1. PICK W \in SUBSET swTodo[cur] :
           /\ cur \in sweeping /\ cur \in Regions
           /\ Dead(W) \in SUBSET occ /\ \A x \in Slots : WordOf[x] \in W => Region(x) = cur
           /\ occ' = occ \ Dead(W)
           /\ rscnt' = UnlinkChildren(Dead(W))
           /\ field' = WipeFields(Dead(W))
           /\ mark' = MarksLeft(W)
           /\ swTodo' = [swTodo EXCEPT ![cur] = @ \ W]
           /\ sweeping' \subseteq sweeping
  BY SweepFacts
<1>2. UNCHANGED <<owner, local, ext>>
  BY DEF SweepStep, rootVars
<1>3. S \cap Dead(W) = {}
  BY <1>0, <1>1 DEF Keeps, Dead
<1>4. \A x \in occ \ Dead(W) : field'[x] = field[x]
  BY <1>0, <1>1 DEF WipeFields
<1>5. S \subseteq occ' /\ Roots' \subseteq S
  BY <1>0, <1>1, <1>2, <1>3 DEF Roots, Keeps
<1>6. \A o \in S, f \in Fields : field'[o][f] \in S \cup {Null}
  BY <1>0, <1>3, <1>4 DEF Keeps
<1>7. \A o \in occ', f \in Fields : CrossEdge(o, f)' => field'[o][f] \in S
  BY <1>1, <1>2, <1>4 DEF CrossEdge, Region, Keeps
<1>8. \A s \in S : Region(s) \in sweeping' /\ WordOf[s] \in swTodo'[Region(s)] => s \in mark'
  BY <1>0, <1>1 DEF Keeps, TypeOK, MarksLeft
<1> QED
  BY <1>2, <1>5, <1>6, <1>7, <1>8 DEF Keeps, Region

\* A region ends: nothing outside it refers into it.
LEMMA KeepRegionFree ==
  ASSUME SafeInv, NEW S \in SUBSET Slots, Keeps(S), NEW r \in Regions, RegionFree(r)
  PROVE  LiveCore'
<1> DEFINE D == RegionSlots(r) \cap occ
<1>set. PICK Q \in SUBSET Slots : Q = S \ RegionSlots(r)
  OBVIOUS
<1>0. TypeOK /\ S \subseteq occ /\ occ \subseteq Slots /\ alive \subseteq Regions /\ OccOwned
  BY Held DEF Keeps, TypeOK
<1>1. /\ r \in alive /\ \A q \in alive : Depth[q] <= Depth[r]
      /\ \A l \in Locals : local[l] \notin RegionSlots(r)
      /\ \A h \in Hosts : ext[h] \notin RegionSlots(r)
      /\ sweeping' = sweeping \ {r} /\ swTodo' = [swTodo EXCEPT ![r] = {}]
      /\ owner' = [b \in Slabs |-> IF owner[b] = r THEN NoRegion ELSE owner[b]]
      /\ occ' = occ \ RegionSlots(r) /\ mark' = mark \ RegionSlots(r)
      /\ field' = WipeFields(D)
      /\ UNCHANGED <<local, ext>>
  BY DEF RegionFree
<1>2. \A x \in occ' : x \in occ /\ Region(x)' = Region(x) /\ Region(x) # r /\ field'[x] = field[x]
  BY <1>0, <1>1 DEF Region, RegionSlots, WipeFields
<1>3. Q \subseteq occ' /\ Roots' \subseteq Q
  BY <1>0, <1>1, <1>set DEF Roots, Keeps
<1>4. ASSUME NEW o \in occ', NEW f \in Fields, field[o][f] # Null
      PROVE  field[o][f] \notin RegionSlots(r)
  BY <1>0, <1>1, <1>2, <1>4, DeepestUnheld DEF RegionSlots
<1>5. \A o \in Q, f \in Fields : field'[o][f] \in Q \cup {Null}
  BY <1>2, <1>3, <1>4, <1>set DEF Keeps
<1>6. ASSUME NEW o \in occ', NEW f \in Fields, CrossEdge(o, f)' PROVE field'[o][f] \in Q
  <2>1. o \in occ /\ field[o][f] # Null /\ field'[o][f] = field[o][f] /\ field[o][f] \in Slots
    BY <1>0, <1>2, <1>6 DEF CrossEdge, TypeOK, Ref
  <2>2. Region(field[o][f]) \in alive /\ field[o][f] \notin RegionSlots(r)
    BY <1>4, <1>6, <2>1 DEF SafeInv, EdgeInv, DepthRule
  <2>3. owner'[SlabOf[WordOf[field[o][f]]]] = Region(field[o][f])
    BY <1>0, <1>1, <2>1, <2>2 DEF Region, RegionSlots
  <2>4. CrossEdge(o, f)
    BY <1>2, <1>6, <2>1, <2>3 DEF CrossEdge, Region
  <2> QED
    BY <1>set, <2>1, <2>2, <2>4 DEF Keeps
<1>7. ASSUME NEW s \in Q, Region(s)' \in sweeping', WordOf[s] \in swTodo'[Region(s)']
      PROVE  s \in mark'
  <2>1. Region(s)' = Region(s) /\ Region(s) # r /\ s \in S
    BY <1>2, <1>3, <1>set
  <2>2. swTodo'[Region(s)] = swTodo[Region(s)]
    BY <1>0, <1>1, <1>7, <2>1 DEF TypeOK
  <2> QED
    BY <1>1, <1>7, <1>set, <2>1, <2>2 DEF Keeps
<1>8. Keeps(Q)'
  BY <1>3, <1>5, <1>6, <1>7 DEF Keeps
<1> QED
  BY <1>8 DEF LiveCore

\* A targeted release frees only what its one reference alone kept.
LEMMA KeepRelease ==
  ASSUME SafeInv, NEW S \in SUBSET Slots, Keeps(S), NEW l \in Locals, NEW k \in Locals,
         Release(l, k), "release" \notin Allow, "unlink" \notin Allow
  PROVE  LiveCore'
<1>0. TypeOK /\ S \subseteq occ /\ occ \subseteq Slots
  BY Held DEF Keeps, TypeOK
<1>1. PICK home, dead, kept : SafeRelease(l, k, home, dead, kept)
  BY ReleaseIsSafe
<1>set. PICK Q \in SUBSET Slots : Q = {s \in S : Region(s) = home => s \in kept}
  OBVIOUS
<1> USE DEF SafeRelease
<1>2. Q \subseteq occ' /\ Q \cap dead = {}
  BY <1>set, <1>0, <1>1
<1>3. \A x \in occ \ dead : field'[x] = field[x]
  BY <1>set, <1>0, <1>1 DEF WipeFields
<1>4. ASSUME NEW s \in Roots' PROVE s \in Q
  <2>1. s \in Roots
    BY <1>set, <1>0, <1>1 DEF Roots, TypeOK
  <2>2. s \in S /\ s \in occ
    BY <1>set, <1>0, <2>1 DEF Keeps
  <2>3. CASE \E y \in Locals \ {l} : s = local[y]
    BY <1>set, <1>1, <2>2, <2>3
  <2>4. CASE \E h \in Hosts : s = ext[h]
    <3>1. Region(s) = home => s \in Pinned(home)
      BY <1>set, <1>1, <2>1, <2>4, HeldPinned DEF Roots
    <3> QED
      BY <1>set, <1>1, <2>2, <3>1
  <2>5. (\E y \in Locals \ {l} : s = local[y]) \/ \E h \in Hosts : s = ext[h]
    BY <1>set, <1>0, <1>1 DEF Roots, TypeOK
  <2> QED
    BY <1>set, <2>3, <2>4, <2>5
<1>5. ASSUME NEW o \in occ, NEW f \in Fields, CrossEdge(o, f) PROVE field[o][f] \in Q
  <2>1. field[o][f] \in S /\ field[o][f] \in occ /\ rscnt[field[o][f]] > 0
    BY <1>set, <1>5, CrossCounted DEF Keeps
  <2> QED
    BY <1>set, <1>1, <2>1
<1>6. \A o \in Q, f \in Fields : field[o][f] \in Q \cup {Null}
  <2> SUFFICES ASSUME NEW o \in Q, NEW f \in Fields, field[o][f] # Null
               PROVE  field[o][f] \in Q
    BY <1>set
  <2>1. o \in occ /\ field[o][f] \in S /\ field[o][f] \in occ
    BY <1>set, <1>0 DEF Keeps
  <2>2. CASE Region(o) = home /\ Region(field[o][f]) = home
    BY <1>set, <1>1, <2>1, <2>2
  <2>3. CASE Region(o) # home /\ Region(field[o][f]) = home
    <3>0. home # NoRegion /\ field[o][f] # Null
      BY <1>1, ConstantsOK
    <3>1. CrossEdge(o, f)
      BY ONLY <2>3, <3>0 DEF CrossEdge
    <3> QED
      BY <1>set, <1>5, <2>1, <3>1
  <2> QED
    BY <1>set, <2>1, <2>2, <2>3
<1>7. \A s \in Q : Region(s) \in sweeping' /\ WordOf[s] \in swTodo'[Region(s)] => s \in mark'
  BY <1>set, <1>0, <1>1 DEF Keeps, RegionSlots
<1>8. UNCHANGED owner /\ occ' = occ \ dead
  BY <1>set, <1>1
<1>9. Keeps(Q)'
  <2> HIDE DEF SafeRelease
  <2>1. \A o \in Q, f \in Fields : field'[o][f] \in Q \cup {Null}
    BY <1>set, <1>2, <1>3, <1>6, <1>8
  <2>2. \A o \in occ', f \in Fields : CrossEdge(o, f)' => field'[o][f] \in Q
    BY <1>set, <1>3, <1>5, <1>8 DEF CrossEdge, Region
  <2> QED
    BY <1>set, <1>2, <1>4, <1>7, <1>8, <2>1, <2>2 DEF Keeps, Region
<1> QED
  BY <1>9 DEF LiveCore

LEMMA LiveStep ==
  ASSUME SafeInv, [Next]_vars, Strict
  PROVE  LiveCore'
<1>0. "release" \notin Allow /\ "newslab" \notin Allow /\ "unlink" \notin Allow
  BY DEF Strict
<1>1. PICK S \in SUBSET Slots : Keeps(S)
  BY DEF SafeInv, LiveCore
<1>2. CASE Still
  BY <1>1, <1>2, KeepStill, KeepFinish DEF LiveCore
<1>3. ASSUME \/ UNCHANGED vars
             \/ \E r \in Regions : RegionNew(r) \/ AllocEnter(r)
      PROVE  LiveCore'
  <2>1. /\ UNCHANGED <<owner, occ, mark, field, local, ext, swTodo>> /\ sweeping' \subseteq sweeping
    BY <1>3 DEF vars, RegionNew, AllocEnter, heapVars, rootVars, roundVars, sweepVars
  <2>2. Roots' \subseteq S
    BY <1>1, <2>1 DEF Roots, Keeps
  <2>3. Keeps(S)'
    BY <1>1, <2>1, <2>2, KeepFrame
  <2> QED
    BY <2>3 DEF LiveCore
<1>4. ASSUME NEW r \in Regions, RegionFree(r) PROVE LiveCore'
  BY <1>1, <1>4, KeepRegionFree
<1>5. ASSUME NEW o \in occ, NEW f \in Fields, NEW v \in Values, AnyStore(o, f, v)
      PROVE  LiveCore'
  BY <1>1, <1>5, KeepStore DEF LiveCore
<1>6. CASE SweepStep
  BY <1>1, <1>6, KeepSweep DEF LiveCore
<1>7. CASE Take \/ TakeNewSlab
  <2>1. PICK s, l : BirthEffect(s, l)
    BY <1>0, <1>7, BirthFacts
  <2>2. Keeps(S \cup {s})' /\ S \cup {s} \in SUBSET Slots
    BY <1>1, <2>1, KeepBirth DEF BirthEffect
  <2> QED
    BY <2>2 DEF LiveCore
<1> QED
  BY <1>0, <1>1, <1>2, <1>3, <1>4, <1>5, <1>6, <1>7, Steps, KeepRelease

-----------------------------------------------------------------------------
(***************************************************************************)
(* The theorems.                                                           *)
(***************************************************************************)
LEMMA SafeInvariant == Strict => (Spec => []SafeInv)
<1> SUFFICES ASSUME Strict PROVE Spec => []SafeInv
  OBVIOUS
<1>0. "newslab" \notin Allow /\ "unlink" \notin Allow
  BY DEF Strict
<1>1. Init => SafeInv
  <2> SUFFICES ASSUME Init PROVE SafeInv
    OBVIOUS
  <2>1. MInv
    BY DEF Init, MInv, TInv, TypeOK, OccOwned, RoundsAlive, Ref, ColourInv,
           MarkOwned, Phases, SweepDivides, MarksClean, BlackClosed
  <2>2. EdgeInv
    BY DEF Init, EdgeInv, DepthsApart, DepthRule, PartCounts, CrossKnown, RsHeld
  <2>3. RoundInv /\ PinCovers
    BY DEF Init, RoundInv, CursorSplits, Snapshot, PinCovers
  <2>4. Keeps({})
    BY DEF Init, Keeps, Roots
  <2> QED
    BY <2>1, <2>2, <2>3, <2>4 DEF SafeInv, LiveCore
<1>2. SafeInv /\ [Next]_vars => SafeInv'
  <2> SUFFICES ASSUME SafeInv, [Next]_vars PROVE SafeInv'
    OBVIOUS
  <2>1. MInv'
    BY <1>0, Held, ColourStep
  <2>2. EdgeInv' /\ PinCovers'
    BY <1>0, EdgeStep, PinStep
  <2>3. RoundInv'
    BY CursorStep, SnapStep DEF RoundInv
  <2>4. LiveCore'
    BY LiveStep
  <2> QED
    BY <2>1, <2>2, <2>3, <2>4 DEF SafeInv
<1> QED
  BY <1>1, <1>2, PTL DEF Spec

\* Memory safety of the region collector, for every number of regions, slabs,
\* slots, fields, frame slots and outside slots and every budget: no object that
\* a frame slot or an outside slot reaches is ever freed by an incremental round,
\* a targeted release or the end of an arena, however the program loads, stores,
\* allocates and releases between the steps.  The four situations of the
\* condition are the ones the runtime does not take into account (see Reclaim).
THEOREM ReachableStays ==
  Allow \cap {"release", "newslab", "unlink", "structmark"} = {} => (Spec => []LiveIntact)
<1>1. SafeInv => LiveIntact
  <2> SUFFICES ASSUME SafeInv, NEW s \in Reachable PROVE s \in occ
    BY DEF LiveIntact
  <2>1. PICK S \in SUBSET Slots : Keeps(S)
    BY DEF SafeInv, LiveCore
  <2>2. Roots \subseteq S /\ FieldClosed(S) /\ S \subseteq occ
    BY <2>1 DEF Keeps, FieldClosed
  <2> QED
    BY <2>2 DEF Reachable
<1> QED
  BY <1>1, SafeInvariant, PTL DEF Strict

\* When a mark phase has run out of work every reference in the program's hands
\* into its region is black, although loads and frame slots have no barrier.
THEOREM RootsFound ==
  Allow \cap {"release", "newslab", "unlink", "structmark"} = {} => (Spec => []RootsBlack)
<1>1. SafeInv => RootsBlack
  BY MarkedEnough DEF RootsBlack
<1> QED
  BY <1>1, SafeInvariant, PTL DEF Strict

\* A reference held from outside every slab is pinned as often as it is held, or
\* its region has left sweeping: stores that pin, that cannot pin and that copy
\* whole values in any order.
THEOREM PinsCover ==
  Allow \cap {"release", "newslab", "unlink", "structmark"} = {} => (Spec => []PinCovers)
<1>1. SafeInv => PinCovers
  BY DEF SafeInv
<1> QED
  BY <1>1, SafeInvariant, PTL DEF Strict

\* Where no store bypasses the registration, rscnt counts exactly the living
\* cross-region edges of a slot, until it sticks at its limit: partN, foreign
\* and seedAny never make a store skip a registration that is owed.
THEOREM RegistrationExact == Allow = {} => (Spec => []RsExact)
<1> SUFFICES ASSUME Allow = {} PROVE Spec => []RsExact
  OBVIOUS
<1>1. SafeInv => RsExact
  BY DEF SafeInv, EdgeInv, RsHeld, Registered, RsExact
<1>2. Strict
  BY DEF Strict
<1> QED
  BY <1>1, <1>2, SafeInvariant, PTL

-----------------------------------------------------------------------------
(***************************************************************************)
(* Every mark phase runs out of work.  The sizes of the five sets a phase  *)
(* is made of are weighed so that each mark step pays for what it creates: *)
(* first the arithmetic, then the sets, then the steps.                    *)
(***************************************************************************)
\* The weight of w white objects, b pushed by the barrier, s fields under the
\* scan cursor, p plain entries and d seed words, for n fields and k slots.
Weigh(n, k, w, b, s, p, d) ==
  (2 * n + 2) * w + (2 * n + 1) * b + 2 * s + p + (k + 1) * d

LEMMA TimesUp ==
  ASSUME NEW a \in Nat, NEW u \in Nat, NEW v \in Nat, NEW e \in Nat, u + e <= v
  PROVE  /\ a * u \in Nat /\ a * v \in Nat /\ a * e \in Nat
         /\ a * u + a * e <= a * v
<1>1. PICK g \in Nat : v = u + e + g
  <2>1. v - (u + e) \in Nat
    OBVIOUS
  <2> QED
    BY <2>1
<1>2. a * u \in Nat /\ a * e \in Nat /\ a * g \in Nat
  OBVIOUS
<1>3. a * v = a * u + a * e + a * g
  BY <1>1
<1> QED
  BY <1>2, <1>3

\* x white objects became black and were pushed.
LEMMA ShadeWeighs ==
  ASSUME NEW n \in Nat, NEW k \in Nat, NEW w \in Nat, NEW b \in Nat, NEW s \in Nat,
         NEW p \in Nat, NEW d \in Nat, NEW w2 \in Nat, NEW b2 \in Nat, NEW x \in Nat,
         w2 + x <= w, b2 <= b + x
  PROVE  Weigh(n, k, w2, b2, s, p, d) <= Weigh(n, k, w, b, s, p, d)
<1>1. PICK a \in Nat : a = 2 * n + 1
  OBVIOUS
<1>2. PICK w3 \in Nat : w3 = w2 + x
  OBVIOUS
<1>3. PICK b3 \in Nat : b3 = b + x
  OBVIOUS
<1>4. /\ (a + 1) * w3 <= (a + 1) * w /\ (a + 1) * w3 \in Nat /\ (a + 1) * w \in Nat
      /\ a * b2 <= a * b3 /\ a * b2 \in Nat /\ a * b3 \in Nat
  <2>1. 0 \in Nat /\ a + 1 \in Nat /\ w3 + 0 <= w /\ b2 + 0 <= b3
    BY <1>2, <1>3
  <2>2. (a + 1) * w3 + (a + 1) * 0 <= (a + 1) * w
    BY ONLY <2>1, <1>2, TimesUp, w \in Nat, w3 \in Nat
  <2>3. a * b2 + a * 0 <= a * b3
    BY ONLY <2>1, <1>1, <1>3, TimesUp, b2 \in Nat, b3 \in Nat, a \in Nat
  <2> QED
    BY <2>2, <2>3
<1>5. /\ (a + 1) * w3 = (a + 1) * w2 + a * x + x
      /\ a * b3 = a * b + a * x
      /\ (a + 1) * w2 \in Nat /\ a * x \in Nat /\ a * b \in Nat
  BY <1>2, <1>3
<1>6. (a + 1) * w2 + a * b2 <= (a + 1) * w + a * b
  BY <1>4, <1>5
<1>7. PICK q \in Nat : q = (k + 1) * d
  OBVIOUS
<1>8. 2 * n + 2 = a + 1
  BY <1>1
<1> QED
  BY <1>1, <1>4, <1>5, <1>6, <1>7, <1>8 DEF Weigh

\* A white object or a pushed one is done with, and its fields are pending.
LEMMA PopWeighs ==
  ASSUME NEW n \in Nat, NEW k \in Nat, NEW w \in Nat, NEW b \in Nat, NEW s \in Nat,
         NEW p \in Nat, NEW d \in Nat, NEW w2 \in Nat, NEW b2 \in Nat, NEW s2 \in Nat,
         NEW p2 \in Nat, w2 <= w, b2 <= b, w2 + 1 <= w \/ b2 + 1 <= b,
         2 * s2 + p2 <= 2 * s + p + 2 * n
  PROVE  Weigh(n, k, w2, b2, s2, p2, d) < Weigh(n, k, w, b, s, p, d)
<1>1. PICK a \in Nat : a = 2 * n + 1
  OBVIOUS
<1>2. /\ (a + 1) * w2 <= (a + 1) * w /\ (a + 1) * w2 \in Nat /\ (a + 1) * w \in Nat
      /\ a * b2 <= a * b /\ a * b2 \in Nat /\ a * b \in Nat
  <2>1. 0 \in Nat /\ a + 1 \in Nat /\ w2 + 0 <= w /\ b2 + 0 <= b
    OBVIOUS
  <2>2. (a + 1) * w2 + (a + 1) * 0 <= (a + 1) * w
    BY ONLY <2>1, TimesUp, w \in Nat, w2 \in Nat
  <2>3. a * b2 + a * 0 <= a * b
    BY ONLY <2>1, TimesUp, b2 \in Nat, b \in Nat, a \in Nat
  <2> QED
    BY <2>2, <2>3
<1>3. (a + 1) * w2 + a * b2 + a <= (a + 1) * w + a * b
  <2>0. 1 \in Nat /\ a + 1 \in Nat
    OBVIOUS
  <2>1. CASE w2 + 1 <= w
    <3>1. (a + 1) * w2 + (a + 1) * 1 <= (a + 1) * w
      BY ONLY <2>0, <2>1, TimesUp, w \in Nat, w2 \in Nat
    <3> QED
      BY <1>2, <3>1
  <2>2. CASE b2 + 1 <= b
    <3>1. a * b2 + a * 1 <= a * b
      BY ONLY <2>0, <2>2, TimesUp, b \in Nat, b2 \in Nat, a \in Nat
    <3> QED
      BY <1>2, <3>1
  <2> QED
    BY <2>1, <2>2
<1>4. PICK q \in Nat : q = (k + 1) * d
  OBVIOUS
<1>5. 2 * n + 2 = a + 1
  BY <1>1
<1> QED
  BY <1>1, <1>2, <1>3, <1>4, <1>5 DEF Weigh

\* c fields were scanned and x seed words read.
LEMMA StepWeighs ==
  ASSUME NEW n \in Nat, NEW k \in Nat, NEW w \in Nat, NEW b \in Nat, NEW s \in Nat,
         NEW p \in Nat, NEW d \in Nat, NEW s2 \in Nat, NEW p2 \in Nat, NEW d2 \in Nat,
         NEW c \in Nat, NEW x \in 0..1, s2 + c <= s, d2 + x <= d,
         p2 <= p + c + (IF x = 1 THEN k ELSE 0), c + x >= 1
  PROVE  Weigh(n, k, w, b, s2, p2, d2) < Weigh(n, k, w, b, s, p, d)
<1>1. PICK a \in Nat : a = (2 * n + 2) * w + (2 * n + 1) * b
  OBVIOUS
<1>2. /\ (k + 1) * d2 + (k + 1) * x <= (k + 1) * d
      /\ (k + 1) * d2 \in Nat /\ (k + 1) * d \in Nat
  <2>1. k + 1 \in Nat /\ x \in Nat
    OBVIOUS
  <2> QED
    BY ONLY <2>1, TimesUp, d \in Nat, d2 \in Nat, d2 + x <= d
<1>3. (k + 1) * x = IF x = 1 THEN k + 1 ELSE 0
  OBVIOUS
<1> QED
  BY <1>1, <1>2, <1>3 DEF Weigh

\* The work of a phase as a function of its five sets, and what these are.
Load(W, B, S, P, D) ==
  Weigh(Cardinality(Fields), Cardinality(Slots), Cardinality(W), Cardinality(B),
        Cardinality(S), Cardinality(P), Cardinality(D))
Sets(W, B, S, P, D) ==
  /\ W \subseteq Slots /\ B \subseteq Slots /\ P \subseteq Slots
  /\ S \subseteq Slots \X Fields /\ D \subseteq Words

LEMMA Counts ==
  ASSUME NEW W, NEW B, NEW S, NEW P, NEW D, Sets(W, B, S, P, D)
  PROVE  /\ IsFiniteSet(W) /\ IsFiniteSet(B) /\ IsFiniteSet(S) /\ IsFiniteSet(P)
         /\ IsFiniteSet(D)
         /\ Cardinality(W) \in Nat /\ Cardinality(B) \in Nat /\ Cardinality(S) \in Nat
         /\ Cardinality(P) \in Nat /\ Cardinality(D) \in Nat
         /\ Cardinality(Fields) \in Nat /\ Cardinality(Slots) \in Nat
<1>1. IsFiniteSet(Slots \X Fields) /\ IsFiniteSet(Slots) /\ IsFiniteSet(Words)
  BY FS_Product
<1>2. /\ W \in SUBSET Slots /\ B \in SUBSET Slots /\ P \in SUBSET Slots
      /\ S \in SUBSET (Slots \X Fields) /\ D \in SUBSET Words
  BY DEF Sets
<1>3. /\ IsFiniteSet(W) /\ IsFiniteSet(B) /\ IsFiniteSet(S) /\ IsFiniteSet(P)
      /\ IsFiniteSet(D)
  BY ONLY <1>1, <1>2, FS_Subset
<1> QED
  BY <1>3, FS_CardinalityType

\* A set that lost the elements X, and one that gained no more than X.
LEMMA Parted ==
  ASSUME NEW A, IsFiniteSet(A), NEW X \in SUBSET A, NEW T, T \subseteq A \ X
  PROVE  /\ Cardinality(T) \in Nat /\ Cardinality(X) \in Nat /\ Cardinality(A) \in Nat
         /\ Cardinality(T) + Cardinality(X) <= Cardinality(A)
<1>1. IsFiniteSet(A \ X) /\ Cardinality(A \ X) = Cardinality(A) - Cardinality(A \cap X)
  BY FS_Difference
<1>2. A \cap X = X /\ T \in SUBSET (A \ X)
  OBVIOUS
<1>3. IsFiniteSet(T) /\ Cardinality(T) <= Cardinality(A \ X)
  BY <1>1, <1>2, FS_Subset
<1>4. IsFiniteSet(X)
  BY FS_Subset
<1>5. /\ Cardinality(T) \in Nat /\ Cardinality(X) \in Nat /\ Cardinality(A) \in Nat
      /\ Cardinality(A \ X) \in Nat
  BY <1>1, <1>3, <1>4, FS_CardinalityType
<1> QED
  BY ONLY <1>1, <1>2, <1>3, <1>5

LEMMA Joined ==
  ASSUME NEW A, IsFiniteSet(A), NEW X, IsFiniteSet(X), NEW T, T \subseteq A \cup X
  PROVE  /\ Cardinality(T) \in Nat /\ Cardinality(X) \in Nat /\ Cardinality(A) \in Nat
         /\ Cardinality(T) <= Cardinality(A) + Cardinality(X)
<1>1. /\ IsFiniteSet(A \cup X)
      /\ Cardinality(A \cup X) = Cardinality(A) + Cardinality(X) - Cardinality(A \cap X)
  BY FS_Union
<1>2. T \in SUBSET (A \cup X) /\ A \cap X \in SUBSET X
  OBVIOUS
<1>3. IsFiniteSet(T) /\ Cardinality(T) <= Cardinality(A \cup X)
  BY <1>1, <1>2, FS_Subset
<1>4. IsFiniteSet(A \cap X)
  BY <1>2, FS_Subset
<1>5. /\ Cardinality(T) \in Nat /\ Cardinality(X) \in Nat /\ Cardinality(A) \in Nat
      /\ Cardinality(A \cup X) \in Nat /\ Cardinality(A \cap X) \in Nat
  BY <1>1, <1>3, <1>4, FS_CardinalityType
<1> QED
  BY ONLY <1>1, <1>3, <1>5

\* What a function names is no more than its domain.
LEMMA Named ==
  ASSUME NEW A, IsFiniteSet(A), NEW h
  PROVE  LET T == {h[x] : x \in A}
         IN  /\ IsFiniteSet(T)
             /\ Cardinality(T) \in Nat /\ Cardinality(T) <= Cardinality(A)
<1> DEFINE T == {h[x] : x \in A}
           g == [x \in A |-> h[x]]
<1>1. g \in Surjection(A, T)
  BY DEF Surjection
<1> HIDE DEF g
<1>2. IsFiniteSet(T) /\ Cardinality(T) <= Cardinality(A)
  BY <1>1, FS_Surjection
<1> QED
  BY <1>2, FS_CardinalityType

\* Fewer white objects and the same cursors: no more work.
LEMMA FewerLoad ==
  ASSUME NEW W, NEW B, NEW S, NEW P, NEW D, Sets(W, B, S, P, D),
         NEW W2, W2 \subseteq W
  PROVE  Load(W2, B, S, P, D) <= Load(W, B, S, P, D)
<1>1. {} \in SUBSET W /\ W2 \subseteq W \ {}
  OBVIOUS
<1>2. Cardinality(W2) + Cardinality({}) <= Cardinality(W) /\ Cardinality(W2) \in Nat
  BY <1>1, Parted, Counts
<1>3. Cardinality({}) = 0 /\ 0 \in Nat
  BY FS_EmptySet
<1>4. /\ Cardinality(W2) + 0 <= Cardinality(W)
      /\ Cardinality(B) <= Cardinality(B) + 0
  BY <1>2, <1>3, Counts
<1> QED
  BY <1>2, <1>3, <1>4, Counts, ShadeWeighs DEF Load

\* White objects are coloured and pushed: no more work.
LEMMA ShadedLoad ==
  ASSUME NEW W, NEW B, NEW S, NEW P, NEW D, Sets(W, B, S, P, D),
         NEW X \in SUBSET W, NEW W2, W2 \subseteq W \ X
  PROVE  Load(W2, B \cup X, S, P, D) <= Load(W, B, S, P, D)
<1>1. /\ Cardinality(W2) + Cardinality(X) <= Cardinality(W)
      /\ Cardinality(W2) \in Nat /\ Cardinality(X) \in Nat
  BY Parted, Counts
<1>2. IsFiniteSet(X)
  BY Counts, FS_Subset
<1>3. /\ Cardinality(B \cup X) \in Nat
      /\ Cardinality(B \cup X) <= Cardinality(B) + Cardinality(X)
  BY <1>2, Joined, Counts
<1> QED
  BY <1>1, <1>3, Counts, ShadeWeighs DEF Load

\* One object, white or pushed, is done with; its fields are under the scan
\* cursor, or what they name is pushed: less work.
LEMMA ScannedLoad ==
  ASSUME NEW W, NEW B, NEW P, NEW D, Sets(W, B, {}, P, D), NEW o \in Slots,
         NEW W2, W2 \subseteq W, NEW B2, B2 \subseteq B,
         \/ o \in W /\ o \notin W2
         \/ o \in B /\ o \notin B2,
         NEW S2, NEW P2, NEW h,
         \/ S2 = {o} \X Fields /\ P2 \subseteq P
         \/ S2 = {} /\ P2 \subseteq P \cup {h[f] : f \in Fields}
  PROVE  Load(W2, B2, S2, P2, D) < Load(W, B, {}, P, D)
<1> DEFINE n == Cardinality(Fields)
<1>0. Cardinality({}) = 0 /\ IsFiniteSet({})
  BY FS_EmptySet
<1>1. /\ IsFiniteSet(W) /\ IsFiniteSet(B) /\ IsFiniteSet(P) /\ IsFiniteSet(Fields)
      /\ n \in Nat /\ Cardinality(W) \in Nat /\ Cardinality(B) \in Nat
      /\ Cardinality(P) \in Nat /\ Cardinality(D) \in Nat /\ Cardinality(Slots) \in Nat
  BY Counts
<1>2. ASSUME NEW A, IsFiniteSet(A), NEW T, T \subseteq A
      PROVE  /\ Cardinality(T) \in Nat /\ Cardinality(T) <= Cardinality(A)
             /\ o \in A /\ o \notin T => Cardinality(T) + 1 <= Cardinality(A)
  <2>1. T \in SUBSET A
    BY <1>2
  <2>2. IsFiniteSet(T) /\ Cardinality(T) <= Cardinality(A)
        /\ (Cardinality(A) = Cardinality(T) => A = T)
    BY <1>2, <2>1, FS_Subset
  <2>3. Cardinality(T) \in Nat /\ Cardinality(A) \in Nat
    BY <1>2, <2>2, FS_CardinalityType
  <2> QED
    BY <2>2, <2>3
<1>3. /\ Cardinality(W2) \in Nat /\ Cardinality(W2) <= Cardinality(W)
      /\ Cardinality(B2) \in Nat /\ Cardinality(B2) <= Cardinality(B)
      /\ \/ Cardinality(W2) + 1 <= Cardinality(W)
         \/ Cardinality(B2) + 1 <= Cardinality(B)
  BY <1>1, <1>2
<1>4. /\ Cardinality(S2) \in Nat /\ Cardinality(P2) \in Nat
      /\ 2 * Cardinality(S2) + Cardinality(P2) <= Cardinality(P) + 2 * n
  <2>1. CASE S2 = {o} \X Fields /\ P2 \subseteq P
    <3>1. IsFiniteSet({o}) /\ Cardinality({o}) = 1
      BY FS_Singleton
    <3>2. Cardinality(S2) = 1 * n
      BY <1>1, <2>1, <3>1, FS_Product
    <3>3. Cardinality(P2) \in Nat /\ Cardinality(P2) <= Cardinality(P)
      BY <1>1, <1>2, <2>1
    <3> HIDE DEF n
    <3> QED
      BY <1>1, <3>2, <3>3
  <2>2. CASE S2 = {} /\ P2 \subseteq P \cup {h[f] : f \in Fields}
    <3> DEFINE N == {h[f] : f \in Fields}
    <3>1. IsFiniteSet(N) /\ Cardinality(N) \in Nat /\ Cardinality(N) <= n
      BY <1>1, Named
    <3>2. P2 \subseteq P \cup N
      BY <2>2
    <3> HIDE DEF N
    <3>3. Cardinality(P2) \in Nat /\ Cardinality(P2) <= Cardinality(P) + Cardinality(N)
      BY <1>1, <3>1, <3>2, Joined
    <3> HIDE DEF n
    <3> QED
      BY <1>0, <1>1, <2>2, <3>1, <3>3
  <2> QED
    BY <2>1, <2>2
<1>5. 0 \in Nat /\ 2 * Cardinality(S2) + Cardinality(P2) <= 2 * 0 + Cardinality(P) + 2 * n
  BY <1>1, <1>4
<1> HIDE DEF n
<1>6. Weigh(n, Cardinality(Slots), Cardinality(W2), Cardinality(B2), Cardinality(S2),
            Cardinality(P2), Cardinality(D))
        < Weigh(n, Cardinality(Slots), Cardinality(W), Cardinality(B), 0,
                Cardinality(P), Cardinality(D))
  BY <1>1, <1>3, <1>4, <1>5, PopWeighs
<1> QED
  BY <1>0, <1>6 DEF Load, n

\* An entry is skipped: less work.
LEMMA SkippedLoad ==
  ASSUME NEW W, NEW B, NEW S, NEW P, NEW D, Sets(W, B, S, P, D),
         NEW o, o \in P
  PROVE  Load(W, B, S, P \ {o}, D) < Load(W, B, S, P, D)
<1>1. /\ IsFiniteSet(P) /\ Cardinality(W) \in Nat /\ Cardinality(B) \in Nat
      /\ Cardinality(S) \in Nat /\ Cardinality(P) \in Nat /\ Cardinality(D) \in Nat
      /\ Cardinality(Fields) \in Nat /\ Cardinality(Slots) \in Nat
  BY Counts
<1>2. Cardinality(P \ {o}) = Cardinality(P) - 1
  BY <1>1, FS_RemoveElement
<1>3. PICK a \in Nat : a = (2 * Cardinality(Fields) + 2) * Cardinality(W)
                            + (2 * Cardinality(Fields) + 1) * Cardinality(B)
                            + 2 * Cardinality(S)
  BY <1>1
<1>4. PICK c \in Nat : c = (Cardinality(Slots) + 1) * Cardinality(D)
  BY <1>1
<1>5. PICK p \in Nat : p = Cardinality(P)
  BY <1>1
<1>6. Load(W, B, S, P, D) = a + p + c
  BY <1>3, <1>4, <1>5 DEF Load, Weigh
<1>7. Load(W, B, S, P \ {o}, D) = a + (p - 1) + c
  BY <1>2, <1>3, <1>4, <1>5 DEF Load, Weigh
<1> QED
  BY ONLY <1>6, <1>7, a \in Nat, c \in Nat, p \in Nat

\* The fields C are scanned and the seed words E read: less work.
LEMMA SteppedLoad ==
  ASSUME NEW W, NEW B, NEW S, NEW P, NEW D, Sets(W, B, S, P, D),
         NEW C \in SUBSET S, NEW E \in SUBSET D, C # {} \/ E # {},
         NEW A \in SUBSET Slots, E = {} => A = {}, NEW h,
         NEW P2, P2 \subseteq P \cup A \cup {h[e] : e \in C}
  PROVE  Load(W, B, S \ C, P2, D \ E) < Load(W, B, S, P, D)
<1>1. /\ IsFiniteSet(S) /\ IsFiniteSet(P) /\ IsFiniteSet(D)
      /\ Cardinality(W) \in Nat /\ Cardinality(B) \in Nat
      /\ Cardinality(S) \in Nat /\ Cardinality(P) \in Nat /\ Cardinality(D) \in Nat
      /\ Cardinality(Fields) \in Nat /\ Cardinality(Slots) \in Nat
  BY Counts
<1>2. IsFiniteSet(C) /\ IsFiniteSet(E)
  BY <1>1, FS_Subset
<1>3. /\ Cardinality(S \ C) + Cardinality(C) <= Cardinality(S)
      /\ Cardinality(S \ C) \in Nat /\ Cardinality(C) \in Nat
  BY <1>1, Parted
<1>4. /\ Cardinality(D \ E) + Cardinality(E) <= Cardinality(D)
      /\ Cardinality(D \ E) \in Nat /\ Cardinality(E) \in Nat
  BY <1>1, Parted
<1>5. (Cardinality(C) = 0 <=> C = {}) /\ (Cardinality(E) = 0 <=> E = {})
  BY <1>2, FS_EmptySet
<1>6. PICK x \in 0..1 : x = IF E = {} THEN 0 ELSE 1
  OBVIOUS
<1>7. Cardinality(D \ E) + x <= Cardinality(D) /\ Cardinality(C) + x >= 1
  BY <1>1, <1>3, <1>4, <1>5, <1>6
<1>8. IsFiniteSet(A) /\ Cardinality(A) \in Nat /\ Cardinality(A) <= Cardinality(Slots)
      /\ (x = 0 => Cardinality(A) = 0)
  BY <1>6, FS_Subset, FS_CardinalityType, FS_EmptySet
<1>9. PICK N : N = {h[e] : e \in C}
  OBVIOUS
<1>10. IsFiniteSet(N) /\ Cardinality(N) \in Nat /\ Cardinality(N) <= Cardinality(C)
  BY <1>2, <1>9, Named
<1>11. /\ IsFiniteSet(A \cup N)
       /\ Cardinality(A \cup N) \in Nat
       /\ Cardinality(A \cup N) <= Cardinality(A) + Cardinality(N)
  <2>1. A \cup N \subseteq A \cup N
    OBVIOUS
  <2> QED
    BY <1>8, <1>10, <2>1, Joined, FS_Union
<1>12. P2 \subseteq P \cup (A \cup N)
  BY <1>9
<1>13. /\ Cardinality(P2) \in Nat
       /\ Cardinality(P2) <= Cardinality(P) + Cardinality(A \cup N)
  BY <1>1, <1>11, <1>12, Joined
<1>14. Cardinality(P2) <= Cardinality(P) + Cardinality(C)
                            + (IF x = 1 THEN Cardinality(Slots) ELSE 0)
  BY ONLY <1>1, <1>3, <1>6, <1>8, <1>10, <1>11, <1>13
<1> QED
  BY <1>1, <1>3, <1>4, <1>7, <1>13, <1>14, StepWeighs DEF Load

LEMMA LoadNat ==
  ASSUME NEW W, NEW B, NEW S, NEW P, NEW D, Sets(W, B, S, P, D)
  PROVE  Load(W, B, S, P, D) \in Nat
<1>1. PICK n \in Nat, k \in Nat, w \in Nat, b \in Nat, s \in Nat, p \in Nat, d \in Nat :
        /\ n = Cardinality(Fields) /\ k = Cardinality(Slots) /\ w = Cardinality(W)
        /\ b = Cardinality(B) /\ s = Cardinality(S) /\ p = Cardinality(P)
        /\ d = Cardinality(D)
  BY Counts
<1>2. Weigh(n, k, w, b, s, p, d) \in Nat
  BY DEF Weigh
<1> QED
  BY <1>1, <1>2 DEF Load

\* What MarkingShrinks says of one step and one region.
Falls(r) ==
  /\ MarkWork(r)' <= MarkWork(r)
  /\ pc # "mutator" /\ Cursors(r)' # Cursors(r) => MarkWork(r)' < MarkWork(r)

\* Before and after a step the work of a region is that of its five sets.
LEMMA WorkIs ==
  ASSUME TypeOK, TypeOK', NEW r \in Regions
  PROVE  /\ MarkWork(r) = Load(White(r), force[r], scan[r], mstk[r], seedTodo[r])
         /\ MarkWork(r)' = Load(White(r)', force'[r], scan'[r], mstk'[r], seedTodo'[r])
         /\ Sets(White(r), force[r], scan[r], mstk[r], seedTodo[r])
         /\ MarkWork(r) \in Nat /\ MarkWork(r)' \in Nat
<1>1. MarkWork(r) = Load(White(r), force[r], scan[r], mstk[r], seedTodo[r])
  BY DEF MarkWork, Load, Weigh
<1>2. MarkWork(r)' = Load(White(r)', force'[r], scan'[r], mstk'[r], seedTodo'[r])
  BY DEF MarkWork, Load, Weigh
<1>3. Sets(White(r), force[r], scan[r], mstk[r], seedTodo[r])
  BY DEF Sets, White, TypeOK
<1>4. Sets(White(r)', force'[r], scan'[r], mstk'[r], seedTodo'[r])
  BY DEF Sets, White, TypeOK
<1> QED
  BY <1>1, <1>2, <1>3, <1>4, LoadNat

\* The cursors stay and no object of the region becomes white.
LEMMA FrameFalls ==
  ASSUME TypeOK, TypeOK', NEW r \in Regions,
         seedTodo'[r] = seedTodo[r], mstk'[r] = mstk[r], force'[r] = force[r],
         scan'[r] = scan[r], White(r)' \subseteq White(r)
  PROVE  Falls(r)
<1>1. Load(White(r)', force[r], scan[r], mstk[r], seedTodo[r])
        <= Load(White(r), force[r], scan[r], mstk[r], seedTodo[r])
  BY WorkIs, FewerLoad
<1>2. Cursors(r)' = Cursors(r)
  BY DEF Cursors
<1> QED
  BY <1>1, <1>2, WorkIs DEF Falls

\* The barrier: what is pushed was white.
LEMMA ShadeFalls ==
  ASSUME TypeOK, TypeOK', NEW r \in marking, NEW V, Shade(V), pc = "mutator",
         UNCHANGED <<owner, occ, seedTodo, mstk, scan>>
  PROVE  Falls(r)
<1>0. r \in Regions
  BY DEF TypeOK
<1> DEFINE X == {v \in Shaded(V) : Region(v) = r}
<1>1. X \in SUBSET White(r)
  BY DEF Shaded, White
<1>2. White(r)' \subseteq White(r) \ X
  BY DEF Shade, Shaded, White, Region
<1>3. force'[r] = force[r] \cup X
  BY <1>0 DEF Shade
<1> HIDE DEF X
<1>4. Load(White(r)', force[r] \cup X, scan[r], mstk[r], seedTodo[r])
        <= Load(White(r), force[r], scan[r], mstk[r], seedTodo[r])
  BY <1>0, <1>1, <1>2, WorkIs, ShadedLoad
<1>5. MarkWork(r)' <= MarkWork(r)
  BY <1>0, <1>3, <1>4, WorkIs
<1> QED
  BY <1>5 DEF Falls

\* A popped entry is skipped, or its object is done with and its fields pend.
LEMMA WalkFalls ==
  ASSUME TypeOK, TypeOK', NEW r \in Regions, WalkPop
  PROVE  Falls(r)
<1>0. cur \in Regions /\ scan[cur] = {} /\ UNCHANGED <<owner, occ, field, seedTodo>>
  BY DEF WalkPop, TypeOK
<1>1. PICK p \in Slots, forced \in BOOLEAN :
        /\ Pop(p, forced)
        /\ IF forced THEN p \in force[cur] ELSE p \in mstk[cur]
  BY <1>0 DEF WalkPop, TypeOK
<1>2. mark \subseteq mark'
  BY <1>1 DEF Pop
<1>3. White(r)' \subseteq White(r)
  BY <1>0, <1>2 DEF White, Region
<1>4. CASE r # cur
  <2>1. mstk'[r] = mstk[r] /\ force'[r] = force[r] /\ scan'[r] = scan[r]
    BY <1>1, <1>4 DEF Pop, TypeOK
  <2> QED
    BY <1>0, <1>3, <2>1, FrameFalls
<1>5. CASE r = cur
  <2> DEFINE scans == /\ Region(p) = cur /\ p \in occ
                      /\ forced \/ p \notin mark
             h == [f \in Fields |-> field[p][f]]
  <2>1. /\ mstk'[r] = (IF forced THEN mstk[r] ELSE mstk[r] \ {p}) \cup
                        (IF scans /\ Cardinality(Fields) <= ScanChunk
                         THEN Children(p, Fields) \ {p} ELSE {})
        /\ force'[r] = IF forced THEN force[r] \ {p} ELSE force[r]
    BY <1>1, <1>5 DEF Pop, TypeOK
  <2>2. IF scans
        THEN /\ mark' = mark \cup {p}
             /\ scan'[r] = IF Cardinality(Fields) > ScanChunk
                           THEN {p} \X Fields ELSE {}
        ELSE UNCHANGED <<mark, scan>>
    BY <1>1, <1>5 DEF Pop, TypeOK
  <2>3. Sets(White(r), force[r], {}, mstk[r], seedTodo[r])
    BY <1>0, <1>5, WorkIs
  <2>4. MarkWork(r)' < MarkWork(r)
    <3>1. CASE scans
      <4>1. \/ p \in White(r) /\ p \notin White(r)'
            \/ p \in force[r] /\ p \notin force'[r]
        BY <1>1, <1>5, <2>1, <2>2, <3>1 DEF White
      <4>2. force'[r] \subseteq force[r]
        BY <2>1
      <4>3. Children(p, Fields) \subseteq {h[f] : f \in Fields}
        BY DEF Children
      <4>4. \/ scan'[r] = {p} \X Fields /\ mstk'[r] \subseteq mstk[r]
            \/ scan'[r] = {} /\ mstk'[r] \subseteq mstk[r] \cup {h[f] : f \in Fields}
        <5>1. Cardinality(Fields) \in Nat
          BY FS_CardinalityType
        <5>2. CASE Cardinality(Fields) > ScanChunk
          <6>1. ~(Cardinality(Fields) <= ScanChunk)
            BY <5>1, <5>2
          <6> QED
            BY <2>1, <2>2, <3>1, <5>2, <6>1
        <5>3. CASE ~(Cardinality(Fields) > ScanChunk)
          BY <2>1, <2>2, <3>1, <4>3, <5>3
        <5> QED
          BY <5>2, <5>3
      <4> HIDE DEF h, scans
      <4>5. Load(White(r)', force'[r], scan'[r], mstk'[r], seedTodo[r])
              < Load(White(r), force[r], {}, mstk[r], seedTodo[r])
        BY <1>3, <2>3, <4>1, <4>2, <4>4, ScannedLoad
      <4> QED
        BY <1>0, <1>5, <4>5, WorkIs
    <3>2. CASE ~scans
      <4>1. White(r)' = White(r) /\ scan'[r] = scan[r] /\ seedTodo'[r] = seedTodo[r]
        BY <1>0, <2>2, <3>2 DEF White, Region
      <4>2. CASE forced
        <5>1. mstk'[r] = mstk[r] /\ force'[r] = force[r] \ {p} /\ p \in force[r]
          BY <1>1, <1>5, <2>1, <3>2, <4>2
        <5>2. \/ scan[r] = {p} \X Fields /\ mstk[r] \subseteq mstk[r]
              \/ scan[r] = {} /\ mstk[r] \subseteq mstk[r] \cup {h[f] : f \in Fields}
          BY <1>0, <1>5
        <5>3. White(r) \subseteq White(r) /\ force[r] \ {p} \subseteq force[r]
              /\ p \notin force[r] \ {p}
          OBVIOUS
        <5> HIDE DEF h, scans
        <5>4. Load(White(r), force[r] \ {p}, scan[r], mstk[r], seedTodo[r])
                < Load(White(r), force[r], {}, mstk[r], seedTodo[r])
          BY <2>3, <5>1, <5>2, <5>3, ScannedLoad
        <5> QED
          BY <1>0, <1>5, <4>1, <5>1, <5>4, WorkIs
      <4>3. CASE ~forced
        <5>1. mstk'[r] = mstk[r] \ {p} /\ force'[r] = force[r] /\ p \in mstk[r]
          BY <1>1, <1>5, <2>1, <3>2, <4>3
        <5> HIDE DEF h, scans
        <5>2. Load(White(r), force[r], scan[r], mstk[r] \ {p}, seedTodo[r])
                < Load(White(r), force[r], scan[r], mstk[r], seedTodo[r])
          BY <5>1, WorkIs, SkippedLoad
        <5> QED
          BY <4>1, <5>1, <5>2, WorkIs
      <4> QED
        BY <4>2, <4>3
    <3> QED
      BY <3>1, <3>2
  <2> QED
    BY <2>4, WorkIs DEF Falls
<1> QED
  BY <1>4, <1>5

\* Fields are scanned, seed words are read, or nothing was left of either.
LEMMA StepFalls ==
  ASSUME TypeOK, TypeOK', NEW r \in Regions, MarkResume \/ SeedStep
  PROVE  Falls(r)
<1>0. cur \in Regions
  BY DEF MarkResume, SeedStep, TypeOK
<1>1. PICK C \in SUBSET scan[cur], E \in SUBSET seedTodo[cur] :
        /\ MarkResume => C # {}
        /\ mstk' = [mstk EXCEPT ![cur] =
                      @ \cup Seeds(E) \cup UNION {Children(e[1], {e[2]}) : e \in C}]
        /\ scan' = [scan EXCEPT ![cur] = @ \ C]
        /\ seedTodo' = [seedTodo EXCEPT ![cur] = @ \ E]
  <2>1. CASE MarkResume
    <3>1. PICK C \in Portions(scan[cur], ScanChunk),
               E \in Portions(seedTodo[cur], SeedBudget) :
            /\ mstk' = [mstk EXCEPT ![cur] =
                          @ \cup Seeds(E) \cup UNION {Children(e[1], {e[2]}) : e \in C}]
            /\ scan' = [scan EXCEPT ![cur] = @ \ C]
            /\ seedTodo' = [seedTodo EXCEPT ![cur] = @ \ E]
      BY <2>1 DEF MarkResume, ScanRest
    <3>2. C \in SUBSET scan[cur] /\ E \in SUBSET seedTodo[cur]
      BY DEF Portions
    <3>3. C # {}
      <4>1. scan[cur] # {}
        BY <2>1 DEF MarkResume
      <4>2. Cardinality(C) = ScanChunk \/ C = scan[cur]
        BY DEF Portions
      <4> QED
        BY <4>1, <4>2, FS_EmptySet
    <3> QED
      BY <3>1, <3>2, <3>3
  <2>2. CASE SeedStep
    <3>1. PICK E \in Portions(seedTodo[cur], SeedBudget) :
            /\ mstk' = [mstk EXCEPT ![cur] = @ \cup Seeds(E)]
            /\ seedTodo' = [seedTodo EXCEPT ![cur] = @ \ E]
      BY <2>2 DEF SeedStep
    <3>2. E \in SUBSET seedTodo[cur] /\ {} \in SUBSET scan[cur]
      BY DEF Portions
    <3>3. ~MarkResume
      BY <2>2 DEF SeedStep, MarkResume
    <3>4. scan' = [scan EXCEPT ![cur] = @ \ {}]
      BY <2>2 DEF SeedStep, TypeOK
    <3>5. UNION {Children(e[1], {e[2]}) : e \in {}} = {}
      OBVIOUS
    <3>6. mstk' = [mstk EXCEPT ![cur] =
                     @ \cup Seeds(E) \cup UNION {Children(e[1], {e[2]}) : e \in {}}]
      BY <3>1, <3>5
    <3> QED
      BY <3>1, <3>2, <3>3, <3>4, <3>6
  <2> QED
    BY <2>1, <2>2
<1>2. UNCHANGED <<owner, occ, mark, field, force>>
  BY DEF MarkResume, SeedStep
<1>3. White(r)' = White(r) /\ force'[r] = force[r]
  BY <1>2 DEF White, Region
<1>4. CASE r # cur
  <2>1. mstk'[r] = mstk[r] /\ scan'[r] = scan[r] /\ seedTodo'[r] = seedTodo[r]
    BY <1>1, <1>4 DEF TypeOK
  <2> QED
    BY <1>3, <2>1, FrameFalls
<1>5. CASE r = cur
  <2>0. PICK P : P = mstk[r] \cup Seeds(E) \cup UNION {Children(e[1], {e[2]}) : e \in C}
    OBVIOUS
  <2>1. mstk'[r] = P /\ scan'[r] = scan[r] \ C /\ seedTodo'[r] = seedTodo[r] \ E
    BY <1>1, <1>5, <2>0 DEF TypeOK
  <2>2. CASE C = {} /\ E = {}
    <3>1. Seeds(E) = {}
      BY <2>2 DEF Seeds
    <3>2. UNION {Children(e[1], {e[2]}) : e \in C} = {}
      BY <2>2
    <3>3. mstk'[r] = mstk[r] /\ scan'[r] = scan[r] /\ seedTodo'[r] = seedTodo[r]
      BY <1>5, <2>0, <2>1, <2>2, <3>1, <3>2
    <3> QED
      BY <1>3, <3>3, FrameFalls
  <2>3. CASE C # {} \/ E # {}
    <3> DEFINE h == [e \in C |-> field[e[1]][e[2]]]
    <3>1. Seeds(E) \in SUBSET Slots /\ (E = {} => Seeds(E) = {})
      BY DEF Seeds, TypeOK
    <3>2. UNION {Children(e[1], {e[2]}) : e \in C} \subseteq {h[e] : e \in C}
      <4>1. ASSUME NEW e \in C PROVE Children(e[1], {e[2]}) \subseteq {h[x] : x \in C}
        BY DEF Children
      <4> QED
        BY <4>1
    <3> HIDE DEF h
    <3>3. P \subseteq mstk[r] \cup Seeds(E) \cup {h[e] : e \in C}
      BY <2>0, <3>2
    <3>4. C \in SUBSET scan[r] /\ E \in SUBSET seedTodo[r]
      BY <1>5
    <3>5. Load(White(r), force[r], scan[r] \ C, P, seedTodo[r] \ E)
            < Load(White(r), force[r], scan[r], mstk[r], seedTodo[r])
      BY <2>3, <3>1, <3>3, <3>4, WorkIs, SteppedLoad
    <3>6. MarkWork(r)' < MarkWork(r)
      BY <1>3, <2>1, <3>5, WorkIs
    <3> QED
      BY <3>6, WorkIs DEF Falls
  <2> QED
    BY <2>2, <2>3
<1> QED
  BY <1>4, <1>5

\* Loads, moves and stores: at most the barrier touches the phase.
LEMMA ProgramFalls ==
  ASSUME TypeOK, TypeOK', NEW r \in marking,
         \/ MoveLocal \/ StoreHost \/ Store
  PROVE  Falls(r)
<1>0. r \in Regions
  BY DEF TypeOK
<1>1. ASSUME NEW l \in Locals, NEW v, SetLocal(l, v) PROVE Falls(r)
  <2>1. UNCHANGED <<owner, occ, mark, seedTodo, mstk, force, scan>>
    BY <1>1 DEF SetLocal
  <2>2. White(r)' \subseteq White(r)
    BY <2>1 DEF White, Region
  <2> QED
    BY <1>0, <2>1, <2>2, FrameFalls
<1>2. ASSUME \E V : Shade(V), pc = "mutator",
             UNCHANGED <<owner, occ, seedTodo, mstk, scan>>
      PROVE  Falls(r)
  BY <1>2, ShadeFalls
<1>3. CASE MoveLocal
  <2>1. ASSUME NEW l \in Locals, NEW k \in Locals, StoreLocal(l, k) PROVE Falls(r)
    <3>1. pc = "mutator" /\ UNCHANGED <<owner, occ, seedTodo, mstk, scan>> /\ \E V : Shade(V)
      BY <2>1 DEF StoreLocal
    <3> QED
      BY <3>1, <1>2
  <2> QED
    BY <1>1, <1>3, <2>1 DEF MoveLocal, LoadField, LoadHost, DropLocal, CopyLocal
<1>4. CASE StoreHost
  <2>1. pc = "mutator" /\ UNCHANGED <<owner, occ, seedTodo, mstk, scan>> /\ \E V : Shade(V)
    BY <1>4 DEF StoreHost, StoreUnknown, StoreStructUnknown
  <2> QED
    BY <2>1, <1>2
<1>5. CASE Store
  <2>1. pc = "mutator" /\ UNCHANGED <<owner, occ, seedTodo, mstk, scan>> /\ \E V : Shade(V)
    BY <1>5 DEF Store, StoreOwned, StoreSameRegion, StoreStruct
  <2> QED
    BY <2>1, <1>2
<1> QED
  BY <1>3, <1>4, <1>5

\* An object is born black in a region that marks.
LEMMA BirthFalls ==
  ASSUME TInv, TypeOK', NEW r \in marking, Take \/ TakeNewSlab
  PROVE  Falls(r)
<1>0. r \in Regions /\ r # NoRegion /\ OccOwned /\ TypeOK
  BY DEF TInv, TypeOK
<1>1. PICK s \in Slots :
        /\ owner'[SlabOf[WordOf[s]]] = cur
        /\ occ' = occ \cup {s}
        /\ mark' = IF BornBlack(cur, s) THEN mark \cup {s} ELSE mark
        /\ UNCHANGED markVars
  <2>1. CASE Take
    BY <2>1 DEF Take, TakeSlot, FreeSlots, RegionSlots, Region
  <2>2. CASE TakeNewSlab
    BY <2>2, <1>0 DEF TakeNewSlab, TakeSlot, SpareSlabs, TypeOK
  <2> QED
    BY <2>1, <2>2
<1>2. \A x \in occ : owner'[SlabOf[WordOf[x]]] = owner[SlabOf[WordOf[x]]]
  <2>1. CASE Take
    BY <2>1 DEF Take
  <2>2. CASE TakeNewSlab
    BY <2>2, <1>0 DEF TakeNewSlab, SpareSlabs, OccOwned, Region, TypeOK
  <2> QED
    BY <2>1, <2>2
<1>3. White(r)' \subseteq White(r)
  <2> SUFFICES ASSUME NEW x \in White(r)' PROVE x \in White(r)
    OBVIOUS
  <2>1. x \in occ' /\ x \notin mark' /\ owner'[SlabOf[WordOf[x]]] = r
    BY DEF White, Region
  <2>2. x # s
    BY <1>1, <2>1 DEF BornBlack
  <2> QED
    BY <1>1, <1>2, <2>1, <2>2 DEF White, Region
<1> QED
  BY <1>0, <1>1, <1>3, FrameFalls

\* The sweep of another region touches no mark of this one.
LEMMA SweepFalls ==
  ASSUME MInv, TypeOK', NEW r \in marking, SweepStep
  PROVE  Falls(r)
<1>0. TypeOK /\ r \in Regions /\ cur \in Regions /\ cur \in sweeping /\ r # cur
  BY DEF MInv, TInv, TypeOK, ColourInv, Phases, SweepStep
<1>1. PICK W \in SUBSET swTodo[cur] :
        occ' = occ \ Dead(W) /\ mark' = MarksLeft(W)
  BY DEF SweepStep, Portions
<1>2. UNCHANGED <<owner, markVars>>
  BY DEF SweepStep
<1>3. \A s \in Slots : WordOf[s] \in W => Region(s) = cur
  BY <1>0, <1>1 DEF MInv, ColourInv, SweepDivides, RegionWords, Region
<1>4. White(r)' \subseteq White(r)
  <2> SUFFICES ASSUME NEW x \in White(r)' PROVE x \in White(r)
    OBVIOUS
  <2>1. x \in occ /\ x \in Slots /\ x \notin mark' /\ Region(x) = r
    BY <1>0, <1>1, <1>2 DEF White, Region, TypeOK
  <2>2. WordOf[x] \notin W
    BY <1>0, <1>3, <2>1
  <2> QED
    BY <1>1, <2>1, <2>2 DEF White, MarksLeft
<1> QED
  BY <1>0, <1>2, <1>4, FrameFalls

\* A release in a region that does not mark touches no phase.
LEMMA ReleaseFalls ==
  ASSUME TInv, TypeOK', NEW r \in marking, "release" \notin Allow,
         NEW l \in Locals, NEW k \in Locals, Release(l, k)
  PROVE  Falls(r)
<1>1. PICK home \in Regions, dead \in SUBSET occ, grey \in SUBSET Slots :
        ReleaseEffect(l, k, home, dead, grey)
  BY ReleaseFacts
<1>2. home \notin marking /\ home = Region(local[k])
  BY <1>1 DEF Release, ReleaseEffect
<1>3. r \in Regions /\ TypeOK /\ r # home
  BY <1>2 DEF TInv, TypeOK
<1>4. grey = {} /\ UNCHANGED owner
  BY <1>1, <1>2 DEF ReleaseEffect
<1>5. occ' = occ \ dead /\ mark' = mark \ RegionSlots(home)
  BY <1>1, <1>4 DEF ReleaseEffect
<1>6. /\ seedTodo'[r] = seedTodo[r] /\ mstk'[r] = mstk[r]
      /\ force'[r] = force[r] /\ scan'[r] = scan[r]
  BY <1>1, <1>3 DEF ReleaseEffect, TypeOK
<1>7. White(r)' \subseteq White(r)
  BY <1>3, <1>4, <1>5 DEF White, Region, RegionSlots
<1> QED
  BY <1>3, <1>6, <1>7, FrameFalls

\* The end of another arena touches no phase.
LEMMA RegionFreeFalls ==
  ASSUME TInv, TypeOK', NEW q \in Regions, RegionFree(q),
         NEW r \in marking \cap marking'
  PROVE  Falls(r)
<1>0. TypeOK /\ r \in Regions /\ r # q /\ r # NoRegion
  BY DEF TInv, TypeOK, RegionFree
<1>1. /\ owner' = [b \in Slabs |-> IF owner[b] = q THEN NoRegion ELSE owner[b]]
      /\ occ' = occ \ RegionSlots(q) /\ mark' = mark \ RegionSlots(q)
  BY DEF RegionFree
<1>2. /\ seedTodo'[r] = seedTodo[r] /\ mstk'[r] = mstk[r]
      /\ force'[r] = force[r] /\ scan'[r] = scan[r]
  BY <1>0 DEF RegionFree, TypeOK
<1>3. White(r)' \subseteq White(r)
  <2> SUFFICES ASSUME NEW x \in White(r)' PROVE x \in White(r)
    OBVIOUS
  <2>1. x \in occ /\ x \in Slots /\ x \notin mark' /\ owner'[SlabOf[WordOf[x]]] = r
    BY <1>0, <1>1 DEF White, Region, TypeOK
  <2>2. SlabOf[WordOf[x]] \in Slabs /\ Region(x) = r
    BY <1>0, <1>1, <2>1 DEF Region
  <2>3. x \notin RegionSlots(q)
    BY <1>0, <2>2 DEF RegionSlots
  <2> QED
    BY <1>1, <2>1, <2>2, <2>3 DEF White
<1> QED
  BY <1>0, <1>2, <1>3, FrameFalls

\* Steps that touch neither the bitmaps nor the cursors of an open phase.
LEMMA QuietFalls ==
  ASSUME TypeOK, TypeOK', NEW r \in marking,
         \/ \E q \in Regions : RegionNew(q) \/ AllocEnter(q) \/ ResumeRound(q)
                                 \/ CheckOwed(q) \/ BeginRound(q)
         \/ Advance \/ TakeNothing \/ WalkEnd \/ Finish \/ SweepWait \/ UNCHANGED vars
  PROVE  Falls(r)
<1>0. r \in Regions
  BY DEF TypeOK
<1>1. UNCHANGED <<owner, occ, mark>>
  BY DEF RegionNew, AllocEnter, ResumeRound, CheckOwed, BeginRound, Advance,
         TakeNothing, WalkEnd, Finish, SweepWait, vars
<1>2. White(r)' \subseteq White(r)
  BY <1>1 DEF White, Region
<1>3. /\ seedTodo'[r] = seedTodo[r] /\ mstk'[r] = mstk[r]
      /\ force'[r] = force[r] /\ scan'[r] = scan[r]
  <2>1. ASSUME NEW q \in Regions, BeginRound(q)
        PROVE  /\ seedTodo'[r] = seedTodo[r] /\ mstk'[r] = mstk[r]
               /\ force'[r] = force[r] /\ scan'[r] = scan[r]
    BY <1>0, <2>1 DEF BeginRound, TypeOK
  <2>2. CASE ~\E q \in Regions : BeginRound(q)
    BY <2>2 DEF RegionNew, AllocEnter, ResumeRound, CheckOwed, Advance,
                TakeNothing, WalkEnd, Finish, SweepWait, vars
  <2> QED
    BY <2>1, <2>2
<1> QED
  BY <1>0, <1>2, <1>3, FrameFalls

LEMMA MarkingFalls ==
  ASSUME MInv, MInv', [Next]_vars, "release" \notin Allow,
         NEW r \in marking \cap marking'
  PROVE  Falls(r)
<1>0. TInv /\ TypeOK /\ TypeOK' /\ r \in Regions
  BY DEF MInv, TInv, TypeOK
<1>1. CASE Mutator
  <2>1. ASSUME NEW q \in Regions, RegionNew(q) \/ RegionFree(q) PROVE Falls(r)
    BY <1>0, <2>1, QuietFalls, RegionFreeFalls
  <2>2. ASSUME NEW l \in Locals, NEW k \in Locals, Release(l, k) PROVE Falls(r)
    BY <1>0, <2>2, ReleaseFalls
  <2> QED
    BY <1>0, <1>1, <2>1, <2>2, ProgramFalls DEF Mutator
<1>2. CASE Calls
  BY <1>0, <1>2, QuietFalls DEF Calls
<1>3. CASE Runtime
  BY <1>0, <1>3, QuietFalls, BirthFalls, StepFalls, WalkFalls, SweepFalls DEF Runtime
<1>4. CASE UNCHANGED vars
  BY <1>0, <1>4, QuietFalls
<1> QED
  BY <1>1, <1>2, <1>3, <1>4 DEF Next

\* Every open mark phase converges, for every number of regions, slabs, slots
\* and fields and every budget, without any fairness: whatever the program loads,
\* stores and allocates between the mark steps, and whatever other regions do
\* meanwhile, the weighed rest of the phase never grows, and every mark step that
\* moves a cursor makes it smaller.  Left out: a targeted release inside an open
\* round (it empties the stacks and whitens the region) and a new slab during a
\* sweep, see Reclaim.
THEOREM PhasesConverge ==
  Allow \cap {"release", "newslab"} = {} => (Spec => MarkingShrinks)
<1> SUFFICES ASSUME Allow \cap {"release", "newslab"} = {}
             PROVE  Spec => MarkingShrinks
  OBVIOUS
<1>1. MInv /\ MInv' /\ [Next]_vars =>
        [\A r \in marking \cap marking' :
           /\ MarkWork(r)' <= MarkWork(r)
           /\ pc # "mutator" /\ Cursors(r)' # Cursors(r) =>
                MarkWork(r)' < MarkWork(r)]_vars
  BY MarkingFalls DEF Falls
<1>2. Spec => []MInv
  BY ColourInvariant
<1> QED
  BY <1>1, <1>2, PTL DEF Spec, MarkingShrinks
=============================================================================
