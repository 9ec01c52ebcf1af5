------------------------------- MODULE Slabs -------------------------------
(***************************************************************************)
(* The slab allocator of one region and what hangs on its slots: the free  *)
(* list threaded through the type numbers, the bump cursor, the chains of  *)
(* slabs with room, the type table of a slab, the cache of objects known   *)
(* to be black, and the threshold that starts a round.  Which objects a    *)
(* round finds is left open (Reclaim models it): a mark may reach any      *)
(* object.  One word of the bitmaps covers WordSlots slots.                *)
(***************************************************************************)
EXTENDS Integers, FiniteSets, SequencesExt

CONSTANTS Classes,      \* size classes: slot sizes in units of 8 bytes
          NSlots,       \* slots of a slab
          WordSlots,    \* slots in a bitmap word (64)
          MaxSlabs,     \* bound: slabs of the region
          Types,        \* type descriptors
          Sites,        \* allocation sites: pairs of a class and a descriptor
          TypeHash,     \* TypeHash[t]: hash of a descriptor's address
          LinearMax,    \* EXTC_RC_TTAB_LINEAR_MAX (8)
          IndexCap,     \* cells of the first type index (32)
          GenCells,     \* cells of the shade cache (2048)
          MaxGen,       \* bound on cache generations
          Floor,        \* EXTC_RC_FLOOR
          ScaleMul, ScaleMax, \* EXTC_RC_SCALE_MUL, EXTC_RC_SCALE_MAX
          IntMax,       \* INT64_MAX
          MaxBytes      \* bound on the bytes ever allocated

None == "none"
Conservative == "conservative"
Slots == 0 .. NSlots - 1
Words == 0 .. (NSlots - 1) \div WordSlots
SlotsOf(w) == {i \in Slots : i \div WordSlots = w}

ASSUME SlabsAssumption ==
    /\ Classes \subseteq Nat \ {0} /\ {NSlots, WordSlots, GenCells, IndexCap} \subseteq Nat \ {0}
    /\ Sites \subseteq Classes \X (Types \cup {None, Conservative})
    /\ Types \cap {None, Conservative} = {} /\ TypeHash \in [Types -> Nat]
    /\ LinearMax \in Nat /\ LinearMax < IndexCap /\ Floor \in Nat

VARIABLES slab,      \* the slabs made so far
          chain,     \* chain[c]: slabs of class c with room, head first (lazily popped)
          hot,       \* allocHot[c]
          phase,     \* "idle", "mark" or "sweep"
          swPos,     \* sweep cursor: words still to sweep, in list order
          swFreed,   \* slots freed by this sweep
          gen, cache,          \* extc_rc_shadeGen, extc_rc_shadeCache
          bytes, allocBytes, roundVisited, live, scale, thr, markedBytes

pace == <<bytes, allocBytes, roundVisited, live, scale, thr, markedBytes>>
vars == <<slab, chain, hot, phase, swPos, swFreed, gen, cache, pace>>

Ids == 1 .. Len(slab)
Full(s) == s.free < 0 /\ s.bump >= NSlots

-----------------------------------------------------------------------------
(* The type table.  ttab is numbered from 1; 1 is the fallback descriptor.  *)

\* The cell of the index for number k's descriptor in an index of cap cells.
Place(ix, cap, t) ==
    LET h == TypeHash[t] % cap
    IN CHOOSE i \in 0 .. cap - 1 :
          /\ ix[i] = 0
          /\ \A j \in 0 .. cap - 1 : ix[j] = 0 => (i - h) % cap <= (j - h) % cap

\* extc_rc_ttabIndexBuild: numbers 2 .. in order.
IndexBuild(ttab, cap) ==
    LET fill[k \in 1 .. Len(ttab)] ==
            IF k = 1 THEN [i \in 0 .. cap - 1 |-> 0]
            ELSE [fill[k - 1] EXCEPT ![Place(fill[k - 1], cap, ttab[k])] = k]
    IN fill[Len(ttab)]

\* The numbers a probe of the index meets before an empty cell.
Met(s, t) ==
    LET cap == Cardinality(DOMAIN s.index)
        h == TypeHash[t] % cap
    IN {s.index[i] : i \in {i \in DOMAIN s.index :
            \A j \in DOMAIN s.index : (j - h) % cap <= (i - h) % cap => s.index[j] # 0}}

\* The number of t in the table of s, 0 when it has none.
Known(s, t) ==
    LET ks == {k \in (IF s.index = <<>> THEN 2 .. Len(s.ttab) ELSE Met(s, t)) : s.ttab[k] = t}
    IN IF ks = {} THEN 0 ELSE CHOOSE k \in ks : TRUE

\* Faulty variant: the new descriptor does not enter an index that exists.
WithTypeBad(s, t) ==
    LET tt == Append(s.ttab, t)
        cap == Cardinality(DOMAIN s.index)
    IN [s EXCEPT !.ttab = tt,
                 !.index = IF s.index = <<>>
                           THEN IF Len(tt) - 1 > LinearMax THEN IndexBuild(tt, IndexCap) ELSE <<>>
                           ELSE @]

\* A descriptor enters the table; the index is built when the table is long,
\* doubled when it is half full.
WithType(s, t) ==
    LET tt == Append(s.ttab, t)
        cap == Cardinality(DOMAIN s.index)
        more == Len(tt) - 1
    IN [s EXCEPT !.ttab = tt,
                 !.index = IF s.index = <<>>
                           THEN IF more > LinearMax THEN IndexBuild(tt, IndexCap) ELSE <<>>
                           ELSE IF more > cap \div 2 THEN IndexBuild(tt, 2 * cap)
                           ELSE [@ EXCEPT ![Place(@, cap, t)] = Len(tt)]]

\* extc_rc_typeIdx: the slab after the lookup of t, with the number in last.
Typed(s, t) ==
    IF t = None \/ t = s.last.type THEN s
    ELSE LET k == IF t = Conservative THEN 1 ELSE Known(s, t)
             s1 == IF k = 0 THEN WithType(s, t) ELSE s
         IN [s1 EXCEPT !.last = [type |-> t, num |-> IF k = 0 THEN Len(s1.ttab) ELSE k]]

Number(s, t) == IF t = None THEN 0 ELSE s.last.num

\* extc_rc_typeOf
TypeOf(s, i) == IF s.tid[i] = 0 THEN None ELSE s.ttab[s.tid[i]]

-----------------------------------------------------------------------------
(* The threshold and the credit of a round.                                 *)

Larger(a, b) == IF a > b THEN a ELSE b

\* extc_rc_thrUpd: 0 stands for overflow.
ThrUpd(lv, sc) ==
    LET m == IF sc > 0 THEN sc ELSE 1
        base == Larger(2 * lv, Floor)
    IN IF m > 1 /\ base > IntMax \div m THEN 0 ELSE base * m

\* extc_rc_shouldSweep with the credit of extc_rc_roundOk.
ShouldSweep == bytes > thr /\ allocBytes - roundVisited >= Larger(live, Floor)

-----------------------------------------------------------------------------
(* The cache of black objects.                                              *)

Addr(b, i) == b * NSlots + i
Cell(a, g) == (a + g) % GenCells
Remember(a) == cache' = [cache EXCEPT ![Cell(a, gen)] = a]

\* Faulty variant: the table is never cleared.
NextGenBad == gen < MaxGen /\ gen' = gen + 1 /\ UNCHANGED cache

\* extc_rc_shadeNextGen: the table is cleared before the cells come round again.
NextGen ==
    /\ gen < MaxGen
    /\ gen' = gen + 1
    /\ cache' = IF (gen + 1) % GenCells = 0 THEN [c \in 0 .. GenCells - 1 |-> -1] ELSE cache

-----------------------------------------------------------------------------
NewSlab(c) ==
    [cls |-> c, bump |-> 0, free |-> -1, avail |-> TRUE,
     occ |-> {}, mark |-> {},
     tid |-> [i \in Slots |-> 0], ttab |-> <<Conservative>>, index |-> <<>>,
     last |-> [type |-> None, num |-> 0], want |-> [i \in Slots |-> None]]

\* The slab an allocation of class c takes: the hot one while it has room, else
\* the first of the chain with room, else a new one (0).  The chain loses the
\* full slabs in front.
HotUsable(c) == hot[c] # 0 /\ ~Full(slab[hot[c]])
Room(c) == {p \in 1 .. Len(chain[c]) : ~Full(slab[chain[c][p]])}
Popped(c) ==
    IF HotUsable(c) THEN 0 ELSE IF Room(c) = {} THEN Len(chain[c]) ELSE Min(Room(c)) - 1

\* The slab record after a slot was taken from it, marked or not.
TakenSlot(s) == IF s.free >= 0 THEN s.free ELSE s.bump
Taken(s, i, t, black) ==
    LET u == [Typed(s, t) EXCEPT
                 !.free = IF s.free >= 0 THEN s.tid[i] - 1 ELSE -1,
                 !.bump = IF s.free >= 0 THEN @ ELSE @ + 1,
                 !.occ = @ \cup {i},
                 !.mark = IF black THEN @ \cup {i} ELSE @]
    IN [u EXCEPT !.tid[i] = Number(u, t), !.want[i] = t]

\* A slot is born black while marking, and ahead of the cursor while sweeping.
\* A slab added while sweeping counts as ahead (see Reclaim for what follows).
BornBlack(b, i) ==
    \/ phase = "mark"
    \/ phase = "sweep" /\ \E p \in 1 .. Len(swPos) : swPos[p] = <<b, i \div WordSlots>>

\* extc_rc_alloc from the choice of the slab on.
Alloc(c, t) ==
    /\ allocBytes + c <= MaxBytes
    /\ LET k == Popped(c)
           left == SubSeq(chain[c], k + 1, Len(chain[c]))
           fresh == ~HotUsable(c) /\ left = <<>>
           b == IF HotUsable(c) THEN hot[c] ELSE IF fresh THEN Len(slab) + 1 ELSE Head(left)
           out == {chain[c][p] : p \in 1 .. k}
           base == [x \in Ids |-> IF x \in out THEN [slab[x] EXCEPT !.avail = FALSE] ELSE slab[x]]
           all == IF fresh THEN Append(base, NewSlab(c)) ELSE base
           i == TakenSlot(all[b])
       IN /\ fresh => Len(slab) < MaxSlabs /\ phase # "sweep"
          /\ slab' = [all EXCEPT ![b] = Taken(@, i, t, BornBlack(b, i))]
          /\ chain' = [chain EXCEPT ![c] = IF fresh THEN <<b>> ELSE left]
          /\ hot' = [hot EXCEPT ![c] = b]
    /\ bytes' = bytes + c /\ allocBytes' = allocBytes + c
    /\ UNCHANGED <<phase, swPos, swFreed, gen, cache, roundVisited, live, scale, thr, markedBytes>>

\* Faulty variant: each link is the old head of the list.
FreedBad(s, dead) ==
    [s EXCEPT !.occ = @ \ dead, !.avail = TRUE, !.free = Max(dead),
              !.tid = [i \in Slots |-> IF i \in dead THEN s.free + 1 ELSE @[i]]]

\* A set of slots of one slab is freed, lowest first: each goes to the head of
\* the free list, whose links are kept in the type numbers.
HeadAfter(s, dead) == IF dead = {} THEN s.free ELSE Max(dead)
Freed(s, dead) ==
    [s EXCEPT !.occ = @ \ dead, !.avail = TRUE, !.free = HeadAfter(s, dead),
              !.tid = [i \in Slots |-> IF i \in dead
                                       THEN HeadAfter(s, {j \in dead : j < i}) + 1 ELSE @[i]]]

\* Faulty variant: a slab that ran full is not put back.
PushedBad(b) == chain

\* A slab that had no room goes back to the head of its chain.
Pushed(b) ==
    [chain EXCEPT ![slab[b].cls] = IF slab[b].avail THEN @ ELSE <<b>> \o @]

-----------------------------------------------------------------------------
(* Rounds.                                                                  *)

\* extc_rc_begin
Begin ==
    /\ phase = "idle" /\ ShouldSweep
    /\ phase' = "mark" /\ roundVisited' = allocBytes /\ markedBytes' = 0
    /\ NextGen
    /\ UNCHANGED <<slab, chain, hot, swPos, swFreed, bytes, allocBytes, live, scale, thr>>

\* The walk blackens an object and counts its bytes.
Walk(b, i) ==
    /\ phase = "mark" /\ i \in slab[b].occ \ slab[b].mark
    /\ slab' = [slab EXCEPT ![b].mark = @ \cup {i}]
    /\ markedBytes' = markedBytes + slab[b].cls
    /\ UNCHANGED <<chain, hot, phase, swPos, swFreed, gen, cache, bytes, allocBytes, roundVisited,
                   live, scale, thr>>

\* extc_rc_shade past its first test: a pointer the cache knows needs nothing;
\* otherwise the slow path blackens it if it is occupied, and remembers it.
ShadeHit(a) == cache[Cell(a, gen)] = a
Shade(b, i) ==
    /\ phase = "mark" /\ i < slab[b].bump /\ ~ShadeHit(Addr(b, i))
    /\ i \in slab[b].mark \cup slab[b].occ
    /\ slab' = [slab EXCEPT ![b].mark = @ \cup {i}]
    /\ Remember(Addr(b, i))
    /\ UNCHANGED <<chain, hot, phase, swPos, swFreed, gen, pace>>

\* Faulty variant: the threshold keeps the value of the round before.
FinishBad ==
    /\ phase = "mark"
    /\ phase' = "sweep" /\ roundVisited' = allocBytes /\ swFreed' = 0
    /\ live' = IF markedBytes > 0 THEN markedBytes ELSE live
    /\ swPos' = [p \in 1 .. Len(slab) * Cardinality(Words) |->
                    <<Len(slab) - (p - 1) \div Cardinality(Words), (p - 1) % Cardinality(Words)>>]
    /\ NextGen
    /\ UNCHANGED <<slab, chain, hot, bytes, allocBytes, scale, thr, markedBytes>>

\* extc_rc_finish and extc_rc_sweepBegin: the marked bytes become the live bytes.
Finish ==
    /\ phase = "mark"
    /\ phase' = "sweep" /\ roundVisited' = allocBytes /\ swFreed' = 0
    /\ live' = IF markedBytes > 0 THEN markedBytes ELSE live
    /\ thr' = ThrUpd(live', scale)
    /\ swPos' = [p \in 1 .. Len(slab) * Cardinality(Words) |->
                    <<Len(slab) - (p - 1) \div Cardinality(Words), (p - 1) % Cardinality(Words)>>]
    /\ NextGen
    /\ UNCHANGED <<slab, chain, hot, bytes, allocBytes, scale, markedBytes>>

\* extc_rc_sweepWord with extc_rc_freeSlotWord.
SweepWord ==
    /\ phase = "sweep" /\ swPos # <<>>
    /\ LET b == Head(swPos)[1]
           w == Head(swPos)[2]
           s == slab[b]
           dead == (s.occ \ s.mark) \cap SlotsOf(w)
       IN /\ slab' = [slab EXCEPT ![b] = [(IF dead = {} THEN s ELSE Freed(s, dead)) EXCEPT
                                              !.mark = @ \ SlotsOf(w)]]
          /\ chain' = IF dead = {} THEN chain ELSE Pushed(b)
          /\ bytes' = bytes - Cardinality(dead) * s.cls
          /\ swFreed' = swFreed + Cardinality(dead)
    /\ swPos' = Tail(swPos)
    /\ UNCHANGED <<hot, phase, gen, cache, allocBytes, roundVisited, live, scale, thr, markedBytes>>

\* The end of extc_rc_sweepStep: a sweep that freed nothing raises the scale.
SweepEnd ==
    /\ phase = "sweep" /\ swPos = <<>>
    /\ phase' = "idle"
    /\ scale' = IF swFreed > 0 THEN 0 ELSE Min({(IF scale > 0 THEN scale ELSE 1) * ScaleMul, ScaleMax})
    /\ thr' = ThrUpd(live, scale')
    /\ UNCHANGED <<slab, chain, hot, swPos, swFreed, gen, cache, bytes, allocBytes, roundVisited,
                   live, markedBytes>>

\* extc_rc_releaseOld outside a round: some objects found unreachable are freed
\* one at a time, then every mark is cleared.
Release(b, i) ==
    /\ phase = "idle" /\ i \in slab[b].occ
    /\ slab' = [slab EXCEPT ![b] = Freed(@, {i})]
    /\ chain' = Pushed(b)
    /\ bytes' = bytes - slab[b].cls
    /\ NextGen
    /\ UNCHANGED <<hot, phase, swPos, swFreed, allocBytes, roundVisited, live, scale, thr, markedBytes>>

\* extc_rc_regionFree and a new region at the same addresses.
RegionFree ==
    /\ slab # <<>>
    /\ slab' = <<>> /\ chain' = [c \in Classes |-> <<>>] /\ hot' = [c \in Classes |-> 0]
    /\ phase' = "idle" /\ swPos' = <<>> /\ swFreed' = 0
    /\ bytes' = 0 /\ allocBytes' = 0 /\ roundVisited' = 0 /\ live' = 0 /\ scale' = 0
    /\ thr' = Floor /\ markedBytes' = 0
    /\ NextGen

Init ==
    /\ slab = <<>> /\ chain = [c \in Classes |-> <<>>] /\ hot = [c \in Classes |-> 0]
    /\ phase = "idle" /\ swPos = <<>> /\ swFreed = 0
    /\ gen = 1 /\ cache = [c \in 0 .. GenCells - 1 |-> -1]
    /\ bytes = 0 /\ allocBytes = 0 /\ roundVisited = 0 /\ live = 0 /\ scale = 0
    /\ thr = Floor /\ markedBytes = 0

Next ==
    \/ \E site \in Sites : Alloc(site[1], site[2])
    \/ \E b \in Ids, i \in Slots : Walk(b, i) \/ Shade(b, i) \/ Release(b, i)
    \/ Begin \/ Finish \/ SweepWord \/ SweepEnd \/ RegionFree

Spec == Init /\ [][Next]_vars

-----------------------------------------------------------------------------
(* Properties.                                                              *)

\* The free list of a slab holds exactly the slots that were handed out once and
\* are free now, each once: its links share their 16 bits with the type
\* numbers of the slots in use (extc_rc_freeSlotLink, extc_rc_alloc).
FreeListExact ==
    \A b \in Ids :
        LET s == slab[b]
            nth[q \in 0 .. NSlots] ==
                IF q = 0 THEN s.free ELSE IF nth[q - 1] < 0 THEN -1 ELSE s.tid[nth[q - 1]] - 1
            idle == {i \in Slots : i < s.bump /\ i \notin s.occ}
        IN /\ {nth[q] : q \in 0 .. NSlots} \ {-1} = idle
           /\ nth[Cardinality(idle)] = -1
           /\ \A i \in s.occ : i < s.bump

\* Every slab with room is found by an allocation of its class: it is on the
\* chain of the class once, and avail says which slabs are on the chain.
RoomIsFound ==
    \A b \in Ids :
        LET at == {p \in 1 .. Len(chain[slab[b].cls]) : chain[slab[b].cls][p] = b}
        IN /\ ~Full(slab[b]) => at # {}
           /\ Cardinality(at) = IF slab[b].avail THEN 1 ELSE 0

\* An object in use is walked with the descriptor it was allocated with, whatever
\* the table, its index and the last-type cache went through in between, and no
\* descriptor is entered twice, which would use up the 16 bits.
TypeKept ==
    \A b \in Ids :
        /\ \A i \in slab[b].occ : TypeOf(slab[b], i) = slab[b].want[i]
        /\ IsInjective(slab[b].ttab)

\* Within a marking phase, an object the shade cache knows is black: the barrier
\* may skip it (the contract that every path that clears marks starts a
\* generation).
KnownIsBlack ==
    phase = "mark" =>
        \A b \in Ids : \A i \in slab[b].occ : ShadeHit(Addr(b, i)) => i \in slab[b].mark

\* The account of bytes is exact, and the cached threshold is the one of the
\* current live bytes and scale, whenever a round may start.
AccountExact ==
    /\ bytes = MapThenSumSet(LAMBDA b : Cardinality(slab[b].occ) * slab[b].cls, Ids)
    /\ thr = ThrUpd(live, scale)

\* The memory of a slab is accounted for: the free list is exact, a slab with
\* room is found, an object keeps its descriptor (extc_rc_alloc and the three
\* ways to free a slot).
SlotsExact == FreeListExact /\ RoomIsFound /\ TypeKept
=============================================================================
