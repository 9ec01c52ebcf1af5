------------------------------ MODULE Registry ------------------------------
(***************************************************************************)
(* The slab registry of the region collector: two open-addressed tables    *)
(* (slabs by base address, oversized blocks by payload address) that       *)
(* writers change under a spin lock and readers probe without it, the      *)
(* direct-mapped hit cache ownMap and the thread-local ownHot.             *)
(* A slab is identified with its key; an address that is registered again  *)
(* after a deregistration is an address the allocator handed out again.    *)
(***************************************************************************)
EXTENDS Integers, Sequences, FiniteSets

CONSTANTS Threads,    \* worker threads
          Readers,    \* bound: the threads that look slabs up (readers change nothing shared)
          Normal,     \* base addresses of ordinary slabs
          Big,        \* payload addresses of oversized blocks
          Hash,       \* Hash[k]: the hash of a key before it is masked
          FirstCap,   \* capacity of the first generation (64 and 16 in the code)
          MaxCap,     \* bound: no generation larger than this is needed
          MapSize,    \* number of cells of ownMap
          Tries,      \* optimistic attempts of ownFind (32 in the code)
          MaxOps      \* bound on the number of add and delete calls

None == "none"
Keys == Normal \cup Big

ASSUME RegistryAssumption ==
    /\ Readers \subseteq Threads /\ None \notin Threads
    /\ None \notin Keys /\ Normal \cap Big = {}
    /\ Hash \in [Keys -> Nat]
    /\ {FirstCap, MaxCap, MapSize, Tries} \subseteq Nat \ {0} /\ FirstCap >= 2

VARIABLES gens,     \* gens[b]: the generations built so far, old ones are never freed
          cur,      \* cur[b]: the published generation
          n,        \* n[b]: number of entries of the published generation
          mir,      \* extc_rc_ownMirTab (a generation) and extc_rc_ownMirCap
          seq,      \* extc_rc_regSeq
          lock,     \* the thread that holds extc_rc_regLock
          ownMap, ownHot,
          th,       \* what each thread is doing
          live,     \* keys whose slab the program may use: added, not being deleted
          gone,     \* keys that are in no table: not added, or deleted
          was,      \* threads whose lookup began with a live key that has stayed live
          absent,   \* threads whose lookup began with a gone key that has stayed gone
          met,      \* met[t]: what t's lookup has met that the protocol does not allow for
          ops       \* add and delete calls so far

tables == <<gens, cur, n, mir>>
ghosts == <<live, gone, was, absent, met>>
vars == <<tables, seq, lock, ownMap, ownHot, th, ghosts, ops>>

Kinds == {"slab", "big"}
KindOf(k) == IF k \in Big THEN "big" ELSE "slab"

\* The first generation is static and has no cells.
Gen0 == [tab |-> <<>>, cap |-> 0]

Idle == [pc |-> "idle"]

Init ==
    /\ gens = [b \in Kinds |-> <<Gen0>>]
    /\ cur = [b \in Kinds |-> 1]
    /\ n = [b \in Kinds |-> 0]
    /\ mir = [tab |-> 1, cap |-> 0]
    /\ seq = 0 /\ lock = None /\ ops = 0
    /\ ownMap = [c \in 0 .. MapSize - 1 |-> None]
    /\ ownHot = [t \in Threads |-> None]
    /\ th = [t \in Threads |-> Idle]
    /\ live = {} /\ gone = Keys /\ was = {} /\ absent = {}
    /\ met = [t \in Threads |-> {}]

-----------------------------------------------------------------------------
(* The table.  Cells are numbered from 0; a generation's tab is a function. *)

ProbeOf(k, cap) == Hash[k] % cap
MapCell(k) == Hash[k] % MapSize

\* Distance of cell i from cell h in probing order.
Dist(h, i, cap) == (i - h) % cap

\* The cell of k, or the empty cell where k would go: the nearest one in
\* probing order that is empty or holds k.
SlotOf(tab, cap, k) ==
    LET h == ProbeOf(k, cap)
    IN CHOOSE i \in 0 .. cap - 1 :
          /\ tab[i] \in {None, k}
          /\ \A j \in 0 .. cap - 1 : tab[j] \in {None, k} => Dist(h, i, cap) <= Dist(h, j, cap)

\* The first cell from i that is empty.
HoleFrom(tab, cap, i) ==
    CHOOSE j \in 0 .. cap - 1 :
        /\ tab[j] = None
        /\ \A q \in 0 .. cap - 1 : tab[q] = None => Dist(i, j, cap) <= Dist(i, q, cap)

\* One entry goes to a generation being built.
Rehash(tab, cap, k) == [tab EXCEPT ![HoleFrom(tab, cap, ProbeOf(k, cap))] = k]

\* Faulty variant: the entries keep the cell they had.
NextRegBad(g) ==
    LET nc == IF g.cap = 0 THEN FirstCap ELSE 2 * g.cap
    IN [tab |-> [c \in 0 .. nc - 1 |-> IF c < g.cap THEN g.tab[c] ELSE None], cap |-> nc]

\* extc_rc_ownNextReg: the entries in cell order go to a table twice as large.
NextReg(g) ==
    LET nc == IF g.cap = 0 THEN FirstCap ELSE 2 * g.cap
        fill[i \in 0 .. g.cap] ==
            IF i = 0 THEN [c \in 0 .. nc - 1 |-> None]
            ELSE IF g.tab[i - 1] = None THEN fill[i - 1]
            ELSE Rehash(fill[i - 1], nc, g.tab[i - 1])
    IN [tab |-> fill[g.cap], cap |-> nc]

\* Faulty variant: no wrap-around case.
MovesBad(h, i, j) == h <= i \/ h > j

\* Knuth's condition: the entry at j may move to the hole at i, because its
\* probe would still meet i first.
Moves(h, i, j) == IF i <= j THEN h <= i \/ h > j ELSE h <= i /\ h > j

-----------------------------------------------------------------------------
(* Writers: extc_rc_ownAdd and extc_rc_ownDel, by the owner of the slab.    *)

Go(t, pc) == th' = [th EXCEPT ![t].pc = pc]

\* The threads that are looking k up.
Writing == {"addLock", "addGrow", "addMirTab", "addMirCap", "addCell", "addMap", "addSeq",
            "delErase", "delSeq"}
Looking(t) == th[t].pc \notin Writing \cup {"idle"}
Seeking(k) == {t \in Threads : Looking(t) /\ th[t].key = k}

AddCall(t, k) ==
    /\ th[t] = Idle /\ k \in gone /\ ops < MaxOps
    /\ gone' = gone \ {k} /\ absent' = absent \ Seeking(k) /\ ops' = ops + 1
    /\ th' = [th EXCEPT ![t] = [pc |-> "addLock", key |-> k, b |-> KindOf(k)]]
    /\ UNCHANGED <<tables, seq, lock, ownMap, ownHot, live, was, met>>

\* Faulty variant: a generation may become full before the next one is built.
AddLockLate(t) ==
    /\ th[t].pc = "addLock" /\ lock = None
    /\ lock' = t
    /\ LET g == gens[th[t].b][cur[th[t].b]]
       IN Go(t, IF g.cap = 0 \/ n[th[t].b] + 1 > g.cap THEN "addGrow" ELSE "addCell")
    /\ UNCHANGED <<tables, ghosts, seq, ownMap, ownHot, ops>>

\* The spin lock, and the test whether a new generation is needed.
AddLock(t) ==
    /\ th[t].pc = "addLock" /\ lock = None
    /\ lock' = t
    /\ LET g == gens[th[t].b][cur[th[t].b]]
       IN Go(t, IF g.cap = 0 \/ (n[th[t].b] + 1) * 2 > g.cap THEN "addGrow" ELSE "addCell")
    /\ UNCHANGED <<tables, ghosts, seq, ownMap, ownHot, ops>>

\* The new generation is built and published.
AddGrow(t) ==
    /\ th[t].pc = "addGrow"
    /\ LET b == th[t].b
       IN /\ gens' = [gens EXCEPT ![b] = Append(@, NextReg(@[cur[b]]))]
          /\ cur' = [cur EXCEPT ![b] = Len(gens[b]) + 1]
          /\ Go(t, IF b = "big" THEN "addCell" ELSE "addMirTab")
    /\ UNCHANGED <<ghosts, n, mir, seq, lock, ownMap, ownHot, ops>>

AddMirTab(t) ==
    /\ th[t].pc = "addMirTab"
    /\ mir' = [mir EXCEPT !.tab = cur["slab"]]
    /\ Go(t, "addMirCap")
    /\ UNCHANGED <<ghosts, gens, cur, n, seq, lock, ownMap, ownHot, ops>>

AddMirCap(t) ==
    /\ th[t].pc = "addMirCap"
    /\ mir' = [mir EXCEPT !.cap = gens["slab"][cur["slab"]].cap]
    /\ Go(t, "addCell")
    /\ UNCHANGED <<ghosts, gens, cur, n, seq, lock, ownMap, ownHot, ops>>

AddCell(t) ==
    /\ th[t].pc = "addCell"
    /\ LET b == th[t].b
           k == th[t].key
           g == gens[b][cur[b]]
       IN /\ gens' = [gens EXCEPT ![b][cur[b]].tab[SlotOf(g.tab, g.cap, k)] = k]
          /\ n' = [n EXCEPT ![b] = @ + 1]
          /\ Go(t, IF b = "big" THEN "addSeq" ELSE "addMap")
    /\ UNCHANGED <<ghosts, cur, mir, seq, lock, ownMap, ownHot, ops>>

AddMap(t) ==
    /\ th[t].pc = "addMap"
    /\ ownMap' = [ownMap EXCEPT ![MapCell(th[t].key)] = th[t].key]
    /\ Go(t, "addSeq")
    /\ UNCHANGED <<tables, ghosts, seq, lock, ownHot, ops>>

\* The sequence number, then the lock: nothing reads between the two that
\* the order could matter to.
AddSeq(t) ==
    /\ th[t].pc = "addSeq"
    /\ seq' = seq + 1 /\ lock' = None
    /\ live' = live \cup {th[t].key}
    /\ th' = [th EXCEPT ![t] = Idle]
    /\ UNCHANGED <<tables, ownMap, ownHot, gone, was, absent, met, ops>>

\* The call of the delete up to the lock; the hot slab of this thread only.
DelLock(t, k) ==
    /\ th[t] = Idle /\ k \in live /\ lock = None /\ ops < MaxOps
    /\ lock' = t /\ ops' = ops + 1 /\ live' = live \ {k} /\ was' = was \ Seeking(k)
    /\ ownHot' = IF ownHot[t] = k THEN [ownHot EXCEPT ![t] = None] ELSE ownHot
    /\ LET g == gens[KindOf(k)][cur[KindOf(k)]]
           i == SlotOf(g.tab, g.cap, k)
       IN th' = [th EXCEPT ![t] = [pc |-> "delErase", key |-> k, b |-> KindOf(k), i |-> i, j |-> i]]
    /\ UNCHANGED <<tables, seq, ownMap, gone, absent, met>>

\* The threads whose probe has passed cell i of the published generation of table b.
PastCell(b, i) ==
    {u \in Threads :
        /\ th[u].pc = "probe" /\ th[u].b = b /\ th[u].g = cur[b]
        /\ LET h == ProbeOf(th[u].key, th[u].cap)
           IN Dist(h, i, th[u].cap) < Dist(h, th[u].i, th[u].cap)}

Meet(us, what) == met' = [u \in Threads |-> IF u \in us THEN met[u] \cup {what} ELSE met[u]]

\* extc_rc_ownErase, one cell of the probe chain at a time.
DelErase(t) ==
    /\ th[t].pc = "delErase"
    /\ LET b == th[t].b
           g == gens[b][cur[b]]
           i == th[t].i
           j == (th[t].j + 1) % g.cap
           e == g.tab[j]
       IN \/ /\ e = None
             /\ gens' = [gens EXCEPT ![b][cur[b]].tab[i] = None]
             /\ n' = [n EXCEPT ![b] = @ - 1]
             /\ Go(t, "delSeq")
             /\ Meet(PastCell(b, i), "emptied")
          \/ /\ e # None /\ Moves(ProbeOf(e, g.cap), i, j)
             /\ gens' = [gens EXCEPT ![b][cur[b]].tab[i] = e]
             /\ th' = [th EXCEPT ![t].i = j, ![t].j = j]
             /\ UNCHANGED <<n, met>>
          \/ /\ e # None /\ ~Moves(ProbeOf(e, g.cap), i, j)
             /\ th' = [th EXCEPT ![t].j = j]
             /\ UNCHANGED <<gens, n, met>>
    /\ UNCHANGED <<cur, mir, seq, lock, ownMap, ownHot, live, gone, was, absent, ops>>

\* The rest of the delete: the cell of ownMap if it still is this slab's, the
\* sequence number, the lock.
DelSeq(t) ==
    /\ th[t].pc = "delSeq"
    /\ LET k == th[t].key
       IN /\ ownMap' = IF k \in Normal /\ ownMap[MapCell(k)] = k
                       THEN [ownMap EXCEPT ![MapCell(k)] = None] ELSE ownMap
          /\ gone' = gone \cup {k}
    /\ seq' = seq + 1 /\ lock' = None
    /\ th' = [th EXCEPT ![t] = Idle]
    /\ UNCHANGED <<tables, ownHot, live, was, absent, met, ops>>

-----------------------------------------------------------------------------
(* Readers: extc_rc_ownSlab and the probes it falls back on.  A lookup      *)
(* carries the table b it probes, the sequence number s0 and the generation *)
(* it read, the cell i it stands at.  Nothing keeps the writers away from   *)
(* it.  Five things can happen to a lookup that its protocol does not allow *)
(* for; the ghost met records those that did:                               *)
(*   "hot"       it was answered by an ownHot whose slab another thread had *)
(*               deregistered;                                              *)
(*   "swapped"   it read the mirror's table before the mirror's capacity    *)
(*               and got a capacity larger than the table;                  *)
(*   "torn"      it counted a miss in a table it had probed with the        *)
(*               capacity of another;                                       *)
(*   "unsettled" it counted a miss while another thread's deletion from     *)
(*               that table was unfinished;                                 *)
(*   "reloaded"  the build loaded the cell a second time and got a slab     *)
(*               that is not the key's;                                     *)
(* and "emptied" of the probe under way: a deletion emptied a cell it had   *)
(* passed.                                                                  *)

\* A lookup's answer: remembered until the caller takes it.
Answer(t, s) == th' = [th EXCEPT ![t].pc = "done", ![t].ans = s]

\* An answer of the ordinary table: a slab that passes the test of the slot
\* bounds, which only the slab of this address does, is kept in ownHot; anything
\* else sends the lookup to the table of oversized blocks.
AnswerSlab(t, s) ==
    IF s = th[t].key
    THEN Answer(t, s) /\ ownHot' = [ownHot EXCEPT ![t] = s]
    ELSE Go(t, "bigGen") /\ UNCHANGED ownHot

\* The hot slab, then the hit cache.
Lookup(t, k) ==
    /\ t \in Readers /\ th[t] = Idle
    /\ was' = IF k \in live THEN was \cup {t} ELSE was
    /\ absent' = IF k \in gone THEN absent \cup {t} ELSE absent
    /\ th' = [th EXCEPT ![t] =
                [pc |-> IF ownHot[t] = k /\ k \in Normal THEN "done" ELSE "map",
                 key |-> k, b |-> "slab", ans |-> IF k \in Normal THEN ownHot[t] ELSE None,
                 s0 |-> 0, g |-> 1, cap |-> 0, i |-> 0, tries |-> 0]]
    /\ met' = [met EXCEPT ![t] = IF ownHot[t] = k /\ k \in gone THEN {"hot"} ELSE {}]
    /\ UNCHANGED <<tables, live, gone, seq, lock, ownMap, ownHot, ops>>

LookupMap(t) ==
    /\ th[t].pc = "map"
    /\ LET k == th[t].key
       IN IF k \in Normal /\ ownMap[MapCell(k)] = k
          THEN AnswerSlab(t, k)
          ELSE Go(t, "fastSeq") /\ UNCHANGED ownHot
    /\ UNCHANGED <<tables, ghosts, seq, lock, ownMap, ops>>

\* extc_rc_ownProbeFast.
FastSeq(t) ==
    /\ th[t].pc = "fastSeq"
    /\ th' = [th EXCEPT ![t].s0 = seq, ![t].pc = "fastFirst"]
    /\ UNCHANGED <<tables, ghosts, seq, lock, ownMap, ownHot, ops>>

\* The words of the generation a reader is going to probe.
Start(t, g, cap, pc) ==
    th' = [th EXCEPT ![t].g = g, ![t].cap = cap,
                     ![t].pc = IF pc # "probe" THEN pc ELSE IF cap = 0 THEN "miss" ELSE "probe",
                     ![t].i = IF cap = 0 THEN 0 ELSE ProbeOf(th[t].key, cap)]

\* A new probe: no cell of it has been passed yet.
Afresh(t, more) == met' = [met EXCEPT ![t] = (@ \ {"emptied"}) \cup more]

\* A writer publishes a new generation by two stores, table first, before it
\* changes the sequence number.  The reader's two loads are plain ones, whatever
\* the comment says of an acquiring load: the build may do the table's first.
FastCap(t) ==
    /\ th[t].pc = "fastFirst"
    /\ Start(t, th[t].g, mir.cap, "fastTab")
    /\ UNCHANGED met

FastCapTab(t) ==
    /\ th[t].pc = "fastTab"
    /\ Start(t, mir.tab, th[t].cap, "probe")
    /\ Afresh(t, {})

FastTab(t) ==
    /\ th[t].pc = "fastFirst"
    /\ Start(t, mir.tab, 0, "fastCap")
    /\ UNCHANGED met

FastTabCap(t) ==
    /\ th[t].pc = "fastCap"
    /\ Start(t, th[t].g, mir.cap, "probe")
    /\ Afresh(t, IF mir.cap > gens["slab"][th[t].g].cap THEN {"swapped"} ELSE {})

Fast(t) ==
    /\ FastCap(t) \/ FastCapTab(t) \/ FastTab(t) \/ FastTabCap(t)
    /\ UNCHANGED <<tables, live, gone, was, absent, seq, lock, ownMap, ownHot, ops>>

\* One cell of extc_rc_ownSlotOf; a cell outside the table read is out of bounds.
Outside(t) == th[t].pc = "probe" /\ th[t].i >= gens[th[t].b][th[t].g].cap

Probe(t) ==
    /\ th[t].pc = "probe" /\ ~Outside(t)
    /\ LET e == gens[th[t].b][th[t].g].tab[th[t].i]
       IN th' = IF e \notin {None, th[t].key}
                THEN [th EXCEPT ![t].i = (@ + 1) % th[t].cap]
                ELSE [th EXCEPT ![t].pc = "deref", ![t].ans = e]
    /\ UNCHANGED <<tables, ghosts, seq, lock, ownMap, ownHot, ops>>

\* What is read outside a table is anything, and so is the answer.
ProbeOutside(t) ==
    /\ Outside(t)
    /\ \E s \in {None, th[t].key} : Answer(t, s)
    /\ UNCHANGED <<tables, ghosts, seq, lock, ownMap, ownHot, ops>>

\* The caller reads the cell whose address ownSlotOf returned: the compiler
\* may keep the value of the loop's test or load the cell again.
Deref(t) ==
    /\ th[t].pc = "deref"
    /\ \E s \in {th[t].ans, gens[th[t].b][th[t].g].tab[th[t].i]} :
          /\ IF s = None THEN Go(t, "miss") /\ UNCHANGED ownHot
             ELSE IF th[t].b = "slab" THEN AnswerSlab(t, s)
             ELSE Answer(t, IF s = th[t].key THEN s ELSE None) /\ UNCHANGED ownHot
          /\ Meet(IF s \notin {None, th[t].key} /\ th[t].b = KindOf(th[t].key) THEN {t} ELSE {},
                  "reloaded")
    /\ UNCHANGED <<tables, live, gone, was, absent, seq, lock, ownMap, ops>>

\* Faulty variant: a miss counts, whatever was written meanwhile.
CountsAlways(t) == TRUE

\* A probe that missed: with the sequence number unchanged the miss counts,
\* otherwise extc_rc_ownFind reads number and generation anew, a bounded number
\* of times.
Counts(t) == seq = th[t].s0

Tears(t) == th[t].cap # gens[th[t].b][th[t].g].cap

Deleting(t, b) == \E u \in Threads \ {t} : th[u].pc \in {"delErase", "delSeq"} /\ th[u].b = b

MissCounts(t) ==
    /\ th[t].pc = "miss" /\ Counts(t)
    /\ IF th[t].b = "slab" THEN Go(t, "bigGen") ELSE Answer(t, None)
    /\ met' = [met EXCEPT ![t] = @ \cup IF th[t].b # KindOf(th[t].key) THEN {}
                                      ELSE (IF Tears(t) THEN {"torn"} ELSE {})
                                           \cup (IF Deleting(t, th[t].b) THEN {"unsettled"} ELSE {})]
    /\ UNCHANGED <<tables, live, gone, was, absent, seq, lock, ownMap, ownHot, ops>>

MissRetries(t) ==
    /\ th[t].pc = "miss" /\ ~Counts(t)
    /\ IF th[t].tries <= Tries
       THEN th' = [th EXCEPT ![t].s0 = seq, ![t].pc = "findGen", ![t].tries = @ + 1]
       ELSE Go(t, "findLock")
    /\ UNCHANGED <<tables, ghosts, seq, lock, ownMap, ownHot, ops>>

\* The published generation, read once: table and capacity belong together.
FindGen(t) ==
    /\ th[t].pc = "findGen"
    /\ LET b == th[t].b IN Start(t, cur[b], gens[b][cur[b]].cap, "probe")
    /\ Afresh(t, {})
    /\ UNCHANGED <<tables, live, gone, was, absent, seq, lock, ownMap, ownHot, ops>>

\* The last resort: the same probe under the lock.
FindLock(t) ==
    /\ th[t].pc = "findLock" /\ lock = None
    /\ LET b == th[t].b
           g == gens[b][cur[b]]
           s == IF g.cap = 0 THEN None ELSE g.tab[SlotOf(g.tab, g.cap, th[t].key)]
       IN IF b = "slab" THEN AnswerSlab(t, s) ELSE Answer(t, s) /\ UNCHANGED ownHot
    /\ UNCHANGED <<tables, ghosts, seq, lock, ownMap, ops>>

\* extc_rc_ownBig reads the generation before the sequence number, and answers at
\* once when no oversized block was ever registered.
BigGen(t) ==
    /\ th[t].pc = "bigGen"
    /\ LET g == gens["big"][cur["big"]]
       IN IF g.cap = 0 THEN Answer(t, None)
          ELSE th' = [th EXCEPT ![t].b = "big", ![t].g = cur["big"], ![t].cap = g.cap,
                                ![t].tries = 0, ![t].pc = "bigSeq",
                                ![t].i = ProbeOf(th[t].key, g.cap)]
    /\ UNCHANGED <<tables, ghosts, seq, lock, ownMap, ownHot, ops>>

BigSeq(t) ==
    /\ th[t].pc = "bigSeq"
    /\ th' = [th EXCEPT ![t].s0 = seq, ![t].pc = "probe"]
    /\ Afresh(t, {})
    /\ UNCHANGED <<tables, live, gone, was, absent, seq, lock, ownMap, ownHot, ops>>

Return(t) ==
    /\ th[t].pc = "done"
    /\ th' = [th EXCEPT ![t] = Idle]
    /\ was' = was \ {t} /\ absent' = absent \ {t} /\ met' = [met EXCEPT ![t] = {}]
    /\ UNCHANGED <<tables, live, gone, seq, lock, ownMap, ownHot, ops>>

-----------------------------------------------------------------------------
Step(t) ==
    \/ \E k \in Keys : AddCall(t, k) \/ DelLock(t, k) \/ Lookup(t, k)
    \/ AddLock(t) \/ AddGrow(t) \/ AddMirTab(t) \/ AddMirCap(t) \/ AddCell(t) \/ AddMap(t) \/ AddSeq(t)
    \/ DelErase(t) \/ DelSeq(t)
    \/ LookupMap(t) \/ FastSeq(t) \/ Fast(t) \/ Probe(t) \/ ProbeOutside(t)
    \/ Deref(t) \/ MissCounts(t) \/ MissRetries(t)
    \/ FindGen(t) \/ FindLock(t) \/ BigGen(t) \/ BigSeq(t) \/ Return(t)

Next == \E t \in Threads : Step(t)

Spec == Init /\ [][Next]_vars

-----------------------------------------------------------------------------
Cells(b, i) == {gens[b][i].tab[c] : c \in DOMAIN gens[b][i].tab}

\* Types of the tables, the caches and the threads.
TypeOK ==
    /\ \A b \in Kinds : \A i \in 1 .. Len(gens[b]) :
          DOMAIN gens[b][i].tab = 0 .. gens[b][i].cap - 1 \/ gens[b][i] = Gen0
    /\ \A b \in Kinds : cur[b] \in 1 .. Len(gens[b]) /\ n[b] \in Nat
    /\ mir.tab \in 1 .. Len(gens["slab"]) /\ mir.cap \in 0 .. MaxCap
    /\ seq \in 0 .. MaxOps /\ lock \in Threads \cup {None}
    /\ ownMap \in [0 .. MapSize - 1 -> Normal \cup {None}]
    /\ ownHot \in [Threads -> Normal \cup {None}]
    /\ live \subseteq Keys /\ gone \subseteq Keys /\ live \cap gone = {}

\* A lookup finds every slab that was registered all the time it took, whatever
\* was registered, deregistered and grown meanwhile, unless it counted a miss
\* with the old capacity in the new table, counted a miss in the middle of a
\* deletion, or was handed another slab by a second load of the cell.
LookupFinds ==
    \A t \in was :
        th[t].pc = "done" /\ met[t] \cap {"torn", "unsettled", "reloaded", "swapped"} = {}
            => th[t].ans = th[t].key

\* A lookup of an address that no table has held since it began finds nothing,
\* so no freed slab is read, unless the thread's ownHot named the slab when
\* another thread deregistered it.
LookupAbsent ==
    \A t \in absent : th[t].pc = "done" /\ met[t] \cap {"hot", "swapped"} = {} => th[t].ans = None

\* A probe stays inside the table it reads, although the mirror's two words may
\* come from two generations, if the capacity was not read last.
ProbeInBounds == \A t \in Threads : Outside(t) => "swapped" \in met[t]

\* While nobody writes, the published tables hold exactly the live slabs, each
\* where its own probe finds it (a deletion moved back every entry it had to),
\* and an empty cell ends every probe that misses.
ChainsUnbroken ==
    lock = None =>
        \A b \in Kinds :
            LET g == gens[b][cur[b]]
                mine == {k \in live : KindOf(k) = b}
            IN /\ Cells(b, cur[b]) \ {None} = mine
               /\ n[b] = Cardinality(mine)
               /\ \A k \in mine : g.tab[SlotOf(g.tab, g.cap, k)] = k
               /\ mine # {} => None \in Cells(b, cur[b])

\* A lookup without the lock answers what the registry says, reading nothing
\* outside a table, while other threads register, deregister and grow at every
\* step of it: the exceptions are those of met and no other (extc_rc_ownSlab,
\* extc_rc_ownProbeFast, extc_rc_ownFind, extc_rc_ownBig).
LookupSound == LookupFinds /\ LookupAbsent /\ ProbeInBounds

\* The cells the search for an empty cell that closes a deletion still has to pass.
Ahead(t) ==
    LET g == gens[th[t].b][cur[th[t].b]]
    IN {c \in 0 .. g.cap - 1 :
          \A z \in 0 .. g.cap - 1 :
             g.tab[z] = None => Dist(th[t].j, c, g.cap) < Dist(th[t].j, z, g.cap)}

\* No loop over a table runs on: a probe that goes on is farther from where it began
\* (it never comes round to its first cell), whatever is registered and moved meanwhile,
\* unless a deletion has emptied a cell it had passed or its capacity is not the table's;
\* and every step of a deletion leaves fewer cells before the empty one that stops it,
\* although the deletion itself moves entries (extc_rc_ownSlotOf, extc_rc_ownErase have
\* no other exit).
SearchesEnd ==
    [][\A t \in Threads :
          LET r == th[t]
              s == th'[t]
          IN /\ r.pc = "probe" /\ s.pc = "probe" /\ s # r /\ "emptied" \notin met[t] /\ ~Tears(t) =>
                   Dist(ProbeOf(r.key, r.cap), r.i, r.cap) < Dist(ProbeOf(s.key, s.cap), s.i, s.cap)
             /\ r.pc = "delErase" /\ s.pc = "delErase" /\ s # r =>
                   Ahead(t)' \subseteq Ahead(t) /\ Ahead(t)' # Ahead(t)]_vars
=============================================================================
