# Verification of the extC compiler and runtime

extC is a compiler from a small systems language to C, written in C (`src/src/`),
with a runtime that the compiler prints into every program it emits
(`src/src/back/*.c` hold that runtime as C text) and a standard library written in
extC itself (`src/stdlib/`).  A program is single-threaded apart from the runtime's
slab registry, which is written so that readers need no lock.  The hard part is not
the threads.  It is the *incremental* runtime: a collector that works in small steps
between stores, pool trees that free each other recursively, coroutines that leave
places open while they sleep, and handles that must go stale exactly once.  Those are
modelled first and proved about.  The compiler's own passes (scanner, parser, and the
analyses a safe program rests on) are modelled as functions and checked over bounded
families of inputs.

Paths below are relative to the directory that holds `src/` and `tla/`, so the
compiler's back end is `src/src/back/`.

## 1. Inventory

| Component | Source | State | Operations | Hard part |
|---|---|---|---|---|
| Region collector | `src/src/back/reclaim.c` | slabs with bitmaps `occ`, `mark`, `rsbit`, counters `rscnt`; per region the flags `part`, `foreign`, `seedAny`, `noSweep`, `marking`, `sweeping`, the mark stack, the seed, scan and sweep cursors; the pin table | region new/free, `extc_rc_alloc`, the store barriers, `begin`/`advance`/`finish`/`sweepStep`, `checkOwed`, targeted release | a round runs in steps between the program's stores; frame slots and loads have no barrier |
| Call placement in generated code | `src/src/back/codegen.c` | none at run time | which barrier, trigger and release an assignment gets | a barrier left out, or called after the copy |
| Slab registry | `reclaim.c` 375-659 | two open-addressed tables in generations, the hit cache `ownMap`, the thread's `ownHot`, mirror words, sequence number, spin lock | `ownAdd`, `ownDel` (moves entries back), lookups without the lock, growth | a reader against a growing or shifting table |
| Slab allocator | `reclaim.c` | size classes, chains of slabs with room, free lists in the type numbers, bump cursors, type table and its index, shade cache | take, give back, new slab, sweep a word, next cache generation | one 16-bit field is a link or a type number; caches that outlive what they describe |
| Pacing | `reclaim.c` | bytes, credit, thresholds, owed sweeps | earn, spend | overflow, starvation |
| Pool registry, places, plates | `src/src/back/pools.c` | table of pools with two chains each (siblings, place), free lists, table of places, byte counters | `enter`, `leave`, `new_at`, `new_in`, `new_table`, `drop`, `reset`, `release`, take/give/resize | recursion over chains that the recursion itself edits |
| Dyn values | `src/src/back/pools.c` | slot table, generation per slot, table remembered per place | `extc_dyn_put`, sweep, growth, dispatch checks | ids of three kinds recycled independently |
| Task table | `src/src/back/coroutine.c`, `codegen.c` | task rows with their place and its mark | `task_begin`, step, `task_end` | places opened in one step and left in another |
| Slot map `stl::pool<T>` | `src/stdlib/stl/pool.extc` | `ent`, `slots`, `vals`, `cursor`, `holeHead`, `epoch` | `insert`, `set`, `get`, `remove`, `clear`, `grow`, `shrink`, `release`, `gather` | one word is a dense index or a link, depending on `cap` |
| Lexer, parser | `src/src/front/` | cursor, tokens; parser with its depth budgets and flags | one loop turn; every parse function | precedence, lookahead, nesting budgets, malformed input |
| Reference-depth dataflow | `src/src/check/check_dataflow.c` | facts: a depth per binding and field | joins, loops to a fixed point | bodies left by `break`, arms in any order |
| Names, proofs of non-null, types | `src/src/check/check*.c`, `src/src/types/` | scopes, C names, a stack of proofs; interned types | narrow, take back, resolve, substitute, assign, lay out, emit in order | a proof that outlives the write that ends it; two types with one C name |
| Coroutine scheduler, timers | `src/stdlib/` (`scheduler.extc`, `loop.extc`) | rows, run queue, deadlines, epoll set | spawn, pump, wait, wake | recycled rows with stale events |
| Domains | `src/src/back/domain.c` | list of tasks of a block | new, add, run | a second run |
| Escape analysis, module loader, driver | `src/src/` | compile-time tables | one pass each | import cycles, depths of stores |
| Rest of the standard library | `src/stdlib/` | hash maps, strings, HTTP, JSON | | resize and tombstones |

Interactions.  Generated code calls the collector at stores, allocations and the ends
of arenas, the pool registry at block entry and exit, and the task table at coroutine
steps.  The collector finds the slab of a pointer through the registry and takes its
slots from the slab allocator, which also paces it.  A dyn value is a slot, whose
payload is a block of an object-table pool, which belongs to a place; all four are
recycled.  The slot map is an ordinary extC program over a pool's raw blocks.  The
scheduler drives the task table.  In the compiler the scanner feeds the parser, whose
trees the analyses walk; what they conclude (depths, non-null proofs, layouts) is
what the runtime takes for granted.

What makes each part correct:

- **collector**: nothing the program can reach is freed; garbage is; a round ends; the
  colours, the registrations and the pins it relies on mean what the comments say;
- **slab registry**: a lookup answers what was registered all the time it took, and
  nothing that was not, whatever others write meanwhile (the code keeps this with the
  exceptions of section 2); a deletion breaks no other entry's probe; every search over a
  table ends;
- **slab allocator**: no slot is free and in use, none is lost, an object keeps its
  descriptor, the cache of black objects never knows a white one;
- **pool registry**: a call ends exactly the tree it names, no id is lost or handed
  out twice, both chains stay mutual, byte counters are exact;
- **dyn**: a handle that passes the checks finds its own payload;
- **tasks**: every place code can name is alive, and leaving finds its mark;
- **slot map**: it is a map from handles to values, whose handles go stale for good;
- **front end**: tokens are the text, trees are what was written, any input ends in a
  tree or a diagnostic;
- **analyses**: depths are upper bounds on every path, a body that passes dereferences
  no null, names and types do not collide, a C struct is defined before its users.

`PROJECT.json` lists the hazards line by line.

## 2. Modules

| Module | Models | Composes |
|---|---|---|
| `Reclaim` | the collector and the program that calls it | |
| `Registry` | the slab registry: writers under the lock, readers without it | |
| `Slabs` | the slab allocator of one region, its caches and its pacing | |
| `Pools` | places, pools, plates, tasks | refines `PoolTree` |
| `PoolTree` | what the registry of pools promises: a forest whose subtrees end at once | |
| `Dyn` | dyn values on top of the whole registry (every action of `Pools` is an action of `Dyn`) | extends `Pools` |
| `SlotMap` | `stl::pool<T>` | refines `SlotMapSpec` |
| `SlotMapSpec` | a map from handles to values | |
| `Lexer` | the scanner, one action per turn of its loop | |
| `Parser` | every parse function, as an operator on the parser's state | |
| `Grammar` | the reference: a printer, and the meaning of a range loop | extends `Parser` |
| `FrontEnd` | scanning a text, parsing a token sequence | `Lexer`, `Grammar` |
| `Dataflow` | reference depths, and all runs of a body | |
| `Scopes` | scopes, C names, non-null proofs, and all runs of a body | |
| `Types` | the type table, its questions and the order of definitions | |
| `Compiler` | one behaviour: scan, parse, or run one analysis on one input | `FrontEnd`, `Dataflow`, `Scopes`, `Types` |
| `ReclaimProofs` | invariants and proofs of the collector | `Reclaim` |
| `SharedLemmas` | remainders, least elements, sequences and finite sums, for the proofs below | |
| `SlabsProofs` | invariants and proofs of the slab allocator | `Slabs`, `SharedLemmas` |
| `RegistryProofs` | invariants and proofs of the slab registry | `Registry`, `SharedLemmas` |
| `PoolsProofs` | invariant of the pool registry and its places | `Pools`, `SharedLemmas` |
| `PoolsPromises` | its free list, its byte counters, its refinement of `PoolTree`, the variant of its calls; invariants and proofs of dyn values | `PoolsProofs`, `Dyn` |
| `LexerProofs` | invariant and proof of the scanner | `Lexer`, `SharedLemmas` |
| `SlotMapProofs` | invariant, proofs and refinement of the slot map | `SlotMap` |
| `MC*` | instances for TLC: numberings, hashes, families of inputs, symmetry | |

A definition named "Faulty variant" or "Mutant" in a comment is a plausible bug of the
definition after it.  It is not part of a specification: `PROJECT.json` pairs each
property with one, and TLC finds the property violated when the variant takes the
definition's place.

### Reclaim

The default build (`EXTC_RC_NOCOUNT = 1`, no holder counts).  One thread: a call of the
runtime runs under the program counter `pc`, region `cur`, and no program step happens
until it returns; but a *round* spans many calls.

| Code | Model |
|---|---|
| slab on `r->slabs` | `owner[b] = r` |
| bitmaps `occ`, `mark`; `rsbit`/`rscnt` | sets `occ`, `mark`; `rscnt` (sticky at `RsSat`) |
| reference words of an object, frame slots in the root table, slots outside slabs | `field`, `local`, `ext` |
| pin table | `pin` (entries per object) |
| mark stack; entries with the force bit | `mstk`, `force` |
| `scanObj` and its cursor | `scan`: the fields not scanned yet |
| seed cursor; sweep cursor, `swEpoch`/`swWord` | `seedTodo`; `swTodo`, `swDone` |
| `extc_rc_alloc` | `AllocEnter`, `Advance`, `Take`, `TakeNewSlab`, `TakeNothing` |
| trigger calls | `ResumeRound`, `CheckOwed` (both `Abandon` the sweep of a `noSweep` region), `BeginRound` |
| mark step, `finish`, sweep step | `MarkResume`, `SeedStep`, `WalkPop`, `WalkEnd`, `Finish`, `SweepStep`, `SweepWait` |
| `storeRef`, `storeRefSameRegion`, `storeStructCons`, `storeStructRooted`, unknown hosts | `StoreOwned`, `StoreSameRegion`, `StoreStruct`, `StoreLocal`, `StoreUnknown`, `StoreStructUnknown` |
| `extc_rc_releaseDead`, `releaseOld` | `Release` |
| `regionNew`, `regionFree` | `RegionNew`, `RegionFree` |

Abstractions: stack and cursors are sets, so every order is explored; bytes of credit
are left out, so a round may start whenever the structural guards allow it (`Slabs`
models the bytes); the depth rule of the escape analysis (`MayHold`: an object holds
references to regions that live at least as long) is an assumption.

`Allow` names *situations* that generated code can create and the runtime's comments
do not consider.  With `Allow = {}` a run checks the protocol proper; allowing one
shows what the code does in it (section 6).  Theorems name the situations they exclude.
Each exclusion is the situation itself and nothing more.  `"unlink"`, the death of an
object with an edge into a marking region, is excluded at the sweep step and at the
region's end: a sweep step whose dead hold such an edge waits (`SweepWait`, a step of the
model and not of the code); any two regions may mark or sweep at the same time.

The resume step `MarkResume` seeds as well as it scans: the comment in `markResume` says
that the budget is used up and seeding is not entered, but the default work budget is 0,
which means none, and the loop over the seed words is bounded by its own portion
(`reclaim.c:996`, `2269`).

### Registry

A slab is identified with its key.  `gens[b]` holds every generation of table `b` that
was ever built (the code frees none), `cur[b]` the published one, `mir` the two mirror
words the fast path reads, `seq` the sequence number, `lock` the holder of the spin
lock.  A writer (`AddCall` ... `AddSeq`, `DelLock`, `DelErase`, `DelSeq`) and a reader
(`Lookup` ... `Return`) are sequences of steps between any two of which another
thread may move: one store or one probed cell each, and a deletion moves one entry at
a time.  `Deref` allows the compiler to read the cell twice.  `live`, `gone`, `was` and
`absent` are history: which keys are registered for good, which are in no table, and
which lookups began with such a key that has stayed so.

Nothing keeps a writer away from a reader: a lookup begins and goes on in the middle of
registrations, growths and deletions, and the two plain loads of the mirror are two
steps, in either order (`FastCap`, `FastCapTab`; `FastTab`, `FastTabCap`).  The protocol does not
withstand all of that.  The ghost `met[t]` records what the lookup of `t` has met that
it has no answer to, and the properties except exactly these:

| `met` | What happened | What it may cost |
|---|---|---|
| `torn` | a miss counted in a table that was probed with another table's capacity | a registered slab is not found |
| `unsettled` | a miss counted while another thread's deletion from that table was unfinished | the same |
| `reloaded` | the build loaded the cell a second time and got another key's slab | the same |
| `hot` | `ownHot` still named a slab another thread had deleted | a freed slab is answered |
| `swapped` | the mirror's table was loaded before its capacity | a cell outside the table is read |
| `emptied` | a deletion emptied a cell the probe under way had passed | the probe comes round |

That a probe under way uses another table's capacity (`Tears`) is visible in the state and
needs no ghost; such a probe, too, may come round.

### Slabs

One region.  A slab is a record: class, bump cursor, head of the free list, `avail`,
`occ`, `mark`, the type numbers `tid` (of a free slot: the link), the type table, its
index and the one-entry cache `last`; `want` is history: the descriptor each object was
allocated with.  `Alloc` is `extc_rc_alloc` from the choice of the slab on; `Begin`,
`Walk`, `Shade`, `Finish`, `SweepWord`, `SweepEnd`, `Release`, `RegionFree` are the calls that
touch slots, caches or accounts.  Which objects a round finds is open: a mark may reach
any object.  `IntMax` stands for the largest 64-bit value in the threshold's overflow case.

### Pools, PoolTree, Dyn

`Pools` keeps the table (`pool`, `poolCap`, `poolFree`, `kind`), the places (`zone`,
`zoneN`, `zoneFree`, `zoneTop`), block sizes and byte counters, the task rows and two
stacks: `calls`, the program's frames that hold marks, and `rt`, the frames of the
running runtime call.  `drop`, `reset`, `release` and `leave` recurse in the code; here
each frame of the recursion is a frame of `rt` with the link its loop saved (`next`),
so that a link saved before a nested call and used after it is visible to the
properties.  `made` records how a pool was made and is read by properties only.  `Makes` is
the set of pool modes the program asks for: 0 container, 1 object table.

`PoolTree` removes a subtree in one step.  Under the mapping, what a running call is
going to end has already ended (`Doomed`, `Closing`); the steps that then do the work stutter.

`Dyn` adds the slot table, the slots' generations and `dynPoolOf`.

### SlotMap, SlotMapSpec

One pool value.  `Raw` is what a block that was not zeroed contains.  `Shrink` says
when the program shrinks: `"never"`, when `"packed"` (every used slot is live, that is
`cursor = n`) or at `"any"` time.  `broken` is set by an index outside a column, the
state after which the program has trapped.  `SlotMapSpec` is the promise: `insert` gives
out a handle that was never given out, a handle names its value until it is removed or
the map is cleared, and then nothing for ever.

### The compiler

`Lexer` scans one text: `src`, the cursor `lx`, the tokens `out`.  A character is a
one-character string; the keyword and punctuation tables are the real ones, cut to what
the letters of a model can spell.  `Parser` has one operator per parse function: it
takes a parser (tokens, position, the flags `inCond` and `sawGlobal`, the two depth
counters, the error flag) and returns the parser behind what it consumed with the
node it built.  `Grammar` knows nothing of the recursive descent: a printer that
follows the precedence table only, and a small interpreter for range loops.

`Dataflow`, `Scopes` and `Types` hold a pass each, as operators named after the C functions
(`dfStmt`, `joinInto`, `narrowTarget`, `ttSubstitute`, `checkAssignable` ...), and below
the pass what a program does when it runs, as the set of all its paths, or what a type
contains.  `Compiler` ties them together: `task` is a pass and an input, and one step
runs it.  Sequential code is modelled as functions because nothing interleaves; the
properties say what the whole function is for.

## 3. Runs

| Run | Question | Bounds |
|---|---|---|
| `reclaim_wide` | Do loads, stores, whole-value stores and allocations between the steps of a round lose an object, a grey one or a mark, or feed the phase? (`LiveIntact`, `BlackClosed`, `RootsBlack`, `MarksClean`, `MarkingShrinks`) | 1 region, 2 slots of 2 fields scanned one at a time, 2 frame slots, a mark step at every second allocation, `Allow = {"struct"}` |
| `reclaim_pins` | Are references held outside every slab kept? (`PinCovers`) | 2 hosts, 2 slots |
| `reclaim_cross` | Are registrations of cross-region edges exact, up to saturation, through stores, sweeps and region ends, and do seeds keep their targets? (`TypeOK`, `LiveIntact`, `RsExact`) | 2 nested regions whose rounds may overlap, 3 slots, saturation at 2 |
| `reclaim_live` | Does a mark phase end, is garbage freed? (`RoundEnds`, `GarbageFreed`) | 1 region, 2 slots, fair |
| `registry` | Does a lookup without the lock answer right whatever is written meanwhile, outside the cases of `met`, and does every search over a table end? (`LookupSound`, `ChainsUnbroken`, `SearchesEnd`) | 2 threads, 3 slabs two of which collide everywhere, 1 oversized block, tables that start with 2 cells and double, 2 cells of hit cache, 1 optimistic retry, 5 writer calls, of which one thread may make any at every step of the other's lookup |
| `slabs` | Is the memory of a region accounted for? (`SlotsExact`, `KnownIsBlack`, `AccountExact`) | 2 slabs of 2 slots, 2 classes, 5 kinds of object, an index after the first descriptor that doubles once, 2 cache cells and 4 generations, 5 bytes |
| `pools_chains` | Do drops, resets and releases end exactly their tree, keep every chain and list, and return? (`ChainsMutual`, `FreeListExact`, `TreeImplemented`, `CallsReturn`, `WorkShrinks`) | 3 pools, 2 places, nesting 2, 2 generations |
| `pools_tasks` | Do tasks that begin, step, suspend, end in any order leave a name for a dead place? (`NamedPlaceAlive`, `MarkOnStack`) | 2 tasks, 3 places, 2 pools, 1 block, colours modulo 3 so that they wrap |
| `dyn_slots` | Does a handle that dispatches find its payload, are counters exact, is growth needed? (`DispatchSound`, `BytesExact`, `GrowsOnlyWhenFull`) | 2 slots, 2 pools, 2 places, 2 blocks of size 1 or 2 |
| `slotmap_handles` | Is the slot map a map of handles? (`DenseExact`, `InBounds`, `MapImplemented`, `NoResurrection`) | capacity 2 to 3, 2 generations, 1 clear, 2 values, raw memory that looks live |
| `compiler` | Are tokens the text, trees what was written, and the analyses right about every run of a program? (`ScanExact`, `TreesExact`, `LoopMeaning`, `ParserSafe`, `DepthsSound`, `NullSafe`, `NamesApart`, `TypesSound`) | all texts up to 4 or 5 characters over four small alphabets; expressions nested twice, every statement and declaration form, token soups up to 4, nesting to 22 against budgets of 20 and 9; some thousands of bodies, with expressions followed 3 deep; some hundreds of types over 7 structs |
| `null_proofs` | *violated*: `NullSafeAlways`, a proof of non-null that comes back | the same bodies |

Why these bounds.  A lost object in a collector of this kind needs three objects (a
black holder, a white victim, the grey object that used to lead to it) and a second
frame slot to move a reference through, or one wide object scanned in two steps;
budgets of 1 make every program step fall between every two collector steps.  Two
regions give every cross-region case, because an edge has two ends; saturation at 2 is
reached by two edges.  A chain bug needs a head, a middle and a tail: three pools.
Recycling needs each id to be used twice.  A probe chain needs two keys that collide
and a third displaced by them, one deletion in front of both, and a table that doubles
while a reader stands in the old one.  The shade cache needs its generations to come
round its cells once.  A precedence bug shows in an operator under an operator; a join
bug needs two arms and a loop; a proof bug a guard, a write and a use.  Where a run
says `CHECK_DEADLOCK FALSE` the program may really stop: it has trapped, the pass is
over, or the bound on generations, clears or calls is used up.

Fairness.  `reclaim_live`: weak fairness of the runtime's own steps (a call runs to its
end; nothing else runs meanwhile), and strong fairness of allocation and of
the start of a round, for each region: this describes a program that keeps allocating in
the region, which is when credit accrues and the trigger next to the allocation
fires.  For a program that stops allocating the code promises nothing and neither
does the run.  `pools_chains`: weak fairness of the running runtime call, the only
thing that can run until it returns.

Properties, in words:

- `LiveIntact`: what frames and outside slots reach is occupied.
- `BlackClosed`: a child of a black object is black, on a stack, or its holder is
  still to be scanned.
- `RootsBlack`: when marking is out of work, every reference in the program's hands is
  black.  This is what replaces a load barrier, and why stores shade both values.
- `MarksClean`: outside rounds the mark bitmap is clear, which `markBegin` relies on.
- `MarkingShrinks`: the weighed rest of a mark phase, `MarkWork`, only goes down.
- `RsExact`, `PinCovers`: registrations and pins against the edges that exist.
- `LookupSound`: a lookup finds a slab that was registered throughout, finds nothing
  when there was nothing throughout, and reads no cell outside a table; each clause names
  the elements of `met` it excepts, and section 6 shows that each is needed.
  `ChainsUnbroken`: with the lock free, the tables hold exactly the live slabs, each
  where its own probe meets it.  `SearchesEnd`: a probe never comes round to its first cell,
  because the load limit 1/2 leaves an empty one on its way (`reclaim.c:420`), unless a
  deletion has emptied a cell it had passed; and each step of a deletion leaves fewer
  cells before the empty one that ends it.
- `SlotsExact`: free lists, chains of slabs with room and type numbers are exact.
  `KnownIsBlack`: a hit of the shade cache is a black object.  `AccountExact`: bytes and threshold.
- `ChainsMutual`, `FreeListExact`, `TreeImplemented`, `CallsReturn`, `WorkShrinks`: the two
  chains, the free list, the refinement of `PoolTree`, termination (no chain becomes
  circular) and the number that shows it, `Work`.
- `NamedPlaceAlive`, `MarkOnStack`: places of frames and suspended tasks.
- `DispatchSound`, `BytesExact`, `GrowsOnlyWhenFull`: dyn.
- `DenseExact`, `InBounds`, `MapImplemented`, `NoResurrection`: slot map.
- `ScanExact`, `TreesExact`, `LoopMeaning`, `ParserSafe`: scanner and parser against
  text, printer and interpreter.  `DepthsSound`, `NullSafe`, `NamesApart`, `TypesSound`:
  the analyses against all runs and all contents.

`NullSafe` leaves out the bodies in which the checker's stack of proofs was cut below
the length of an enclosing block (`crossed`); `null_proofs` shows what happens there.
Both, and `NamesApart`, leave out the programs that have a name which is another of their
names followed by `__` and a number (`LooksMade`): nothing in `cNameFor` keeps a made
name from meeting a written one (section 6).

`DepthsSound` says that the depth of a binding bounds every reference it holds at any
point of any run, and that the depth of a field bounds what is in the field at the end.
The second part leaves out the bodies in which a struct gets a whole value whose fields
the analysis does not enter one by one (`Rebuilt`): there it is false.  Both leave out the
bodies in which a binding the analysis has no case for is the source of one assignment
and read by another (`Forgets`), and expressions nested deeper than the analysis follows them (`Followed`; 32 in the code, 3 in the run).  The
families contain such bodies; section 6 says what happens in them.

## 4. Proofs

TLAPS proves, for every instance of the constants under the modules' `ASSUME`s:

| Theorem | Statement | Situations left out |
|---|---|---|
| `TypeCorrect` | `[]TypeOK` (Reclaim) | none |
| `CleanStart`, `TriColour` | `[]MarksClean`, `[]BlackClosed` | `newslab`: a slab added during a sweep |
| `ReachableStays`, `RootsFound`, `PinsCover` | `[]LiveIntact`, `[]RootsBlack`, `[]PinCovers` | `newslab`, `release`, `unlink`, `structmark` |
| `RegistrationExact` | `[]RsExact` | all |
| `PhasesConverge` | `MarkingShrinks`: an open mark phase has less to do after each mark step that moves a cursor, and never more | `newslab`, `release` |
| `ChainsIntact`, `SavedLinksLive` | `[]ChainsMutual`, `[]SavedLinkAlive` (Pools) | none |
| `PlacesNamedAlive`, `LeaveStopsAtMark` | `[]NamedPlaceAlive`, `[]MarkOnStack` | none |
| `FreeSlotsExact`, `EveryByteCounted` | `[]FreeListExact`, `[]BytesExact` | none |
| `RegistryImplementsTree` | `TreeImplemented`: Pools implements PoolTree | none |
| `CallsShrink` | `WorkShrinks`: a running call of Pools has less to do after each step | none |
| `DispatchesSound`, `TableGrowsWhenFull`, `DynBytesCounted` | `[]DispatchSound`, `GrowsOnlyWhenFull`, `[]BytesExact` (Dyn) | none |
| `SlabMemoryExact`, `ShadeCacheSound`, `RegionBytesExact` | `[]SlotsExact`, `[]KnownIsBlack`, `[]AccountExact` (Slabs) | none |
| `ScanIsExact` | `[]ScanExact` (Lexer, `LexSpec`) | none |
| `ProbesReach` | `[]ChainsUnbroken` (Registry) | none |
| `LookupsAnswer` | `[]LookupSound` (Registry) | none; the property names its exceptions |
| `LoopsEnd` | `SearchesEnd` (Registry): no search over a table runs on | none; the property names its exceptions |
| `PoolTypes`, `PoolInBounds`, `PoolDense` | `[]TypeOK`, `[]InBounds`, `[]DenseExact` (SlotMap) | shrink with holes |
| `PoolStale` | `NoResurrection` | shrink with holes |
| `PoolKeepsPromise` | `MapImplemented`: SlotMap implements SlotMapSpec | shrink with holes |

The assumptions of `Reclaim` (`ConstantsOK`) are shapes only: slabs hold words, words
hold slots, budgets are positive, and there are finitely many words, slots, fields and
outside slots.  Those of `SlotMap` say that the smallest capacity is
at least 2 (the code's is 8) and that raw words are words.  Those of `Registry` say that
the first table has at least 2 cells (64 and 16 in the code; a table of one cell would
have no empty cell to end a probe) and that no thread is named like the free lock.
`Pools` assumes finitely many addresses, without which no sum of bytes is defined,
`Slabs` a floor of the threshold that is a number of bytes, and `Lexer` that a text is a
sequence of strings, which is how it writes characters.  The situations left out are
hypotheses of the theorems that need them; section 6 shows what happens in them, so
each of them is needed.

**The collector: types and colours** (`ReclaimProofs`).  `TypeOK` alone is not
inductive, because a step under `pc` works for a region that must still be alive:
`TInv` adds that occupied slots lie in slabs of living regions and that rounds belong
to living regions.  For the colours, `MInv == TInv /\ ColourInv` adds that marked slots
lie in living regions, that a region never marks and sweeps at once and the running
call fits the phase (`Phases`), and that the sweep cursor divides the region's words
with no mark behind it (`SweepDivides`).  `MarksClean` then follows at the end of a
sweep, when nothing is ahead of the cursor; and `BlackClosed` follows at the beginning
of a mark phase because the bitmap is clean.  That is why the two are proved together.

**The collector: nothing reachable is freed** (`ReclaimProofs`, second half).  `LiveIntact` speaks of
reachability, which no step preserves by itself: a store or a load can make reachable
what a sweep would free, unless the colours forbid it.  The invariant is
`SafeInv == MInv /\ EdgeInv /\ RoundInv /\ PinCovers /\ LiveCore`:

- `EdgeInv`: regions have distinct depths and an edge goes to a region that lives at
  least as long (`DepthsApart`, `DepthRule`); a region that has taken part in nothing
  has no edge to lose (`PartCounts`); a cross-region edge is known to its target,
  by a count or a pin or because the region has left sweeping (`CrossKnown`,
  `RsHeld`);
- `RoundInv`: what a round has done so far, with any number of rounds open at once.
  `CursorSplits` says that no word is both ahead of the sweep cursor and behind it, and
  `Snapshot` that whatever the program holds, or another region holds, in a region that
  marks is in every set the mark phase `Covers`: the marked slots, the stack, what the
  cursor has yet to seed, closed under fields.  That is the snapshot argument:
  a load needs no barrier because what it can reach was in the set when the round began;
- `LiveCore`: there is a set of occupied slots, closed under fields, that holds every
  root and every target of an edge between regions and that no open sweep will
  free.  It stands for the set of reachable slots without a recursion, and each step
  either keeps it or grows it by what was allocated.

**A mark phase ends** (`ReclaimProofs`, last part).  `MarkWork` adds up what is left to a phase, for
objects of `n` fields: `2n + 2` for a white object, `2n + 1` for an object the barrier
pushed, two for a field under the scan cursor, one for a plain entry of the stack, and
for a seed word one more than there are slots.  Each step pays for what it creates: the
barrier trades a white object for a pushed one (`ShadedLoad`), a popped object its
weight for its fields (`ScannedLoad`), a scanned field or a seed word its weight for
plain entries (`SteppedLoad`), an entry that is skipped just goes (`SkippedLoad`).  What else
happens must not make an object of the region white: objects are born black there
(`BirthFalls`), and the sweep of another region clears no mark of this one, which is where
`SweepDivides` and `Phases` are needed (`SweepFalls`).  A phase therefore moves its cursors
finitely often, however much the program stores and allocates in between, and a faster
program cannot make it longer.  A release inside the round is left out because it does
whiten its region.

**The pool registry** (`PoolsProofs`).  The recursion of `extc_poolDrop` is a stack of
frames, each with the link its loop saved before the call.  `PoolInv == Typed /\ ChainInv
/\ PlaceInv`.  `Shape`, `PlaceLinks` and `ChildLinks` say that links are mutual and
heads are heads; `Saved` that a saved link is a living pool of the chain the frame
walks; `Ordered` says why a deeper drop cannot free it: a pool is born after its parent
and its chain runs from young to old, so a drop inside a frame stays away
from what the frames below have saved.  `PlacesFree` says that a pool's place is alive
or is the one being left.  `PlaceInv` (`Stack`, `Unwound`) describes the stack of
places as one chain with the marks of blocks and tasks on it in their order, which is
what lets a suspended task find its mark after others have entered and left.

**The free list of pool slots** (`PoolsPromises`).  `FreeListExact` walks the list, a
recursion.  `FreeList` states instead that there are a length `n` and a function on
`1..n` that begins at `poolFree`, follows `freeNext` to the end, meets no slot twice and
meets every free slot below `poolCap`.  Taking cuts the first, freeing puts one in
front, growth lists the new slots in descending order.  The walk and the function
agree place by place (`WalkIsList`) by a least counterexample.

**Sums** (`SharedLemmas`).  The library's sum over a set is a recursive function, fixed by a
CHOOSE over all functions on its subsets that add member by member.  `Total` is that sum
over the entries of a function: it exists (`TallyExists`), does not depend on the order
(`TallyStep`), and changes by one entry when one entry changes (`TotalAfter`), when a
member is added (`TotalMore`) or when a part is taken away (`TotalParts`).  Each follows
from a least set that would be a counterexample (`LeastPart`), so no induction theorem
is needed.

**The bytes of pools** (`PoolsPromises`).  `Account` says that the counters are
the sums, that a block with a size has an owner, and that it has one owner only
(`OneOwner`): without the last, giving a block back could change a second counter.
The hard steps are those in which many bytes move at once: a drop or a reset takes the
whole plate of a pool from the program's counter (`AccountFreed`), whatever the frames
above it still have to do.

**The registry is a tree** (`PoolsPromises`).  A drop of a pool is one step of `PoolTree`
and many of `Pools`.  The abstract tree is therefore the living pools without the
`Doomed` ones, those that hang off a pool or a place some frame of the running call is
about to end.  The call's first step dooms everything it will free, which is the abstract
step; each later step frees a pool that is already doomed and moves its children from
"hangs off the freed pool" to "named by a frame", which must leave `Doomed` minus the
dead as it was (`HangsOffBelow`, `NestedDoomed`, `ReleaseDoneMaps`).  `HangsOff` is a least closed set,
defined without recursion, and `Under` of `PoolTree` is the same set seen from the
abstract side (`UnderIs`).  What the code relies on is visible in the hypotheses: that
both chains hold every child (`ChainInv`), that a frame's saved link stays in its chain,
and that generated code runs only when the stack of calls is empty (`QuietIs`).

**A call ends** (`PoolsPromises`).  `Work` is a natural number: four for every living pool
that no `call` or `drop` frame is at and for every place not yet being released, two for
a frame, one for a frame that has not begun.  `CallsShrink` says that every step of a
running call takes it down, so a call makes at most `Work` steps.  A return and an entry shed frames.
A loop adds one, and pays for it with the pool it calls for, which must be new: no
frame below may be at that pool already (`NextChildShrinks`).  This is where the order of
births in `ChainInv` enters again, because a child is younger than every pool whose drop
led to it.  A round of leaving pays with the place it begins (`LeaveRoundShrinks`), which
is alive by `Unwound`.  Nothing bounds the table, the nesting or the chains.

**Dyn values** (`PoolsPromises`).  Four tables recycle their ids.  `Aged` compares a state with
a later one: a pool id in use again belongs to a younger pool, and a living object
table keeps its blocks.  With `SlotsHold` (a slot in use that still dispatches has its
block) and `HandleHolds` (a handle whose generation is the slot's has its payload there)
this makes `DispatchSound` inductive through every action of `Pools`.  `Descending`
(the free list meets every vacant slot from the last to the first, as the sweep builds
it) is what makes "the list is empty" mean "the table is full".

**The slab allocator** (`SlabsProofs`).  `SlabsInv` holds of every slab by itself and of
the chains between them.  In a slab, `ListHolds` threads the idle slots on the free list
as above, through the fields that are type numbers in the slots in use; freeing a whole
word is proved by a least counterexample over the prefixes of the word
(`ThreadFreed`).  `NumbersHold` says that the table has no descriptor twice, that a slot in
use has the number of its descriptor, and that the index, once there is one, is a probe
table of the whole type table: from the home cell of each descriptor to its own no
cell is empty (`IndexHolds`).  That is why a lookup that meets an empty cell may enter the
descriptor; and growth keeps a cell empty for the next one.  The
chains (`ChainInv`) hold a slab at most once, `avail` exactly when it is there, and every
slab with room says `avail`.  For the cache of black objects, `CacheInv` says that
what it holds lies at its cell of a generation since the last clearing; fewer than
`GenCells` generations lie between, so the cells of a new generation are all different
(`SameRemainder`) and the cache begins each generation knowing nothing.  Within
one, `NoNewWhite` keeps what it knows black.  For the bytes, `AccountInv` adds that they are the
`Total` of the weights of the slabs, a slab's weight being its slots in use times the size of its
class; an allocation adds a member to one `occ` or a slab of weight zero first, a
swept word takes many members away at once (`WeightLess`).

**The slab registry** (`RegistryProofs`).  `ChainsUnbroken` speaks of the moments when
nobody writes; `RegistryInv` says what holds between.  `LockOK` and `KeysOK` put at most one
writer between the first store and the last, working on a key that is neither live nor
gone.  `TablesOK` says what that writer's table holds: as before, with the new key
(`Table`: no entry twice, and from the home cell of each entry to its own no cell is
empty), or, during a deletion, a `Gap`: the cells from the hole to the one last looked at
are full, and only an entry beyond them may still have the hole on its probe path.
`extc_rc_ownErase` moves an entry exactly when that would stop being so (`GapSkips`,
`GapMoves`), and an empty cell ends the search because no path runs across it
(`GapEnds`).  Knuth's condition on three indices, with its case for the wrap-around, is
shown to be a comparison of distances in probing order (`MovesIs`); everything else is
argued in distances.  Growth inserts the entries one by one into an empty table
(`NextRegHolds`).

`LookupInv` adds the readers, which no writer waits for.  The hit cache names no slab that
is gone (`MapOK`).  The mirror names the published generation or, between two stores of a
growth, the one before it, which holds as much, and its capacity is never larger than its
table's (`MirrorOK`).  The hole of a deletion holds no slab that is gone (`HoleOK`).  Of a
reader (`ReadersOK`) four things hold at each point it can be at.  `Bounds`: it stands
inside the generation it probes, unless it met `swapped`.  `Clean`: if its key is gone, the
generation does not hold it; a writer may not put it there without making the key not gone
first.  `Finds`: if its key was live all along, then it will meet it from where it stands,
or its capacity is not its table's, or there is `Danger`, that is, a deletion from its
table has ended since it read the sequence number or is under way.  Only a deletion can
move the key behind the reader: a registration fills an empty cell of the last
generation, and growth leaves the old one alone.  When a miss counts, the sequence number is
the one read, so that no deletion has ended, and what is left of `Danger` is `unsettled`;
what is left of the capacity is `torn`.  Those two are therefore not chosen to make the
proof pass; they are what remains of the protocol's argument.  The theorem has no
hypothesis, and no bound on how many slabs are added or how often the table grows while
a reader is on its way.

`LoopsEnd` is about the two loops without another exit.  `SearchInv` adds to these
invariants that every generation with cells has an empty one (`RoomOK`: at most half of
them are used when it is published and filled, and during a deletion one is empty
besides the hole, `GapRoom`) and that the cell a deletion works on holds an entry until
it is overwritten or emptied (`TakenOK`).  For the reader, `Unpassed` says that the cells
it has passed are taken unless one of them was `emptied`, whatever is added and moved.  If
its next step came round, all cells would be taken, against `RoomOK`.  For the deletion,
`SearchesEnd` names the cells `Ahead` of it before the nearest empty one; the step from
one taken cell to the next leaves fewer of them (`AheadShrinks`), and moving an entry
fills the old hole before it opens the new one behind the search.

**The slot map** (`SlotMapProofs`).  `SInv == TypeOK /\ Sized /\ DenseInv /\ HandleInv /\
ChainInv`.  `DenseInv`: a dense place and its slot name each other and somebody holds
the handle.  `HandleInv`: a handle of this epoch is never younger than its slot, and
has the slot's generation only while the slot is live.  `ChainInv`: there is a set of
used slots that contains the chain, is closed under its links, into which no two links
lead to one place and none back to the head, and whose members are not live; it is
counted against `cursor - n`, which is why `insert` finds room where it looks.
Refinement follows from what an insert and a remove look like to a user (`Added`,
`Removed`).

**The scanner** (`LexerProofs`).  `ScanExact` is proved of `LexSpec`, the turns of `lexRange`
on one text; in `FrontEnd` the behaviours that scan a text are those, and parsing leaves the
scanner's variables alone.  The properties are stated of a text, a cursor and a stream of
tokens.  `LexInv` says that each token holds its part of `ScanExact` (`TokenHolds`,
`PairHolds`), that the cursor has the line of its position, and its column unless a
character literal came before it on the line (`Placed`), and that only what may be skipped
lies between the last token and the cursor (`Clear`).  `Clear` is a set of places from each of
which one blank, newline or comment leads to another; it grows at the far end, while
`Skippable` recurs from the near one, and `ClearSkips` is the bridge.  The loops of the
scanner are functions defined by recursion on the place in the text: `ScanIs` and `CloseIs`
show that such a function exists, by extending one place at a time towards the front
(`AheadStep`), and `ScanEnds` and `CloseEnds` what it returns, by a least
counterexample.  That a closing quote is bare rests on parity: the scan of a string
passes a backslash and what it escapes together, so the run of backslashes before each
place it stops at is even (`ScanPlain`, `ScanEscape`).  Longest match is a fact
about the order of `PUNCTS` (`FirstIsLongest`): an entry that another one extends stands
behind it.

The inductive invariants were checked by TLC on the runs' instances before they were
proved.  Only model-checked:

- liveness (`RoundEnds`, `GarbageFreed`, `CallsReturn`): the prover has neither fairness
  nor ENABLED.  Of `CallsReturn` and `RoundEnds` the part that could fail, the number that
  goes down, is proved (`CallsShrink`, `PhasesConverge`); that a call is never stuck
  halfway, and that a phase out of work is closed, is left to TLC;
- every property of the compiler's passes but `ScanExact`: the modules hold recursive operators on
  trees and texts, and what they say is an induction over those.

## 5. Confirmed disagreement between code and text

`null_proofs` is a run that TLC must find violated, with a finding in `PROJECT.json`:
the checker's stack of non-null proofs is restored by its old length
(`check_stmt.c:1155`), so a proof that a write in a nested block took back is in force
again behind the block, and a write through a field takes no proof back.  It then
passes `if p == null { return }  if c { p = null }  use *p`, against the comment at
`check_lookup.c:61`.

## 6. Further divergences, reproducible from the modules

To reproduce one, take the named configuration, change the constants as said and check
the property; where the property is no longer defined in a module it is described.

| Property | Configuration | What the code does |
|---|---|---|
| `LiveIntact` | base configuration R below with `Allow = {"release"}` | A targeted release during an open round reuses the marks of that round (`reclaim.c:2479`) and frees a reachable object; the comment at `:2415` says the freed set is a subset of what a full collection would free. |
| `MarksClean` | R with `Allow = {"newslab"}` | A slab added during a sweep gets black slots no cursor visits (`reclaim.c:1100`); the comment at `:1098` says only positions ahead of the cursor are marked. The next round skips those objects' fields. |
| `RootsBlack` | `reclaim_cross` with `Allow = {"unlink"}`, `Words = {1, 2, 3}`, `SlabOf <- MCSlabOf`, `WordOf <- MCWordOf` (the outer region needs two bitmap words, so that the seed cursor can stand between them) | The end of an inner region unregisters its edges without shading their targets (`reclaim.c:1974`); `src/docs/RECLAMATION.md:196` states the invariant for every pointer in the mutator's hands. |
| `RootsBlack` | R with `Allow = {"struct", "structmark"}` | A whole-value store copies first and shades the new words only (`codegen.c:6576`). |
| a region that becomes `noSweep` begins no sweep | R with `Hosts = {h}` | `extc_rc_alloc` still finishes the mark phase of such a region and begins and advances a sweep (`reclaim.c:1056`, `2700`-`2716`); the comment at `:2513` says the round in flight is void. |
| `RsExact` | `reclaim_cross` with `Allow = {"sameold"}` | A same-region store never looks at the value it overwrites (`reclaim.c:1496`); its registration stays, against the comment at `:1547`. Safe, but it keeps garbage. |
| `LookupFinds` without `torn` | `registry` | A reader takes capacity and table from two sides of a growth and counts the miss, because the writer changes the sequence number after both stores (`reclaim.c:479`-`486`, `557`); the comment at `reclaim.c:541`-`544` says that the mirror is a hint and a stale one is never mistaken for "not in the table". |
| `LookupFinds` without `unsettled` | `registry` | A deletion moves an entry to a cell the probe has passed and has not yet changed the sequence number: the miss counts (`reclaim.c:455`, `509`, `559`). |
| `LookupFinds` without `reloaded` | `registry` | The pointer `ownSlotOf` returns is loaded again by its caller (`reclaim.c:426`, `558`); a deletion may have put another entry there. |
| `LookupAbsent` without `hot` | `registry` | A thread whose `ownHot` names the slab another thread deletes answers it after it is freed: `ownDel` clears its own thread's only. |
| `ProbeInBounds` without `swapped` | `registry` | The comment at `reclaim.c:541` speaks of an acquiring load of the capacity, the code has two plain loads (`557`, `558`): with the table's first, the probe leaves the table. |
| `SearchesEnd` without `emptied` | `registry` | Between two steps of a probe a deletion empties a cell it has passed and a registration fills the one that would have ended it: the probe comes round to its first cell, which the comment at `reclaim.c:420` says it never does. |
| `SearchesEnd` without `~Tears` | `registry` with hashes 0, 1 and 5 for the three slabs | A probe with the old capacity in the new table sees only its first cells, which may all be taken: it goes round them for ever. The comments at `reclaim.c:420` and `:541` consider the bounds of such a probe, not its end. |
| `DepthsBound` without `Rebuilt` | `compiler` | A binding declared with a struct literal has an entry per field; a whole assignment of anything but a binding raises the binding and leaves the entries (`check_dataflow.c:463`), which `dfExprDepth` prefers (`:255`): `b.f` is no upper bound. The comment at `:459`-`462` says a whole assignment takes the fields along. |
| `DepthsBound` without `Forgets` | `compiler` | As the source of an assignment a binding the analysis has no case for gets an empty row (`factOf` at `check_dataflow.c:465`), and from then on reads 0 instead of what the checker recorded (`:237`). |
| `DepthsBound` without `Followed` | `compiler` | An expression nested deeper than 32 has depth 0 (`check_dataflow.c:220`), which is no upper bound. |
| `NamesApart`, `NullSafe` without `LooksMade` | `compiler` | A variable the user calls `p__2` has the C name of the second `p` (`check.c:163`, `134`); a proof is keyed by the C name, so one of the two vouches for the other. |
| `ContainerMode` | `pools_chains` with `FirstCap = 2`, `TableMax = 2`, `GenMax = 3`, `Makes = {0, 1}` | `extc_pool_new_at` never writes the mode (`pools.c:53`); a container in a recycled object-table slot traps when it grows, which `src/tests/pool/rt_container_resize_ok.extc:1` says it may. |
| `ValueOutlastsPlace` | `dyn_slots` with `Makes = {}`, `GenMax = 3`, three blocks, `FirstSlots = SlotsMax = 4` | `extc_dyn_put` trusts the table remembered for a place although its id now belongs to another place's table (`pools.c:117`). |
| `ShrinkKeepsHandles` | `slotmap_handles` with `Values = {u}`, `Shrink = "any"`, raw memory zero | `shrink` cuts off live slots (`pool.extc:349`); the comment at `:344` says every handle stays valid. |
| `InsertIsFresh` | the same with `CapMax = 4` | The chain `shrink` builds is a ring (`pool.extc:379`): when it is used up `insert` hands out a live slot again; the comment at `:346` says shrink introduces no ABA. |
| `GatherAgrees` | `slotmap_handles` | `gather` does not test the epoch (`pool.extc:443`), against the comments at `:431` and `:198`. |
| `DefinedInOrder` | `compiler` | With two instances of a generic enum a C struct is emitted before one it contains (`codegen.c:8054`), against the comment at `codegen.c:10481`. |

R is the instance with one region, `Slabs = {1, 2}`, `Words = {1, 2, 3}`,
`Slots = {1, 2, 3}`, `Fields = {1}`, `Locals = {a, b}`, no hosts, `SlabOf <- MCSlabOf`,
`WordOf <- MCWordOf`, every budget 1, `ScanChunk = 2`, `MarkEvery = 1`.

Met while translating the compiler, each visible as a definition of the model:

- *Types*: `pr<a, b_c>` and `pr<a_b, c>` mangle to one C name (`codegen.c:10730`,
  `types.c:447`); a mutable view is downgraded under a type argument
  (`types.c:1201`, `check.c:433`); `ref T` is accepted for `ref ref void`
  (`check.c:424`); coroutine boxing compares rendered type strings (`check.c:370`).
- *Scopes*: the replay of facts in `checkModule` always runs all its rounds.
- *Parser*: `at` guards only strings against the text of another kind (`parser.c:147`);
  `sawGlobal` and `sawBuiltin` are stale in places (`:2228`, `:2428`, `:1652`);
  `looksLikeAssoc` takes `a < b > (...)` for a type (`:3860`); `parseModule` drops
  annotations that `:594` reports; `parseEffectsClause` reads `Ret` only in first
  position (`:478`); the depth budget does not count `else if`, `??` and left-associative
  chains (`:41`).
- *Lexer*: columns inside character literals (`lexer.c:411` against `:143`).
- *Dataflow*: a store of nothing into a field empties its entry (`check_dataflow.c:453`), so
  facts do not only ever rise.
- *Escape analysis* (read, not modelled): `cycleCollectSites` (`check_escape.c:1902`) does
  not end on `var x = x` in a nested block followed by `x.f = y`.

## 7. Not modelled, and why

- Collector: the stop-the-world `collect`/`settle` and the counting build (the default
  build does not contain the counts); out-of-memory paths; the debts an inner frame
  leaves to the owner of a region; the layout of the pin table.
- Slab allocator: sizes of slabs, running out of memory, wrap of the cache generation.
- Pools: a task that is ended while it is on the call stack; `extc_poolLiveN`; memory exhaustion.
- Slot map: copies of a pool value that outlive its release; wrap of epoch and
  generation.  A packed shrink sets the cursor to the new capacity, so slots between
  `n` and it stay unused until the next clear: a leak the properties do not exclude.
- Coroutine scheduler, timers, domains: next in the plan.
- Compiler: escape analysis and arena levels (`check_escape.c`), whose depth rule
  `Reclaim` assumes; the module loader; most of the expression checker and of the code
  generator, a syntax-directed translation to C text; the driver.
- Plate views and bulk copy: stateless.
- Lean sketches, prototypes, benchmarks, tools and tests: read as evidence of intent.

## 8. Plan

In order of weight:

1. `Scheduler` with timers (`scheduler.extc`, `loop.extc`): the pump computes its wait
   before it runs the queue, so a timer set meanwhile is slept past; a recycled row
   can receive its predecessor's event or its second timer; the pending slots.
   `Domains` (`domain.c`): a run after a run.  Liveness: a ready row runs, a
   deadline fires.
2. Escape analysis: the depth of a store against the depth of what it stores, with
   `Dataflow` below it; candidates for holes are a returned `ref` of a by-value
   parameter, a reference initialised from a local and retargeted on one arm only, and
   a struct assigned whole from a literal with a `ref`.
3. Owed sweeps across regions; the pin table's open addressing.
4. Containers of the standard library (`hashMap`, `linmap`, `vector`, `string`), the
   module loader's import graph, then the protocol parsers.
