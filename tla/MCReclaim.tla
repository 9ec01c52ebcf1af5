------------------------------ MODULE MCReclaim ------------------------------
(* Instances of Reclaim for TLC: slots, words, slabs and regions are numbers. *)
EXTENDS Reclaim, TLC

\* Slot n lies in word n; slab b holds the words 2b-1 and 2b.
MCWordOf == [s \in Slots |-> s]
MCSlabOf == [w \in Words |-> (w + 1) \div 2]
\* Slots 2w-1 and 2w lie in word w, the only one of slab w.
PairWordOf == [s \in Slots |-> (s + 1) \div 2]
PairSlabOf == [w \in Words |-> w]
\* Region n is the arena at depth n.
MCDepth == [r \in Regions |-> r]

LocalSymmetry == Permutations(Locals)
=============================================================================
