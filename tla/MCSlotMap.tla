------------------------------ MODULE MCSlotMap ------------------------------
(* Instances of SlotMap for TLC. *)
EXTENDS SlotMap, TLC

\* Memory that was not zeroed: a zero word, and one that looks live.
MCRaw == {[gen |-> 0, low |-> 0], [gen |-> 1, low |-> 1]}
ZeroRaw == {Zero}
ValueSymmetry == Permutations(Values)
=============================================================================
