----------------------------- MODULE SlotMapSpec -----------------------------
(***************************************************************************)
(* What stl::pool<T> promises its user (stdlib/stl/pool.extc): a handle    *)
(* names one value from its insert until it is removed or the pool is      *)
(* cleared, and names nothing ever after.  Growing and shrinking are       *)
(* invisible.                                                              *)
(***************************************************************************)
CONSTANTS Handles, Values

VARIABLES
  held,   \* live handle -> its value
  spent   \* handles given out so far

specVars == <<held, spent>>

Insert(h, v) ==
  /\ h \notin spent
  /\ held' = [k \in DOMAIN held \cup {h} |-> IF k = h THEN v ELSE held[k]]
  /\ spent' = spent \cup {h}

Set(h, v) ==
  /\ h \in DOMAIN held
  /\ held' = [held EXCEPT ![h] = v]
  /\ UNCHANGED spent

Remove(h) ==
  /\ h \in DOMAIN held
  /\ held' = [k \in DOMAIN held \ {h} |-> held[k]]
  /\ UNCHANGED spent

Clear ==
  /\ held' = [k \in {} |-> 0]
  /\ UNCHANGED spent

SpecInit == held = [k \in {} |-> 0] /\ spent = {}

SpecNext ==
  \/ \E h \in Handles, v \in Values : Insert(h, v) \/ Set(h, v)
  \/ \E h \in Handles : Remove(h)
  \/ Clear

MapSpec == SpecInit /\ [][SpecNext]_specVars
=============================================================================
