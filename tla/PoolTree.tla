------------------------------ MODULE PoolTree ------------------------------
(***************************************************************************)
(* What the pool registry promises (src/back/pools.c): places own pools,   *)
(* pools own the pools nested in them, and one call ends exactly the pools *)
(* that hang off what it names, all at once.  Pools implements this with   *)
(* two doubly linked chains, free lists and recursive calls.               *)
(***************************************************************************)
EXTENDS Naturals, Functions

CONSTANTS PoolIds, PlaceIds, NoPool

VARIABLES
  tree,    \* existing pool -> the pool it is nested in, the place it is born in
  age,     \* pool -> its generation: the half of a handle that goes stale
  places   \* places that exist

treeVars == <<tree, age, places>>

Up == DOMAIN tree

\* S with everything nested in it.
Under(S) ==
  {p \in Up : \A C \in SUBSET Up :
                (S \subseteq C /\ \A q \in Up : tree[q].above \in C => q \in C)
                  => p \in C}

Remove(S) == tree' = Restrict(tree, Up \ S)

Open(z) ==
  /\ z \notin places
  /\ places' = places \cup {z}
  /\ UNCHANGED <<tree, age>>

\* A place ends: its pools go, and with them the pools nested in those.
Close(z) ==
  /\ z \in places
  /\ places' = places \ {z}
  /\ Remove(Under({p \in Up : tree[p].home = z}))
  /\ UNCHANGED age

Create(p, q, z) ==
  /\ p \notin Up
  /\ z \in places
  /\ q \in Up \cup {NoPool}
  /\ tree' = [r \in Up \cup {p} |->
                IF r = p THEN [above |-> q, home |-> z] ELSE tree[r]]
  /\ age' = [age EXCEPT ![p] = @ + 1]
  /\ UNCHANGED places

Drop(p) ==
  /\ p \in Up
  /\ Remove(Under({p}))
  /\ UNCHANGED <<age, places>>

\* The pool stays, what is nested in it goes ...
Clear(p) ==
  /\ p \in Up
  /\ Remove(Under({p}) \ {p})
  /\ UNCHANGED <<age, places>>

\* ... and every handle to it goes stale.
Renew(p) ==
  /\ p \in Up
  /\ age' = [age EXCEPT ![p] = @ + 1]
  /\ UNCHANGED <<tree, places>>

TreeInit ==
  /\ tree = [p \in {} |-> NoPool]
  /\ age = [p \in PoolIds |-> 0]
  /\ places = {}

TreeNext ==
  \/ \E z \in PlaceIds : Open(z) \/ Close(z)
  \/ \E p \in PoolIds, q \in PoolIds \cup {NoPool}, z \in PlaceIds :
       Create(p, q, z)
  \/ \E p \in PoolIds : Drop(p) \/ Clear(p) \/ Renew(p)

TreeSpec == TreeInit /\ [][TreeNext]_treeVars
=============================================================================
