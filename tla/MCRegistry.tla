---------------------------- MODULE MCRegistry ----------------------------
(* Instances of Registry: which keys collide. *)
EXTENDS Registry, TLC

CONSTANTS t1, t2, s1, s2, s3, g1

\* Two slabs collide in every table, the third one cell further on.
MCHash == (s1 :> 3) @@ (s2 :> 3) @@ (s3 :> 0) @@ (g1 :> 1)

=============================================================================
