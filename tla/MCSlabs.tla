------------------------------ MODULE MCSlabs ------------------------------
(* Instances of Slabs: which descriptors collide in the type index. *)
EXTENDS Slabs, TLC

CONSTANTS ty1, ty2, ty3

\* One data object, one object scanned conservatively, three with descriptors.
MCSites == {<<2, None>>, <<2, Conservative>>, <<1, ty1>>, <<1, ty2>>, <<1, ty3>>}

MCTypeHash == (ty1 :> 1) @@ (ty2 :> 1) @@ (ty3 :> 0)
=============================================================================
