------------------------------ MODULE MCRteRing ------------------------------
(***************************************************************************)
(* Instances of RteRing.  Objects are interchangeable.                     *)
(***************************************************************************)
EXTENDS RteRing, TLC

ObjSymmetry == Permutations(Objs)
=============================================================================
