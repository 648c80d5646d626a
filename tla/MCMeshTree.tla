------------------------------ MODULE MCMeshTree ------------------------------
(* Radio range for TLC. *)
EXTENDS MeshTree

CONSTANTS c, r1, r2, l1

\* Two routers in reach of the coordinator and of each other, a leaf behind one.
Triangle == {<<c, r1>>, <<c, r2>>, <<r1, r2>>, <<r2, l1>>}
=============================================================================
