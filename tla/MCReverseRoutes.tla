--------------------------- MODULE MCReverseRoutes ---------------------------
(* Radio range for TLC. *)
EXTENDS ReverseRoutes

CONSTANTS c, r1, r2, d

\* A leaf in reach of the coordinator and of the second router, which reaches the
\* coordinator alone and through the first.
Mesh == {<<c, d>>, <<c, r1>>, <<c, r2>>, <<r1, r2>>, <<r2, d>>}

\* The leaf or the second router may lose the coordinator: its way becomes longer.
Weak == {<<c, d>>, <<c, r2>>}
=============================================================================
