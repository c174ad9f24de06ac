------------------------------- MODULE MCPriority -----------------------------
(* Instance of Priority for TLC. *)
EXTENDS Priority

CONSTANTS n1, n2, n3, r1, r2
MCNodes == {n1, n2, n3}
MCRunners == {r1, r2}
MCMax == {1, 2}
MCPriorities == {0, 1}
=============================================================================
