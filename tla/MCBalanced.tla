----------------------------- MODULE MCBalanced -----------------------------
(* Instance of Balanced for TLC. *)
EXTENDS Balanced

CONSTANTS n1, n2, n3, n4, r1, r2, a, b
MCNodes == {n1, n2, n3, n4}
MCRunners == {r1, r2}
MCNames == {a, b, Empty}
MCMaxes == {1, 2}
=============================================================================
