----------------------------- MODULE MCSingular -----------------------------
(* Instance of Singular for TLC. *)
EXTENDS Singular

CONSTANTS n1, n2, n3, n4, r1, r2, a, b
MCNodes == {n1, n2, n3, n4}
MCRunners == {r1, r2}
MCNames == {a, b, Empty}
MCMaxes == {1, 2}
=============================================================================
