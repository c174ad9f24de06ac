---------------------------- MODULE MCScheduled -----------------------------
(* Instance of Scheduled for TLC. *)
EXTENDS Scheduled

CONSTANTS n1, n2, n3, r1, r2, r3, a, b, c
MCNodes == {n1, n2, n3}
MCRunners == {r1, r2, r3}
MCNames == {a, b, c}
MCMaxes == {1, 3}
=============================================================================
