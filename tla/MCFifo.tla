------------------------------- MODULE MCFifo -------------------------------
(* Instance of Fifo for TLC. *)
EXTENDS Fifo

CONSTANTS n1, n2, n3, n4, r1, r2
MCNodes == {n1, n2, n3, n4}
MCRunners == {r1, r2}
MCMax == {1, 2}
=============================================================================
