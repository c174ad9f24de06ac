------------------------------- MODULE MCCore -------------------------------
(* Instance of Core for TLC. *)
EXTENDS Core

CONSTANTS t1, t2, t3
MCTasks == {t1, t2, t3}
MCMax == {1, 3}
=============================================================================
