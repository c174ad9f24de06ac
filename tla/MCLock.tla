------------------------------- MODULE MCLock -------------------------------
(* Instance of Lock for TLC. *)
EXTENDS Lock

CONSTANTS s1, s2, a, b
MCThreads == {s1, s2}
MCObjects == {a, b}
=============================================================================
