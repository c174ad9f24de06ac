----------------------------- MODULE MCService ------------------------------
(* Instance of Service for TLC. *)
EXTENDS Service

CONSTANTS f1, f2
MCFiles == {f1, f2}
MCFirstFiles == {f1}
=============================================================================
