------------------------------ MODULE MCWorker ------------------------------
(* Instance of Worker for TLC. *)
EXTENDS Worker

CONSTANTS w1, w2
MCWorkers == {w1, w2}
=============================================================================
