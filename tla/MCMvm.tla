-------------------------------- MODULE MCMvm -------------------------------
(* Instance of Mvm for TLC.  Eight objects are more than four calls can use. *)
EXTENDS Mvm

CONSTANTS t1, t2
MCThreads == {t1, t2}
=============================================================================
