--------------------------- MODULE MCActiveRecord ---------------------------
(* Instance of ActiveRecord for TLC. *)
EXTENDS ActiveRecord
=============================================================================
