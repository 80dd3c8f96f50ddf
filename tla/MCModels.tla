-------------------------------- MODULE MCModels --------------------------------
(***************************************************************************)
(* An instance of ModelStore for TLC: one scoring process, five names for    *)
(* the trainings, more than the files and the loads of one family can hold.   *)
(***************************************************************************)
EXTENDS ModelStore

================================================================================
