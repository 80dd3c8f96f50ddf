--------------------------------- MODULE Absent ---------------------------------
(* The value of a column or a field that is not set. *)
CONSTANT None

================================================================================
