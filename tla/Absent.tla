------------------------------- MODULE Absent -------------------------------
(* The value of an absent field: null and undefined, and a header not sent. *)
CONSTANT Null
=============================================================================
