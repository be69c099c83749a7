------------------------------- MODULE MCAuth -------------------------------
(* Model-checking instance of Auth. *)
EXTENDS Auth
=============================================================================
