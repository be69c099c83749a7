--------------------------- MODULE MCUserDatabase ---------------------------
(* Model-checking instance of UserDatabase. *)
EXTENDS UserDatabase

TwoUsers == <<"alice", "bob">>
=============================================================================
