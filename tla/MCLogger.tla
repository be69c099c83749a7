------------------------------ MODULE MCLogger ------------------------------
(* Model-checking instance of Logger.                                       *)
EXTENDS Logger, TLC

Symmetry == Permutations(Threads)
=============================================================================
