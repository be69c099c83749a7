----------------------------- MODULE MCDaemon ------------------------------
(* Model-checking instance of Daemon.                                       *)
EXTENDS Daemon, TLC

Symmetry == Permutations(Conns) \cup Permutations(Workers)
=============================================================================
