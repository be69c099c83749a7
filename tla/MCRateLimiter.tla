--------------------------- MODULE MCRateLimiter ---------------------------
(* Model-checking instance of RateLimiter, with its history.                *)
EXTENDS RateHistory, TLC

Symmetry == Permutations(Clients) \cup Permutations(Callers)
=============================================================================
