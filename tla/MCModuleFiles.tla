--------------------------- MODULE MCModuleFiles ---------------------------
(* Model-checking instance of ModuleFiles: a directory (or file) and a file *)
(* in it.                                                                   *)
EXTENDS ModuleFiles

Nested == {<<"a">>, <<"a", "b">>}

Symmetry == Permutations(Threads)
=============================================================================
