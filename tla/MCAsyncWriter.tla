--------------------------- MODULE MCAsyncWriter ---------------------------
(***************************************************************************)
(* Instance of AsyncWriter for TLC.                                        *)
(***************************************************************************)
EXTENDS AsyncWriter, TLC

Symmetry == Permutations(Loggers) \cup Permutations(Closers)
=============================================================================
