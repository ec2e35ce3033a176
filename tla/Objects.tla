------------------------------- MODULE Objects -------------------------------
(***************************************************************************)
(* What the modules of the parts that run in one goroutine share: the      *)
(* object obj, whose type tells which part it belongs to, beside want, what *)
(* it should come to.                                                      *)
(***************************************************************************)
VARIABLES obj, want

Is(type) == obj.type = type
=============================================================================
