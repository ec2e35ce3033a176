------------------------------ MODULE Container ------------------------------
(***************************************************************************)
(* What the modules of the containers share: the object, beside want, what *)
(* it should hold.                                                         *)
(***************************************************************************)
EXTENDS Objects

CONSTANT Values    \* the values stored

VARIABLE trusted   \* nothing was called after which the code goes wrong

vars == <<obj, want, trusted>>
=============================================================================
