----------------------------- MODULE MCChecks ------------------------------
(* Instances of Checks for TLC. *)
EXTENDS Checks, TLC
=============================================================================
