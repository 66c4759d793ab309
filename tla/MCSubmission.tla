---------------------------- MODULE MCSubmission ----------------------------
(***************************************************************************)
(* Instances of Submission for TLC: outbox rows and rebuilders are model   *)
(* values, interchangeable in the safety runs.                             *)
(***************************************************************************)
EXTENDS Submission, TLC

Symmetry == Permutations(Row) \cup Permutations(Rebuilder)
=============================================================================
