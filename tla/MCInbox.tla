------------------------------ MODULE MCInbox ------------------------------
(* Instances of Inbox for TLC: events with a fixed entity and version each. *)
EXTENDS Inbox, TLC

CONSTANTS a1, e1, e2, e3

\* Two versions of one entity and a message of it that is dead-lettered on arrival.
MCEntityOf == [e \in Event |-> a1]
MCVersionOf == [e \in Event |-> CASE e = e1 -> 1 [] e = e2 -> 2 [] OTHER -> 0]

Symmetry == Permutations(Worker)
=============================================================================
