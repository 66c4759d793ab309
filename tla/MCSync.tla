------------------------------- MODULE MCSync -------------------------------
EXTENDS Sync, TLC

\* With one fault both payments may be made and the customer is known; with two
\* faults, only the witnessed payment.
ReplicaInit ==
    /\ Init
    /\ IF faults = MaxFault - 1 THEN lost = {} /\ known ELSE lost = {"own"}

ReplicaSpec == ReplicaInit /\ [][Next]_vars /\ Fairness
=============================================================================
