------------------------------- MODULE MCStock -------------------------------
EXTENDS Stock, TLC

\* Two orders with the same variants in a different order of lines; "b" has two lines of one.
TwoOrders == [i \in Line |-> IF i <= 2 THEN "a" ELSE "b"]
CrossedVariants == [i \in Line |-> IF i \in {2, 3} THEN "y" ELSE "x"]
LevelIds == <<"x", 1>> :> 1 @@ <<"y", 1>> :> 2 @@ <<"x", 2>> :> 3 @@ <<"y", 2>> :> 4
Quantities == [i \in Line |-> IF i = 1 THEN 2 ELSE 1]
Quantity == [x: {None, 0, 1, 2}, y: {None, 1}]
Two == [free |-> 2, cap |-> None]
Capped == {[free |-> 1, cap |-> 1]}
Cycles == [o \in Order |-> IF o = "a" THEN 2 ELSE 1]

\* Either both orders live and the ERP is silent, or "a" is alone and the ERP sends its events.
ReserveInit ==
    /\ Init
    /\ IF cancelled = {} THEN events = MaxEvents ELSE cancelled = {"b"} /\ events = 0

ReserveSpec == ReserveInit /\ [][Next]_vars
=============================================================================
