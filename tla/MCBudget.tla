------------------------------ MODULE MCBudget ------------------------------
(* Three calls: two of one requester, in two lanes, one of another one     *)
(* that costs more than the burst.                                         *)
EXTENDS Budget, TLC

CONSTANTS w1, w2, w3, q1, q2

TwoOfA == (w1 :> q1) @@ (w2 :> q1) @@ (w3 :> q2)
FirstLow == [w \in Waiter |-> IF w = w1 THEN 2 ELSE 0]
CostlyLast == [w \in Waiter |-> IF w = w3 THEN 2 ELSE 1]
TwoDeadlines == [w \in Waiter |-> IF w = w2 THEN 1 ELSE IF w = w3 THEN 3 ELSE Never]
Uneven == (q1 :> 2) @@ (q2 :> 1)
=============================================================================
