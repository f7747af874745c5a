----------------------------- MODULE MCBalancer -----------------------------
(* Small instances of Balancer. *)
EXTENDS Balancer

\* Account 1 is lighter than account 2, which has the higher priority; account
\* 3 carries the weight and the priority of an account that sets neither.
Weights == [a \in Accts |-> IF a = 2 THEN 2 ELSE a - 1]
Priorities == [a \in Accts |-> IF a = 2 THEN 101 ELSE 0]
=============================================================================
