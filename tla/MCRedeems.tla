------------------------------ MODULE MCRedeems ------------------------------
(* The instance of Redeems that TLC checks: one purchase of two tickets.     *)
EXTENDS Redeems, TLC

CONSTANTS t1, t2, p1, w1, w2

MCPurchaseOf == [t \in Tickets |-> p1]

Symmetry == Permutations(Tickets) \cup Permutations(Requests)
=============================================================================
