------------------------------ MODULE MCOrders ------------------------------
(* Instances of Orders for TLC. *)
EXTENDS Orders, TLC

\* Rows, sessions and workers are interchangeable in the safety runs.
Symmetry ==
  Permutations(Orders) \cup Permutations(Sessions) \cup Permutations(SaleWorkers)
    \cup Permutations(PayWorkers) \cup Permutations(WebhookWorkers)
    \cup Permutations(CancelWorkers)

AmountsOneTwo == {1, 2}
AmountsOne == {1}
=============================================================================
