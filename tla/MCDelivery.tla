----------------------------- MODULE MCDelivery -----------------------------
(* Instances of Delivery for TLC. *)
EXTENDS Delivery, TLC

Symmetry == Permutations(Messages) \cup Permutations(Runs) \cup Permutations(Consumers)

NowOrLater == {0, 1}
=============================================================================
