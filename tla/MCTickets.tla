----------------------------- MODULE MCTickets ------------------------------
(* Instances of Tickets for TLC. *)
EXTENDS Tickets, TLC

\* Ids are numbers and not interchangeable; holders and workers are.
Symmetry == Permutations(Users) \cup Permutations(Requests) \cup Permutations(Consumers)
=============================================================================
