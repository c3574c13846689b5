----------------------------- MODULE MCSessions -----------------------------
(* Instances of Sessions for TLC. *)
EXTENDS Sessions, TLC

\* Ids are numbers and not interchangeable; what the requests bring is.
Symmetry == Permutations(Providers) \cup Permutations(Devices) \cup Permutations(Requests)
=============================================================================
