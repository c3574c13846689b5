------------------------------ MODULE MCCatalog ------------------------------
(* The instance of Catalog that TLC checks. *)
EXTENDS Catalog, TLC

\* Ids are numbers and not interchangeable; the requests and the providers are.
Symmetry == Permutations(Requests) \cup Permutations(Providers)
=============================================================================
