--------------------------- MODULE MCApplications ---------------------------
(* Applications on a few interchangeable containers and domains.            *)
EXTENDS Applications, TLC

Symmetry == Permutations(Names) \union Permutations(Domains)
=============================================================================
