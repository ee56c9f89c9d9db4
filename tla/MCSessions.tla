------------------------------ MODULE MCSessions ------------------------------
(* Sessions on a small instance.  No property tells clients, connections or *)
(* result sets apart, and none is temporal, so that they are symmetric.     *)
EXTENDS Sessions, TLC

Symmetry == Permutations(Clients) \union Permutations(Conns) \union Permutations(Results)

=============================================================================
