------------------------------- MODULE MCMemPool -------------------------------
(* Model-checking instances of MemPool.                                     *)
EXTENDS MemPool, TLC

\* Blocks one after the other, as close as they can be.
Adjacent == [b \in 1 .. MaxBlocks |-> (b - 1) * Align(End(1))]

\* The addresses of large blocks are opaque.
Symmetry == Permutations(Addrs)

=============================================================================
