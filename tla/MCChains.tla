------------------------------ MODULE MCChains ------------------------------
(* PoolChains for TLC: memory is interchangeable. *)
EXTENDS PoolChains, TLC

CONSTANTS f1, f2, f3, f4, e1, e2, e3, e4

MCFrames == {f1, f2, f3, f4}
MCEntries == {e1, e2, e3, e4}
Symmetry == Permutations(MCFrames) \cup Permutations(MCEntries)
=============================================================================
