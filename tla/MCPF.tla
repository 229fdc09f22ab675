------------------------------- MODULE MCPF -------------------------------
(* PF for TLC. *)
EXTENDS PF

CONSTANTS fA, file1, junk, x

\* A bound: the replacement strategy is never changed.
LRUOnly == pool.strategy = "LRU"
=============================================================================
