-------------------------------- MODULE MCRM --------------------------------
(* Record lengths for TLC: two short records, and one that no page has room for. *)
EXTENDS RM, TLC
CONSTANTS a, b, c

MCLength == (a :> 1) @@ (b :> 2) @@ (c :> PAGE_SIZE - 1)
=============================================================================
