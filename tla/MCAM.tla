-------------------------------- MODULE MCAM --------------------------------
(* Entries for TLC: values enough for two levels of internal nodes and, as the last
   one's three entries fill a leaf of two keys, the split of one that is not the root. *)
EXTENDS AM

MCPairs == ((1 .. 6) \X {7}) \cup {<<6, 8>>, <<6, 9>>}
MCDeletable == {<<2, 7>>, <<6, 7>>, <<6, 8>>}
=============================================================================
