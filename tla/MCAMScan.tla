------------------------------ MODULE MCAMScan ------------------------------
(* Entries for TLC: values for three leaves, one of them in two entries; every
   record identifier is that of one entry. *)
EXTENDS AMScan

MCPairs == {<<1, 1>>, <<2, 2>>, <<2, 5>>, <<3, 3>>, <<4, 4>>}
MCDeletable == {<<3, 3>>}
=============================================================================
