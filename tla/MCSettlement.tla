---------------------------- MODULE MCSettlement ----------------------------
(* Settlement for TLC: five BinIDs, so that gaps, re-offers and the last       *)
(* BinID all occur, and two triples, so that one comes at several BinIDs.      *)
EXTENDS Settlement
=============================================================================
