------------------------ MODULE MC_DataProcessor -------------------------
(* One shard and the metachain, a chain of four rounds reaching epoch 2,   *)
(* replayed from genesis or from epoch 1; start-of-epoch bodies of up to   *)
(* two miniblocks drawn from two peer miniblocks and a receipt one.        *)
EXTENDS DataProcessor

CONSTANTS p1, p2, r1

MC_MiniBlocks == {p1, p2, r1}
MC_PeerMiniBlocks == {p1, p2}
=============================================================================
