------------------------ MODULE MC_ChainStorerMock ------------------------
(* dataRetriever's unit type numbers, two keys (nonces or hashes) and two  *)
(* values.                                                                 *)
EXTENDS ChainStorerMock

CONSTANTS k1, k2, v1, v2

MC_Keys == {k1, k2}
MC_Vals == {v1, v2}

(* TransactionUnit, MiniBlockUnit, BlockHeaderUnit, MetaHdrNonceHashData-  *)
(* Unit and ShardHdrNonceHashDataUnit.                                     *)
MC_Units == {0, 1, 3, 7, 18}

(* MetaHdrNonceHashDataUnit and the header-nonce unit of shard 1,          *)
(* ShardHdrNonceHashDataUnit + 1.                                          *)
MC_NonceUnits == {7, 19}
=============================================================================
