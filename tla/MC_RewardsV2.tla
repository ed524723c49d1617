---------------------------- MODULE MC_RewardsV2 ----------------------------
(***************************************************************************)
(* A small instance of the rewards engine: two shards (shard 0 and the     *)
(* metachain), three validators, two in shard 0 sharing one reward address *)
(* and one in the metachain whose reward address is routed to the          *)
(* metachain, so that with delegation disabled its transaction is skipped. *)
(***************************************************************************)
EXTENDS RewardsV2, TLC

CONSTANTS s0, meta, n1, n2, n3, a1, a2, pa

MC_Shards == {s0, meta}
MC_Nodes == {n1, n2, n3}
MC_RewardAddresses == {a1, a2}
MC_NodeShard == (n1 :> s0) @@ (n2 :> s0) @@ (n3 :> meta)
MC_NodeRewardAddress == (n1 :> a1) @@ (n2 :> a1) @@ (n3 :> a2)
MC_ShardOf == (a1 :> s0) @@ (a2 :> meta) @@ (pa :> s0)
\* Two validators per block in shard 0, one in the metachain.
MC_ConsensusGroupSize == (s0 :> 2) @@ (meta :> 1)
=============================================================================
