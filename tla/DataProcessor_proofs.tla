----------------------- MODULE DataProcessor_proofs -----------------------
(***************************************************************************)
(* Proof that the data processor indexes every header the replayer hands   *)
(* over, when indexing starts at genesis or at epoch 1, for any number of  *)
(* shards, epochs and rounds.                                              *)
(***************************************************************************)
EXTENDS DataProcessor, TLAPS

(* The typing the proof needs; the peer block's type rests on what         *)
(* uniqueMiniBlocksSlice's recursive function computes, which is left to   *)
(* TLC (TypeOK).                                                           *)
CoreTypeOK ==
  /\ startingEpoch \in StartingEpochs
  /\ nodesCoordinators \in [ShardIDs -> SUBSET Nat]
  /\ round \in Nat
  /\ metaEpoch \in Nat

(* Before the first round the coordinators hold the genesis config only;   *)
(* after it, every coordinator knows every epoch up to the meta epoch.     *)
Known ==
  /\ round = 0 => /\ nodesCoordinators = CreateNodesCoordinators
                  /\ metaEpoch = startingEpoch
  /\ round # 0 => \A sh \in ShardIDs : 0..metaEpoch \subseteq nodesCoordinators[sh]

IInv == CoreTypeOK /\ Known /\ ReplayedHeadersIndexed

(* Indexing starts at genesis or at epoch 1.                               *)
EarlyStart == StartingEpochs \subseteq {0, 1}

LEMMA InitIInv == Init => IInv
  BY DataProcessorAssumption
  DEF Init, IInv, CoreTypeOK, Known, ReplayedHeadersIndexed, CreateNodesCoordinators

LEMMA ReplayIInv ==
  ASSUME EarlyStart, IInv, Replay
  PROVE  IInv'
<1> USE DataProcessorAssumption
<1>1. PICK e \in {metaEpoch, metaEpoch + 1} \cap Epochs :
        /\ round = 0 => e = metaEpoch
        /\ \E body \in (IF IsStart(e) THEN Bodies ELSE {<<>>}),
              refs \in (IF IsStart(e) THEN SUBSET MiniBlocks ELSE {{}}),
              shardHdrs \in ShardHeaderChoices(e) :
             ProcessData(e, IsStart(e), body, refs, shardHdrs)
        /\ metaEpoch' = e
  BY DEF Replay
<1>2. PICK body \in (IF IsStart(e) THEN Bodies ELSE {<<>>}),
           refs \in (IF IsStart(e) THEN SUBSET MiniBlocks ELSE {{}}),
           shardHdrs \in ShardHeaderChoices(e) :
        ProcessData(e, IsStart(e), body, refs, shardHdrs)
  BY <1>1
<1> DEFINE V == (IsStart(e) \/ (round = 0 /\ startingEpoch = 0)) /\ e # 0
           H == {[shard |-> Meta, epoch |-> e, round |-> round]}
                \cup {[shard |-> h[1], epoch |-> h[2], round |-> round] :
                        h \in shardHdrs}
<1>3. /\ nodesCoordinators' = IF V THEN PrepareAll(nodesCoordinators, e)
                              ELSE nodesCoordinators
      /\ saved' = saved \cup {h \in H : CanIndex(nodesCoordinators', h)}
      /\ replayed' = replayed \cup H
  BY <1>2 DEF ProcessData
<1>4. e \in Nat /\ round \in Nat /\ metaEpoch \in Nat
  BY <1>1 DEF IInv, CoreTypeOK, Epochs
<1>5. nodesCoordinators' \in [ShardIDs -> SUBSET Nat]
  BY <1>3, <1>4 DEF IInv, CoreTypeOK, PrepareAll, EpochStartPrepare
<1>6. \A sh \in ShardIDs : 0..e \subseteq nodesCoordinators'[sh]
  <2> SUFFICES ASSUME NEW sh \in ShardIDs PROVE 0..e \subseteq nodesCoordinators'[sh]
    OBVIOUS
  <2>1. V => e \in nodesCoordinators'[sh]
    BY <1>3 DEF IInv, CoreTypeOK, PrepareAll, EpochStartPrepare
  <2>2. nodesCoordinators[sh] \subseteq nodesCoordinators'[sh]
    BY <1>3 DEF IInv, CoreTypeOK, PrepareAll, EpochStartPrepare
  <2>3. CASE round = 0
    <3>1. e = startingEpoch /\ nodesCoordinators[sh] = {0}
      BY <1>1, <2>3 DEF IInv, Known, CreateNodesCoordinators
    <3>2. startingEpoch \in {0, 1}
      BY DEF IInv, CoreTypeOK, EarlyStart
    <3>3. CASE startingEpoch = 0
      BY <2>2, <3>1, <3>3, <1>4
    <3>4. CASE startingEpoch = 1
      <4>1. V
        BY <2>3, <3>1, <3>4 DEF IsStart
      <4>2. QED
        BY <2>1, <2>2, <3>1, <3>4, <4>1, <1>4
    <3>5. QED
      BY <3>2, <3>3, <3>4
  <2>4. CASE round # 0
    <3>1. 0..metaEpoch \subseteq nodesCoordinators[sh]
      BY <2>4 DEF IInv, Known
    <3>2. CASE e = metaEpoch
      BY <2>2, <3>1, <3>2
    <3>3. CASE e = metaEpoch + 1
      <4>1. V
        BY <2>4, <3>3, <1>4 DEF IsStart
      <4>2. QED
        BY <2>1, <2>2, <3>1, <3>3, <4>1, <1>4
    <3>4. QED
      BY <1>1, <3>2, <3>3
  <2>5. QED
    BY <2>3, <2>4
<1>7. \A h \in H : CanIndex(nodesCoordinators', h)
  <2>1. shardHdrs \subseteq (0..(NumShards - 1)) \X ShardEpochs(e)
    BY <1>2 DEF ShardHeaderChoices
  <2>2. ShardEpochs(e) \subseteq 0..e
    BY <1>4 DEF ShardEpochs
  <2>0. DOMAIN nodesCoordinators' = ShardIDs
    BY <1>5
  <2>3. CanIndex(nodesCoordinators', [shard |-> Meta, epoch |-> e, round |-> round])
    <3>1. Meta \in ShardIDs
      BY DEF ShardIDs
    <3>2. e \in nodesCoordinators'[Meta]
      BY <3>1, <1>4, <1>6
    <3>3. QED
      BY <2>0, <3>1, <3>2 DEF CanIndex
  <2>4. ASSUME NEW h \in shardHdrs
        PROVE  CanIndex(nodesCoordinators', [shard |-> h[1], epoch |-> h[2], round |-> round])
    <3>1. h \in (0..(NumShards - 1)) \X ShardEpochs(e)
      BY <2>1
    <3>2. h[1] \in 0..(NumShards - 1) /\ h[2] \in ShardEpochs(e)
      BY <3>1
    <3>3. h[1] \in ShardIDs /\ h[2] \in 0..e
      BY <3>2, <2>2 DEF ShardIDs
    <3>4. h[2] \in nodesCoordinators'[h[1]]
      BY <3>3, <1>4, <1>6
    <3>5. QED
      BY <2>0, <3>3, <3>4 DEF CanIndex
  <2>5. QED
    BY <2>3, <2>4
<1>8. ReplayedHeadersIndexed'
  BY <1>3, <1>7 DEF IInv, ReplayedHeadersIndexed
<1>9. Known'
  <2>1. round' # 0 /\ metaEpoch' = e
    BY <1>1, <1>4 DEF Replay
  <2>2. QED
    BY <2>1, <1>6 DEF Known
<1>10. CoreTypeOK'
  BY <1>1, <1>4, <1>5 DEF Replay, IInv, CoreTypeOK, Epochs
<1>11. QED
  BY <1>8, <1>9, <1>10 DEF IInv

LEMMA NextIInv == EarlyStart /\ IInv /\ [Next]_vars => IInv'
<1> SUFFICES ASSUME EarlyStart, IInv, [Next]_vars PROVE IInv'
  OBVIOUS
<1>1. CASE Replay
  BY <1>1, ReplayIInv
<1>2. CASE Done \/ UNCHANGED vars
  BY <1>2 DEF Done, vars, IInv, CoreTypeOK, Known, ReplayedHeadersIndexed
<1>3. QED
  BY <1>1, <1>2 DEF Next

(***************************************************************************)
(* When indexing starts at genesis or at epoch 1, processData indexes every *)
(* meta and shard header the replayer hands over, lagging shard headers    *)
(* included, for any number of shards, epochs and rounds: each start of    *)
(* epoch prepares every shard's coordinator before the round's headers are *)
(* indexed.  The restart run shows that a start at epoch 2 breaks it.      *)
(***************************************************************************)
THEOREM ReplayedHeadersIndexedSafe ==
  ASSUME EarlyStart
  PROVE  Spec => []ReplayedHeadersIndexed
<1>1. Init => IInv
  BY InitIInv
<1>2. IInv /\ [Next]_vars => IInv'
  BY NextIInv
<1>3. IInv => ReplayedHeadersIndexed
  BY DEF IInv
<1>4. QED
  BY <1>1, <1>2, <1>3, PTL DEF Spec
=============================================================================
