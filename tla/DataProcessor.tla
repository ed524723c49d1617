--------------------------- MODULE DataProcessor ---------------------------
(***************************************************************************)
(* storer2elastic's dataProcessor (cmd/storer2elastic/dataprocessor/       *)
(* dataProcessor.go) replays the blocks of a node's storage into the       *)
(* elastic indexer.  The data replayer calls processData once per round    *)
(* with that round's meta header and the shard headers it notarizes.  A    *)
(* header can be indexed only if the nodes coordinator of its shard knows  *)
(* the validators of its epoch; the coordinators start from the genesis    *)
(* nodes setup and learn an epoch from EpochStartPrepare of the epoch's    *)
(* start-of-epoch meta block.                                              *)
(*                                                                         *)
(* Headers are records [shard, epoch, round]; miniblocks are model values, *)
(* equal values having equal hashes.  The replayer, the coordinators and   *)
(* the indexer live outside these sources and are modelled by the contract *)
(* processData relies on.                                                  *)
(***************************************************************************)
EXTENDS Naturals, Sequences

CONSTANTS
  NumShards,          \* shardCoordinator.NumberOfShards()
  Meta,               \* core.MetachainShardId
  StartingEpochs,     \* the values ArgsDataProcessor.StartingEpoch may take
  MaxEpoch,           \* the last epoch the replayed chain reaches
  MaxRounds,          \* the rounds the replayer holds
  MiniBlocks,         \* the miniblocks a start-of-epoch body may carry
  PeerMiniBlocks,     \* the ones of type block.PeerBlock
  MaxBody             \* miniblocks in a start-of-epoch body

ASSUME DataProcessorAssumption ==
  /\ NumShards \in Nat /\ Meta \notin Nat
  /\ StartingEpochs \subseteq 0..MaxEpoch
  /\ MaxRounds \in Nat /\ MaxBody \in Nat
  /\ PeerMiniBlocks \subseteq MiniBlocks

(* getShardIDs: the shards of the shard coordinator and the metachain.     *)
ShardIDs == (0..(NumShards - 1)) \cup {Meta}

Epochs == 0..MaxEpoch
Header == [shard : ShardIDs, epoch : Epochs, round : 0..MaxRounds]

VARIABLES
  startingEpoch,      \* dp.startingEpoch
  nodesCoordinators,  \* per shard, the epochs its coordinator has a config for
  savedValidators,    \* epochs passed to SaveValidatorsPubKeys
  saved,              \* headers passed to SaveBlock (and SaveRoundsInfos)
  peerBlock,          \* the last peer block given to EpochStartPrepare
  \* the replayer and the observation of what it handed over
  round,              \* rounds replayed so far
  metaEpoch,          \* epoch of the last meta header replayed
  replayed,           \* headers handed to processData
  lastBody,           \* body and referenced miniblocks of the last
  lastRefs            \*   start-of-epoch meta block

vars == <<startingEpoch, nodesCoordinators, savedValidators, saved, peerBlock,
          round, metaEpoch, replayed, lastBody, lastRefs>>

(* createNodesCoordinators: one coordinator per shard, built from the      *)
(* genesis nodes setup, which holds epoch 0; the epoch-0 validators are    *)
(* saved only when indexing starts at epoch 0.                             *)
CreateNodesCoordinators == [sh \in ShardIDs |-> {0}]

GenesisValidatorsSaved(s) == IF s = 0 THEN {0} ELSE {}

(* NewDataProcessor.  The replayer starts at the genesis block or at the   *)
(* start-of-epoch block of the starting epoch.                             *)
Init ==
  /\ startingEpoch \in StartingEpochs
  /\ nodesCoordinators = CreateNodesCoordinators
  /\ savedValidators = GenesisValidatorsSaved(startingEpoch)
  /\ saved = {}
  /\ peerBlock = <<>>
  /\ round = 0
  /\ metaEpoch = startingEpoch
  /\ replayed = {}
  /\ lastBody = <<>>
  /\ lastRefs = {}

\* Mutant: the block.PeerBlock type check is missing.
PeerMiniBlocksOf_anyType(body, refs) ==
  SelectSeq(body, LAMBDA mb : mb \in refs)

(* The peer miniblocks of the body whose hash the meta header lists.       *)
PeerMiniBlocksOf(body, refs) ==
  SelectSeq(body, LAMBDA mb : mb \in PeerMiniBlocks /\ mb \in refs)

\* Mutant: the duplicates are kept.
UniqueMiniBlocksSlice_keepAll(mbs) == mbs

(* The miniblocks of a sequence.                                           *)
SeqElems(s) == {s[i] : i \in DOMAIN s}

(* uniqueMiniBlocksSlice: the first miniblock of each hash, in order;      *)
(* list[i] is the result after the first i miniblocks.                     *)
UniqueMiniBlocksSlice(mbs) ==
  LET list[i \in 0..Len(mbs)] ==
        IF i = 0 THEN <<>>
        ELSE IF mbs[i] \in SeqElems(list[i - 1]) THEN list[i - 1]
        ELSE Append(list[i - 1], mbs[i])
  IN list[Len(mbs)]

(* A coordinator's EpochStartPrepare with a start-of-epoch meta block      *)
(* computes the nodes config of that block's epoch.                        *)
EpochStartPrepare(known, e) == known \cup {e}

\* Mutant: only the metachain's coordinator is prepared.
PrepareAll_metaOnly(coords, e) ==
  [coords EXCEPT ![Meta] = EpochStartPrepare(@, e)]

(* processValidatorsForEpoch's loop over dp.nodesCoordinators.             *)
PrepareAll(coords, e) ==
  [sh \in DOMAIN coords |-> EpochStartPrepare(coords[sh], e)]

(* The metachain coordinator's eligible validators of epoch e are saved    *)
(* unless it has no config for e.                                          *)
SaveValidators(coords, e, savedSoFar) ==
  IF e \in coords[Meta] THEN savedSoFar \cup {e} ELSE savedSoFar

(* computeSignersIndexes succeeds: the shard has a coordinator and it      *)
(* knows the header's epoch; otherwise indexData returns the error.        *)
CanIndex(coords, h) ==
  h.shard \in DOMAIN coords /\ h.epoch \in coords[h.shard]

(* processData for one round: the meta header of epoch e (a start-of-epoch *)
(* block when isStart), its body and referenced miniblocks, and the shard  *)
(* headers it notarizes.  Validators are processed first (epoch 0 returns  *)
(* early), then the meta header is indexed, then the shard headers.        *)
(* Indexing errors are logged and the round goes on; processData returns   *)
(* true, so the replayer goes on to the next round.                        *)
ProcessData(e, isStart, body, refs, shardHdrs) ==
  LET nonceZero == round = 0 /\ startingEpoch = 0
      validators == (isStart \/ nonceZero) /\ e # 0
      coords == IF validators THEN PrepareAll(nodesCoordinators, e)
                ELSE nodesCoordinators
      hdrs == {[shard |-> Meta, epoch |-> e, round |-> round]}
              \cup {[shard |-> h[1], epoch |-> h[2], round |-> round] :
                      h \in shardHdrs}
  IN /\ nodesCoordinators' = coords
     /\ savedValidators' = IF validators
                           THEN SaveValidators(coords, e, savedValidators)
                           ELSE savedValidators
     /\ peerBlock' = IF validators
                     THEN UniqueMiniBlocksSlice(PeerMiniBlocksOf(body, refs))
                     ELSE peerBlock
     /\ saved' = saved \cup {h \in hdrs : CanIndex(coords, h)}
     /\ replayed' = replayed \cup hdrs
     /\ lastBody' = IF validators THEN body ELSE lastBody
     /\ lastRefs' = IF validators THEN refs ELSE lastRefs

Bodies == UNION {[1..n -> MiniBlocks] : n \in 0..MaxBody}

(* Shard headers lag the metachain by at most one epoch: a shard enters    *)
(* epoch e after the metachain's start-of-epoch block of e.                *)
ShardEpochs(e) == (IF e = 0 THEN 0 ELSE e - 1)..e

(* The first round is the genesis block (nonce 0) or the start of the     *)
(* starting epoch; after it, a meta header of a new epoch starts it.       *)
IsStart(e) == IF round = 0 THEN startingEpoch # 0 ELSE e # metaEpoch

(* The genesis round notarizes no shard header.                            *)
ShardHeaderChoices(e) ==
  IF round = 0 /\ startingEpoch = 0 THEN {{}}
  ELSE SUBSET ((0..(NumShards - 1)) \X ShardEpochs(e))

(* dataReplayer.Range hands the next round to processData; each meta       *)
(* header stays in its epoch or starts the next one.                       *)
Replay ==
  /\ round < MaxRounds
  /\ \E e \in {metaEpoch, metaEpoch + 1} \cap Epochs :
       /\ round = 0 => e = metaEpoch
       /\ \E body \in (IF IsStart(e) THEN Bodies ELSE {<<>>}),
             refs \in (IF IsStart(e) THEN SUBSET MiniBlocks ELSE {{}}),
             shardHdrs \in ShardHeaderChoices(e) :
            ProcessData(e, IsStart(e), body, refs, shardHdrs)
       /\ metaEpoch' = e
  /\ round' = round + 1
  /\ UNCHANGED startingEpoch

(* Range has handed over every round: Index returns.                       *)
Done == round = MaxRounds /\ UNCHANGED vars

Next == Replay \/ Done

Spec == Init /\ [][Next]_vars

-----------------------------------------------------------------------------
TypeOK ==
  /\ startingEpoch \in StartingEpochs
  /\ nodesCoordinators \in [ShardIDs -> SUBSET Epochs]
  /\ savedValidators \subseteq Epochs
  /\ saved \subseteq replayed /\ replayed \subseteq Header
  /\ peerBlock \in Seq(PeerMiniBlocks)
  /\ round \in 0..MaxRounds /\ metaEpoch \in Epochs

(***************************************************************************)
(* Every header the replayer hands over is indexed: by the time processData *)
(* indexes a meta or shard header, the coordinator of its shard has the    *)
(* nodes config of its epoch.  This rests on processValidatorsForEpoch     *)
(* preparing every coordinator, not only the metachain's, and running      *)
(* before the round's headers are indexed, and on the replay starting at a *)
(* start-of-epoch block.                                                   *)
(***************************************************************************)
ReplayedHeadersIndexed == replayed \subseteq saved

(***************************************************************************)
(* The peer block processValidatorsForEpoch gives the coordinators holds   *)
(* exactly the peer miniblocks of the body that the meta header references, *)
(* each once, in the order of their first appearance in the body.          *)
(***************************************************************************)
FirstIndex(s, x) == CHOOSE i \in DOMAIN s : s[i] = x /\ \A j \in 1..(i - 1) : s[j] # x

PeerBlockExact ==
  /\ SeqElems(peerBlock) = {mb \in SeqElems(lastBody) : mb \in PeerMiniBlocks \cap lastRefs}
  /\ \A i, j \in DOMAIN peerBlock :
       i < j => FirstIndex(lastBody, peerBlock[i]) < FirstIndex(lastBody, peerBlock[j])
=============================================================================
