----------------------------- MODULE RewardsV2 -----------------------------
(***************************************************************************)
(* The epoch-end rewards engine (rewardsCreatorV2 of epochStart/metachain) *)
(* as a state machine.  One call of CreateRewardsMiniBlocks or             *)
(* VerifyRewardsMiniBlocks is a sequence of steps: the reset done by       *)
(* prepareRewardsData, then one step per iteration of each loop of         *)
(* computeRewardsPerNode, computeValidatorInfoPerRewardAddress and         *)
(* addValidatorRewardsToMiniBlocks, then the protocol-sustainability       *)
(* transaction.  The Go code iterates maps keyed by shard, node and        *)
(* address; the order of those iterations is unspecified, so every loop    *)
(* here takes its elements in any order.  The engine object outlives a     *)
(* call: its accumulators are only correct because each call resets them.  *)
(*                                                                         *)
(* The implementation (rewardsCreatorV2.go) is not part of the sources at  *)
(* hand: the engine is modelled from the specification of the repository   *)
(* and from what rewardsV2_test.go calls and asserts.                      *)
(***************************************************************************)
EXTENDS Integers, FiniteSets

CONSTANTS
  \* Shard identifiers, the coordinator (metachain) shard among them.
  Shards, Meta,
  \* Validators of the snapshot (their BLS keys).
  Nodes,
  \* Reward addresses the validators declare, and the fixed address of the
  \* protocol-sustainability pool.
  RewardAddresses, ProtocolAddress,
  \* ValidatorInfo.ShardId and ValidatorInfo.RewardAddress of every node.
  NodeShard, NodeRewardAddress,
  \* The address router ShardOf(address).
  ShardOf,
  \* nodesConfigProvider.ConsensusGroupSize(shard).
  ConsensusGroupSize,
  \* topUpRewardFactor = TopUpFactorNum / TopUpFactorDen, and the gradient
  \* point of the saturating curve.
  TopUpFactorNum, TopUpFactorDen, TopUpGradientPoint,
  \* Whether reward transactions to metachain addresses are allowed.
  DelegationEnabled,
  \* What GetNodeStakedTopUp answers for a key it does not know.
  NotFound,
  \* The value of the body of a call that returned an error.
  NoBody,
  \* The small sets the epoch inputs are drawn from.
  ListValues, SuccessValues, SelectedValues, FeeValues, WaitingFeeValues,
  StakeValues, BlockValues, RewardValues, TotalTopUpValues, SustainabilityValues,
  \* Bounds on the number of epochs and of calls.
  MaxEpochs, MaxCalls

Addresses == RewardAddresses \cup {ProtocolAddress}

ASSUME ConstantsAssumption ==
  /\ Meta \in Shards
  /\ ProtocolAddress \notin RewardAddresses
  /\ NodeShard \in [Nodes -> Shards]
  /\ NodeRewardAddress \in [Nodes -> RewardAddresses]
  /\ ShardOf \in [Addresses -> Shards]
  /\ ConsensusGroupSize \in [Shards -> Nat \ {0}]
  /\ TopUpFactorDen \in Nat \ {0}
  /\ TopUpFactorNum \in 0..TopUpFactorDen
  /\ TopUpGradientPoint \in Nat \ {0}
  /\ DelegationEnabled \in BOOLEAN
  /\ NotFound \notin Int
  /\ ListValues \subseteq {"eligible", "waiting"}
  /\ SuccessValues \subseteq Nat /\ SelectedValues \subseteq Nat
  /\ FeeValues \subseteq Nat /\ WaitingFeeValues \subseteq Nat
  /\ StakeValues \subseteq Nat /\ BlockValues \subseteq Nat
  /\ RewardValues \subseteq Nat /\ TotalTopUpValues \subseteq Nat
  /\ SustainabilityValues \subseteq Nat
  /\ MaxEpochs \in Nat /\ MaxCalls \in Nat

(***************************************************************************)
(* Sum of f[x] over the finite set S (big-integer additions commute, so    *)
(* the order the elements are taken in is irrelevant).                     *)
(***************************************************************************)
Total(f, S) ==
  LET acc[T \in SUBSET S] ==
        IF T = {} THEN 0
        ELSE LET y == CHOOSE z \in T : TRUE IN f[y] + acc[T \ {y}]
  IN acc[S]

-----------------------------------------------------------------------------
(* The fees a validator can have accumulated.                              *)
FeeDomain == FeeValues \cup WaitingFeeValues \cup {0}

(* A state.ValidatorInfo, reduced to the fields the engine reads.          *)
ValidatorInfos ==
  [list : ListValues, leaderSuccess : SuccessValues,
   validatorSuccess : SuccessValues,
   numSelectedInSuccessBlocks : SelectedValues,
   accumulatedFees : FeeDomain]

(* A reward transaction: receiver address and value.                       *)
RewardTx == [rcvAddr : Addresses, value : Int]

Phases == {"idle", "topUp", "base", "shardsPower", "topUpReward",
           "rewardAddress", "miniBlocks"}

VARIABLES
  \* The epoch-start snapshot and what the providers answer for it.
  validatorsInfo,        \* [Nodes -> ValidatorInfos]
  stakedTopUp,           \* GetNodeStakedTopUp(key): a value or NotFound
  totalTopUpEligible,    \* GetTotalTopUpStakeEligibleNodes()
  blocksPerShard,        \* NumberOfBlocksPerShard()
  numberOfBlocks,        \* NumberOfBlocks()
  rewardsForBlocks,      \* RewardsToBeDistributedForBlocks()
  sustainabilityAmount,  \* Economics.RewardsForProtocolSustainability
  \* Engine state that outlives a call.
  accumulatedRewards, protocolSustainabilityValue,
  mapBaseRewardsPerBlockPerValidator,
  \* The call in progress: its kind, its step and the loop's work list.
  mode, pc, todo,
  \* nodeRewardsData of every node.
  topUpStake, powerInShard, baseReward, topUpReward, fullRewards,
  \* Per-shard aggregates.
  topUpPerShard, nodesPowerInShard, powerPerShard, totalPower,
  topUpRewardsPerShard,
  \* Totals of the call: the top-up pool, its base remainder, the dust.
  topUpRewards, baseRewards, dust,
  \* rewardInfoData per reward address, and the unassigned total.
  seenAddresses, protocolRewards, addrFees, unassigned,
  \* The miniblocks under construction, the last body returned, the body
  \* recorded in the candidate block, whether an honest Create produced
  \* that record, and the outcome of the last verification.
  miniBlocks, body, header, headerHonest, verdict,
  epoch, calls

inputVars == <<validatorsInfo, stakedTopUp, totalTopUpEligible,
               blocksPerShard, numberOfBlocks, rewardsForBlocks,
               sustainabilityAmount>>
engineVars == <<accumulatedRewards, protocolSustainabilityValue,
                mapBaseRewardsPerBlockPerValidator>>
nodeVars == <<topUpStake, powerInShard, baseReward, topUpReward, fullRewards>>
shardVars == <<topUpPerShard, nodesPowerInShard, powerPerShard, totalPower,
               topUpRewardsPerShard>>
callVars == <<mode, pc, todo, topUpRewards, baseRewards, dust>>
addrVars == <<seenAddresses, protocolRewards, addrFees, unassigned>>
outVars == <<miniBlocks, body, header, headerHonest, verdict>>
vars == <<inputVars, engineVars, nodeVars, shardVars, callVars, addrVars,
          outVars, epoch, calls>>

-----------------------------------------------------------------------------
(* The eligible validators: the only ones initNodesRewardsInfo keeps.      *)
Eligible == {n \in Nodes : validatorsInfo[n].list = "eligible"}

NodesInShard(s) == {n \in Eligible : NodeShard[n] = s}

(* Fully offline: never a successful leader nor a successful validator.   *)
IsOffline(n) ==
  validatorsInfo[n].leaderSuccess = 0 /\ validatorsInfo[n].validatorSuccess = 0

(* computeNodePowerInShard                                                 *)
NodePowerInShard(n, topUp) ==
  IF IsOffline(n) THEN 0
  ELSE topUp * validatorsInfo[n].numSelectedInSuccessBlocks

(* core.GetPercentageOfValue(value, topUpRewardFactor), truncated.         *)
PercentageOfValue(v) == (v * TopUpFactorNum) \div TopUpFactorDen

(* computeTopUpRewards: the saturating curve.                              *)
\* Mutant: the curve does not saturate (no division by top-up + gradient).
ComputeTopUpRewards_noGradient(totalToDistribute, totalTopUp) ==
  IF totalToDistribute <= 0 \/ totalTopUp <= 0 THEN 0
  ELSE PercentageOfValue(totalToDistribute) * totalTopUp

ComputeTopUpRewards(totalToDistribute, totalTopUp) ==
  IF totalToDistribute <= 0 \/ totalTopUp <= 0 THEN 0
  ELSE (PercentageOfValue(totalToDistribute) * totalTopUp)
         \div (totalTopUp + TopUpGradientPoint)

(* computeRewardsForPowerPerShard, for one shard.                          *)
RewardsForPowerInShard(s) ==
  IF totalPower = 0 THEN 0
  ELSE (powerPerShard[s] * topUpRewards) \div totalPower

(* The transactions of a body, and their total value.                      *)
BodyTxs(b) == UNION {b[s] : s \in Shards}
BodyValue(b) == Total([t \in BodyTxs(b) |-> t.value], BodyTxs(b))

EmptyMiniBlocks == [s \in Shards |-> {}]

-----------------------------------------------------------------------------
(***************************************************************************)
(* The epoch inputs the code can be given.  The snapshot is consistent the *)
(* way the performance tracker produces it: only successful leaders of     *)
(* eligible nodes collect fees, a shard's validators are selected at most  *)
(* ConsensusGroupSize times per block, and NumberOfBlocks() is the sum of  *)
(* NumberOfBlocksPerShard().                                               *)
(***************************************************************************)
FeesConsistent(vi) ==
  \A n \in Nodes :
    IF vi[n].list = "eligible"
    THEN vi[n].accumulatedFees \in
           (IF vi[n].leaderSuccess = 0 THEN {0} ELSE FeeValues)
    ELSE vi[n].accumulatedFees \in WaitingFeeValues

SelectionConsistent(vi, bps) ==
  \A s \in Shards :
    Total([n \in Nodes |-> vi[n].numSelectedInSuccessBlocks],
          {n \in Nodes : vi[n].list = "eligible" /\ NodeShard[n] = s})
      <= bps[s] * ConsensusGroupSize[s]

EpochInputs(vi, st, tt, bps, nb, r, sa) ==
  /\ vi \in [Nodes -> ValidatorInfos]
  /\ FeesConsistent(vi)
  /\ st \in [Nodes -> StakeValues \cup {NotFound}]
  /\ tt \in TotalTopUpValues
  /\ bps \in [Shards -> BlockValues]
  /\ SelectionConsistent(vi, bps)
  /\ nb \in {Total(bps, Shards)} \cap Nat
  /\ r \in RewardValues
  /\ sa \in SustainabilityValues

Init ==
  /\ EpochInputs(validatorsInfo, stakedTopUp, totalTopUpEligible,
                 blocksPerShard, numberOfBlocks, rewardsForBlocks,
                 sustainabilityAmount)
  /\ accumulatedRewards = 0
  /\ protocolSustainabilityValue = 0
  /\ mapBaseRewardsPerBlockPerValidator = [s \in {} |-> 0]
  /\ mode = "create" /\ pc = "idle" /\ todo = {}
  /\ topUpStake = [n \in Nodes |-> 0]
  /\ powerInShard = [n \in Nodes |-> 0]
  /\ baseReward = [n \in Nodes |-> 0]
  /\ topUpReward = [n \in Nodes |-> 0]
  /\ fullRewards = [n \in Nodes |-> 0]
  /\ topUpPerShard = [s \in Shards |-> 0]
  /\ nodesPowerInShard = [s \in Shards |-> 0]
  /\ powerPerShard = [s \in Shards |-> 0]
  /\ totalPower = 0
  /\ topUpRewardsPerShard = [s \in Shards |-> 0]
  /\ topUpRewards = 0 /\ baseRewards = 0 /\ dust = 0
  /\ seenAddresses = {}
  /\ protocolRewards = [a \in RewardAddresses |-> 0]
  /\ addrFees = [a \in RewardAddresses |-> 0]
  /\ unassigned = 0
  /\ miniBlocks = EmptyMiniBlocks
  /\ body = NoBody /\ header = NoBody /\ headerHonest = FALSE
  /\ verdict = "none"
  /\ epoch = 0 /\ calls = 0

-----------------------------------------------------------------------------
(***************************************************************************)
(* clean(): the engine accumulators that outlive a call are zeroed and the *)
(* per-shard base-reward map emptied.                                      *)
(***************************************************************************)
\* Mutant: the sustainability accumulator is not reset.
clean_keepsSustainability ==
  /\ accumulatedRewards' = 0
  /\ UNCHANGED protocolSustainabilityValue
  /\ mapBaseRewardsPerBlockPerValidator' = [s \in {} |-> 0]

clean ==
  /\ accumulatedRewards' = 0
  /\ protocolSustainabilityValue' = 0
  /\ mapBaseRewardsPerBlockPerValidator' = [s \in {} |-> 0]

(***************************************************************************)
(* initNodesRewardsInfo: one zeroed nodeRewardsData per eligible node, and *)
(* the fresh per-shard top-up and power maps of computeNodesPowerInShard.  *)
(***************************************************************************)
\* Mutant: the per-shard totals of the previous call are kept.
initNodesRewardsInfo_keepsShardTotals ==
  /\ topUpStake' = [n \in Nodes |-> 0]
  /\ powerInShard' = [n \in Nodes |-> 0]
  /\ baseReward' = [n \in Nodes |-> 0]
  /\ topUpReward' = [n \in Nodes |-> 0]
  /\ fullRewards' = [n \in Nodes |-> 0]
  /\ UNCHANGED <<topUpPerShard, nodesPowerInShard>>

initNodesRewardsInfo ==
  /\ topUpStake' = [n \in Nodes |-> 0]
  /\ powerInShard' = [n \in Nodes |-> 0]
  /\ baseReward' = [n \in Nodes |-> 0]
  /\ topUpReward' = [n \in Nodes |-> 0]
  /\ fullRewards' = [n \in Nodes |-> 0]
  /\ topUpPerShard' = [s \in Shards |-> 0]
  /\ nodesPowerInShard' = [s \in Shards |-> 0]

(***************************************************************************)
(* prepareRewardsData, the start of CreateRewardsMiniBlocks (m = "create") *)
(* and of VerifyRewardsMiniBlocks (m = "verify"): clean(), then            *)
(* PrepareStakingData for the eligible keys; its error aborts the call     *)
(* with no miniblocks (Verify reports it).  On success the eligible nodes' *)
(* records are initialised and the top-up loop starts.                     *)
(***************************************************************************)
prepareRewardsData(m) ==
  /\ pc = "idle" /\ calls < MaxCalls
  /\ m = "verify" => header # NoBody
  /\ calls' = calls + 1
  /\ mode' = m
  /\ clean
  /\ \/ /\ pc' = "idle"
        /\ body' = NoBody
        /\ verdict' = IF m = "verify" THEN "error" ELSE "none"
        /\ UNCHANGED <<todo, nodeVars, topUpPerShard, nodesPowerInShard>>
     \/ /\ pc' = "topUp"
        /\ todo' = Eligible
        /\ initNodesRewardsInfo
        /\ verdict' = "none"
        /\ UNCHANGED body
  /\ UNCHANGED <<inputVars, powerPerShard, totalPower, topUpRewardsPerShard,
                 topUpRewards, baseRewards, dust, addrVars, miniBlocks,
                 header, headerHonest, epoch>>

(***************************************************************************)
(* getTopUpForAllEligibleNodes, one node: the staking data provider's      *)
(* answer, zero when the key is not found.  The same pass computes the     *)
(* node's power (computeNodePowerInShard) and adds the node to its shard's *)
(* top-up and power totals (computeNodesPowerInShard).                     *)
(***************************************************************************)
getTopUpForAllEligibleNodes(n) ==
  LET t == IF stakedTopUp[n] = NotFound THEN 0 ELSE stakedTopUp[n]
      p == NodePowerInShard(n, t)
      s == NodeShard[n]
  IN /\ pc = "topUp" /\ n \in todo
     /\ todo' = todo \ {n}
     /\ topUpStake' = [topUpStake EXCEPT ![n] = t]
     /\ powerInShard' = [powerInShard EXCEPT ![n] = p]
     /\ topUpPerShard' = [topUpPerShard EXCEPT ![s] = @ + t]
     /\ nodesPowerInShard' = [nodesPowerInShard EXCEPT ![s] = @ + p]
     /\ UNCHANGED <<inputVars, engineVars, mode, pc, baseReward, topUpReward,
                    fullRewards, powerPerShard, totalPower,
                    topUpRewardsPerShard, topUpRewards, baseRewards, dust,
                    addrVars, outVars, epoch, calls>>

(***************************************************************************)
(* computeRewardsPerNode, after the top-ups: the saturating curve splits   *)
(* RewardsToBeDistributedForBlocks into the top-up pool and the base pool; *)
(* the base pool per block, divided by each shard's consensus group size,  *)
(* fills mapBaseRewardsPerBlockPerValidator.  The base dust starts as the  *)
(* whole base pool.                                                        *)
(***************************************************************************)
\* Mutant: the per-block base reward is not divided by the group size.
fillBaseRewardsPerBlockPerNode_noGroupSize ==
  LET tr == ComputeTopUpRewards(rewardsForBlocks, totalTopUpEligible)
      br == rewardsForBlocks - tr
      perBlock == IF numberOfBlocks = 0 THEN 0 ELSE br \div numberOfBlocks
  IN /\ pc = "topUp" /\ todo = {}
     /\ topUpRewards' = tr
     /\ baseRewards' = br
     /\ mapBaseRewardsPerBlockPerValidator' = [s \in Shards |-> perBlock]
     /\ dust' = br
     /\ pc' = "base" /\ todo' = Eligible
     /\ UNCHANGED <<inputVars, accumulatedRewards, protocolSustainabilityValue,
                    mode, nodeVars, shardVars, addrVars, outVars, epoch, calls>>

fillBaseRewardsPerBlockPerNode ==
  LET tr == ComputeTopUpRewards(rewardsForBlocks, totalTopUpEligible)
      br == rewardsForBlocks - tr
      perBlock == IF numberOfBlocks = 0 THEN 0 ELSE br \div numberOfBlocks
  IN /\ pc = "topUp" /\ todo = {}
     /\ topUpRewards' = tr
     /\ baseRewards' = br
     /\ mapBaseRewardsPerBlockPerValidator' =
          [s \in Shards |-> perBlock \div ConsensusGroupSize[s]]
     /\ dust' = br
     /\ pc' = "base" /\ todo' = Eligible
     /\ UNCHANGED <<inputVars, accumulatedRewards, protocolSustainabilityValue,
                    mode, nodeVars, shardVars, addrVars, outVars, epoch, calls>>

(* computeBaseRewardsPerNode, one node.                                    *)
computeBaseRewardsPerNode(n) ==
  LET b == mapBaseRewardsPerBlockPerValidator[NodeShard[n]]
             * validatorsInfo[n].numSelectedInSuccessBlocks
  IN /\ pc = "base" /\ n \in todo
     /\ todo' = todo \ {n}
     /\ baseReward' = [baseReward EXCEPT ![n] = b]
     /\ dust' = dust - b
     /\ UNCHANGED <<inputVars, engineVars, mode, pc, topUpStake, powerInShard,
                    topUpReward, fullRewards, shardVars, topUpRewards,
                    baseRewards, addrVars, outVars, epoch, calls>>

(* End of the base pass: the top-up pass starts with its own dust equal to *)
(* the whole top-up pool, and computeShardsPower with a zero total.        *)
startTopUpRewardsPerShard ==
  /\ pc = "base" /\ todo = {}
  /\ pc' = "shardsPower" /\ todo' = Shards
  /\ totalPower' = 0
  /\ dust' = dust + topUpRewards
  /\ UNCHANGED <<inputVars, engineVars, mode, nodeVars, topUpPerShard,
                 nodesPowerInShard, powerPerShard, topUpRewardsPerShard,
                 topUpRewards, baseRewards, addrVars, outVars, epoch, calls>>

(* computeShardsPower, one shard: its top-up times its blocks.             *)
computeShardsPower(s) ==
  LET p == topUpPerShard[s] * blocksPerShard[s]
  IN /\ pc = "shardsPower" /\ s \in todo
     /\ todo' = todo \ {s}
     /\ powerPerShard' = [powerPerShard EXCEPT ![s] = p]
     /\ totalPower' = totalPower + p
     /\ UNCHANGED <<inputVars, engineVars, mode, pc, nodeVars, topUpPerShard,
                    nodesPowerInShard, topUpRewardsPerShard, topUpRewards,
                    baseRewards, dust, addrVars, outVars, epoch, calls>>

(* computeRewardsForPowerPerShard: each shard's share of the top-up pool.  *)
computeRewardsForPowerPerShard ==
  /\ pc = "shardsPower" /\ todo = {}
  /\ topUpRewardsPerShard' = [s \in Shards |-> RewardsForPowerInShard(s)]
  /\ pc' = "topUpReward" /\ todo' = Eligible
  /\ UNCHANGED <<inputVars, engineVars, mode, nodeVars, topUpPerShard,
                 nodesPowerInShard, powerPerShard, totalPower, topUpRewards,
                 baseRewards, dust, addrVars, outVars, epoch, calls>>

(* computeTopUpRewardsPerNode, one node: its share of its shard's top-up   *)
(* rewards by power; nothing when the shard has no power.                  *)
computeTopUpRewardsPerNode(n) ==
  LET s == NodeShard[n]
      r == IF nodesPowerInShard[s] = 0 THEN 0
           ELSE (topUpRewardsPerShard[s] * powerInShard[n])
                  \div nodesPowerInShard[s]
  IN /\ pc = "topUpReward" /\ n \in todo
     /\ todo' = todo \ {n}
     /\ topUpReward' = [topUpReward EXCEPT ![n] = r]
     /\ dust' = dust - r
     /\ UNCHANGED <<inputVars, engineVars, mode, pc, topUpStake, powerInShard,
                    baseReward, fullRewards, shardVars, topUpRewards,
                    baseRewards, addrVars, outVars, epoch, calls>>

(***************************************************************************)
(* aggregateBaseAndTopUpRewardsPerNode, then initializeRewardsMiniBlocks   *)
(* (one empty miniblock per shard, the metachain's included) and the start *)
(* of computeValidatorInfoPerRewardAddress with an empty address map.      *)
(***************************************************************************)
aggregateBaseAndTopUpRewardsPerNode ==
  /\ pc = "topUpReward" /\ todo = {}
  /\ fullRewards' = [n \in Nodes |-> baseReward[n] + topUpReward[n]]
  /\ miniBlocks' = EmptyMiniBlocks
  /\ seenAddresses' = {}
  /\ protocolRewards' = [a \in RewardAddresses |-> 0]
  /\ addrFees' = [a \in RewardAddresses |-> 0]
  /\ unassigned' = 0
  /\ pc' = "rewardAddress" /\ todo' = Eligible
  /\ UNCHANGED <<inputVars, engineVars, mode, topUpStake, powerInShard,
                 baseReward, topUpReward, shardVars, topUpRewards, baseRewards,
                 dust, body, header, headerHonest, verdict, epoch, calls>>

(***************************************************************************)
(* computeValidatorInfoPerRewardAddress, one node: a fully offline node's  *)
(* full reward goes to the unassigned total; any other node's full reward  *)
(* and fees go to the record of its reward address.                        *)
(***************************************************************************)
\* Mutant: a node counts as offline as soon as it never led a block.
computeValidatorInfoPerRewardAddress_leaderOnly(n) ==
  LET a == NodeRewardAddress[n]
  IN /\ pc = "rewardAddress" /\ n \in todo
     /\ todo' = todo \ {n}
     /\ IF validatorsInfo[n].leaderSuccess = 0
        THEN /\ unassigned' = unassigned + fullRewards[n]
             /\ UNCHANGED <<seenAddresses, protocolRewards, addrFees>>
        ELSE /\ seenAddresses' = seenAddresses \cup {a}
             /\ protocolRewards' = [protocolRewards EXCEPT ![a] = @ + fullRewards[n]]
             /\ addrFees' =
                  [addrFees EXCEPT ![a] = @ + validatorsInfo[n].accumulatedFees]
             /\ UNCHANGED unassigned
     /\ UNCHANGED <<inputVars, engineVars, mode, pc, nodeVars, shardVars,
                    topUpRewards, baseRewards, dust, outVars, epoch, calls>>

computeValidatorInfoPerRewardAddress(n) ==
  LET a == NodeRewardAddress[n]
  IN /\ pc = "rewardAddress" /\ n \in todo
     /\ todo' = todo \ {n}
     /\ IF IsOffline(n)
        THEN /\ unassigned' = unassigned + fullRewards[n]
             /\ UNCHANGED <<seenAddresses, protocolRewards, addrFees>>
        ELSE /\ seenAddresses' = seenAddresses \cup {a}
             /\ protocolRewards' = [protocolRewards EXCEPT ![a] = @ + fullRewards[n]]
             /\ addrFees' =
                  [addrFees EXCEPT ![a] = @ + validatorsInfo[n].accumulatedFees]
             /\ UNCHANGED unassigned
     /\ UNCHANGED <<inputVars, engineVars, mode, pc, nodeVars, shardVars,
                    topUpRewards, baseRewards, dust, outVars, epoch, calls>>

(* End of the address pass: the unassigned total is redirected to dust.   *)
startAddValidatorRewardsToMiniBlocks ==
  /\ pc = "rewardAddress" /\ todo = {}
  /\ dust' = dust + unassigned
  /\ pc' = "miniBlocks" /\ todo' = seenAddresses
  /\ UNCHANGED <<inputVars, engineVars, mode, nodeVars, shardVars,
                 topUpRewards, baseRewards, addrVars, outVars, epoch, calls>>

(***************************************************************************)
(* addValidatorRewardsToMiniBlocks, one reward address: one transaction of *)
(* protocol rewards plus fees, into the miniblock of the address's shard.  *)
(* A metachain address while delegation is disabled gets no transaction:  *)
(* its value is added to the dust.                                         *)
(***************************************************************************)
\* Mutant: the value of a skipped metachain address is dropped.
addValidatorRewardsToMiniBlocks_dropsMeta(a) ==
  LET v == protocolRewards[a] + addrFees[a]
      dst == ShardOf[a]
  IN /\ pc = "miniBlocks" /\ a \in todo
     /\ todo' = todo \ {a}
     /\ IF dst = Meta /\ ~DelegationEnabled
        THEN UNCHANGED <<dust, miniBlocks, accumulatedRewards>>
        ELSE /\ miniBlocks' = [miniBlocks EXCEPT ![dst] =
                                 @ \cup {[rcvAddr |-> a, value |-> v]}]
             /\ accumulatedRewards' = accumulatedRewards + v
             /\ UNCHANGED dust
     /\ UNCHANGED <<inputVars, protocolSustainabilityValue,
                    mapBaseRewardsPerBlockPerValidator, mode, pc, nodeVars,
                    shardVars, topUpRewards, baseRewards, addrVars, body,
                    header, headerHonest, verdict, epoch, calls>>

addValidatorRewardsToMiniBlocks(a) ==
  LET v == protocolRewards[a] + addrFees[a]
      dst == ShardOf[a]
  IN /\ pc = "miniBlocks" /\ a \in todo
     /\ todo' = todo \ {a}
     /\ IF dst = Meta /\ ~DelegationEnabled
        THEN /\ dust' = dust + v
             /\ UNCHANGED <<miniBlocks, accumulatedRewards>>
        ELSE /\ miniBlocks' = [miniBlocks EXCEPT ![dst] =
                                 @ \cup {[rcvAddr |-> a, value |-> v]}]
             /\ accumulatedRewards' = accumulatedRewards + v
             /\ UNCHANGED dust
     /\ UNCHANGED <<inputVars, protocolSustainabilityValue,
                    mapBaseRewardsPerBlockPerValidator, mode, pc, nodeVars,
                    shardVars, topUpRewards, baseRewards, addrVars, body,
                    header, headerHonest, verdict, epoch, calls>>

(***************************************************************************)
(* The end of the call.  The protocol-sustainability transaction carries   *)
(* the accumulated sustainability value plus all the dust plus the         *)
(* epoch's configured amount.  CreateRewardsMiniBlocks returns the         *)
(* miniblocks, which the proposer records in its block;                    *)
(* VerifyRewardsMiniBlocks compares them with the miniblocks the           *)
(* candidate block records and rejects it on any difference.              *)
(***************************************************************************)
createProtocolSustainabilityRewardTransaction ==
  LET psv == protocolSustainabilityValue + dust + sustainabilityAmount
      mbs == [miniBlocks EXCEPT ![ShardOf[ProtocolAddress]] =
                @ \cup {[rcvAddr |-> ProtocolAddress, value |-> psv]}]
  IN /\ pc = "miniBlocks" /\ todo = {}
     /\ protocolSustainabilityValue' = psv
     /\ accumulatedRewards' = accumulatedRewards + psv
     /\ miniBlocks' = mbs
     /\ body' = mbs
     /\ pc' = "idle"
     /\ IF mode = "create"
        THEN /\ header' = mbs /\ headerHonest' = TRUE
             /\ UNCHANGED verdict
        ELSE /\ verdict' = IF mbs = header THEN "accept" ELSE "mismatch"
             /\ UNCHANGED <<header, headerHonest>>
     /\ UNCHANGED <<inputVars, mapBaseRewardsPerBlockPerValidator, mode, todo,
                    nodeVars, shardVars, topUpRewards, baseRewards, dust,
                    addrVars, epoch, calls>>

-----------------------------------------------------------------------------
(***************************************************************************)
(* The environment.  A byzantine proposer records miniblocks that differ   *)
(* from the honest ones in one transaction's value: a new candidate, not   *)
(* yet verified.  A new epoch brings a new snapshot; the engine object,    *)
(* and its accumulators, are kept.                                         *)
(***************************************************************************)
TamperHeader ==
  /\ pc = "idle" /\ header # NoBody /\ headerHonest
  /\ \E s \in Shards : \E t \in header[s] :
       /\ header' = [header EXCEPT ![s] =
                       (@ \ {t}) \cup {[t EXCEPT !.value = @ + 1]}]
  /\ headerHonest' = FALSE
  /\ verdict' = "none"
  /\ UNCHANGED <<inputVars, engineVars, nodeVars, shardVars, callVars,
                 addrVars, miniBlocks, body, epoch, calls>>

NewEpoch ==
  /\ pc = "idle" /\ epoch < MaxEpochs
  /\ EpochInputs(validatorsInfo', stakedTopUp', totalTopUpEligible',
                 blocksPerShard', numberOfBlocks', rewardsForBlocks',
                 sustainabilityAmount')
  /\ epoch' = epoch + 1 /\ calls' = 0
  /\ body' = NoBody /\ header' = NoBody /\ headerHonest' = FALSE
  /\ verdict' = "none"
  /\ UNCHANGED <<engineVars, nodeVars, shardVars, callVars, addrVars,
                 miniBlocks>>

(* All epochs and calls of the bounded run are done.                       *)
Finished ==
  /\ pc = "idle" /\ epoch = MaxEpochs /\ calls = MaxCalls
  /\ UNCHANGED vars

Next ==
  \/ \E m \in {"create", "verify"} : prepareRewardsData(m)
  \/ \E n \in Nodes : getTopUpForAllEligibleNodes(n)
  \/ fillBaseRewardsPerBlockPerNode
  \/ \E n \in Nodes : computeBaseRewardsPerNode(n)
  \/ startTopUpRewardsPerShard
  \/ \E s \in Shards : computeShardsPower(s)
  \/ computeRewardsForPowerPerShard
  \/ \E n \in Nodes : computeTopUpRewardsPerNode(n)
  \/ aggregateBaseAndTopUpRewardsPerNode
  \/ \E n \in Nodes : computeValidatorInfoPerRewardAddress(n)
  \/ startAddValidatorRewardsToMiniBlocks
  \/ \E a \in RewardAddresses : addValidatorRewardsToMiniBlocks(a)
  \/ createProtocolSustainabilityRewardTransaction
  \/ TamperHeader
  \/ NewEpoch
  \/ Finished

Spec == Init /\ [][Next]_vars

-----------------------------------------------------------------------------
(***************************************************************************)
(* Reference values, as the unit tests of rewardsV2_test.go compute them   *)
(* in closed form from the inputs.                                         *)
(***************************************************************************)
(* The top-up the staking provider reports; an unknown key counts as zero. *)
ReportedTopUp == [n \in Nodes |->
                    IF stakedTopUp[n] = NotFound THEN 0 ELSE stakedTopUp[n]]

(* A node's power: its top-up times its selections; zero when offline.    *)
ExpectedNodePower == [n \in Nodes |-> NodePowerInShard(n, ReportedTopUp[n])]

(* A shard's power: the top-up of its eligible nodes times its blocks.    *)
ExpectedShardPower ==
  [s \in Shards |-> Total(ReportedTopUp, NodesInShard(s)) * blocksPerShard[s]]

ExpectedTotalPower == Total(ExpectedShardPower, Shards)

(* A shard's share of the top-up pool, zero when no shard has power.      *)
ExpectedRewardsPerShard(s) ==
  IF ExpectedTotalPower = 0 THEN 0
  ELSE (ExpectedShardPower[s] * topUpRewards) \div ExpectedTotalPower

Fees == [n \in Nodes |-> validatorsInfo[n].accumulatedFees]

-----------------------------------------------------------------------------
TypeOK ==
  /\ validatorsInfo \in [Nodes -> ValidatorInfos]
  /\ stakedTopUp \in [Nodes -> StakeValues \cup {NotFound}]
  /\ totalTopUpEligible \in TotalTopUpValues
  /\ blocksPerShard \in [Shards -> BlockValues]
  /\ numberOfBlocks \in Nat
  /\ rewardsForBlocks \in RewardValues
  /\ sustainabilityAmount \in SustainabilityValues
  /\ accumulatedRewards \in Int
  /\ protocolSustainabilityValue \in Int
  /\ mapBaseRewardsPerBlockPerValidator \in
       [{} -> Nat] \cup [Shards -> Nat]
  /\ mode \in {"create", "verify"}
  /\ pc \in Phases
  /\ todo \subseteq Nodes \cup Shards \cup RewardAddresses
  /\ topUpStake \in [Nodes -> Nat]
  /\ powerInShard \in [Nodes -> Nat]
  /\ baseReward \in [Nodes -> Nat]
  /\ topUpReward \in [Nodes -> Nat]
  /\ fullRewards \in [Nodes -> Nat]
  /\ topUpPerShard \in [Shards -> Nat]
  /\ nodesPowerInShard \in [Shards -> Nat]
  /\ powerPerShard \in [Shards -> Nat]
  /\ totalPower \in Nat
  /\ topUpRewardsPerShard \in [Shards -> Nat]
  /\ topUpRewards \in Nat /\ baseRewards \in Nat /\ dust \in Int
  /\ seenAddresses \subseteq RewardAddresses
  /\ protocolRewards \in [RewardAddresses -> Nat]
  /\ addrFees \in [RewardAddresses -> Nat]
  /\ unassigned \in Nat
  /\ miniBlocks \in [Shards -> SUBSET RewardTx]
  /\ body \in [Shards -> SUBSET RewardTx] \cup {NoBody}
  /\ header \in [Shards -> SUBSET RewardTx] \cup {NoBody}
  /\ headerHonest \in BOOLEAN
  /\ verdict \in {"none", "error", "accept", "mismatch"}
  /\ epoch \in 0..MaxEpochs
  /\ calls \in 0..MaxCalls

(***************************************************************************)
(* No value is created or lost (CreateRewardsMiniBlocks' guarantee): once  *)
(* a call has returned miniblocks, their transactions add up to the fees   *)
(* of the snapshot, plus the rewards for blocks, plus the configured       *)
(* sustainability amount; and accumulatedRewards is that same total.  It   *)
(* rests on every division remainder, every offline node's reward and     *)
(* every skipped metachain address reaching the sustainability dust.       *)
(***************************************************************************)
ValueConservation ==
  (pc = "idle" /\ body # NoBody) =>
    /\ BodyValue(body) = Total(Fees, Nodes) + rewardsForBlocks
                           + sustainabilityAmount
    /\ accumulatedRewards = BodyValue(body)

(***************************************************************************)
(* The proportional splits never hand out more than their pool: the dust   *)
(* of computeRewardsPerNode and of the address pass never goes negative,   *)
(* whatever order the node and shard maps are iterated in.  It depends on  *)
(* the base reward per block being divided by the consensus group size and *)
(* on the snapshot's selection counts fitting the shard's blocks.          *)
(***************************************************************************)
DustNeverNegative == dust >= 0

(***************************************************************************)
(* VerifyRewardsMiniBlocks fails closed and never rejects an honest block: *)
(* a finished verification accepts exactly when the candidate block        *)
(* records what an honest CreateRewardsMiniBlocks produced for the same    *)
(* snapshot, however many calls the engine object served before.           *)
(***************************************************************************)
VerifyAcceptsExactlyHonest ==
  verdict \in {"accept", "mismatch"} => (verdict = "accept" <=> headerHonest)

(***************************************************************************)
(* computeValidatorInfoPerRewardAddress: the unassigned total is exactly   *)
(* the full reward of the fully offline eligible nodes, and the rewards    *)
(* assigned to reward addresses are the rest of the nodes' full rewards.   *)
(***************************************************************************)
OfflineRewardsUnassigned ==
  pc = "miniBlocks" =>
    /\ unassigned = Total(fullRewards, {n \in Eligible : IsOffline(n)})
    /\ Total(protocolRewards, RewardAddresses) + unassigned
         = Total(fullRewards, Eligible)

(***************************************************************************)
(* The loop-by-loop computation of node power, shard power and the top-up  *)
(* pool's split over shards agrees with the closed forms the unit tests    *)
(* assert, once the shard loop is done, in every call of the engine.       *)
(***************************************************************************)
TopUpSplitMatchesReference ==
  pc \in {"topUpReward", "rewardAddress", "miniBlocks"} =>
    /\ \A n \in Eligible : powerInShard[n] = ExpectedNodePower[n]
    /\ \A s \in Shards :
         /\ nodesPowerInShard[s] = Total(ExpectedNodePower, NodesInShard(s))
         /\ topUpRewardsPerShard[s] = ExpectedRewardsPerShard(s)

=============================================================================
