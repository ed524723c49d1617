-------------------------- MODULE RewardsV2_proofs --------------------------
(***************************************************************************)
(* Proofs about the rewards engine of RewardsV2, for every value of its    *)
(* constants that ConstantsAssumption allows.                              *)
(***************************************************************************)
EXTENDS RewardsV2, TLAPS

(* The parts of ConstantsAssumption the proofs use, cited one by one.     *)
LEMMA ValueSetsNat ==
  /\ SuccessValues \subseteq Nat /\ SelectedValues \subseteq Nat
  /\ FeeValues \subseteq Nat /\ WaitingFeeValues \subseteq Nat
  /\ StakeValues \subseteq Nat /\ BlockValues \subseteq Nat
  /\ RewardValues \subseteq Nat /\ TotalTopUpValues \subseteq Nat
  /\ SustainabilityValues \subseteq Nat
  /\ MaxEpochs \in Nat /\ MaxCalls \in Nat
BY ConstantsAssumption

LEMMA TopologyTyped ==
  /\ Meta \in Shards
  /\ NodeShard \in [Nodes -> Shards]
  /\ NodeRewardAddress \in [Nodes -> RewardAddresses]
  /\ ShardOf \in [Addresses -> Shards]
  /\ ConsensusGroupSize \in [Shards -> Nat \ {0}]
BY ConstantsAssumption

LEMMA FactorTyped ==
  /\ TopUpFactorDen \in Nat \ {0}
  /\ TopUpFactorNum \in 0..TopUpFactorDen
  /\ TopUpGradientPoint \in Nat \ {0}
BY ConstantsAssumption

(* Truncating division of a number at most c * d by d gives at most c.    *)
LEMMA DivBound ==
  ASSUME NEW a \in Nat, NEW c \in Nat, NEW d \in Nat \ {0}, a <= c * d
  PROVE  a \div d \in 0..c
OBVIOUS

(***************************************************************************)
(* computeTopUpRewards never takes more than the pool it is given: the     *)
(* curve's limit is at most the pool because topUpRewardFactor <= 1, and   *)
(* the curve stays below its limit.  So the base pool RewardsToBeDistrib-  *)
(* utedForBlocks - topUpRewards is never negative.                         *)
(***************************************************************************)
LEMMA TopUpRewardsBound ==
  ASSUME NEW total \in Nat, NEW x \in Nat
  PROVE  ComputeTopUpRewards(total, x) \in 0..total
<1> USE FactorTyped
<1>1. CASE total <= 0 \/ x <= 0
  BY <1>1 DEF ComputeTopUpRewards
<1>2. CASE ~(total <= 0 \/ x <= 0)
  <2> DEFINE lim == PercentageOfValue(total)
  <2>1. lim \in 0..total
    <3>1. total * TopUpFactorNum \in 0..(total * TopUpFactorDen)
      OBVIOUS
    <3>2. QED
      BY <3>1 DEF PercentageOfValue
  <2>2. (lim * x) \div (x + TopUpGradientPoint) \in 0..lim
    <3>1. lim * x \in 0..(lim * (x + TopUpGradientPoint))
      BY <2>1
    <3>2. x + TopUpGradientPoint \in Nat \ {0}
      OBVIOUS
    <3>3. QED
      BY <2>1, <3>1, <3>2, DivBound
  <2>3. QED
    BY <1>2, <2>1, <2>2 DEF ComputeTopUpRewards
<1>3. QED
  BY <1>1, <1>2

-----------------------------------------------------------------------------
(* The epoch inputs the code can be given are well typed.                  *)
LEMMA EpochInputsTyped ==
  ASSUME NEW vi, NEW st, NEW tt, NEW bps, NEW nb, NEW r, NEW sa,
         EpochInputs(vi, st, tt, bps, nb, r, sa)
  PROVE  /\ vi \in [Nodes -> ValidatorInfos]
         /\ st \in [Nodes -> StakeValues \cup {NotFound}]
         /\ tt \in TotalTopUpValues
         /\ bps \in [Shards -> BlockValues]
         /\ nb \in Nat
         /\ r \in RewardValues
         /\ sa \in SustainabilityValues
BY DEF EpochInputs

(* The initial state is well typed.                                        *)
LEMMA InitTypeOK == Init => TypeOK
<1> SUFFICES ASSUME Init PROVE TypeOK
  OBVIOUS
<1>1. /\ validatorsInfo \in [Nodes -> ValidatorInfos]
      /\ stakedTopUp \in [Nodes -> StakeValues \cup {NotFound}]
      /\ totalTopUpEligible \in TotalTopUpValues
      /\ blocksPerShard \in [Shards -> BlockValues]
      /\ numberOfBlocks \in Nat
      /\ rewardsForBlocks \in RewardValues
      /\ sustainabilityAmount \in SustainabilityValues
  BY EpochInputsTyped DEF Init
<1>2. [s \in {} |-> 0] \in [{} -> Nat]
  OBVIOUS
<1>3. EmptyMiniBlocks \in [Shards -> SUBSET RewardTx]
  BY DEF EmptyMiniBlocks
<1>4. /\ accumulatedRewards \in Int /\ protocolSustainabilityValue \in Int
      /\ mapBaseRewardsPerBlockPerValidator \in [{} -> Nat] \cup [Shards -> Nat]
      /\ mode \in {"create", "verify"} /\ pc \in Phases
      /\ todo \subseteq Nodes \cup Shards \cup RewardAddresses
  BY <1>2 DEF Init, Phases
<1>5. /\ topUpStake \in [Nodes -> Nat]
      /\ powerInShard \in [Nodes -> Nat] /\ baseReward \in [Nodes -> Nat]
      /\ topUpReward \in [Nodes -> Nat] /\ fullRewards \in [Nodes -> Nat]
      /\ topUpPerShard \in [Shards -> Nat]
      /\ nodesPowerInShard \in [Shards -> Nat]
      /\ powerPerShard \in [Shards -> Nat] /\ totalPower \in Nat
      /\ topUpRewardsPerShard \in [Shards -> Nat]
      /\ topUpRewards \in Nat /\ baseRewards \in Nat /\ dust \in Int
  BY DEF Init
<1>6. /\ seenAddresses \subseteq RewardAddresses
      /\ protocolRewards \in [RewardAddresses -> Nat]
      /\ addrFees \in [RewardAddresses -> Nat] /\ unassigned \in Nat
      /\ miniBlocks \in [Shards -> SUBSET RewardTx]
      /\ body \in [Shards -> SUBSET RewardTx] \cup {NoBody}
      /\ header \in [Shards -> SUBSET RewardTx] \cup {NoBody}
      /\ headerHonest \in BOOLEAN
      /\ verdict \in {"none", "error", "accept", "mismatch"}
      /\ epoch \in 0..MaxEpochs /\ calls \in 0..MaxCalls
  <2>1. miniBlocks \in [Shards -> SUBSET RewardTx]
    BY <1>3 DEF Init
  <2>2. epoch \in 0..MaxEpochs /\ calls \in 0..MaxCalls
    BY ValueSetsNat DEF Init
  <2>3. body = NoBody /\ header = NoBody /\ headerHonest = FALSE
    BY DEF Init
  <2>4. seenAddresses \subseteq RewardAddresses
    BY DEF Init
  <2>5. protocolRewards \in [RewardAddresses -> Nat]
    BY DEF Init
  <2>6. addrFees \in [RewardAddresses -> Nat] /\ unassigned \in Nat
    BY DEF Init
  <2>7. verdict \in {"none", "error", "accept", "mismatch"}
    BY DEF Init
  <2>8. body \in [Shards -> SUBSET RewardTx] \cup {NoBody}
    BY <2>3
  <2>9. header \in [Shards -> SUBSET RewardTx] \cup {NoBody}
    BY <2>3
  <2> QED
    BY <2>1, <2>2, <2>3, <2>4, <2>5, <2>6, <2>7, <2>8, <2>9
<1> QED
  BY <1>1, <1>4, <1>5, <1>6 DEF TypeOK

-----------------------------------------------------------------------------
(***************************************************************************)
(* TypeOK alone is not inductive: the base-reward loop reads the per-shard *)
(* base reward of its node's shard, and TypeOK allows the map to be the    *)
(* empty one clean() leaves.  The loop only runs after                     *)
(* fillBaseRewardsPerBlockPerNode has filled it for every shard.           *)
(***************************************************************************)
MapBaseFilled ==
  pc = "base" => mapBaseRewardsPerBlockPerValidator \in [Shards -> Nat]

IInv == TypeOK /\ MapBaseFilled

LEMMA InitIInv == Init => IInv
BY InitTypeOK DEF Init, IInv, MapBaseFilled

(* The node, address and shard a step quantifies over are in range.        *)
LEMMA NodeFacts ==
  ASSUME TypeOK, NEW n \in Nodes
  PROVE  /\ NodeShard[n] \in Shards
         /\ NodeRewardAddress[n] \in RewardAddresses
         /\ validatorsInfo[n].numSelectedInSuccessBlocks \in Nat
         /\ validatorsInfo[n].accumulatedFees \in Nat
         /\ (IF stakedTopUp[n] = NotFound THEN 0 ELSE stakedTopUp[n]) \in Nat
<1>1. validatorsInfo[n] \in ValidatorInfos
  BY DEF TypeOK
<1>2. stakedTopUp[n] \in StakeValues \cup {NotFound}
  BY DEF TypeOK
<1>3. validatorsInfo[n].numSelectedInSuccessBlocks \in Nat
  BY <1>1, ValueSetsNat DEF ValidatorInfos
<1>4. validatorsInfo[n].accumulatedFees \in Nat
  <2>1. validatorsInfo[n].accumulatedFees \in FeeDomain
    BY <1>1 DEF ValidatorInfos
  <2>2. FeeDomain \subseteq Nat
    BY ValueSetsNat DEF FeeDomain
  <2> QED
    BY <2>1, <2>2
<1>5. (IF stakedTopUp[n] = NotFound THEN 0 ELSE stakedTopUp[n]) \in Nat
  BY <1>2, ValueSetsNat
<1>6. NodeShard[n] \in Shards /\ NodeRewardAddress[n] \in RewardAddresses
  BY TopologyTyped
<1> QED
  BY <1>3, <1>4, <1>5, <1>6

(* The tuples UNCHANGED names are expanded everywhere below.               *)
USE DEF inputVars, engineVars, nodeVars, shardVars, callVars, addrVars, outVars

LEMMA PrepareIInv ==
  ASSUME IInv, NEW m \in {"create", "verify"}, prepareRewardsData(m)
  PROVE  IInv'
<1>1. clean /\ calls' = calls + 1 /\ calls < MaxCalls
  BY DEF prepareRewardsData
<1>2. /\ accumulatedRewards' \in Int /\ protocolSustainabilityValue' \in Int
      /\ mapBaseRewardsPerBlockPerValidator' \in [{} -> Nat]
  <2>1. [s \in {} |-> 0] \in [{} -> Nat]
    OBVIOUS
  <2> QED
    BY <1>1, <2>1 DEF clean
<1>3. CASE pc' = "idle"
  BY <1>1, <1>2, <1>3, ValueSetsNat DEF prepareRewardsData, IInv, TypeOK, MapBaseFilled,
                          Phases
<1>4. CASE pc' = "topUp"
  <2>1. initNodesRewardsInfo /\ todo' = Eligible
    BY <1>4 DEF prepareRewardsData
  <2>2. Eligible \subseteq Nodes
    BY DEF Eligible
  <2>3. /\ topUpStake' \in [Nodes -> Nat] /\ powerInShard' \in [Nodes -> Nat]
        /\ baseReward' \in [Nodes -> Nat] /\ topUpReward' \in [Nodes -> Nat]
        /\ fullRewards' \in [Nodes -> Nat]
        /\ topUpPerShard' \in [Shards -> Nat]
        /\ nodesPowerInShard' \in [Shards -> Nat]
    BY <2>1 DEF initNodesRewardsInfo
  <2>4. pc' \in Phases /\ ~(pc' = "base") /\ verdict' = "none"
    BY <1>4 DEF prepareRewardsData, Phases
  <2>5. todo' \subseteq Nodes \cup Shards \cup RewardAddresses
    BY <2>1, <2>2
  <2>6. mode' \in {"create", "verify"} /\ calls' \in 0..MaxCalls
    BY <1>1, ValueSetsNat DEF prepareRewardsData, IInv, TypeOK
  <2> QED
    BY <1>2, <2>3, <2>4, <2>5, <2>6 DEF prepareRewardsData, IInv, TypeOK,
       MapBaseFilled
<1> QED
  BY <1>3, <1>4 DEF prepareRewardsData

LEMMA TopUpIInv ==
  ASSUME IInv, NEW n \in Nodes, getTopUpForAllEligibleNodes(n)
  PROVE  IInv'
<1> DEFINE t == IF stakedTopUp[n] = NotFound THEN 0 ELSE stakedTopUp[n]
           s == NodeShard[n]
<1>1. t \in Nat /\ s \in Shards
      /\ validatorsInfo[n].numSelectedInSuccessBlocks \in Nat
  BY NodeFacts DEF IInv
<1>2. NodePowerInShard(n, t) \in Nat
  BY <1>1 DEF NodePowerInShard
<1>3. /\ topUpStake \in [Nodes -> Nat] /\ powerInShard \in [Nodes -> Nat]
      /\ topUpPerShard \in [Shards -> Nat]
      /\ nodesPowerInShard \in [Shards -> Nat]
      /\ todo \subseteq Nodes \cup Shards \cup RewardAddresses
  BY Zenon DEF IInv, TypeOK
<1>4. /\ topUpStake' \in [Nodes -> Nat] /\ powerInShard' \in [Nodes -> Nat]
      /\ topUpPerShard' \in [Shards -> Nat]
      /\ nodesPowerInShard' \in [Shards -> Nat]
      /\ todo' \subseteq Nodes \cup Shards \cup RewardAddresses
  BY <1>1, <1>2, <1>3 DEF getTopUpForAllEligibleNodes
<1>5. pc' = pc /\ pc = "topUp"
  BY DEF getTopUpForAllEligibleNodes
<1> QED
  BY <1>4, <1>5 DEF getTopUpForAllEligibleNodes, IInv, TypeOK, MapBaseFilled

LEMMA FillIInv ==
  ASSUME IInv, fillBaseRewardsPerBlockPerNode
  PROVE  IInv'
<1> DEFINE tr == ComputeTopUpRewards(rewardsForBlocks, totalTopUpEligible)
           br == rewardsForBlocks - tr
           perBlock == IF numberOfBlocks = 0 THEN 0 ELSE br \div numberOfBlocks
<1>1. rewardsForBlocks \in Nat /\ totalTopUpEligible \in Nat
      /\ numberOfBlocks \in Nat
  BY ValueSetsNat DEF IInv, TypeOK
<1>2. tr \in 0..rewardsForBlocks
  BY <1>1, TopUpRewardsBound
<1>3. br \in Nat /\ perBlock \in Nat
  BY <1>1, <1>2
<1>4. [s \in Shards |-> perBlock \div ConsensusGroupSize[s]] \in [Shards -> Nat]
  BY <1>3, TopologyTyped
<1>5. Eligible \subseteq Nodes
  BY DEF Eligible
<1>6. /\ topUpRewards' \in Nat /\ baseRewards' \in Nat /\ dust' \in Int
      /\ mapBaseRewardsPerBlockPerValidator' \in [Shards -> Nat]
      /\ pc' = "base" /\ todo' \subseteq Nodes
  BY <1>2, <1>3, <1>4, <1>5 DEF fillBaseRewardsPerBlockPerNode
<1> QED
  BY <1>6 DEF fillBaseRewardsPerBlockPerNode, IInv, TypeOK, MapBaseFilled,
     Phases

LEMMA BaseIInv ==
  ASSUME IInv, NEW n \in Nodes, computeBaseRewardsPerNode(n)
  PROVE  IInv'
<1>1. mapBaseRewardsPerBlockPerValidator \in [Shards -> Nat]
  BY DEF computeBaseRewardsPerNode, IInv, MapBaseFilled
<1>2. mapBaseRewardsPerBlockPerValidator[NodeShard[n]]
        * validatorsInfo[n].numSelectedInSuccessBlocks \in Nat
  BY <1>1, NodeFacts DEF IInv
<1> QED
  BY <1>2, SMTT(30) DEF computeBaseRewardsPerNode, IInv, TypeOK, MapBaseFilled

LEMMA StartTopUpIInv ==
  ASSUME IInv, startTopUpRewardsPerShard
  PROVE  IInv'
BY DEF startTopUpRewardsPerShard, IInv, TypeOK, MapBaseFilled, Phases

LEMMA ShardsPowerIInv ==
  ASSUME IInv, NEW s \in Shards, computeShardsPower(s)
  PROVE  IInv'
<1>1. topUpPerShard \in [Shards -> Nat] /\ blocksPerShard \in [Shards -> BlockValues]
      /\ totalPower \in Nat
  BY Zenon DEF IInv, TypeOK
<1>2. blocksPerShard[s] \in Nat
  <2>1. blocksPerShard[s] \in BlockValues
    BY <1>1
  <2> QED
    BY <2>1, ValueSetsNat
<1>3. topUpPerShard[s] * blocksPerShard[s] \in Nat
  BY <1>1, <1>2
<1> QED
  BY <1>3, SMTT(30) DEF computeShardsPower, IInv, TypeOK, MapBaseFilled

LEMMA PowerPerShardIInv ==
  ASSUME IInv, computeRewardsForPowerPerShard
  PROVE  IInv'
<1>1. powerPerShard \in [Shards -> Nat] /\ totalPower \in Nat
      /\ topUpRewards \in Nat
  BY Zenon DEF IInv, TypeOK
<1>2. \A s \in Shards : RewardsForPowerInShard(s) \in Nat
  BY <1>1 DEF RewardsForPowerInShard
<1>3. Eligible \subseteq Nodes
  BY DEF Eligible
<1> QED
  BY <1>2, <1>3, SMTT(30) DEF computeRewardsForPowerPerShard, IInv, TypeOK,
     MapBaseFilled, Phases

LEMMA TopUpRewardIInv ==
  ASSUME IInv, NEW n \in Nodes, computeTopUpRewardsPerNode(n)
  PROVE  IInv'
<1> DEFINE s == NodeShard[n]
<1>1. s \in Shards
  BY NodeFacts DEF IInv
<1>2. /\ nodesPowerInShard \in [Shards -> Nat]
      /\ topUpRewardsPerShard \in [Shards -> Nat]
      /\ powerInShard \in [Nodes -> Nat]
  BY Zenon DEF IInv, TypeOK
<1>3. (IF nodesPowerInShard[s] = 0 THEN 0
       ELSE (topUpRewardsPerShard[s] * powerInShard[n])
              \div nodesPowerInShard[s]) \in Nat
  BY <1>1, <1>2
<1>4. /\ topUpReward' \in [Nodes -> Nat] /\ dust' \in Int
      /\ todo' \subseteq Nodes \cup Shards \cup RewardAddresses
  <2>1. topUpReward \in [Nodes -> Nat] /\ dust \in Int
        /\ todo \subseteq Nodes \cup Shards \cup RewardAddresses
    BY Zenon DEF IInv, TypeOK
  <2> QED
    BY <1>3, <2>1 DEF computeTopUpRewardsPerNode
<1>5. pc' = pc /\ pc = "topUpReward"
  BY DEF computeTopUpRewardsPerNode
<1> QED
  BY <1>4, <1>5 DEF computeTopUpRewardsPerNode, IInv, TypeOK, MapBaseFilled

LEMMA AggregateIInv ==
  ASSUME IInv, aggregateBaseAndTopUpRewardsPerNode
  PROVE  IInv'
<1>1. baseReward \in [Nodes -> Nat] /\ topUpReward \in [Nodes -> Nat]
  BY Zenon DEF IInv, TypeOK
<1>2. fullRewards' \in [Nodes -> Nat]
  BY <1>1 DEF aggregateBaseAndTopUpRewardsPerNode
<1>3. miniBlocks' \in [Shards -> SUBSET RewardTx]
  BY DEF aggregateBaseAndTopUpRewardsPerNode, EmptyMiniBlocks
<1>4. /\ protocolRewards' \in [RewardAddresses -> Nat]
      /\ addrFees' \in [RewardAddresses -> Nat]
  BY DEF aggregateBaseAndTopUpRewardsPerNode
<1>5. todo' \subseteq Nodes /\ pc' = "rewardAddress"
  BY DEF aggregateBaseAndTopUpRewardsPerNode, Eligible
<1> QED
  BY <1>2, <1>3, <1>4, <1>5 DEF aggregateBaseAndTopUpRewardsPerNode, IInv, TypeOK,
     MapBaseFilled, Phases

LEMMA RewardAddressIInv ==
  ASSUME IInv, NEW n \in Nodes, computeValidatorInfoPerRewardAddress(n)
  PROVE  IInv'
<1> DEFINE a == NodeRewardAddress[n]
<1>1. a \in RewardAddresses /\ validatorsInfo[n].accumulatedFees \in Nat
  BY NodeFacts DEF IInv
<1>2. /\ fullRewards \in [Nodes -> Nat] /\ unassigned \in Nat
      /\ protocolRewards \in [RewardAddresses -> Nat]
      /\ addrFees \in [RewardAddresses -> Nat]
      /\ seenAddresses \subseteq RewardAddresses
      /\ todo \subseteq Nodes \cup Shards \cup RewardAddresses
  BY Zenon DEF IInv, TypeOK
<1>3. /\ unassigned' \in Nat
      /\ protocolRewards' \in [RewardAddresses -> Nat]
      /\ addrFees' \in [RewardAddresses -> Nat]
      /\ seenAddresses' \subseteq RewardAddresses
      /\ todo' \subseteq Nodes \cup Shards \cup RewardAddresses
  <2>1. fullRewards[n] \in Nat
    BY <1>2
  <2>2. todo' \subseteq Nodes \cup Shards \cup RewardAddresses
    BY <1>2 DEF computeValidatorInfoPerRewardAddress
  <2>3. CASE IsOffline(n)
    BY <2>1, <2>2, <2>3, <1>2 DEF computeValidatorInfoPerRewardAddress
  <2>4. CASE ~IsOffline(n)
    BY <1>1, <2>1, <2>2, <2>4, <1>2 DEF computeValidatorInfoPerRewardAddress
  <2> QED  BY <2>3, <2>4
<1>4. pc' = pc /\ pc = "rewardAddress"
  BY DEF computeValidatorInfoPerRewardAddress
<1> QED
  BY <1>3, <1>4 DEF computeValidatorInfoPerRewardAddress, IInv, TypeOK,
     MapBaseFilled

LEMMA StartAddIInv ==
  ASSUME IInv, startAddValidatorRewardsToMiniBlocks
  PROVE  IInv'
BY DEF startAddValidatorRewardsToMiniBlocks, IInv, TypeOK, MapBaseFilled,
   Phases

LEMMA AddRewardsIInv ==
  ASSUME IInv, NEW a \in RewardAddresses, addValidatorRewardsToMiniBlocks(a)
  PROVE  IInv'
<1> DEFINE v == protocolRewards[a] + addrFees[a]
<1>1. /\ protocolRewards \in [RewardAddresses -> Nat]
      /\ addrFees \in [RewardAddresses -> Nat]
      /\ miniBlocks \in [Shards -> SUBSET RewardTx]
      /\ dust \in Int /\ accumulatedRewards \in Int
      /\ todo \subseteq Nodes \cup Shards \cup RewardAddresses
  BY Zenon DEF IInv, TypeOK
<1>2. v \in Nat /\ ShardOf[a] \in Shards
  BY <1>1, TopologyTyped DEF Addresses
<1>3. [rcvAddr |-> a, value |-> v] \in RewardTx
  BY <1>2 DEF RewardTx, Addresses
<1>4. /\ miniBlocks' \in [Shards -> SUBSET RewardTx]
      /\ dust' \in Int /\ accumulatedRewards' \in Int
      /\ todo' \subseteq Nodes \cup Shards \cup RewardAddresses
  BY <1>1, <1>2, <1>3 DEF addValidatorRewardsToMiniBlocks
<1>5. pc' = pc /\ pc = "miniBlocks"
  BY DEF addValidatorRewardsToMiniBlocks
<1> QED
  BY <1>4, <1>5 DEF addValidatorRewardsToMiniBlocks, IInv, TypeOK,
     MapBaseFilled

LEMMA SustainabilityIInv ==
  ASSUME IInv, createProtocolSustainabilityRewardTransaction
  PROVE  IInv'
<1> DEFINE psv == protocolSustainabilityValue + dust + sustainabilityAmount
           mbs == [miniBlocks EXCEPT ![ShardOf[ProtocolAddress]] =
                     @ \cup {[rcvAddr |-> ProtocolAddress, value |-> psv]}]
<1>1. /\ protocolSustainabilityValue \in Int /\ dust \in Int
      /\ sustainabilityAmount \in SustainabilityValues
      /\ accumulatedRewards \in Int
      /\ miniBlocks \in [Shards -> SUBSET RewardTx]
      /\ mode \in {"create", "verify"}
  BY Zenon DEF IInv, TypeOK
<1>2. psv \in Int
  BY <1>1, ValueSetsNat
<1>3. [rcvAddr |-> ProtocolAddress, value |-> psv] \in RewardTx
  BY <1>2 DEF RewardTx, Addresses
<1>4. mbs \in [Shards -> SUBSET RewardTx]
  BY <1>1, <1>3, TopologyTyped DEF Addresses
<1>5. /\ protocolSustainabilityValue' \in Int /\ accumulatedRewards' \in Int
      /\ miniBlocks' \in [Shards -> SUBSET RewardTx]
      /\ body' \in [Shards -> SUBSET RewardTx] \cup {NoBody}
      /\ pc' = "idle"
  BY <1>1, <1>2, <1>4 DEF createProtocolSustainabilityRewardTransaction
<1>6. /\ header' \in [Shards -> SUBSET RewardTx] \cup {NoBody}
      /\ headerHonest' \in BOOLEAN
      /\ verdict' \in {"none", "error", "accept", "mismatch"}
  <2>1. CASE mode = "create"
    BY <1>4, <2>1 DEF createProtocolSustainabilityRewardTransaction, IInv,
       TypeOK
  <2>2. CASE mode # "create"
    BY <2>2 DEF createProtocolSustainabilityRewardTransaction, IInv, TypeOK
  <2> QED
    BY <2>1, <2>2
<1> QED
  BY <1>5, <1>6 DEF createProtocolSustainabilityRewardTransaction, IInv,
     TypeOK, MapBaseFilled, Phases

LEMMA TamperIInv ==
  ASSUME IInv, TamperHeader
  PROVE  IInv'
<1>1. header \in [Shards -> SUBSET RewardTx]
  BY DEF TamperHeader, IInv, TypeOK
<1>2. header' \in [Shards -> SUBSET RewardTx]
  <2>1. PICK s \in Shards : \E t \in header[s] :
          header' = [header EXCEPT ![s] =
                       (@ \ {t}) \cup {[t EXCEPT !.value = @ + 1]}]
    BY DEF TamperHeader
  <2>2. PICK t \in header[s] :
          header' = [header EXCEPT ![s] =
                       (@ \ {t}) \cup {[t EXCEPT !.value = @ + 1]}]
    BY <2>1
  <2>3. t \in RewardTx
    BY <1>1
  <2>4. [t EXCEPT !.value = @ + 1] \in RewardTx
    BY <2>3 DEF RewardTx
  <2> QED
    BY <1>1, <2>2, <2>4
<1> QED
  BY <1>2 DEF TamperHeader, IInv, TypeOK, MapBaseFilled

LEMMA NewEpochIInv ==
  ASSUME IInv, NewEpoch
  PROVE  IInv'
<1>1. /\ validatorsInfo' \in [Nodes -> ValidatorInfos]
      /\ stakedTopUp' \in [Nodes -> StakeValues \cup {NotFound}]
      /\ totalTopUpEligible' \in TotalTopUpValues
      /\ blocksPerShard' \in [Shards -> BlockValues]
      /\ numberOfBlocks' \in Nat
      /\ rewardsForBlocks' \in RewardValues
      /\ sustainabilityAmount' \in SustainabilityValues
  BY EpochInputsTyped DEF NewEpoch
<1>2. epoch' \in 0..MaxEpochs /\ calls' \in 0..MaxCalls
  BY ValueSetsNat DEF NewEpoch, IInv, TypeOK
<1>3. /\ body' \in [Shards -> SUBSET RewardTx] \cup {NoBody}
      /\ header' \in [Shards -> SUBSET RewardTx] \cup {NoBody}
      /\ headerHonest' \in BOOLEAN
      /\ verdict' \in {"none", "error", "accept", "mismatch"}
      /\ pc' = pc
  BY DEF NewEpoch
<1> QED
  BY <1>1, <1>2, <1>3 DEF NewEpoch, IInv, TypeOK, MapBaseFilled

LEMMA StutterIInv ==
  ASSUME IInv, UNCHANGED vars
  PROVE  IInv'
BY DEF vars, IInv, TypeOK, MapBaseFilled

(* The strengthened invariant is preserved by every step.                  *)
LEMMA NextIInv == IInv /\ [Next]_vars => IInv'
<1> SUFFICES ASSUME IInv, [Next]_vars PROVE IInv'
  OBVIOUS
<1>1. CASE \E m \in {"create", "verify"} : prepareRewardsData(m)
  BY <1>1, PrepareIInv
<1>2. CASE \E n \in Nodes : getTopUpForAllEligibleNodes(n)
  BY <1>2, TopUpIInv
<1>3. CASE fillBaseRewardsPerBlockPerNode
  BY <1>3, FillIInv
<1>4. CASE \E n \in Nodes : computeBaseRewardsPerNode(n)
  BY <1>4, BaseIInv
<1>5. CASE startTopUpRewardsPerShard
  BY <1>5, StartTopUpIInv
<1>6. CASE \E s \in Shards : computeShardsPower(s)
  BY <1>6, ShardsPowerIInv
<1>7. CASE computeRewardsForPowerPerShard
  BY <1>7, PowerPerShardIInv
<1>8. CASE \E n \in Nodes : computeTopUpRewardsPerNode(n)
  BY <1>8, TopUpRewardIInv
<1>9. CASE aggregateBaseAndTopUpRewardsPerNode
  BY <1>9, AggregateIInv
<1>10. CASE \E n \in Nodes : computeValidatorInfoPerRewardAddress(n)
  BY <1>10, RewardAddressIInv
<1>11. CASE startAddValidatorRewardsToMiniBlocks
  BY <1>11, StartAddIInv
<1>12. CASE \E a \in RewardAddresses : addValidatorRewardsToMiniBlocks(a)
  BY <1>12, AddRewardsIInv
<1>13. CASE createProtocolSustainabilityRewardTransaction
  BY <1>13, SustainabilityIInv
<1>14. CASE TamperHeader
  BY <1>14, TamperIInv
<1>15. CASE NewEpoch
  BY <1>15, NewEpochIInv
<1>16. CASE Finished \/ UNCHANGED vars
  BY <1>16, StutterIInv DEF Finished
<1> QED
  BY <1>1, <1>2, <1>3, <1>4, <1>5, <1>6, <1>7, <1>8, <1>9, <1>10, <1>11,
     <1>12, <1>13, <1>14, <1>15, <1>16 DEF Next

(***************************************************************************)
(* Every reachable state of the engine is well typed: in particular the   *)
(* top-up pool never exceeds RewardsToBeDistributedForBlocks, so the base  *)
(* pool and the base reward per block are never negative, and the         *)
(* accumulators the engine keeps between calls always hold numbers.       *)
(***************************************************************************)
THEOREM TypeCorrect == Spec => []TypeOK
<1>1. Init => IInv
  BY InitIInv
<1>2. IInv /\ [Next]_vars => IInv'
  BY NextIInv
<1>3. IInv => TypeOK
  BY DEF IInv
<1> QED
  BY <1>1, <1>2, <1>3, PTL DEF Spec
=============================================================================
