\* Two epochs of two calls each: the engine object and its accumulators carried from one snapshot to the next.
CONSTANTS
  s0 = s0
  meta = meta
  n1 = n1
  n2 = n2
  n3 = n3
  a1 = a1
  a2 = a2
  pa = pa
  Shards <- MC_Shards
  Meta = meta
  Nodes <- MC_Nodes
  RewardAddresses <- MC_RewardAddresses
  ProtocolAddress = pa
  NodeShard <- MC_NodeShard
  NodeRewardAddress <- MC_NodeRewardAddress
  ShardOf <- MC_ShardOf
  ConsensusGroupSize <- MC_ConsensusGroupSize
  TopUpFactorNum = 1
  TopUpFactorDen = 2
  TopUpGradientPoint = 4
  DelegationEnabled = FALSE
  NotFound = NotFound
  NoBody = NoBody
  ListValues = {"eligible"}
  SuccessValues = {1}
  SelectedValues = {1}
  FeeValues = {1}
  WaitingFeeValues = {0}
  StakeValues = {2}
  BlockValues = {1}
  RewardValues = {20}
  TotalTopUpValues = {0, 4}
  SustainabilityValues = {3}
  MaxEpochs = 1
  MaxCalls = 2
INIT Init
NEXT Next
INVARIANTS
  ValueConservation
  TopUpSplitMatchesReference
