CONSTANTS
  k1 = k1
  k2 = k2
  v1 = v1
  v2 = v2
  Keys <- MC_Keys
  Vals <- MC_Vals
  UnitTypes <- MC_NonceUnits
  TransactionUnit = 0
  MiniBlockUnit = 1
  UnsignedTransactionUnit = 5
  RewardTransactionUnit = 6
  MetaHdrNonceHashDataUnit = 7
  TxLogsUnit = 11
  ShardHdrNonceHashDataUnit = 18
  Missing = Missing
  NotFound = NotFound
  MaxOps = 3
SPECIFICATION Spec
INVARIANT UnitsIsolated
