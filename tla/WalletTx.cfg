SPECIFICATION Spec
CONSTANTS
  Users <- MCUsers
  Assets <- MCAssets
  OrderIds <- MCOrderIds
  OpenRows <- MCOpenRows
  Opening <- MCOpening
  Txs <- MCTxs
  Job <- MCJob
  After <- MCAfter
  Rank <- MCRank
  PoolSize = 2
INVARIANTS TypeOK OneHolder NoCircularWait
PROPERTY AtomicOperations
CHECK_DEADLOCK FALSE
