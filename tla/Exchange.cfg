SPECIFICATION Spec
CONSTANTS
  Users <- MCUsers
  Assets <- MCAssets
  OrderIds <- MCOrderIds
  OpenRows <- BothRows
  Opening <- FundedSol
  Base = "SOL"
  Quote = "USDC"
  Req <- TwoSells
  Faults = {"db", "queue", "quote", "crash"}
  Cancelers = {c1}
  Cancelable = {1}
  Engines = {e1, e2}
  Prices = {1}
  BatchSize = 2
  Workers = {w1, w2}
  QuoteOut = {1}
SYMMETRY MCSymmetry
INVARIANTS TypeOK VersionsAgree ExclusiveExecution SwapSafety LocksAccounted CanceledReleased OneMessage AcceptedLock
PROPERTIES LifecycleSpec LostStays
CHECK_DEADLOCK FALSE
