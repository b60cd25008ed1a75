SPECIFICATION Spec
CONSTANTS
  Users <- MCUsers
  Assets <- MCAssets
  OrderIds <- MCOrderIds
  OpenRows <- BothRows
  Opening <- FundedSol
  Base = "SOL"
  Quote = "USDC"
  Req <- TwoSells
  Faults = {"crash"}
  Cancelers = {}
  Cancelable = {}
  Engines = {e1}
  Prices = {1}
  BatchSize = 2
  Workers = {w1, w2}
  QuoteOut = {1}
INVARIANT LockHasOrder
CHECK_DEADLOCK FALSE
