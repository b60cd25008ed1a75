SPECIFICATION FairSpec
CONSTANTS
  Users <- MCUsers
  Assets <- MCAssets
  OrderIds <- MCOrderIds
  OpenRows <- BothRows
  Opening <- FundedSol
  Base = "SOL"
  Quote = "USDC"
  Req <- TwoSells
  Faults = {"crash"}
  Cancelers = {}
  Cancelable = {}
  Engines = {e1}
  Prices = {1}
  BatchSize = 2
  Workers = {w1, w2}
  QuoteOut = {1}
PROPERTY TriggeredResolved
CHECK_DEADLOCK FALSE
