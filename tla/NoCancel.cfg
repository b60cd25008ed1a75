SPECIFICATION FeedFairSpec
CONSTANTS
  Users <- MCUsers
  Assets <- MCAssets
  OrderIds <- MCOrderIds
  OpenRows <- BothRows
  Opening <- Funded
  Base = "SOL"
  Quote = "USDC"
  Req <- SellAndBuy
  Faults = {"quote"}
  Cancelers = {}
  Cancelable = {}
  Engines = {e1, e2}
  Prices = {2, 3}
  BatchSize = 1
  MaxTicks = 3
  Workers = {w1, w2}
  QuoteOut = {0, 1}
INVARIANTS LockKept LockHasOrder FilledSettled InFlightHeld
PROPERTIES TriggeredResolved TickTriggers
CHECK_DEADLOCK FALSE
