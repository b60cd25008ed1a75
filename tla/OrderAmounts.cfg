SPECIFICATION Spec
CONSTANTS
  OrderIds = {1, 2, 3}
  Base = "SOL"
  Quote = "USDC"
  Scale = 4
  Part = 2
  BaseUnits <- MCBaseUnits
  Asked <- MCAsked
  Outs = {3}
  Opening <- MCOpening
INVARIANTS TypeOK BooksFollow ExactLocks SwapWithinLock
CHECK_DEADLOCK FALSE
