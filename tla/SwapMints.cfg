SPECIFICATION Spec
CONSTANTS
  OrderIds = {1}
  Base = "SOL"
  Quote = "USDC"
  Scale = 4
  Part = 2
  BaseUnits <- MCBaseUnits
  Asked <- MCAsked
  Outs = {3}
  Opening <- MCOpening
INVARIANT Backed
CHECK_DEADLOCK FALSE
