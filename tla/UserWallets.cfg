SPECIFICATION UserWalletsSpec
CONSTANTS
  Users <- MCUsers
  Assets <- MCAssets
  OrderIds <- MCOrderIds
  OpenRows <- MCOpenRows
  Opening <- MCOpening
  Amounts = {1, 2}
  MaxBalance = 2
  MaxEntries = 2
  Names <- MCNames
  NoName = "none"
  FirstNames <- MCFirstNames
  Handlers = {1, 2}
  LookupFails = TRUE
  Traded <- MCTraded
INVARIANTS TypeOK BooksMatch NameIsSpent
PROPERTIES NoOverdraft DeletedFrozen
