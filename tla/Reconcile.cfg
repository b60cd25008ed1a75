SPECIFICATION Spec
CONSTANTS
  Users <- MCUsers
  Assets <- MCAssets
  OrderIds <- MCOrderIds
  OpenRows <- NoRows
  Opening <- NoOpening
  Amounts = {1, 2}
  MaxBalance = 3
  MaxEntries = 2
INVARIANT ReconcileBalanced
