SPECIFICATION Spec
CONSTANTS
  a1 = a1
  a2 = a2
  b1 = b1
  b2 = b2
  b3 = b3
  b4 = b4
  other = other
  Requests <- MCRequests
  Keys <- MCKeys
  KeyOf <- MCKeyOf
  ContentOf <- MCContentOf
  Patient = {"a"}
  Failures = {"db", "crash"}
SYMMETRY MCSymmetry
INVARIANTS TypeOK ReplayFaithful CarriedOutOnce
PROPERTY NoneAfterSaved
CHECK_DEADLOCK FALSE
