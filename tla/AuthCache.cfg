SPECIFICATION Spec
CONSTANTS
  r1 = r1
  r2 = r2
  r3 = r3
  r4 = r4
  key = key
  junk = junk
  Requests <- MCRequests
  Keys <- MCKeys
  KeyOf <- MCKeyOf
  TTL = 2
  MaxLookup = 1
  MaxTime = 4
  MaxVersion = 2
SYMMETRY MCSymmetry
INVARIANTS
  TypeOK
  RefusedWasUnknown
  EntriesExpire
PROPERTIES
  StalenessBounded
