CONSTANTS
  i1 = i1
  i2 = i2
  Processes = {p1, p2}
  Versions = {v1, v2}
  Items <- MCItems
  Contents <- MCContents
  TTL = 2
  MaxTime = 3
SPECIFICATION Spec
SYMMETRY Symmetry
INVARIANTS
  TypeOK
  ApprovedAtQuotedPrice
PROPERTY
  StalenessIsBounded
