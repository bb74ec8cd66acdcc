CONSTANTS
  i1 = i1 i2 = i2 i3 = i3
  w1 = w1 r1 = r1 r2 = r2
  None = None
  Ids = {i1, i2, i3}
  Threads = {w1}
  Revokers = {r1, r2}
  MaxCascades = 2
  Payload <- MCPayload
SPECIFICATION CascadeSpec
SYMMETRY Symmetry
CHECK_DEADLOCK FALSE
INVARIANTS
  VersionCountsEntries
  CascadeComplete
  DerivativeHasRevokedOrigin
PROPERTIES
  RevokeIsAtomic
  ProvenanceForever
