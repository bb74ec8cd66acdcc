CONSTANTS
  i1 = i1 i2 = i2 i3 = i3
  c1 = c1 v1 = v1 v2 = v2
  None = None
  Ids = {i1, i2}
  Revokers = {c1}
  Verifiers = {v1, v2}
  MaxClock = 1
  MaxVerifies = 2
  Payload <- MCPayload
SPECIFICATION VerifierSpec
SYMMETRY Symmetry
CHECK_DEADLOCK FALSE
INVARIANTS
  CacheLagsOneRevocation
  WalkNeverMissesPredecessor
