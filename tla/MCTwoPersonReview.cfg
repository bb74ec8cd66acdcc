CONSTANTS
  i1 = i1 i2 = i2 i3 = i3 i4 = i4
  t1 = t1 t2 = t2
  service = service reviewer = reviewer
  ann = ann bob = bob
  None = None
  Ids = {i1, i2, i3, i4}
  Threads = {t1}
  Services = {service, reviewer}
  People = {ann, bob}
  Tiers = {5}
  MaxClock = 0
  Kind <- MCKind
  Ceremony <- MCCeremonyOfTier5
  Payload <- MCPayload
SPECIFICATION IssuanceSpec
SYMMETRY Symmetry
CHECK_DEADLOCK FALSE
INVARIANT ReviewedByDistinctPeople
