CONSTANTS
  i1 = i1 i2 = i2 i3 = i3 i4 = i4
  t1 = t1 t2 = t2
  service = service reviewer = reviewer
  ann = ann bob = bob
  None = None
  Ids = {i1, i2, i3}
  Threads = {t1, t2}
  Services = {service, reviewer}
  People = {ann, bob}
  Tiers = {4}
  MaxClock = 1
  Kind <- MCKind
  Ceremony <- MCCeremonyOfTier4
  Payload <- MCPayload
SPECIFICATION IssuanceSpec
SYMMETRY Symmetry
CHECK_DEADLOCK FALSE
INVARIANTS
  LineageOrdered
  IndexesAgree
  SignedNeverRefused
  CeremonyMet
