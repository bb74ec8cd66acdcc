CONSTANTS
  root = root gen = gen r1 = r1 r2 = r2 r3 = r3
  desk = desk other = other
  t1 = t1 t2 = t2 t3 = t3
  ann = ann
  None = None
  Ids = {root, gen, r1, r2, r3}
  Payload <- MCPayload
  Stores = {desk, other}
  Threads = {t1, t2, t3}
  StoreOf <- MCStoreOf
  Sessions = {ann}
  SessionAt <- MCSessionAt
  Tiers = {4, 5}
  FreshTiers = {5}
  ReviewLimit = 1
  IdsFor <- MCIdsFor
  Requests <- MCRequests
SPECIFICATION DeskSpec
SYMMETRY Symmetry
CHECK_DEADLOCK FALSE
INVARIANTS
  ChainLinksCommitted
  FatigueBoundsReviews
PROPERTY
  CommitsOneAccepted
