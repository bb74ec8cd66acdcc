CONSTANTS
  r1 = r1 r2 = r2 k1 = k1 k2 = k2 p1 = p1 p2 = p2
  None = None
  Roots = {r1, r2}
  Tokens = {k1, k2}
  Processes = {p1, p2}
  Scopes = {"ws", "a", "ab"}
  Workspace = "ws"
  Within <- MCWithin
  TextPrefix <- MCTextPrefix
  Types = {"read", "write", "commit", "spawn"}
  MintRequests <- MCMintRequests
  Proposals <- MCProposals
  ToolTypes = {"read", "spawn"}
  RootTtl = 2
  TokenTtl = 1
  MaxClock = 2
  MaxDispatches = 1
  MaxCalls = 2
  MaxAttempts = 2
SPECIFICATION GovernanceSpec
SYMMETRY Symmetry
CHECK_DEADLOCK FALSE
INVARIANTS
  GovernanceTypeOK
  EffectsAuthorised
  AuditSupported
  MintedTokensVerify
  QuotaBoundsPermits
