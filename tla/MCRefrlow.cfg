CONSTANTS
  mod = mod note = note
  None = None
  Files = {mod, note}
  Contained = {mod, note}
  Excluded = {}
  Included = {mod, note}
  Python = {mod}
  Named = {mod, note}
  Shallow = {mod}
  MaxHits = 2
  Contents <- MCContents
  Requests <- MCRequests
  Registered = {"file_miner", "grep_miner", "ast_miner", "summarizer"}
  MaxDispatches = 3
  MaxTokensPerTurn = 2
  ClassResults = 3
  MaxChainDepth = 2
  MaxRequests = 3
  MaxTurns = 2
  MaxEdits = 1
SPECIFICATION RefrlowSpec
CHECK_DEADLOCK FALSE
INVARIANTS
  OkMeansComplete
  ChainBounded
PROPERTY
  EveryDispatchReported
