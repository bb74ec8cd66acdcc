CONSTANTS
  p1 = p1 p2 = p2 i1 = i1
  None = None
  Torn = Torn
  Nodes <- MCNodes
  Processes = {p1, p2}
  Intents = {i1}
  MaxFacts = 4
  MaxPerIntent = 4
  MaxTotal = 4
  Retention <- MCRetention
  Days = {0, 4}
  WriteTypes = {"working"}
  Targets = {"OBSERVED", "VALIDATED", "EXECUTABLE", "QUARANTINED"}
  MaxCalls = 2
  Outcomes <- MCOutcomes
  OutcomeKinds <- MCOutcomeKinds
  MinOutcomes = 2
  MinKind = 2
  Interval = 1
  MaxPatterns = 3
  Starts <- MCStarts
SPECIFICATION LearningSpec
SYMMETRY Symmetry
CHECK_DEADLOCK FALSE
INVARIANTS
  ContradictionsMutual
  LineageRecorded
  PatternsRestOnOutcomes
