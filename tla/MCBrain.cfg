CONSTANTS
  p1 = p1 p2 = p2
  t1 = t1
  None = None
  MaxNodes = 3
  Topics = {t1}
  Processes = {p1, p2}
  Writes <- MCWrites
  Outcomes = {"success"}
  MinConfidences = {9}
  MaxRefs = 1
  MaxCommands = 4
SPECIFICATION BrainSpec
SYMMETRY Symmetry
CHECK_DEADLOCK FALSE
INVARIANTS
  DeadEdgesPruned
  SolvesJoinsProblemAndSolution
  CountedSolutionsRecorded
