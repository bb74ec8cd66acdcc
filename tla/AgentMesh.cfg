CONSTANTS
  None = None
  MaxAgents = 3
  Limits = {1, 2}
  WatchdogLimit = None
SPECIFICATION MeshSpec
INVARIANTS
  TableMirrorsMesh
  ListsMatchParents
  DepthCountsSpawns
  RunningWasAttested
  KillMissesNobody
PROPERTIES
  StatusOnlyAdvances
