CONSTANTS
  f = f g = g c1 = c1 s1 = s1 s2 = s2
  Absent = Absent Torn = Torn None = None
  Sessions = {s1, s2}
  Paths = {f, g, "f.deleted"}
  Marker <- MCMarker
  Contents = {c1}
  Original <- MCOriginal
  PermittedWrites = {f, "f.deleted"}
  PermittedDeletes = {g}
  PermittedCommits <- MCCommits
  MaxEntries = 2
SPECIFICATION ForgeSpec
SYMMETRY Symmetry
INVARIANTS
  OnlyPermittedChanges
  StagedIsJournaled
PROPERTIES
  CommitPublishes
