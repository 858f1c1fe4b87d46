SPECIFICATION Spec
CONSTANTS
  m1 = m1
  m2 = m2
  Entry = {e1}
  Value = {v0, v1}
  SumFile = sum
  Absent = absent
  Marker = marker
  Machine = {m1, m2}
  Conduct <- ForcedOrStopped
  Seed = v0
  MaxVersion = 4
  MaxCommits = 8
  MaxWrites = 2
INVARIANTS TypeOK VersionsFollowHistory PublishedSumMatches TagNamesItsVersion ConflictsAreShown TagIsPublished
PROPERTIES LocalCommitsKept RewrittenOnlyByForce HistorySpec
