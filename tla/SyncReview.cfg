SPECIFICATION ReviewSpec
CONSTANTS
  Entry = {e1, e2}
  Value = {v0, v1}
  SumFile = sum
  Absent = absent
  Marker = marker
  MaxVersion = 2
  MaxKeys = 3
INVARIANTS ConflictsDecided OneSidedChangesSurvive
