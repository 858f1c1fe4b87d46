SPECIFICATION Spec
CONSTANTS
  m1 = m1
  m2 = m2
  Entry = {e1}
  Value = {v0, v1}
  SumFile = sum
  Absent = absent
  Marker = marker
  Machine = {m1, m2}
  Conduct <- Orderly
  Seed = v0
  MaxVersion = 5
  MaxCommits = 9
  MaxWrites = 2
SYMMETRY Machines
PROPERTIES ConflictsResolvedByUser
