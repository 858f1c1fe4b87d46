SPECIFICATION Spec
CONSTANTS
  File = {f1, f2}
  a1 = a1
  a2 = a2
  plain = plain
  Archive = {a1, a2, plain}
  ZipName <- Named
  MaxUses = 5
  Absent = absent
INVARIANTS TypeOK OldOrNew ReportsAreTrue
CHECK_DEADLOCK FALSE
