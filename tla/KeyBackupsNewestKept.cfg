SPECIFICATION Spec
CONSTANTS
  Key = {k1, k2}
  Configured = k1
  Subkeyed = {k2}
  Archive = {a1}
  MaxBackups = 2
  MaxAside = 3
  MaxUses = 3
  Absent = absent
  Unreadable = unreadable
PROPERTIES NewestBackupsKept
CHECK_DEADLOCK FALSE
