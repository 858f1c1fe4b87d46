SPECIFICATION Spec
CONSTANTS
  Secret = {s1, s2}
  Other = {o1}
  Empty = Empty
  MaxLeases = 2
INVARIANTS TypeOK NewestStaysActive
PROPERTIES ThreadsEnd
