SPECIFICATION Spec
CONSTANTS
  Secret = {s1}
  Other = {o1}
  Empty = Empty
  MaxLeases = 2
  MaxLives = 2
  MaxElders = 1
  MaxRefusals = 1
INVARIANTS TypeOK
PROPERTIES CopiedIsCleared RecordOutlivesItem
