SPECIFICATION Spec
CONSTANTS
  Thread = {user, lease}
  User = user
  Parent = Parent
  Cap = 1
  MaxInput = 2
  MaxOutput = 2
  MaxRuns = 1
INVARIANTS TypeOK OutputCaptured InputDelivered
PROPERTIES RunsReturn
