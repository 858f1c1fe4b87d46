SPECIFICATION Spec
CONSTANTS
  Repo = {r1, r2}
  Key = {k1, k2}
  Mode = {off, on}
  Off = off
  MaxUses = 3
  MaxRelease = 1
  None = none
  Torn = torn
SYMMETRY Same
INVARIANTS TypeOK StartsAgain SuccessIsKept PushesWhereShown TelemetryAsChosen LatestClaimHolds HalfInstalledIsSeen
