SPECIFICATION InstallSpec
CONSTANTS
  Releases = {1, 2}
  MaxGrants = 3
  MaxStops = 1
  DeathPoints = {"moved"}
  FailPoints = {"staging", "written", "staged", "cleared", "moved", "prior-retained", "switched", "activated", "granted", "marked", "recorded", "healthy"}
  Missing = Missing
CHECK_DEADLOCK FALSE
INVARIANTS
  PriorIsKept
