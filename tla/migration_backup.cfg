SPECIFICATION MigrationSpec
CONSTANTS
  Versions = {v1, v2}
  MaxGenerations = 3
  MaxMigrationStops = 1
  MigrationDeathPoints = {}
  MigrationFailPoints = {"copying", "copied", "backup-created", "transformed", "staged", "parted", "switched"}
  NoHome = NoHome
  Partial = Partial
CHECK_DEADLOCK FALSE
INVARIANTS
  HomeMatchesState
