SPECIFICATION ServicesSpec
CONSTANTS
  Workspace = w
  Runs = {r1}
  Commands = {c1, c2}
  Connections = {x, y}
  AuthorityKeys = {k1}
  Kinds = {"bootstrap", "runGenesis", "progress", "consume", "grants"}
  BatchSizes = {1}
  MaxEvents = 2
  MaxCrashes = 1
  NoHash = NoHash
  NoCommand = NoCommand
  NoConnection = NoConnection
  NoRequest = NoRequest
  OtherTasks = {b}
  Source = a
  Workflows = {x, y}
  MaxPlans = 2
  MaxItems = 1
  MaxTries = 1
  MaxEdges = 1
  Releases = {1, 2, 3}
  MaxGrants = 3
  MaxStops = 2
  DeathPoints = {"staging-install", "bundled", "placed", "marked-install", "installed", "staging", "written", "staged", "cleared", "moved", "prior-retained", "switched", "activated", "granted", "marked", "recorded", "healthy", "failing", "compensating", "emptied", "restored", "remarked", "unstaged", "killing", "killed", "disabled", "revoked", "cleaned", "unmarked"}
  FailPoints = {"staging", "written", "staged", "cleared", "moved", "prior-retained", "switched", "activated", "granted", "marked", "recorded", "healthy", "failing", "compensating", "emptied", "restored", "remarked", "unstaged"}
  Missing = Missing
  Installers = {x, y}
  MaxAppends = 3
  MaxInstallerDeaths = 2
  Versions = {v1, v2}
  MaxGenerations = 3
  MaxMigrationStops = 4
  MigrationDeathPoints = {"begun", "copied", "backup-created", "transformed", "staged", "parted", "switched", "complete", "failing", "compensating", "emptied", "restoring", "restored", "compensated", "recovering"}
  MigrationFailPoints = {"copied", "backup-created", "transformed", "staged", "parted", "switched", "complete", "failing", "compensating", "emptied", "restoring", "restored", "compensated", "recovering"}
  NoHome = NoHome
  Partial = Partial
  ReceiptGenerations = {1, 2}
  OwnHandle = OwnHandle
  OtherHandle = OtherHandle
  NoHandle = NoHandle
  MaxRunEvents = 2
  MaxIssued = 1
  Tokens = {t1, t2}
  Backups = {b1, b2}
  Original = Original
  Fresh = Fresh
  Processes = {o}
  MaxRestoreCrashes = 3
  None = None
  NoToken = NoToken
  Daemons = {x, y}
  NoDaemon = NoDaemon
  MaxLaunches = 5
  MaxKills = 3
  JoinTasks = {j1, j2}
  Policies = {{"receipt"}}
  MaxJoinEvents = 3
  MaxJoinEdges = 1
  NoJoin = NoJoin
  Members = {m1}
  PolicyEffects = {"accepted", "approval_required"}
  Proposals = {p1, p2}
  Admitters = {x, y}
  MaxPins = 2
  MaxHeadMoves = 2
  Broken = Broken
  Unsealed = Unsealed
  NoSnapshot = NoSnapshot
  NoFork = NoFork
CONSTRAINT ServicesBounds
SYMMETRY ServicesSymmetry
CHECK_DEADLOCK FALSE
INVARIANTS
  NoGrantUpdateLost
  AnswersAreDurable
  BoundGraphsHold
  WorkIsReady
  GenerationsAreKept
  JournalKeepsRecords
  HomeIsKept
  UnitIsRecoverable
  CapabilityIsNotLost
  EndpointLeadsToServer
  JoinIsStable
  AcceptedAsJudged
PROPERTIES
  CommittedIsImmutable
  NoStaleCommit
  ArbitrationAgrees
  SwitchIsAtomic
  RecoveryNeverGetsStuck
