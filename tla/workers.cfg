SPECIFICATION WorkersSpec
CONSTANTS
  Dispatchers = {p, q}
  Handles = {h1}
  LeaseLength = 1
  MaxTime = 1
  MaxRecordEvents = 4
  MaxRunHeads = 1
  NoLease = NoLease
  NoRow = NoRow
  NoCopy = NoCopy
  Unset = Unset
  Digests = {d1, d2}
  Events = {e1}
  Pins = {i}
  Processes = {p, q}
  MaxCrashes = 2
  NoDigest = NoDigest
  NoOwner = NoOwner
  TaskHosts = {"pi", "omp", "claude", "codex"}
  TaskSessions = {p, q}
  MaxDaemonDeaths = 1
  Hosts = {"pi", "omp", "claude", "codex"}
  DeliveryHosts = {p, q}
  Outputs = {d1, d2}
  Decisions = {d3}
  MaxDeaths = 1
  Nothing = Nothing
  SessionHosts = {"omp", "claude", "codex"}
  Capabilities = {c1, c2}
  Sessions = {p, q}
  Entries = {e1}
  Claims = {k1}
  MaxRestarts = 2
  Absent = Absent
  Evidence = {v1}
  WorkReceipts = {p, q}
  Strangers = {x1}
  ResumeTokens = {u1}
  MaxCalls = 2
  MaxWorkers = 2
  MaxRunSequence = 1
  Terminals = {p, q}
  Commands = {"run create", "task add", "task start", "enable-execution"}
  MaxRequests = 2
  MaxMoves = 1
  MaxFaults = 3
  Nobody = Nobody
  Gone = Gone
  NoOperation = NoOperation
SYMMETRY WorkersSymmetry
CONSTRAINT WorkersBounds
CHECK_DEADLOCK FALSE
INVARIANTS
  ReferencedBytesPresent
  CollectedIsUnreferenced
  CallsAreFenced
  NativeRunsOnce
  OutcomeIsOnRecord
  OneDelivery
  SessionStaysInItsClaim
  BindingsAreDurable
  ProposalNamesWhatWasAccepted
  AppendsAreRecovered
PROPERTIES
  DeletionIsCommittedFirst
  DispatchNeverGoesBack
