SPECIFICATION Spec
CONSTANTS
  Workspace = w
  Runs = {r1, r2}
  Commands = {c1, c2, c3}
  Connections = {a, b}
  AuthorityKeys = {k1}
  Kinds = {"bootstrap", "runGenesis", "taskCreate", "execution", "admission"}
  BatchSizes = {1, 2}
  MaxEvents = 2
  MaxCrashes = 1
  NoHash = NoHash
  NoCommand = NoCommand
  NoConnection = NoConnection
  NoRequest = NoRequest
SYMMETRY Symmetry
INVARIANTS
  TypeOK
  StreamsAuthenticate
  ResultsMatchEvents
PROPERTIES
  ImplementsLedger
