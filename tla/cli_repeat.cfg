SPECIFICATION CliSpec
CONSTANTS
  Terminals = {m1, m2}
  Commands = {"task start"}
  MaxRequests = 1
  MaxMoves = 0
  MaxFaults = 1
  Nobody = Nobody
  Gone = Gone
  NoOperation = NoOperation
INVARIANT RepeatsAreRecovered
