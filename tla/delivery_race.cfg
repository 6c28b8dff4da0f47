SPECIFICATION DeliverySpec
CONSTANTS
  Hosts = {"omp"}
  DeliveryHosts = {p, q}
  Outputs = {o1}
  Decisions = {d1}
  MaxDeaths = 1
  Nothing = Nothing
CONSTRAINT NoLongPause
CHECK_DEADLOCK FALSE
INVARIANT OneDelivery
