SPECIFICATION ReceiptSpec
CONSTANTS
  ReceiptGenerations = {1, 2}
  OwnHandle = OwnHandle
  OtherHandle = OtherHandle
  NoHandle = NoHandle
  MaxRunEvents = 2
  MaxIssued = 1
CHECK_DEADLOCK FALSE
PROPERTIES
  CancellationWaits
