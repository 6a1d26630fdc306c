CONSTANTS
  Hub = {h1, h2}
  NoHub = NoHub
  MaxRetries = 3
  Retries = 2
  MaxFaults = 2
  MaxRequests = 2
  MaxQueue = 2
SPECIFICATION AllSpec
INVARIANTS NothingLeftOpen SubscribedWhenConnected LoneTwinAnswered RightServer TrueMeansAssigned OneRequestAtATime
PROPERTIES Terminates StaysConnected
