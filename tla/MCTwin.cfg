CONSTANTS
  Retries = 2
  MaxFaults = 0
  MaxRequests = 2
  MaxQueue = 2
SPECIFICATION Spec
INVARIANT TwinAnswered
