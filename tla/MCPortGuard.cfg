SPECIFICATION Spec
CONSTANTS
  c1 = c1
  c2 = c2
  c3 = c3
  Calls <- MCCalls
  MaxInFlight = 2
  Retries = 1
  Timeout = 2
  FailureThreshold = 2
  FailureWindow = 4
  RollingWindow = 3
  RatePercent = 60
  OpenInterval = 3
  MaxOpen = 5
  HalfOpenTrials = 2
INVARIANTS
  PortInv
  TrialsAccounted
  BelowThreshold
PROPERTIES
  TurnsAreEarned
  CallsEnd
  Recovers
