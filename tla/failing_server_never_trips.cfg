SPECIFICATION Spec
CONSTANTS
  Callers = {c1}
  MaxFailures = 2
  OpenTimeout = 1
  HalfOpenProbes = 1
  MaxRetries = 1
  Cancellable = {}
  BaseDelay = 1
  MaxDelay = 2
  Width = 4
INVARIANT FailingServerTrips
