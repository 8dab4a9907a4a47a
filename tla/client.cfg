SPECIFICATION FairSpec
CONSTANTS
  Callers = {c1, c2}
  MaxFailures = 2
  OpenTimeout = 2
  HalfOpenProbes = 2
  MaxRetries = 2
  Cancellable = {c1, c2}
  BaseDelay = 3
  MaxDelay = 5
  Width = 4
INVARIANTS TypeOK TripsInTime DelaysBounded
PROPERTIES FailsFast TransitionsJustified EveryCallReturns Recovers
