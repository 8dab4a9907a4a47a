SPECIFICATION Spec
CONSTANTS
  Requests = {r1, r2}
  Keys = {k1}
  NoEntry = NoEntry
  TTL = 2
  Faults = {}
  MaxInFlight = 2
  MaxTime = 0
  MaxCrashes = 0
SYMMETRY Interchangeable
INVARIANT OnePublishedPerKey
