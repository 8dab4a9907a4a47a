SPECIFICATION Spec
CONSTANTS
  Requests = {r1, r2, r3}
  Keys = {k1}
  NoEntry = NoEntry
  TTL = 1
  Faults = {}
  MaxInFlight = 1
  MaxTime = 1
  MaxCrashes = 0
SYMMETRY Interchangeable
INVARIANT AbsorbedWithinTTL
