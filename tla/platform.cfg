SPECIFICATION PlatformFairSpec
CONSTANTS
  Events = {e1, e2}
  Workers = {w1}
  EventPartitions = {p1}
  DLQPartitions = {d1}
  NoOwner = NoOwner
  MaxRetries = 1
  Faults = {"findEvent"}
  MaxCrashes = 1
  MaxRevocations = 0
  MaxShutdowns = 0
  MaxDisruptions = 1
  Keys = {k1}
  NoEntry = NoEntry
  TTL = 2
  IngestFaults = {"insert"}
  MaxInFlight = 2
  MaxTime = 1
  ServerCrashes = 1
INVARIANTS LookupsFindRows AbsorbedWithinTTL KeyProcessedOnce
PROPERTIES AnsweredAreSettled
