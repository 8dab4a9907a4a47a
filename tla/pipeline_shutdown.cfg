SPECIFICATION Spec
CONSTANTS
  Events = {e1}
  Workers = {w1, w2}
  EventPartitions = {p1}
  DLQPartitions = {d1}
  NoOwner = NoOwner
  MaxRetries = 2
  Faults = {"findEvent", "setProcessing", "duplicate"}
  MaxCrashes = 0
  MaxRevocations = 1
  MaxShutdowns = 1
  MaxDisruptions = 1
SYMMETRY Interchangeable
INVARIANTS AttemptsBounded ProcessedWasWritten
