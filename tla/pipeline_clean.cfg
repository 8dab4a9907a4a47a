SPECIFICATION Spec
CONSTANTS
  Events = {e1}
  Workers = {w1, w2}
  EventPartitions = {p1, p2}
  DLQPartitions = {d1}
  NoOwner = NoOwner
  MaxRetries = 3
  Faults = {"findEvent", "setProcessing", "writeEvent", "setProcessed", "incrementRetry", "setFailed", "commit", "publishNew"}
  MaxCrashes = 0
  MaxRevocations = 0
  MaxShutdowns = 0
  MaxDisruptions = 1
SYMMETRY Interchangeable
INVARIANT CountedOnce
PROPERTY ImplementsLifecycle
