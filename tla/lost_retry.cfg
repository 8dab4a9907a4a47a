SPECIFICATION Spec
CONSTANTS
  Events = {e1}
  Workers = {w1}
  EventPartitions = {p1}
  DLQPartitions = {d1}
  NoOwner = NoOwner
  MaxRetries = 2
  Faults = {"findEvent", "publishRetry"}
  MaxCrashes = 0
  MaxRevocations = 0
  MaxShutdowns = 0
  MaxDisruptions = 1
INVARIANT NoEventForgotten
