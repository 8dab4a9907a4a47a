SPECIFICATION FairSpec
CONSTANTS
  Events = {e1}
  Workers = {w1, w2}
  EventPartitions = {p1, p2}
  DLQPartitions = {d1}
  NoOwner = NoOwner
  MaxRetries = 2
  Faults = {"findEvent", "setProcessing", "writeEvent", "setFailed", "publishNew"}
  MaxCrashes = 1
  MaxRevocations = 1
  MaxShutdowns = 0
  MaxDisruptions = 1
INVARIANTS TypeOK NoEventForgotten  RetryCountCoversAttempts
PROPERTY EventuallySettled
