SPECIFICATION Spec
CONSTANTS
  Requests = {r1, r2, r3, r4}
  Keys = {k1, k2}
  NoEntry = NoEntry
  TTL = 1
  Faults = {"get", "insert", "set"}
  MaxInFlight = 3
  MaxTime = 2
  MaxCrashes = 1
SYMMETRY Interchangeable
INVARIANTS TypeOK PublishedArePersisted RepliesAgree LiveEntryAbsorbs AnsweredIsPublished
