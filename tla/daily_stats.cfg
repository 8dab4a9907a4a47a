SPECIFICATION Spec
CONSTANTS
  Events = {e1, e2, e3}
  Groups = {g1, g2}
  Writers = {w1, w2}
  NoRow = NoRow
  LastDay = 2
  MaxWrites = 2
  Faults = {"insert", "view"}
  QueryDays <- MCQueryDays
  MaxRange = 2
  MaxDuration = 4
SYMMETRY Interchangeable
INVARIANTS TypeOK AnswersExact StatsCoverLog
PROPERTY PastDaysStand
