\* Two workers, batches of one and two per cleanup, a retention of a day.
CONSTANTS
  a1 = a1  a2 = a2  a3 = a3  w1 = w1  w2 = w2
  Artifacts = {a1, a2, a3}  Foreign = {a3}  Workers = {w1, w2}  NoWorker = NoWorker
  RetentionDays = 1  BatchSize = 1  MaxIterations = 2  MaxDay = 3  MaxFaults = 1
SPECIFICATION FairSpec
INVARIANTS TypeOK RetainedHaveObject DeletedLeaveNoObject
PROPERTIES ExpiredGoAway PendingSettle
