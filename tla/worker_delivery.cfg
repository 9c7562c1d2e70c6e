\* One call with batches of three: the priority order within a batch, failures,
\* a crash, and what is accepted in the end.
CONSTANTS
  r1 = r1  s1 = s1  s2 = s2  t1 = t1  n1 = n1  err = err
  noon = noon  midnight = midnight  today = today  tomorrow = tomorrow
  q1 = q1  q2 = q2  p1 = p1
  Runs = {r1}  Suites = {s1, s2}  Tests = {t1}  Names = {n1}  Errors = {err}
  Times = {noon, midnight}  Days = {today, tomorrow}
  Requests = {q1}  Procs = {p1}
  Events <- Mixed  Outboxes <- AllMixed  DayOf <- MCDayOf  Host <- MCHost
  BatchSize = 3  MaxFaults = 1  MaxCrashes = 1
SPECIFICATION Spec
INVARIANTS FlakyStatsMatchInbox
PROPERTIES ConfirmedIsAccepted
CHECK_DEADLOCK FALSE
