\* One call with batches of two, the run.end perhaps lost: what is accepted in the
\* end, and what closes.
CONSTANTS
  r1 = r1  s1 = s1  s2 = s2  t1 = t1  n1 = n1  err = err
  noon = noon  midnight = midnight  today = today  tomorrow = tomorrow
  q1 = q1  q2 = q2  p1 = p1
  Runs = {r1}  Suites = {s1, s2}  Tests = {t1}  Names = {n1}  Errors = {err}
  Times = {noon, midnight}  Days = {today, tomorrow}
  Requests = {q1}  Procs = {p1}
  Events <- Plain  Outboxes <- NoneOrEndLost  DayOf <- MCDayOf  Host <- MCHost
  BatchSize = 2  MaxFaults = 0  MaxCrashes = 1
SPECIFICATION FairSpec
PROPERTIES StoredIsAccepted OpenRunsClose
CHECK_DEADLOCK FALSE
