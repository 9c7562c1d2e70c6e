\* Two calls, one event each: every interleaving of transactions and notifications.  Three
\* transactions whose statements interleave, of the six events of TwoRuns.
CONSTANTS
  r1 = r1  s1 = s1  s2 = s2  t1 = t1  n1 = n1  err = err
  noon = noon  midnight = midnight  today = today  tomorrow = tomorrow
  q1 = q1  q2 = q2  p1 = p1
  x1 = x1  x2 = x2  x3 = x3  r2 = r2  t2 = t2  none = none
  Runs = {r1}  Suites = {s1, s2}  Tests = {t1}  Names = {n1}  Errors = {err}
  Times = {noon, midnight}  Days = {today, tomorrow}
  Requests = {q1, q2}  Procs = {p1}
  Events <- TwoEnds  Outboxes <- AllTwoEnds  DayOf <- MCDayOf  Host <- MCHost
  Transactions = {x1, x2, x3}  TxnRuns = {r1, r2}  Works <- TwoRuns  Scan <- InOrderOfIds
  NoErrorGroup = none
  BatchSize = 1  MaxFaults = 0  MaxCrashes = 1
SPECIFICATION MCSpec
SYMMETRY Symmetric
INVARIANTS TypeOK CountersMatchInbox RowsReflectInbox DailyStatsCountRunsOnce
  CountsWillBeAnnounced
PROPERTIES ImplementsLedger TransactionsHold
CHECK_DEADLOCK FALSE
