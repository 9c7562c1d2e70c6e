\* A queue of two events and one retry: overflow, give-ups and late requests.  Two tests of a
\* serial group, each played three times at most.
CONSTANTS
  runStart = runStart  suiteStart = suiteStart
  testEnd = testEnd  artifactUpload = artifactUpload  RunEnd = runEnd
  Events = {runStart, suiteStart, testEnd, artifactUpload, runEnd}
  Bursts <- OneTest  Attachments <- WithTestEnd
  MaxQueueSize = 2  MaxRetries = 1
  Tests = {"passing", "failing"}  Serial = {"passing", "failing"}  ExpectedOf <- OneFails
  Retries = 2
SPECIFICATION MCSpec
INVARIANTS Typed EveryEventAccounted SentInOrder DrainedIsSettled PlayedIsReported
PROPERTIES OnEndResolves EventsAreSettled
CHECK_DEADLOCK FALSE
