----------------------------- MODULE Artifacts ------------------------------
(***************************************************************************)
(* The files of a test, from the reporter that uploads them to the daily   *)
(* cleanup.  The file is an object in S3; an event, artifact.upload, makes *)
(* the worker insert its row.  The cleanup deletes the objects of expired  *)
(* rows and then the rows, in one transaction that spans all batches, so   *)
(* the rows come back when it fails and the objects do not.                *)
(***************************************************************************)
EXTENDS Integers, FiniteSets

CONSTANTS Artifacts,
          Foreign,       \* those whose event names a path of another project
          Workers,       \* the processes that run the cron job
          NoWorker,
          RetentionDays, \* ARTIFACT_RETENTION_DAYS
          BatchSize, MaxIterations,
          MaxDay,        \* bound: the last day
          MaxFaults      \* bound: failures of S3, the database or the worker

ASSUME ArtifactsAssumption ==
  /\ Foreign \subseteq Artifacts /\ NoWorker \notin Workers
  /\ RetentionDays \in Nat \ {0} /\ BatchSize \in Nat \ {0} /\ MaxIterations \in Nat \ {0}
  /\ MaxDay \in Nat /\ MaxFaults \in Nat

VARIABLES
  today,
  upload,   \* [Artifacts -> how far the file and its event are]
  late,     \* files the reporter has given up, whose PUT is still on its way
  objects,  \* the files in S3
  rows,     \* [Artifacts -> the day of created_at, or NoRow]: what is committed
  inserts,  \* [Artifacts -> the day its transaction in the worker began]
  lock,     \* pg_try_advisory_xact_lock: the worker whose cleanup runs
  cleanup,  \* that cleanup
  faults

vars == <<today, upload, late, objects, rows, inserts, lock, cleanup, faults>>

Days  == 0 .. MaxDay
NoRow == -1
NoCleanup == [step |-> "idle", day |-> 0, batch |-> {}, deleted |-> {}, iterations |-> 0]

TypeOK ==
  /\ today \in Days /\ faults \in 0 .. MaxFaults
  /\ upload \in [Artifacts -> {"new", "presigned", "given up", "queued", "lost", "pending",
                             "found", "handled"}]
  /\ late \subseteq Artifacts /\ objects \subseteq Artifacts
  /\ rows \in [Artifacts -> Days \cup {NoRow}] /\ inserts \in [Artifacts -> Days]
  /\ lock \in Workers \cup {NoWorker}
  /\ cleanup \in [step : {"idle", "fetch", "objects", "rows", "commit"}, day : Days,
                  batch : SUBSET Artifacts, deleted : SUBSET Artifacts,
                  iterations : 0 .. MaxIterations]

Init ==
  /\ today = 0 /\ faults = 0
  /\ upload = [a \in Artifacts |-> "new"]
  /\ late = {} /\ objects = {}
  /\ rows = [a \in Artifacts |-> NoRow] /\ inserts = [a \in Artifacts |-> 0]
  /\ lock = NoWorker /\ cleanup = NoCleanup

Fault == faults < MaxFaults /\ faults' = faults + 1

-----------------------------------------------------------------------------
(* processArtifacts of the reporter, for one attachment; the queue *)

Becomes(a, step) ==
  /\ upload' = [upload EXCEPT ![a] = step]
  /\ UNCHANGED <<today, rows, inserts, lock, cleanup, faults>>

\* createPresignedUpload: a path with a new id, which nothing remembers.
Presign(a) == upload[a] = "new" /\ Becomes(a, "presigned") /\ UNCHANGED <<objects, late>>

\* The file is too large or unreadable, or no URL is to be had.
Skip(a) == upload[a] = "new" /\ Becomes(a, "given up") /\ UNCHANGED <<objects, late>>

\* uploadToPresignedUrl succeeds; then the event is enqueued.
Upload(a) ==
  /\ upload[a] = "presigned" /\ Becomes(a, "queued")
  /\ objects' = objects \cup {a}
  /\ UNCHANGED late

\* Mutant: the answer to the PUT is not looked at.
GiveUpLoudly(a) ==
  /\ upload[a] = "presigned" /\ Becomes(a, "queued")
  /\ UNCHANGED <<objects, late>>

\* The PUT fails or takes too long.  Then the file may arrive all the same.
GiveUp(a) ==
  /\ upload[a] = "presigned" /\ Becomes(a, "given up")
  /\ late' \in {late, late \cup {a}}
  /\ UNCHANGED objects

ArriveLate(a) ==
  /\ a \in late
  /\ late' = late \ {a} /\ objects' = objects \cup {a}
  /\ UNCHANGED <<today, upload, rows, inserts, lock, cleanup, faults>>

\* The event is sent, or dropped by the queue, refused, or lost with the process.
SendEvent(a) ==
  /\ upload[a] = "queued"
  /\ upload' \in {[upload EXCEPT ![a] = s] : s \in {"pending", "lost"}}
  /\ UNCHANGED <<today, late, objects, rows, inserts, lock, cleanup, faults>>

-----------------------------------------------------------------------------
(* ArtifactUploadHandler, in the transaction of the event *)

\* headObject: only NotFound is an answer, and says no; another failure is the handler's.
Exists(a) == a \in objects

\* A foreign path is an event done with.  An object that is not there (RetryableError)
\* leaves the event pending.
Head(a) ==
  /\ upload[a] = "pending"
  /\ \/ a \in Foreign /\ upload' = [upload EXCEPT ![a] = "handled"]
     \/ a \notin Foreign /\ Exists(a) /\ upload' = [upload EXCEPT ![a] = "found"]
  /\ inserts' = [inserts EXCEPT ![a] = today]
  /\ UNCHANGED <<today, late, objects, rows, lock, cleanup, faults>>

\* created_at is now(), the time the transaction began.
Insert(a) ==
  /\ upload[a] = "found"
  /\ upload' = [upload EXCEPT ![a] = "handled"]
  /\ rows' = [rows EXCEPT ![a] = inserts[a]]
  /\ UNCHANGED <<today, late, objects, inserts, lock, cleanup, faults>>

\* The transaction is rolled back, for a later event of the batch or a crash.
RollBack(a) ==
  /\ upload[a] = "found" /\ Fault
  /\ upload' = [upload EXCEPT ![a] = "pending"]
  /\ UNCHANGED <<today, late, objects, rows, inserts, lock, cleanup>>

-----------------------------------------------------------------------------
(* ArtifactCleanupService *)

Expired(a, day) == rows[a] # NoRow /\ rows[a] + RetentionDays < day

\* The one who finds the lock taken does nothing.
Start(w) ==
  /\ lock = NoWorker
  /\ lock' = w
  /\ cleanup' = [NoCleanup EXCEPT !.step = "fetch", !.day = today]
  /\ UNCHANGED <<today, upload, late, objects, rows, inserts, faults>>

Older(a, b) == rows[a] <= rows[b]

\* Mutant: the limit comes before the filter.
SelectsOldestRows(B) ==
  LET E == {a \in Artifacts : rows[a] # NoRow}
  IN  /\ B \subseteq E
      /\ Cardinality(B) = (IF Cardinality(E) < BatchSize THEN Cardinality(E) ELSE BatchSize)
      /\ \A a \in B, b \in E \ B : Older(a, b)

\* get_expired_artifacts: the transaction sees its own deletions.
Selects(B) ==
  LET E == {a \in Artifacts \ cleanup.deleted : Expired(a, cleanup.day)}
  IN  /\ B \subseteq E
      /\ Cardinality(B) = (IF Cardinality(E) < BatchSize THEN Cardinality(E) ELSE BatchSize)
      /\ \A a \in B, b \in E \ B : Older(a, b)

FetchWithin(limit) ==
  /\ cleanup.step = "fetch"
  /\ IF cleanup.iterations = limit
     THEN cleanup' = [cleanup EXCEPT !.step = "commit", !.batch = {}]
     ELSE \E B \in SUBSET Artifacts :
            /\ Selects(B)
            /\ cleanup' = [cleanup EXCEPT !.step = IF B = {} THEN "commit" ELSE "objects",
                                          !.batch = B,
                                          !.iterations = @ + 1]
  /\ UNCHANGED <<today, upload, late, objects, rows, inserts, lock, faults>>

\* Mutant: counted one too many.
FetchOnceMore == FetchWithin(MaxIterations + 1)

Fetch == FetchWithin(MaxIterations)

\* Mutant: S3 complains about a key without an object.
DeleteExisting ==
  /\ cleanup.step = "objects"
  /\ objects' = objects \ cleanup.batch
  /\ cleanup' = [cleanup EXCEPT !.step = IF cleanup.batch \subseteq objects THEN "rows"
                                                                           ELSE "commit"]
  /\ UNCHANGED <<today, upload, late, rows, inserts, lock, faults>>

\* deleteMany: a key without an object is no error.
DeleteObjects ==
  /\ cleanup.step = "objects"
  /\ objects' = objects \ cleanup.batch
  /\ cleanup' = [cleanup EXCEPT !.step = "rows"]
  /\ UNCHANGED <<today, upload, late, rows, inserts, lock, faults>>

\* Mutant: the Errors of the response are not looked at.
IgnoreS3Failure ==
  /\ cleanup.step = "objects" /\ Fault
  /\ \E S \in SUBSET cleanup.batch : objects' = objects \ S
  /\ cleanup' = [cleanup EXCEPT !.step = "rows"]
  /\ UNCHANGED <<today, upload, late, rows, inserts, lock>>

\* S3 fails, or fails for some of the keys: break, and commit what there is.
S3Fails ==
  /\ cleanup.step = "objects" /\ Fault
  /\ \E S \in SUBSET cleanup.batch : objects' = objects \ S
  /\ cleanup' = [cleanup EXCEPT !.step = "commit"]
  /\ UNCHANGED <<today, upload, late, rows, inserts, lock>>

\* delete_artifacts_by_ids spares what is younger than a day.
DeleteRows ==
  /\ cleanup.step = "rows"
  /\ cleanup' = [cleanup EXCEPT
                   !.step = "fetch",
                   !.deleted = @ \cup {a \in cleanup.batch : rows[a] + 1 < cleanup.day}]
  /\ UNCHANGED <<today, upload, late, objects, rows, inserts, lock, faults>>

\* A statement that fails aborts the transaction: its COMMIT rolls everything back.
DatabaseFails ==
  /\ cleanup.step = "rows" /\ Fault
  /\ cleanup' = [cleanup EXCEPT !.step = "commit", !.deleted = {}]
  /\ UNCHANGED <<today, upload, late, objects, rows, inserts, lock>>

Commit ==
  /\ cleanup.step = "commit"
  /\ rows' = [a \in Artifacts |-> IF a \in cleanup.deleted THEN NoRow ELSE rows[a]]
  /\ lock' = NoWorker /\ cleanup' = NoCleanup
  /\ UNCHANGED <<today, upload, late, objects, inserts, faults>>

\* The worker or its connection is gone.
Crash ==
  /\ lock # NoWorker /\ Fault
  /\ lock' = NoWorker /\ cleanup' = NoCleanup
  /\ UNCHANGED <<today, upload, late, objects, rows, inserts>>

NextDay ==
  /\ today < MaxDay
  /\ today' = today + 1
  /\ UNCHANGED <<upload, late, objects, rows, inserts, lock, cleanup, faults>>

CleanupStep == Fetch \/ DeleteObjects \/ DeleteRows \/ Commit
CleanupFault == S3Fails \/ DatabaseFails \/ Crash

Next ==
  \/ NextDay
  \/ \E a \in Artifacts : \/ Presign(a) \/ Skip(a) \/ Upload(a) \/ GiveUp(a) \/ ArriveLate(a) \/ SendEvent(a)
                          \/ Head(a) \/ Insert(a) \/ RollBack(a)
  \/ \E w \in Workers : Start(w)
  \/ CleanupStep \/ CleanupFault

Spec == Init /\ [][Next]_vars

\* The days pass and the job starts every day in some worker; Outboxy delivers what is
\* pending again and again.
FairSpec ==
  /\ Spec
  /\ WF_vars(NextDay) /\ WF_vars(\E w \in Workers : Start(w)) /\ WF_vars(CleanupStep)
  /\ \A a \in Artifacts : WF_vars(Head(a)) /\ WF_vars(Insert(a))

-----------------------------------------------------------------------------

\* getDownloadUrl: a URL is signed for every row.
Downloadable(a) == rows[a] # NoRow

\* What can be downloaded is there, for as long as it is to be kept.
RetainedHaveObject ==
  \A a \in Artifacts : Downloadable(a) /\ ~Expired(a, today) => a \in objects

\* A row never goes before its object: no object is left whose path nobody knows.  (The
\* others without a row are the files whose event was lost or names a foreign path, or
\* whose upload was given up too early.)
DeletedLeaveNoObject ==
  \A a \in Artifacts \ Foreign : upload[a] = "handled" /\ ~Downloadable(a) => a \notin objects

\* "Both failure modes are self-healing": whatever has failed, an expired artifact goes.
ExpiredGoAway ==
  \A a \in Artifacts : Expired(a, today) ~> ~Downloadable(a) /\ a \notin objects

\* The worker does not retry an event for ever: the object is there before the event.
PendingSettle == \A a \in Artifacts : upload[a] = "pending" ~> upload[a] = "handled"
=============================================================================
