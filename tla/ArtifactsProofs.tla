--------------------------- MODULE ArtifactsProofs ---------------------------
(* What TLAPS proves about the files of a test, for every set of artifacts    *)
(* and workers, every retention and batch, and any number of failures.       *)
EXTENDS Artifacts, TLAPS

USE ArtifactsAssumption DEF ArtifactsAssumption

-----------------------------------------------------------------------------
\* A file whose row is about to be inserted is in S3 and is not of the cleanup.
FoundAreThere ==
  \A a \in Artifacts : upload[a] = "found" => a \in objects /\ a \notin Foreign /\ rows[a] = NoRow

\* A row comes of an event that was handled, and of a path of the project.
RowsAreHandled ==
  \A a \in Artifacts : rows[a] # NoRow => upload[a] = "handled" /\ a \notin Foreign

\* Only what was given up arrives late.
LateAreGivenUp == \A a \in late : upload[a] = "given up"

\* The cleanup takes expired rows, and deletes those whose objects are gone.
CleanupIsRight ==
  /\ cleanup.day <= today
  /\ \A a \in cleanup.batch : Expired(a, cleanup.day)
  /\ cleanup.step = "rows" => cleanup.batch \cap objects = {}
  /\ \A a \in cleanup.deleted : rows[a] # NoRow /\ a \notin objects

IInv ==
  /\ TypeOK /\ FoundAreThere /\ RowsAreHandled /\ LateAreGivenUp /\ CleanupIsRight
  /\ RetainedHaveObject /\ DeletedLeaveNoObject

-----------------------------------------------------------------------------
\* A step that may fail keeps count of the failures.
LEMMA FaultsBounded ==
  ASSUME faults \in 0 .. MaxFaults, Fault PROVE faults' \in 0 .. MaxFaults
BY DEF Fault

\* No file has been recorded yet, and no cleanup runs.
LEMMA InitIsRight == ASSUME Init PROVE IInv
<1>1. TypeOK BY DEF Init, TypeOK, Days, NoCleanup
<1>2. FoundAreThere /\ RowsAreHandled /\ LateAreGivenUp
  BY DEF Init, FoundAreThere, RowsAreHandled, LateAreGivenUp
<1>3. CleanupIsRight BY DEF Init, CleanupIsRight, NoCleanup
<1>4. RetainedHaveObject /\ DeletedLeaveNoObject
  BY DEF Init, RetainedHaveObject, DeletedLeaveNoObject, Downloadable
<1> QED BY <1>1, <1>2, <1>3, <1>4 DEF IInv

\* The reporter moves a file from one step to the next; no row and no cleanup knows of it yet.
LEMMA ReporterKeeps ==
  ASSUME IInv, NEW a \in Artifacts,
         Presign(a) \/ Skip(a) \/ Upload(a) \/ GiveUp(a) \/ SendEvent(a)
  PROVE  IInv'
<1>1. /\ upload[a] \in {"new", "presigned", "queued"}
      /\ \E s \in {"presigned", "given up", "queued", "pending", "lost"} :
           upload' = [upload EXCEPT ![a] = s]
      /\ objects' \in {objects, objects \cup {a}} /\ late' \in {late, late \cup {a}}
      /\ upload' = [upload EXCEPT ![a] = "given up"] \/ late' = late
      /\ UNCHANGED <<today, rows, inserts, lock, cleanup, faults>>
  BY DEF Presign, Skip, Upload, GiveUp, SendEvent, Becomes
<1>2. rows[a] = NoRow /\ a \notin late /\ a \notin cleanup.batch /\ a \notin cleanup.deleted
  BY <1>1 DEF IInv, RowsAreHandled, LateAreGivenUp, CleanupIsRight, Expired
<1>3. /\ upload \in [Artifacts -> {"new", "presigned", "given up", "queued", "lost", "pending",
                                   "found", "handled"}]
      /\ late \subseteq Artifacts
  BY DEF IInv, TypeOK
<1>4. upload'[a] \in {"presigned", "given up", "queued", "pending", "lost"}
      /\ \A b \in Artifacts : b # a => upload'[b] = upload[b]
  BY <1>1, <1>3
<1>5. TypeOK' BY <1>1, <1>3 DEF IInv, TypeOK
<1>6. FoundAreThere' BY <1>1, <1>4 DEF IInv, FoundAreThere
<1>7. RowsAreHandled' BY <1>1, <1>2, <1>4 DEF IInv, RowsAreHandled
<1>8. LateAreGivenUp' BY <1>1, <1>3, <1>4 DEF IInv, LateAreGivenUp
<1>9. CleanupIsRight' BY <1>1, <1>2 DEF IInv, CleanupIsRight, Expired
<1>10. RetainedHaveObject' BY <1>1 DEF IInv, RetainedHaveObject, Downloadable, Expired
<1>11. DeletedLeaveNoObject' BY <1>1, <1>4 DEF IInv, DeletedLeaveNoObject, Downloadable
<1> QED BY <1>5, <1>6, <1>7, <1>8, <1>9, <1>10, <1>11 DEF IInv

\* The bytes of an upload the reporter gave up on: no row points to them.
LEMMA ArriveLateKeeps == ASSUME IInv, NEW a \in Artifacts, ArriveLate(a) PROVE IInv'
<1> USE DEF ArriveLate
<1>1. upload[a] = "given up" BY DEF IInv, LateAreGivenUp
<1>2. rows[a] = NoRow BY <1>1 DEF IInv, RowsAreHandled
<1>3. TypeOK' BY DEF IInv, TypeOK
<1>4. FoundAreThere' /\ RowsAreHandled' /\ LateAreGivenUp'
  BY DEF IInv, FoundAreThere, RowsAreHandled, LateAreGivenUp
<1>5. CleanupIsRight' BY <1>2 DEF IInv, CleanupIsRight, Expired
<1>6. RetainedHaveObject' BY DEF IInv, RetainedHaveObject, Downloadable, Expired
<1>7. DeletedLeaveNoObject' BY <1>1 DEF IInv, DeletedLeaveNoObject, Downloadable
<1> QED BY <1>3, <1>4, <1>5, <1>6, <1>7 DEF IInv

-----------------------------------------------------------------------------
(* The worker *)

\* The handler finds the object: no cleanup deletes it before there is a row.
LEMMA HeadKeeps == ASSUME IInv, NEW a \in Artifacts, Head(a) PROVE IInv'
<1>1. /\ upload[a] = "pending"
      /\ \/ upload' = [upload EXCEPT ![a] = "handled"] /\ a \in Foreign
         \/ upload' = [upload EXCEPT ![a] = "found"] /\ a \notin Foreign /\ a \in objects
      /\ inserts' = [inserts EXCEPT ![a] = today]
      /\ UNCHANGED <<today, late, objects, rows, lock, cleanup, faults>>
  BY DEF Head, Exists
<1>2. rows[a] = NoRow BY <1>1 DEF IInv, RowsAreHandled
<1>3. upload \in [Artifacts -> {"new", "presigned", "given up", "queued", "lost", "pending",
                                "found", "handled"}]
      /\ late \subseteq Artifacts
  BY DEF IInv, TypeOK
<1>4. \A b \in Artifacts : b # a => upload'[b] = upload[b] BY <1>1, <1>3
<1>5. TypeOK' BY <1>1, <1>3 DEF IInv, TypeOK
<1>6. FoundAreThere' BY <1>1, <1>2, <1>3, <1>4 DEF IInv, FoundAreThere
<1>7. RowsAreHandled' BY <1>1, <1>2, <1>4 DEF IInv, RowsAreHandled
<1>8. LateAreGivenUp' BY <1>1, <1>3, <1>4 DEF IInv, LateAreGivenUp
<1>9. CleanupIsRight' BY <1>1 DEF IInv, CleanupIsRight, Expired
<1>10. RetainedHaveObject' BY <1>1 DEF IInv, RetainedHaveObject, Downloadable, Expired
<1>11. DeletedLeaveNoObject' BY <1>1, <1>3, <1>4 DEF IInv, DeletedLeaveNoObject, Downloadable
<1> QED BY <1>5, <1>6, <1>7, <1>8, <1>9, <1>10, <1>11 DEF IInv

\* The row comes to an object that is there.
LEMMA InsertKeeps == ASSUME IInv, NEW a \in Artifacts, Insert(a) PROVE IInv'
<1>1. a \in objects /\ a \notin Foreign /\ rows[a] = NoRow
  BY DEF Insert, IInv, FoundAreThere
<1>2. /\ a \notin cleanup.batch /\ a \notin cleanup.deleted
  BY <1>1 DEF IInv, CleanupIsRight, Expired
<1>3. /\ upload \in [Artifacts -> {"new", "presigned", "given up", "queued", "lost", "pending",
                                   "found", "handled"}]
      /\ rows \in [Artifacts -> Days \cup {NoRow}] /\ inserts \in [Artifacts -> Days]
      /\ late \subseteq Artifacts /\ cleanup.batch \subseteq Artifacts
      /\ cleanup.deleted \subseteq Artifacts
  BY DEF IInv, TypeOK
<1>4. /\ upload'[a] = "handled" /\ rows'[a] = inserts[a]
      /\ \A b \in Artifacts : b # a => upload'[b] = upload[b] /\ rows'[b] = rows[b]
      /\ upload[a] = "found"
  BY <1>3 DEF Insert
<1>5. inserts[a] # NoRow
  <2>1. inserts[a] \in Days BY <1>3
  <2> QED BY <2>1 DEF Days, NoRow
<1>6. TypeOK' BY <1>3 DEF IInv, TypeOK, Insert
<1>7. FoundAreThere' BY <1>4 DEF IInv, FoundAreThere, Insert
<1>8. RowsAreHandled' BY <1>1, <1>4 DEF IInv, RowsAreHandled, Insert
<1>9. LateAreGivenUp' BY <1>3, <1>4 DEF IInv, LateAreGivenUp, Insert
<1>10. CleanupIsRight' BY <1>2, <1>3, <1>4 DEF IInv, CleanupIsRight, Expired, Insert
<1>11. RetainedHaveObject'
  BY <1>1, <1>4 DEF IInv, RetainedHaveObject, Downloadable, Expired, Insert
<1>12. DeletedLeaveNoObject'
  BY <1>4, <1>5 DEF IInv, DeletedLeaveNoObject, Downloadable, Insert
<1> QED BY <1>6, <1>7, <1>8, <1>9, <1>10, <1>11, <1>12 DEF IInv

\* The row goes as it came; the object stays.
LEMMA RollBackKeeps == ASSUME IInv, NEW a \in Artifacts, RollBack(a) PROVE IInv'
<1>1. /\ upload[a] = "found" /\ upload' = [upload EXCEPT ![a] = "pending"]
      /\ UNCHANGED <<today, late, objects, rows, inserts, lock, cleanup>>
  BY DEF RollBack
<1>2. rows[a] = NoRow BY <1>1 DEF IInv, FoundAreThere
<1>3. upload \in [Artifacts -> {"new", "presigned", "given up", "queued", "lost", "pending",
                                "found", "handled"}]
      /\ late \subseteq Artifacts
  BY DEF IInv, TypeOK
<1>4. upload'[a] = "pending" /\ \A b \in Artifacts : b # a => upload'[b] = upload[b] BY <1>1, <1>3
<1>5. TypeOK'
  <2>1. faults' \in 0 .. MaxFaults BY FaultsBounded DEF RollBack, IInv, TypeOK
  <2> QED BY <1>1, <1>3, <2>1 DEF IInv, TypeOK
<1>6. FoundAreThere' BY <1>1, <1>4 DEF IInv, FoundAreThere
<1>7. RowsAreHandled' BY <1>1, <1>2, <1>4 DEF IInv, RowsAreHandled
<1>8. LateAreGivenUp' BY <1>1, <1>3, <1>4 DEF IInv, LateAreGivenUp
<1>9. CleanupIsRight' BY <1>1 DEF IInv, CleanupIsRight, Expired
<1>10. RetainedHaveObject' BY <1>1 DEF IInv, RetainedHaveObject, Downloadable, Expired
<1>11. DeletedLeaveNoObject' BY <1>1, <1>4 DEF IInv, DeletedLeaveNoObject, Downloadable
<1> QED BY <1>5, <1>6, <1>7, <1>8, <1>9, <1>10, <1>11 DEF IInv

-----------------------------------------------------------------------------
(* The cleanup.  Only its own state and the objects change before it commits. *)

\* A cleanup that is idle is right on every day.
LEMMA NoCleanupTyped ==
  NoCleanup \in [step : {"idle", "fetch", "objects", "rows", "commit"}, day : Days,
                 batch : SUBSET Artifacts, deleted : SUBSET Artifacts, iterations : 0 .. MaxIterations]
BY DEF NoCleanup, Days

\* Steps of the cleanup that leave the objects and the rows alone.
LEMMA CleanupOnly ==
  ASSUME IInv, UNCHANGED <<upload, late, objects, rows, inserts, today>>, TypeOK', CleanupIsRight'
  PROVE  IInv'
BY DEF IInv, FoundAreThere, RowsAreHandled, LateAreGivenUp, RetainedHaveObject,
       DeletedLeaveNoObject, Downloadable, Expired

\* The lock is free: the cleanup begins with nothing fetched and nothing deleted.
LEMMA StartKeeps == ASSUME IInv, NEW w \in Workers, Start(w) PROVE IInv'
<1>1. today \in Days BY DEF IInv, TypeOK
<1>2. TypeOK'
  <2>1. cleanup' \in [step : {"idle", "fetch", "objects", "rows", "commit"}, day : Days,
                      batch : SUBSET Artifacts, deleted : SUBSET Artifacts,
                      iterations : 0 .. MaxIterations]
    BY <1>1, NoCleanupTyped DEF Start
  <2> QED BY <2>1 DEF IInv, TypeOK, Start
<1>3. CleanupIsRight'
  <2>1. today <= today BY <1>1 DEF Days
  <2> QED BY <2>1 DEF Start, NoCleanup, CleanupIsRight
<1> QED BY <1>2, <1>3, CleanupOnly DEF Start

\* The next iteration is one of those allowed.
LEMMA OneMore ==
  ASSUME NEW n \in 0 .. MaxIterations, n # MaxIterations PROVE n + 1 \in 0 .. MaxIterations
OBVIOUS

\* What is fetched has expired, so nobody may download it any more.
LEMMA FetchKeeps == ASSUME IInv, Fetch PROVE IInv'
<1> USE DEF Fetch, FetchWithin
<1>1. cleanup \in [step : {"idle", "fetch", "objects", "rows", "commit"}, day : Days,
                   batch : SUBSET Artifacts, deleted : SUBSET Artifacts,
                   iterations : 0 .. MaxIterations]
  BY DEF IInv, TypeOK
<1>2. CASE cleanup.iterations = MaxIterations
  <2>1. cleanup' = [cleanup EXCEPT !.step = "commit", !.batch = {}] BY <1>2
  <2>2. TypeOK' BY <1>1, <2>1 DEF IInv, TypeOK
  <2>3. CleanupIsRight' BY <1>1, <2>1 DEF IInv, CleanupIsRight
  <2> QED BY <2>2, <2>3, CleanupOnly
<1>3. CASE cleanup.iterations # MaxIterations
  <2>1. PICK B \in SUBSET Artifacts :
          /\ Selects(B)
          /\ cleanup' = [cleanup EXCEPT !.step = IF B = {} THEN "commit" ELSE "objects",
                                        !.batch = B, !.iterations = @ + 1]
    BY <1>3
  <2>2. \A a \in B : Expired(a, cleanup.day) BY <2>1 DEF Selects
  <2>3. cleanup.iterations + 1 \in 0 .. MaxIterations
    <3>1. cleanup.iterations \in 0 .. MaxIterations BY <1>1
    <3> QED BY <1>3, <3>1, OneMore
  <2>4. cleanup' \in [step : {"idle", "fetch", "objects", "rows", "commit"}, day : Days,
                      batch : SUBSET Artifacts, deleted : SUBSET Artifacts,
                      iterations : 0 .. MaxIterations]
    BY <1>1, <2>1, <2>3
  <2>5. TypeOK' BY <2>4 DEF IInv, TypeOK
  <2>6. /\ cleanup'.day = cleanup.day /\ cleanup'.batch = B /\ cleanup'.deleted = cleanup.deleted
        /\ cleanup'.step # "rows"
    BY <1>1, <2>1
  <2>7. CleanupIsRight' BY <2>2, <2>6 DEF IInv, CleanupIsRight, Expired
  <2> QED BY <2>5, <2>7, CleanupOnly
<1> QED BY <1>2, <1>3

\* Objects are deleted of expired rows only, which were handled.
LEMMA ObjectsDeleted ==
  ASSUME IInv, UNCHANGED <<today, upload, late, rows, inserts, lock>>, faults' \in 0 .. MaxFaults,
         NEW S \in SUBSET cleanup.batch, objects' = objects \ S,
         NEW step \in {"rows", "commit"}, cleanup' = [cleanup EXCEPT !.step = step],
         step = "rows" => S = cleanup.batch
  PROVE  IInv'
<1>1. cleanup \in [step : {"idle", "fetch", "objects", "rows", "commit"}, day : Days,
                   batch : SUBSET Artifacts, deleted : SUBSET Artifacts,
                   iterations : 0 .. MaxIterations]
      /\ rows \in [Artifacts -> Days \cup {NoRow}] /\ today \in Days
  BY DEF IInv, TypeOK
<1>2. /\ cleanup'.day = cleanup.day /\ cleanup'.batch = cleanup.batch
      /\ cleanup'.deleted = cleanup.deleted /\ cleanup'.step = step
  BY <1>1
<1>3. \A a \in S : rows[a] # NoRow /\ Expired(a, today)
  <2> TAKE a \in S
  <2>1. rows[a] # NoRow /\ rows[a] + RetentionDays < cleanup.day /\ a \in Artifacts
    BY <1>1 DEF IInv, CleanupIsRight, Expired
  <2>2. cleanup.day <= today BY DEF IInv, CleanupIsRight
  <2>3. rows[a] \in Days /\ cleanup.day \in Days BY <1>1, <2>1
  <2>4. rows[a] + RetentionDays < today BY <1>1, <2>1, <2>2, <2>3 DEF Days
  <2> QED BY <2>1, <2>4 DEF Expired
<1>4. TypeOK' BY <1>1 DEF IInv, TypeOK
<1>5. FoundAreThere' BY <1>3 DEF IInv, FoundAreThere
<1>6. RowsAreHandled' /\ LateAreGivenUp' BY DEF IInv, RowsAreHandled, LateAreGivenUp
<1>7. CleanupIsRight' BY <1>2 DEF IInv, CleanupIsRight, Expired
<1>8. RetainedHaveObject' BY <1>3 DEF IInv, RetainedHaveObject, Downloadable, Expired
<1>9. DeletedLeaveNoObject' BY DEF IInv, DeletedLeaveNoObject, Downloadable
<1> QED BY <1>4, <1>5, <1>6, <1>7, <1>8, <1>9 DEF IInv

\* The rows that go are those whose objects have gone.
LEMMA DeleteRowsKeeps == ASSUME IInv, DeleteRows PROVE IInv'
<1> USE DEF DeleteRows
<1>1. cleanup \in [step : {"idle", "fetch", "objects", "rows", "commit"}, day : Days,
                   batch : SUBSET Artifacts, deleted : SUBSET Artifacts,
                   iterations : 0 .. MaxIterations]
  BY DEF IInv, TypeOK
<1>2. PICK D \in SUBSET cleanup.batch :
        cleanup' = [cleanup EXCEPT !.step = "fetch", !.deleted = @ \cup D]
  OBVIOUS
<1>3. \A a \in D : rows[a] # NoRow /\ a \notin objects
  BY DEF IInv, CleanupIsRight, Expired
<1>4. TypeOK' BY ZenonT(60), <1>1, <1>2 DEF IInv, TypeOK
<1>5. /\ cleanup'.day = cleanup.day /\ cleanup'.batch = cleanup.batch
      /\ cleanup'.deleted = cleanup.deleted \cup D /\ cleanup'.step = "fetch"
  BY <1>1, <1>2
<1>6. CleanupIsRight' BY <1>3, <1>5 DEF IInv, CleanupIsRight, Expired
<1> QED BY <1>4, <1>6, CleanupOnly

\* A statement that fails leaves rows without objects, of files that have expired.
LEMMA DatabaseFailsKeeps == ASSUME IInv, DatabaseFails PROVE IInv'
<1> USE DEF DatabaseFails
<1>1. cleanup \in [step : {"idle", "fetch", "objects", "rows", "commit"}, day : Days,
                   batch : SUBSET Artifacts, deleted : SUBSET Artifacts,
                   iterations : 0 .. MaxIterations]
      /\ faults' \in 0 .. MaxFaults
  BY FaultsBounded DEF IInv, TypeOK
<1>2. TypeOK' BY <1>1 DEF IInv, TypeOK
<1>3. CleanupIsRight' BY <1>1 DEF IInv, CleanupIsRight, Expired
<1> QED BY <1>2, <1>3, CleanupOnly

\* A worker that stops forgets its cleanup; the rows whose objects are gone have expired.
LEMMA CrashKeeps == ASSUME IInv, Crash PROVE IInv'
<1> USE DEF Crash
<1>1. TypeOK' BY FaultsBounded, NoCleanupTyped DEF IInv, TypeOK
<1>2. CleanupIsRight'
  <2>1. today \in Days BY DEF IInv, TypeOK
  <2>2. 0 <= today BY <2>1 DEF Days
  <2> QED BY <2>2 DEF CleanupIsRight, NoCleanup
<1> QED BY <1>1, <1>2, CleanupOnly

\* The rows that go have no object.
LEMMA CommitKeeps == ASSUME IInv, Commit PROVE IInv'
<1> USE DEF Commit
<1>1. /\ rows \in [Artifacts -> Days \cup {NoRow}] /\ cleanup.deleted \subseteq Artifacts
      /\ today \in Days
  BY DEF IInv, TypeOK
<1>2. \A a \in Artifacts : /\ a \in cleanup.deleted => rows'[a] = NoRow
                          /\ a \notin cleanup.deleted => rows'[a] = rows[a]
  OBVIOUS
<1>3. TypeOK' BY <1>1, NoCleanupTyped DEF IInv, TypeOK
<1>4. FoundAreThere' BY <1>2 DEF IInv, FoundAreThere
<1>5. RowsAreHandled' BY <1>2 DEF IInv, RowsAreHandled
<1>6. LateAreGivenUp' BY DEF IInv, LateAreGivenUp
<1>7. CleanupIsRight'
  <2>1. 0 <= today BY <1>1 DEF Days
  <2> QED BY <2>1 DEF CleanupIsRight, NoCleanup
<1>8. RetainedHaveObject' BY <1>2 DEF IInv, RetainedHaveObject, Downloadable, Expired
<1>9. DeletedLeaveNoObject'
  BY <1>2 DEF IInv, DeletedLeaveNoObject, Downloadable, CleanupIsRight
<1> QED BY <1>3, <1>4, <1>5, <1>6, <1>7, <1>8, <1>9 DEF IInv

\* What has expired stays so.
LEMMA NextDayKeeps == ASSUME IInv, NextDay PROVE IInv'
<1> USE DEF NextDay
<1>1. /\ today \in Days /\ rows \in [Artifacts -> Days \cup {NoRow}] /\ cleanup.day \in Days
  BY DEF IInv, TypeOK
<1>2. today' \in Days BY <1>1 DEF Days
<1>3. \A a \in Artifacts : Expired(a, today) => Expired(a, today')
  <2> SUFFICES ASSUME NEW a \in Artifacts, Expired(a, today) PROVE Expired(a, today')
    OBVIOUS
  <2>1. rows[a] \in Days BY <1>1 DEF Expired
  <2> QED BY <1>1, <2>1 DEF Expired, Days
<1>4. TypeOK' BY <1>2 DEF IInv, TypeOK
<1>5. FoundAreThere' /\ RowsAreHandled' /\ LateAreGivenUp'
  BY DEF IInv, FoundAreThere, RowsAreHandled, LateAreGivenUp
<1>6. CleanupIsRight'
  <2>1. cleanup.day <= today' BY <1>1 DEF IInv, CleanupIsRight, Days
  <2> QED BY <2>1 DEF IInv, CleanupIsRight, Expired
<1>7. RetainedHaveObject' BY <1>3 DEF IInv, RetainedHaveObject, Downloadable, Expired
<1>8. DeletedLeaveNoObject' BY DEF IInv, DeletedLeaveNoObject, Downloadable
<1> QED BY <1>4, <1>5, <1>6, <1>7, <1>8 DEF IInv

-----------------------------------------------------------------------------
\* Every step keeps it.
LEMMA StepKeeps == ASSUME IInv, [Next]_vars PROVE IInv'
<1>1. CASE NextDay BY <1>1, NextDayKeeps
<1>2. ASSUME NEW a \in Artifacts,
             \/ Presign(a) \/ Skip(a) \/ Upload(a) \/ GiveUp(a) \/ ArriveLate(a) \/ SendEvent(a)
             \/ Head(a) \/ Insert(a) \/ RollBack(a)
      PROVE  IInv'
  BY <1>2, ReporterKeeps, ArriveLateKeeps, HeadKeeps, InsertKeeps, RollBackKeeps
<1>3. ASSUME NEW w \in Workers, Start(w) PROVE IInv' BY <1>3, StartKeeps
<1>4. CASE Fetch BY <1>4, FetchKeeps
<1>5. CASE DeleteObjects
  <2>1. objects' = objects \ cleanup.batch /\ faults' \in 0 .. MaxFaults
    BY <1>5 DEF DeleteObjects, IInv, TypeOK
  <2> QED BY <1>5, <2>1, ObjectsDeleted DEF DeleteObjects
<1>6. CASE S3Fails
  <2>1. PICK S \in SUBSET cleanup.batch : objects' = objects \ S BY <1>6 DEF S3Fails
  <2>2. faults' \in 0 .. MaxFaults BY <1>6, FaultsBounded DEF S3Fails, IInv, TypeOK
  <2>3. /\ UNCHANGED <<today, upload, late, rows, inserts, lock>>
        /\ cleanup' = [cleanup EXCEPT !.step = "commit"]
    BY <1>6 DEF S3Fails
  <2> QED BY <2>1, <2>2, <2>3, ObjectsDeleted
<1>7. CASE DeleteRows BY <1>7, DeleteRowsKeeps
<1>8. CASE DatabaseFails BY <1>8, DatabaseFailsKeeps
<1>9. CASE Commit BY <1>9, CommitKeeps
<1>10. CASE Crash BY <1>10, CrashKeeps
<1>11. CASE UNCHANGED vars
  BY <1>11 DEF vars, IInv, TypeOK, FoundAreThere, RowsAreHandled, LateAreGivenUp, CleanupIsRight,
               RetainedHaveObject, DeletedLeaveNoObject, Downloadable, Expired
<1> QED
  BY <1>1, <1>2, <1>3, <1>4, <1>5, <1>6, <1>7, <1>8, <1>9, <1>10, <1>11
  DEF Next, CleanupStep, CleanupFault

\* The invariant the three theorems follow from.
LEMMA AlwaysRight == Spec => []IInv
<1>1. Init => IInv BY InitIsRight
<1>2. IInv /\ [Next]_vars => IInv' BY StepKeeps
<1> QED BY <1>1, <1>2, PTL DEF Spec

\* Every variable keeps its type: the cleanup counts its batches right.
THEOREM ArtifactsTyped == Spec => []TypeOK
<1>1. IInv => TypeOK BY DEF IInv
<1> QED BY <1>1, AlwaysRight, PTL

\* ArtifactUploadHandler and ArtifactCleanupService together: a row that is to be kept has its
\* object, whatever fails and whenever the worker stops.
THEOREM RetainedIsThere == Spec => []RetainedHaveObject
<1>1. IInv => RetainedHaveObject BY DEF IInv
<1> QED BY <1>1, AlwaysRight, PTL

\* S3 first, then the rows: no row goes before its object.
THEOREM NoObjectIsLeft == Spec => []DeletedLeaveNoObject
<1>1. IInv => DeletedLeaveNoObject BY DEF IInv
<1> QED BY <1>1, AlwaysRight, PTL
=============================================================================
