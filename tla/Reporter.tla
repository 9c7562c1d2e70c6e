------------------------------ MODULE Reporter ------------------------------
(***************************************************************************)
(* A reporter in a test run: the callbacks of the Playwright reporter      *)
(* enqueue events, the queue sends them one at a time through the client,  *)
(* the client retries, and the ingestion API stores an event once per      *)
(* idempotency key.  A request the client has given up may still be        *)
(* stored.  Events are all distinct.                                       *)
(***************************************************************************)
EXTENDS Integers, Sequences, Functions

CONSTANTS Events,
          Bursts,       \* Seq(Seq(Events)): what onBegin, then each onTestBegin and
                        \* onTestEnd enqueues without giving way
          Attachments,  \* [1..Len(Bursts) -> Seq(Events)]: the artifact.upload events
                        \* a callback sets going
          RunEnd,       \* the event onEnd enqueues
          MaxQueueSize, MaxRetries

NoEvent == "no event"

ASSUME BurstsAssumption ==
  /\ RunEnd \in Events /\ NoEvent \notin Events
  /\ Bursts \in Seq(Seq(Events) \ {<<>>})
  /\ Attachments \in [1..Len(Bursts) -> Seq(Events)]
\* Each event is made where it is enqueued, and enqueued once.
ASSUME DistinctAssumption ==
  \A i, k \in 1..Len(Bursts) :
    /\ \A j \in 1..Len(Bursts[i]), l \in 1..Len(Bursts[k]) :
         Bursts[i][j] = Bursts[k][l] => i = k /\ j = l
    /\ \A j \in 1..Len(Attachments[i]), l \in 1..Len(Attachments[k]) :
         Attachments[i][j] = Attachments[k][l] => i = k /\ j = l
    /\ Range(Bursts[i]) \cap Range(Attachments[k]) = {}
    /\ RunEnd \notin Range(Bursts[i]) \cup Range(Attachments[i])
ASSUME SizeAssumption == MaxQueueSize \in Nat \ {0} /\ MaxRetries \in Nat

VARIABLES
  \* the reporter
  phase,    \* "running", then in onEnd "settling", "draining", "finished"
  next,     \* the next burst
  uploads,  \* what each running processArtifacts() has still to upload and enqueue
  flushed,  \* the flush timeout resolved waitForDrain
  \* the queue and the client
  items,
  sending,  \* [event, attempt, asleep]: the call of sendEvent
  reply,    \* to the current attempt: "none", "ok", "retryable", "refused"; "asked"
            \* while the request is on its way
  sent, failed,
  dropped,  \* events shifted out of a full queue
  \* the ingestion API
  late,     \* events of which a request the client has given up is on its way
  stored,   \* the outbox, in the order of the inserts
  \* a record of what was enqueued, in order
  enqueued

callVars  == <<phase, next, uploads, flushed>>
queueVars == <<items, sending, dropped, enqueued>>
statVars  == <<sent, failed>>
netVars   == <<reply, late, stored>>
vars      == <<callVars, queueVars, statVars, netVars>>

NotSending == [event |-> NoEvent, attempt |-> 0, asleep |-> FALSE]
First(e)   == [event |-> e, attempt |-> 0, asleep |-> FALSE]
Idle       == sending = NotSending

\* Mutant: the end of the drain resolves an onEnd that still waits for uploads.
NotYetDraining == phase = "settling"

\* The promise of waitForDrain is the only thing onEnd still waits for.
Draining   == phase = "draining"

Init ==
  /\ phase = "running" /\ next = 1 /\ uploads = {} /\ flushed = FALSE
  /\ items = <<>> /\ sending = NotSending /\ dropped = {} /\ enqueued = <<>>
  /\ sent = {} /\ failed = {}
  /\ reply = "none" /\ late = {} /\ stored = <<>>

-----------------------------------------------------------------------------
(* The queue.                                                               *)

\* Mutant: a full queue refuses the new event without a word.
KeepOldest(q) ==
  /\ items' = SubSeq(q, 1, IF Len(q) > MaxQueueSize THEN MaxQueueSize ELSE Len(q))
  /\ dropped' = dropped

\* Mutant: one too many fits.
KeepOneMore(q) ==
  LET over == IF Len(q) > MaxQueueSize + 1 THEN Len(q) - MaxQueueSize - 1 ELSE 0
  IN  /\ items' = SubSeq(q, over + 1, Len(q))
      /\ dropped' = dropped \cup {q[i] : i \in 1..over}

\* A full queue drops its oldest event for each new one.
Keep(q) ==
  LET over == IF Len(q) > MaxQueueSize THEN Len(q) - MaxQueueSize ELSE 0
  IN  /\ items' = SubSeq(q, over + 1, Len(q))
      /\ dropped' = dropped \cup {q[i] : i \in 1..over}

\* sendEvent() begins: the first attempt goes out.
Send(e) == sending' = First(e) /\ reply' = "asked"

\* enqueue(), for each event of a burst; on an idle queue the first one starts the
\* drain loop, which takes it off the queue at once.
Enqueue(b) ==
  /\ enqueued' = enqueued \o b
  /\ IF Idle THEN Send(Head(b)) /\ Keep(Tail(b))
             ELSE Keep(items \o b) /\ UNCHANGED <<sending, reply>>

\* Mutant: the newest event goes first.
TakeNewest ==
  IF items = <<>>
    THEN /\ sending' = NotSending /\ reply' = "none" /\ UNCHANGED items
         /\ phase' = IF Draining THEN "finished" ELSE phase
    ELSE /\ Send(items[Len(items)]) /\ items' = SubSeq(items, 1, Len(items) - 1)
         /\ UNCHANGED phase

\* The drain loop after a result: it takes the next event, or ends and resolves
\* the promise of waitForDrain.
TakeNext ==
  IF items = <<>>
    THEN /\ sending' = NotSending /\ reply' = "none" /\ UNCHANGED items
         /\ phase' = IF Draining THEN "finished" ELSE phase
    ELSE /\ Send(Head(items)) /\ items' = Tail(items)
         /\ UNCHANGED phase

-----------------------------------------------------------------------------
(* The client.                                                              *)

\* sendEvent returns: the loop counts the event, and goes on.
Settle(r) ==
  /\ sent' = IF r = "ok" THEN sent \cup {sending.event} ELSE sent
  /\ failed' = IF r # "ok" THEN failed \cup {sending.event} ELSE failed
  /\ TakeNext

\* An attempt ended with r: a retryable failure is slept over and tried again, up to
\* MaxRetries times.
AttemptEnds(r) ==
  /\ IF r = "retryable" /\ sending.attempt < MaxRetries
       THEN /\ sending' = [sending EXCEPT !.asleep = TRUE]
            /\ reply' = "none"
            /\ UNCHANGED <<phase, items, statVars>>
       ELSE Settle(r)
  /\ UNCHANGED <<next, uploads, flushed, dropped, enqueued, stored>>

ReceiveReply ==
  /\ reply \in {"ok", "retryable", "refused"}
  /\ AttemptEnds(reply)
  /\ UNCHANGED late

\* Mutant: a request may take for ever.
NeverAborts == FALSE /\ UNCHANGED vars

\* The abort after 10 s, or a broken connection.  A request that is still on its way may
\* be served later.
AttemptTimesOut ==
  /\ ~Idle /\ ~sending.asleep
  /\ AttemptEnds("retryable")
  /\ late' = IF reply = "asked" /\ sending.event \notin Range(stored)
                THEN late \cup {sending.event} ELSE late

Retry ==
  /\ sending.asleep
  /\ sending' = [sending EXCEPT !.attempt = @ + 1, !.asleep = FALSE]
  /\ reply' = "asked"
  /\ UNCHANGED <<callVars, statVars, items, dropped, enqueued, late, stored>>

-----------------------------------------------------------------------------
(* The ingestion API.                                                       *)

\* One transaction; publish() stores nothing under a key that is taken, so the late
\* requests for an event that is stored no longer matter.
Insert(e) ==
  /\ stored' = IF e \in Range(stored) THEN stored ELSE Append(stored, e)
  /\ late' = late \ {e}

Store ==
  /\ reply = "asked"
  /\ Insert(sending.event)
  /\ reply' = "ok"
  /\ UNCHANGED <<callVars, queueVars, statVars>>

StoreLate(e) ==
  /\ e \in late
  /\ Insert(e)
  /\ UNCHANGED <<callVars, queueVars, statVars, reply>>

\* 5xx is retryable; 4xx, the 429 of the rate limit included, is not.
Refuse ==
  /\ reply = "asked"
  /\ reply' \in {"retryable", "refused"}
  /\ UNCHANGED <<callVars, queueVars, statVars, late, stored>>

-----------------------------------------------------------------------------
(* The reporter's callbacks.                                                *)

Callback ==
  /\ phase = "running" /\ next <= Len(Bursts)
  /\ Enqueue(Bursts[next])
  /\ uploads' = IF Attachments[next] = <<>> THEN uploads
                ELSE uploads \cup {Attachments[next]}
  /\ next' = next + 1
  /\ UNCHANGED <<phase, flushed, statVars, late, stored>>

Rest(u) == (uploads \ {u}) \cup (IF Len(u) > 1 THEN {Tail(u)} ELSE {})

\* Presigned and uploaded: artifact.upload is enqueued.
UploadDone(u) ==
  /\ u \in uploads
  /\ Enqueue(<<Head(u)>>)
  /\ uploads' = Rest(u)
  /\ UNCHANGED <<phase, next, flushed, statVars, late, stored>>

\* The presign or the upload fails, or times out: the attachment is skipped.
UploadFails(u) ==
  /\ u \in uploads
  /\ uploads' = Rest(u)
  /\ UNCHANGED <<phase, next, flushed, queueVars, statVars, netVars>>

\* The run is over, or was interrupted at any point after onBegin.
OnEnd ==
  /\ phase = "running" /\ next > 1
  /\ Enqueue(<<RunEnd>>)
  /\ phase' = "settling"
  /\ UNCHANGED <<next, uploads, flushed, statVars, late, stored>>

\* Mutant: waitForDrain looks at the queue and not at the call that is out.
NothingQueued == items = <<>>

NothingToSend == items = <<>> /\ Idle

\* Promise.allSettled(artifactPromises), then waitForDrain().
ArtifactsSettled ==
  /\ phase = "settling" /\ uploads = {}
  /\ phase' = IF NothingToSend THEN "finished" ELSE "draining"
  /\ UNCHANGED <<next, uploads, flushed, queueVars, statVars, netVars>>

FlushTimeout ==
  /\ Draining
  /\ phase' = "finished" /\ flushed' = TRUE
  /\ UNCHANGED <<next, uploads, queueVars, statVars, netVars>>

Next ==
  \/ Callback \/ OnEnd \/ ArtifactsSettled \/ FlushTimeout
  \/ \E u \in uploads : UploadDone(u) \/ UploadFails(u)
  \/ ReceiveReply \/ AttemptTimesOut \/ Retry
  \/ Store \/ Refuse
  \/ \E e \in late : StoreLate(e)

Spec == Init /\ [][Next]_vars

\* A process that lives: timers fire, every fetch has one, and what is resolved goes on.
\* Nothing is asked of the ingestion API or of the tests.
Fairness ==
  /\ WF_vars(AttemptTimesOut) /\ WF_vars(Retry)
  /\ WF_vars(\E u \in uploads : UploadDone(u) \/ UploadFails(u))
  /\ WF_vars(ArtifactsSettled) /\ WF_vars(FlushTimeout)

FairSpec == Spec /\ Fairness

-----------------------------------------------------------------------------

TypeOK ==
  /\ phase \in {"running", "settling", "draining", "finished"}
  /\ next \in 1..(Len(Bursts) + 1)
  /\ uploads \subseteq Seq(Events) \ {<<>>}
  /\ flushed \in BOOLEAN
  /\ items \in Seq(Events) /\ Len(items) <= MaxQueueSize
  /\ sending \in [event: Events \cup {NoEvent}, attempt: 0..MaxRetries, asleep: BOOLEAN]
  /\ reply \in {"none", "asked", "ok", "retryable", "refused"}
  /\ sent \subseteq Events /\ failed \subseteq Events /\ dropped \subseteq Events
  /\ late \subseteq Events
  /\ stored \in Seq(Events) /\ enqueued \in Seq(Events)

Outcomes == <<sent, failed, dropped, Range(items), {sending.event} \ {NoEvent}>>

\* No event goes missing in the reporter, and none is counted twice: an enqueued event is
\* queued, being sent, counted as sent or as failed, or was dropped with a warning.
EveryEventAccounted ==
  /\ Range(enqueued) = UNION {Outcomes[i] : i \in 1..5}
  /\ \A i, j \in 1..5 : i # j => Outcomes[i] \cap Outcomes[j] = {}
  /\ Idle => items = <<>>

\* What the reporter counts as sent is in the outbox, and before every event enqueued after
\* it; only an event the client gave up can turn up late.
SentInOrder ==
  /\ sent \subseteq Range(stored)
  /\ \A i, j \in 1..Len(enqueued) :
       i < j /\ enqueued[i] \in sent =>
         \A m \in 1..Len(stored) : stored[m] = enqueued[j] =>
           \E k \in 1..(m - 1) : stored[k] = enqueued[i]

\* onEnd that resolves without the flush timeout leaves nothing behind: every upload is
\* over, and each event the reporter enqueued has been sent, or given up.
DrainedIsSettled ==
  phase = "finished" /\ ~flushed => uploads = {} /\ items = <<>> /\ Idle

\* Whatever the ingestion API does, onEnd resolves.
OnEndResolves == (phase = "settling") ~> (phase = "finished")

\* Every event is sent, given up or dropped in the end.
EventsAreSettled ==
  \A e \in Events : (e \in Range(enqueued)) ~> (e \in sent \cup failed \cup dropped)
=============================================================================
