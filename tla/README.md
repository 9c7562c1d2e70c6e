# SpecHive in TLA+

SpecHive collects the results of test runs. A reporter inside the test run sends events to an
API, a queue carries them to a worker, the worker keeps runs, suites, tests, counters and daily
statistics in Postgres, and a dashboard shows them and is told when a run changes. This directory
holds TLA+ modules for the parts of it whose correctness depends on order, failure and
concurrency, the TLC configurations that check them, and TLAPS proofs about the worker and its
transactions, the reporter, the notifications, sessions and accounts, artifacts, the gateway, the
pages of the dashboard, and what errors and analytics are made of.

Paths below are relative to `src/`.

## 1. The system

```
 Playwright reporter --HTTP--> gateway --> ingestion-api --INSERT--> outbox table
   queue + client                                                        |
                                                                 Outboxy (external)
                                                                         | HTTP batches
 dashboard <--SSE-- query-api <--Redis pub/sub-- worker <----------------+
     |                  |                          |   hourly cleanup
     +---- JSON API ----+------- Postgres ---------+   artifact cleanup
```

| Component | State it keeps | Operations | What makes it correct |
|---|---|---|---|
| Playwright reporter (`packages/playwright-reporter`) | suite map, test tracker, running uploads | `onBegin`, `onTestBegin`, `onTestEnd`, `onEnd` | the last report of a test says how it ended (a serial group that is run again reports again); `onEnd` returns, and not before the last upload |
| Reporter client (`packages/reporter-client`) | queue of at most 10 000 events, statistics, drain callbacks | `enqueue`, `waitForDrain`, `sendEvent`, presign and upload | every event is sent, counted as failed, or dropped with a warning; order |
| Gateway (`apps/gateway`) | requests under way, requests of a minute; the streams it pipes | JWT and token check, header stripping and injection, throttling, proxying | who acts is who the token says; the seats of an organization are its streams |
| Ingestion API (`apps/ingestion-api`) | outbox rows, project tokens | store an event; presign an artifact | one row per idempotency key, committed before the answer; an event goes to the project of its token |
| Outboxy (external) | deliveries outstanding | POST batches to the worker until a 200 | at least once; no order across batches |
| Worker, events (`apps/worker/.../result-processor`, `webhook-receiver`) | inbox, runs, suites, tests, attempts, error groups and occurrences, daily statistics; debounce timers | one handler per event type | each event takes effect exactly once; counters and statistics agree with the events |
| Worker, cleanups (`run-cleanup`, `artifact-cleanup`) | the same rows; objects in S3 | hourly: cancel orphaned runs; daily: delete expired artifacts | no run stays open; no live artifact is deleted, no object is left without a row |
| Redis pub/sub (`packages/nestjs-common/src/redis`) | handlers per channel, the connection | subscribe, unsubscribe, reconnect | a subscriber that is there hears what is published while connected |
| SSE endpoint (`apps/query-api/.../sse`) | open connections per organization | stream, at most 50 per organization | the count is the number of open streams |
| Dashboard: SSE context, API client, auth context (`apps/dashboard`) | access token, refresh in flight, stream and its timer | refresh, reconnect, refetch, login, switch | a session always leads back to a stream; one refresh at a time; nobody is logged out without a reason |
| Dashboard: views | answers and requests of each hook, selected projects, URL, the form that registers | fetch, abort, select, filter, page; projects and tokens for newcomers; validate an invitation, create an account | a page shows what it asks for, and asks for what its inputs say |
| Query API, auth (`apps/query-api/.../auth`) | refresh tokens, users, login failures | register, login, refresh, logout, switch, change password | a refresh token is used once; failures are limited |
| Query API, invitations, members, tokens | rows | invite, accept, revoke; create and revoke tokens | an invitation admits at most one, the right one |
| Query API, reads | none; several statements for one answer | lists, error explorer, analytics | pages miss nothing; statements of one answer agree |
| Database package | schema, triggers, migrations, backfill | constraints; SQL functions; backfill | the backfill adds to no day the worker counts, and counts no run twice |

How they interact: the reporter's queue is the only sender of a run's events and sends one at a
time; the ingestion API stores each under `runId-type-entity-timestamp`; Outboxy posts batches to
any worker process, several at a time, repeats a batch until a 200 and keeps no order between
batches; the worker sorts a batch by type, and runs each event in a transaction of its own which
inserts the inbox row and calls the handler; when a transaction fails the loop goes on and the
whole batch is answered 500; after a commit the worker publishes `run.updated`, at once for
`run.start` and `run.end`, and 2 s after the last `test.end` otherwise.

The dashboard talks to the query API through the gateway, which alone looks at tokens and puts three
headers on the request that the services behind it believe.

The hard behaviours: redelivery and reordering of everything between the outbox and the worker;
transactions that commit though their response is lost; a run closed by two `run.end` events or by
`run.end` and the cleanup; ends of tests that arrive after the end of their run; timers that live
in the memory of one process; a full queue, retries, abandoned requests and the flush timeout in the
reporter; streams that close while their subscription is on the way; tabs that share a cookie and
rotate it at once; answers that come out of order; a cleanup that fails between S3 and the
database. `PROJECT.json` lists each under `hazards`, at its line.

## 2. The modules

### ResultProcessor: the worker

State: `pending` is what Outboxy has still to get confirmed. A webhook call `q` has a `batch`, what
is `left` of it, whether one of its events `failed`, and the event that has `committed` and still
has to notify. `inbox`, `status`, `finishedAt`, `counts`, `suites`, `tests`, `daily`, `flaky`,
`groups` and `occurrences` are the tables, `timers` the debounce map of each process. `dirty` is a
history variable: what changed in a run since the last `run.updated` about it. `old` marks open
runs of more than 24 hours.

| Action | Code |
|---|---|
| `Deliver` | Outboxy posts a batch |
| `Skip`, `Accept`, `Reject`, `Fault` | one turn of the loop of `receiveOutboxyEvent` with `processEvent`: invalid or duplicate; committed; refused by the handler or the database; failed for another reason |
| `RunStartHandler` ... `RunEndHandler` | the handlers, inside `Accept` |
| `Notify` | `publishSseNotification`, after the commit |
| `Respond`, `ResponseLost` | 200 or 500, and an answer nobody receives |
| `TimerFires` | the debounced `run.updated` |
| `GrowOld`, `CleanupOrphanedRuns` | 24 hours pass; `cleanup_orphaned_runs()` |
| `Crash` | a process dies: its calls, timers and pending notifications are gone |

A transaction is one step. That is faithful to what the rows guard: the inbox row and the handlers'
`UPDATE ... SET n = n + 1` and `WHERE status IN (...)` are evaluated under row locks. It would not be
where one statement reads and a later one of the same transaction writes; `HandlerTransactions` shows
that this does no harm.

Events are records whose `at` stands for the timestamp. `CanHandle` gathers what makes the
transaction fail: a missing run or parent suite (foreign keys), a missing suite or one of another
run (the trigger), a missing test (`RetryableError`). A unique constraint never makes it fail, as the
inserts say `ON CONFLICT DO NOTHING`. Abstracted: durations, the rows of `test_attempts`, time
stamps and texts of error groups, and every column no handler reads; one project of one organization.
The event `artifact.upload` is in `Artifacts`.

### RunLedger: what the worker promises

Runs open once, close once, by a `run.end` that is booked in the statistics of a day or by the
cleanup that books nothing; an end of a test is tallied once, in a run that exists. It knows nothing
of batches, inbox, retries or crashes. `ResultProcessor!ImplementsLedger` maps it: `phase` is the
status of the run, `tallied` the ends of tests in the inbox, `tally` the counters, `booked` the
number of runs of each day.

### HandlerTransactions: why a transaction is one step

The handlers of `test.start`, `test.end` and `run.end` and the hourly cleanup, statement by statement
at READ COMMITTED. `writer` says which transaction has written a row and not committed; a statement
that writes the row waits for it. `MayWrite` and `WaitsFor` are the locks, `Steps` the order of the
statements of each transaction, `Commit` and `RollBack` its ends. The columns kept are those that a
later statement of some transaction reads: the status of a run, the ends of its tests, which of them
were retried. Its variables are named apart from those of `ResultProcessor` (`keys` is the inbox,
`testRows` and `runRows` the tables), as one run checks both.

### HandlerSteps: what a transaction amounts to

The same rows, with one step for each event and for the cleanup: an event that is new takes effect as a
whole, in the state it finds. A run that is open is closed and booked with the ends of tests there are
then, and with the retried ones among them. `HandlerTransactions!Atomic` maps it row by row: what is
committed is what it has, and every step but a `Commit` is a stutter. `TransactionsHold` says that this
is implemented and that nobody waits in a circle; it is what `ResultProcessor` rests on.

### Reporter: queue, client, ingestion

State: `phase` and `next` say where the test run is, `uploads` what the running `processArtifacts`
calls have still to do, `items` is the queue, `sending` the call of `sendEvent` with its attempt,
`reply` what the server said. `late` are requests the client has given up and the server may still
serve; `stored` is the outbox in insertion order; `dropped` and `enqueued` are history variables.
A burst is what a callback enqueues without giving way (JavaScript runs it to the end), which is how
the queue can fill up while one event is being sent. The end of `sendEvent`, the count and the start
of the next `sendEvent` are one step, as nothing can come between them.

### ReporterTests: what is reported of a test

The attempts Playwright plays of each test - again while it has not ended as expected, a serial group
together, until it is stopped - and the events `onTestBegin` and `onTestEnd` make of them: `test.start`
at the first, `test.end` at the final attempt. `onBegin` may still wait for the health of the API.
`SpecHiveReporter` puts both parts of a test run beside each other: the queue takes an event for what
it is, so they have no state in common.

### RedisPubSub, SseProvider, Notifications: from a change to the page that shows it

`Notifications` composes the other two with the SSE endpoint, by `INSTANCE`, and adds the worker that
publishes and the network between.

| Module | State and the code it is |
|---|---|
| `RedisPubSub` | `listeners` is `channelCallbacks`, `known` is `subscribedChannels`, `waiting` the `subscribe()` calls that await `subscriberPromise`, `link` the connection; `wire` and `redis` are ioredis: the commands without an answer, and what Redis has |
| `SseProvider` | `timer` is `reconnectTimer` (`"fired"`: the id of a timer that has fired), `spare` armed timers nobody holds, `latest` whose `abortController` it is, `met` is `hasConnectedBefore`; `client` the state of each run of `connect()`; `refetching` a debounced refetch to do, `stale` whether the page shows less than the database holds |
| `Notifications` | `served` the open Observables (`connectionCounts` is their number per organization), `gone` streams whose server has stopped, `mail` streams with an unread notification, `due` organizations with something to publish |

A stream is named by its tab and a slot. The page is the list of runs, which refetches on every event.
Delays (back-off, debounce) are left out: timers fire in every order. `Visible` is bounded so that a
slot is left for each timer that is armed; without that the streams of a tab have no bound.
Not distinguished: 401 with a refresh, which is part of a request; a failed refresh is a `Logout`.

Of ioredis the model supposes that commands are answered in order, that they wait while there is no
connection and are rejected after `maxRetriesPerRequest`, and that a connection that comes back has the
subscriptions it had.

### Artifacts: from the upload to the cleanup

`late` are uploads the reporter has given up that may still arrive, `objects` the keys in S3, `rows` the
table with the day each row was made, `inserts` the transactions of `artifact.upload` that have found
the object and not committed. `lock` and `cleanup` are the job: the process that holds the advisory lock,
its batch, what it has deleted. `today` and `faults` bound days and failures.

| Action | Code |
|---|---|
| `Presign`, `Skip`, `Upload`, `GiveUpLoudly`, `GiveUp`, `ArriveLate`, `SendEvent` | `processArtifacts`, `presign`, the PUT to S3 |
| `Head`, `Insert`, `RollBack` | `ArtifactUploadHandler` |
| `Start`, `Fetch`, `DeleteObjects`, `DeleteRows`, `Commit`, `DatabaseFails`, `Crash` | the loop of `ArtifactCleanupService`, one transaction over all batches |

### Sessions: cookie, access tokens, refreshes

One browser with several tabs. `live` are the refresh tokens that are not revoked, `cookie` the one the
browser holds, `user`, `token` and `starting` the state of `AuthProvider` in each tab, `promise` the
`refreshPromise` requests wait for, `req` the requests of `authenticatedFetch` by slot, `refresh` the
refreshes on their way, `logouts` the posts of a logout. `ended`, `excuses` and `left` are history
variables: why a session has ended, and what happened that may end one. A refresh is `Read`
(`find_refresh_token_by_hash`), `Rotate` (revoke and store the successor) and its answer, which are three
steps, as in the code; `Refresher` is a request of a tab or its `silentRefresh`.

### Membership, ProjectTokens, LoginThrottle, Lists

| Module | State and the code it is |
|---|---|
| `Membership` | `users`, `organizations` (with their slugs), `members`, `invitations`; `call` is each `register` under way: `Register`, `Insert` (a clash of slugs is retried with a suffix, or taken for a clash of addresses), `Validate`, `Accept`, and the token that is stored in the end |
| `ProjectTokens` | `projects`, `tokens` with what is revoked, `request` of the ingestion API: `Lookup` by prefix, `Verify` of hashes, `Store`; `late` is a history variable: tokens revoked before the request came |
| `LoginThrottle` | `count` and `expiring` are the key in Redis and whether it has a time to live; `login` where each attempt is: `Check`, `Succeed`, `Fail`; `unlimited` is a history variable |
| `Lists` | `created` and `status` the rows, `query` what is asked, `page`, `shown` and `total` the answer: its rows and their number are two statements, and others write between |

### Gateway

`req` is each request: what the client sent (`bearer` or project token, headers it `claim`s), what the
guards made of it (`context`), the headers that go on, and where it is. `hits` counts the throttle,
`seats` is `connectionCounts` of the query API behind it, `up` whether that is there. `Enter`,
`Authenticate`, `CheckToken`, `Forward` are middleware, guards and proxy; `Handle` is the service behind
with the guard that trusts the headers; `Leave`, `TearDown`, `Stop` and `Restart` end streams.

### What pages show: PageData, SearchParams, Onboarding, RegisterPage

| Module | State and the code it is |
|---|---|
| `PageData` | `api` is the state of each `useApi`: key, last answer, request on its way. `org`, `stored` and `selected` the projects of the provider, `view` and `link` the page, `version` what the database holds, `note` and `timer` notifications and their debounce |
| `SearchParams` | `url` and `past` are the history of the router, `rendered` the parameters of the last render, `text` and `timer` the inputs of `useDebouncedParam` |
| `Onboarding` | `post` are projects being created, `known` the provider's projects, `requests` and `loading` its fetch, `card` and `open` the card for newcomers and the dialog, `submitting` and `active` what they do |
| `RegisterPage` | `link` is where the URL with the invitation is; `check`, `inviteLoading` and `inviteData` the effect that validates it, `valid` what the database says; `form`, `error`, `loading` and `post` are `handleSubmit`, `account` what became of its request; `auth` is `AuthProvider`: the user it shows, whose token it holds, `silentRefresh` on its way; `overtaken` in it is history |

### What errors and analytics are made of: Fingerprints, ErrorExplorer, Analytics

`Fingerprints` takes a message apart as the reporter does and builds the signature of the worker; the
regular expressions are what they take out.

`ErrorExplorer` has `occurrences`, and the statements of the list, timeline, detail and summary one by one,
with the worker between them. Every `ORDER BY ... LIMIT` is `Highest`: the sets of that size that no other
row outranks, as rows that are equal come in any order. That holds for the page of a list, the groups of the
timeline, and the tests (at most 20) and branches (at most 10) of the detail, whose limits are the constants
`DetailTestsLimit` and `DetailBranchesLimit`. What the detail lists of them is told by its sum, and by
whether these are all (`allTests`, `allBranches`).

`Analytics` has `daily_run_stats`, the statements of summary, trend and comparison under the clock of their
transaction, and the health score in integers. `finished` says of a run where, when and by what it has ended:

| Action | Code |
|---|---|
| `Finish` | `RunEndHandler`, which adds the run to the row of its project and day; before `Deploy`, the worker that kept no rows |
| `Cleanup` | `cleanup_orphaned_runs()`, which sets `finished_at` and touches no row |
| `BackfillSelect`, `BackfillInsert` | the one statement of `backfillDailyStats`: it reads the finished runs as they are when it starts, and inserts, `ON CONFLICT DO NOTHING`, when others have written in between |

A row is the set of its bookings, and adding a run to a row books it once more (`Another` numbers the
bookings), so a run that is added twice counts twice: `Total` sums over bookings. `finished_at` and the rows
change in one step, as they are one transaction of the worker (`HandlerTransactions`).

### The modules that check them

`MC` modules give the constants their values. `MCResultProcessor`, `MCNotifications`, `MCArtifacts`,
`MCSessions` and `MCPageData` extend one module. `MCInterleavings` adds `HandlerTransactions` to the
worker. The others extend a module that composes several:

| Module | Composes | As |
|---|---|---|
| `SpecHiveReporter` | `Reporter`, `ReporterTests` | the conjunction of both specifications |
| `Accounts` | `Sessions`, `Membership`, `ProjectTokens`, `LoginThrottle`, `Lists` | the conjunction of the five |
| `Dashboard` | `Gateway`, `PageData`, `SearchParams`, `Onboarding`, `RegisterPage`, `Fingerprints`, `Analytics`, `ErrorExplorer` | one of the eight, named by `part`, which never changes |

What is put together shares no state, each part has variables of its own (a name that two parts use is
another in one of them: `kept` is `stored` of `ErrorExplorer`), and the theorems are about these
compositions. A run need not interleave the parts: in `MCAccounts`, `MCPages` and
`MCInterleavings` a behaviour moves one of them and the others keep still. It says of each what a run of
its own would say. `HandlerTransactions` and `ResultProcessor` tell of the same tables, but each has its
own copy.

## 3. The runs

| Run | Bounds | Checks |
|---|---|---|
| `worker_interleavings` | 2 calls of one event each, events `TwoEnds` (a nested suite, a failed test, two `run.end`), 1 crash; 3 transactions statement by statement; 0.78 million states | `TypeOK`, `CountersMatchInbox`, `RowsReflectInbox`, `DailyStatsCountRunsOnce`, `CountsWillBeAnnounced`, `TransactionsHold`, `ImplementsLedger` |
| `worker_delivery` | 1 call, batches of up to 3, events `Mixed` (a flaky test, `suite.end`, an unreadable event), 1 failure, 1 crash; 1.5 million states | `FlakyStatsMatchInbox`, `ConfirmedIsAccepted` |
| `worker_liveness` | `FairSpec`, 1 call, batches of up to 2, events `Plain` with or without the `run.end`, 1 crash; 26 thousand states | `StoredIsAccepted`, `OpenRunsClose` |
| `reporter` | `FairSpec`, 5 events, a queue of 2, 1 retry; tests of which one is expected to fail and some are serial; 0.33 million states | `Typed`, `EveryEventAccounted`, `SentInOrder`, `DrainedIsSettled`, `PlayedIsReported`, `OnEndResolves`, `EventsAreSettled` |
| `notifications` | 1 tab with 2 streams at once, 2 organizations, 1 connection each; 1 broken stream, 1 loss and 1 end of the Redis connection; 0.85 million states | `TypeOK`, `ProviderLives`, `QuietStreamsHear` |
| `notified_pages` | `FairSpec`, 1 tab with 2 streams, 1 organization with room for both; 1 broken stream, 1 loss, 1 restart of the API; 0.14 million states | `NotifiedTabsRefetch`, `ReconnectRefetches` |
| `artifacts` | `FairSpec`, 3 artifacts of which 1 foreign, 2 workers, batches of 1, 2 iterations, 3 days, 1 fault; 0.29 million states | `TypeOK`, `RetainedHaveObject`, `DeletedLeaveNoObject`, `ExpiredGoAway`, `PendingSettle`, no deadlock |
| `accounts` | 2 tabs of 2 slots, 2 organizations, 3 refresh tokens, 1 excuse; 1 invitation, 2 calls of `register`; 2 project tokens with one prefix; 3 logins, limit 2, 2 outages; 3 rows, pages of 1; 0.78 million states | `Typed`, `OneRefreshPerTab`, `SessionEndsForAReason`, `LiveTokensAreHeld`, `AdmittedAsInvited`, `PagingMissesNothing`, `GuardsHold` |
| `pages` | 2 requests at the gateway; 2 organizations with 2 and 1 projects, 2 acts, 1 failure; 2 inputs and a button, 4 events; 2 groups of errors, 2 runs, 2 errors, lists of 1 test and 1 branch; 3 runs of 3 projects over 3 days; 10 messages, 3 reports; 3 projects for a newcomer; 2 validations of an invitation and 1 failure for who registers; 1.7 million states | `Typed`, `PagesShowWhatIsAsked`, `ExplorerHolds`, `AnalyticsAddUp`, `ServedForTheBearer` |
| `deaf_stream` | violated | `EachStreamIsSubscribed` |
| `wrong_password` | violated | `WrongPasswordKeepsSession` |
| `one_project` | violated | `OneProjectShowsErrors` |

Why the bounds are enough. Two calls that each hold one event give every pair of transactions and
notifications a chance to overlap, and every order of events, since `Deliver` picks any unconfirmed
event; larger batches add the priority order and the all-or-nothing answer, which a single call shows.
One run suffices for what is per run; the second `run.end` is on another day, so that a booking on
the wrong day or a second booking is visible. One crash between any two steps is followed by every
redelivery. In the reporter, three events can be waiting or going at once while the queue holds two, so the
queue overflows, and one retry is enough for an abandoned request to overlap with its successor.

In the notifications, two slots let two streams of a tab overlap, which is where the bookkeeping of timers
and callbacks goes wrong; one break with a stream that is refused already leaves a timer nobody holds; one
loss of the connection is enough for a command to be rejected and for the resubscription. The refused request
(`TooMany`) and the switch of the organization are in `notifications`, the restart in `notified_pages`.

A refresh token needs a predecessor and a successor, so three tokens show a rotation that overlaps with
another; two tabs with two slots show requests that wait for one refresh, and refreshes of two tabs. One
excuse is enough to end a session and to see what happens after it. Two calls of `register` race for one
invitation and one slug. Three logins against a limit of two show an attempt that was checked before the
others were counted. Three rows on pages of one show a row that moves while the reader turns; rows in
`MCAccounts` are asked for by one status, which stands for both. Two artifacts and batches of one make a
cleanup that stops between two batches; the third is of another project. In the analytics three projects
are the fewest for which the median counts, and three days the fewest in which a period of one day has a
predecessor and midnight can pass; one project alone is asked for over one day, all of them over two. The
third run ends only where all projects are asked for, no run was closed by the cleanup and the backfill is
not between its two steps (`FewEnd`): two runs are enough for one of the worker and one of the backfill, or
of the cleanup, to meet in a row, and three for the median. Two errors of two tests or two branches exceed
the limits of the detail, which are 1 here, and the second test is there only where the page counts tests
(`OneTest`).

The runs allow the system to stop (`CHECK_DEADLOCK FALSE`) except `artifacts`: when all events are
confirmed and the timers have fired there is nothing to do, a finished test run does nothing more, and
requests and acts are bounded.

Symmetry is used in `worker_interleavings` (calls, transactions), `notifications` (slots), `accounts` (tabs,
slots, organizations, two rows of a list) and `pages` (projects, requests of the gateway, tests, groups of
errors), with safety properties that name none of these. Where one part moves and the others keep still,
a permutation acts on all of them: what exchanges two transactions exchanges the two calls as well, what
exchanges two projects exchanges two requests, and the rows of a list bear the names of the slots. Each of
these leaves every part as it is, so the symmetry is sound; fewer permutations are tried on a state.

What the violated runs show:

* `deaf_stream`: `sse.controller.ts:20` says each connection holds a Redis subscription. When the last
  stream of an organization closes before its SUBSCRIBE is answered, `unsubscribe()` deletes the channel
  from `subscribedChannels`, then the answer adds it again (`redis-pubsub.service.ts:53`): the next stream
  finds it there and sends no SUBSCRIBE.
* `wrong_password`: `profile-page.tsx:78` answers a 401 of its form with "Current password is incorrect".
  The 401 never gets there: `authenticatedFetch` takes it for an expired access token
  (`api-client.ts:138`), refreshes, sends the wrong password again and logs the user out at the second
  401 (`api-client.ts:144`).
* `one_project`: `error-explorer-page.tsx:156` asks the user to select one project. In an organization
  with one project, who selects it has selected all (`project-context.tsx:66`), and the page keeps asking.

Seen while modelling, and described here only:

* A tab can have two streams. `reconnectTimer` keeps the id of a timer that has fired
  (`sse-context.tsx:129`, `:131`), so after one reconnect a tab that becomes visible opens a second stream
  beside the healthy one.
* After `switchOrganization` the stream stays with the old organization until it breaks, as the effect of
  `SseProvider` depends on `isAuthenticated` alone (`sse-context.tsx:148`).
* `handlers/test-end.handler.ts:182` says the aggregate counters of error groups are recounted by
  `RunEndHandler`; they are not, and nothing reads `total_occurrences`.
* `result-processor.service.ts:183` says the events without a notification change nothing the dashboard
  tracks; the first `test.start` moves the run from pending to running.
* The keys of requests carry no organization. After `switchOrganization` a `useApi` whose key is the same in
  both organizations asks for nothing (`use-api.ts`), and keeps the answer of the organization before on the
  screen.
* A client that leaves before the guards of the gateway have answered leaves a stream that nobody closes
  (`proxy.service.ts:99`).
* Two projects created quickly: while the projects are fetched again, a selection the provider does not
  know counts as all, and the card may generate a token for the other project. While the page waits for an
  answer the card is unmounted, and a token that is asked for or shown then is lost. With several projects
  selected, the button of the second step does nothing.

* Who registers through an invitation is told afterwards "You're already logged in. Please log out to
  accept this invitation." (`register-page.tsx:101`), though it was accepted: the page stays where it is.
* A registration that is answered before `silentRefresh` ends with the token of the user of before and
  the name of the new one.

## 4. Fairness

`ResultProcessor!Fairness`: Outboxy delivers every unconfirmed event again and again. It is strong
fairness on "some call delivers `e`", since a call may be busy in between; Outboxy retries until its
batch is confirmed. A call that is served goes on (weak fairness on `ProcessEvent`, `Notify`,
`Respond`): the loop awaits database calls, which return or fail. Timers fire, time passes and the
hourly job runs. Nothing is assumed of crashes or failures, which are bounded, so that they
end. Outboxy gives up at some number of attempts; a run in which it does is not covered by the
liveness properties.

`Reporter!Fairness`: timers fire, and what is resolved goes on. Every `fetch` has an abort timer, so an
attempt ends whatever the server does; no answer is assumed. The timers of the retries and of the flush
are `unref`ed: if nothing else keeps the process alive it may exit first, which is a crash of the
reporter and not modelled.

`Notifications!Fairness`: requests are answered, streams that are gone are noticed at both ends, what has
arrived is read, timers fire, a refetch is done, and the connection to Redis is made, comes back and answers.
Nothing is assumed of publications or of the streams' health; breaks, losses and restarts are bounded. A page whose notifications
come less than 500 ms apart for ever postpones its refetch for ever, which fairness of `Refetch` leaves out.

`Artifacts!FairSpec`: days pass, the job starts daily in some process, a cleanup that holds the lock goes
on (its calls return or fail), and an event that is not settled is delivered again. Failures are bounded;
an object that S3 refuses for ever holds back every later batch, and `ExpiredGoAway` does not cover it.

## 5. What the properties rest on

Worker:

* `DailyStatsCountRunsOnce` and `ImplementsLedger` suppose `OnlyTerminalEnds`: the event schema
  accepts `run.end` with status `running`, which `RunEndHandler` books and leaves open to be booked
  again. The reporters of this repository send passed, failed and cancelled only.
* The statements on rows, days and names are proved under `OneStartPerTest`: no two `test.start` events name one test. The
  reporter sends it at the first attempt only, with an id from `crypto.randomUUID()`
  (`playwright-reporter/src/index.ts:184`). Both hypotheses are `ASSUME`d of the events in
  `MCResultProcessor`, so that TLC evaluates them.
* `StoredIsAccepted` supposes `ReporterGuarantee`: a suite id names one suite, and references point
  to things that are started. It holds of the reporter's deterministic ids; a clash drops the suite and
  its tests are then refused at each delivery.
* `CountsWillBeAnnounced` speaks of executions without a crash. After one, the last `test.end` of a
  run may be announced by nobody: its redelivery is a duplicate, and duplicates publish nothing.
* `DailyStatsCountRunsOnce` bounds the daily test counters from above only: ends of tests that come after
  `run.end` count in the run and not in the day.
* `TransactionsHold` supposes that two cleanups scan the runs in one order.

Reporter: `PlayedIsReported` speaks of runs that have finished and of tests that are expected to pass. One
that fails as expected with retries left, or is interrupted, never gets a `test.end`.

Notifications:

* `QuietStreamsHear` leaves out channels whose last stream closed while their SUBSCRIBE was to come (what
  `deaf_stream` shows) and executions in which ioredis gave the connection up: its `end` handler leaves open
  streams without a subscription. The default retry strategy never gives up.
* `NotifiedTabsRefetch` and `ReconnectRefetches` speak of sessions that were connected before: the first
  connection does not make the page refetch. With a limit that the tab's own second stream exhausts, the
  first would not hold: the reconnect is then refused as long as the second stream lives.

Accounts:

* `SessionEndsForAReason` counts as reasons a changed password, a refresh token that expired, was replaced
  or got lost with its answer, and two requests that rotated the token at once. The last is a reason
  because the code has it: the tab that comes second is logged out.
* `LiveTokensAreHeld` speaks of the time before the first of these: after it, a live token may be left
  that nobody holds, until it expires.
* `PagingMissesNothing` speaks of orders by `created_at` and of lists without a status filter. Rows that
  change under a filter, or in an order that changes, do shift the pages.

Pages:

* A notification that comes before the first answer of a run's page is ignored, and the suites and the
  open test are not asked for again; `NotifiedPagesAreCurrent` excepts both.
* `InputsReachUrl` excepts behaviours in which a change of the URL was taken back before the page rendered it
  (`unseen`): an input then keeps a text that nothing pushes any more.
* `PagesShowWhatIsAsked` compares what is shown and what is asked for by the key of the request.
* `TokenIsForTheSelected` speaks of newcomers whose provider has settled and whose requests did not fail.
* `TokenIsTheUsers` excepts a registration that overtakes the session being restored; `InvalidHasEnded`
  speaks of validations none of which failed, as the page takes a failed request for an invalid link.
* `StatementsFollow` compares the page of a group with its row in the list by tests only if all its tests are
  listed, and by branches only if all its branches are: past 20 tests or 10 branches the code lists fewer
  errors than the row counts. Tests and branches are compared with each other if all branches are listed.
* `RowsCountOnce` promises a run before the deployment its place in the rows only where the backfill finds no
  row of the day: a day with a row of later runs is skipped and stays short. Of a run the cleanup has closed
  it promises only that it is not counted twice: the worker never counts it, the backfill does if it finds
  its day without a row. How the statistics should treat orphaned runs, the code does not say.
* The rows of `daily_flaky_test_stats` are backfilled by a statement of the same form, which is not modelled.
* The score of an organization may lie outside those of its projects, as it is no mean of theirs.

## 6. Proofs

Every theorem holds for all values of the constants that satisfy the named assumption of its module:
any events, calls, processes, tabs, slots, rows and bounds. "Part of" says that a run checks the
property inside a conjunction with those of other modules.

| Theorem | States |
|---|---|
| **ResultProcessorProofs** | |
| `TypeCorrect` | `Spec => []TypeOK` |
| `CountersCorrect` | `Spec => []CountersMatchInbox` |
| `RowsCorrect` | `OneStartPerTest` implies `Spec => []RowsReflectInbox` |
| `DailyStatsCorrect` | `OneStartPerTest` implies `Spec => []DailyStatsCountRunsOnce`, itself about `OnlyTerminalEnds` |
| `FlakyStatsCorrect` | `OneStartPerTest` implies `Spec => []FlakyStatsMatchInbox` |
| `CountsAreAnnounced` | `Spec => []CountsWillBeAnnounced` |
| `ConfirmedWasAccepted` | `Spec => []ConfirmedIsAccepted` |
| `FinishedStays` | `Spec => FinishedIsFinal`: a finished run keeps status and time |
| `WorkerImplementsLedger` | `OnlyTerminalEnds` implies `Spec => ImplementsLedger` |
| **HandlerTransactionsProofs** | |
| `TransactionsAreSteps` | `TxnSpec => TransactionsHold`: types, no deadlock, and the refinement of `HandlerSteps` |
| `RunsAreBookedAtOnce` | `TxnSpec => []BookedAtOnce` |
| **ReporterProofs** | |
| `TypesKept` | `Spec => []TypeOK` (part of `Typed`) |
| `NothingGoesMissing` | `Spec => []EveryEventAccounted` |
| `OrderIsKept` | `Spec => []SentInOrder` |
| `DrainIsComplete` | `Spec => []DrainedIsSettled` |
| `ReporterTyped` | `TestRunSpec => []Typed`, of both parts of `SpecHiveReporter` |
| `PlayedAreReported` | `TestRunSpec => []PlayedIsReported` |
| **NotificationsProofs** | |
| `NotificationsTyped` | `Spec => []TypeOK` |
| `ProvidersLive` | `Spec => []ProviderLives` |
| `StreamsHear` | `Spec => []QuietStreamsHear` |
| **SessionsProofs** | |
| `SessionsTyped` | `Spec => []TypeOK` (part of `Typed`) |
| `RefreshIsShared` | `Spec => []OneRefreshPerTab` |
| `SessionsGoOn` | `Spec => []SessionEndsForAReason` |
| `NoTokenIsLeft` | `Spec => []LiveTokensAreHeld` |
| **ArtifactsProofs** | |
| `ArtifactsTyped`, `RetainedIsThere`, `NoObjectIsLeft` | `TypeOK`, `RetainedHaveObject`, `DeletedLeaveNoObject` |
| **AccountsProofs** | the parts first, then `Accounts` |
| `ThrottleCorrect` | `TypeOK` and `ThrottleHolds` of `LoginThrottle` (part of `GuardsHold`) |
| `TokensAdmit` | `TypeOK` and `StoredWithActiveToken` of `ProjectTokens` (part of `GuardsHold`) |
| `InvitationsAdmit` | `MembershipSpec => [](MembershipTypeOK /\ AdmittedAsInvited)` |
| `ListsAreRead` | `TypeOK` and `PagingMissesNothing` of `Lists` |
| `AccountsTyped`, `GuardsAreKept`, `NothingIsMissed` | `AccountsSpec => []` of `Typed`, `GuardsHold` and `PagingMissesNothing` |
| **PagesProofs** | the parts first, then `Dashboard` |
| `GatewayCorrect` | `Spec => []ServedForTheBearer` |
| `GatewayTyped` | `TypeOK` of `Gateway` |
| `PagesShowTheLast`, `PagesTyped` | `PagesSettle` and `TypeOK` of `PageData` |
| `ParametersFollow` | `TypeOK` and `ParametersAgree` of `SearchParams` |
| `NewcomersAreLed` | `TypeOK` and `OnboardingHolds` of `Onboarding` |
| `RegistrationIsTold` | `TypeOK` and `RegistrationHolds` of `RegisterPage` |
| `ErrorsAreGrouped` | `TypeOK` and `FingerprintsHold` of `Fingerprints` (part of `ExplorerHolds`) |
| `ErrorsAreTold` | `TypeOK`, `TimelineTellsTheList` and `StatementsFollow` of `ErrorExplorer` (part of `ExplorerHolds`) |
| `RunsAddUp` | `TypeOK` and `AnalyticsAddUp` of `Analytics` |
| `DashboardTyped`, `PagesAreTrue`, `AnalyticsAreTrue`, `ErrorsAreTrue` | `DashboardSpec => []` of `Typed`, `PagesShowWhatIsAsked`, `AnalyticsAddUp` and `ExplorerHolds` |

The arguments:

**The worker.** `TypeInv` is `TypeOK` and that `tests` is finite: without it the number of retried
tests need not be a number, and the statistics of a day would lose their type. On top of it
`CountersMatchInbox` is inductive by itself, because `Accept` is the only action that touches inbox or
counters, and it adds one event that was not in the inbox: the lemma on cardinalities of a set with
one more element does the rest. `FlakyStatsMatchInbox` goes the same way, name by name and day by day.
`ConfirmedIsAccepted` is not a consequence of the state before a `Respond` alone; `CallsAccountForEvents`
says that in an open call each event of the batch is still left, or in the inbox, or unreadable, or the
call has failed. A crash or a lost response ends the call, so it keeps the invariant trivially; `Reject`
and `Fault` keep it by setting `failed`. `CountsWillBeAnnounced` needs `OneToNotify`: the event a call
has committed and not announced is its own, so that the run that became dirty has it.

`RowsReflectInbox` rests on `RowsInv`: rows have runs, come from a start in the inbox, one row per test,
say what an accepted end said, groups have occurrences, and suites are nested in their run. `OneRowPerTest`
is where `OneStartPerTest` enters. `DailyStatsCountRunsOnce` compares a sum over the runs of a day with
the counters of the day. `DailyInv` follows it run by run: `FinishTimes` says a run that a `run.end`
finished carries the time of one, `Fits` that the tests booked of it are no more than the ends in the
inbox, `DayMatches` that what a day counts is what its runs booked. `NamesMatch` is the step that carries
it over an `Accept` of anything but `run.end`. For the refinement, `RowsHaveRuns` is why an end of a test
is never tallied in a run the ledger does not know; then every action maps to a step of the ledger or a
stutter, one proof step per action.

**Its transactions.** Rows have a place in an order, and every transaction writes in it; so a transaction
that waits waits for one whose last written row is at least as high, and a circle contradicts itself at
its highest place. `WrittenByOne` and `ReadsStand` say that nobody else has written the row, and that what
a statement has read of it is what a later one finds; `BookedAreClosed` that only a closed run is booked.

For the refinement the question is what a transaction still knows at its commit, many statements after it
has read. `Seen` says so, step by step: the event is not in the inbox as long as nobody else can have
written its row; the test an end was written to is there; the run is as the statement on it has found it,
or is locked since, and the ends that were read of it are all there are. With `SeenInv` the commit of each
kind of event is the step of `HandlerSteps` (`StartIsAStep`, `EndIsAStep`, `CloseIsAStep`,
`CleanupIsAStep`), and what precedes it changes nothing committed.

**The reporter.** `IInv` has `TypeOK`, the queue's part and `StillToCome`, `OnEndWaits`. `QueueIsSuffix`
says that what is queued is what was enqueued last, in its order; `LetGoIsAccounted` that every event that
has left the queue is in one of the counts; `CallIsConsistent` and `OnlyTriedIsStored` tie the running
`sendEvent` and the abandoned requests to the head of what was taken. From these all three safety
properties follow without looking at the actions. Of a test, `AttemptsFit` says that the attempts are no
more than the retries allow and `StartsFirst` that its events are a start and then ends. `FinalIsReported`
says that, unless the run was stopped, the last attempt was reported as final if it is one: what Playwright
plays again has not ended as expected and has retries left, so the attempt it ends with is one that
`onTestEnd` takes for the final one.

**Notifications.** `HubInv`: the callbacks of a channel are the streams served for the organization
(`CallbacksAreStreams`); what Redis and the commands on the wire amount to is wanted by somebody
(`SubscribedAreWanted`), and what is wanted is known, waited for, or on the wire (`WantedAreSubscribed`).
Deaf channels are the ones excepted. `ProviderLives` is inductive with `TypeOK`: each action that ends
the attempt or the stream of a tab arms the timer or ends the session.

**Sessions.** As long as nothing has happened that may end a session, the state is `Calm`: at most one
request rotates, the browser's cookie or its single successor is live, a refresh in flight carries the
live cookie, and `silentRefresh` is alone in its tab. `Sound` and `PromiseIsRefresh` tie each promise to
one refresh, `Undisturbed` is `Calm` under the condition, `OnlyHeld` the same seen from the live tokens.
`SessionEndsForAReason` follows, as in a calm state a refused request has a refresh that succeeds.

**Artifacts.** `FoundAreThere` (an insert has its object), `RowsAreHandled`, `LateAreGivenUp`, and
`CleanupIsRight`: the batch of a cleanup holds expired rows only, those it has deleted from S3 are the
ones it will delete, and only the holder of the lock has one.

**Guards.** For the throttle, `count` and the attempts that are checked are at most the limit, less one,
and the number of logins and outages; without a time to live the count is bounded by the outages. For
tokens, `ReadIsKnown` says that what a request has read are rows with their project; rows never change
it. For invitations, `CallsAreInvited`, `AdmittedOnce` and `MembersFit` follow a call from its check to
its transaction, which checks again.

**The lists.** The place of a row is the number of rows up to it in the order that is asked for: updates keep
it and rows that come can only raise it. `Ahead` says, step by step, that a row the reader could have seen at the
first page has been shown or has a place beyond the pages read; a page shows the rows of its places
(`PageOfPlaces`). A place is at most the number of rows, and as this is counted after the rows were read, the
last page leaves no place ahead (`PagesAreEnough`). In a tree of suites, what the page shows under a suite has
a path to it that is no longer than there are suites, and the recursive statement follows each of its steps
(`TreeIsReached`).

**The gateway.** The headers of a forwarded request are a function of the context its guards made, and
that of the verified token (`OnWay`); `seats` is the cardinality of the streams an organization has open,
action by action. The types of requests are part of the same invariant.

**The pages.** `HooksSound`: of the requests of a `useApi` only the last is not aborted, its key is the
hook's, and every answer is one to the key of its request; so what is shown when nothing is under way is
the answer to what is asked. `UpToDate` adds the versions: a page that listens shows the current one, or a
notification, a timer or a missed change is outstanding. For the types, the answers to the request for
projects are of the organization they were asked of, so that what is selected stays among its projects.

**The parameters.** A timer runs only for a text that differs from what is rendered (`TimersDiffer`), and
without a timer the text is that of the URL (`TextsReach`). Together with `Fitting` - pages within the
last, whatever changes a filter goes to the first - this is inductive.

**Newcomers.** Each of a provider's requests that is answered has every project that was made before it was
sent. Only the last counts (`OneCounts`), and it was sent after whatever the user was told of, so its answer
has all of that (`AnswersHaveAll`); when it is there, nothing that was made or selected is unknown
(`SettledKnows`).

**Registration.** `EndedAnswers` follows the answer on its way: it says invalid only of an invitation that
has ended, as none comes back to life. `RestoringIsAlone` says that a session that may still be restored is
the only one, unless a registration has overtaken it.

**Errors.** In `Fingerprints` a key is made of the structure of a message or of its first line, whose
domains differ; so a key tells by its fields or its line what the message was about (`Grouped`), and two
reports with one key are of one error. `Informed` says that a group knows no less than each report in it.
In `ErrorExplorer` the rows and series that were read never exceed what is there now, and are equal to it as
long as nothing has been stored since (`ListInv`, `TimelineInv`). If nothing was stored between the two
reads they agree when the later is read; `TellsInv` remembers it while the worker stores more. `TopIs` says
what every `ORDER BY ... LIMIT` returns. For the page of a group, `ListedAre` says that what is listed by tests
or by branches is no more than the errors of the group, and all of them if nothing was cut off; errors are
only added, so `DetailInv` has the row of the list below the first statement, and that below the second.

**Analytics.** `RowsCountOnce` needs to know what the backfill is about to write. `BackfillRight` says that
what it has read are runs that have ended, every one from before the worker kept rows among them, and that as
long as it has not written, the rows hold bookings of the worker only. So when it writes, a day without a row
has no booking of the run, and a day with one has a run the worker booked, which is the exception the property
names. A run books once because the worker's end and the cleanup both ask that it has not ended
(`FinishKeeps`, `CleanupKeeps`, `BackfillInsertKeeps`), and a booking that is right is the only one of its run
(`BookedOnce`). While the rows grow, what a statement has read of them stays (`Growing`, `SummaryRight`,
`ComparisonRight`); the two periods are taken from one clock and share no day, so no answer has a run twice.
The days of the trend hold what the summary has summed up, as they were read after it.

The totals are folds over the bookings in an order nobody knows. `SumsExist` and `SumsAlike` say that the equation
a fold is chosen by has one solution, `SumTakesAny` and `SumOfBoth` that any booking may be taken first and
that sets that share none add up; `BySubsets` is the induction they rest on. `Compared` says that the projects of
a comparison have runs, and each its own. What a rounded rate says of its numerator and denominator is `Within`,
which two fractions hand on to their mediant (`WithinAdds`): so the rate of all runs lies between the least and
the greatest of the projects. Every part of the score rises with the rate of passed tests and falls with that
of flaky ones (`CleanRises` to `HealthRises`), with a median that exists (`NthIsThere`). The totals fit
(`TotalsFit`) because of what is assumed of each run: a test that has ended counts as one test and in at most
one outcome (`test-end.handler.ts:190`).

**The compositions.** In `SpecHiveReporter` and `Accounts` each part implies its invariant, whatever the
others do, as no part reads the others' variables. In `Dashboard` the part that moves is always the same
(`OneMoves`), so a property of that part is all there is to show.

With that every safety property of the runs that pass is stated and proved. Only model-checked is every
liveness property (`StoredIsAccepted`, `OpenRunsClose`, `OnEndResolves`, `EventsAreSettled`,
`NotifiedTabsRefetch`, `ReconnectRefetches`, `ExpiredGoAway`, `PendingSettle`), as TLAPS does neither
liveness under fairness nor `ENABLED`. The induction theorems of the library take an operator, which the
provers at hand cannot instantiate. Where a proof needs induction it is over sets in their place: the
subsets of a finite set that lack a property have a smallest one, and a set of numbers a least, by the
well-foundedness of the strict subset relation (`BySubsets`, `LeastNatural`).

## 7. Not modelled

Seed data and the performance baseline (scripts outside the running system), declarations of response
types, table definitions and migrations (which run once, at start), tenancy and row level security (the
properties would restate the policies), health checks, metrics and logging, the signatures of download
URLs, updates of a profile, the ranking of flaky tests, the titles of errors, and the rendering of the
dashboard.
