# A TLA+ model of the traffic-safety platform (PC08-Map)

This directory models the protocols of the platform in `src/`: how an SOS gets
from a citizen's phone into the database exactly once, how what happens to it is
announced through the outbox, how dispatchers follow and decide on it; how
reports and photographs are screened, how map versions live by the clock; and
the smaller components around them. TLC checks the modules on small instances;
TLAPS proves the safety properties for every value of the constants. Paths below
are relative to `src/`.

## The system

A pnpm monorepo in TypeScript. A NestJS API and a worker process share one
PostgreSQL database; the worker talks to RabbitMQ and S3; a React Native app
and two web front ends talk to the API over HTTP.

```
phone queue --HTTP--> SOS intake --tx--> incident.*, platform.outbox
 (keychain)            (API)                |              |
                                    ops feed (API)   outbox relay (worker)
                                            |              |
                                    console (ops-web)  RabbitMQ --> screening,
                                                            evidence, notifications
```

| Component | State | Operations | Interacts by | Hard because of | Correct when |
|---|---|---|---|---|---|
| Outbox relay (`apps/worker/src/outbox-relay.job.ts`, `rabbitmq-event.publisher.ts`) | `platform.outbox`, advisory lock, one session per run | append, run: lock, select, publish, mark | rows written by API transactions; broker confirms | overlapping ticks, lost sessions, lost confirms, crash between publish and mark | nothing is lost, nothing marked undelivered, duplicates only after faults |
| SOS intake (`apps/api/src/modules/incidents/incident.repository.ts`, `acceptSos`) | `platform.idempotency_keys`, `incident.*` | purge, claim, look up, work, commit | HTTP; one transaction also writes history, audit and outbox | concurrent retries of a key, expiry, lost commits and answers | one incident per key lifetime, durable acknowledgements |
| Incident lifecycle (`packages/domain/src/incidents`, `transition`) | incident row, `status_history` | accept, decide, (screen) | row lock, optimistic version | stale decisions, concurrent transitions | history is one walk through the graph |
| Operations feed (`feed`, `apps/ops-web/features/incidents`) | cursor and merged events of a console | fetch, merge, abort | HTTP pages | commit order differs from sequence order, late pages | what is shown goes back only by a page that crossed another; missed rows are explained |
| Mobile SOS queue (`apps/citizen-mobile/src/features/sos`) | keychain envelope, queue lock, active submit and drain | submit, drain, recover | HTTP to the intake; connectivity events | load/await/save interleavings, restarts, lost answers, keychain errors | no stored SOS is forgotten, none is shown acknowledged too early, all settle |
| Report intake and operations (`apps/api/src/modules/reports`) | `report.*` | create, link evidence, decide, mark duplicates | same idempotency table, outbox | same as intake; decisions racing screening | one report per key; duplicates resolved once |
| Report screening (`apps/worker/src/reports`) | inbox, report state, duplicate candidates | consume `report.received`, `report.evidence_linked` | RabbitMQ | redelivery, reordering, older-only matching | every report reaches verification; a pair is suggested once |
| Evidence upload and media worker (`apps/api/src/modules/evidence`, `apps/worker/src/evidence`) | uploads, objects, quarantine and immutable objects | initiate, finalize, scan, store, complete | S3, RabbitMQ, outbox | inspection before the transaction, lost locks, partial stores | READY only for what was scanned |
| Map versions (`apps/api/src/modules/map-data`, `apps/worker/src/map-lifecycle.job.ts`) | versions, features, transitions | draft, submit, approve, publish, expire, withdraw, archive | clock ticks, cache invalidation events | two clocks, overlapping ticks, two-statement reads | only effective approved versions are public |
| Map provider adapter (`packages/vietmap-client`) | cache, breaker per API | search, reverse, route, matrix | provider HTTP | late results against breaker state, stale cache | never older than allowed; a half-open breaker has its probe and recovers |
| Notifications (`apps/worker/src/notifications`) | claims, audits | dispatch | event, provider | crash after claim, failing completion | sent at most/at least once where promised |
| Idempotency executor (`apps/api/src/platform/idempotency`) | rows of `platform.idempotency_keys` | claim, take over, complete, release | handlers (none yet) | claims that expire under a running operation | operations of a key overlap only after one outlived its claim |
| Citizen sessions (`apps/api/src/modules/identity`) | `identity.citizen_sessions` | create, rotate | HTTP | concurrent rotation of one token | one live session per device |
| Authorization and evidence access (`packages/authorization`, guard in `identity`, `evidence-access.service.ts`) | revoked sessions, audit rows | decide, issue a read URL | every ops endpoint | queries failing between decision, URL and audit | no URL without its audit rows and scope |
| Analytics (`apps/api/src/modules/analytics`) | none | aggregate | at-least-once event feed | repeated, reordered, contradictory copies | the answer depends on the set of events only |
| Configuration (`packages/config`, `apps/worker/src/main.ts`) | environment of each process | validate, start | flags read by every module | loader and gates must agree | a process that starts serves what is turned on |

`PROJECT.json` lists all components with their status and every hazard with the
line where it bites and the properties that would catch it.

## The modules

**`EventDelivery`** - abstract: what a store-and-forward queue promises. What is
recorded reaches the receiver if it can, and is ticked off only after that.

**`OutboxRelay`** - implements it on the server. `Append` stands for the INSERT
of the outbox writer inside a business transaction. A run `r` (one call of
`runOnce`) is `Acquire`, `Select`, then per row `RejectRow` for an envelope that
does not parse, or the publisher (`Confirmed`, `Refused`, `Unconfirmed`,
`GiveUp`, one per outcome at an endpoint) followed by `Mark`, `MarkFails` or
`RecordFailure`, and `Finish`/`AbortRun` for the `finally` block. `SessionLost` is
the server ending a session (and with it its advisory lock) unnoticed; `Crash`
is the death of the process. Events are numbered by the relay's ORDER BY.

**`IdempotentIntake`** - abstract: an intake that decides every request in one
step against a ledger of keys that expire.

**`SosIntake`** - the statements of `acceptSos`: `Purge` the expired key, `Claim`
it (INSERT ... ON CONFLICT DO NOTHING, which waits for the row of an open
transaction), `Lookup` the stored response, `RejectType`, `Commit`. The rows a
transaction has written and the ones it waits for are the row locks of
PostgreSQL at READ COMMITTED. `CommitUnacknowledged` is a COMMIT that took
effect with its outcome lost, `Abort` every other failure.

**`IncidentDomain`** - `packages/domain/src/incidents/incident.ts` as operators:
graph, roles, reasons, and the public projection of the status.

**`IncidentFeed`** - transactions that accept and change incidents, each drawing
its `feed_sequence` at INSERT and becoming visible at COMMIT; the feed endpoint
(`Fetch`); and the console (`Merge`), whose dispatcher decides by what it shows.
Screening (`Screen`) is reserved to SYSTEM by the domain and performed by no
code in the repository yet; it is marked external. Two history
variables: `overtaken`, the numbers that were uncommitted when a page beyond them was
read, and `crossed`, the pages that were under way when their console merged another.
`MCIncidentFeed` adds the symmetry set.

**`MobileSosQueue`** - `SosSubmissionService` with its callers in `SosScreen`.
The promise chain `withQueueLock` is the FIFO `waiting`; an operation of a task
is `Load` (the awaited read) and a second step that saves, so another task can
run between any two. `OpFails` is the keychain throwing in any of them, `Crash`
the app being killed with only the store surviving. The server is the set
`accepted` - the intake while a key lives. It refines `EventDelivery` too.

**`AccessPolicy`** - `AuthorizationPolicy.evaluate` with roles, areas, teams,
cases and data classes, as operators that `MapLifecycle`, `ReportLifecycle`,
`OfficerAccess` and `TrustedEvents` use for their guards.

**`MapLifecycle`** - the versions of one public layer. An officer's call is
`BeginTransition` (session, policy, row lock, domain checks, maker/checker) and
`CommitTransition` or `AbortTransition`; a tick of the worker publishes what is
due, expires what has elapsed (`SKIP LOCKED`: it passes over rows that another
transaction holds) and commits, or aborts. Ticks overlap like the relay's runs.
The API decides with its own clock, which differs from the database's by a skew.
The public read is `SelectVersion` and `SelectFeatures`, two statements, driven by
a client that keeps what it got until an invalidation event. `MCMapLifecycle`
gives officers, proposals and uploads that pass or fail the preview, and a second
editor for the run about self-approval.

**`ReportDomain`, `ReportLifecycle`** - the transition rules of
`packages/domain/src/reports`, and reports from `Intake` over `AttachEvidence` and
the worker's `Screen`, `SkipScreened` and `RejectEvent` to the dispatcher's
`DecideReport`, `DecideDuplicate` and `Override`. Each is one transaction on a locked
row, hence one action. The queue is a set of messages with redelivery. The
idempotency rows of the intake are those of `SosIntake` and are not repeated.

**`EvidencePipeline`** - an upload from `Initiate` over the uploader's `Put`s - as
many as the signed URL allows, at any time - and the two steps of finalize
(`Inspect` the quarantine object, then `CommitFinalize`) to a worker's `Take`,
`Load`, `Examine`, `StoreImmutable`/`StoreConflict`/`StoreTooLong` per bucket,
`Complete` and `Ack`. `LoseSession` frees the worker's advisory lock without
stopping it; `Fail` is any await that throws; two workers may run different
releases of the image library, whose derivatives differ.

**`MCSosDelivery`** and **`MCWorker`** each put two of the modules above in one run of
TLC: the intake and the relay, which meet in `platform.outbox` only, and the two
consumers of the worker. As the two share no state, `focus` picks the one whose
actions a behaviour takes; the other stays as it started. `MCReportLifecycle` and
`MCEvidencePipeline` give the values of their constants.

**`MCPlatform`** composes seven components that share no state, in the same way:

* `ResilientMap` - cache, circuit breaker, retries and the deadline of
  `ResilientMapAdapter`; a call is `BeginCall` up to its await, then `Retry`, `Fail`
  or `Succeed`. Time is kept as what is left and as ages, so it needs no bound.
* `IdempotencyClaims` - `IdempotencyExecutor` over its table, a statement at a time.
* `NotificationDispatch` - `NotificationDispatcher` over its five ports, each of
  which may fail, with dispatchers that die.
* `CitizenSessions` - create and concurrent `rotate`.
* `OfficerAccess` - the guard, then `EvidenceAccessService.issue`, an await at a time.
* `RuntimeConfig` - what `loadAndValidateConfig` accepts, against the conditions
  under which the worker schedules a job and the API serves a feature.
* `TrustedEvents` - `aggregateTrustedEvents`, one copy of an event per step, against
  a definition over the set of copies.

**`OutboxRelayProofs`, `SosIntakeProofs`, `IncidentFeedProofs`, `MobileSosProofs`,
`MapLifecycleProofs`, `ReportProofs`, `EvidenceProofs`, `PlatformProofs`** - the
theorems.

Operators marked "Deviation" in a comment are single faults a later change could
introduce (a dropped guard, a swapped order). No action uses them: putting one in
the place of the definition next to it makes a run report a violation, which shows
that the run would notice.

## The runs

| Run | Shows | Bounds and why they are enough |
|---|---|---|
| `sos_delivery` | of the intake: key lifetimes, durable answers, no dead end, refinement of `IdempotentIntake`; of the relay: safety, `AtLeastOnce` and the refinement of `EventDelivery` | 3 requests on one key, so two can be open while a third retries; TTL 1 of 2 ticks, so the key expires between and during attempts; one fault. 3 rows, one malformed and the oldest, a batch of 2, two overlapping runs, two endpoints, 2 refusals, 2 faults: a run can lose its session while another repeats its work, and a fault can hit the repetition |
| `outbox_relay_starvation` (violation) | `AtLeastOnce` fails with as many malformed rows as a batch holds | 2 malformed rows, batch of 2 |
| `incident_feed` | walk, decisions, public status; what a console shows and misses | 2 incidents, 2 transactions, 1 console, pages of one row, 2 pages under way, 5 status changes: enough to verify and assign an incident, and to be overtaken by the other. Symmetric incidents and transactions; no liveness is checked |
| `incident_feed_gap` (violation) | `NoGap` fails | 2 transactions committing in the other order |
| `incident_feed_late_page` (violation) | `NeverGoesBack` fails | 1 incident, 1 transaction, 2 pages under way, 3 history rows |
| `mobile_sos_queue` | one item at a time is marked as being sent, refinement of `EventDelivery` (`KeepsPromise`), `EverySosSettles` | 2 items, so that an older one is under way while the newer is stored; 2 faults of any kind: a restart can follow a failed send or a failed save |
| `mobile_sos_queue_online` (violation) | `OnlineSubmissionIsSent` fails without any fault | 2 items, no fault |
| `map_lifecycle` | one walk per version, what is shown was submitted by one and approved by another, the clock is kept, a client's cache catches up | 2 versions, so that one replaces the other; 2 ticks and 1 officer's call, which can meet on one row; a clock that passes both ends of a window; one editor, an approver and a principal with both roles; API clocks that agree or lag by one; one fault |
| `map_self_approval` (violation) | `AuthorDoesNotApprove` fails | 1 version, a second editor, no fault. The second editor is not in `map_lifecycle`, whose states it multiplies by four; `ShownWasReviewed` is proved for any officers |
| `worker` | of reports: duplicates name their original, every report is queued, resolutions stay; of evidence: READY is what was scanned, decisions are final, honest uploads are kept, every scan ends | 3 reports of one scene and at most 1 candidate, so that the limit is hit; a report can own two photographs; the events of report 2 may come again; a dispatcher in scope, one out of scope, one of another role. 1 upload, 2 workers of different builds, so that one is overtaken; a photograph and an infected file of one size; 2 finalize calls; 3 faults: a lost session, a failure and a repeated delivery together |
| `report_duplicates` (violation) | `DuplicatesAreFlagged` fails | 2 reports, no redelivery |
| `platform` | ten properties of the seven components | 3 callers against a threshold of 2, so that a straggler meets a probe, and 3 failures; 3 executions of one key with two hashes; 2 dispatchers, a repeated copy, 2 faults; 2 devices, 3 sessions, 2 rotations; 1 request with three tokens and two objects, a fault at any step; two deployments with any 2 edits of ten variables; ten copies of seven events, five queries |

`CHECK_DEADLOCK FALSE` stands where the system comes to its end: the bound on
status changes stops `incident_feed`, reports and evidence are done when all is
decided, sessions and executions of `platform` run out. The other passing runs check
for deadlock (a finished `SosIntake` stutters in `Finished`). State counts of the
runs: `incident_feed` 750 thousand, `sos_delivery` 270, `worker` 168, `platform` 152,
`map_lifecycle` 150, `mobile_sos_queue` 196.

`EveryReportIsQueued` and `EveryRequestAnswered` say that again and again nobody waits.
Reports and requests are finitely many and none goes back to waiting, so this is that
each of them gets there; as one formula rather than one for each it keeps the runs short.

### What the violations mean

* **Starvation.** `runOnce` always selects the oldest pending rows
  (`outbox-relay.job.ts:43`); a row whose envelope does not parse stays pending.
  `batchSize` such rows - `event_version` and `trace_id` are nullable for rows
  older than the migration (`infra/compose/postgres/05-core-data-tables.sql:200`)
  - fill every batch. README line 122 calls the relay at-least-once.
* **Gap.** `feed_sequence` is drawn at INSERT (`07-sos-vertical-slice.sql:8`), the
  feed reads `feed_sequence > cursor` (`incident.repository.ts:339`).
  `docs/plans/T07-sos-vertical-slice.md:86` promises "resume cursor has no
  gap/duplicate". `MissesOnlyOvertaken` is what does hold: nothing but this
  order of commits makes a gap.
* **Late page.** A page carries an incident's present version under the number of each
  of its history rows, and may end before the row of its latest change. Two pages
  read with one cursor can so end at the same number with different versions; the
  console refuses neither, and an item of the late one replaces the newer item of
  that number (`feed-model.ts:81,88`). `docs/HANDOFF.md:124` says that overlapping
  pages are deduplicated and the queue takes the newest projection, and
  `feed-model.spec.ts:46` that one latest projection is kept. `GoesBackOnlyByCrossing`
  is what does hold: nothing but such a page puts the console back. The next page
  brings the newer version again.
* **Online, yet unsent.** A connectivity event starts a drain; it finds nothing to
  send; the append of a new submission is queued before the drain's closing load.
  The submission joins the drain (`submission-service.ts:84`), gets
  `SAVED_ON_DEVICE` back, and nothing sends it before the next connectivity
  event. UAT-01 expects the public code.
* **Unflagged duplicates.** A report is compared with older ones only, when its own
  event is handled (`postgres-report-screening-coordinator.ts:235`). When the older
  report's photograph is linked last, its event looks at reports older still and
  the pair is never suggested. UAT-15 (`docs/uat/uat-scenarios.md:69`) expects it
  flagged.
* **Self-approval.** `approveMapVersion` compares the approver with who submitted the
  draft, and never with who created it (`packages/domain/src/map/map-version.ts:56`).
  Once another editor has submitted it, an author who also has the approver's role
  approves their own draft. `docs/security/security-test-matrix.md:14` (T8),
  `docs/security/access-control.md:12`, UAT-19 (`docs/uat/uat-scenarios.md:80`) and
  `docs/content_extracted.txt:346` all say that the author cannot.

### What the models also show

Behaviour that is no violation of anything the repository states, and that a
maintainer may want to know:

* Map: an API process whose clock is ahead of the database's publishes before
  `valid_from`; the runs assume it is not ahead. A version whose window closed before
  it was published stays APPROVED for ever. When a newer version is withdrawn, an
  older one that is still PUBLISHED is current again. A version that has been
  withdrawn or has expired is never published again (`OneWalk`), as the graph of
  `docs/plans/T06` says (line 17); UAT-21 (`docs/uat/uat-scenarios.md:82`, "Previous
  approved version can be republished") needs a new version with the old content.
* Claims: `release` is not fenced by an owner, so a caller that outlived its claim
  deletes its successor's (`overran` marks where this can begin).
* Notifications: after a crash between claim and completion every later copy is
  answered DUPLICATE and the notification is never sent. `HeldClaimHasOwner` and
  `EveryNotificationSettles` except exactly these (`orphans`): they are about a failing
  audit or completion, not about this crash.
* Sessions: a device that loses the answer to its rotation has lost its session.
* Breaker: a straggler's success or failure may end a probe's half-open state and let
  a second probe run beside the first: `docs/integrations/vietmap.md:44` speaks of one
  recovery probe, and no run checks that there is only one. A STALE answer may follow
  a fresher one.
* Evidence: the comparing read of `storeImmutable` is limited
  (`s3-evidence-media-storage.adapter.ts:94`), so an object another build stored ends
  an upload as REJECTED with IMMUTABLE_OBJECT_CONFLICT or its request as a dead
  letter - the exception in `HonestUploadIsKept` and `EveryScanIsDecided`.
* Access: a session revoked after the guard's check still gets its URL.
* Configuration: nothing ties the intake's flags to those of the relay and the
  screening worker; a blank `EVIDENCE_CAPABILITY_SECRET` refuses the start even with
  evidence switched off; `VIETMAP_USE_FAKE_ADAPTER` is not tied to an environment.

## Fairness

The composing modules `MCSosDelivery`, `MCWorker` and `MCPlatform` restate the fairness
of each part under the frame that leaves the others alone.

* `OutboxRelay`: `setInterval` starts runs for ever (weak fairness of acquiring by
  some run) and a run keeps going (weak fairness of its steps). Producers and
  faults are not fair.
* `SosIntake`: a request that was begun is served (weak fairness of its steps); a
  wait for another transaction's row ends with that transaction.
* `MobileSosQueue`: the event loop runs queued operations; a request settles
  (the code gives `fetch` no timeout and relies on the platform's); connectivity
  events keep coming - `NetInfo` calls the listener on every subscription and
  change, the code has no timer of its own, so `EverySosSettles` says no more
  than "while such events come".
* `IncidentFeed`: only safety.
* `MapLifecycle`: a tick's statements and an open call's commit return, the timer
  starts ticks for ever, and the client that was told to read again does so in its
  two statements. Officers and aborts are not fair.
* `ReportLifecycle`: the worker keeps polling, so each message is handled. Citizens,
  dispatchers and redelivery are not fair.
* `EvidencePipeline`: some worker takes a queued request, and the awaits of a worker
  end. Failures are bounded, as repeated ones would keep any request from ending.
* `MCPlatform`: callers keep asking for map data, awaited attempts end, time passes;
  dispatchers keep consuming. The provider fails finitely often: `CircuitRecovers`
  speaks of a provider that has stopped failing.

## What is proved

Assumed are only the named ASSUMEs of the modules: sizes of constants, and that
values such as `None`, `NoRun` or `Idle` differ from what they stand in for. The type
invariants are proved and not listed in the configurations. Each module states its
inductive invariant and proves, action by action, that it is preserved:

* `OutboxRelayProofs`: the inductive invariant `RelayInv` adds to `RelayTypeOK` and
  `PublishedWasDelivered` what a run knows at its stage: a live
  session holds the lock (`LiveRunHoldsLock`), a batch holds recorded rows only
  (`BatchRecorded`), and the message of a row about to be marked was accepted and is
  well-formed (`MarksDelivered`). From it: `PublishedWasDelivered`, `OneLiveRun`, and
  that every step is a step of `EventDelivery` or stutters. A second invariant,
  `DebtInv`, counts: the copies beyond an event's first, the rows the broker has taken
  and nobody has marked, and the runs that go on without their lock are, as one set
  of debts, never more than the faults so far. It gives `DuplicatesOnlyFromFaults`.
  `RunsReadWhatIsDue` counts what stands before a row: a run reads it exactly if fewer
  than `BatchSize` pending rows are older. That is the condition behind the starvation
  above - nothing else keeps a row out of a batch.
* `SosIntakeProofs`: `IntakeInv` ties the row locks to the program counters
  (`LockHasOwner`, `ClaimHeld`), every visible row to an accepted incident
  (`RowBacked`), the absence of a row to expiry (`RowOutlasts`), and a claim that
  met a row to the row that is looked up (`LookupFinds`). The key step is that a
  row is deleted only by a request that saw it expired, and that nobody else can
  write it before that transaction ends. From it all five safety invariants and
  the refinement of `IdempotentIntake`; also `WaitsAreShort`: who holds a row that
  others wait for is not waiting, so no number of retries can deadlock.
* `IncidentFeedProofs`: `FeedInv` says that an open transaction is alone on its
  incident (`RowLocked`) and continues the committed history of it with a higher
  number (`WorkOnTop`), that numbers are unique (`NumbersDiffer`), that what a page
  or a console holds was true at its cursor (`ItemsTrue`), and that what a page or
  a cursor has passed is held or was overtaken (`AllCovered`). The key steps are
  `CommitPreserves` (a commit appends at the end of its incident's walk) and
  `PageIsPrefix` (a page holds every committed change up to its cursor). From it
  the safety invariants and action properties of the run, and `AnnouncedOnce`.
  `NewsInv` adds that a page or a console has one item per number and one reading of
  each incident, and that a page which no merge has crossed knows each incident at
  least as well as its console does. From it `GoesBackOnlyByCrossing`.
* `MobileSosProofs`: only the task at the head of the lock's queue has loaded the
  envelope, so what it has loaded is what is stored and its save overwrites nobody
  (`LockInv`); items are stored once and what is on the wire or accepted is stored
  (`StoreInv`); what a drain is sending is the one item marked SENDING (`DrainInv`).
  From it `OneMarkedAsSending` and the safety of `EventDelivery`. `WaitInv` adds that
  an await has something under way to end it (`ServiceIsNeverStuck`) and that every
  stored SOS has a way on: it is eligible, in the drain's hands, or marked SENDING with
  a recovery to come (`StoredIsSent`). With `SettledStays` - no save takes an
  acknowledgement or a rejection back - this is all of `EverySosSettles` but the fairness.
* `MapLifecycleProofs`: whoever decides about a version holds its row lock until the
  end, so the state it decided on is the state it moves the version from. From it
  `OneWalk` and `ShownWasReviewed`, the latter also because a version a reader has
  selected can leave PUBLISHED but never lose its review. `ClockIsNotOverrun`: windows
  never change and the clock only advances, so what a statement read is still so at
  the commit. `StalenessIsAnnounced` is about the client, at every moment: what it holds
  is what citizens should see, or a read, an invalidation or a run of the job is due.
  It has the hypothesis that no API clock is ahead of the database's (`NoClockIsAhead`).
  With one ahead, a version is announced before it is public and nothing announces it
  again; TLC finds that in two versions and one tick of skew.
* `ReportProofs`: screening is never left half way, so a committed row's version tells
  how far the report has come (`RowsFit`); a suggestion points from a filed report to
  an older one (`OnlyFiledReports`); every confirmation needs a report that awaits
  verification and leaves it a duplicate (`ConfirmedInDuplicates`). From it
  `DuplicateNamesItsOriginal`, `ResolutionIsFinal` and `VerdictIsFinal`. `EventInv` adds
  that an event is about evidence its report owns and that a report on its way keeps
  its own event: from it `SuggestionsShareEvidence` and `NoReportIsStranded`. That event
  names no photograph, so it suggests nothing and never meets the limit.
* `EvidenceProofs`: a worker stores only the copy it has examined, sha256 tells the
  copies that pass for one upload from all others, and what is stored or decided is
  not changed, even by a worker without its lock. `TypeCorrect` includes that of the
  workers that still have a session one at most works on an upload. `ScansAreKept`: a
  request passes between the queue and a worker and is given up only when its upload is
  decided or dead. `WorkersAgree` bounds the exception of `HonestUploadIsKept`: every
  conflict leaves a stored derivative of a build that is not that of every worker.
* `PlatformProofs`: ten theorems, each about the specification of one component.
  `OneLiveSession`: the UPDATE's condition makes every second rotation find the row
  replaced. `HeldClaimIsOwned`, `OverlapNeedsOverrun`: a claim passes between owners
  only through its release or its expiry. `ProbeIsUnderWay`: the circuit becomes
  half-open only for a call that begins, and any call that ends takes it out of it.
  `AnswersAreFreshEnough`: the entry held over the await ages with the call and is
  compared again at its end. `GrantsAreAccounted`: an object's owner, once set, stays,
  and no step is skipped on the way to the URL. `StartedIsWhole`: what the loader
  accepts opens every gate. `AnswersAreKept`: a stored answer is no claim in progress, and
  only those are completed or released. `NotificationsAreKept`: of the copies of a
  notification the one that holds the claim is settled, given back or orphaned.
  `AnswerIsOfTheSet`: the counters of the aggregation are the sizes of sets of events,
  and a repeated copy adds to none of them, for any number of events and copies.

All safety properties of the passing runs are proved. Model-checked only is liveness under
fairness, which is out of the prover's reach: `AtLeastOnce`, the liveness half of
`DeliversEvents` and `KeepsPromise`, `EveryRequestAnswered`, `EverySosSettles`,
`ClockIsKept`, `CacheCatchesUp`, `EveryReportIsQueued`, `EveryScanIsDecided`,
`CircuitRecovers` and `EveryNotificationSettles`. For most of them a theorem states the
safety they rest on - that whatever must still happen has somebody left to do it:

| Checked under fairness | Proved for every instance |
|---|---|
| `AtLeastOnce` | `RunsReadWhatIsDue` |
| `EveryRequestAnswered` | `WaitsAreShort` |
| `EverySosSettles` | `ServiceIsNeverStuck`, `StoredIsSent`, `SettledStays` |
| `CacheCatchesUp` | `StalenessIsAnnounced` |
| `EveryReportIsQueued` | `NobodyIsStranded` |
| `EveryScanIsDecided` | `ScansAreKept`, `WorkersAgree` |
| `CircuitRecovers` | `ProbeIsUnderWay` |
| `EveryNotificationSettles` | `NotificationsAreKept` |

## Not modelled, and why

Collapsed, because the outcome is the same or the code cannot get there: a failing
`pg_advisory_unlock` of the relay (`outbox-relay.job.ts:102`) is a lost session; the
throw of `mergeIncidentFeed` for an item beyond its page (`feed-model.ts:85`) needs a
page the server does not send; a 409 of S3 followed by a 404 needs a delete, which the
worker never does; a throw between a success and the answer of the map adapter is a
call that fails; evidence access that is not configured ends before it does anything.

What a message, a position or a payload says; rate limits; the verification of
tokens (a token verifies or does not); audit rows other than those of access to
evidence (written in the same transactions, read by nothing); rendering,
formatting and logging; RabbitMQ's own replication and routing.
`publish_attempts`, `retryCount` and `hasMore` are diagnostic. Contracts,
observability, health checks, user interfaces, native shells and deployment have
no protocol of their own. The traffic alert endpoint only reads rows that nothing in
the repository writes; the flag in front of it is in `RuntimeConfig`. Of the
operations console the feed is modelled, and not its filters and selection.

External, that is modelled from how the code uses it: `Screen` of an incident
(reserved to SYSTEM by the domain, performed by no code yet) and the queue in front
of `NotificationDispatch`. `IdempotencyExecutor` and `NotificationDispatcher` are not
wired to callers in the repository: what is shown holds for any callers.

Not composed: the phone's queue and the intake. A phone that retries after the
server's key has expired makes a second incident; each side is checked under the
other's promise (a server that never forgets a key; clients without a queue).

## Plan

Done: the components above. What is left, in the order of what it would add:

1. `SosEndToEnd`: `MobileSosQueue` against an intake whose keys expire, to bound when
   a late retry makes a second incident.
2. The intake of reports over the idempotency table, as a refinement of
   `IdempotentIntake` rather than by reference to `SosIntake`.
3. Abstract specifications of `MapLifecycle` and `EvidencePipeline` with refinements,
   in place of their separate invariants.
4. The console's list and selection over the feed, once the workspace reads it.
