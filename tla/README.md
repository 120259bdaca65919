# Sales engine: a formal model

This directory models the core of the sales engine: what happens to a webhook
between the HTTP request that delivers it and the end of the last job that works on
it, what the assistant makes of a message, the records that are kept of jobs, and how
users and tenants come to be and get access. Line numbers below are those of the
repository, from its root.

## 1. Inventory

The system is an Express API (`src/server.ts`, `src/app.ts`), a worker process
(`src/worker.ts`), MongoDB and Redis. The API and the workers are any number of
Node processes; they share nothing but the two stores, and the steps of different
requests and jobs interleave at every `await`.

| Component | State | Operations | Hard behaviour |
|---|---|---|---|
| Webhook ingestion, `modules/webhooks` (API) | `WebhookEvent` documents with two unique indexes and a TTL; idempotency locks in Redis | `ingest`: verify, normalise, `findDuplicate`, lock, insert, add job, `markQueued`, answer | check-then-act in three stores, each step may fail, the process may stop, locks and events expire |
| webhook-ingestion queue and workers, `infra/queue`, `jobs/processors`, `jobs/workers` | BullMQ jobs: state, attempts, stalls, lock | take, complete, retry, stalled check; `webhook.processor`, lead service | retries after partial work, two runs of one job, early return on a status others overwrite |
| AI assistant, `inbound-event.processor`, `ai-task.processor`, `ai-assistant.service`, `ai-decision.service` | assistant runs, profiles, orders, appointments, reply jobs | decide, act, record the run, count, reply | a guard written after the effect it guards; each attempt decides anew |
| Job lifecycle, `jobs/lifecycle` | `JobRecord` | `onEnqueued`, `onActive`, `onCompleted`, `onFailed` | event handlers that are not awaited and write one record |
| Contacts | `Contact` | `upsertInboundLead` | find-then-create without an index |
| Usage counters | `UsageCounter` | `incrementCounter` | one update that names a field twice |
| Execution logs | `ExecutionLog` | `writeWebhookLog` | an `await` in the middle of a flow, which may reject |
| Auth, tenant resolution, permissions | tokens held by clients, `req.auth` | login, refresh, `authMiddleware`, permission and tenant checks | stale claims in tokens, several reads of a membership per request |
| Tenants, users, memberships | documents with unique e-mail, slug and pair of tenant and user | create tenant with owner, create user, list | look-up and insert apart, several writes, no transaction |
| Orders, appointments, catalog, knowledge, automation, conversations, messages, channels, integrations, plans, admin, health | documents | CRUD behind the tenant scope | little |

How they interact: the webhook controller calls `ingest`; `ingest` and the
workers meet in the queue and in the `WebhookEvent` document, whose status is
written by `markQueued` (API), by `markProcessed`, `markIgnored` and `markFailed`
(webhook worker), and by `markProcessed` and `markFailed` (AI worker), always by
id and never conditionally. WhatsApp messages go on to the `inbound-events`
queue, then to `ai-tasks`, then to `outbound-messages`; everything else goes to
the lead service, which upserts a contact, counts usage and writes logs.

What makes each correct: ingestion accepts an event once, hands over what it
accepted, and answers "duplicate" only for what is accounted for; the worker
completes a job only when its event was served, repeats an effect only because
of a failure, and ends every job; a final status is final. The assistant keeps one
decision of each message and tells no other; its run says what was done. An answer
of the onboarding calls is true of the database, and a request is served under a
membership that is current, not under what a token says. `PROJECT.json` lists the
hazards at their lines, with the properties that cover them.

## 2. Modules

| Module | What it is |
|---|---|
| `WebhookIntake` | Abstract promise of ingestion: keep, confirm and forget events that do not clash |
| `WebhookIngest` | `webhooksService.ingest`, one process per HTTP delivery, with the lock, the indexes, expiry and failures |
| `WebhookIngestProofs` | TLAPS proofs about `WebhookIngest` |
| `JobQueue` | A BullMQ queue as the workers use it: take, complete, fail, stall |
| `WebhookPipeline` | `WebhookIngest` and `JobQueue` composed with the workers of the webhook-ingestion queue and the lead service |
| `WebhookPipelineProofs` | TLAPS proofs about `WebhookPipeline` |
| `JobLifecycle` | `JobQueue` with `enqueue`, the workers' event handlers and the `JobRecord` documents they write |
| `JobLifecycleProofs` | TLAPS proofs about `JobLifecycle` |
| `JobQueueProofs` | TLAPS proofs about `JobQueue`, used by the proofs of the modules that instantiate it |
| `AssistantDecision` | The heuristic, what the language model may answer, and the policy, as operators |
| `AssistantPromise` | Abstract promise of the assistant: keep one outcome of a message, send that one, once |
| `AssistantPipeline` | `AssistantDecision` and `JobQueue` composed with the inbound and AI processors and the assistant service |
| `AssistantOutcome` | What the webhook pipeline assumes of the assistant's writes to an event, and what the assistant guarantees |
| `AssistantProofs` | TLAPS proofs about `AssistantPipeline` |
| `AssistantEffectsProofs` | TLAPS proofs of the two bounds on what the assistant makes of a message |
| `AssistantOutcomeProofs` | TLAPS proof that `AssistantPipeline` implements `AssistantOutcome` |
| `Onboarding` | `createUser` and `createTenant` with their indexes and failures, and operators of the database |
| `TenantAccess` | `Onboarding` composed with logins, refreshes and requests |
| `TenantAccessProofs` | TLAPS proofs about both |
| `MC...` | Finite instances for TLC |

### WebhookIngest

A request `r` is at step `pc[r]` of `ingest`. It stores at most one event and adds
at most one job, so `status[r]` is the status of the event it stored and `r \in jobs`
says its job was added. A step of the model is what the code does between two
awaits:

| Action | Code |
|---|---|
| `RefuseSignature` | `verifyOrThrow` throws: 401 or 400, nothing done |
| `FindDuplicate` | `findDuplicate` before the lock: answer, or go on |
| `AcquireLock`, `LockConflict`, `LockUnavailable`, `LockReplyLost` | `SET NX` with its four outcomes: taken, held by another, refused by Redis, taken but the reply was lost and the command sent again |
| `CreateReceivedEvent` | the insert, or its duplicate key error |
| `AnswerDuplicateKey` | `findDuplicate` after that error |
| `EnqueueJob` | `queue.add`, a no-op for a known job id |
| `MarkQueued` | the unconditional update, and the answer duplicate:false |
| `StepFails` | any other await rejects: 500; the insert may have taken effect |
| `ApiStops` | the process stops |
| `LockExpires`, `EventExpires` | the two times to live |

`IdempotencyKey`, `Matches`, `IndexConflict` and `SameJobId` are the four notions of
"the same event" in the code: the derived key, the query of `findDuplicate`, the
unique indexes and the job id. They differ, and most of what can go wrong comes
from that: the query ignores absent fields while the index does not (a compound
sparse index holds every document that has one of its fields, and `tenantId` is
always there), the lock is per provider while the key is per tenant, and the
job id is sanitised.

### JobQueue

`work[j]` is what BullMQ records of job `j`: state, the slot that holds its lock,
attempts made, stalls. `Take`, `Complete`, `Fail` and `PutBack` are what the library
does when a slot fetches a job, when its processor returns or throws (nothing, if
the slot lost the lock), and when the stalled check finds the job without a valid
lock. A job that stalled more than `MaxStalled` times fails when it is taken again.
The module models a library from its use: attempts come from `queue-catalog.ts` by
`buildDefaultJobOptions`, the rest is BullMQ's default.

### WebhookPipeline

`run[w]` is what worker slot `w` is doing. `FindEvent` is `findById` with the
branch that follows; `RouteInbound` adds the `inbound-events` job; `StartLead`,
`UpsertLead`, `TrackLead` are the lead service; `MarkProcessed` and `MarkFailed` end
the try and the catch. A slot that stops leaves its job active until `StalledDead`
finds it; a slot that is only slow may lose its job to another (`StalledSlow`) and goes
on beside it. `inbound` holds the events whose `inbound-events` job was added.

`AssistantActs` stands for the assistant queues, which share the status of the event. It is
`Write` of the abstract `AssistantOutcome`: they write no event that was not handed to
them, find it processed or failed, and while nothing fails leave a processed event
alone. What `WebhookPipeline` assumes there, `AssistantPipeline` guarantees
(`ImplementsOutcome`), with the webhook pipeline's own writes in between (`Rewrite`), so the two modules fit together although no module composes them:
the product would be out of TLC's reach.

`CountersAccepted` says whether MongoDB takes the update of `incrementCounter`. The
update in the code names `counter` in `$setOnInsert` and `$inc`, which MongoDB refuses:
FALSE is the code as it stands, TRUE is the pipeline with that one update
repaired. The passing runs are checked with TRUE, where the rest of the pipeline is
reached. Of FALSE, `NoLeadCompletes` proves that no lead is ever completed, and the run
`pipeline_final` takes an event that involves no counter. `RepeatedUpsertsNeedFaults`
and `OnlyCountersFailJobs` say in their statements that they need TRUE, the other theorems
hold of both.

A call that is taken with its answer lost is `ReplyLost` for the hand-over to
`inbound-events` and for `markProcessed`: the catch block then marks an event failed that the
assistant already works on, or that was finished.

### JobLifecycle

`enqueue` calls `onEnqueued` after the add, and the workers call `onActive`,
`onCompleted` and `onFailed` from event listeners that nobody awaits. So each step of
the queue only sends an update: it joins `flight`, with the status and the attempts
of the job at that moment. `ApplyUpdate` is MongoDB's `findOneAndUpdate`, in any order;
it creates the record only for `onEnqueued`, unless the unique index on tenant, queue
and idempotency key refuses it (that index is compound too, so it holds one record
without key). `LoseUpdate` is an update that fails, which is only logged, or whose
process stops. `seq`, `sent` and `disturbed` are history: the order in which updates
were sent, and the jobs whose updates were not applied once, in that order.

### AssistantPipeline

`run[w]` is at one await of `processInboundWhatsappMessage` or of the processor around
it, with the profile it read and the outcome it decided. `work` is `JobQueue`'s record of
the task, one task for each message event.

| Action | Code |
|---|---|
| `RouteMessage`, `RouteFails` | `inbound-event.processor`: add the task, or let an event be that is gone; its attempts may be used up |
| `TakeTask`, `CompleteTask`, `FailTask`, `WorkerStops`, `StalledDead`, `StalledSlow` | the queue, as in `WebhookPipeline` |
| `FindRun` | `findRunByWebhookEvent` and its early return |
| `ReadProfile` | `getProfile`; a tenant without one has the default |
| `SearchRefused` | `searchActive` with a text that is no regular expression |
| `Decide` | `aiDecisionService.decide` and `resolveActionType` |
| `CreateAppointment`, `CreateOrder`, `OrderRefused` | the effect, and the unique index that takes one order without external id |
| `RecordRun`, `RunRefused` | `createRun`, and the schema or the unique index that refuses it |
| `CountUsage`, `CounterRefused` | the three `trackEvent`s |
| `AddReply` | the add to `outbound-messages`, a no-op for a known job id |
| `MarkProcessed`, `MarkFailed`, `MarkFailedFails`, `AwaitFails` | the try and catch of `ai-task.processor` |
| `MarkQueued`, `WebhookMarksFailed` | the event's other writers: the late `markQueued` of `ingest`, and the catch block of `webhook.processor`, both by way of `Rewrite` |
| `EventExpires`, `UpdateProfile`, `ApiCreatesOrder` | the TTL index, the tenant, its other users |

A write is taken with its answer, taken with its answer lost (`Taken`), or not taken
(`AwaitFails`). `CountersTaken` is the set of what MongoDB may make of the update of
`incrementCounter`: {FALSE} is the code as it stands, under which no reply is ever sent,
since the run is recorded and the first counter fails; {TRUE} is that update repaired. Every
property is stated for any of these sets, and the run `assistant` takes both outcomes at once.

The status of an event starts at `received`, since nothing orders the request's
`markQueued` before the worker, the router and the assistant: `unmarked` holds the events
it has yet to write. An attempt of `webhook.processor` may fail at any time, also after its
job for `inbound-events` was added. `rewritten` and `cut` are history: the events that one
of these two wrote last, and the messages with a run that was left between `createRun` and
the reply.

A message is the set of topics whose key words it holds, in the heuristic's order of
precedence, whether its text is a regular expression and short enough for the schema,
and the set of answers the language model may give; an answer that fails the schema of
decisions, a time-out and a failure of the provider all end in the heuristic.

### Onboarding and TenantAccess

A call of `createUser` or `createTenant` is at `step[c]`: the look-up of the name, the
plan, the insert, the membership of the owner, or its answer. `InsertUser` and
`InsertTenant` go through the unique index on the stored names, `InsertRefused` is its
duplicate key error. No operation of the program changes a membership, a user or a
tenant once it is stored (there is no route for it); `SetMember`, `SetUser` and
`SetTenant` are changes made in the database.

| Action | Code |
|---|---|
| `LoginAdmin`, `LoginUser`, `LoginMember` | `authService.login`, without and with a tenant, two reads |
| `RefreshAccess`, `AccessExpires`, `TokensExpire` | `refresh` and the times to live |
| `StartRequest` | the token, `resolveTenantIdForRequest`, `assertTenantMatchesAuth` |
| `Pass` | one run of `authMiddleware`, `AfterPass` with `requirePermission` after the last |
| `Serve` | `getTenantById`, an order, the list of the administrator |
| `ReadMemberships`, `ReadTenants` | the two reads of `listForUser` |

`Passes` says how often `authMiddleware` runs for a kind of request: routers that are
mounted on one path each run it before the router that answers is reached.

### Abstractions

Payloads are an id, a type and the rest; timestamps, error
messages, `processingAttempts`, back-off and rate limits are left out; `waiting` is
BullMQ's waiting and delayed; finished jobs are never removed (2,000 completed
and 5,000 failed ones are kept by the code); a job without an idempotency key is
added once; the tenant mismatch branch of the lead service cannot be reached
from `ingest`, which writes one tenant to both places.

## 3. Runs

| Run | Instance | Shows |
|---|---|---|
| `ingest` | 3 requests, 7 kinds of delivery, keys that make one job id, 1 failure, symmetric in requests | `AcceptedOnce`, `HandedOff`, `DuplicateIsCovered`, and that ingestion implements `WebhookIntake` |
| `pipeline` | 1 delivery of 4 kinds, 2 slots, 4 failures, 3 attempts, 1 stall | `CompletedMeansServed`, `CompletedMeansSettled`, `UpsertsBounded`, `RepeatedUpsertNeedsFault`, `NoUpsertAfterFinal`, `FinalOnlyLostToMarkQueued`, and `JobEnds` under fairness |
| `pipeline_redelivery` | 2 deliveries, 1 slot, 1 failure, 2 attempts | the worker's writes do not weaken `AcceptedOnce`, nor a second delivery `CompletedMeansServed`, and the composed system implements `WebhookIntake` |
| `lifecycle` | 3 jobs, 2 of them without key, 2 slots, 2 attempts, no stall allowed, 2 adds, 1 failure | `FinalClaimsAreTrue`, `AttemptsNeverAhead`, `OrderedUpdatesSettle`, `FinalOnlyLostToLateUpdate` |
| `assistant` | 1 message of 3 kinds, counters refused or taken, 2 slots, 2 attempts, 1 stall, 2 failures, 1 profile update | `RepeatedEffectNeedsFault`, `EffectsBounded`, `RecordMatchesEffects`, `ReplyIsCounted`, `LostReplyExplained`, `FailureExplained`, `PolicyRespected`, `CompletedMeansSettled`, that the assistant implements `AssistantPromise` and `AssistantOutcome`, and `TaskEnds` under fairness |
| `access` | 2 sign-ups, 2 creations, 2 e-mails, 2 slugs, 1 client, 1 failure, 1 change | `NamesUnique`, `AnswersAreTrue`, `OwnerlessNeedsFault`, `ClaimsAreBacked`, `RoleIsCurrent`, `ListedAreMine` |
| `ingest_lost` | 2 requests, 1 failure | violated: `RetryReachesQueue` |
| `ingest_sparse` | 2 requests, no failure | violated: `DuplicateMeansRepeat` |
| `pipeline_final` | 1 event that is neither message nor lead, no failure, `CountersAccepted = FALSE` | violated: `FinalStaysFinal` |
| `assistant_reply` | 1 message that asks to buy, 4 attempts, no failure, counters refused | violated: `CompletedIsAnswered` |
| `assistant_orders` | the same instance | violated: `RequestedOrderIsMade` |
| `lifecycle_late` | no failure | violated: `EndedJobsAreRecorded` |

Bounds. Three requests are the first number at which a request can race a second
one while a third one's event or lock expires, and at which a duplicate answer can
be explained by a request other than the one whose lock it met. `MaxFaults` bounds
injected failures, not the expiry of locks and events, which are free. In `pipeline`
four failures are enough for a stop, a stall and two failed attempts in one
behaviour, and three attempts for the last one to differ from the one before; two
slots are what a job and its overtaken run need. In `lifecycle` two adds put two jobs in
the queue, or one twice, and two jobs without key are what the index refuses; the
proofs cover every other instance. In `assistant` two attempts and a stall make three
runs of one message, two failures pay for two repeated effects or for a stop and a lost
answer, and the three kinds are one for each way a message can go wrong: a model that
disagrees with the heuristic under a policy that forbids the effect of one, a text that
cannot be looked up, and one that cannot be recorded. A counter may be refused or taken
each time, so the behaviours of the code as it stands are among those checked (527,100
distinct states); the two runs that expect a violation have refused counters only. One message
is enough: messages meet only in `keyless`, which `ApiCreatesOrder` writes as well. In
`access` two calls of each kind are what a race for a name takes, and one change is
what falls between two reads; `Passes` is one and two. Requests are interchangeable, and
so are slots, which is why symmetry is sound where no liveness is checked; sign-ups,
creations and slugs are too, e-mails are not (one is an administrator's).

Fairness (`Fairness` in `WebhookPipeline`): weak fairness of the steps of a request
and of a run (Node runs a pending continuation), of a free slot taking a waiting
job (BullMQ's workers poll for ever) and of the stalled check (it runs on a timer).
No failure, expiry or assistant step is assumed to happen. Failures are bounded by
`MaxFaults`, and a job's attempts are bounded anyway. `AssistantPipeline` assumes the same
of its slots, tasks and stalled check, and nothing of routing, tenants or expiry, so
`TaskEnds` is about tasks that were added. `access` checks safety only: a client may
stop, so deadlock is not looked for there.

A mutant is an operator next to the definition it mutates, named for the bug it
brings; no specification uses it.

What `assistant` and `access` say of the code beyond the hazards they exclude: the order of
the writes leaves a window before `createRun` in which a failed attempt repeats an
appointment or order (`RepeatedEffectNeedsFault` bounds it by the failures,
`EffectsBounded` by the attempts) and one after it in which the reply is lost. A tenant
without owner cannot be repaired by a retry, which is told that the slug is taken. The
loser of a race for an e-mail is answered 500, where
`src/docs/integration/frontend-integration-blueprint.md:188` expects a 409; the name
stays unique all the same.

## 4. Findings

1. `ingest_lost`: an event stored but not enqueued is lost, since its redelivery is
   told "duplicate" (`webhooks.service.ts:135`).
2. `ingest_sparse`: a tenant can hold one event without external id per provider, and
   the others are dropped as duplicates (`webhook-event.model.ts:40`).
3. `pipeline_final`: `markQueued` replaces the worker's final status
   (`webhooks.service.ts:156`). `FinalOnlyLostToMarkQueued` shows it is the only way
   while nothing fails.
4. `assistant_reply`: the counter update is always refused (`usage.repository.ts:68`), so a
   message is recorded, its task completes with the next attempt, and no reply is ever
   sent. The job of a lead upserts its contact with each attempt and never completes
   (`NoLeadCompletes`).
5. `assistant_orders`: a tenant can hold one order without external id, and the task of every
   later message that asks to buy fails (`order.model.ts:34`).
6. `lifecycle_late`: an update of `JobRecord` that arrives late replaces a later one, and
   a finished job is shown as queued or processing for ever (`job-lifecycle.service.ts:57`).
   `FinalOnlyLostToLateUpdate` shows that nothing but such an update, or a second add,
   overwrites a final record.

A run shows that a property fails, on one instance. For each of the six a theorem shows, on
every instance, what the causes are (section 5).

Keys that differ in ':' or white space only make one job id (`queue-factory.ts:21`), and the
event of the second is stored, answered duplicate:false and never processed. No line of the
repository says that such keys are kept apart, so no run expects it; the run `ingest` has
such keys, `HandedOff` says what is left, and `OnlyConfusedKeysShareJobs` when the event
has its own job.

## 5. Proofs

`WebhookIngestProofs` proves, for every set of requests, deliveries and every
`MaxFaults`, from the four assumptions on the constants:

- `TypeCorrect`: `IngestSpec => []IngestTypeOK`.
- `AcceptedOnceHolds`, from `NoClash`: no two stored events clash. `AcceptedOnce` itself
  is not inductive, since it says nothing of events whose request is not answered.
- `HandedOffHolds`, from `JobsAdded`, which says of a request past the add what
  `HandedOff` says of an accepted one; it needs `Shape` for the link between `pc`,
  `answer` and `status`.
- `DuplicateIsCoveredHolds`, from `Coverage`: while nothing failed, every lock that is
  held, every duplicate key error and every duplicate answer has a claim behind it, a
  request with that lock that was accepted, is at work, or clashes with a stored
  event. Claims survive every step (`ClaimStays`) since requests at work only leave by
  being accepted or by meeting a stored event.
- `IntakeRefinement`: `IngestSpec => ImplementsIntake`. The insert maps to `Keep`,
  `MarkQueued` to `Confirm`, expiry to `Forget`, everything else to a stutter. The promise
  is strong enough to be worth it: `IntakePromisesOnce` derives `AcceptedOnce` from it alone.

- Three causes, each from an invariant above and one more: `OnlyFailuresLoseEvents` (an event
  named by a duplicate answer was stored, `NamedStored`, and by `Coverage` belongs to a
  request accepted or at work), `OnlyAbsentFieldsMislead` (with all fields present, what
  the index refuses is what `findDuplicate` finds), `OnlyConfusedKeysShareJobs` (the add
  meets a job of the same id only when the events clash, which `NoClash` excludes while
  the other event is retained).

The parts together are `IngestInv` in `WebhookIngest`. The arguments do not use the
locks at all for `AcceptedOnce`: the proof shows that the indexes alone carry it.

`JobLifecycleProofs` proves every property the run `lifecycle` checks, for every set of
jobs, keys and slots and every bound, from the five assumptions of `JobQueue` and
`JobLifecycle`. The argument:

- The queue alone: its types with "a job that did not end has attempts left"
  (`QueueType`; without that, the count of attempts could pass `MaxAttempts`), and that
  attempts only grow and an ended job never changes (`QueueMonotone`).
- `StepKinds`: to the records, every step is quiet, an `onEnqueued`, a report of a job
  that has not ended before, or an update applied or lost. Each invariant is then
  proved for these four kinds instead of ten actions.
- `Claims`: what records *and updates in flight* say is true. `FinalClaimsAreTrue` and
  `AttemptsNeverAhead` are its half about records, which alone is not inductive; claims
  stay true because of `QueueMonotone`.
- `LastKept` and `LastTells`: the last update of an undisturbed job is in flight or in its
  record, and tells the outcome of a job that ended. With `Settled` this is
  `OrderedUpdatesSettle`.
- `FinalLast`: a final update in flight or applied is followed by `onEnqueued` alone, since
  by `Claims` its job has ended. `FinalOnlyLostToLateUpdate` follows at the step that
  applies an update.
- `Calm`: while nothing fails a job is active just while its slot runs it, so none stalls
  and one fails only with its attempts used up. With `OrderedUpdatesSettle` this is
  `OnlyDisorderHidesEnds`, the causes of finding 6: a second add, or an update refused
  or late.

`TenantAccessProofs` proves every property the run `access` checks, for every set of calls,
clients and names and every bound, from the assumptions of both modules:

- `OnboardInv`: `StagesOK` (where a call is tells what it has stored), `MembersOK` (who is a
  member, and since when) and unique names. `NamesUnique` is inductive by the index;
  `AnswersAreTrue` needs the stages.
- `Kept`: what no step of onboarding takes back, a stored user or tenant, a name, an
  owner, or a membership that was not changed. `ClaimsAreBacked` and `RoleIsCurrent`
  follow for tokens (`GoodSession`) and requests (`GoodRequest`) since what they read
  is kept unless `changes` grows.

`AssistantProofs` proves, for every set of messages, tenants and slots and every bound:

- `AssistantTypes`, with `ShapeOK`: what a run has read and decided when it needs it. The
  queue's part comes from `JobQueueProofs` by `INSTANCE`.
- `CountedReplies` and `AssistantKeepsPromise`, from `CountOK`: a slot that counts is the one that
  recorded the run, and no other counts that message, even when two slots run it.
- `ToldIsKept`: a reply is the recorded outcome, derived from the abstract promise alone.
- `PolicyIsRespected`, from `PolicyOK`: while nobody updated it, the profile a run holds is
  the tenant's.
- `CompletedIsSettled`, from `SettledOK` and `OwnedOK`: a run that was not overtaken holds the lock
  of its task, so no other run writes the event (`OneRun`). What the webhook pipeline writes
  meanwhile is `rewritten`: the theorem promises nothing of an event that its late `markQueued` or
  a failed attempt wrote last.
- `RecordMatches`, from `DoneOK` (a run records what was done) and `ExactOK`: while nothing fails
  a message has the effect of its one run and no other. `CalmOK` says that without
  failures nothing stalls and whoever holds a lock runs, and `CalmHops` lists what a run
  can then do.
- `LostRepliesAreExplained`, from `AnswerOK`, with any failures and any counters: a message
  recorded and not answered has a slot on its way to the reply, or had its run cut short; a task
  that completed has such a slot left only when it was overtaken (`OwnedOK`).
- `FailuresAreExplained`, from `FateOK`: while nothing fails only the first attempt of a message
  without an excuse can fail, at a counter, and then its run is recorded and the next attempt
  completes. An excuse is a message that cannot be looked up or recorded, or an order that was
  never made since the tenant has one without external id; the last is finding 5.
- `OneRunOfATask` and `CompletedIsRecorded`: two slots run one task only after it was
  overtaken, and a completed task left a recorded run (`RecordedOK`). The second is what
  `TaskEnds` says of completed tasks, without fairness.

`AssistantOutcomeProofs` proves `Spec => ImplementsOutcome`: an attempt that ends maps to `Write`, the
routing of a message to `Hand`, the writes of the webhook pipeline to `Rewrite`, the TTL to `Expire`,
the rest to stutters. The clause
about calm is the hard one. It needs `KeptOK`: without failures a processed event has a
task that is completed or about to be, so that no run comes to write it again
(`MarksOnce`), although `markQueued` may have put the event back to queued in between.

`AssistantEffectsProofs` proves the two bounds on appointments and orders by a count:

- The *load* of a message is its effects and the runs that may still make one (`Pending`). A
  run that makes an effect is pending no more, so the load grows with the runs started
  only, and each of these uses an attempt or a stall (`Used`): `EffectsAreBounded`.
- A task that is not `Held` (no run recorded, not ended, its lock in no healthy run's hands)
  may be taken once more, so its load is one lower than the failures would pay for. Without a
  failure a healthy run stays healthy (`HealthyStays`) unless its message is refused, and
  then the load shrinks: `RepeatedEffectsNeedFaults`.
- Both need `GivenUpOK`: a task that stalled too often is only failed, so its last attempt
  starts no run. It is the one attempt more that `Used` takes back.

`WebhookPipelineProofs` proves every safety property of `pipeline` and `pipeline_redelivery`, for
every set of requests and slots and every bound:

- `PipelineTypes` and `PipelineAcceptedOnce`: the workers write the status of events that
  ingestion stored, and `WritesKeep` shows that this disturbs nothing ingestion's own
  invariants (`Shape`, `NoClash`) say. These come from `WebhookIngestProofs`, `IngestStepWrites`
  says what a step of ingestion can do to the workers' variables.
- `CompletedIsServed`, from `ServedInv`: a status that is final, a run about to return and a
  completed job each say that the event was served, and the branch of a run fits its
  event. The status alone is not enough, since `markQueued` may take it back.
- `CompletedIsSettled` and `NoLateUpsert`, from `SettledInv`: a job that was not overtaken has one
  run, which holds its lock, so nobody finalizes the event between its read and its upsert.
- `FinalOnlyLostToMarkQueuedHolds`, from `QuietInv`: without failures the catch block meets no
  finalized event.
- `UpsertsAreBounded` and `RepeatedUpsertsNeedFaults`, from `LoadInv`: the count above, for the upserts
  of an event.
- `PipelineHandedOff`, `PipelineDuplicateIsCovered` and `PipelineIntakeRefinement`: the promises of
  ingestion again, of the composed system. Workers never take an event out of the
  collection nor a job out of the queue, so `JobsAdded` and `Coverage` survive their
  steps, and these map to stutters of `WebhookIntake`.
- `OneRunOfAJob`: retries, stops and stalled checks alone never make two attempts of a job
  overlap; it takes a slow run that was overtaken.
- `OnlyCountersFailJobs`, from `SoundInv`: with counters that MongoDB takes no job fails unless
  something failed, so the update of finding 4 is the one cause of it.
- `NoLeadCompletes`, from `LeadInv`: with the counters of the code the event of a lead is never
  processed nor ignored, so no run of its job returns while the event is there.

The causes of the findings are thus `OnlyFailuresLoseEvents` (1), `OnlyAbsentFieldsMislead` (2),
`FinalOnlyLostToMarkQueuedHolds` (3), `LostRepliesAreExplained` and `OnlyCountersFailJobs` (4),
`FailuresAreExplained` (5) and `OnlyDisorderHidesEnds` (6). Their hypotheses are satisfied by states the runs reach, and
each is a condition on the state or its history alone, never on what the property says.

Only model-checked: the liveness properties `JobEnds` and `TaskEnds`, which need fairness and so
`ENABLED`, out of the prover's reach, and the counterexamples of the runs that expect a
violation. The safety halves of the two, that what completed was served and was recorded,
are `CompletedIsServed` and `CompletedIsRecorded`. Every invariant, action property and
refinement of the passing runs has a theorem.

## 6. Plan

1. Ingestion and its abstract intake, with proofs: done.
2. The pipeline with queue and workers, and its proofs, among them that the composed system
   keeps what ingestion promises of accepted requests: done.
3. `JobLifecycle`: the projection of BullMQ's events on `JobRecord`, with handlers in any
   order, and its proofs: done.
4. `AssistantPipeline`, with the abstract promise "one decision and one reply per message",
   and its proofs: done.
5. `Onboarding` and `TenantAccess`, and their proofs: done.
6. Left: which contact a lead is merged into, order totals and usage periods as pure
   operators, the routes beyond the four kinds of request.

## 7. Not modelled

- Document CRUD with no protocol between steps, configuration, logging, the HTTP shell
  and the simulation tool (see `components` in `PROJECT.json`).
- Contacts beyond the number of upserts: two leads of one person may create two
  contacts (`contacts.repository.ts:50`), and nothing in the repository says they may not.
- Lengths: a derived idempotency key can exceed the 120 characters of
  `webhook-event.model.ts:20`; the lengths that matter to the assistant are the two flags of
  a message, too long and blank.
- Status codes and wording of refusals, passwords and signatures, plans and limits.
- That a suspended tenant is still served: `getTenantById` does not look at the status,
  and only `listForUser` does, as in the model.
- The reason kept with a handoff, and every text the assistant writes.
