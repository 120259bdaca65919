--------------------------- MODULE WebhookIngest ---------------------------
(***************************************************************************)
(* The API side of webhook ingestion: webhooksService.ingest.              *)
(*                                                                         *)
(* Every HTTP delivery of a webhook is a request, and every request is a   *)
(* process that runs ingest once: it looks for a duplicate in MongoDB,     *)
(* takes an idempotency lock in Redis, stores a WebhookEvent, adds a job   *)
(* to the webhook-ingestion queue, marks the event queued and answers.     *)
(* The steps of different requests interleave at every await, each of them *)
(* can fail, and the process that serves a request can stop at any of them.*)
(*                                                                         *)
(* A request stores at most one event and adds at most one job, so event r *)
(* and job r are the event stored and the job added by request r, and the  *)
(* fields of event r other than its status are those of delivery[r].       *)
(***************************************************************************)
EXTENDS Naturals

CONSTANTS
  Requests,     \* the HTTP deliveries the API receives, repeated ones included
  Tenants,      \* tenant ids, the :tenantId of the route
  Providers,    \* providers, the :provider of the route
  Names,        \* external ids and Idempotency-Key header values
  Contents,     \* what a payload holds besides its id and its type
  Deliveries,   \* the deliveries the providers make (and make again)
  Sanitized,    \* a name with ':' and white space replaced by '_'
  Absent,       \* no header, no external id
  Empty,        \* an Idempotency-Key header that is the empty string
  NoEvent,      \* the webhookEventId null of an answer
  MaxFaults     \* bound on the failures injected in a behaviour

EventTypes == SUBSET {"message", "lead"}  \* the filters that an eventType passes

Payloads == [externalId : Names \cup {Absent},
             type       : EventTypes,
             content    : Contents]

AllDeliveries == [tenant   : Tenants,
                  provider : Providers,
                  header   : Names \cup {Absent, Empty},
                  payload  : Payloads,
                  signed   : BOOLEAN]   \* verifyOrThrow accepts the signature

ASSUME DeliveriesAssumption == Deliveries \subseteq AllDeliveries
ASSUME AbsentAssumption     == Absent \notin Names /\ Empty \notin Names
ASSUME NoEventAssumption    == NoEvent \notin Requests
ASSUME MaxFaultsAssumption  == MaxFaults \in Nat

VARIABLES
  delivery,     \* what each request carries
  pc,           \* the step of ingest each request is at
  answer,       \* what each request was answered
  locks,        \* the idempotency locks held in Redis
  status,       \* the status of each WebhookEvent
  jobs,         \* the webhook-ingestion jobs added to the queue
  faults        \* how many failures were injected so far

requestVars == <<delivery, pc, answer, locks>>
storeVars   == <<status, jobs>>
ingestVars  == <<delivery, pc, answer, locks, status, jobs, faults>>

(***************************************************************************)
(* Normalisation and identity of a delivery.                               *)
(***************************************************************************)

\* The key normalizeWebhookEvent derives: the header, else the external id,
\* else a name made of the provider, the tenant and the hash of the payload.
\* An empty header is not replaced, and an empty key counts as no key.
IdempotencyKey(d) ==
  CASE d.header \in Names -> d.header
    [] d.header = Empty   -> Absent
    [] d.header = Absent /\ d.payload.externalId # Absent -> d.payload.externalId
    [] OTHER -> <<d.provider, d.tenant, d.payload>>

LockName(d)  == <<d.tenant, d.provider, IdempotencyKey(d)>>
LockNames    == {LockName(d) : d \in Deliveries}

\* Mutant: the query of findDuplicate is not scoped to the tenant.
MatchesAnyTenant(d, e) ==
  \/ /\ d.payload.externalId # Absent
     /\ d.provider = e.provider
     /\ d.payload.externalId = e.payload.externalId
  \/ /\ IdempotencyKey(d) # Absent
     /\ IdempotencyKey(d) = IdempotencyKey(e)

\* What findDuplicate asks of an event e: the same external id from the same
\* provider, or the same idempotency key from any provider of the tenant.
Matches(d, e) ==
  /\ d.tenant = e.tenant
  /\ \/ /\ d.payload.externalId # Absent
        /\ d.provider = e.provider
        /\ d.payload.externalId = e.payload.externalId
     \/ /\ IdempotencyKey(d) # Absent
        /\ IdempotencyKey(d) = IdempotencyKey(e)

\* What the two unique indexes refuse. They are compound, and tenantId is
\* always present, so "sparse" leaves no event out and an absent field is
\* equal to another absent field.
IndexConflict(d, e) ==
  /\ d.tenant = e.tenant
  /\ \/ /\ d.provider = e.provider
        /\ d.payload.externalId = e.payload.externalId
     \/ IdempotencyKey(d) = IdempotencyKey(e)

\* buildJobId: two adds with the same job id are one job to BullMQ. Without an
\* idempotency key the queue numbers the job itself.
SanitizedKey(d) ==
  IF IdempotencyKey(d) \in Names THEN Sanitized[IdempotencyKey(d)] ELSE IdempotencyKey(d)

SameJobId(d, e) ==
  /\ d.tenant = e.tenant
  /\ IdempotencyKey(d) # Absent
  /\ IdempotencyKey(e) # Absent
  /\ SanitizedKey(d) = SanitizedKey(e)

(***************************************************************************)
(* The state.                                                              *)
(***************************************************************************)

Statuses == {"none", "received", "queued", "processed", "ignored", "failed", "expired"}
Steps    == {"start", "acquire", "create", "recheck", "enqueue", "markQueued", "done"}
Answers  == [kind : {"none", "accepted", "duplicate", "error", "lost"},
             event : Requests \cup {NoEvent}]

Answer(k, e) == [kind |-> k, event |-> e]

\* The events that are in the collection: stored, and not yet expired.
Stored     == {e \in Requests : status[e] \notin {"none", "expired"}}
Duplicates(r) == {e \in Stored : Matches(delivery[r], delivery[e])}

IngestTypeOK ==
  /\ delivery \in [Requests -> Deliveries]
  /\ pc \in [Requests -> Steps]
  /\ answer \in [Requests -> Answers]
  /\ locks \subseteq LockNames
  /\ status \in [Requests -> Statuses]
  /\ jobs \subseteq Requests
  /\ faults \in 0..MaxFaults

IngestInit ==
  /\ delivery \in [Requests -> Deliveries]
  /\ pc = [r \in Requests |-> "start"]
  /\ answer = [r \in Requests |-> Answer("none", NoEvent)]
  /\ locks = {}
  /\ status = [r \in Requests |-> "none"]
  /\ jobs = {}
  /\ faults = 0

(***************************************************************************)
(* Helpers of the actions.                                                 *)
(***************************************************************************)

Goto(r, from, to) ==
  /\ pc[r] = from
  /\ pc' = [pc EXCEPT ![r] = to]
  /\ UNCHANGED <<delivery, answer>>

Reply(r, from, a) ==
  /\ pc[r] = from
  /\ pc' = [pc EXCEPT ![r] = "done"]
  /\ answer' = [answer EXCEPT ![r] = a]
  /\ UNCHANGED delivery

\* An update by id: it finds nothing when the event is not in the collection.
Mark(e, s) == status' = IF e \in Stored THEN [status EXCEPT ![e] = s] ELSE status

NoFault == UNCHANGED faults
Fault   == faults < MaxFaults /\ faults' = faults + 1

(***************************************************************************)
(* The steps of ingest.                                                    *)
(***************************************************************************)

\* The signature is verified before anything else is done.
RefuseSignature(r) ==
  /\ ~delivery[r].signed
  /\ Reply(r, "start", Answer("error", NoEvent))
  /\ NoFault /\ UNCHANGED <<locks, storeVars>>

\* findDuplicate before the lock: a stored event ends the request.
FindDuplicate(r) ==
  /\ delivery[r].signed
  /\ \/ \E e \in Duplicates(r) : Reply(r, "start", Answer("duplicate", e))
     \/ /\ Duplicates(r) = {}
        /\ Goto(r, "start", IF IdempotencyKey(delivery[r]) = Absent THEN "create" ELSE "acquire")
  /\ NoFault /\ UNCHANGED <<locks, storeVars>>

\* SET NX of the lock. Nothing ever deletes it but its time to live.
AcquireLock(r) ==
  LET name == LockName(delivery[r]) IN
  /\ name \notin locks
  /\ Goto(r, "acquire", "create")
  /\ locks' = locks \cup {name}
  /\ NoFault /\ UNCHANGED storeVars

LockConflict(r) ==
  /\ LockName(delivery[r]) \in locks
  /\ Reply(r, "acquire", Answer("duplicate", NoEvent))
  /\ NoFault /\ UNCHANGED <<locks, storeVars>>

\* Redis refuses the command: ingest logs a warning and goes on without it.
LockUnavailable(r) ==
  /\ Goto(r, "acquire", "create")
  /\ Fault /\ UNCHANGED <<locks, storeVars>>

\* The connection drops after Redis took the lock: ioredis sends the command
\* again and the second SET NX answers nil to the request that holds the lock.
LockReplyLost(r) ==
  LET name == LockName(delivery[r]) IN
  /\ name \notin locks
  /\ Reply(r, "acquire", Answer("duplicate", NoEvent))
  /\ locks' = locks \cup {name}
  /\ Fault /\ UNCHANGED storeVars

\* Mutant: the collection has no unique index.
CreateReceivedEventUnindexed(r) ==
  /\ Goto(r, "create", "enqueue")
  /\ status' = [status EXCEPT ![r] = "received"]
  /\ NoFault /\ UNCHANGED <<locks, jobs>>

\* createReceivedEvent: the insert, or the duplicate key error of an index.
CreateReceivedEvent(r) ==
  /\ \/ /\ \A e \in Stored : ~IndexConflict(delivery[r], delivery[e])
        /\ Goto(r, "create", "enqueue")
        /\ status' = [status EXCEPT ![r] = "received"]
     \/ /\ \E e \in Stored : IndexConflict(delivery[r], delivery[e])
        /\ Goto(r, "create", "recheck")
        /\ UNCHANGED status
  /\ NoFault /\ UNCHANGED <<locks, jobs>>

\* Mutant: no event found is answered as undefined instead of null.
AnswerDuplicateKeyUndefined(r) ==
  /\ \/ \E e \in Duplicates(r) : Reply(r, "recheck", Answer("duplicate", e))
     \/ /\ Duplicates(r) = {}
        /\ Reply(r, "recheck", Answer("duplicate", Absent))
  /\ NoFault /\ UNCHANGED <<locks, storeVars>>

\* Mutant: a duplicate key error is answered duplicate:false.
AnswerDuplicateKeyAccepts(r) ==
  /\ Reply(r, "recheck", Answer("accepted", NoEvent))
  /\ NoFault /\ UNCHANGED <<locks, storeVars>>

\* findDuplicate again, after the duplicate key error: it may find nothing.
AnswerDuplicateKey(r) ==
  /\ \/ \E e \in Duplicates(r) : Reply(r, "recheck", Answer("duplicate", e))
     \/ /\ Duplicates(r) = {}
        /\ Reply(r, "recheck", Answer("duplicate", NoEvent))
  /\ NoFault /\ UNCHANGED <<locks, storeVars>>

\* Mutant: the request goes on when the add fails.
EnqueueJobSwallows(r) ==
  /\ Goto(r, "enqueue", "markQueued")
  /\ \/ jobs' = jobs \cup {r} /\ NoFault
     \/ UNCHANGED jobs /\ Fault
  /\ UNCHANGED <<locks, status>>

\* queue.add: a job with the same id makes it a no-op that succeeds.
EnqueueJob(r) ==
  /\ Goto(r, "enqueue", "markQueued")
  /\ jobs' = IF \E j \in jobs : SameJobId(delivery[r], delivery[j])
               THEN jobs ELSE jobs \cup {r}
  /\ NoFault /\ UNCHANGED <<locks, status>>

\* markQueued writes the status without looking at the one it replaces.
MarkQueued(r) ==
  /\ Reply(r, "markQueued", Answer("accepted", r))
  /\ Mark(r, "queued")
  /\ NoFault /\ UNCHANGED <<locks, jobs>>

\* Any await of ingest but the lock's rejects: the request is answered 500.
\* The insert may have reached MongoDB although the driver reports an error.
StepFails(r) ==
  /\ pc[r] \in {"start", "create", "recheck", "enqueue", "markQueued"}
  /\ pc[r] = "start" => delivery[r].signed
  /\ Reply(r, pc[r], Answer("error", NoEvent))
  /\ \/ UNCHANGED status
     \/ /\ pc[r] = "create"
        /\ \A e \in Stored : ~IndexConflict(delivery[r], delivery[e])
        /\ status' = [status EXCEPT ![r] = "received"]
  /\ Fault /\ UNCHANGED <<locks, jobs>>

\* The API process stops while it serves the request.
ApiStops(r) ==
  /\ pc[r] \notin {"start", "done"}
  /\ Reply(r, pc[r], Answer("lost", NoEvent))
  /\ Fault /\ UNCHANGED <<locks, storeVars>>

\* The time to live of a lock, 30 minutes, whatever its request is doing.
LockExpires(name) ==
  /\ name \in locks
  /\ locks' = locks \ {name}
  /\ UNCHANGED <<delivery, pc, answer, status, jobs, faults>>

\* The retention index removes an event days after its request ended.
EventExpires(e) ==
  /\ e \in Stored
  /\ pc[e] = "done"
  /\ status' = [status EXCEPT ![e] = "expired"]
  /\ UNCHANGED <<requestVars, jobs, faults>>

IngestStep(r) ==
  \/ RefuseSignature(r) \/ FindDuplicate(r)
  \/ AcquireLock(r) \/ LockConflict(r)
  \/ CreateReceivedEvent(r) \/ AnswerDuplicateKey(r)
  \/ EnqueueJob(r) \/ MarkQueued(r)

IngestFault(r) ==
  \/ LockUnavailable(r) \/ LockReplyLost(r)
  \/ StepFails(r) \/ ApiStops(r)

IngestActs ==
  \/ \E r \in Requests : IngestStep(r) \/ IngestFault(r)
  \/ \E name \in LockNames : LockExpires(name)
  \/ \E e \in Requests : EventExpires(e)

AllAnswered == \A r \in Requests : pc[r] = "done"

\* No request is left, and the API waits for the next one.
IngestIdle == AllAnswered /\ UNCHANGED ingestVars

IngestNext == IngestActs \/ IngestIdle

IngestSpec == IngestInit /\ [][IngestNext]_ingestVars

(***************************************************************************)
(* Properties.                                                             *)
(***************************************************************************)

Accepted   == {r \in Requests : answer[r].kind = "accepted"}
TurnedAway == {r \in Requests : answer[r].kind = "duplicate"}
Working    == {r \in Requests : pc[r] \in {"create", "enqueue", "markQueued"}}

Clash(r, e) == IndexConflict(delivery[r], delivery[e])

\* The queue holds the job of r, or one that BullMQ takes for it.
Scheduled(r) == \E j \in jobs : j = r \/ SameJobId(delivery[r], delivery[j])

\* Two requests answered duplicate:false never clash while the events of both
\* are retained: the indexes keep it true when the lock expired, when Redis
\* was down and when the two requests carry different providers' locks.
AcceptedOnce ==
  \A r, e \in Accepted : r # e /\ {r, e} \subseteq Stored => ~Clash(r, e)

\* A job is only added for an event that was stored before it, and a request is
\* only answered duplicate:false when its job, or one BullMQ takes for the same,
\* was added: ingest answers after the hand-off, never before.
HandedOff ==
  /\ \A j \in jobs : status[j] # "none"
  /\ \A r \in Accepted : Scheduled(r)

\* Request e accounts for the duplicate answer of r: it was accepted or is still
\* at it, and clashes with r or with a request that used the lock of r.
Covers(e, r) ==
  /\ e # r
  /\ e \in Accepted \cup Working
  /\ \E q \in Requests : /\ q = r \/ LockName(delivery[q]) = LockName(delivery[r])
                         /\ Clash(q, e)

\* While nothing fails, no delivery is answered duplicate:true for nothing:
\* another request of the tenant was accepted for it or is being handled. It is
\* what makes the answer safe for a provider that stops redelivering on a 202.
DuplicateIsCovered ==
  faults = 0 => \A r \in TurnedAway : \E e \in Requests : Covers(e, r)

\* A redelivery told which event it repeats is one of an event that reached the
\* queue or is on its way there, whatever failed: see the findings.
RetryReachesQueue ==
  \A r \in TurnedAway :
    answer[r].event # NoEvent => answer[r].event \in Accepted \cup Working \cup jobs

\* A duplicate answer is given to a delivery that repeats another one, by the
\* rules findDuplicate itself uses: see the findings.
DuplicateMeansRepeat ==
  faults = 0 => \A r \in TurnedAway :
                  \E e \in Requests \ {r} : Matches(delivery[r], delivery[e])

\* An accepted event has a job of its own, without which no worker ever sees it. Keys
\* that sanitizeJobIdPart confuses break it, see OnlyConfusedKeysShareJobs.
AcceptedHasOwnJob == Accepted \subseteq jobs

\* The abstract view: which events are retained, which requests were confirmed.
Intake == INSTANCE WebhookIntake WITH
  clash     <- {p \in Requests \X Requests : Clash(p[1], p[2])},
  kept      <- Stored,
  gone      <- {e \in Requests : status[e] = "expired"},
  confirmed <- Accepted

\* Ingestion implements the at-most-once intake of WebhookIntake.
ImplementsIntake == Intake!Spec

(***************************************************************************)
(* The inductive invariant behind the safety properties.                   *)
(***************************************************************************)

\* Where a request is in ingest tells whether its event is stored, and only a
\* request that is done has an answer.
Shape ==
  \A r \in Requests :
    /\ pc[r] \in {"start", "acquire", "create", "recheck"} => status[r] = "none"
    /\ pc[r] \in {"enqueue", "markQueued"} => r \in Stored
    /\ answer[r].kind # "none" => pc[r] = "done"
    /\ r \in Accepted => status[r] # "none"
    /\ r \in TurnedAway => status[r] = "none"

\* No two events of the collection clash.
NoClash == \A r, e \in Stored : r # e => ~Clash(r, e)

\* A request that is past the add, or that was accepted, has a job to show.
JobsAdded ==
  /\ \A j \in jobs : status[j] # "none"
  /\ \A r \in Requests : pc[r] = "markQueued" \/ r \in Accepted => Scheduled(r)

\* Some request that uses this lock was accepted, is at it, or clashes with an
\* event that was stored.
Claimed(name) ==
  \E q \in Requests :
    /\ LockName(delivery[q]) = name
    /\ \/ q \in Accepted \cup Working
       \/ \E e \in Requests : status[e] # "none" /\ Clash(q, e)

\* While nothing fails: an event stored is one of a request that was accepted or
\* is at it, and a lock taken, a duplicate key error and a duplicate answer all
\* have a claim to the lock behind them.
Coverage ==
  faults = 0 =>
    /\ \A e \in Requests : status[e] # "none" => e \in Accepted \cup Working
    /\ \A name \in locks : Claimed(name)
    /\ \A r \in Requests : pc[r] = "recheck" \/ r \in TurnedAway =>
         Claimed(LockName(delivery[r]))

IngestInv == IngestTypeOK /\ Shape /\ NoClash /\ JobsAdded /\ Coverage
=============================================================================
