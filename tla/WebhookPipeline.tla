-------------------------- MODULE WebhookPipeline --------------------------
(***************************************************************************)
(* Webhook ingestion composed with the webhook-ingestion workers: the      *)
(* BullMQ queue with its retries and stalls, and webhook.processor with    *)
(* the lead service it calls.                                              *)
(*                                                                         *)
(* A run that lost its job to another one goes on beside it. API requests, *)
(* worker runs and the assistant queues share the status of the event, and *)
(* none of them looks at it when it writes it.                             *)
(***************************************************************************)
EXTENDS WebhookIngest

CONSTANTS
  Workers,      \* the worker slots
  NoWorker,     \* a job that no slot has run
  WhatsApp,     \* the provider whose messages are routed to the assistant
  MaxAttempts,  \* attempts of a job, 8 in ingest
  MaxStalled,   \* how often a job may stall, 1 in BullMQ
  CountersAccepted  \* MongoDB takes the update of a usage counter: it refuses one
                    \* that names counter in both $setOnInsert and $inc, as the
                    \* code's does; TRUE is the pipeline with that update repaired

ASSUME CountersAssumption == CountersAccepted \in BOOLEAN
ASSUME SlotsAssumption    == NoWorker \notin Workers
ASSUME BoundsAssumption   == MaxAttempts \in Nat \ {0} /\ MaxStalled \in Nat

VARIABLES
  work,         \* what BullMQ records of each job
  run,          \* what each worker slot is doing
  inbound,      \* the events whose inbound-events job was added
  upserts,      \* how often the contact of each event was upserted
  overtaken     \* history: the jobs put back while a run of theirs went on

effectVars == <<inbound, upserts, overtaken>>
workerVars == <<work, run, inbound, upserts, overtaken>>
vars       == <<ingestVars, workerVars>>

Queue == INSTANCE JobQueue WITH Jobs <- Requests

\* What AssistantPipeline guarantees of its writes.
Assistant == INSTANCE AssistantOutcome WITH
  Events <- Requests, handed <- inbound, rewritten <- {}, calm <- (faults = 0)

RunSteps  == {"idle", "find", "route", "lead", "upsert", "track", "mark", "catch",
              "return", "throw"}

\* The steps inside the try block of webhook.processor.
TryBlock  == {"route", "lead", "upsert", "track", "mark"}

Final     == {"processed", "ignored"}

Run  == [step : RunSteps, job : Requests \cup {NoEvent}]
Idle == [step |-> "idle", job |-> NoEvent]

TypeOK ==
  /\ IngestTypeOK
  /\ work \in [Requests -> Queue!Work]
  /\ run \in [Workers -> Run]
  /\ inbound \subseteq Requests
  /\ upserts \in [Requests -> Nat]
  /\ overtaken \subseteq Requests

Init ==
  /\ IngestInit
  /\ Queue!WorkInit
  /\ run = [w \in Workers |-> Idle]
  /\ inbound = {}
  /\ upserts = [e \in Requests |-> 0]
  /\ overtaken = {}

(***************************************************************************)
(* Helpers.                                                                *)
(***************************************************************************)

IsInboundMessage(d) == d.provider = WhatsApp /\ "message" \in d.payload.type
IsInboundLead(d)    == "lead" \in d.payload.type

RunTo(w, from, to) ==
  /\ run[w].step = from
  /\ run' = [run EXCEPT ![w].step = to]

\* The run ends and leaves the slot free.
EndRun(w, from) ==
  /\ run[w].step = from
  /\ run' = [run EXCEPT ![w] = Idle]

Running(w, j) == run[w].job = j

(***************************************************************************)
(* The queue.                                                              *)
(***************************************************************************)

\* A free slot takes a job that waits; one that stalled too often just fails.
TakeJob(w, j) ==
  /\ run[w].step = "idle"
  /\ j \in jobs
  /\ Queue!Take(w, j)
  /\ run' = [run EXCEPT ![w] = [step |-> IF Queue!GivenUp(j) THEN "throw" ELSE "find",
                               job  |-> j]]
  /\ UNCHANGED <<ingestVars, effectVars>>

\* The processor returned: the job is completed, unless its lock was lost.
CompleteJob(w) ==
  /\ EndRun(w, "return")
  /\ Queue!Complete(w, run[w].job)
  /\ UNCHANGED <<ingestVars, effectVars>>

\* The processor threw: the job is retried until its attempts are made.
FailJob(w) ==
  /\ EndRun(w, "throw")
  /\ Queue!Fail(w, run[w].job)
  /\ UNCHANGED <<ingestVars, effectVars>>

\* A worker process stops. Its job stays active until the stalled check.
WorkerStops(w) ==
  /\ run[w].step # "idle"
  /\ EndRun(w, run[w].step)
  /\ Fault
  /\ UNCHANGED <<requestVars, storeVars, work, effectVars>>

\* The stalled check finds a job whose worker is gone.
StalledDead(j) ==
  /\ \A w \in Workers : ~(work[j].owner = w /\ Running(w, j))
  /\ Queue!PutBack(j)
  /\ UNCHANGED <<ingestVars, run, effectVars>>

\* The stalled check finds a job whose worker runs but did not renew the lock.
StalledSlow(j) ==
  /\ \E w \in Workers : work[j].owner = w /\ Running(w, j)
  /\ Queue!PutBack(j)
  /\ overtaken' = overtaken \cup {j}
  /\ Fault
  /\ UNCHANGED <<requestVars, storeVars, run, inbound, upserts>>

(***************************************************************************)
(* The processor.                                                          *)
(***************************************************************************)

\* Mutant: a failed event counts as finalized.
FindEventFailedIsFinal(w) ==
  LET j == run[w].job IN
  /\ RunTo(w, "find",
       CASE j \notin Stored \/ status[j] \in Final \cup {"failed"} -> "return"
         [] j \in Stored /\ status[j] \notin Final \cup {"failed"} ->
              IF IsInboundMessage(delivery[j]) THEN "route" ELSE "lead")
  /\ UNCHANGED <<ingestVars, work, effectVars>>

\* Mutant: the status of the event found is not looked at.
FindEventUnchecked(w) ==
  LET j == run[w].job IN
  /\ RunTo(w, "find",
       CASE j \notin Stored -> "return"
         [] j \in Stored /\ IsInboundMessage(delivery[j]) -> "route"
         [] OTHER -> "lead")
  /\ UNCHANGED <<ingestVars, work, effectVars>>

\* findById, and the branch its answer takes: no event or a finalized one ends
\* the run, an inbound message is routed, anything else goes to the lead service.
FindEvent(w) ==
  LET j == run[w].job IN
  /\ RunTo(w, "find",
       CASE j \notin Stored \/ status[j] \in Final -> "return"
         [] j \in Stored /\ status[j] \notin Final /\ IsInboundMessage(delivery[j]) -> "route"
         [] OTHER -> "lead")
  /\ UNCHANGED <<ingestVars, work, effectVars>>

\* findById rejects outside the try block: no status is written.
FindEventFails(w) ==
  /\ RunTo(w, "find", "throw")
  /\ Fault
  /\ UNCHANGED <<requestVars, storeVars, work, effectVars>>

\* The job id of the inbound-events job is made of the event id: adding it again
\* changes nothing.
RouteInbound(w) ==
  /\ RunTo(w, "route", "return")
  /\ inbound' = inbound \cup {run[w].job}
  /\ UNCHANGED <<ingestVars, work, upserts, overtaken>>

\* The lead service reads the event again: gone, not a lead, or a lead.
StartLead(w) ==
  LET j == run[w].job IN
  /\ \/ /\ j \notin Stored
        /\ RunTo(w, "lead", "return")
        /\ UNCHANGED status
     \/ /\ j \in Stored /\ ~IsInboundLead(delivery[j])
        /\ RunTo(w, "lead", "return")
        /\ Mark(j, "ignored")
     \/ /\ j \in Stored /\ IsInboundLead(delivery[j])
        /\ RunTo(w, "lead", "upsert")
        /\ UNCHANGED status
  /\ UNCHANGED <<requestVars, jobs, faults, work, effectVars>>

\* The event is marked ignored, and the log of it cannot be written.
IgnoredLogFails(w) ==
  LET j == run[w].job IN
  /\ j \in Stored /\ ~IsInboundLead(delivery[j])
  /\ RunTo(w, "lead", "catch")
  /\ Mark(j, "ignored")
  /\ Fault
  /\ UNCHANGED <<requestVars, jobs, work, effectVars>>

UpsertLead(w) ==
  /\ RunTo(w, "upsert", "track")
  /\ upserts' = [upserts EXCEPT ![run[w].job] = @ + 1]
  /\ UNCHANGED <<ingestVars, work, inbound, overtaken>>

\* Mutant: the attempt fails although its counters were taken.
TrackLeadAlwaysFails(w) ==
  /\ RunTo(w, "track", "catch")
  /\ UNCHANGED <<ingestVars, work, effectVars>>

\* The usage counters of the lead, and the log that it was processed: a counter
\* MongoDB refuses fails the attempt after the contact was written.
TrackLead(w) ==
  /\ RunTo(w, "track", IF CountersAccepted THEN "mark" ELSE "catch")
  /\ UNCHANGED <<ingestVars, work, effectVars>>

\* Mutant: the update inserts an event that is not there.
MarkProcessedUpserts(w) ==
  /\ RunTo(w, "mark", "return")
  /\ status' = [status EXCEPT ![run[w].job] = "processed"]
  /\ UNCHANGED <<requestVars, jobs, faults, work, effectVars>>

MarkProcessed(w) ==
  /\ RunTo(w, "mark", "return")
  /\ Mark(run[w].job, "processed")
  /\ UNCHANGED <<requestVars, jobs, faults, work, effectVars>>

\* The inbound-events job is added, or the event marked processed, and the answer of
\* the call gets lost.
ReplyLost(w) ==
  /\ \/ /\ RunTo(w, "route", "catch")
        /\ inbound' = inbound \cup {run[w].job}
        /\ UNCHANGED status
     \/ /\ RunTo(w, "mark", "catch")
        /\ Mark(run[w].job, "processed")
        /\ UNCHANGED inbound
  /\ Fault
  /\ UNCHANGED <<requestVars, jobs, work, upserts, overtaken>>

\* A call of the try block rejects before it changed anything.
TryFails(w) ==
  /\ run[w].step \in TryBlock
  /\ RunTo(w, run[w].step, "catch")
  /\ Fault
  /\ UNCHANGED <<requestVars, storeVars, work, effectVars>>

\* Mutant: the catch block does not throw the error again.
MarkFailedSwallows(w) ==
  /\ RunTo(w, "catch", "return")
  /\ Mark(run[w].job, "failed")
  /\ UNCHANGED <<requestVars, jobs, faults, work, effectVars>>

\* The catch block marks the event failed and throws the error again.
MarkFailed(w) ==
  /\ RunTo(w, "catch", "throw")
  /\ Mark(run[w].job, "failed")
  /\ UNCHANGED <<requestVars, jobs, faults, work, effectVars>>

MarkFailedFails(w) ==
  /\ RunTo(w, "catch", "throw")
  /\ Fault
  /\ UNCHANGED <<requestVars, storeVars, work, effectVars>>

\* Mutant: an AI task is made again after it marked the event.
AssistantActsAgain(e) ==
  /\ e \in inbound
  /\ Mark(e, "processed") \/ Mark(e, "failed")
  /\ UNCHANGED <<requestVars, jobs, faults, work, run, effectVars>>

\* The assistant queues work on a routed event. A task that fails after it marked the
\* event, or is made again by another slot, needs a failure, one that shows here with
\* the write it leads to.
AssistantActs(e) ==
  /\ NoFault \/ Fault
  /\ Assistant!Write(e)
  /\ UNCHANGED <<requestVars, jobs, work, run, effectVars>>

WorkerStep(w) ==
  \/ FindEvent(w) \/ RouteInbound(w) \/ StartLead(w) \/ UpsertLead(w)
  \/ TrackLead(w) \/ MarkProcessed(w) \/ MarkFailed(w) \/ CompleteJob(w) \/ FailJob(w)

WorkerFault(w) ==
  \/ FindEventFails(w) \/ IgnoredLogFails(w) \/ ReplyLost(w) \/ TryFails(w)
  \/ MarkFailedFails(w) \/ WorkerStops(w)

WorkerActs ==
  \/ \E w \in Workers : \/ WorkerStep(w) \/ WorkerFault(w)
                        \/ \E j \in Requests : TakeJob(w, j)
  \/ \E j \in Requests : StalledDead(j) \/ StalledSlow(j) \/ AssistantActs(j)

\* Every request is answered and every job has ended.
Drained ==
  /\ AllAnswered
  /\ \A j \in jobs : Queue!Ended(j)
  /\ \A w \in Workers : run[w] = Idle
  /\ UNCHANGED vars

Next ==
  \/ IngestActs /\ UNCHANGED workerVars
  \/ WorkerActs
  \/ Drained

Spec == Init /\ [][Next]_vars

(***************************************************************************)
(* Fairness: a process that is up runs its pending continuations, a free   *)
(* slot takes a waiting job, and BullMQ's stalled check runs for ever. No  *)
(* failure, expiry or assistant step is promised.                          *)
(***************************************************************************)
Fairness ==
  /\ \A r \in Requests : WF_vars(IngestStep(r) /\ UNCHANGED workerVars)
  /\ \A w \in Workers : WF_vars(WorkerStep(w))
  /\ \A j \in Requests : WF_vars(\E w \in Workers : TakeJob(w, j))
  /\ \A j \in Requests : WF_vars(StalledDead(j))

FairSpec == Spec /\ Fairness

(***************************************************************************)
(* Properties.                                                             *)
(***************************************************************************)

Gone(e) == status[e] = "expired"

\* The effect the event asks for took place, or its event was removed first.
Served(e) ==
  CASE IsInboundMessage(delivery[e]) -> e \in inbound \/ Gone(e)
    [] OTHER -> IsInboundLead(delivery[e]) => upserts[e] > 0 \/ Gone(e)

\* BullMQ reports a job completed only when its event was served: the processor
\* that returns early, on a finalized or missing event, leaves nothing undone,
\* although late writes of ingest and of stalled runs change the status it reads.
CompletedMeansServed ==
  \A j \in jobs : work[j].state = "completed" => Served(j)

\* A completed job leaves its event settled, but for a late markQueued: neither a
\* failed attempt nor a stopped worker shows in the status once the job is done.
\* Only a slow run that was overtaken by another one may still write it.
CompletedMeansSettled ==
  \A j \in jobs \ overtaken :
    work[j].state = "completed" /\ ~IsInboundMessage(delivery[j])
      => status[j] \in Final \cup {"queued", "expired"}

\* With counters that MongoDB takes, each upsert of a contact beyond the first is
\* paid by a failure: a duplicate delivery, a retry after success or an overwritten
\* status never repeats it.
RepeatedUpsertNeedsFault ==
  CountersAccepted => \A e \in Requests : upserts[e] <= 1 + faults

\* Retries, stalls and slow runs together repeat the upsert of a contact no more
\* often than the job may be attempted and may stall.
UpsertsBounded == \A e \in Requests : upserts[e] <= MaxAttempts + MaxStalled

\* The contact of a finalized event is not upserted again, by a retry or after a
\* worker stopped, unless a slow run of its job was overtaken.
NoUpsertAfterFinal ==
  [][\A e \in Requests \ overtaken :
       upserts'[e] > upserts[e] => status[e] \notin Final]_vars

LosesFinal(e) == status[e] \in Final /\ status'[e] \notin Final \cup {"expired"}

\* While nothing fails, a finalized event loses its status to one writer only:
\* the request that stored it, whose markQueued was overtaken by the worker.
FinalOnlyLostToMarkQueued ==
  [][\A e \in Requests : faults' = 0 /\ LosesFinal(e) =>
       pc[e] = "markQueued" /\ status'[e] = "queued"]_vars

\* A finalized event stays finalized: see the findings.
FinalStaysFinal == [][\A e \in Requests : ~LosesFinal(e)]_vars

\* A job only fails when something failed. It holds of counters that MongoDB takes.
FailureNeedsFault == faults = 0 => \A j \in jobs : work[j].state # "failed"

\* The job of a lead never completes with the counters of the code, unless its event was
\* removed: each attempt fails after it upserted the contact.
LeadsNeverComplete ==
  ~CountersAccepted =>
    \A j \in jobs : IsInboundLead(delivery[j]) /\ ~IsInboundMessage(delivery[j]) =>
      (work[j].state = "completed" => Gone(j))

\* Every job added is run to its end: completed and served, or failed with its
\* attempts or its stalls used up, whatever worker stops on the way.
JobEnds ==
  \A j \in Requests :
    j \in jobs ~> Queue!Ended(j) /\ (work[j].state = "completed" => Served(j))
=============================================================================
