------------------------ MODULE WebhookPipelineProofs ------------------------
(***************************************************************************)
(* Proofs of the safety of ingestion composed with the queue and its       *)
(* workers, for any number of requests and worker slots and every bound on *)
(* attempts, stalls and failures.                                          *)
(***************************************************************************)
EXTENDS WebhookPipeline, WebhookIngestProofs, FiniteSetTheorems

QueueProofs == INSTANCE JobQueueProofs WITH Jobs <- Requests

(***************************************************************************)
(* The queue.                                                              *)
(***************************************************************************)

QueueStep ==
  \/ UNCHANGED work
  \/ \E w \in Workers, j \in Requests :
       Queue!Take(w, j) \/ Queue!Complete(w, j) \/ Queue!Fail(w, j)
  \/ \E j \in Requests : Queue!PutBack(j)

\* The queue keeps its types, as its own proofs say.
LEMMA QueueType ==
  ASSUME Queue!WorkOK, QueueStep
  PROVE  Queue!WorkOK'
  <1> USE DEF Queue!WorkOK, QueueProofs!WorkOK, Queue!Work, QueueProofs!Work, Queue!JobStates,
              QueueProofs!JobStates, Queue!Ended, QueueProofs!Ended
  <1>1. QueueProofs!WorkOK
    OBVIOUS
  <1>2. QueueProofs!QueueStep
    BY DEF QueueStep, QueueProofs!QueueStep, Queue!Take, QueueProofs!Take, Queue!Complete,
           QueueProofs!Complete, Queue!Fail, QueueProofs!Fail, Queue!PutBack,
           QueueProofs!PutBack, Queue!Owns, QueueProofs!Owns, Queue!LastTry,
           QueueProofs!LastTry, Queue!GivenUp, QueueProofs!GivenUp
  <1>3. QueueProofs!WorkOK'
    BY <1>1, <1>2, QueueProofs!QueueType, SlotsAssumption, BoundsAssumption
  <1>4. QED
    BY <1>3

\* What an operation does to the job it is about.
LEMMA QueueMoves ==
  ASSUME Queue!WorkOK, NEW w \in Workers, NEW j \in Requests
  PROVE  /\ work \in [Requests -> Queue!Work]
         /\ Queue!Take(w, j) =>
              /\ work[j].state = "waiting" /\ work'[j].state = "active" /\ work'[j].owner = w
              /\ work'[j].made = work[j].made /\ work'[j].stalled = work[j].stalled
              /\ \A k \in Requests \ {j} : work'[k] = work[k]
         /\ Queue!Complete(w, j) /\ Queue!Owns(w, j) =>
              /\ work'[j].state = "completed" /\ work'[j].owner = w
              /\ work'[j].made = work[j].made + 1 /\ work'[j].stalled = work[j].stalled
              /\ \A k \in Requests \ {j} : work'[k] = work[k]
         /\ Queue!Fail(w, j) /\ Queue!Owns(w, j) =>
              /\ work'[j].state \in {"failed", "waiting"} /\ work'[j].owner = w
              /\ Queue!GivenUp(j) => work'[j].state = "failed"
              /\ work'[j].made = work[j].made + 1 /\ work'[j].stalled = work[j].stalled
              /\ \A k \in Requests \ {j} : work'[k] = work[k]
         /\ Queue!PutBack(j) =>
              /\ work[j].state = "active" /\ work'[j].state = "waiting"
              /\ work'[j].owner = work[j].owner /\ work'[j].made = work[j].made
              /\ work'[j].stalled = IF Queue!GivenUp(j) THEN work[j].stalled
                                                        ELSE work[j].stalled + 1
              /\ \A k \in Requests \ {j} : work'[k] = work[k]
         /\ ~Queue!Owns(w, j) => /\ Queue!Complete(w, j) => UNCHANGED work
                                 /\ Queue!Fail(w, j) => UNCHANGED work
  <1>1. work \in [Requests -> Queue!Work] /\ work[j] \in Queue!Work
    BY DEF Queue!WorkOK
  <1>2. QED
    BY <1>1 DEF Queue!Work, Queue!Take, Queue!Complete, Queue!Fail, Queue!PutBack

(***************************************************************************)
(* The runs.                                                               *)
(***************************************************************************)

\* How the actions move a run, and end it.
LEMMA RunMoves ==
  ASSUME run \in [Workers -> Run], NEW w \in Workers, NEW s, NEW t \in RunSteps, RunTo(w, s, t)
  PROVE  /\ run[w].step = s /\ run' \in [Workers -> Run]
         /\ run'[w].step = t /\ run'[w].job = run[w].job
         /\ \A v \in Workers \ {w} : run'[v] = run[v]
  <1> DEFINE r == [run[w] EXCEPT !.step = t]
  <1>1. run' = [run EXCEPT ![w] = r] /\ run[w].step = s /\ run[w] \in Run
    BY DEF RunTo
  <1>2. r \in Run /\ r.step = t /\ r.job = run[w].job
    BY <1>1 DEF Run
  <1> HIDE DEF r
  <1>3. QED
    BY <1>1, <1>2

LEMMA RunLeaves ==
  ASSUME run \in [Workers -> Run], NEW w \in Workers, NEW s, EndRun(w, s)
  PROVE  /\ run[w].step = s /\ run' \in [Workers -> Run]
         /\ run'[w].step = "idle" /\ run'[w].job = NoEvent
         /\ \A v \in Workers \ {w} : run'[v] = run[v]
  <1>1. Idle \in Run /\ Idle.step = "idle" /\ Idle.job = NoEvent
    BY DEF Run, Idle, RunSteps
  <1>2. QED
    BY <1>1 DEF EndRun

\* A run belongs to a job that was added; a free slot to none.
RunJobs ==
  \A w \in Workers : /\ run[w].step # "idle" => run[w].job \in jobs
                     /\ run[w].step = "idle" => run[w].job = NoEvent

TypeInv == TypeOK /\ Queue!WorkOK /\ RunJobs

\* The steps of a run between the taking of its job and its end.
Processor(w) ==
  \/ FindEvent(w) \/ RouteInbound(w) \/ StartLead(w) \/ UpsertLead(w) \/ TrackLead(w)
  \/ MarkProcessed(w) \/ MarkFailed(w)
  \/ FindEventFails(w) \/ IgnoredLogFails(w) \/ ReplyLost(w) \/ TryFails(w)
  \/ MarkFailedFails(w)

\* The ends of a run.
RunEnds(w) == CompleteJob(w) \/ FailJob(w) \/ WorkerStops(w)

\* What workers and the assistant may do to an event: write the status of a stored one.
WorkerWrites ==
  /\ UNCHANGED <<requestVars, jobs>>
  /\ faults' \in 0..MaxFaults /\ faults <= faults'
  /\ status' \in [Requests -> Statuses]
  /\ \A e \in Requests : \/ status'[e] = status[e]
                         \/ e \in Stored /\ status'[e] \in {"processed", "ignored", "failed"}

\* A run goes on, and only the status of its event is written.
GoesOn(w) ==
  /\ run[w].step # "idle" /\ run'[w].step # "idle" /\ run'[w].job = run[w].job
  /\ run' \in [Workers -> Run] /\ \A v \in Workers \ {w} : run'[v] = run[v]
  /\ UNCHANGED <<work, overtaken>>
  /\ \A e \in Requests \ {run[w].job} : status'[e] = status[e]

\* A slot is left free, and no event is written.
GoesIdle(w) ==
  /\ run[w].step # "idle" /\ run'[w].step = "idle" /\ run'[w].job = NoEvent
  /\ run' \in [Workers -> Run] /\ \A v \in Workers \ {w} : run'[v] = run[v]
  /\ UNCHANGED <<status, inbound, upserts, overtaken>>

LEMMA ProcessorStep ==
  ASSUME TypeInv, NEW w \in Workers, Processor(w)
  PROVE  WorkerWrites /\ GoesOn(w)
  <1> USE MaxFaultsAssumption
      DEF WorkerWrites, GoesOn, Mark, Fault, Statuses, ingestVars, requestVars, storeVars,
          effectVars
  <1>1. /\ run \in [Workers -> Run] /\ (run[w].step # "idle" => run[w].job \in Requests)
        /\ status \in [Requests -> Statuses] /\ faults \in 0..MaxFaults
    BY DEF TypeInv, TypeOK, IngestTypeOK, RunJobs
  <1>2. {"find", "route", "lead", "upsert", "track", "mark", "catch", "return", "throw"}
          = RunSteps \ {"idle"}
    BY DEF RunSteps
  <1>3. CASE FindEvent(w)
    <2>1. PICK t \in {"return", "route", "lead"} : RunTo(w, "find", t)
      BY <1>3 DEF FindEvent
    <2>2. QED
      BY <1>1, <1>2, <1>3, <2>1, RunMoves DEF FindEvent
  <1>4. CASE FindEventFails(w)
    BY <1>1, <1>2, <1>4, RunMoves DEF FindEventFails
  <1>5. CASE RouteInbound(w)
    BY <1>1, <1>2, <1>5, RunMoves DEF RouteInbound
  <1>6. CASE StartLead(w)
    BY <1>1, <1>2, <1>6, RunMoves DEF StartLead
  <1>7. CASE IgnoredLogFails(w)
    BY <1>1, <1>2, <1>7, RunMoves DEF IgnoredLogFails
  <1>8. CASE UpsertLead(w)
    BY <1>1, <1>2, <1>8, RunMoves DEF UpsertLead
  <1>9. CASE TrackLead(w)
    <2>1. PICK t \in {"mark", "catch"} : RunTo(w, "track", t)
      BY <1>9 DEF TrackLead
    <2>2. QED
      BY <1>1, <1>2, <1>9, <2>1, RunMoves DEF TrackLead
  <1>10. CASE MarkProcessed(w)
    BY <1>1, <1>2, <1>10, RunMoves DEF MarkProcessed
  <1>11. CASE TryFails(w)
    BY <1>1, <1>2, <1>11, RunMoves DEF TryFails, TryBlock
  <1>12. CASE MarkFailed(w)
    BY <1>1, <1>2, <1>12, RunMoves DEF MarkFailed
  <1>13. CASE MarkFailedFails(w)
    BY <1>1, <1>2, <1>13, RunMoves DEF MarkFailedFails
  <1>14. CASE ReplyLost(w)
    BY <1>1, <1>2, <1>14, RunMoves DEF ReplyLost
  <1>15. QED
    BY <1>3, <1>4, <1>5, <1>6, <1>7, <1>8, <1>9, <1>10, <1>11, <1>12, <1>13, <1>14
       DEF Processor

LEMMA RunEndsStep ==
  ASSUME TypeInv, NEW w \in Workers, RunEnds(w)
  PROVE  /\ WorkerWrites /\ GoesIdle(w)
         /\ \/ CompleteJob(w) /\ Queue!Complete(w, run[w].job)
            \/ FailJob(w) /\ Queue!Fail(w, run[w].job)
            \/ WorkerStops(w) /\ UNCHANGED work
  <1> USE MaxFaultsAssumption
      DEF WorkerWrites, GoesIdle, Fault, ingestVars, requestVars, storeVars, effectVars
  <1>1. /\ run \in [Workers -> Run] /\ status \in [Requests -> Statuses]
        /\ faults \in 0..MaxFaults
    BY DEF TypeInv, TypeOK, IngestTypeOK
  <1>2. CASE CompleteJob(w)
    BY <1>1, <1>2, RunLeaves DEF CompleteJob
  <1>3. CASE FailJob(w)
    BY <1>1, <1>3, RunLeaves DEF FailJob
  <1>4. CASE WorkerStops(w)
    BY <1>1, <1>4, RunLeaves DEF WorkerStops
  <1>5. QED
    BY <1>2, <1>3, <1>4 DEF RunEnds

\* A slot takes a job.
LEMMA TakeStep ==
  ASSUME TypeInv, NEW w \in Workers, NEW j \in Requests, TakeJob(w, j)
  PROVE  /\ WorkerWrites /\ UNCHANGED <<status, faults, inbound, upserts, overtaken>>
         /\ run[w].step = "idle" /\ run'[w].job = j /\ j \in jobs
         /\ run'[w].step = IF Queue!GivenUp(j) THEN "throw" ELSE "find"
         /\ run' \in [Workers -> Run] /\ \A v \in Workers \ {w} : run'[v] = run[v]
         /\ Queue!Take(w, j)
  <1> DEFINE s == IF Queue!GivenUp(j) THEN "throw" ELSE "find"
             r == [step |-> s, job |-> j]
  <1>1. /\ run \in [Workers -> Run] /\ status \in [Requests -> Statuses]
        /\ faults \in 0..MaxFaults /\ faults \in Nat
    BY MaxFaultsAssumption DEF TypeInv, TypeOK, IngestTypeOK
  <1>2. /\ run[w].step = "idle" /\ j \in jobs /\ run' = [run EXCEPT ![w] = r]
        /\ Queue!Take(w, j)
    BY DEF TakeJob
  <1>3. s \in RunSteps
    BY DEF RunSteps
  <1> HIDE DEF s
  <1>4. r \in Run /\ r.step = s /\ r.job = j
    BY <1>3 DEF Run
  <1> HIDE DEF r
  <1>5. WorkerWrites /\ UNCHANGED <<status, faults, inbound, upserts, overtaken>>
    BY <1>1 DEF TakeJob, WorkerWrites, ingestVars, requestVars, effectVars
  <1>6. QED
    BY <1>1, <1>2, <1>4, <1>5 DEF s

\* A job is put back.
LEMMA StalledStep ==
  ASSUME TypeInv, NEW j \in Requests, StalledDead(j) \/ StalledSlow(j)
  PROVE  /\ WorkerWrites /\ UNCHANGED <<status, run, inbound, upserts>>
         /\ overtaken' \in {overtaken, overtaken \cup {j}}
         /\ Queue!PutBack(j)
  BY MaxFaultsAssumption
     DEF TypeInv, TypeOK, IngestTypeOK, StalledDead, StalledSlow, WorkerWrites, Fault,
         ingestVars, requestVars, storeVars, effectVars

\* The assistant writes the status of an event it was handed, and while nothing fails
\* of none that is processed.
LEMMA AssistantStep ==
  ASSUME TypeInv, NEW e \in Requests, AssistantActs(e)
  PROVE  /\ WorkerWrites /\ UNCHANGED <<work, run, inbound, upserts, overtaken>>
         /\ e \in inbound
         /\ status' = status \/ status'[e] \in {"processed", "failed"}
         /\ status[e] = "processed" => faults' # 0
         /\ \A d \in Requests \ {e} : status'[d] = status[d]
  <1>1. status \in [Requests -> Statuses] /\ faults \in 0..MaxFaults
    BY DEF TypeInv, TypeOK, IngestTypeOK
  <1>2. /\ UNCHANGED <<requestVars, jobs, work, run, inbound, upserts, overtaken>>
        /\ faults' \in 0..MaxFaults /\ faults <= faults'
    BY <1>1, MaxFaultsAssumption DEF AssistantActs, effectVars, NoFault, Fault
  <1>3. PICK s \in {"processed", "failed"} :
          status' = IF status[e] \in {"none", "expired"} THEN status
                                                        ELSE [status EXCEPT ![e] = s]
    BY DEF AssistantActs, Assistant!Write, Assistant!Becomes
  <1>4. e \in inbound /\ (status[e] = "processed" => faults' # 0)
    BY DEF AssistantActs, Assistant!Write
  <1>5. status' \in [Requests -> Statuses]
    BY <1>1, <1>3 DEF Statuses
  <1>6. \A d \in Requests \ {e} : status'[d] = status[d]
    BY <1>1, <1>3
  <1>7. /\ status' = status \/ status'[e] \in {"processed", "failed"}
        /\ status'[e] = status[e] \/ (e \in Stored /\ status'[e] \in {"processed", "failed"})
    BY <1>1, <1>3 DEF Stored
  <1>8. WorkerWrites
    BY <1>2, <1>5, <1>6, <1>7 DEF WorkerWrites
  <1>9. QED
    BY <1>2, <1>4, <1>6, <1>7, <1>8

(***************************************************************************)
(* Types, and what ingestion promises.                                     *)
(***************************************************************************)

\* The writes of workers keep what holds of requests, of stored events and of locks:
\* they store no event and lose none, and answer no request.
LEMMA WritesKeep ==
  ASSUME IngestTypeOK, Shape, NoClash, JobsAdded, Coverage, WorkerWrites
  PROVE  IngestTypeOK' /\ Shape' /\ NoClash' /\ JobsAdded' /\ Coverage'
  <1>1. \A e \in Requests : /\ (status[e] = "none") = (status'[e] = "none")
                            /\ (e \in Stored) = (e \in Stored')
    BY DEF WorkerWrites, Stored
  <1>2. IngestTypeOK'
    BY DEF IngestTypeOK, WorkerWrites, requestVars
  <1>3. Shape'
    BY <1>1 DEF Shape, WorkerWrites, Accepted, TurnedAway, requestVars
  <1>4. NoClash'
    BY <1>1 DEF NoClash, Clash, Stored, WorkerWrites, requestVars
  <1>5. JobsAdded'
    BY <1>1 DEF IngestTypeOK, JobsAdded, Scheduled, Accepted, WorkerWrites, requestVars
  <1>6. Coverage'
    <2> SUFFICES ASSUME faults' = 0
                 PROVE  /\ \A e \in Requests : status'[e] # "none" => e \in (Accepted \cup Working)'
                        /\ \A name \in locks' : Claimed(name)'
                        /\ \A r \in Requests : (pc[r] = "recheck" \/ r \in TurnedAway)' =>
                             Claimed(LockName(delivery[r]))'
      BY DEF Coverage
    <2>1. faults = 0
      BY MaxFaultsAssumption DEF IngestTypeOK, WorkerWrites
    <2>2. UNCHANGED <<delivery, pc, answer, locks>>
      BY DEF WorkerWrites, requestVars
    <2>3. Accepted' = Accepted /\ Working' = Working /\ TurnedAway' = TurnedAway
      BY <2>2 DEF Accepted, Working, TurnedAway
    <2>4. ASSUME NEW name, Claimed(name) PROVE Claimed(name)'
      BY <1>1, <2>2, <2>3, <2>4 DEF Claimed, Clash
    <2>5. ASSUME NEW r \in Requests, (pc[r] = "recheck" \/ r \in TurnedAway)'
          PROVE  Claimed(LockName(delivery[r]))'
      <3>1. PICK name : name = LockName(delivery[r]) /\ name = LockName(delivery[r])'
        BY <2>2
      <3>2. Claimed(name)
        BY <2>1, <2>2, <2>3, <2>5, <3>1 DEF Coverage
      <3>3. Claimed(name)'
        BY <2>4, <3>2
      <3>4. QED
        BY <3>1, <3>3 DEF Claimed
    <2>6. QED
      BY <1>1, <2>1, <2>2, <2>3, <2>4, <2>5 DEF Coverage
  <1>7. QED
    BY <1>2, <1>3, <1>4, <1>5, <1>6

\* What a step of ingestion may do to events and jobs.
IngestWrites ==
  /\ UNCHANGED delivery /\ faults <= faults'
  /\ jobs \subseteq jobs' /\ \A j \in jobs' \ jobs : status[j] # "none"
  /\ \A e \in Requests :
       \/ status'[e] = status[e]
       \/ status[e] = "none" /\ status'[e] = "received"
       \/ e \in Stored /\ status'[e] = "expired"
       \/ e \in Stored /\ pc[e] = "markQueued" /\ status'[e] = "queued"

LEMMA IngestStepWrites ==
  ASSUME IngestTypeOK, Shape, IngestActs
  PROVE  IngestWrites
  <1> USE MaxFaultsAssumption
      DEF IngestTypeOK, IngestWrites, Shape, Goto, Reply, NoFault, Fault, storeVars, requestVars
  <1>1. ASSUME NEW r \in Requests,
               \/ RefuseSignature(r) \/ FindDuplicate(r) \/ AcquireLock(r) \/ LockConflict(r)
               \/ AnswerDuplicateKey(r) \/ LockUnavailable(r) \/ LockReplyLost(r) \/ ApiStops(r)
        PROVE  UNCHANGED <<delivery, status, jobs>> /\ faults <= faults'
    BY <1>1 DEF RefuseSignature, FindDuplicate, AcquireLock, LockConflict, AnswerDuplicateKey,
                LockUnavailable, LockReplyLost, ApiStops
  <1>2. ASSUME NEW r \in Requests, CreateReceivedEvent(r) PROVE IngestWrites
    BY <1>2 DEF CreateReceivedEvent
  <1>3. ASSUME NEW r \in Requests, EnqueueJob(r) PROVE IngestWrites
    BY <1>3 DEF EnqueueJob, Stored
  <1>4. ASSUME NEW r \in Requests, MarkQueued(r) PROVE IngestWrites
    BY <1>4 DEF MarkQueued, Mark
  <1>5. ASSUME NEW r \in Requests, StepFails(r) PROVE IngestWrites
    BY <1>5 DEF StepFails
  <1>6. ASSUME NEW name \in LockNames, LockExpires(name) PROVE IngestWrites
    BY <1>6 DEF LockExpires
  <1>7. ASSUME NEW e \in Requests, EventExpires(e) PROVE IngestWrites
    BY <1>7 DEF EventExpires
  <1>8. QED
    BY <1>1, <1>2, <1>3, <1>4, <1>5, <1>6, <1>7 DEF IngestActs, IngestStep, IngestFault

\* The kinds of steps of the pipeline.
LEMMA Kinds ==
  ASSUME [Next]_vars
  PROVE  \/ IngestActs /\ UNCHANGED workerVars
         \/ \E w \in Workers : Processor(w)
         \/ \E w \in Workers : RunEnds(w)
         \/ \E w \in Workers, j \in Requests : TakeJob(w, j)
         \/ \E j \in Requests : StalledDead(j) \/ StalledSlow(j)
         \/ \E e \in Requests : AssistantActs(e)
         \/ UNCHANGED vars
  BY DEF Next, WorkerActs, WorkerStep, WorkerFault, Processor, RunEnds, Drained

\* What ingestion keeps true of requests and events, kept by the workers too.
IngestionInv == Shape /\ NoClash /\ JobsAdded /\ Coverage

\* Types and the promises of ingestion are inductive for the pipeline.
LEMMA PipelineTypeStep ==
  TypeInv /\ IngestionInv /\ [Next]_vars => TypeInv' /\ IngestionInv'
  <1> SUFFICES ASSUME TypeInv, IngestionInv, [Next]_vars PROVE TypeInv' /\ IngestionInv'
    OBVIOUS
  <1> USE DEF IngestionInv
  <1>1. IngestTypeOK /\ Shape /\ NoClash /\ JobsAdded /\ Coverage
    BY DEF TypeInv, TypeOK
  <1>2. ASSUME WorkerWrites PROVE IngestTypeOK' /\ IngestionInv' /\ UNCHANGED jobs
    BY <1>1, <1>2, WritesKeep DEF WorkerWrites
  <1>3. \A w \in Workers : run[w].step # "idle" => run[w].job \in Requests
    BY DEF TypeInv, TypeOK, IngestTypeOK, RunJobs
  <1>4. CASE IngestActs /\ UNCHANGED workerVars
    <2>1. IngestTypeOK' /\ IngestionInv'
      BY <1>1, <1>4, TypeStep, ShapeStep, NoClashStep, JobsAddedStep, CoverageStep
         DEF IngestNext
    <2>2. jobs \subseteq jobs' /\ UNCHANGED <<work, run, inbound, upserts, overtaken>>
      BY <1>1, <1>4, IngestStepWrites DEF IngestWrites, workerVars
    <2>3. QED
      BY <2>1, <2>2 DEF TypeInv, TypeOK, RunJobs, Queue!WorkOK, Queue!Ended
  <1>5. ASSUME NEW w \in Workers, Processor(w) PROVE TypeInv' /\ IngestionInv'
    <2>1. WorkerWrites /\ GoesOn(w)
      BY <1>5, ProcessorStep
    <2>2. inbound' \subseteq Requests /\ upserts' \in [Requests -> Nat]
      BY <1>3, <1>5
         DEF TypeInv, TypeOK, Processor, FindEvent, FindEventFails, RouteInbound, StartLead,
             IgnoredLogFails, ReplyLost, UpsertLead, TrackLead, MarkProcessed, TryFails,
             MarkFailed, MarkFailedFails, RunTo, effectVars
    <2>3. QED
      BY <1>2, <2>1, <2>2 DEF GoesOn, TypeInv, TypeOK, RunJobs, Queue!WorkOK, Queue!Ended
  <1>6. ASSUME NEW w \in Workers, RunEnds(w) PROVE TypeInv' /\ IngestionInv'
    <2>1. WorkerWrites /\ GoesIdle(w) /\ QueueStep
      BY <1>3, <1>6, RunEndsStep DEF QueueStep, GoesIdle
    <2>2. Queue!WorkOK'
      BY <2>1, QueueType DEF TypeInv
    <2>3. QED
      BY <1>2, <2>1, <2>2 DEF GoesIdle, TypeInv, TypeOK, RunJobs, Queue!WorkOK
  <1>7. ASSUME NEW w \in Workers, NEW j \in Requests, TakeJob(w, j)
        PROVE  TypeInv' /\ IngestionInv'
    <2>1. Queue!WorkOK'
      BY <1>7, TakeStep, QueueType DEF TypeInv, QueueStep
    <2>2. QED
      BY <1>2, <1>7, <2>1, TakeStep DEF TypeInv, TypeOK, RunJobs, Queue!WorkOK
  <1>8. ASSUME NEW j \in Requests, StalledDead(j) \/ StalledSlow(j)
        PROVE  TypeInv' /\ IngestionInv'
    <2>1. Queue!WorkOK'
      BY <1>8, StalledStep, QueueType DEF TypeInv, QueueStep
    <2>2. QED
      BY <1>2, <1>8, <2>1, StalledStep DEF TypeInv, TypeOK, RunJobs, Queue!WorkOK
  <1>9. ASSUME NEW e \in Requests, AssistantActs(e) PROVE TypeInv' /\ IngestionInv'
    BY <1>2, <1>9, AssistantStep DEF TypeInv, TypeOK, RunJobs, Queue!WorkOK, Queue!Ended
  <1>10. CASE UNCHANGED vars
    <2>1. UNCHANGED <<delivery, pc, answer, locks, status, jobs, faults>>
      BY <1>10 DEF vars, ingestVars
    <2>2. UNCHANGED workerVars
      BY <1>10 DEF vars
    <2>3. IngestTypeOK' /\ IngestionInv'
      BY <1>1, <2>1, TypeStep, ShapeStep, NoClashStep, JobsAddedStep, CoverageStep
         DEF ingestVars
    <2>4. QED
      BY <2>1, <2>2, <2>3 DEF workerVars, TypeInv, TypeOK, RunJobs, Queue!WorkOK, Queue!Ended
  <1>11. QED
    BY <1>4, <1>5, <1>6, <1>7, <1>8, <1>9, <1>10, Kinds

\* The pipeline starts with its types, and with nothing done.
LEMMA PipelineInit == Init => TypeInv /\ IngestionInv
  <1> SUFFICES ASSUME Init PROVE TypeInv /\ IngestionInv
    OBVIOUS
  <1>1. IngestTypeOK /\ IngestionInv
    <2>1. IngestInit
      BY DEF Init
    <2>2. IngestTypeOK
      BY <2>1, NoEventAssumption, MaxFaultsAssumption
         DEF IngestInit, IngestTypeOK, Answer, Answers, Steps, Statuses
    <2>3. /\ jobs = {} /\ locks = {} /\ \A r \in Requests : status[r] = "none" /\ pc[r] = "start"
          /\ Accepted = {} /\ TurnedAway = {} /\ \A r \in Requests : answer[r].kind = "none"
      BY <2>1 DEF IngestInit, Answer, Accepted, TurnedAway
    <2>4. QED
      BY <2>2, <2>3 DEF IngestionInv, Shape, NoClash, JobsAdded, Coverage, Stored
  <1>2. Queue!WorkOK
    BY BoundsAssumption DEF Init, Queue!WorkInit, Queue!WorkOK, Queue!Work, Queue!JobStates
  <1>3. /\ run \in [Workers -> Run] /\ RunJobs
        /\ inbound \subseteq Requests
        /\ upserts \in [Requests -> Nat] /\ overtaken \subseteq Requests
    BY DEF Init, Run, Idle, RunSteps, RunJobs
  <1>4. QED
    BY <1>1, <1>2, <1>3 DEF TypeInv, TypeOK, Queue!WorkOK

\* Every variable of the pipeline keeps its type, under any retries, stalls and stops.
THEOREM PipelineTypes == Spec => []TypeOK
  <1>1. TypeInv => TypeOK
    BY DEF TypeInv
  <1>2. QED
    BY <1>1, PipelineInit, PipelineTypeStep, PTL DEF Spec

\* Ingestion keeps its promise beside the workers: no status they write lets two
\* accepted requests with retained events clash.
THEOREM PipelineAcceptedOnce == Spec => []AcceptedOnce
  <1>1. IngestionInv => AcceptedOnce
    BY DEF IngestionInv, NoClash, AcceptedOnce, Accepted
  <1>2. QED
    BY <1>1, PipelineInit, PipelineTypeStep, PTL DEF Spec

\* Beside the workers too, ingest answers after the hand-off: an accepted request has its
\* job, and a job its event, whatever the workers made of either since.
THEOREM PipelineHandedOff == Spec => []HandedOff
  <1>1. TypeInv /\ IngestionInv => HandedOff
    BY DEF TypeInv, TypeOK, IngestTypeOK, IngestionInv, JobsAdded, HandedOff, Accepted
  <1>2. QED
    BY <1>1, PipelineInit, PipelineTypeStep, PTL DEF Spec

\* Beside the workers too, a delivery is answered duplicate:true, while nothing fails,
\* only for another request that was accepted or is at it: what workers do to an event
\* never makes it a reason for turning a delivery away.
THEOREM PipelineDuplicateIsCovered == Spec => []DuplicateIsCovered
  <1>1. IngestionInv => DuplicateIsCovered
    BY CoveredDuplicates DEF IngestionInv
  <1>2. QED
    BY <1>1, PipelineInit, PipelineTypeStep, PTL DEF Spec

(***************************************************************************)
(* Refinement: beside the workers ingestion is still an at-most-once       *)
(* intake.                                                                 *)
(***************************************************************************)

\* The workers keep, confirm and forget nothing: their steps are none of the intake's.
LEMMA WritesUnseen ==
  ASSUME IngestTypeOK, WorkerWrites
  PROVE  UNCHANGED Intake!vars
  <1>1. Stored' = Stored /\ Expired' = Expired
    BY DEF WorkerWrites, Stored, Expired
  <1>2. UNCHANGED delivery /\ Accepted' = Accepted
    BY DEF WorkerWrites, requestVars, Accepted
  <1>3. QED
    BY <1>1, <1>2, IntakeStutter

\* Every step of the pipeline is one of the intake, or none it sees.
LEMMA PipelineIntakeStep ==
  TypeInv /\ IngestionInv /\ [Next]_vars => [Intake!Next]_(Intake!vars)
  <1> SUFFICES ASSUME TypeInv, IngestionInv, [Next]_vars
               PROVE  [Intake!Next]_(Intake!vars)
    OBVIOUS
  <1>1. IngestTypeOK /\ Shape
    BY DEF TypeInv, TypeOK, IngestionInv
  <1>2. CASE IngestActs
    BY <1>1, <1>2, IntakeStep DEF IngestNext
  <1>3. CASE UNCHANGED vars
    BY <1>1, <1>3, IntakeStep DEF vars
  <1>4. CASE WorkerWrites
    BY <1>1, <1>4, WritesUnseen
  <1>5. QED
    BY <1>2, <1>3, <1>4, Kinds, ProcessorStep, RunEndsStep, TakeStep, StalledStep, AssistantStep

\* Every behaviour of ingestion composed with its queue and workers, whatever is retried,
\* stalls and fails, is one of WebhookIntake: no worker confirms, forgets or brings back.
THEOREM PipelineIntakeRefinement == Spec => ImplementsIntake
  <1>1. Init => Intake!Init
    BY DEF Init, IngestInit, Intake!Init, Stored, Accepted, Answer
  <1>2. QED
    BY <1>1, PipelineIntakeStep, PipelineInit, PipelineTypeStep, PTL
       DEF Spec, ImplementsIntake, Intake!Spec

(***************************************************************************)
(* Completed jobs were served.                                             *)
(***************************************************************************)

LeadSteps == {"lead", "upsert", "track", "mark"}

\* The branch a run is on says what its event is, and what was done for it.
RunOK(w) ==
  LET j == run[w].job  s == run[w].step IN
  /\ s = "route" => IsInboundMessage(delivery[j])
  /\ s \in LeadSteps => ~IsInboundMessage(delivery[j])
  /\ s \in {"upsert", "track", "mark"} => IsInboundLead(delivery[j])
  /\ s \in {"track", "mark"} => upserts[j] > 0
  /\ s = "return" => Served(j)

\* Nothing says of an event that it was served before it was.
EventOK(e) ==
  /\ e \in inbound => IsInboundMessage(delivery[e])
  /\ status[e] \in Final => Served(e)
  /\ status[e] = "ignored" => ~IsInboundMessage(delivery[e])
  /\ work[e].state = "completed" => Served(e)

ServedInv ==
  /\ \A j \in jobs : status[j] # "none"
  /\ \A e \in Requests : EventOK(e)
  /\ \A w \in Workers : RunOK(w)

(***************************************************************************)
(* Completed jobs are settled.                                             *)
(***************************************************************************)

Settled(e) == status[e] \in Final \cup {"queued", "expired"}

\* Every run of a job owns it, so that the job has one run and only that run writes
\* its event.
JobOK(j) ==
  /\ work[j].state = "completed" /\ ~IsInboundMessage(delivery[j]) => Settled(j)
  /\ \A w \in Workers : run[w].job = j =>
       /\ Queue!Owns(w, j)
       /\ run[w].step = "return" /\ ~IsInboundMessage(delivery[j]) => Settled(j)
       /\ run[w].step \in LeadSteps => status[j] \notin Final

\* That holds of the jobs that no slow run was overtaken at.
SettledInv == \A j \in Requests \ overtaken : JobOK(j)

\* While nothing fails no run is overtaken, and none fails with a finalized event.
QuietInv ==
  faults = 0 =>
    /\ overtaken = {}
    /\ \A w \in Workers : run[w].step = "catch" =>
         status[run[w].job] \notin Final /\ ~IsInboundMessage(delivery[run[w].job])

(***************************************************************************)
(* How often the contact of an event is upserted.                          *)
(***************************************************************************)

\* The runs of a job that may still upsert its contact.
Pending(j) == {w \in Workers : run[w].job = j /\ run[w].step \in {"find", "lead", "upsert"}}

Load(j) == upserts[j] + Cardinality(Pending(j))

\* The attempts and stalls a job has used, the attempt it is at included. The last
\* stall of a job that was given up uses the attempt that fails it.
Used(j) ==
  work[j].made + work[j].stalled
  + (IF work[j].state = "active" /\ ~Queue!GivenUp(j) THEN 1 ELSE 0)
  - (IF Queue!Ended(j) /\ Queue!GivenUp(j) THEN 1 ELSE 0)

Healthy == {"find", "route", "lead", "upsert", "track", "mark", "return"}

\* The job is in the hands of a run that nothing has failed yet, or is done.
Held(j) ==
  \/ Queue!Ended(j)
  \/ \E w \in Workers : /\ Queue!Owns(w, j) /\ run[w].job = j
                        /\ run[w].step \in Healthy

\* The runs of a job that was given up do nothing but fail.
GivenUpOK(j) ==
  \A w \in Workers : Queue!Owns(w, j) /\ run[w].job = j /\ Queue!GivenUp(j)
                       => run[w].step = "throw"

\* What an event may cost: a job that is not held may be taken once more.
LoadInv ==
  \A j \in Requests :
    /\ IsFiniteSet(Pending(j))
    /\ GivenUpOK(j)
    /\ Load(j) <= Used(j)
    /\ CountersAccepted => Load(j) + (IF Held(j) THEN 0 ELSE 1) <= 1 + faults

(***************************************************************************)
(* What the steps of the processor do.                                     *)
(***************************************************************************)

\* A step that leaves the effects alone.
Quiet == UNCHANGED <<inbound, upserts>>

\* Run w goes from step s to step t.
Moves(w, s, t) == run[w].step = s /\ run'[w].step = t

\* The steps of the processor at job j: where they start and end, what they found, and
\* what they did.
Finds(w, j) ==
  /\ Quiet /\ UNCHANGED <<status, faults>>
  /\ \/ Moves(w, "find", "return") /\ (j \notin Stored \/ status[j] \in Final)
     \/ Moves(w, "find", "route") /\ IsInboundMessage(delivery[j])
     \/ Moves(w, "find", "lead") /\ ~IsInboundMessage(delivery[j]) /\ status[j] \notin Final

Routes(w, j) ==
  /\ Moves(w, "route", "return") /\ UNCHANGED <<status, upserts, faults>>
  /\ inbound' = inbound \cup {j}

Starts(w, j) ==
  /\ Quiet /\ UNCHANGED faults
  /\ \/ Moves(w, "lead", "return") /\ j \notin Stored /\ UNCHANGED status
     \/ Moves(w, "lead", "return") /\ status'[j] = "ignored" /\ ~IsInboundLead(delivery[j])
     \/ Moves(w, "lead", "upsert") /\ IsInboundLead(delivery[j]) /\ UNCHANGED status

Upserts(w, j) ==
  /\ Moves(w, "upsert", "track") /\ UNCHANGED <<status, inbound, faults>>
  /\ upserts' = [upserts EXCEPT ![j] = @ + 1]

Tracks(w) ==
  /\ Quiet /\ UNCHANGED <<status, faults>>
  /\ Moves(w, "track", IF CountersAccepted THEN "mark" ELSE "catch")

Finishes(w, j) ==
  /\ Quiet /\ UNCHANGED faults /\ Moves(w, "mark", "return")
  /\ status'[j] = IF j \in Stored THEN "processed" ELSE status[j]

Rethrows(w, j) ==
  /\ Quiet /\ UNCHANGED faults /\ Moves(w, "catch", "throw")
  /\ status'[j] = IF j \in Stored THEN "failed" ELSE status[j]

IgnoresUnlogged(w, j) ==
  /\ Quiet /\ faults' = faults + 1 /\ Moves(w, "lead", "catch")
  /\ status'[j] = "ignored" /\ ~IsInboundLead(delivery[j])

Unanswered(w, j) ==
  /\ UNCHANGED upserts /\ faults' = faults + 1
  /\ \/ Moves(w, "route", "catch") /\ inbound' = inbound \cup {j} /\ UNCHANGED status
     \/ /\ Moves(w, "mark", "catch") /\ UNCHANGED inbound
        /\ status'[j] = IF j \in Stored THEN "processed" ELSE status[j]

Breaks(w) ==
  /\ Quiet /\ UNCHANGED status /\ faults' = faults + 1
  /\ \/ \E s \in TryBlock : Moves(w, s, "catch")
     \/ \E s \in {"find", "catch"} : Moves(w, s, "throw")

LEMMA ProcessorMoves ==
  ASSUME TypeInv, NEW w \in Workers, Processor(w), NEW j, j = run[w].job
  PROVE  \/ Finds(w, j) \/ Routes(w, j) \/ Starts(w, j) \/ Upserts(w, j) \/ Tracks(w)
         \/ Finishes(w, j) \/ Rethrows(w, j) \/ IgnoresUnlogged(w, j)
         \/ Unanswered(w, j) \/ Breaks(w)
  <1>1. /\ run \in [Workers -> Run] /\ status \in [Requests -> Statuses]
        /\ run[w].step # "idle" => j \in Requests
    BY DEF TypeInv, TypeOK, IngestTypeOK, RunJobs
  <1>2. \A t \in {"find", "route", "lead", "upsert", "track", "mark", "catch", "return", "throw"} :
          t \in RunSteps
    BY DEF RunSteps
  <1> USE DEF Quiet, Moves, Mark, Fault, ingestVars, requestVars, storeVars, effectVars
  <1>3. CASE FindEvent(w)
    <2>1. PICK t \in {"return", "route", "lead"} : RunTo(w, "find", t) /\
            t = CASE j \notin Stored \/ status[j] \in Final -> "return"
                  [] j \in Stored /\ status[j] \notin Final /\ IsInboundMessage(delivery[j])
                       -> "route"
                  [] OTHER -> "lead"
      BY <1>3 DEF FindEvent
    <2>2. run[w].step = "find" /\ run'[w].step = t
      BY <1>1, <1>2, <2>1, RunMoves
    <2>3. Quiet /\ UNCHANGED <<status, faults>>
      BY <1>3 DEF FindEvent
    <2>4. \/ t = "return" /\ (j \notin Stored \/ status[j] \in Final)
          \/ t = "route" /\ IsInboundMessage(delivery[j])
          \/ t = "lead" /\ ~IsInboundMessage(delivery[j]) /\ status[j] \notin Final
      BY <2>1
    <2>5. QED
      BY <2>2, <2>3, <2>4 DEF Finds
  <1>4. CASE RouteInbound(w)
    BY <1>1, <1>2, <1>4, RunMoves DEF RouteInbound, Routes
  <1>5. CASE StartLead(w)
    <2>1. Quiet /\ UNCHANGED faults
      BY <1>5 DEF StartLead
    <2>2. CASE j \notin Stored /\ RunTo(w, "lead", "return") /\ UNCHANGED status
      BY <1>1, <1>2, <2>1, <2>2, RunMoves DEF Starts
    <2>3. CASE j \in Stored /\ ~IsInboundLead(delivery[j]) /\ RunTo(w, "lead", "return")
               /\ Mark(j, "ignored")
      BY <1>1, <1>2, <2>1, <2>3, RunMoves DEF Starts
    <2>4. CASE IsInboundLead(delivery[j]) /\ RunTo(w, "lead", "upsert") /\ UNCHANGED status
      BY <1>1, <1>2, <2>1, <2>4, RunMoves DEF Starts
    <2>5. QED
      BY <1>5, <2>2, <2>3, <2>4 DEF StartLead
  <1>6. CASE UpsertLead(w)
    BY <1>1, <1>2, <1>6, RunMoves DEF UpsertLead, Upserts
  <1>7. CASE TrackLead(w)
    <2> DEFINE t == IF CountersAccepted THEN "mark" ELSE "catch"
    <2>1. RunTo(w, "track", t) /\ t \in RunSteps /\ Quiet /\ UNCHANGED <<status, faults>>
      BY <1>2, <1>7 DEF TrackLead
    <2> HIDE DEF t
    <2>2. run[w].step = "track" /\ run'[w].step = t
      BY <1>1, <2>1, RunMoves
    <2>3. QED
      BY <2>1, <2>2 DEF t, Tracks
  <1>8. CASE MarkProcessed(w)
    BY <1>1, <1>2, <1>8, RunMoves DEF MarkProcessed, Finishes
  <1>9. CASE MarkFailed(w)
    BY <1>1, <1>2, <1>9, RunMoves DEF MarkFailed, Rethrows
  <1>10. CASE IgnoredLogFails(w)
    BY <1>1, <1>2, <1>10, RunMoves DEF IgnoredLogFails, IgnoresUnlogged
  <1>11. CASE FindEventFails(w)
    BY <1>1, <1>2, <1>11, RunMoves DEF FindEventFails, Breaks
  <1>12. CASE TryFails(w)
    BY <1>1, <1>2, <1>12, RunMoves DEF TryFails, TryBlock, Breaks
  <1>13. CASE MarkFailedFails(w)
    BY <1>1, <1>2, <1>13, RunMoves DEF MarkFailedFails, Breaks
  <1>14. CASE ReplyLost(w)
    BY <1>1, <1>2, <1>14, RunMoves DEF ReplyLost, Unanswered
  <1>15. QED
    BY <1>3, <1>4, <1>5, <1>6, <1>7, <1>8, <1>9, <1>10, <1>11, <1>12, <1>13, <1>14
       DEF Processor

(***************************************************************************)
(* Completed jobs were served: the proof.                                  *)
(***************************************************************************)

\* What was done for an event is not undone.
Persists(e) ==
  /\ delivery'[e] = delivery[e]
  /\ e \in inbound => e \in inbound'
  /\ upserts[e] > 0 => upserts'[e] > 0
  /\ Gone(e) => Gone(e)'

LEMMA ServedStays ==
  ASSUME NEW e \in Requests, Persists(e), Served(e)
  PROVE  Served(e)'
  BY DEF Persists, Served, IsInboundMessage, IsInboundLead

LEMMA EverythingPersists ==
  ASSUME TypeInv, IngestionInv, [Next]_vars
  PROVE  \A e \in Requests : Persists(e)
  <1> USE DEF Persists, Gone
  <1>1. /\ status \in [Requests -> Statuses] /\ upserts \in [Requests -> Nat]
        /\ \A w \in Workers : run[w].step # "idle" => run[w].job \in Requests
        /\ IngestTypeOK /\ Shape
    BY DEF TypeInv, TypeOK, IngestTypeOK, RunJobs, IngestionInv
  <1>2. ASSUME WorkerWrites, UNCHANGED <<inbound, upserts>> PROVE \A e \in Requests : Persists(e)
    BY <1>2 DEF WorkerWrites, Stored, requestVars
  <1>3. CASE IngestActs /\ UNCHANGED workerVars
    BY <1>1, <1>3, IngestStepWrites DEF IngestWrites, Stored, workerVars
  <1>4. ASSUME NEW w \in Workers, Processor(w) PROVE \A e \in Requests : Persists(e)
    <2>1. WorkerWrites /\ run[w].step # "idle"
      BY <1>4, ProcessorStep DEF GoesOn
    <2>2. PICK j : j = run[w].job
      OBVIOUS
    <2>3. \/ UNCHANGED <<inbound, upserts>>
          \/ inbound' = inbound \cup {j} /\ UNCHANGED upserts
          \/ upserts' = [upserts EXCEPT ![j] = @ + 1] /\ UNCHANGED inbound
      BY <1>4, <2>2, ProcessorMoves
         DEF Quiet, Finds, Routes, Starts, Upserts, Tracks, Finishes, Rethrows,
             IgnoresUnlogged, Unanswered, Breaks
    <2>4. QED
      BY <1>1, <1>2, <2>1, <2>2, <2>3 DEF WorkerWrites, Stored, requestVars
  <1>5. ASSUME NEW w \in Workers, RunEnds(w) PROVE \A e \in Requests : Persists(e)
    BY <1>2, <1>5, RunEndsStep DEF GoesIdle
  <1>6. ASSUME NEW w \in Workers, NEW j \in Requests, TakeJob(w, j)
        PROVE  \A e \in Requests : Persists(e)
    BY <1>2, <1>6, TakeStep
  <1>7. ASSUME NEW j \in Requests, StalledDead(j) \/ StalledSlow(j)
        PROVE  \A e \in Requests : Persists(e)
    BY <1>2, <1>7, StalledStep
  <1>8. ASSUME NEW d \in Requests, AssistantActs(d) PROVE \A e \in Requests : Persists(e)
    BY <1>1, <1>8, AssistantStep DEF WorkerWrites, Stored, requestVars
  <1>9. CASE UNCHANGED vars
    BY <1>9 DEF vars, ingestVars, workerVars
  <1>10. QED
    BY <1>3, <1>4, <1>5, <1>6, <1>7, <1>8, <1>9, Kinds

\* A run that another step leaves alone stays on its branch.
LEMMA RunStays ==
  ASSUME NEW w \in Workers, RunOK(w), run'[w] = run[w],
         run[w].step = "idle" \/ (run[w].job \in Requests /\ Persists(run[w].job))
  PROVE  RunOK(w)'
  <1>1. CASE run[w].step = "idle"
    BY <1>1 DEF RunOK, LeadSteps
  <1>2. CASE run[w].job \in Requests /\ Persists(run[w].job)
    <2>1. PICK j \in Requests : j = run[w].job
      BY <1>2
    <2>2. Served(j) => Served(j)'
      BY <1>2, <2>1, ServedStays
    <2>3. QED
      BY <1>2, <2>1, <2>2 DEF RunOK, Persists, IsInboundMessage, IsInboundLead
  <1>3. QED
    BY <1>1, <1>2

\* An event that a step leaves alone, but for losing its status.
LEMMA EventStays ==
  ASSUME NEW e \in Requests, EventOK(e), Persists(e), work'[e] = work[e],
         (e \in inbound') = (e \in inbound), status'[e] = status[e] \/ status'[e] \notin Final
  PROVE  EventOK(e)'
  <1>1. Served(e) => Served(e)'
    BY ServedStays
  <1>2. QED
    BY <1>1 DEF EventOK, Persists, IsInboundMessage, Final

\* A step of the processor keeps what is said of its event and its run.
LEMMA ProcessorServes ==
  ASSUME TypeInv, ServedInv, NEW w \in Workers, Processor(w),
         NEW j \in Requests, j = run[w].job, Persists(j), GoesOn(w), WorkerWrites
  PROVE  EventOK(j)' /\ RunOK(w)'
  <1>1. EventOK(j) /\ RunOK(w) /\ j \in jobs /\ status[j] # "none"
    BY DEF ServedInv, TypeInv, RunJobs, GoesOn
  <1>2. Served(j) => Served(j)'
    BY ServedStays
  <1>3. j = run'[w].job /\ UNCHANGED <<delivery, work>>
    BY DEF GoesOn, WorkerWrites, requestVars
  <1>4. upserts \in [Requests -> Nat]
    BY DEF TypeInv, TypeOK
  <1> USE DEF EventOK, RunOK, Served, Gone, Stored, IsInboundMessage, IsInboundLead, LeadSteps,
              Final, TryBlock, Quiet, Moves
  <1>5. CASE Finds(w, j)
    BY <1>1, <1>3, <1>5 DEF Finds
  <1>6. CASE Routes(w, j)
    BY <1>1, <1>3, <1>4, <1>6 DEF Routes
  <1>7. CASE Starts(w, j)
    BY <1>1, <1>3, <1>7 DEF Starts
  <1>8. CASE Upserts(w, j)
    BY <1>1, <1>3, <1>4, <1>8 DEF Upserts
  <1>9. CASE Tracks(w)
    BY <1>1, <1>3, <1>9 DEF Tracks
  <1>10. CASE Finishes(w, j)
    BY <1>1, <1>3, <1>10 DEF Finishes
  <1>11. CASE Rethrows(w, j)
    BY <1>1, <1>3, <1>11 DEF Rethrows
  <1>12. CASE IgnoresUnlogged(w, j)
    BY <1>1, <1>3, <1>12 DEF IgnoresUnlogged
  <1>13. CASE Unanswered(w, j)
    BY <1>1, <1>3, <1>4, <1>13 DEF Unanswered
  <1>14. CASE Breaks(w)
    BY <1>1, <1>3, <1>14 DEF Breaks
  <1>15. QED
    BY <1>5, <1>6, <1>7, <1>8, <1>9, <1>10, <1>11, <1>12, <1>13, <1>14, ProcessorMoves

\* Nothing says that an event was served before it was: inductive.
LEMMA ServedStep ==
  ASSUME TypeInv, IngestionInv, ServedInv, [Next]_vars
  PROVE  ServedInv'
  <1>1. \A e \in Requests : Persists(e) /\ EventOK(e)
    BY EverythingPersists DEF ServedInv
  <1>2. /\ \A w \in Workers : RunOK(w)
        /\ \A w \in Workers : run[w].step = "idle" \/ (run[w].job \in Requests
                                                       /\ Persists(run[w].job))
    BY <1>1 DEF ServedInv, TypeInv, TypeOK, IngestTypeOK, RunJobs
  <1>3. /\ \A j \in jobs : status[j] # "none" /\ j \in Requests
        /\ IngestTypeOK /\ Shape
    BY DEF ServedInv, TypeInv, TypeOK, IngestTypeOK, IngestionInv
  <1>4. ASSUME WorkerWrites PROVE \A j \in jobs' : status'[j] # "none"
    BY <1>3, <1>4 DEF WorkerWrites, Stored
  <1>5. CASE IngestActs /\ UNCHANGED workerVars
    <2>1. IngestWrites /\ UNCHANGED <<work, run, inbound>>
      BY <1>3, <1>5, IngestStepWrites DEF workerVars
    <2>2. \A j \in jobs' : status'[j] # "none"
      <3>1. TypeInv'
        BY PipelineTypeStep
      <3>2. \A j \in jobs' : j \in Requests /\ status[j] # "none"
        BY <1>3, <2>1, <3>1 DEF IngestWrites, TypeInv, TypeOK, IngestTypeOK
      <3>3. QED
        BY <2>1, <3>2 DEF IngestWrites, Stored
    <2>3. \A e \in Requests : EventOK(e)'
      BY <1>1, <2>1, EventStays DEF IngestWrites, Final
    <2>4. \A w \in Workers : RunOK(w)'
      BY <1>2, <2>1, RunStays
    <2>5. QED
      BY <2>2, <2>3, <2>4 DEF ServedInv
  <1>6. ASSUME NEW w \in Workers, Processor(w) PROVE ServedInv'
    <2>1. WorkerWrites /\ GoesOn(w)
      BY <1>6, ProcessorStep
    <2>2. PICK j \in Requests : j = run[w].job
      BY <1>2, <2>1 DEF GoesOn
    <2>3. EventOK(j)' /\ RunOK(w)'
      BY <1>1, <1>6, <2>1, <2>2, ProcessorServes
    <2>4. \A e \in Requests \ {j} : EventOK(e)'
      <3>1. \A e \in Requests \ {j} : (e \in inbound') = (e \in inbound)
        BY <1>6, <2>2, ProcessorMoves
           DEF TypeInv, TypeOK, Quiet, Finds, Routes, Starts, Upserts, Tracks, Finishes,
               Rethrows, IgnoresUnlogged, Unanswered, Breaks
      <3>2. QED
        BY <1>1, <2>1, <2>2, <3>1, EventStays DEF GoesOn
    <2>5. \A v \in Workers \ {w} : RunOK(v)'
      BY <1>2, <2>1, RunStays DEF GoesOn
    <2>6. QED
      BY <1>4, <2>1, <2>3, <2>4, <2>5 DEF ServedInv
  <1>7. ASSUME NEW w \in Workers, RunEnds(w) PROVE ServedInv'
    <2>1. WorkerWrites /\ GoesIdle(w)
      BY <1>7, RunEndsStep
    <2>2. \A v \in Workers : RunOK(v)'
      <3>1. RunOK(w)'
        BY <2>1 DEF GoesIdle, RunOK, LeadSteps
      <3>2. QED
        BY <1>2, <2>1, <3>1, RunStays DEF GoesIdle
    <2>3. PICK j \in Requests : j = run[w].job
      BY <1>2, <2>1 DEF GoesIdle
    <2>4. /\ \A e \in Requests : work'[e].state = "completed" =>
               work[e].state = "completed" \/ (e = j /\ run[w].step = "return")
      <3>1. Queue!WorkOK
        BY DEF TypeInv
      <3>2. CASE CompleteJob(w) /\ Queue!Complete(w, j)
        <4>1. run[w].step = "return"
          BY <3>2 DEF CompleteJob, EndRun
        <4>2. CASE Queue!Owns(w, j)
          BY <3>1, <3>2, <4>1, <4>2, QueueMoves
        <4>3. CASE ~Queue!Owns(w, j)
          BY <3>1, <3>2, <4>3, QueueMoves
        <4>4. QED
          BY <4>2, <4>3
      <3>3. CASE Queue!Fail(w, j)
        <4>1. CASE Queue!Owns(w, j)
          BY <3>1, <3>3, <4>1, QueueMoves
        <4>2. CASE ~Queue!Owns(w, j)
          BY <3>1, <3>3, <4>2, QueueMoves
        <4>3. QED
          BY <4>1, <4>2
      <3>4. QED
        BY <1>7, <2>3, <3>2, <3>3, RunEndsStep
    <2>5. \A e \in Requests : EventOK(e)'
      <3>1. ASSUME NEW e \in Requests PROVE EventOK(e)'
        <4>1. Served(e) => Served(e)'
          BY <1>1, ServedStays
        <4>2. run[w].step = "return" => Served(j)
          BY <1>2, <2>3 DEF RunOK
        <4>3. QED
          BY <1>1, <2>1, <2>4, <4>1, <4>2 DEF EventOK, GoesIdle, Persists, IsInboundMessage
      <3>2. QED
        BY <3>1
    <2>6. QED
      BY <1>4, <2>1, <2>2, <2>5 DEF ServedInv
  <1>8. ASSUME NEW w \in Workers, NEW j \in Requests, TakeJob(w, j) PROVE ServedInv'
    <2>1. /\ WorkerWrites /\ UNCHANGED <<status, inbound>> /\ Queue!Take(w, j)
          /\ run'[w].step \in {"find", "throw"} /\ \A v \in Workers \ {w} : run'[v] = run[v]
      BY <1>8, TakeStep
    <2>2. \A v \in Workers : RunOK(v)'
      <3>1. RunOK(w)'
        BY <2>1 DEF RunOK, LeadSteps
      <3>2. QED
        BY <1>2, <2>1, <3>1, RunStays
    <2>3. \A e \in Requests : work'[e].state = "completed" => work[e].state = "completed"
      BY <2>1, QueueMoves DEF TypeInv
    <2>4. \A e \in Requests : EventOK(e)'
      BY <1>1, <2>1, <2>3, ServedStays DEF EventOK, Persists, IsInboundMessage
    <2>5. QED
      BY <1>4, <2>1, <2>2, <2>4 DEF ServedInv
  <1>9. ASSUME NEW j \in Requests, StalledDead(j) \/ StalledSlow(j) PROVE ServedInv'
    <2>1. WorkerWrites /\ UNCHANGED <<status, run, inbound>> /\ Queue!PutBack(j)
      BY <1>9, StalledStep
    <2>2. \A v \in Workers : RunOK(v)'
      BY <1>2, <2>1, RunStays
    <2>3. \A e \in Requests : work'[e].state = "completed" => work[e].state = "completed"
      BY <2>1 DEF Queue!PutBack, TypeInv, Queue!WorkOK, Queue!Work
    <2>4. \A e \in Requests : EventOK(e)'
      BY <1>1, <2>1, <2>3, ServedStays DEF EventOK, Persists, IsInboundMessage
    <2>5. QED
      BY <1>4, <2>1, <2>2, <2>4 DEF ServedInv
  <1>10. ASSUME NEW d \in Requests, AssistantActs(d) PROVE ServedInv'
    <2>1. /\ WorkerWrites /\ UNCHANGED <<work, run, inbound>> /\ d \in inbound
          /\ status' = status \/ status'[d] \in {"processed", "failed"}
          /\ \A e \in Requests \ {d} : status'[e] = status[e]
      BY <1>10, AssistantStep
    <2>2. \A v \in Workers : RunOK(v)'
      BY <1>2, <2>1, RunStays
    <2>3. EventOK(d)'
      <3>1. IsInboundMessage(delivery[d]) /\ UNCHANGED delivery
        BY <1>1, <2>1 DEF EventOK, WorkerWrites, requestVars
      <3>2. QED
        BY <1>1, <2>1, <3>1 DEF EventOK, Served, IsInboundMessage
    <2>4. \A e \in Requests \ {d} : EventOK(e)'
      BY <1>1, <2>1, EventStays DEF TypeInv, TypeOK
    <2>5. QED
      BY <1>4, <2>1, <2>2, <2>3, <2>4 DEF ServedInv
  <1>11. CASE UNCHANGED vars
    <2>1. UNCHANGED <<status, jobs, work, run, inbound>>
      BY <1>11 DEF vars, ingestVars, workerVars
    <2>2. (\A e \in Requests : EventOK(e)') /\ \A w \in Workers : RunOK(w)'
      BY <1>1, <1>2, <2>1, EventStays, RunStays
    <2>3. QED
      BY <1>3, <2>1, <2>2 DEF ServedInv
  <1>12. QED
    BY <1>5, <1>6, <1>7, <1>8, <1>9, <1>10, <1>11, Kinds

LEMMA ServedInit == Init => ServedInv
  BY DEF Init, IngestInit, ServedInv, EventOK, RunOK, Idle, Queue!WorkInit, Final, LeadSteps

\* A job is reported completed only when its event was served, whatever late writes and
\* overtaken runs do to the status the processor reads.
THEOREM CompletedIsServed == Spec => []CompletedMeansServed
  <1>1. TypeInv /\ ServedInv => CompletedMeansServed
    BY DEF TypeInv, TypeOK, IngestTypeOK, ServedInv, EventOK, CompletedMeansServed
  <1>2. QED
    BY <1>1, PipelineInit, PipelineTypeStep, ServedInit, ServedStep, PTL DEF Spec

(***************************************************************************)
(* Completed jobs are settled: the proof.                                  *)
(***************************************************************************)

\* A job that a step leaves alone, but for its event being queued late or expiring.
LEMMA JobStays ==
  ASSUME NEW j \in Requests, JobOK(j), UNCHANGED delivery, work'[j] = work[j],
         \A w \in Workers : run'[w].job = j => run'[w] = run[w],
         status'[j] = status[j] \/ status'[j] \in {"queued", "expired"}
  PROVE  JobOK(j)'
  BY DEF JobOK, Settled, Final, Queue!Owns, IsInboundMessage

\* A step of the processor keeps its job in order.
LEMMA ProcessorSettles ==
  ASSUME TypeInv, ServedInv, NEW w \in Workers, Processor(w),
         NEW j \in Requests, j = run[w].job, JobOK(j), GoesOn(w), WorkerWrites
  PROVE  JobOK(j)'
  <1>1. \A v \in Workers : run[v].job = j => v = w
    BY DEF JobOK, Queue!Owns
  <1>2. \A v \in Workers : run'[v].job = j => v = w
    BY <1>1 DEF GoesOn
  <1>3. RunOK(w) /\ status[j] \in Statuses \ {"none"}
    BY DEF ServedInv, TypeInv, TypeOK, IngestTypeOK, RunJobs, GoesOn
  <1>4. UNCHANGED <<delivery, work>> /\ Queue!Owns(w, j)
    BY DEF GoesOn, WorkerWrites, requestVars, JobOK
  <1>5. j \notin Stored => status[j] = "expired" /\ status'[j] = "expired"
    BY <1>3 DEF Stored, WorkerWrites
  <1>6. /\ run'[w].step = "return" /\ ~IsInboundMessage(delivery[j]) => Settled(j)'
        /\ run'[w].step \in LeadSteps => status'[j] \notin Final
    <2> USE DEF JobOK, Settled, Moves, LeadSteps, Final
    <2>1. CASE Finds(w, j)
      BY <1>5, <2>1 DEF Finds
    <2>2. CASE Routes(w, j)
      BY <1>3, <2>2 DEF Routes, RunOK
    <2>3. CASE Starts(w, j)
      BY <1>5, <2>3 DEF Starts
    <2>4. CASE Upserts(w, j)
      BY <2>4 DEF Upserts
    <2>5. CASE Tracks(w)
      BY <2>5 DEF Tracks
    <2>6. CASE Finishes(w, j)
      BY <1>5, <2>6 DEF Finishes
    <2>7. CASE Rethrows(w, j) \/ IgnoresUnlogged(w, j) \/ Unanswered(w, j) \/ Breaks(w)
      BY <2>7 DEF Rethrows, IgnoresUnlogged, Unanswered, Breaks
    <2>8. QED
      BY <2>1, <2>2, <2>3, <2>4, <2>5, <2>6, <2>7, ProcessorMoves
  <1>7. Queue!Owns(w, j)' /\ work[j].state # "completed"
    BY <1>4 DEF Queue!Owns
  <1>8. QED
    BY <1>2, <1>4, <1>6, <1>7 DEF JobOK, IsInboundMessage, Settled

\* Jobs whose runs were never overtaken stay in order: inductive.
LEMMA SettledStep ==
  ASSUME TypeInv, IngestionInv, ServedInv, SettledInv, [Next]_vars
  PROVE  SettledInv'
  <1> SUFFICES ASSUME NEW j \in Requests, j \notin overtaken' PROVE JobOK(j)'
    BY DEF SettledInv
  <1>1. /\ Queue!WorkOK /\ IngestTypeOK /\ Shape /\ NoEvent \notin Requests
        /\ \A w \in Workers : run[w].step # "idle" => run[w].job \in jobs
        /\ \A w \in Workers : run[w].step = "idle" => run[w].job = NoEvent
        /\ \A k \in jobs : status[k] # "none"
    BY NoEventAssumption DEF TypeInv, TypeOK, IngestionInv, RunJobs, ServedInv
  <1>2. ASSUME j \notin overtaken PROVE JobOK(j)
    BY <1>2 DEF SettledInv
  <1>3. CASE IngestActs /\ UNCHANGED workerVars
    <2>1. IngestWrites /\ UNCHANGED <<work, run, overtaken>>
      BY <1>1, <1>3, IngestStepWrites DEF workerVars
    <2>2. CASE status[j] # "none"
      BY <1>2, <2>1, <2>2, JobStays DEF IngestWrites
    <2>3. CASE status[j] = "none"
      <3>1. \A w \in Workers : run[w].job # j
        BY <1>1, <2>3
      <3>2. work[j].state = "completed" => IsInboundMessage(delivery[j])
        BY <1>2, <2>1, <2>3 DEF JobOK, Settled, Final
      <3>3. QED
        BY <2>1, <3>1, <3>2 DEF JobOK, IngestWrites, IsInboundMessage
    <2>4. QED
      BY <2>2, <2>3
  <1>4. ASSUME NEW w \in Workers, Processor(w) PROVE JobOK(j)'
    <2>1. WorkerWrites /\ GoesOn(w)
      BY <1>4, ProcessorStep
    <2>2. JobOK(j)
      BY <1>2, <2>1 DEF GoesOn
    <2>3. CASE j = run[w].job
      BY <1>4, <2>1, <2>2, <2>3, ProcessorSettles
    <2>4. CASE j # run[w].job
      BY <2>1, <2>2, <2>4, JobStays DEF GoesOn, WorkerWrites, requestVars
    <2>5. QED
      BY <2>3, <2>4
  <1>5. ASSUME NEW w \in Workers, RunEnds(w) PROVE JobOK(j)'
    <2>1. WorkerWrites /\ GoesIdle(w)
      BY <1>5, RunEndsStep
    <2>2. JobOK(j)
      BY <1>2, <2>1 DEF GoesIdle
    <2>3. PICK k \in Requests : k = run[w].job
      BY <1>1, <2>1 DEF GoesIdle, IngestTypeOK
    <2>4. \A v \in Workers : run'[v].job = j => run'[v] = run[v] /\ v # w
      BY <1>1, <2>1 DEF GoesIdle
    <2>5. CASE UNCHANGED work
      BY <2>1, <2>2, <2>4, <2>5, JobStays DEF GoesIdle, WorkerWrites, requestVars
    <2>6. CASE Queue!Owns(w, k) /\ ((Queue!Complete(w, k) /\ CompleteJob(w)) \/ Queue!Fail(w, k))
      <3>1. \A i \in Requests \ {k} : work'[i] = work[i]
        BY <1>1, <2>6, QueueMoves
      <3>2. CASE j # k
        BY <2>1, <2>2, <2>4, <3>1, <3>2, JobStays DEF GoesIdle, WorkerWrites, requestVars
      <3>3. CASE j = k
        <4>1. \A v \in Workers : run[v].job = j => v = w
          BY <2>2, <2>3, <3>3 DEF JobOK, Queue!Owns
        <4>2. \A v \in Workers : run'[v].job # j
          BY <2>4, <4>1
        <4>3. work'[j].state = "completed" => run[w].step = "return"
          <5>1. CASE Queue!Complete(w, k) /\ CompleteJob(w)
            BY <5>1 DEF CompleteJob, EndRun
          <5>2. CASE Queue!Fail(w, k)
            BY <1>1, <2>6, <3>3, <5>2, QueueMoves
          <5>3. QED
            BY <2>6, <5>1, <5>2
        <4>4. QED
          BY <2>1, <2>2, <2>3, <3>3, <4>2, <4>3
             DEF JobOK, GoesIdle, Settled, WorkerWrites, requestVars, IsInboundMessage
      <3>4. QED
        BY <3>2, <3>3
    <2>7. QED
      BY <1>1, <1>5, <2>3, <2>5, <2>6, RunEndsStep, QueueMoves
  <1>6. ASSUME NEW w \in Workers, NEW k \in Requests, TakeJob(w, k) PROVE JobOK(j)'
    <2>1. /\ WorkerWrites /\ UNCHANGED <<status, overtaken>> /\ Queue!Take(w, k)
          /\ run[w].step = "idle" /\ run'[w].job = k /\ run'[w].step \in {"find", "throw"}
          /\ \A v \in Workers \ {w} : run'[v] = run[v]
      BY <1>6, TakeStep
    <2>2. JobOK(j) /\ UNCHANGED delivery
      BY <1>2, <2>1 DEF WorkerWrites, requestVars
    <2>3. /\ work[k].state = "waiting" /\ work'[k].state = "active" /\ work'[k].owner = w
          /\ \A i \in Requests \ {k} : work'[i] = work[i]
      BY <1>1, <2>1, QueueMoves
    <2>4. CASE j # k
      BY <2>1, <2>2, <2>3, <2>4, JobStays
    <2>5. CASE j = k
      <3>1. \A v \in Workers \ {w} : run'[v].job # j
        BY <2>1, <2>2, <2>3, <2>5 DEF JobOK, Queue!Owns
      <3>2. QED
        BY <2>1, <2>3, <2>5, <3>1 DEF JobOK, Queue!Owns, LeadSteps
    <2>6. QED
      BY <2>4, <2>5
  <1>7. ASSUME NEW k \in Requests, StalledDead(k) \/ StalledSlow(k) PROVE JobOK(j)'
    <2>1. /\ WorkerWrites /\ UNCHANGED <<status, run>> /\ Queue!PutBack(k)
          /\ overtaken' \in {overtaken, overtaken \cup {k}}
      BY <1>7, StalledStep
    <2>2. JobOK(j) /\ UNCHANGED delivery
      BY <1>2, <2>1 DEF WorkerWrites, requestVars
    <2>3. work'[k].state = "waiting" /\ \A i \in Requests \ {k} : work'[i] = work[i]
      BY <1>1, <2>1, QueueMoves DEF Queue!PutBack, Queue!WorkOK, Queue!Work
    <2>4. CASE j # k
      BY <2>1, <2>2, <2>3, <2>4, JobStays
    <2>5. CASE j = k
      <3>1. StalledDead(j)
        BY <1>1, <1>7, <2>5 DEF StalledSlow
      <3>2. \A v \in Workers : run[v].job # j
        BY <2>2, <3>1 DEF StalledDead, Running, JobOK, Queue!Owns
      <3>3. QED
        BY <2>1, <2>3, <2>5, <3>2 DEF JobOK
    <2>6. QED
      BY <2>4, <2>5
  <1>8. ASSUME NEW e \in Requests, AssistantActs(e) PROVE JobOK(j)'
    <2>1. /\ WorkerWrites /\ UNCHANGED <<work, run, overtaken>> /\ e \in inbound
          /\ \A d \in Requests \ {e} : status'[d] = status[d]
      BY <1>8, AssistantStep
    <2>2. JobOK(j) /\ UNCHANGED delivery /\ IsInboundMessage(delivery[e])
      BY <1>2, <2>1 DEF WorkerWrites, requestVars, ServedInv, EventOK
    <2>3. CASE j # e
      BY <2>1, <2>2, <2>3, JobStays
    <2>4. CASE j = e
      BY <2>1, <2>2, <2>4 DEF JobOK, ServedInv, RunOK, Queue!Owns, IsInboundMessage
    <2>5. QED
      BY <2>3, <2>4
  <1>9. CASE UNCHANGED vars
    BY <1>2, <1>9, JobStays DEF vars, ingestVars, workerVars
  <1>10. QED
    BY <1>3, <1>4, <1>5, <1>6, <1>7, <1>8, <1>9, Kinds

LEMMA SettledInit == Init => SettledInv
  <1> SUFFICES ASSUME Init, NEW j \in Requests PROVE JobOK(j)
    BY DEF SettledInv
  <1>1. work[j].state = "waiting" /\ \A w \in Workers : run[w].job = NoEvent
    BY DEF Init, Queue!WorkInit, Idle
  <1>2. QED
    BY <1>1, NoEventAssumption DEF JobOK

\* The event of a completed job is finalized, queued late or expired: no failed attempt
\* and no stopped worker shows in it, unless a slow run was overtaken.
THEOREM CompletedIsSettled == Spec => []CompletedMeansSettled
  <1>1. TypeInv /\ SettledInv => CompletedMeansSettled
    BY DEF TypeInv, TypeOK, IngestTypeOK, SettledInv, JobOK, Settled, CompletedMeansSettled
  <1>2. QED
    BY <1>1, PipelineInit, PipelineTypeStep, ServedInit, ServedStep, SettledInit, SettledStep,
       PTL DEF Spec

\* The contact of an event is upserted by a run that found the event not finalized, and
\* it still is not: no retry repeats the effect of a finalized event.
THEOREM NoLateUpsert == Spec => NoUpsertAfterFinal
  <1> DEFINE A == \A e \in Requests \ overtaken :
                    upserts'[e] > upserts[e] => status[e] \notin Final
  <1>1. TypeInv /\ SettledInv /\ [Next]_vars => A
    <2> SUFFICES ASSUME TypeInv, SettledInv, [Next]_vars, NEW e \in Requests \ overtaken,
                        upserts'[e] > upserts[e]
                 PROVE  status[e] \notin Final
      OBVIOUS
    <2>1. upserts \in [Requests -> Nat] /\ upserts' # upserts
      BY DEF TypeInv, TypeOK
    <2>2. PICK w \in Workers : Processor(w)
      BY <2>1, Kinds, RunEndsStep, TakeStep, StalledStep, AssistantStep
         DEF GoesIdle, vars, workerVars
    <2>3. PICK j : j = run[w].job
      OBVIOUS
    <2>4. Upserts(w, j)
      BY <2>1, <2>2, <2>3, ProcessorMoves
         DEF Quiet, Finds, Routes, Starts, Tracks, Finishes, Rethrows, IgnoresUnlogged,
             Unanswered, Breaks
    <2>5. e = j /\ run[w].step = "upsert"
      BY <2>1, <2>4 DEF Upserts, Moves
    <2>6. QED
      BY <2>3, <2>5 DEF SettledInv, JobOK, LeadSteps
  <1>2. QED
    BY <1>1, PipelineInit, PipelineTypeStep, ServedInit, ServedStep, SettledInit, SettledStep,
       PTL DEF Spec, NoUpsertAfterFinal

(***************************************************************************)
(* Who overwrites a final status while nothing fails.                      *)
(***************************************************************************)

\* Without failures no run is overtaken and none fails on a finalized event: inductive.
LEMMA QuietStep ==
  ASSUME TypeInv, IngestionInv, ServedInv, SettledInv, QuietInv, [Next]_vars
  PROVE  QuietInv'
  <1> DEFINE Calm(w) == run[w].step = "catch" =>
                          /\ status[run[w].job] \notin Final
                          /\ ~IsInboundMessage(delivery[run[w].job])
  <1> SUFFICES ASSUME faults' = 0 PROVE overtaken' = {} /\ \A v \in Workers : Calm(v)'
    BY DEF QuietInv
  <1>1. /\ faults \in Nat /\ IngestTypeOK /\ Shape
        /\ \A v \in Workers : run[v].step # "idle" => run[v].job \in Requests
    BY MaxFaultsAssumption DEF TypeInv, TypeOK, IngestTypeOK, IngestionInv, RunJobs
  <1>2. ASSUME faults <= faults' PROVE overtaken = {} /\ \A v \in Workers : Calm(v)
    BY <1>1, <1>2 DEF QuietInv
  <1>3. ASSUME NEW v \in Workers, Calm(v), run'[v] = run[v], UNCHANGED delivery,
               run[v].step = "catch" =>
                 \/ status'[run[v].job] = status[run[v].job]
                 \/ status'[run[v].job] \notin Final
        PROVE  Calm(v)'
    BY <1>3 DEF IsInboundMessage
  <1>4. CASE IngestActs /\ UNCHANGED workerVars
    <2>1. IngestWrites /\ UNCHANGED <<run, overtaken>>
      BY <1>1, <1>4, IngestStepWrites DEF workerVars
    <2>2. overtaken = {} /\ \A v \in Workers : Calm(v)
      BY <1>2, <2>1 DEF IngestWrites
    <2>3. \A e \in Requests : status'[e] = status[e] \/ status'[e] \notin Final
      BY <2>1 DEF IngestWrites, Final
    <2> HIDE DEF Calm
    <2>4. QED
      BY <1>1, <1>3, <2>1, <2>2, <2>3 DEF IngestWrites
  <1>5. ASSUME NEW w \in Workers, Processor(w)
        PROVE  overtaken' = {} /\ \A v \in Workers : Calm(v)'
    <2>1. WorkerWrites /\ GoesOn(w)
      BY <1>5, ProcessorStep
    <2>2. overtaken = {} /\ overtaken' = {} /\ \A v \in Workers : Calm(v)
      BY <1>2, <2>1 DEF WorkerWrites, GoesOn
    <2>3. PICK j \in Requests : j = run[w].job
      BY <1>1, <2>1 DEF GoesOn
    <2>4. JobOK(j) /\ RunOK(w)
      BY <2>2 DEF SettledInv, ServedInv
    <2>5. Calm(w)'
      <3>1. run'[w].step = "catch" => Tracks(w)
        BY <1>1, <1>5, <2>3, ProcessorMoves
           DEF Moves, Finds, Routes, Starts, Upserts, Finishes, Rethrows, IgnoresUnlogged,
               Unanswered, Breaks
      <3>2. QED
        BY <2>1, <2>3, <2>4, <3>1
           DEF Tracks, Moves, JobOK, RunOK, LeadSteps, GoesOn, WorkerWrites, requestVars,
               IsInboundMessage
    <2>6. \A v \in Workers \ {w} : run[v].job # j
      BY <2>3, <2>4 DEF JobOK, Queue!Owns
    <2>7. UNCHANGED delivery
      BY <2>1 DEF WorkerWrites, requestVars
    <2> HIDE DEF Calm
    <2>8. \A v \in Workers \ {w} : Calm(v)'
      BY <1>1, <1>3, <2>1, <2>2, <2>3, <2>6, <2>7 DEF GoesOn
    <2>9. QED
      BY <2>2, <2>5, <2>8
  <1>6. ASSUME NEW w \in Workers, UNCHANGED <<status, overtaken>>, WorkerWrites,
               run'[w].step # "catch", \A v \in Workers \ {w} : run'[v] = run[v]
        PROVE  overtaken' = {} /\ \A v \in Workers : Calm(v)'
    <2>1. overtaken' = {} /\ UNCHANGED delivery /\ \A v \in Workers : Calm(v)
      BY <1>2, <1>6 DEF WorkerWrites, requestVars
    <2>2. Calm(w)'
      BY <1>6
    <2> HIDE DEF Calm
    <2>3. QED
      BY <1>3, <1>6, <2>1, <2>2
  <1>7. ASSUME NEW j \in Requests, StalledDead(j) \/ StalledSlow(j)
        PROVE  overtaken' = {} /\ \A v \in Workers : Calm(v)'
    <2>1. ~StalledSlow(j)
      BY <1>1 DEF StalledSlow, Fault
    <2>2. WorkerWrites /\ UNCHANGED <<status, run, overtaken>>
      BY <1>7, <2>1, StalledStep DEF StalledDead, effectVars
    <2>3. overtaken' = {} /\ UNCHANGED delivery /\ \A v \in Workers : Calm(v)
      BY <1>2, <2>2 DEF WorkerWrites, requestVars
    <2> HIDE DEF Calm
    <2>4. QED
      BY <1>3, <2>2, <2>3
  <1>8. ASSUME NEW e \in Requests, AssistantActs(e)
        PROVE  overtaken' = {} /\ \A v \in Workers : Calm(v)'
    <2>1. /\ WorkerWrites /\ UNCHANGED <<run, overtaken>> /\ e \in inbound
          /\ \A d \in Requests \ {e} : status'[d] = status[d]
      BY <1>8, AssistantStep
    <2>2. /\ overtaken' = {} /\ UNCHANGED delivery /\ \A v \in Workers : Calm(v)
          /\ IsInboundMessage(delivery[e])
      BY <1>2, <2>1 DEF WorkerWrites, requestVars, ServedInv, EventOK
    <2>3. \A v \in Workers : run[v].step = "catch" => run[v].job # e
      BY <2>2
    <2> HIDE DEF Calm
    <2>4. QED
      BY <1>1, <1>3, <2>1, <2>2, <2>3
  <1>9. CASE UNCHANGED vars
    <2>1. UNCHANGED <<delivery, status, faults, run, overtaken>>
      BY <1>9 DEF vars, ingestVars, workerVars
    <2>2. overtaken' = {} /\ \A v \in Workers : Calm(v)
      BY <2>1 DEF QuietInv
    <2> HIDE DEF Calm
    <2>3. QED
      BY <1>3, <2>1, <2>2
  <1>10. ASSUME NEW w \in Workers, RunEnds(w)
         PROVE  overtaken' = {} /\ \A v \in Workers : Calm(v)'
    BY <1>6, <1>10, RunEndsStep DEF GoesIdle
  <1>11. ASSUME NEW w \in Workers, NEW j \in Requests, TakeJob(w, j)
         PROVE  overtaken' = {} /\ \A v \in Workers : Calm(v)'
    BY <1>6, <1>11, TakeStep
  <1>12. QED
    BY <1>4, <1>5, <1>7, <1>8, <1>9, <1>10, <1>11, Kinds

LEMMA QuietInit == Init => QuietInv
  BY DEF Init, QuietInv, Idle

\* While nothing fails, the request that stored an event is the only one that overwrites
\* its final status, with the markQueued a worker was faster than.
THEOREM FinalOnlyLostToMarkQueuedHolds == Spec => FinalOnlyLostToMarkQueued
  <1> DEFINE A == \A e \in Requests : faults' = 0 /\ LosesFinal(e) =>
                    pc[e] = "markQueued" /\ status'[e] = "queued"
  <1>1. TypeInv /\ IngestionInv /\ ServedInv /\ QuietInv /\ [Next]_vars => A
    <2> SUFFICES ASSUME TypeInv, IngestionInv, ServedInv, QuietInv, [Next]_vars,
                        NEW e \in Requests, faults' = 0, LosesFinal(e)
                 PROVE  pc[e] = "markQueued" /\ status'[e] = "queued"
      OBVIOUS
    <2>1. /\ faults \in Nat /\ IngestTypeOK /\ Shape
          /\ status[e] \in Final /\ status'[e] # status[e]
          /\ status'[e] \notin Final \cup {"expired"}
      BY MaxFaultsAssumption DEF TypeInv, TypeOK, IngestTypeOK, IngestionInv, LosesFinal
    <2>2. CASE IngestActs /\ UNCHANGED workerVars
      BY <2>1, <2>2, IngestStepWrites DEF IngestWrites, Final
    <2>3. ASSUME NEW w \in Workers, Processor(w) PROVE FALSE
      <3>1. e = run[w].job /\ faults = 0
        BY <2>1, <2>3, ProcessorStep DEF GoesOn, WorkerWrites
      <3>2. run[w].step # "catch"
        BY <2>1, <3>1 DEF QuietInv
      <3>3. QED
        BY <2>1, <2>3, <3>1, <3>2, ProcessorMoves
           DEF Moves, Finds, Routes, Starts, Upserts, Tracks, Finishes, Rethrows,
               IgnoresUnlogged, Unanswered, Breaks, Final
    <2>4. ASSUME NEW d \in Requests, AssistantActs(d) PROVE FALSE
      <3>1. e = d /\ d \in inbound /\ status[d] # "processed"
        BY <2>1, <2>4, AssistantStep
      <3>2. QED
        BY <2>1, <3>1 DEF ServedInv, EventOK, Final
    <2>5. QED
      BY <2>1, <2>2, <2>3, <2>4, Kinds, RunEndsStep, TakeStep, StalledStep
         DEF GoesIdle, vars, ingestVars
  <1>2. QED
    BY <1>1, PipelineInit, PipelineTypeStep, ServedInit, ServedStep, SettledInit, SettledStep,
       QuietInit, QuietStep, PTL DEF Spec, FinalOnlyLostToMarkQueued

(***************************************************************************)
(* How often the contact of an event is upserted: the proof.               *)
(***************************************************************************)

\* A job is taken by a run that may upsert.
Taken(j) == \E w \in Workers : TakeJob(w, j) /\ ~Queue!GivenUp(j)

\* What a change of one run does to the pending runs of a job.
LEMMA PendingMoves ==
  ASSUME NEW w \in Workers, NEW j \in Requests, \A v \in Workers \ {w} : run'[v] = run[v]
  PROVE  Pending(j)' = IF run'[w].job = j /\ run'[w].step \in {"find", "lead", "upsert"}
                         THEN Pending(j) \cup {w} ELSE Pending(j) \ {w}
  BY DEF Pending

\* The load of an event grows with the runs of its job only: a run upserts once.
LEMMA LoadStep ==
  ASSUME TypeInv, [Next]_vars, NEW j \in Requests, IsFiniteSet(Pending(j))
  PROVE  /\ IsFiniteSet(Pending(j)') /\ Load(j) \in Nat /\ Load(j)' \in Nat
         /\ Load(j)' <= Load(j) \/ (Taken(j) /\ Load(j)' = Load(j) + 1)
  <1>1. /\ upserts \in [Requests -> Nat] /\ Cardinality(Pending(j)) \in Nat
        /\ \A w \in Workers : run[w].step # "idle" => run[w].job \in Requests
        /\ \A w \in Workers : run[w].step = "idle" => run[w].job \notin Requests
    BY FS_CardinalityType, NoEventAssumption DEF TypeInv, TypeOK, IngestTypeOK, RunJobs
  <1>2. Load(j) \in Nat /\ Load(j) = upserts[j] + Cardinality(Pending(j))
    BY <1>1 DEF Load
  <1>3. ASSUME NEW n \in Nat, n = Cardinality(Pending(j)'), NEW m \in Nat, m = upserts'[j]
        PROVE  Load(j)' = m + n
    BY <1>3 DEF Load
  <1>4. ASSUME NEW w, Pending(j)' = Pending(j) \ {w}, UNCHANGED upserts
        PROVE  IsFiniteSet(Pending(j)') /\ Load(j)' \in Nat /\ Load(j)' <= Load(j)
    <2>1. PICK n \in Nat : n = Cardinality(Pending(j)')
      BY <1>4, FS_RemoveElement, FS_CardinalityType
    <2>2. n <= Cardinality(Pending(j))
      BY <1>4, <2>1, FS_Subset
    <2>3. Load(j)' = upserts[j] + n
      BY <1>1, <1>3, <1>4, <2>1
    <2>4. QED
      BY <1>1, <1>2, <1>4, <2>1, <2>2, <2>3, FS_RemoveElement
  <1>5. ASSUME NEW w \in Pending(j), Pending(j)' = Pending(j) \ {w},
               upserts'[j] = upserts[j] + 1
        PROVE  IsFiniteSet(Pending(j)') /\ Load(j)' \in Nat /\ Load(j)' <= Load(j)
    <2>1. PICK n \in Nat : n = Cardinality(Pending(j)')
      BY <1>5, FS_RemoveElement, FS_CardinalityType
    <2>2. n = Cardinality(Pending(j)) - 1
      BY <1>1, <1>5, <2>1, FS_RemoveElement
    <2>3. Load(j)' = (upserts[j] + 1) + n
      BY <1>1, <1>3, <1>5, <2>1
    <2>4. QED
      BY <1>1, <1>2, <1>5, <2>1, <2>2, <2>3, FS_RemoveElement
  <1>6. ASSUME NEW w, w \notin Pending(j), Pending(j)' = Pending(j) \cup {w}, UNCHANGED upserts
        PROVE  IsFiniteSet(Pending(j)') /\ Load(j)' \in Nat /\ Load(j)' = Load(j) + 1
    <2>1. PICK n \in Nat : n = Cardinality(Pending(j)')
      BY <1>6, FS_AddElement, FS_CardinalityType
    <2>2. n = Cardinality(Pending(j)) + 1
      BY <1>1, <1>6, <2>1, FS_AddElement
    <2>3. Load(j)' = upserts[j] + n
      BY <1>1, <1>3, <1>6, <2>1
    <2>4. QED
      BY <1>1, <1>2, <1>6, <2>1, <2>2, <2>3, FS_AddElement
  <1>7. ASSUME UNCHANGED <<run, upserts>>
        PROVE  IsFiniteSet(Pending(j)') /\ Load(j)' \in Nat /\ Load(j)' <= Load(j)
    <2>1. Pending(j)' = Pending(j)
      BY <1>7 DEF Pending
    <2>2. Load(j)' = Load(j)
      BY <1>7, <2>1 DEF Load
    <2>3. QED
      BY <1>2, <2>1, <2>2
  <1>8. ASSUME NEW w \in Workers, Processor(w)
        PROVE  IsFiniteSet(Pending(j)') /\ Load(j)' \in Nat /\ Load(j)' <= Load(j)
    <2>1. GoesOn(w)
      BY <1>8, ProcessorStep
    <2>2. PICK k \in Requests : k = run[w].job
      BY <1>1, <2>1 DEF GoesOn
    <2>3. Pending(j)' = IF k = j /\ run'[w].step \in {"find", "lead", "upsert"}
                          THEN Pending(j) \cup {w} ELSE Pending(j) \ {w}
      BY <2>1, <2>2, PendingMoves DEF GoesOn
    <2>4. CASE Upserts(w, k)
      <3>1. Pending(j)' = Pending(j) \ {w} /\ (w \in Pending(j) <=> j = k)
        BY <2>2, <2>3, <2>4 DEF Upserts, Moves, Pending
      <3>2. CASE j = k
        BY <1>1, <1>5, <2>4, <3>1, <3>2 DEF Upserts
      <3>3. CASE j # k
        <4>1. upserts'[j] = upserts[j] /\ Pending(j)' = Pending(j)
          BY <1>1, <2>4, <3>1, <3>3 DEF Upserts
        <4>2. Load(j)' = Load(j)
          BY <4>1 DEF Load
        <4>3. QED
          BY <1>2, <4>1, <4>2
      <3>4. QED
        BY <3>2, <3>3
    <2>5. CASE ~Upserts(w, k)
      <3>1. UNCHANGED upserts
        BY <1>8, <2>2, <2>5, ProcessorMoves
           DEF Quiet, Finds, Routes, Starts, Tracks, Finishes, Rethrows, IgnoresUnlogged,
             Unanswered, Breaks
      <3>2. run'[w].step \in {"find", "lead", "upsert"} => run[w].step \in {"find", "lead"}
        BY <1>8, <2>2, <2>5, ProcessorMoves
           DEF Moves, Finds, Routes, Starts, Tracks, Finishes, Rethrows, IgnoresUnlogged,
               Unanswered, Breaks
      <3>3. CASE k = j /\ run'[w].step \in {"find", "lead", "upsert"}
        <4>1. Pending(j)' = Pending(j)
          BY <2>2, <2>3, <3>2, <3>3 DEF Pending
        <4>2. Load(j)' = Load(j)
          BY <3>1, <4>1 DEF Load
        <4>3. QED
          BY <1>2, <4>1, <4>2
      <3>4. CASE ~(k = j /\ run'[w].step \in {"find", "lead", "upsert"})
        BY <1>4, <2>3, <3>1, <3>4
      <3>5. QED
        BY <3>3, <3>4
    <2>6. QED
      BY <2>4, <2>5
  <1>9. ASSUME NEW w \in Workers, RunEnds(w)
        PROVE  IsFiniteSet(Pending(j)') /\ Load(j)' \in Nat /\ Load(j)' <= Load(j)
    <2>1. GoesIdle(w)
      BY <1>9, RunEndsStep
    <2>2. Pending(j)' = Pending(j) \ {w}
      BY <2>1, PendingMoves DEF GoesIdle
    <2>3. QED
      BY <1>4, <2>1, <2>2 DEF GoesIdle
  <1>10. ASSUME NEW w \in Workers, NEW k \in Requests, TakeJob(w, k)
         PROVE  /\ IsFiniteSet(Pending(j)') /\ Load(j)' \in Nat
                /\ Load(j)' <= Load(j) \/ (Taken(j) /\ Load(j)' = Load(j) + 1)
    <2>1. /\ run[w].step = "idle" /\ run'[w].job = k /\ UNCHANGED upserts
          /\ run'[w].step = IF Queue!GivenUp(k) THEN "throw" ELSE "find"
          /\ \A v \in Workers \ {w} : run'[v] = run[v]
      BY <1>10, TakeStep
    <2>2. w \notin Pending(j)
      BY <2>1 DEF Pending
    <2>3. Pending(j)' = IF j = k /\ ~Queue!GivenUp(k) THEN Pending(j) \cup {w}
                                                      ELSE Pending(j) \ {w}
      BY <2>1, PendingMoves
    <2>4. CASE j = k /\ ~Queue!GivenUp(k)
      BY <1>6, <1>10, <2>1, <2>2, <2>3, <2>4 DEF Taken
    <2>5. CASE ~(j = k /\ ~Queue!GivenUp(k))
      BY <1>4, <2>1, <2>3, <2>5
    <2>6. QED
      BY <2>4, <2>5
  <1>11. ASSUME \/ IngestActs /\ UNCHANGED workerVars
                \/ \E k \in Requests : StalledDead(k) \/ StalledSlow(k)
                \/ \E e \in Requests : AssistantActs(e)
                \/ UNCHANGED vars
         PROVE  UNCHANGED <<run, upserts>>
    BY <1>11, StalledStep, AssistantStep DEF vars, workerVars
  <1>12. QED
    BY <1>2, <1>7, <1>8, <1>9, <1>10, <1>11, Kinds

\* The steps that may change what the queue records of a job.
LEMMA QueueOf ==
  ASSUME TypeInv, [Next]_vars, NEW j \in Requests
  PROVE  \/ work'[j] = work[j]
         \/ \E w \in Workers : TakeJob(w, j) /\ Queue!Take(w, j)
         \/ \E w \in Workers : /\ run[w].job = j /\ Queue!Owns(w, j)
                               /\ \/ CompleteJob(w) /\ Queue!Complete(w, j)
                                  \/ FailJob(w) /\ Queue!Fail(w, j)
         \/ (StalledDead(j) \/ StalledSlow(j)) /\ Queue!PutBack(j)
  <1>1. /\ Queue!WorkOK
        /\ \A w \in Workers : run[w].step # "idle" => run[w].job \in Requests
    BY DEF TypeInv, TypeOK, IngestTypeOK, RunJobs
  <1>2. ASSUME NEW w \in Workers, RunEnds(w), work'[j] # work[j]
        PROVE  /\ run[w].job = j /\ Queue!Owns(w, j)
               /\ \/ CompleteJob(w) /\ Queue!Complete(w, j)
                  \/ FailJob(w) /\ Queue!Fail(w, j)
    <2>1. PICK k \in Requests : k = run[w].job
      BY <1>1, <1>2, RunEndsStep DEF GoesIdle
    <2>2. /\ Queue!Owns(w, k)
          /\ (CompleteJob(w) /\ Queue!Complete(w, k)) \/ (FailJob(w) /\ Queue!Fail(w, k))
      BY <1>1, <1>2, <2>1, RunEndsStep, QueueMoves
    <2>3. \A i \in Requests \ {k} : work'[i] = work[i]
      BY <1>1, <2>2, QueueMoves
    <2>4. QED
      BY <1>2, <2>1, <2>2, <2>3
  <1>3. ASSUME NEW w \in Workers, NEW k \in Requests, TakeJob(w, k), work'[j] # work[j]
        PROVE  TakeJob(w, j) /\ Queue!Take(w, j)
    BY <1>1, <1>3, TakeStep, QueueMoves
  <1>4. ASSUME NEW k \in Requests, StalledDead(k) \/ StalledSlow(k), work'[j] # work[j]
        PROVE  (StalledDead(j) \/ StalledSlow(j)) /\ Queue!PutBack(j)
    <2>1. Queue!PutBack(k)
      BY <1>4, StalledStep
    <2>2. \A i \in Requests \ {k} : work'[i] = work[i]
      BY <1>1, <2>1 DEF Queue!PutBack, Queue!WorkOK
    <2>3. QED
      BY <1>4, <2>1, <2>2
  <1>5. ASSUME \/ IngestActs /\ UNCHANGED workerVars
               \/ \E w \in Workers : Processor(w)
               \/ \E e \in Requests : AssistantActs(e)
               \/ UNCHANGED vars
        PROVE  UNCHANGED work
    BY <1>5, ProcessorStep, AssistantStep DEF vars, workerVars, GoesOn
  <1>6. QED
    BY <1>2, <1>3, <1>4, <1>5, Kinds

\* Each attempt taken and each stall is counted.
LEMMA UsedStep ==
  ASSUME TypeInv, [Next]_vars, NEW j \in Requests, GivenUpOK(j)
  PROVE  /\ Used(j) \in Int /\ Used(j)' \in Int
         /\ Used(j) <= Used(j)'
         /\ Taken(j) => Used(j)' = Used(j) + 1
  <1>1. /\ Queue!WorkOK /\ work \in [Requests -> Queue!Work]
        /\ work[j].made \in Nat /\ work[j].stalled \in Nat /\ MaxStalled \in Nat
    BY BoundsAssumption DEF TypeInv, Queue!WorkOK, Queue!Work
  <1>2. Used(j) \in Int
    BY <1>1 DEF Used
  <1>3. CASE work'[j] = work[j]
    <2>1. Used(j)' = Used(j)
      BY <1>3 DEF Used, Queue!GivenUp, Queue!Ended
    <2>2. ~Taken(j)
      BY <1>1, <1>3, TakeStep, QueueMoves DEF Taken
    <2>3. QED
      BY <1>2, <2>1, <2>2
  <1>4. ASSUME NEW w \in Workers, TakeJob(w, j), Queue!Take(w, j)
        PROVE  Used(j)' = Used(j) + (IF Queue!GivenUp(j) THEN 0 ELSE 1)
    <2>1. /\ work[j].state = "waiting" /\ work'[j].state = "active"
          /\ work'[j].made = work[j].made /\ work'[j].stalled = work[j].stalled
      BY <1>1, <1>4, QueueMoves
    <2>2. QED
      BY <1>1, <2>1 DEF Used, Queue!GivenUp, Queue!Ended
  <1>5. ASSUME Taken(j) PROVE work'[j] # work[j] /\ ~Queue!GivenUp(j) /\ work[j].state = "waiting"
    BY <1>1, <1>5, TakeStep, QueueMoves DEF Taken
  <1>6. ASSUME NEW w \in Workers, run[w].job = j, Queue!Owns(w, j),
               CompleteJob(w), Queue!Complete(w, j)
        PROVE  Used(j)' = Used(j) /\ ~Taken(j)
    <2>1. ~Queue!GivenUp(j)
      BY <1>6 DEF GivenUpOK, CompleteJob, EndRun
    <2>2. /\ work[j].state = "active" /\ work'[j].state = "completed"
          /\ work'[j].made = work[j].made + 1 /\ work'[j].stalled = work[j].stalled
      BY <1>1, <1>6, QueueMoves DEF Queue!Owns
    <2>3. QED
      BY <1>1, <1>5, <2>1, <2>2 DEF Used, Queue!GivenUp, Queue!Ended
  <1>7. ASSUME NEW w \in Workers, run[w].job = j, Queue!Owns(w, j), Queue!Fail(w, j)
        PROVE  Used(j)' = Used(j) /\ ~Taken(j)
    <2>1. /\ work[j].state = "active" /\ work'[j].state \in {"failed", "waiting"}
          /\ Queue!GivenUp(j) => work'[j].state = "failed"
          /\ work'[j].made = work[j].made + 1 /\ work'[j].stalled = work[j].stalled
      BY <1>1, <1>7, QueueMoves DEF Queue!Owns
    <2>2. QED
      BY <1>1, <1>5, <2>1 DEF Used, Queue!GivenUp, Queue!Ended
  <1>8. ASSUME Queue!PutBack(j)
        PROVE  Used(j)' = Used(j) /\ ~Taken(j)
    <2>1. /\ work[j].state = "active" /\ work'[j].state = "waiting"
          /\ work'[j].made = work[j].made
          /\ work'[j].stalled = IF Queue!GivenUp(j) THEN work[j].stalled ELSE work[j].stalled + 1
      BY <1>1, <1>8 DEF Queue!PutBack, Queue!Work
    <2>2. QED
      BY <1>1, <1>5, <2>1 DEF Used, Queue!GivenUp, Queue!Ended
  <1>9. QED
    BY <1>2, <1>3, <1>4, <1>5, <1>6, <1>7, <1>8, QueueOf

\* A job that was given up is only failed: inductive.
LEMMA GivenUpStep ==
  ASSUME TypeInv, [Next]_vars, NEW j \in Requests, GivenUpOK(j)
  PROVE  GivenUpOK(j)'
  <1> SUFFICES ASSUME NEW w \in Workers, Queue!Owns(w, j)', run'[w].job = j, Queue!GivenUp(j)'
               PROVE  run'[w].step = "throw"
    BY DEF GivenUpOK
  <1>1. Queue!WorkOK /\ work \in [Requests -> Queue!Work] /\ NoEvent \notin Requests
    BY NoEventAssumption DEF TypeInv, Queue!WorkOK
  <1>2. ASSUME NEW v \in Workers, TakeJob(v, j), Queue!Take(v, j) PROVE run'[w].step = "throw"
    BY <1>1, <1>2, TakeStep, QueueMoves DEF Queue!Owns, Queue!GivenUp
  <1>3. CASE work'[j] = work[j]
    <2>1. Queue!Owns(w, j) /\ Queue!GivenUp(j)
      BY <1>3 DEF Queue!Owns, Queue!GivenUp
    <2>2. CASE run'[w] = run[w]
      BY <2>1, <2>2 DEF GivenUpOK
    <2>3. CASE Processor(w)
      <3>1. run[w].job = j
        BY <2>3, ProcessorStep DEF GoesOn
      <3>2. run[w].step = "throw"
        BY <2>1, <3>1 DEF GivenUpOK
      <3>3. QED
        BY <2>3, <3>1, <3>2, ProcessorMoves
           DEF Moves, Finds, Routes, Starts, Upserts, Tracks, Finishes, Rethrows,
               IgnoresUnlogged, Unanswered, Breaks, TryBlock
    <2>4. ASSUME NEW k \in Requests, TakeJob(w, k) PROVE FALSE
      BY <1>1, <1>3, <2>4, TakeStep, QueueMoves
    <2>5. ~RunEnds(w)
      BY <1>1, RunEndsStep DEF GoesIdle
    <2>6. run'[w] = run[w] \/ Processor(w) \/ \E k \in Requests : TakeJob(w, k)
      BY <2>5, Kinds, ProcessorStep, RunEndsStep, TakeStep, StalledStep, AssistantStep
         DEF GoesOn, GoesIdle, vars, workerVars
    <2>7. QED
      BY <2>2, <2>3, <2>4, <2>6
  <1>4. ASSUME NEW v \in Workers, Queue!Owns(v, j), Queue!Complete(v, j) \/ Queue!Fail(v, j)
        PROVE  FALSE
    BY <1>1, <1>4, QueueMoves DEF Queue!Owns
  <1>5. ASSUME Queue!PutBack(j) PROVE FALSE
    BY <1>1, <1>5 DEF Queue!PutBack, Queue!Owns, Queue!Work
  <1>6. QED
    BY <1>2, <1>3, <1>4, <1>5, QueueOf

\* A job leaves the hands of a healthy run by a failure only, and is held when taken.
LEMMA HeldStep ==
  ASSUME TypeInv, [Next]_vars, CountersAccepted, NEW j \in Requests, GivenUpOK(j)
  PROVE  /\ Held(j) /\ faults' = faults => Held(j)'
         /\ Taken(j) => ~Held(j) /\ Held(j)'
  <1>1. Queue!WorkOK /\ work \in [Requests -> Queue!Work] /\ NoEvent \notin Requests
        /\ faults \in Nat
    BY NoEventAssumption, MaxFaultsAssumption DEF TypeInv, TypeOK, IngestTypeOK, Queue!WorkOK
  <1>2. ASSUME Taken(j) PROVE ~Held(j) /\ Held(j)'
    <2>1. PICK w \in Workers : TakeJob(w, j) /\ ~Queue!GivenUp(j)
      BY <1>2 DEF Taken
    <2>2. /\ run'[w].job = j /\ run'[w].step = "find" /\ Queue!Take(w, j)
      BY <2>1, TakeStep
    <2>3. work[j].state = "waiting" /\ work'[j].state = "active" /\ work'[j].owner = w
      BY <1>1, <2>2, QueueMoves
    <2>4. QED
      BY <2>2, <2>3 DEF Held, Healthy, Queue!Owns, Queue!Ended
  <1>3. ASSUME Queue!Ended(j) PROVE Held(j)'
    <2>1. work'[j] = work[j]
      BY <1>1, <1>3, QueueOf, QueueMoves DEF Queue!Ended, Queue!Owns, Queue!PutBack
    <2>2. QED
      BY <1>3, <2>1 DEF Held, Queue!Ended
  <1>4. ASSUME NEW w \in Workers, Queue!Owns(w, j), run[w].job = j, run[w].step \in Healthy,
               faults' = faults
        PROVE  Held(j)'
    <2>1. CASE work'[j] = work[j]
      <3>1. Queue!Owns(w, j)'
        BY <1>4, <2>1 DEF Queue!Owns
      <3>2. CASE run'[w] = run[w]
        BY <1>4, <3>1, <3>2 DEF Held
      <3>3. CASE Processor(w)
        <4>1. run'[w].job = j
          BY <1>4, <3>3, ProcessorStep DEF GoesOn
        <4>2. run'[w].step \in Healthy
          BY <1>1, <1>4, <3>3, ProcessorMoves
             DEF Moves, Finds, Routes, Starts, Upserts, Tracks, Finishes, Rethrows,
                 IgnoresUnlogged, Unanswered, Breaks, Healthy
        <4>3. QED
          BY <3>1, <4>1, <4>2 DEF Held
      <3>4. CASE RunEnds(w)
        <4>1. ~WorkerStops(w) /\ ~FailJob(w)
          BY <1>1, <1>4 DEF WorkerStops, Fault, FailJob, EndRun, Healthy
        <4>2. Queue!Complete(w, j)
          BY <1>4, <3>4, <4>1, RunEndsStep
        <4>3. QED
          BY <1>1, <1>4, <2>1, <4>2, QueueMoves DEF Queue!Owns
      <3>5. ASSUME NEW k \in Requests, TakeJob(w, k) PROVE FALSE
        BY <1>4, <3>5, TakeStep DEF Healthy
      <3>6. \/ run'[w] = run[w] \/ Processor(w) \/ RunEnds(w)
            \/ \E k \in Requests : TakeJob(w, k)
        BY Kinds, ProcessorStep, RunEndsStep, TakeStep, StalledStep, AssistantStep
           DEF GoesOn, GoesIdle, vars, workerVars
      <3>7. QED
        BY <3>2, <3>3, <3>4, <3>5, <3>6
    <2>2. ASSUME NEW v \in Workers, Queue!Take(v, j) PROVE FALSE
      BY <1>1, <1>4, <2>2, QueueMoves DEF Queue!Owns
    <2>3. ASSUME NEW v \in Workers, run[v].job = j, Queue!Owns(v, j),
                 \/ CompleteJob(v) /\ Queue!Complete(v, j)
                 \/ FailJob(v) /\ Queue!Fail(v, j)
          PROVE  Held(j)'
      <3>1. v = w
        BY <1>4, <2>3 DEF Queue!Owns
      <3>2. Queue!Complete(v, j)
        BY <1>4, <2>3, <3>1 DEF FailJob, EndRun, Healthy
      <3>3. work'[j].state = "completed"
        BY <1>1, <2>3, <3>2, QueueMoves
      <3>4. QED
        BY <3>3 DEF Held, Queue!Ended
    <2>4. ~StalledDead(j) /\ ~StalledSlow(j)
      BY <1>1, <1>4 DEF StalledDead, StalledSlow, Fault, Running, Queue!Owns
    <2>5. QED
      BY <2>1, <2>2, <2>3, <2>4, QueueOf
  <1>5. QED
    BY <1>2, <1>3, <1>4 DEF Held

LEMMA FaultsGrow ==
  ASSUME TypeInv, IngestionInv, [Next]_vars
  PROVE  faults \in Nat /\ faults' \in Nat /\ faults <= faults'
  <1>1. IngestTypeOK /\ Shape /\ faults \in Nat
    BY MaxFaultsAssumption DEF TypeInv, TypeOK, IngestTypeOK, IngestionInv
  <1>2. faults' \in Nat
    BY PipelineTypeStep, MaxFaultsAssumption DEF TypeInv, TypeOK, IngestTypeOK
  <1>3. faults <= faults'
    BY <1>1, Kinds, IngestStepWrites, ProcessorStep, RunEndsStep, TakeStep, StalledStep,
       AssistantStep DEF IngestWrites, WorkerWrites, vars, ingestVars
  <1>4. QED
    BY <1>1, <1>2, <1>3

\* The loads stay within what was used and what failures paid for: inductive.
LEMMA LoadInvStep ==
  ASSUME TypeInv, IngestionInv, LoadInv, [Next]_vars
  PROVE  LoadInv'
  <1> SUFFICES ASSUME NEW j \in Requests
               PROVE  /\ IsFiniteSet(Pending(j)')
                      /\ GivenUpOK(j)'
                      /\ Load(j)' <= Used(j)'
                      /\ CountersAccepted =>
                           Load(j)' + (IF Held(j)' THEN 0 ELSE 1) <= 1 + faults'
    BY DEF LoadInv
  <1>1. /\ IsFiniteSet(Pending(j)) /\ GivenUpOK(j) /\ Load(j) <= Used(j)
        /\ CountersAccepted => Load(j) + (IF Held(j) THEN 0 ELSE 1) <= 1 + faults
    BY DEF LoadInv
  <1>2. /\ IsFiniteSet(Pending(j)') /\ Load(j) \in Nat /\ Load(j)' \in Nat
        /\ Load(j)' <= Load(j) \/ (Taken(j) /\ Load(j)' = Load(j) + 1)
    BY <1>1, LoadStep
  <1>3. /\ Used(j) \in Int /\ Used(j)' \in Int
        /\ Used(j) <= Used(j)'
        /\ Taken(j) => Used(j)' = Used(j) + 1
    BY <1>1, UsedStep
  <1>4. Load(j)' <= Used(j)'
    BY <1>1, <1>2, <1>3
  <1>5. faults \in Nat /\ faults' \in Nat /\ faults <= faults'
    BY FaultsGrow
  <1>6. ASSUME CountersAccepted
        PROVE  Load(j)' + (IF Held(j)' THEN 0 ELSE 1) <= 1 + faults'
    <2>1. /\ Held(j) /\ faults' = faults => Held(j)'
          /\ Taken(j) => ~Held(j) /\ Held(j)'
      BY <1>1, <1>6, HeldStep
    <2>2. QED
      BY <1>1, <1>2, <1>5, <1>6, <2>1
  <1>7. QED
    BY <1>1, <1>2, <1>4, <1>6, GivenUpStep

LEMMA LoadInit == Init => LoadInv
  <1> SUFFICES ASSUME Init, NEW j \in Requests
               PROVE  /\ IsFiniteSet(Pending(j)) /\ GivenUpOK(j) /\ Load(j) <= Used(j)
                      /\ CountersAccepted =>
                           Load(j) + (IF Held(j) THEN 0 ELSE 1) <= 1 + faults
    BY DEF LoadInv
  <1>1. /\ \A w \in Workers : run[w].job = NoEvent
        /\ work[j].state = "waiting" /\ work[j].made = 0 /\ work[j].stalled = 0
        /\ upserts[j] = 0 /\ faults = 0
    BY DEF Init, IngestInit, Queue!WorkInit, Idle
  <1>2. Pending(j) = {}
    BY <1>1, NoEventAssumption DEF Pending
  <1>3. IsFiniteSet(Pending(j)) /\ Load(j) = 0
    BY <1>1, <1>2, FS_EmptySet DEF Load
  <1>4. Used(j) = 0
    <2>1. ~Queue!Ended(j) /\ work[j].state # "active"
      BY <1>1 DEF Queue!Ended
    <2>2. Used(j) = work[j].made + work[j].stalled + 0 - 0
      BY <2>1 DEF Used
    <2>3. QED
      BY <1>1, <2>2
  <1>5. QED
    BY <1>1, <1>3, <1>4, NoEventAssumption DEF GivenUpOK

\* Retries, stalls and overtaken runs together upsert the contact of an event no more
\* often than its job may be attempted and may stall.
THEOREM UpsertsAreBounded == Spec => []UpsertsBounded
  <1>1. TypeInv /\ LoadInv => UpsertsBounded
    <2> SUFFICES ASSUME TypeInv, LoadInv, NEW j \in Requests
                 PROVE  upserts[j] <= MaxAttempts + MaxStalled
      BY DEF UpsertsBounded
    <2>1. /\ work[j] \in Queue!Work /\ (Queue!Ended(j) \/ work[j].made < MaxAttempts)
          /\ upserts[j] \in Nat /\ Cardinality(Pending(j)) \in Nat /\ Load(j) <= Used(j)
      BY FS_CardinalityType DEF TypeInv, TypeOK, IngestTypeOK, Queue!WorkOK, LoadInv
    <2>2. /\ work[j].made \in 0..MaxAttempts /\ work[j].stalled \in 0..(MaxStalled + 1)
          /\ MaxAttempts \in Nat /\ MaxStalled \in Nat
      BY <2>1, BoundsAssumption DEF Queue!Work
    <2>3. upserts[j] <= Load(j) /\ Load(j) \in Nat
      BY <2>1 DEF Load
    <2>4. Used(j) <= MaxAttempts + MaxStalled /\ Used(j) \in Int
      BY <2>1, <2>2 DEF Used, Queue!GivenUp, Queue!Ended
    <2>5. QED
      BY <2>1, <2>2, <2>3, <2>4
  <1>2. QED
    BY <1>1, PipelineInit, PipelineTypeStep, LoadInit, LoadInvStep, PTL DEF Spec

\* With counters that MongoDB takes, the contact of an event is upserted once, and once
\* more for each failure: nothing repeats it for nothing.
THEOREM RepeatedUpsertsNeedFaults == Spec => []RepeatedUpsertNeedsFault
  <1>1. TypeInv /\ LoadInv => RepeatedUpsertNeedsFault
    <2> SUFFICES ASSUME TypeInv, LoadInv, CountersAccepted, NEW j \in Requests
                 PROVE  upserts[j] <= 1 + faults
      BY DEF RepeatedUpsertNeedsFault
    <2>1. /\ upserts[j] \in Nat /\ Cardinality(Pending(j)) \in Nat /\ faults \in Nat
          /\ Load(j) + (IF Held(j) THEN 0 ELSE 1) <= 1 + faults
      BY FS_CardinalityType, MaxFaultsAssumption DEF TypeInv, TypeOK, IngestTypeOK, LoadInv
    <2>2. upserts[j] <= Load(j) /\ Load(j) \in Nat
      BY <2>1 DEF Load
    <2>3. QED
      BY <2>1, <2>2
  <1>2. QED
    BY <1>1, PipelineInit, PipelineTypeStep, LoadInit, LoadInvStep, PTL DEF Spec

(***************************************************************************)
(* One run of a job, and why jobs fail.                                    *)
(***************************************************************************)

\* Two slots run the same job only after a slow run of it was overtaken: retries, stops
\* and stalled checks alone never make two attempts overlap.
THEOREM OneRunOfAJob ==
  Spec => [](\A v, w \in Workers :
               run[v].step # "idle" /\ run[v].job = run[w].job /\ run[v].job \notin overtaken
                 => v = w)
  <1>1. TypeInv /\ SettledInv =>
          \A v, w \in Workers :
            run[v].step # "idle" /\ run[v].job = run[w].job /\ run[v].job \notin overtaken
              => v = w
    <2> SUFFICES ASSUME TypeInv, SettledInv, NEW v \in Workers, NEW w \in Workers,
                        run[v].step # "idle", run[v].job = run[w].job,
                        run[v].job \notin overtaken
                 PROVE  v = w
      OBVIOUS
    <2>1. PICK j \in Requests : j = run[v].job /\ j = run[w].job
      BY DEF TypeInv, TypeOK, IngestTypeOK, RunJobs
    <2>2. Queue!Owns(v, j) /\ Queue!Owns(w, j)
      BY <2>1 DEF SettledInv, JobOK
    <2>3. QED
      BY <2>2 DEF Queue!Owns
  <1>2. QED
    BY <1>1, PipelineInit, PipelineTypeStep, ServedInit, ServedStep, SettledInit, SettledStep,
       PTL DEF Spec

\* With counters that MongoDB takes and until something fails: no run is on its way to
\* fail, no job stalled or failed, and who holds the lock of a job runs it.
SoundInv ==
  CountersAccepted /\ faults = 0 =>
    /\ \A w \in Workers : run[w].step \in Healthy \cup {"idle"}
    /\ \A j \in Requests :
         /\ work[j].state # "failed" /\ work[j].stalled = 0
         /\ work[j].state = "active" => \E w \in Workers : work[j].owner = w /\ run[w].job = j

LEMMA SoundRuns ==
  ASSUME TypeInv, SoundInv, CountersAccepted, faults = 0, faults' = 0, [Next]_vars,
         NEW w \in Workers
  PROVE  run'[w].step \in Healthy \cup {"idle"}
  <1>1. run[w].step \in Healthy \cup {"idle"} /\ \A j \in Requests : ~Queue!GivenUp(j)
    BY BoundsAssumption DEF SoundInv, Queue!GivenUp
  <1>2. CASE Processor(w)
    BY <1>1, <1>2, ProcessorMoves
       DEF Moves, Finds, Routes, Starts, Upserts, Tracks, Finishes, Rethrows,
           IgnoresUnlogged, Unanswered, Breaks, Healthy
  <1>3. CASE RunEnds(w)
    BY <1>3, RunEndsStep DEF GoesIdle
  <1>4. ASSUME NEW j \in Requests, TakeJob(w, j) PROVE run'[w].step \in Healthy
    BY <1>1, <1>4, TakeStep DEF Healthy
  <1>5. \/ run'[w] = run[w] \/ Processor(w) \/ RunEnds(w)
        \/ \E j \in Requests : TakeJob(w, j)
    BY Kinds, ProcessorStep, RunEndsStep, TakeStep, StalledStep, AssistantStep
       DEF GoesOn, GoesIdle, vars, workerVars
  <1>6. QED
    BY <1>1, <1>2, <1>3, <1>4, <1>5

\* The lock of a job is let go of only by the end of the run that holds it.
LEMMA SoundJobs ==
  ASSUME TypeInv, SettledInv, QuietInv, SoundInv, CountersAccepted, faults = 0, faults' = 0,
         [Next]_vars, NEW j \in Requests
  PROVE  /\ work'[j].state # "failed" /\ work'[j].stalled = 0
         /\ work'[j].state = "active" => \E w \in Workers : work'[j].owner = w /\ run'[w].job = j
  <1>1. /\ work[j].state # "failed" /\ work[j].stalled = 0 /\ Queue!WorkOK
        /\ work[j].state = "active" => \E w \in Workers : work[j].owner = w /\ run[w].job = j
        /\ \A w \in Workers : run[w].step \in Healthy \cup {"idle"}
        /\ j \notin overtaken /\ NoEvent \notin Requests
        /\ \A w \in Workers : run[w].step = "idle" => run[w].job = NoEvent
    BY NoEventAssumption DEF SoundInv, QuietInv, TypeInv, RunJobs
  <1>2. ASSUME NEW w \in Workers, TakeJob(w, j), Queue!Take(w, j)
        PROVE  /\ work'[j].state = "active" /\ work'[j].stalled = 0
               /\ work'[j].owner = w /\ run'[w].job = j
    BY <1>1, <1>2, TakeStep, QueueMoves
  <1>3. ASSUME NEW w \in Workers, run[w].job = j, Queue!Owns(w, j),
               \/ CompleteJob(w) /\ Queue!Complete(w, j)
               \/ FailJob(w) /\ Queue!Fail(w, j)
        PROVE  work'[j].state = "completed" /\ work'[j].stalled = 0
    <2>1. ~FailJob(w)
      BY <1>1 DEF FailJob, EndRun, Healthy
    <2>2. QED
      BY <1>1, <1>3, <2>1, QueueMoves
  <1>4. ASSUME (StalledDead(j) \/ StalledSlow(j)) /\ Queue!PutBack(j) PROVE FALSE
    BY <1>1, <1>4, QueueMoves DEF StalledDead, StalledSlow, Fault, Running, Queue!PutBack
  <1>5. ASSUME work'[j] = work[j], NEW w \in Workers, work[j].state = "active",
               work[j].owner = w, run[w].job = j
        PROVE  run'[w].job = j
    <2>1. Queue!Owns(w, j) /\ run[w].step # "idle"
      BY <1>1, <1>5 DEF Queue!Owns
    <2>2. ~RunEnds(w)
      <3>1. ASSUME RunEnds(w) PROVE FALSE
        <4>1. ~WorkerStops(w) /\ ~FailJob(w)
          BY <1>1, <2>1 DEF WorkerStops, Fault, FailJob, EndRun, Healthy
        <4>2. Queue!Complete(w, j)
          BY <1>5, <3>1, <4>1, RunEndsStep
        <4>3. QED
          BY <1>1, <1>5, <2>1, <4>2, QueueMoves
      <3>2. QED
        BY <3>1
    <2>3. \/ run'[w] = run[w] \/ Processor(w) \/ RunEnds(w)
          \/ \E k \in Requests : TakeJob(w, k)
      BY Kinds, ProcessorStep, RunEndsStep, TakeStep, StalledStep, AssistantStep
         DEF GoesOn, GoesIdle, vars, workerVars
    <2>4. QED
      BY <1>5, <2>1, <2>2, <2>3, ProcessorStep, TakeStep DEF GoesOn
  <1>6. QED
    BY <1>1, <1>2, <1>3, <1>4, <1>5, QueueOf

LEMMA SoundStep ==
  ASSUME TypeInv, IngestionInv, SettledInv, QuietInv, SoundInv, [Next]_vars
  PROVE  SoundInv'
  <1> SUFFICES ASSUME CountersAccepted, faults' = 0
               PROVE  /\ \A w \in Workers : run'[w].step \in Healthy \cup {"idle"}
                      /\ \A j \in Requests :
                           /\ work'[j].state # "failed" /\ work'[j].stalled = 0
                           /\ work'[j].state = "active" =>
                                \E w \in Workers : work'[j].owner = w /\ run'[w].job = j
    BY DEF SoundInv
  <1>1. faults = 0
    BY FaultsGrow
  <1>2. QED
    BY <1>1, SoundRuns, SoundJobs

LEMMA SoundInit == Init => SoundInv
  BY DEF Init, SoundInv, Idle, Queue!WorkInit

\* The counters are the only reason for a job to fail by itself: with an update of them
\* that MongoDB takes, no job fails until something does.
THEOREM OnlyCountersFailJobs == Spec => [](CountersAccepted => FailureNeedsFault)
  <1>1. TypeInv /\ SoundInv => (CountersAccepted => FailureNeedsFault)
    BY DEF SoundInv, FailureNeedsFault, TypeInv, TypeOK, IngestTypeOK
  <1>2. QED
    BY <1>1, PipelineInit, PipelineTypeStep, ServedInit, ServedStep, SettledInit, SettledStep,
       QuietInit, QuietStep, SoundInit, SoundStep, PTL DEF Spec

(***************************************************************************)
(* Leads under the counters of the code.                                   *)
(***************************************************************************)

IsLead(e) == IsInboundLead(delivery[e]) /\ ~IsInboundMessage(delivery[e])

\* No lead is finalized, and its job only ends well without its event.
LeadEventOK(e) ==
  IsLead(e) => status[e] \notin Final /\ (work[e].state = "completed" => Gone(e))

LeadRunOK(w) ==
  run[w].step \in {"mark", "return"} /\ IsLead(run[w].job) =>
    run[w].step = "return" /\ Gone(run[w].job)

LeadInv ==
  ~CountersAccepted => /\ \A e \in Requests : LeadEventOK(e)
                       /\ \A w \in Workers : LeadRunOK(w)

\* A job that a step completes had a run that returned.
LEMMA NewlyCompleted ==
  ASSUME TypeInv, [Next]_vars, NEW e \in Requests,
         work'[e].state = "completed", work[e].state # "completed"
  PROVE  \E w \in Workers : run[w].step = "return" /\ run[w].job = e
  <1>1. Queue!WorkOK /\ \A w \in Workers : run[w].step # "idle" => run[w].job \in Requests
    BY DEF TypeInv, TypeOK, IngestTypeOK, RunJobs
  <1>2. work' # work
    OBVIOUS
  <1>3. ASSUME NEW w \in Workers, RunEnds(w)
        PROVE  \E v \in Workers : run[v].step = "return" /\ run[v].job = e
    <2>1. PICK j \in Requests : j = run[w].job
      BY <1>1, <1>3, RunEndsStep DEF GoesIdle
    <2>2. CASE CompleteJob(w) /\ Queue!Complete(w, j)
      <3>1. run[w].step = "return"
        BY <2>2 DEF CompleteJob, EndRun
      <3>2. Queue!Owns(w, j)
        BY <1>1, <1>2, <2>2, QueueMoves
      <3>3. e = j
        BY <1>1, <2>2, <3>2, QueueMoves
      <3>4. QED
        BY <2>1, <3>1, <3>3
    <2>3. CASE Queue!Fail(w, j)
      <3>1. Queue!Owns(w, j)
        BY <1>1, <1>2, <2>3, QueueMoves
      <3>2. QED
        BY <1>1, <2>3, <3>1, QueueMoves
    <2>4. QED
      BY <1>2, <1>3, <2>1, <2>2, <2>3, RunEndsStep
  <1>4. ASSUME NEW w \in Workers, NEW j \in Requests, TakeJob(w, j) PROVE FALSE
    <2>1. Queue!Take(w, j)
      BY <1>4, TakeStep
    <2>2. work'[j].state = "active" /\ \A k \in Requests \ {j} : work'[k] = work[k]
      BY <1>1, <2>1, QueueMoves
    <2>3. QED
      BY <2>2
  <1>5. ASSUME NEW j \in Requests, StalledDead(j) \/ StalledSlow(j) PROVE FALSE
    <2>1. Queue!PutBack(j)
      BY <1>5, StalledStep
    <2>2. work'[j].state = "waiting" /\ \A k \in Requests \ {j} : work'[k] = work[k]
      BY <1>1, <2>1, QueueMoves DEF Queue!PutBack, Queue!WorkOK, Queue!Work
    <2>3. QED
      BY <2>2
  <1>6. QED
    BY <1>2, <1>3, <1>4, <1>5, Kinds, ProcessorStep, AssistantStep
       DEF GoesOn, vars, workerVars

\* A step of the processor finalizes no lead, and returns from one that is gone only.
LEMMA ProcessorRefuses ==
  ASSUME TypeInv, ServedInv, ~CountersAccepted, NEW w \in Workers, Processor(w),
         NEW j \in Requests, j = run[w].job, LeadRunOK(w), LeadEventOK(j), IsLead(j)
  PROVE  /\ status'[j] \notin Final
         /\ run'[w].step # "mark"
         /\ run'[w].step = "return" => Gone(j)'
  <1>1. /\ WorkerWrites /\ GoesOn(w)
        /\ status \in [Requests -> Statuses] /\ status[j] # "none"
    BY ProcessorStep DEF TypeInv, TypeOK, IngestTypeOK, ServedInv, RunJobs, GoesOn
  <1>2. /\ run[w].step # "mark" /\ status[j] \notin Final
        /\ j \notin Stored => status[j] = "expired" /\ status'[j] = "expired"
    BY <1>1 DEF LeadRunOK, LeadEventOK, Stored, WorkerWrites
  <1>3. run[w].step # "route"
    BY DEF ServedInv, RunOK, IsLead
  <1> USE DEF Moves, Final, Gone, IsLead
  <1>4. QED
    BY <1>2, <1>3, ProcessorMoves
       DEF Finds, Routes, Starts, Upserts, Tracks, Finishes, Rethrows, IgnoresUnlogged,
           Unanswered, Breaks, TryBlock

LEMMA LeadStep ==
  ASSUME TypeInv, IngestionInv, ServedInv, LeadInv, [Next]_vars
  PROVE  LeadInv'
  <1> SUFFICES ASSUME ~CountersAccepted
               PROVE  /\ \A e \in Requests : LeadEventOK(e)'
                      /\ \A w \in Workers : LeadRunOK(w)'
    BY DEF LeadInv
  <1>1. /\ \A e \in Requests : LeadEventOK(e) /\ Persists(e)
        /\ \A w \in Workers : LeadRunOK(w)
        /\ \A w \in Workers : run[w].step # "idle" => run[w].job \in Requests
        /\ IngestTypeOK /\ Shape
    BY EverythingPersists
       DEF LeadInv, TypeInv, TypeOK, IngestTypeOK, RunJobs, IngestionInv
  <1>2. \A e \in Requests : IsLead(e)' = IsLead(e)
    BY <1>1 DEF Persists, IsLead, IsInboundLead, IsInboundMessage
  <1>3. \A e \in Requests : IsLead(e) /\ work'[e].state = "completed" => Gone(e)'
    BY <1>1, NewlyCompleted DEF LeadEventOK, LeadRunOK, Persists
  <1>4. ASSUME NEW w \in Workers, run'[w] = run[w] PROVE LeadRunOK(w)'
    <2>1. CASE run[w].step \in {"mark", "return"}
      <3>1. PICK j \in Requests : j = run[w].job
        BY <1>1, <2>1
      <3>2. QED
        BY <1>1, <1>2, <1>4, <3>1 DEF LeadRunOK, Persists
    <2>2. QED
      BY <1>4, <2>1 DEF LeadRunOK
  <1>5. CASE IngestActs /\ UNCHANGED workerVars
    BY <1>1, <1>2, <1>3, <1>4, <1>5, IngestStepWrites
       DEF IngestWrites, workerVars, LeadEventOK, Final
  <1>6. ASSUME NEW w \in Workers, Processor(w)
        PROVE  /\ \A e \in Requests : LeadEventOK(e)'
               /\ \A v \in Workers : LeadRunOK(v)'
    <2>1. WorkerWrites /\ GoesOn(w)
      BY <1>6, ProcessorStep
    <2>2. PICK j \in Requests : j = run[w].job
      BY <1>1, <2>1 DEF GoesOn
    <2>3. LeadEventOK(j)' /\ LeadRunOK(w)'
      BY <1>1, <1>2, <1>3, <1>6, <2>1, <2>2, ProcessorRefuses DEF LeadEventOK, LeadRunOK, GoesOn
    <2>4. QED
      BY <1>1, <1>2, <1>3, <1>4, <2>1, <2>2, <2>3 DEF LeadEventOK, GoesOn
  <1>7. ASSUME NEW w \in Workers, RunEnds(w)
        PROVE  /\ \A e \in Requests : LeadEventOK(e)'
               /\ \A v \in Workers : LeadRunOK(v)'
    <2>1. LeadRunOK(w)' /\ GoesIdle(w)
      BY <1>7, RunEndsStep DEF GoesIdle, LeadRunOK
    <2>2. QED
      BY <1>1, <1>2, <1>3, <1>4, <2>1 DEF LeadEventOK, GoesIdle
  <1>8. ASSUME NEW w \in Workers, NEW j \in Requests, TakeJob(w, j)
        PROVE  /\ \A e \in Requests : LeadEventOK(e)'
               /\ \A v \in Workers : LeadRunOK(v)'
    <2>1. /\ LeadRunOK(w)' /\ UNCHANGED status
          /\ \A v \in Workers \ {w} : run'[v] = run[v]
      BY <1>8, TakeStep DEF LeadRunOK
    <2>2. QED
      BY <1>1, <1>2, <1>3, <1>4, <2>1 DEF LeadEventOK
  <1>9. ASSUME NEW j \in Requests, StalledDead(j) \/ StalledSlow(j)
        PROVE  /\ \A e \in Requests : LeadEventOK(e)'
               /\ \A v \in Workers : LeadRunOK(v)'
    BY <1>1, <1>2, <1>3, <1>4, <1>9, StalledStep DEF LeadEventOK
  <1>10. ASSUME NEW d \in Requests, AssistantActs(d)
         PROVE  /\ \A e \in Requests : LeadEventOK(e)'
                /\ \A v \in Workers : LeadRunOK(v)'
    <2>1. ~IsLead(d)
      BY <1>10, AssistantStep DEF ServedInv, EventOK, IsLead
    <2>2. QED
      BY <1>1, <1>2, <1>3, <1>4, <1>10, <2>1, AssistantStep DEF LeadEventOK
  <1>11. CASE UNCHANGED vars
    BY <1>1, <1>2, <1>3, <1>4, <1>11 DEF vars, ingestVars, workerVars, LeadEventOK
  <1>12. QED
    BY <1>5, <1>6, <1>7, <1>8, <1>9, <1>10, <1>11, Kinds

LEMMA LeadInit == Init => LeadInv
  BY DEF Init, IngestInit, LeadInv, LeadEventOK, LeadRunOK, Idle, Queue!WorkInit, Final

\* With the counters of the code no lead is processed: whatever is retried, stalls or is
\* delivered twice, its job never completes while the event is there.
THEOREM NoLeadCompletes == Spec => []LeadsNeverComplete
  <1>1. TypeInv /\ LeadInv => LeadsNeverComplete
    BY DEF TypeInv, TypeOK, IngestTypeOK, LeadInv, LeadEventOK, IsLead, LeadsNeverComplete
  <1>2. QED
    BY <1>1, PipelineInit, PipelineTypeStep, ServedInit, ServedStep, LeadInit, LeadStep,
       PTL DEF Spec
=============================================================================
