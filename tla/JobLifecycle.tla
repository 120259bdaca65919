---------------------------- MODULE JobLifecycle ----------------------------
(***************************************************************************)
(* The JobRecord documents of one tenant's jobs in one queue, which        *)
(* jobLifecycleService keeps beside BullMQ for the operations screens.     *)
(*                                                                         *)
(* enqueue writes the record after it added the job, and the workers write *)
(* it from event handlers that nobody awaits. Each write is an update in   *)
(* flight, built from the job as it was when it was sent; MongoDB applies  *)
(* the updates in any order, and a failed one is only logged.              *)
(***************************************************************************)
EXTENDS JobQueue, FiniteSets

CONSTANTS
  Keyless,      \* the jobs that were added without an idempotency key
  NoJob,        \* the job of an idle slot
  MaxAdds,      \* bound on the calls of enqueue
  MaxFaults     \* bound on the failures injected

ASSUME KeylessAssumption   == Keyless \subseteq Jobs
ASSUME NoJobAssumption     == NoJob \notin Jobs
ASSUME LifecycleAssumption == MaxAdds \in Nat /\ MaxFaults \in Nat

VARIABLES
  added,        \* the jobs that are in the queue
  adds,         \* how many calls of enqueue were made
  run,          \* the job each worker slot runs
  rec,          \* the JobRecord of each job
  flight,       \* the updates sent and not yet applied
  sent,         \* history: how many updates were sent for each job
  disturbed,    \* history: the jobs whose updates were not applied once, in order
  faults        \* how many failures were injected so far

queueVars  == <<added, adds, run, work>>
recordVars == <<rec, flight, sent, disturbed>>
vars       == <<queueVars, recordVars, faults>>

RecordStatuses == {"none", "queued", "processing", "completed", "failed", "dead_letter"}

\* An update: the status it sets, its attemptsMade and its place in the order in
\* which the updates of its job were sent. seq is history too.
Updates == [job : Jobs, status : RecordStatuses \ {"none"}, made : 0..MaxAttempts, seq : Nat]
Records == [status : RecordStatuses, made : 0..MaxAttempts, seq : Nat]

TypeOK ==
  /\ added \subseteq Jobs
  /\ adds \in 0..MaxAdds
  /\ run \in [Workers -> Jobs \cup {NoJob}]
  /\ work \in [Jobs -> Work]
  /\ rec \in [Jobs -> Records]
  /\ flight \subseteq Updates
  /\ sent \in [Jobs -> Nat]
  /\ disturbed \subseteq Jobs
  /\ faults \in 0..MaxFaults

Init ==
  /\ added = {}
  /\ adds = 0
  /\ run = [w \in Workers |-> NoJob]
  /\ WorkInit
  /\ rec = [j \in Jobs |-> [status |-> "none", made |-> 0, seq |-> 0]]
  /\ flight = {}
  /\ sent = [j \in Jobs |-> 0]
  /\ disturbed = {}
  /\ faults = 0

(***************************************************************************)
(* Helpers.                                                                *)
(***************************************************************************)

Fault == faults < MaxFaults /\ faults' = faults + 1

Send(j, status, made) ==
  /\ sent' = [sent EXCEPT ![j] = @ + 1]
  /\ flight' = flight \cup {[job |-> j, status |-> status, made |-> made, seq |-> sent[j] + 1]}
  /\ UNCHANGED rec

SendNothing == UNCHANGED <<rec, flight, sent>>

(***************************************************************************)
(* Queue and workers: each step sends what its event handler sends.        *)
(***************************************************************************)

\* enqueue: the add, a no-op when the job is known, and onEnqueued in any case. A
\* job without key has a new id each time.
Enqueue(j) ==
  /\ adds < MaxAdds
  /\ j \in Keyless => j \notin added
  /\ adds' = adds + 1
  /\ added' = added \cup {j}
  /\ Send(j, "queued", 0)
  /\ disturbed' = IF j \in added THEN disturbed \cup {j} ELSE disturbed
  /\ UNCHANGED <<run, work, faults>>

\* Mutant: the attempt that starts is counted.
TakeJobCounted(w, j) ==
  /\ run[w] = NoJob
  /\ j \in added
  /\ Take(w, j)
  /\ run' = [run EXCEPT ![w] = j]
  /\ Send(j, "processing", work[j].made + 1)
  /\ UNCHANGED <<added, adds, disturbed, faults>>

\* The active event: onActive.
TakeJob(w, j) ==
  /\ run[w] = NoJob
  /\ j \in added
  /\ Take(w, j)
  /\ run' = [run EXCEPT ![w] = j]
  /\ Send(j, "processing", work[j].made)
  /\ UNCHANGED <<added, adds, disturbed, faults>>

\* Mutant: the attempts are read before the last one is counted.
CompleteJobEarly(w) ==
  LET j == run[w] IN
  /\ j # NoJob
  /\ ~(Owns(w, j) /\ GivenUp(j))
  /\ Complete(w, j)
  /\ run' = [run EXCEPT ![w] = NoJob]
  /\ IF Owns(w, j) THEN Send(j, "completed", work[j].made) ELSE SendNothing
  /\ UNCHANGED <<added, adds, disturbed, faults>>

\* Mutant: a run that lost its lock reports its job completed.
CompleteJobUnowned(w) ==
  LET j == run[w] IN
  /\ j # NoJob
  /\ ~(Owns(w, j) /\ GivenUp(j))
  /\ Complete(w, j)
  /\ run' = [run EXCEPT ![w] = NoJob]
  /\ Send(j, "completed", work[j].made)
  /\ UNCHANGED <<added, adds, disturbed, faults>>

\* The run succeeds. Without the lock BullMQ refuses its end and emits an error,
\* not completed.
CompleteJob(w) ==
  LET j == run[w] IN
  /\ j # NoJob
  /\ ~(Owns(w, j) /\ GivenUp(j))
  /\ Complete(w, j)
  /\ run' = [run EXCEPT ![w] = NoJob]
  /\ IF Owns(w, j) THEN Send(j, "completed", work[j].made + 1) ELSE SendNothing
  /\ UNCHANGED <<added, adds, disturbed, faults>>

\* Mutant: the failure is counted a second time.
DeadLetterEarly(made) == IF made + 1 >= MaxAttempts THEN "dead_letter" ELSE "failed"

\* The dead letter test of onFailed: the attempts, which the failure just made
\* counts among, are used up.
DeadLetter(made) == IF made >= MaxAttempts THEN "dead_letter" ELSE "failed"

\* The run fails, or the job it took had stalled too often: onFailed.
FailJob(w) ==
  LET j == run[w] IN
  /\ j # NoJob
  /\ Fail(w, j)
  /\ run' = [run EXCEPT ![w] = NoJob]
  /\ IF Owns(w, j) THEN Send(j, DeadLetter(work[j].made + 1), work[j].made + 1) ELSE SendNothing
  /\ UNCHANGED <<added, adds, disturbed, faults>>

WorkerStops(w) ==
  /\ run[w] # NoJob
  /\ run' = [run EXCEPT ![w] = NoJob]
  /\ Fault
  /\ UNCHANGED <<added, adds, work, recordVars>>

StalledDead(j) ==
  /\ \A w \in Workers : ~(work[j].owner = w /\ run[w] = j)
  /\ PutBack(j)
  /\ UNCHANGED <<added, adds, run, recordVars, faults>>

\* The stalled check takes the job from a worker that did not renew its lock.
StalledSlow(j) ==
  /\ \E w \in Workers : work[j].owner = w /\ run[w] = j
  /\ PutBack(j)
  /\ Fault
  /\ UNCHANGED <<added, adds, run, recordVars>>

(***************************************************************************)
(* MongoDB.                                                                *)
(***************************************************************************)

\* The unique index on tenant, queue and idempotency key is compound: it holds one
\* record without key.
Refused(j) == j \in Keyless /\ \E k \in Keyless \ {j} : rec[k].status # "none"

\* onEnqueued creates the record that it does not find; the others write nothing.
Applies(u) ==
  \/ rec[u.job].status # "none"
  \/ u.status = "queued" /\ ~Refused(u.job)

ApplyUpdate(u) ==
  /\ u \in flight
  /\ flight' = flight \ {u}
  /\ rec' = IF Applies(u)
              THEN [rec EXCEPT ![u.job] = [status |-> u.status, made |-> u.made, seq |-> u.seq]]
              ELSE rec
  /\ disturbed' = IF Applies(u) /\ rec[u.job].seq < u.seq
                    THEN disturbed ELSE disturbed \cup {u.job}
  /\ UNCHANGED <<queueVars, sent, faults>>

\* The update is refused or its process stops: at most, an error is logged.
LoseUpdate(u) ==
  /\ u \in flight
  /\ flight' = flight \ {u}
  /\ disturbed' = disturbed \cup {u.job}
  /\ Fault
  /\ UNCHANGED <<queueVars, rec, sent>>

Drained ==
  /\ adds = MaxAdds
  /\ \A j \in added : Ended(j)
  /\ \A w \in Workers : run[w] = NoJob
  /\ flight = {}
  /\ UNCHANGED vars

Next ==
  \/ \E j \in Jobs : Enqueue(j) \/ StalledDead(j) \/ StalledSlow(j)
  \/ \E w \in Workers : \/ CompleteJob(w) \/ FailJob(w) \/ WorkerStops(w)
                        \/ \E j \in Jobs : TakeJob(w, j)
  \/ \E u \in flight : ApplyUpdate(u) \/ LoseUpdate(u)
  \/ Drained

Spec == Init /\ [][Next]_vars

(***************************************************************************)
(* Properties.                                                             *)
(***************************************************************************)

\* A record that says a job was completed, or that its attempts are used up, is
\* true of the job, in whatever order the updates arrive.
FinalClaimsAreTrue ==
  \A j \in Jobs :
    /\ rec[j].status = "completed" => work[j].state = "completed"
    /\ rec[j].status = "dead_letter" => work[j].state = "failed" /\ work[j].made >= MaxAttempts

\* A record never counts attempts that were not made.
AttemptsNeverAhead == \A j \in Jobs : rec[j].made <= work[j].made

\* No update of the job is on its way.
Settled(j) == \A u \in flight : u.job # j

\* What the record of an ended job has to say.
Outcome(j) == IF work[j].state = "completed" THEN "completed" ELSE DeadLetter(work[j].made)

\* Once the updates of an ended job have been applied, each once and in the order
\* they were sent, its record has its outcome and its attempts.
OrderedUpdatesSettle ==
  \A j \in added \ disturbed :
    Ended(j) /\ Settled(j) => rec[j].status = Outcome(j) /\ rec[j].made = work[j].made

FinalRecord(r) == r.status \in {"completed", "dead_letter"}

\* A final record is only overwritten by an update sent before the final one, or by
\* the onEnqueued of a job that was added again.
FinalOnlyLostToLateUpdate ==
  [][\A j \in Jobs : FinalRecord(rec[j]) /\ rec'[j] # rec[j] =>
       rec'[j].seq < rec[j].seq \/ rec'[j].status = "queued"]_vars

\* While nothing fails, the record of an ended job shows that it ended once its
\* updates are applied: see the findings.
EndedJobsAreRecorded ==
  faults = 0 =>
    \A j \in added : Ended(j) /\ Settled(j) => rec[j].status \in {"completed", "dead_letter"}
=============================================================================
