------------------------- MODULE JobLifecycleProofs -------------------------
(***************************************************************************)
(* Proofs of the safety of the job records, for every set of jobs and of   *)
(* workers and every bound on attempts, stalls, adds and failures.         *)
(***************************************************************************)
EXTENDS JobLifecycle, JobQueueProofs

(***************************************************************************)
(* Types.                                                                  *)
(***************************************************************************)

\* Every step of the system is a step of the queue, or leaves it alone.
LEMMA StepOfQueue ==
  ASSUME TypeOK, [Next]_vars
  PROVE  QueueStep
  <1>1. \A w \in Workers : run[w] # NoJob => run[w] \in Jobs
    BY DEF TypeOK
  <1>2. QED
    BY <1>1 DEF QueueStep, Next, vars, queueVars, Enqueue, StalledDead, StalledSlow, CompleteJob,
                FailJob, WorkerStops, TakeJob, ApplyUpdate, LoseUpdate, Drained

\* A call of Send with a status and attempts of an update keeps the types.
LEMMA SendType ==
  ASSUME TypeOK, NEW j \in Jobs, NEW s \in RecordStatuses \ {"none"}, NEW m \in 0..MaxAttempts,
         Send(j, s, m)
  PROVE  rec' \in [Jobs -> Records] /\ flight' \subseteq Updates /\ sent' \in [Jobs -> Nat]
  <1>1. sent[j] + 1 \in Nat
    BY DEF TypeOK
  <1>2. [job |-> j, status |-> s, made |-> m, seq |-> sent[j] + 1] \in Updates
    BY <1>1 DEF Updates
  <1>3. QED
    BY <1>1, <1>2 DEF Send, TypeOK

\* The attempts of a job that a slot owns can be counted once more.
LEMMA OwnedHasAttempts ==
  ASSUME TypeOK, WorkOK, NEW j \in Jobs, work[j].state = "active"
  PROVE  work[j].made + 1 \in 0..MaxAttempts
  BY AttemptsAssumption DEF TypeOK, WorkOK, Work, Ended

\* The types are inductive.
LEMMA TypeStep ==
  ASSUME TypeOK, WorkOK, [Next]_vars
  PROVE  TypeOK' /\ WorkOK'
  <1> USE AttemptsAssumption, LifecycleAssumption
  <1>1. WorkOK' /\ work' \in [Jobs -> Work]
    BY StepOfQueue, QueueType DEF WorkOK
  <1>2. work \in [Jobs -> Work] /\ \A j \in Jobs : work[j].made \in 0..MaxAttempts
    BY DEF TypeOK, Work
  <1>3. ASSUME NEW j \in Jobs, Enqueue(j) PROVE TypeOK'
    <2>1. rec' \in [Jobs -> Records] /\ flight' \subseteq Updates /\ sent' \in [Jobs -> Nat]
      BY <1>3, SendType DEF Enqueue, RecordStatuses
    <2>2. QED
      BY <1>1, <1>3, <2>1 DEF Enqueue, TypeOK
  <1>4. ASSUME NEW w \in Workers, NEW j \in Jobs, TakeJob(w, j) PROVE TypeOK'
    <2>1. rec' \in [Jobs -> Records] /\ flight' \subseteq Updates /\ sent' \in [Jobs -> Nat]
      BY <1>2, <1>4, SendType DEF TakeJob, RecordStatuses
    <2>2. QED
      BY <1>1, <1>4, <2>1 DEF TakeJob, TypeOK
  <1>5. ASSUME NEW w \in Workers, CompleteJob(w) PROVE TypeOK'
    <2>1. run[w] \in Jobs
      BY <1>5 DEF CompleteJob, TypeOK
    <2>2. rec' \in [Jobs -> Records] /\ flight' \subseteq Updates /\ sent' \in [Jobs -> Nat]
      <3>1. CASE Owns(w, run[w])
        BY <1>5, <2>1, <3>1, OwnedHasAttempts, SendType DEF CompleteJob, RecordStatuses, Owns
      <3>2. CASE ~Owns(w, run[w])
        BY <1>5, <3>2 DEF CompleteJob, SendNothing, TypeOK
      <3>3. QED
        BY <3>1, <3>2
    <2>3. QED
      BY <1>1, <1>5, <2>2 DEF CompleteJob, TypeOK
  <1>6. ASSUME NEW w \in Workers, FailJob(w) PROVE TypeOK'
    <2>1. run[w] \in Jobs
      BY <1>6 DEF FailJob, TypeOK
    <2>2. rec' \in [Jobs -> Records] /\ flight' \subseteq Updates /\ sent' \in [Jobs -> Nat]
      <3>1. CASE Owns(w, run[w])
        <4>1. DeadLetter(work[run[w]].made + 1) \in RecordStatuses \ {"none"}
          BY DEF DeadLetter, RecordStatuses
        <4>2. QED
          BY <1>6, <2>1, <3>1, <4>1, OwnedHasAttempts, SendType DEF FailJob, Owns
      <3>2. CASE ~Owns(w, run[w])
        BY <1>6, <3>2 DEF FailJob, SendNothing, TypeOK
      <3>3. QED
        BY <3>1, <3>2
    <2>3. QED
      BY <1>1, <1>6, <2>2 DEF FailJob, TypeOK
  <1>7. ASSUME NEW w \in Workers, WorkerStops(w) PROVE TypeOK'
    BY <1>7 DEF WorkerStops, TypeOK, recordVars, Fault
  <1>8. ASSUME NEW j \in Jobs, StalledDead(j) \/ StalledSlow(j) PROVE TypeOK'
    BY <1>1, <1>8 DEF StalledDead, StalledSlow, TypeOK, recordVars, Fault
  <1>9. ASSUME NEW u \in flight, ApplyUpdate(u) PROVE TypeOK'
    <2>1. u \in Updates
      BY DEF TypeOK
    <2>2. u.job \in Jobs /\ [status |-> u.status, made |-> u.made, seq |-> u.seq] \in Records
      BY <2>1 DEF Updates, Records, RecordStatuses
    <2>3. rec' \in [Jobs -> Records] /\ disturbed' \subseteq Jobs
      BY <1>9, <2>2 DEF ApplyUpdate, TypeOK
    <2>4. QED
      BY <1>9, <2>3 DEF ApplyUpdate, TypeOK, queueVars
  <1>10. ASSUME NEW u \in flight, LoseUpdate(u) PROVE TypeOK'
    <2>1. u.job \in Jobs
      BY DEF TypeOK, Updates
    <2>2. QED
      BY <1>10, <2>1 DEF LoseUpdate, TypeOK, queueVars, Fault
  <1>11. CASE UNCHANGED vars
    BY <1>1, <1>11 DEF TypeOK, vars, queueVars, recordVars
  <1>12. CASE Drained
    BY <1>11, <1>12 DEF Drained
  <1>13. QED
    BY <1>1, <1>3, <1>4, <1>5, <1>6, <1>7, <1>8, <1>9, <1>10, <1>11, <1>12 DEF Next

\* The types hold initially.
LEMMA InitType ==
  ASSUME Init
  PROVE  TypeOK /\ WorkOK
  <1>1. [state |-> "waiting", owner |-> NoWorker, made |-> 0, stalled |-> 0] \in Work
    BY AttemptsAssumption DEF Work, JobStates
  <1>2. [status |-> "none", made |-> 0, seq |-> 0] \in Records
    BY AttemptsAssumption DEF Records, RecordStatuses
  <1>3. QED
    BY <1>1, <1>2, AttemptsAssumption, LifecycleAssumption DEF Init, WorkInit, TypeOK, WorkOK

\* Type correctness: every variable of the lifecycle keeps its type, so that no job
\* makes, and no record counts, more than MaxAttempts attempts.
THEOREM TypeCorrect == Spec => []TypeOK
  <1>1. Init => TypeOK /\ WorkOK
    BY InitType
  <1>2. TypeOK /\ WorkOK /\ [Next]_vars => TypeOK' /\ WorkOK'
    BY TypeStep
  <1>3. QED
    BY <1>1, <1>2, PTL DEF Spec

(***************************************************************************)
(* The kinds of step, as the records see them.                             *)
(***************************************************************************)

\* What an update or a record says is true of the job, as the queue holds it in k.
Claim(k, status, made) ==
  /\ made <= k.made
  /\ status = "completed" => k.state = "completed"
  /\ status = "dead_letter" => k.state = "failed" /\ k.made >= MaxAttempts

\* A job that was not added waits.
Idle == \A j \in Jobs \ added : work[j].state = "waiting"

\* No record changes; at most, a job goes back to wait.
QuietStep ==
  /\ UNCHANGED <<added, recordVars>>
  /\ \A j \in Jobs : work'[j] = work[j] \/ work'[j].state = "waiting"

\* onEnqueued is called for job j.
QueuedStep(j) ==
  /\ Send(j, "queued", 0)
  /\ UNCHANGED work
  /\ added' = added \cup {j}
  /\ disturbed' = IF j \in added THEN disturbed \cup {j} ELSE disturbed

\* A worker reports job j, which has not ended before.
ReportStep(j, status, made) ==
  /\ Send(j, status, made)
  /\ status \in RecordStatuses \ {"none"} /\ made \in 0..MaxAttempts
  /\ j \in added /\ ~Ended(j)
  /\ \A k \in Jobs \ {j} : work'[k] = work[k]
  /\ Claim(work'[j], status, made)
  /\ Ended(j)' => status = Outcome(j)' /\ made = work'[j].made
  /\ UNCHANGED <<added, disturbed>>

UpdateStep(u) == ApplyUpdate(u) \/ LoseUpdate(u)

\* Every step is of one of these kinds.
LEMMA StepKinds ==
  ASSUME TypeOK, WorkOK, Idle, [Next]_vars
  PROVE  \/ QuietStep
         \/ \E j \in Jobs : QueuedStep(j)
         \/ \E j \in Jobs : \E s \in RecordStatuses \ {"none"}, m \in 0..MaxAttempts :
              ReportStep(j, s, m)
         \/ \E u \in flight : UpdateStep(u)
  <1>1. /\ work \in [Jobs -> Work]
        /\ \A j \in Jobs : work[j] \in Work /\ work[j].made \in 0..MaxAttempts
    BY DEF TypeOK, Work
  <1>2. ASSUME NEW j \in Jobs, Enqueue(j) PROVE QueuedStep(j)
    BY <1>2 DEF Enqueue, QueuedStep
  <1>3. ASSUME NEW w \in Workers, NEW j \in Jobs, TakeJob(w, j)
        PROVE  ReportStep(j, "processing", work[j].made)
    <2>1. /\ work[j].state = "waiting" /\ work'[j].state = "active" /\ work'[j].made = work[j].made
          /\ \A k \in Jobs \ {j} : work'[k] = work[k]
      BY <1>1, <1>3 DEF TakeJob, Take, Work
    <2>2. QED
      BY <1>1, <1>3, <2>1 DEF TakeJob, ReportStep, Claim, Ended, RecordStatuses
  <1>4. ASSUME NEW w \in Workers, NEW j \in Jobs, j = run[w], CompleteJob(w), Owns(w, j)
        PROVE  ReportStep(j, "completed", work[j].made + 1)
    <2>1. /\ work[j].state = "active" /\ work'[j].state = "completed"
          /\ work'[j].made = work[j].made + 1
          /\ \A k \in Jobs \ {j} : work'[k] = work[k]
      BY <1>1, <1>4 DEF CompleteJob, Complete, Owns, Work
    <2>2. work[j].made + 1 \in 0..MaxAttempts
      BY <2>1, OwnedHasAttempts
    <2>3. /\ Send(j, "completed", work[j].made + 1)
          /\ UNCHANGED <<added, disturbed>>
          /\ j \in added
      BY <1>4, <2>1 DEF CompleteJob, Idle
    <2>4. Claim(work'[j], "completed", work[j].made + 1) /\ Outcome(j)' = "completed"
      BY <2>1, <2>2 DEF Claim, Outcome
    <2>5. QED
      BY <2>1, <2>2, <2>3, <2>4 DEF ReportStep, Ended, RecordStatuses
  <1>5. ASSUME NEW w \in Workers, NEW j \in Jobs, j = run[w], FailJob(w), Owns(w, j)
        PROVE  ReportStep(j, DeadLetter(work[j].made + 1), work[j].made + 1)
    <2>1. /\ work[j].state = "active" /\ work'[j].state \in {"waiting", "failed"}
          /\ LastTry(j) => work'[j].state = "failed"
          /\ work'[j].made = work[j].made + 1
          /\ \A k \in Jobs \ {j} : work'[k] = work[k]
      BY <1>1, <1>5 DEF FailJob, Fail, Owns, Work
    <2>2. work[j].made + 1 \in 0..MaxAttempts
      BY <2>1, OwnedHasAttempts
    <2>3. /\ Send(j, DeadLetter(work[j].made + 1), work[j].made + 1)
          /\ UNCHANGED <<added, disturbed>>
          /\ j \in added
      BY <1>5, <2>1 DEF FailJob, Idle
    <2>4. Claim(work'[j], DeadLetter(work[j].made + 1), work[j].made + 1)
      BY <2>1, <2>2, AttemptsAssumption DEF Claim, DeadLetter, LastTry
    <2>5. /\ Outcome(j)' = DeadLetter(work[j].made + 1)
          /\ DeadLetter(work[j].made + 1) \in RecordStatuses \ {"none"}
      BY <2>1 DEF Outcome, RecordStatuses, DeadLetter
    <2>6. QED
      BY <2>1, <2>2, <2>3, <2>4, <2>5 DEF ReportStep, Ended
  <1>6. ASSUME NEW w \in Workers, CompleteJob(w) \/ FailJob(w), ~Owns(w, run[w]) PROVE QuietStep
    BY <1>6 DEF CompleteJob, Complete, FailJob, Fail, SendNothing, QuietStep, recordVars
  <1>7. ASSUME NEW w \in Workers, WorkerStops(w) PROVE QuietStep
    BY <1>7 DEF WorkerStops, QuietStep
  <1>8. ASSUME NEW j \in Jobs, StalledDead(j) \/ StalledSlow(j) PROVE QuietStep
    <2>1. PutBack(j) /\ UNCHANGED <<added, recordVars>>
      BY <1>8 DEF StalledDead, StalledSlow
    <2>2. \A k \in Jobs : work'[k] = work[k] \/ work'[k].state = "waiting"
      BY <1>1, <2>1 DEF PutBack, Work
    <2>3. QED
      BY <2>1, <2>2 DEF QuietStep
  <1>9. CASE UNCHANGED vars
    BY <1>9 DEF QuietStep, vars, queueVars
  <1>10. CASE Drained
    BY <1>9, <1>10 DEF Drained
  <1>11. ASSUME NEW w \in Workers, NEW j \in Jobs, TakeJob(w, j)
         PROVE  \E s \in RecordStatuses \ {"none"}, m \in 0..MaxAttempts : ReportStep(j, s, m)
    BY <1>3, <1>11 DEF ReportStep
  <1>12. ASSUME NEW w \in Workers, CompleteJob(w) \/ FailJob(w), Owns(w, run[w])
         PROVE  \E j \in Jobs : \E s \in RecordStatuses \ {"none"}, m \in 0..MaxAttempts :
                  ReportStep(j, s, m)
    <2>1. PICK j \in Jobs : j = run[w]
      BY <1>12 DEF CompleteJob, FailJob, TypeOK
    <2>2. \E s, m : ReportStep(j, s, m)
      BY <1>4, <1>5, <1>12, <2>1
    <2>3. QED
      BY <2>2 DEF ReportStep
  <1>13. QED
    BY <1>2, <1>6, <1>7, <1>8, <1>9, <1>10, <1>11, <1>12 DEF Next, UpdateStep

(***************************************************************************)
(* What the records claim is true.                                         *)
(***************************************************************************)

Claims ==
  /\ \A j \in Jobs : Claim(work[j], rec[j].status, rec[j].made)
  /\ \A u \in flight : Claim(work[u.job], u.status, u.made)

\* A claim that holds goes on holding, because attempts only grow and ends are final.
LEMMA ClaimStays ==
  ASSUME TypeOK, WorkOK, [Next]_vars
  PROVE  \A j \in Jobs : \A s \in RecordStatuses, m \in 0..MaxAttempts :
           Claim(work[j], s, m) => Claim(work'[j], s, m)
  <1> SUFFICES ASSUME NEW j \in Jobs, NEW s \in RecordStatuses, NEW m \in 0..MaxAttempts,
                      Claim(work[j], s, m)
               PROVE  Claim(work'[j], s, m)
    OBVIOUS
  <1>1. work[j].made <= work'[j].made /\ (Ended(j) => work'[j] = work[j])
    BY StepOfQueue, QueueMonotone
  <1>2. work[j].made \in Nat /\ work'[j].made \in Nat
    BY TypeStep, AttemptsAssumption DEF TypeOK, Work
  <1>3. QED
    BY <1>1, <1>2 DEF Claim, Ended

\* What records and updates claim stays true.
LEMMA ClaimsStep ==
  ASSUME TypeOK, WorkOK, Idle, Claims, [Next]_vars
  PROVE  Claims'
  <1>1. \A j \in Jobs : rec[j] \in Records /\ Claim(work'[j], rec[j].status, rec[j].made)
    BY ClaimStays DEF Claims, TypeOK, Records
  <1>2. \A u \in flight : u \in Updates /\ u.job \in Jobs /\ Claim(work'[u.job], u.status, u.made)
    BY ClaimStays DEF Claims, TypeOK, Updates
  <1>3. ASSUME UNCHANGED <<rec, flight>> PROVE Claims'
    BY <1>1, <1>2, <1>3 DEF Claims
  <1>4. ASSUME NEW j \in Jobs, NEW s, NEW m, Send(j, s, m), Claim(work'[j], s, m) PROVE Claims'
    BY <1>1, <1>2, <1>4 DEF Claims, Send
  <1>5. ASSUME NEW j \in Jobs, QueuedStep(j) PROVE Claims'
    <2>1. Claim(work'[j], "queued", 0)
      BY TypeStep, AttemptsAssumption DEF Claim, TypeOK, Work
    <2>2. QED
      BY <1>4, <1>5, <2>1 DEF QueuedStep
  <1>6. ASSUME NEW u \in flight, ApplyUpdate(u) PROVE Claims'
    <2>1. flight' = flight \ {u}
      BY <1>6 DEF ApplyUpdate
    <2>2. ASSUME NEW j \in Jobs PROVE Claim(work'[j], rec'[j].status, rec'[j].made)
      <3>1. CASE rec'[j] = rec[j]
        BY <1>1, <3>1 DEF Claim
      <3>2. CASE rec'[j] # rec[j]
        <4>1. j = u.job /\ rec'[j] = [status |-> u.status, made |-> u.made, seq |-> u.seq]
          BY <1>6, <3>2 DEF ApplyUpdate, TypeOK
        <4>2. QED
          BY <1>2, <4>1 DEF Claim
      <3>3. QED
        BY <3>1, <3>2
    <2>3. QED
      BY <1>2, <2>1, <2>2 DEF Claims
  <1>7. ASSUME NEW u \in flight, LoseUpdate(u) PROVE Claims'
    BY <1>1, <1>2, <1>7 DEF Claims, LoseUpdate
  <1>8. QED
    BY <1>3, <1>4, <1>5, <1>6, <1>7, StepKinds DEF QuietStep, ReportStep, UpdateStep, recordVars

(***************************************************************************)
(* The order of the updates.                                               *)
(***************************************************************************)

\* Updates are numbered in the order they are sent.
Numbered ==
  /\ \A j \in Jobs : rec[j].seq <= sent[j]
  /\ \A u \in flight : u.seq <= sent[u.job]

\* The last update of an undisturbed job is on its way or was applied.
LastKept ==
  \A j \in Jobs \ disturbed :
    rec[j].seq = sent[j] \/ \E u \in flight : u.job = j /\ u.seq = sent[j]

\* The last update of an undisturbed job that ended tells how it ended.
LastTells ==
  \A j \in Jobs \ disturbed : Ended(j) =>
    /\ rec[j].seq = sent[j] => rec[j].status = Outcome(j) /\ rec[j].made = work[j].made
    /\ \A u \in flight : u.job = j /\ u.seq = sent[j] =>
         u.status = Outcome(j) /\ u.made = work[j].made

\* After an update that reports the end of a job, onEnqueued alone sends updates.
FinalLast ==
  \A u \in flight :
    /\ FinalRecord(rec[u.job]) /\ rec[u.job].seq <= u.seq => u.status = "queued"
    /\ \A v \in flight : u # v /\ u.job = v.job /\ FinalRecord(v) /\ v.seq <= u.seq
                          => u.status = "queued"

\* Jobs that were not added go on waiting.
LEMMA IdleStep ==
  ASSUME TypeOK, WorkOK, Idle, [Next]_vars
  PROVE  Idle'
  <1>1. CASE QuietStep
    BY <1>1 DEF QuietStep, Idle
  <1>2. ASSUME NEW j \in Jobs, QueuedStep(j) PROVE Idle'
    BY <1>2 DEF QueuedStep, Idle
  <1>3. ASSUME NEW j \in Jobs, NEW s, NEW m, ReportStep(j, s, m) PROVE Idle'
    BY <1>3 DEF ReportStep, Idle
  <1>4. ASSUME NEW u \in flight, UpdateStep(u) PROVE Idle'
    BY <1>4 DEF UpdateStep, ApplyUpdate, LoseUpdate, queueVars, Idle
  <1>5. QED
    BY <1>1, <1>2, <1>3, <1>4, StepKinds

\* What a call of Send does to the updates and to the numbers.
LEMMA SendEffect ==
  ASSUME TypeOK, Numbered, NEW j \in Jobs, NEW s, NEW m, Send(j, s, m)
  PROVE  /\ rec' = rec
         /\ sent'[j] = sent[j] + 1 /\ \A k \in Jobs \ {j} : sent'[k] = sent[k]
         /\ \A k \in Jobs : sent[k] \in Nat /\ sent'[k] \in Nat /\ rec[k].seq \in Nat
         /\ \E n : /\ flight' = flight \cup {n}
                   /\ n.job = j /\ n.status = s /\ n.made = m /\ n.seq = sent'[j]
         /\ \A u \in flight : /\ u.job \in Jobs /\ u.seq \in Nat /\ u.seq <= sent'[u.job]
                              /\ u.job = j => u.seq < sent'[j]
         /\ rec[j].seq < sent'[j]
  <1>1. \A k \in Jobs : sent[k] \in Nat /\ rec[k].seq \in Nat
    BY DEF TypeOK, Records
  <1>2. \A u \in flight : u.job \in Jobs /\ u.seq \in Nat
    BY DEF TypeOK, Updates
  <1>3. sent'[j] = sent[j] + 1 /\ \A k \in Jobs \ {j} : sent'[k] = sent[k]
    BY DEF Send, TypeOK
  <1>4. \A k \in Jobs : sent'[k] \in Nat
    BY <1>1, <1>3
  <1>5. \E n : /\ flight' = flight \cup {n}
               /\ n.job = j /\ n.status = s /\ n.made = m /\ n.seq = sent'[j]
    <2> DEFINE n == [job |-> j, status |-> s, made |-> m, seq |-> sent[j] + 1]
    <2>1. flight' = flight \cup {n}
      BY DEF Send
    <2>2. n.job = j /\ n.status = s /\ n.made = m /\ n.seq = sent'[j]
      BY <1>3
    <2>3. QED
      BY <2>1, <2>2
  <1>6. \A u \in flight : u.seq <= sent'[u.job] /\ (u.job = j => u.seq < sent'[j])
    BY <1>1, <1>2, <1>3 DEF Numbered
  <1>7. rec[j].seq < sent'[j]
    BY <1>1, <1>3 DEF Numbered
  <1>8. QED
    BY <1>1, <1>2, <1>3, <1>4, <1>5, <1>6, <1>7 DEF Send

\* The effect of an update that is applied or lost.
LEMMA UpdateEffect ==
  ASSUME TypeOK, NEW u \in flight, UpdateStep(u)
  PROVE  /\ u.job \in Jobs /\ u.seq \in Nat
         /\ flight' = flight \ {u}
         /\ UNCHANGED <<work, added, sent>>
         /\ \A j \in Jobs \ {u.job} : rec'[j] = rec[j]
         /\ \/ rec'[u.job] = rec[u.job] /\ disturbed' = disturbed \cup {u.job}
            \/ /\ rec'[u.job] = [status |-> u.status, made |-> u.made, seq |-> u.seq]
               /\ disturbed' = IF rec[u.job].seq < u.seq THEN disturbed ELSE disturbed \cup {u.job}
  BY DEF UpdateStep, ApplyUpdate, LoseUpdate, queueVars, TypeOK, Updates

\* No update is numbered above the last one sent for its job.
LEMMA NumberedStep ==
  ASSUME TypeOK, WorkOK, Idle, Numbered, [Next]_vars
  PROVE  Numbered'
  <1>1. CASE QuietStep
    BY <1>1 DEF QuietStep, recordVars, Numbered
  <1>2. ASSUME NEW j \in Jobs, NEW s, NEW m, Send(j, s, m) PROVE Numbered'
    <2>1. \A k \in Jobs : rec'[k].seq <= sent'[k]
      BY <1>2, SendEffect DEF Numbered
    <2>2. \A u \in flight' : u.seq <= sent'[u.job]
      BY <1>2, SendEffect
    <2>3. QED
      BY <2>1, <2>2 DEF Numbered
  <1>3. ASSUME NEW u \in flight, UpdateStep(u) PROVE Numbered'
    <2>1. u.seq <= sent[u.job] /\ sent' = sent
      BY <1>3, UpdateEffect DEF Numbered
    <2>2. ASSUME NEW j \in Jobs PROVE rec'[j].seq <= sent'[j]
      <3>1. \/ rec'[j] = rec[j]
            \/ j = u.job /\ rec'[j] = [status |-> u.status, made |-> u.made, seq |-> u.seq]
        BY <1>3, UpdateEffect
      <3>2. QED
        BY <2>1, <3>1 DEF Numbered
    <2>3. \A v \in flight' : v.seq <= sent'[v.job]
      BY <1>3, <2>1, UpdateEffect DEF Numbered
    <2>4. QED
      BY <2>2, <2>3 DEF Numbered
  <1>4. QED
    BY <1>1, <1>2, <1>3, StepKinds DEF QueuedStep, ReportStep

\* The last update of a job is only lost, or passed, with the job disturbed.
LEMMA LastKeptStep ==
  ASSUME TypeOK, WorkOK, Idle, Numbered, LastKept, [Next]_vars
  PROVE  LastKept'
  <1>1. CASE QuietStep
    BY <1>1 DEF QuietStep, recordVars, LastKept
  <1>2. ASSUME NEW j \in Jobs, NEW s, NEW m, Send(j, s, m), disturbed \subseteq disturbed'
        PROVE  LastKept'
    <2>1. PICK n : /\ flight' = flight \cup {n}
                   /\ n.job = j /\ n.seq = sent'[j]
      BY <1>2, SendEffect
    <2>2. ASSUME NEW k \in Jobs \ disturbed'
          PROVE  rec'[k].seq = sent'[k] \/ \E u \in flight' : u.job = k /\ u.seq = sent'[k]
      <3>1. CASE k = j
        BY <2>1, <3>1
      <3>2. CASE k # j
        BY <1>2, <2>1, <3>2, SendEffect DEF LastKept
      <3>3. QED
        BY <3>1, <3>2
    <2>3. QED
      BY <2>2 DEF LastKept
  <1>3. ASSUME NEW u \in flight, UpdateStep(u) PROVE LastKept'
    <2>1. ASSUME NEW j \in Jobs \ disturbed'
          PROVE  rec'[j].seq = sent'[j] \/ \E v \in flight' : v.job = j /\ v.seq = sent'[j]
      <3>1. sent' = sent /\ flight' = flight \ {u} /\ j \in Jobs \ disturbed
        BY <1>3, UpdateEffect
      <3>2. CASE j # u.job
        BY <1>3, <3>1, <3>2, UpdateEffect DEF LastKept
      <3>3. CASE j = u.job
        <4>1. rec[j].seq < u.seq /\ rec'[j].seq = u.seq
          <5>1. /\ rec'[j] = [status |-> u.status, made |-> u.made, seq |-> u.seq]
                /\ disturbed' = IF rec[j].seq < u.seq THEN disturbed ELSE disturbed \cup {j}
            BY <1>3, <3>3, UpdateEffect
          <5>2. QED
            BY <5>1
        <4>2. /\ rec[j].seq \in Nat /\ u.seq \in Nat /\ sent[j] \in Nat
              /\ u.seq <= sent[j]
          BY <3>3 DEF TypeOK, Records, Updates, Numbered
        <4>3. rec[j].seq # sent[j]
          BY <4>1, <4>2
        <4>4. PICK v \in flight : v.job = j /\ v.seq = sent[j]
          BY <3>1, <4>3 DEF LastKept
        <4>5. CASE v = u
          BY <3>1, <4>1, <4>4, <4>5
        <4>6. CASE v # u
          BY <3>1, <4>4, <4>6
        <4>7. QED
          BY <4>5, <4>6
      <3>4. QED
        BY <3>2, <3>3
    <2>2. QED
      BY <2>1 DEF LastKept
  <1>4. QED
    BY <1>1, <1>2, <1>3, StepKinds DEF QueuedStep, ReportStep

\* The step that ends a job sends its outcome, and nothing undisturbed follows.
LEMMA LastTellsStep ==
  ASSUME TypeOK, WorkOK, Idle, Numbered, LastTells, [Next]_vars
  PROVE  LastTells'
  <1> DEFINE Tells(j) ==
        /\ rec[j].seq = sent[j] => rec[j].status = Outcome(j) /\ rec[j].made = work[j].made
        /\ \A u \in flight : u.job = j /\ u.seq = sent[j] =>
             u.status = Outcome(j) /\ u.made = work[j].made
  <1> SUFFICES ASSUME NEW j \in Jobs \ disturbed', Ended(j)' PROVE Tells(j)'
    BY DEF LastTells
  <1>1. ASSUME Ended(j), j \notin disturbed PROVE work'[j] = work[j] /\ Tells(j)
    BY <1>1, StepOfQueue, QueueMonotone DEF LastTells
  <1>2. CASE QuietStep
    BY <1>1, <1>2 DEF QuietStep, recordVars, Ended, Outcome
  <1>3. ASSUME NEW k \in Jobs, NEW s, NEW m, Send(k, s, m), k # j, work'[j] = work[j],
               disturbed \subseteq disturbed'
        PROVE  Tells(j)'
    <2>1. PICK n : flight' = flight \cup {n} /\ n.job = k
      BY <1>3, SendEffect
    <2>2. Ended(j) /\ Tells(j) /\ Outcome(j)' = Outcome(j)
      BY <1>1, <1>3 DEF Ended, Outcome
    <2>3. rec'[j] = rec[j] /\ sent'[j] = sent[j]
      BY <1>3, SendEffect
    <2>4. QED
      BY <1>3, <2>1, <2>2, <2>3
  <1>4. ASSUME QueuedStep(j) PROVE FALSE
    BY <1>4 DEF QueuedStep, Idle, Ended
  <1>5. ASSUME NEW s, NEW m, ReportStep(j, s, m) PROVE Tells(j)'
    <2>1. PICK n : /\ flight' = flight \cup {n}
                   /\ n.job = j /\ n.status = s /\ n.made = m /\ n.seq = sent'[j]
      BY <1>5, SendEffect DEF ReportStep
    <2>2. s = Outcome(j)' /\ m = work'[j].made
      BY <1>5 DEF ReportStep
    <2>3. /\ rec'[j].seq < sent'[j] /\ rec'[j].seq \in Nat /\ sent'[j] \in Nat
          /\ \A u \in flight : u.job = j => u.seq < sent'[j] /\ u.seq \in Nat
      BY <1>5, SendEffect DEF ReportStep
    <2>4. rec'[j].seq # sent'[j] /\ \A u \in flight : u.job = j => u.seq # sent'[j]
      BY <2>3
    <2>5. QED
      BY <2>1, <2>2, <2>4
  <1>6. ASSUME NEW u \in flight, UpdateStep(u) PROVE Tells(j)'
    <2>1. work' = work /\ sent' = sent /\ flight' = flight \ {u} /\ j \notin disturbed
      BY <1>6, UpdateEffect
    <2>2. Tells(j) /\ Outcome(j)' = Outcome(j)
      BY <1>1, <2>1 DEF Ended, Outcome
    <2>3. \/ rec'[j] = rec[j]
          \/ j = u.job /\ rec'[j] = [status |-> u.status, made |-> u.made, seq |-> u.seq]
      BY <1>6, UpdateEffect
    <2>4. QED
      BY <2>1, <2>2, <2>3
  <1>7. ASSUME NEW k \in Jobs, QueuedStep(k) PROVE Tells(j)'
    BY <1>3, <1>4, <1>7 DEF QueuedStep
  <1>8. ASSUME NEW k \in Jobs, NEW s, NEW m, ReportStep(k, s, m) PROVE Tells(j)'
    BY <1>3, <1>5, <1>8 DEF ReportStep
  <1> HIDE DEF Tells
  <1>9. QED
    BY <1>2, <1>6, <1>7, <1>8, StepKinds

\* A final update is only sent for a job that ended, which no worker reports again.
LEMMA FinalLastStep ==
  ASSUME TypeOK, WorkOK, Idle, Claims, Numbered, FinalLast, [Next]_vars
  PROVE  FinalLast'
  <1>1. CASE QuietStep
    BY <1>1 DEF QuietStep, recordVars, FinalLast
  <1>2. ASSUME NEW j \in Jobs, NEW s, NEW m, Send(j, s, m), s = "queued" \/ ~Ended(j)
        PROVE  FinalLast'
    <2>1. PICK n : /\ flight' = flight \cup {n}
                   /\ n.job = j /\ n.status = s /\ n.seq = sent'[j]
      BY <1>2, SendEffect
    <2>2. rec' = rec
      BY <1>2, SendEffect
    <2>3. \A u \in flight : u.job = j => u.seq < n.seq /\ u.seq \in Nat /\ n.seq \in Nat
      BY <1>2, <2>1, SendEffect
    <2>4. ASSUME s # "queued"
          PROVE  ~FinalRecord(rec[j]) /\ \A u \in flight : u.job = j => ~FinalRecord(u)
      BY <1>2, <2>4 DEF Claims, Claim, FinalRecord, Ended
    <2>5. ASSUME NEW u \in flight', FinalRecord(rec'[u.job]), rec'[u.job].seq <= u.seq
          PROVE  u.status = "queued"
      BY <2>1, <2>2, <2>4, <2>5 DEF FinalLast
    <2>6. ASSUME NEW u \in flight', NEW v \in flight', u # v, u.job = v.job, FinalRecord(v),
                 v.seq <= u.seq
          PROVE  u.status = "queued"
      <3>1. CASE v = n
        BY <2>1, <2>3, <2>6, <3>1
      <3>2. CASE v # n /\ u = n
        BY <2>1, <2>4, <2>6, <3>2
      <3>3. CASE v # n /\ u # n
        BY <2>1, <2>6, <3>3 DEF FinalLast
      <3>4. QED
        BY <3>1, <3>2, <3>3
    <2>7. QED
      BY <2>5, <2>6 DEF FinalLast
  <1>3. ASSUME NEW u \in flight, UpdateStep(u) PROVE FinalLast'
    <2>1. flight' = flight \ {u}
      BY <1>3, UpdateEffect
    <2>2. ASSUME NEW v \in flight', FinalRecord(rec'[v.job]), rec'[v.job].seq <= v.seq
          PROVE  v.status = "queued"
      <3>1. \/ rec'[v.job] = rec[v.job]
            \/ /\ v.job = u.job
               /\ rec'[v.job] = [status |-> u.status, made |-> u.made, seq |-> u.seq]
        BY <1>3, <2>1, UpdateEffect DEF TypeOK, Updates
      <3>2. QED
        BY <2>1, <2>2, <3>1 DEF FinalLast, FinalRecord
    <2>3. QED
      BY <2>1, <2>2 DEF FinalLast
  <1>4. QED
    BY <1>1, <1>2, <1>3, StepKinds DEF QueuedStep, ReportStep

(***************************************************************************)
(* The theorems.                                                           *)
(***************************************************************************)

\* The inductive invariant.
IInv == TypeOK /\ WorkOK /\ Idle /\ Claims /\ Numbered /\ LastKept /\ LastTells /\ FinalLast

\* Every state satisfies the inductive invariant.
THEOREM IInvHolds == Spec => []IInv
  <1>1. Init => IInv
    <2> SUFFICES ASSUME Init PROVE IInv
      OBVIOUS
    <2>1. TypeOK /\ WorkOK
      BY InitType
    <2>2. \A j \in Jobs : work[j].state = "waiting" /\ work[j].made = 0
      BY DEF Init, WorkInit
    <2>3. /\ \A j \in Jobs : rec[j].status = "none" /\ rec[j].made = 0 /\ rec[j].seq = 0
          /\ flight = {} /\ \A j \in Jobs : sent[j] = 0
      BY DEF Init
    <2>4. Idle /\ Claims
      BY <2>2, <2>3 DEF Idle, Claims, Claim
    <2>5. Numbered /\ LastKept /\ FinalLast
      BY <2>3 DEF Numbered, LastKept, FinalLast
    <2>6. LastTells
      BY <2>2 DEF LastTells, Ended
    <2>7. QED
      BY <2>1, <2>4, <2>5, <2>6 DEF IInv
  <1>2. IInv /\ [Next]_vars => IInv'
    BY TypeStep, IdleStep, ClaimsStep, NumberedStep, LastKeptStep, LastTellsStep, FinalLastStep
       DEF IInv
  <1>3. QED
    BY <1>1, <1>2, PTL DEF Spec

\* A record that says completed or dead_letter is true of its job, whatever updates
\* were lost, refused or applied out of order.
THEOREM FinalClaimsHold == Spec => []FinalClaimsAreTrue
  <1>1. IInv => FinalClaimsAreTrue
    BY DEF IInv, Claims, Claim, FinalClaimsAreTrue
  <1>2. QED
    BY <1>1, IInvHolds, PTL

\* A record never counts an attempt that its job has not made.
THEOREM AttemptsHold == Spec => []AttemptsNeverAhead
  <1>1. IInv => AttemptsNeverAhead
    BY DEF IInv, Claims, Claim, AttemptsNeverAhead
  <1>2. QED
    BY <1>1, IInvHolds, PTL

\* The record of an ended job whose updates were applied once and in order has the
\* outcome of the job and its attempts.
THEOREM OrderedUpdatesSettleHolds == Spec => []OrderedUpdatesSettle
  <1>1. IInv => OrderedUpdatesSettle
    <2> SUFFICES ASSUME IInv, NEW j \in added \ disturbed, Ended(j), Settled(j)
                 PROVE  rec[j].status = Outcome(j) /\ rec[j].made = work[j].made
      BY DEF OrderedUpdatesSettle
    <2>1. j \in Jobs \ disturbed
      BY DEF IInv, TypeOK
    <2>2. rec[j].seq = sent[j]
      BY <2>1 DEF IInv, LastKept, Settled
    <2>3. QED
      BY <2>1, <2>2 DEF IInv, LastTells
  <1>2. QED
    BY <1>1, IInvHolds, PTL

\* A final record is overwritten only by an update that was sent before the final
\* one, or by onEnqueued.
THEOREM FinalOnlyLostToLateUpdateHolds == Spec => FinalOnlyLostToLateUpdate
  <1>1. IInv /\ [Next]_vars =>
          [\A j \in Jobs : FinalRecord(rec[j]) /\ rec'[j] # rec[j] =>
             rec'[j].seq < rec[j].seq \/ rec'[j].status = "queued"]_vars
    <2> SUFFICES ASSUME IInv, [Next]_vars, NEW j \in Jobs, FinalRecord(rec[j]), rec'[j] # rec[j]
                 PROVE  rec'[j].seq < rec[j].seq \/ rec'[j].status = "queued"
      OBVIOUS
    <2>1. PICK u \in flight : UpdateStep(u)
      BY StepKinds DEF IInv, QuietStep, recordVars, QueuedStep, ReportStep, Send
    <2>2. j = u.job /\ rec'[j] = [status |-> u.status, made |-> u.made, seq |-> u.seq]
      BY <2>1, UpdateEffect DEF IInv
    <2>3. rec[j].seq \in Nat /\ u.seq \in Nat
      BY DEF IInv, TypeOK, Records, Updates
    <2>4. u.seq < rec[j].seq \/ u.status = "queued"
      BY <2>2, <2>3 DEF IInv, FinalLast
    <2>5. QED
      BY <2>2, <2>4
  <1>2. QED
    BY <1>1, IInvHolds, PTL DEF Spec, FinalOnlyLostToLateUpdate

(***************************************************************************)
(* The exact cause of the records that miss the end of their job.          *)
(***************************************************************************)

\* While nothing fails, a job is active exactly while the slot that holds its lock
\* runs it, none stalls, and one only fails with its attempts used up.
CalmJob(j) ==
  /\ work[j].stalled = 0
  /\ work[j].state = "active" => \E w \in Workers : work[j].owner = w /\ run[w] = j
  /\ work[j].state = "failed" => work[j].made >= MaxAttempts

Calm ==
  faults = 0 =>
    /\ \A j \in Jobs : CalmJob(j)
    /\ \A w \in Workers : run[w] # NoJob => Owns(w, run[w])

\* Every step that is not a failure keeps it.
LEMMA CalmStep ==
  ASSUME TypeOK, WorkOK, Calm, [Next]_vars
  PROVE  Calm'
  <1> SUFFICES ASSUME faults' = 0
               PROVE  Calm'
    BY DEF Calm
  <1>1. /\ work \in [Jobs -> Work] /\ run \in [Workers -> Jobs \cup {NoJob}]
        /\ \A j \in Jobs : work[j].made \in 0..MaxAttempts
    BY DEF TypeOK, Work
  <1>2. \A j \in Jobs : ~GivenUp(j) \/ work[j].stalled # 0
    BY AttemptsAssumption DEF GivenUp
  <1>3. ~Fault
    BY LifecycleAssumption DEF Fault, TypeOK
  <1>4. /\ faults = 0
        /\ \A j \in Jobs : CalmJob(j)
        /\ \A w \in Workers : run[w] # NoJob => Owns(w, run[w])
    <2>1. faults = 0
      BY <1>3 DEF Next, vars, queueVars, Enqueue, StalledDead, StalledSlow, CompleteJob, FailJob,
                  WorkerStops, TakeJob, ApplyUpdate, LoseUpdate, Drained, Fault, TypeOK
    <2>2. QED
      BY <2>1 DEF Calm
  <1>5. ASSUME UNCHANGED <<work, run>> PROVE Calm'
    BY <1>4, <1>5 DEF Calm, CalmJob, Owns
  <1>6. ASSUME NEW w \in Workers, NEW j \in Jobs, TakeJob(w, j) PROVE Calm'
    <2>1. /\ faults = 0 /\ run[w] = NoJob /\ run' = [run EXCEPT ![w] = j]
          /\ work[j].state = "waiting"
          /\ work' = [work EXCEPT ![j].state = "active", ![j].owner = w]
      BY <1>6 DEF TakeJob, Take
    <2>2. /\ work'[j].state = "active" /\ work'[j].owner = w /\ work'[j].stalled = work[j].stalled
          /\ \A k \in Jobs \ {j} : work'[k] = work[k]
      BY <1>1, <2>1 DEF Work
    <2>3. run'[w] = j /\ \A v \in Workers \ {w} : run'[v] = run[v] /\ run[v] # j
      BY <1>1, <1>4, <2>1, NoJobAssumption DEF Owns
    <2>4. ASSUME NEW k \in Jobs PROVE CalmJob(k)'
      BY <1>1, <1>4, <2>1, <2>2, <2>3, <2>4, NoJobAssumption DEF CalmJob
    <2>5. ASSUME NEW v \in Workers PROVE (run[v] # NoJob => Owns(v, run[v]))'
      BY <1>1, <1>4, <2>1, <2>2, <2>3, <2>5 DEF Owns
    <2>6. QED
      BY <2>4, <2>5 DEF Calm
  <1>7. ASSUME NEW w \in Workers, CompleteJob(w) \/ FailJob(w) PROVE Calm'
    <2>1. PICK j \in Jobs : j = run[w]
      BY <1>1, <1>7 DEF CompleteJob, FailJob
    <2>2. /\ faults = 0 /\ Owns(w, j) /\ run' = [run EXCEPT ![w] = NoJob]
          /\ Complete(w, j) \/ Fail(w, j)
      BY <1>4, <1>7, <2>1 DEF CompleteJob, FailJob
    <2>3. ~GivenUp(j)
      BY <1>2, <1>4 DEF CalmJob
    <2>4. /\ work'[j].state \in {"completed", "waiting"} \/ work'[j].made >= MaxAttempts
          /\ work'[j].state # "active" /\ work'[j].stalled = work[j].stalled
          /\ \A k \in Jobs \ {j} : work'[k] = work[k]
      <3>1. CASE Complete(w, j)
        BY <1>1, <2>2, <3>1 DEF Complete, Work
      <3>2. CASE Fail(w, j)
        <4>1. work' = [work EXCEPT ![j].state = IF LastTry(j) THEN "failed" ELSE "waiting",
                                   ![j].made = @ + 1]
          BY <2>2, <2>3, <3>2 DEF Fail
        <4>2. /\ work'[j].state = IF LastTry(j) THEN "failed" ELSE "waiting"
              /\ work'[j].made = work[j].made + 1 /\ work'[j].stalled = work[j].stalled
              /\ \A k \in Jobs \ {j} : work'[k] = work[k]
          BY <1>1, <4>1 DEF Work
        <4>3. QED
          BY <4>2 DEF LastTry
      <3>3. QED
        BY <2>2, <3>1, <3>2
    <2>5. run'[w] = NoJob /\ \A v \in Workers \ {w} : run'[v] = run[v] /\ run[v] # j
      BY <1>1, <1>4, <2>2, NoJobAssumption DEF Owns
    <2>6. ASSUME NEW k \in Jobs PROVE CalmJob(k)'
      BY <1>1, <1>4, <2>1, <2>2, <2>4, <2>5, NoJobAssumption DEF CalmJob
    <2>7. ASSUME NEW v \in Workers PROVE (run[v] # NoJob => Owns(v, run[v]))'
      BY <1>1, <1>4, <2>2, <2>4, <2>5, <2>7 DEF Owns
    <2>8. QED
      BY <2>6, <2>7 DEF Calm
  <1>8. ASSUME NEW j \in Jobs, StalledDead(j) PROVE FALSE
    BY <1>4, <1>8 DEF StalledDead, PutBack, CalmJob
  <1>9. ASSUME \/ \E w \in Workers : WorkerStops(w)
               \/ \E j \in Jobs : StalledSlow(j)
               \/ \E u \in flight : LoseUpdate(u)
        PROVE  FALSE
    BY <1>3, <1>9 DEF WorkerStops, StalledSlow, LoseUpdate
  <1>10. QED
    BY <1>5, <1>6, <1>7, <1>8, <1>9
       DEF Next, Enqueue, ApplyUpdate, Drained, vars, queueVars

\* While nothing fails, the record of an ended job misses its end only when the job was
\* added again, or an update of it was refused or applied after a later one.
THEOREM OnlyDisorderHidesEnds ==
  Spec => [](faults = 0 => \A j \in added \ disturbed :
                             Ended(j) /\ Settled(j) =>
                               rec[j].status \in {"completed", "dead_letter"})
  <1>1. Init => Calm
    <2> SUFFICES ASSUME Init PROVE Calm
      OBVIOUS
    <2>1. \A j \in Jobs : work[j].state = "waiting" /\ work[j].stalled = 0
      BY DEF Init, WorkInit
    <2>2. \A w \in Workers : run[w] = NoJob
      BY DEF Init
    <2>3. QED
      BY <2>1, <2>2 DEF Calm, CalmJob
  <1>2. IInv /\ Calm /\ [Next]_vars => Calm'
    BY CalmStep DEF IInv
  <1>3. TypeOK /\ Calm /\ OrderedUpdatesSettle =>
          (faults = 0 => \A j \in added \ disturbed :
             Ended(j) /\ Settled(j) => rec[j].status \in {"completed", "dead_letter"})
    BY DEF TypeOK, Calm, CalmJob, OrderedUpdatesSettle, Outcome, DeadLetter, Ended
  <1>4. QED
    BY <1>1, <1>2, <1>3, IInvHolds, TypeCorrect, OrderedUpdatesSettleHolds, PTL DEF Spec
=============================================================================
