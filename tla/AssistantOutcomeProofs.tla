----------------------- MODULE AssistantOutcomeProofs -----------------------
(***************************************************************************)
(* Proof that the assistant guarantees what the webhook pipeline assumes   *)
(* of it: AssistantPipeline implements the AssistantOutcome whose steps    *)
(* WebhookPipeline takes for the assistant's.                              *)
(***************************************************************************)
EXTENDS AssistantProofs

USE DEF eventVars, historyVars

\* The steps that touch the status of an event, and those that hand one over.
LEMMA StatusKinds ==
  ASSUME TypeInv, [Next]_vars
  PROVE  \/ UNCHANGED <<eventVars, tasks>>
         \/ \E m \in Messages : RouteMessage(m) \/ RouteFails(m) \/ EventActs(m)
         \/ \E w \in Workers : MarkProcessed(w) \/ MarkFailed(w)
  <1>1. ASSUME NEW w \in Workers, ServiceStep(w) \/ CompleteTask(w) \/ FailTask(w) \/ WorkerFault(w)
        PROVE  UNCHANGED <<eventVars, tasks>>
    BY <1>1 DEF ServiceStep, FindRun, ReadProfile, SearchRefused, Decide, CreateAppointment,
                CreateOrder, OrderRefused, RecordRun, RunRefused, CountUsage, CounterRefused,
                AddReply, CompleteTask, FailTask, WorkerFault, AwaitFails, MarkFailedFails,
                WorkerStops, queueVars
  <1>2. ASSUME NEW m \in Messages, StalledDead(m) \/ StalledSlow(m) \/ \E w \in Workers : TakeTask(w, m)
        PROVE  UNCHANGED <<eventVars, tasks>>
    BY <1>2 DEF StalledDead, StalledSlow, TakeTask
  <1>3. ASSUME NEW t \in Tenants, TenantActs(t) PROVE UNCHANGED <<eventVars, tasks>>
    BY <1>3 DEF TenantActs, ApiCreatesOrder, UpdateProfile, queueVars
  <1>4. CASE UNCHANGED vars
    BY <1>4 DEF vars, queueVars
  <1>5. QED
    BY <1>1, <1>2, <1>3, <1>4 DEF Next, WorkerStep, QueueActs, Drained

\* A run that is to return does nothing else, unless its worker stops.
LEMMA ReturnMoves ==
  ASSUME TypeInv, [Next]_vars, NEW v \in Workers, run[v].step = "return"
  PROVE  run'[v] = run[v] \/ CompleteTask(v) \/ WorkerStops(v)
  <1>1. run \in [Workers -> Run]
    BY DEF TypeInv, TypeOK
  <1>2. ASSUME NEW w \in Workers, w # v, WorkerStep(w) \/ WorkerFault(w) PROVE run'[v] = run[v]
    BY <1>2, RunSteps, OtherRunSteps DEF WorkerStep, WorkerFault, Others
  <1>3. ASSUME WorkerStep(v) \/ WorkerFault(v) PROVE CompleteTask(v) \/ WorkerStops(v)
    BY <1>3 DEF WorkerStep, WorkerFault, ServiceStep, FindRun, ReadProfile, SearchRefused, Decide,
                CreateAppointment, CreateOrder, OrderRefused, RecordRun, RunRefused, CountUsage,
                CounterRefused, AddReply, MarkProcessed, MarkFailed, FailTask, AwaitFails,
                MarkFailedFails, At, NextCount, TryBlock
  <1>4. ASSUME NEW m \in Messages, QueueActs(m) \/ EventActs(m) PROVE run'[v] = run[v]
    BY <1>1, <1>4 DEF QueueActs, RouteMessage, RouteFails, StalledDead, StalledSlow, TakeTask,
                      At, EventActs, MarkQueued, WebhookMarksFailed, EventExpires
  <1>5. ASSUME NEW t \in Tenants, TenantActs(t) PROVE run'[v] = run[v]
    BY <1>5 DEF TenantActs, ApiCreatesOrder, UpdateProfile
  <1>6. CASE UNCHANGED vars
    BY <1>6 DEF vars
  <1>7. QED
    BY <1>2, <1>3, <1>4, <1>5, <1>6 DEF Next, Drained

\* A task that completed stays completed.
LEMMA CompletedStays ==
  ASSUME TypeInv, [Next]_vars, NEW m \in Messages, Completed(m)
  PROVE  Completed(m)'
  BY TaskKinds DEF LeavesTasks, GoesOn, EndsRun, StartsRun, PutsBack, Completed, Queue!Owns

\* Until something fails, the task of an event found processed completed or is about to.
KeptOK ==
  faults = 0 => \A m \in Messages : status[m] = "processed" =>
    \/ Completed(m)
    \/ \E w \in Workers : run[w].step = "return" /\ run[w].message = m

\* Who marks an event then is the only run of its task, and finds it not processed yet.
LEMMA MarksOnce ==
  ASSUME TypeInv, OwnedOK, CalmOK, KeptOK, faults = 0,
         NEW w \in Workers, MarkProcessed(w) \/ MarkFailed(w)
  PROVE  status[run[w].message] # "processed"
  <1> DEFINE m == run[w].message
  <1>1. run[w].step \in {"mark", "catch"} /\ m \in Messages /\ overtaken = {}
    BY DEF MarkProcessed, MarkFailed, At, TypeInv, TypeOK, ShapeOK, CalmOK
  <1>2. Queue!Owns(w, m)
    BY <1>1 DEF OwnedOK
  <1>3. ~Completed(m)
    BY <1>2 DEF Completed, Queue!Owns
  <1>4. ASSUME NEW v \in Workers, run[v].step = "return", run[v].message = m PROVE FALSE
    BY <1>1, <1>4, OneRun
  <1>5. QED
    BY <1>1, <1>3, <1>4 DEF KeptOK

LEMMA KeptStep == TypeInv /\ OwnedOK /\ CalmOK /\ KeptOK /\ [Next]_vars => KeptOK'
  <1> SUFFICES ASSUME TypeInv, OwnedOK, CalmOK, KeptOK, [Next]_vars, faults' = 0,
                      NEW m \in Messages, status'[m] = "processed"
               PROVE  \/ Completed(m)'
                      \/ \E w \in Workers : run'[w].step = "return" /\ run'[w].message = m
    BY DEF KeptOK
  <1> DEFINE Goal == \/ Completed(m)'
                     \/ \E w \in Workers : run'[w].step = "return" /\ run'[w].message = m
  <1>1. /\ faults = 0 /\ overtaken = {}
        /\ run \in [Workers -> Run] /\ Queue!WorkOK
        /\ status \in [Messages -> {"received", "queued", "processed", "failed", "expired"}]
    <2>1. faults \in Nat /\ faults' \in {faults, faults + 1}
      BY TaskKinds DEF TypeInv, TypeOK, LeavesTasks, GoesOn, EndsRun, StartsRun, PutsBack, Others
    <2>2. faults = 0
      BY <2>1
    <2>3. QED
      BY <2>2 DEF CalmOK, TypeInv, TypeOK
  <1>2. ASSUME status[m] = "processed" PROVE Goal
    <2>1. ASSUME NEW w \in Workers, run[w].step = "return", run[w].message = m PROVE Goal
      <3>1. CASE CompleteTask(w)
        <4>1. Queue!Complete(w, m) /\ Queue!Owns(w, m)
          BY <1>1, <2>1, <3>1 DEF CompleteTask, Msg, OwnedOK
        <4>2. QED
          BY <1>1, <4>1, QueueMoves DEF Completed
      <3>2. ~WorkerStops(w)
        BY <1>1 DEF WorkerStops, Fault
      <3>3. QED
        BY <2>1, <3>1, <3>2, ReturnMoves
    <2>2. QED
      BY <1>1, <1>2, <2>1, CompletedStays DEF KeptOK
  <1>3. ASSUME status[m] # "processed" PROVE Goal
    <2>1. PICK w \in Workers : MarkProcessed(w) \/ MarkFailed(w)
      BY <1>1, <1>3, StatusKinds DEF RouteMessage, RouteFails, EventActs, MarkQueued,
                                     WebhookMarksFailed, EventExpires, Rewrite
    <2>2. MarkProcessed(w) /\ run[w].message = m
      BY <1>1, <1>3, <2>1 DEF MarkProcessed, MarkFailed, Mark, Msg
    <2>3. RunTo(w, "return")
      BY <1>1, <2>2 DEF MarkProcessed, Taken, Fault
    <2>4. QED
      BY <1>1, <2>2, <2>3, RunMoves DEF Steps
  <1>4. QED
    BY <1>2, <1>3

\* Every step hands an event over, writes one that was handed over, rewrites or removes
\* one, or does none of this.
LEMMA OutcomeStep ==
  ASSUME TypeInv, OwnedOK, CalmOK, KeptOK, [Next]_vars
  PROVE  Outcome!Next
  <1>1. /\ faults \in Nat /\ tasks \subseteq Messages
        /\ status \in [Messages -> {"received", "queued", "processed", "failed", "expired"}]
    BY DEF TypeInv, TypeOK
  <1>2. faults' = 0 => faults = 0
    <2>1. faults' \in {faults, faults + 1}
      BY TaskKinds DEF LeavesTasks, GoesOn, EndsRun, StartsRun, PutsBack, Others
    <2>2. QED
      BY <1>1, <2>1
  <1>3. ASSUME NEW m \in Messages, RouteMessage(m) \/ RouteFails(m)
        PROVE  Outcome!Hand(m) \/ UNCHANGED <<status, tasks, rewritten>>
    BY <1>3 DEF RouteMessage, RouteFails, Outcome!Hand
  <1>4. ASSUME NEW m \in Messages, EventActs(m) PROVE Outcome!Expire(m) \/ Outcome!Rewrite(m)
    <2>1. CASE EventExpires(m)
      BY <2>1 DEF EventExpires, Outcome!Expire, queueVars
    <2>2. CASE MarkQueued(m)
      <3>1. status[m] # "expired" /\ status[m] # "none"
        BY <1>1, <2>2 DEF MarkQueued, Rewrite
      <3>2. QED
        BY <2>2, <3>1 DEF MarkQueued, Rewrite, Outcome!Rewrite, Outcome!Becomes, queueVars
    <2>3. CASE WebhookMarksFailed(m)
      <3>1. status[m] # "expired" /\ status[m] # "none" /\ faults' # 0
        BY <1>1, <2>3 DEF WebhookMarksFailed, Rewrite, Fault
      <3>2. QED
        BY <2>3, <3>1
           DEF WebhookMarksFailed, Rewrite, Outcome!Rewrite, Outcome!Becomes, queueVars
    <2>4. QED
      BY <1>4, <2>1, <2>2, <2>3 DEF EventActs
  <1>5. ASSUME NEW w \in Workers, NEW m, m = run[w].message, MarkProcessed(w) \/ MarkFailed(w)
        PROVE  /\ m \in Messages /\ Outcome!Write(m) /\ UNCHANGED tasks
               /\ rewritten' = rewritten \ {m}
    <2>1. m \in tasks /\ m \in Messages /\ UNCHANGED tasks
      BY <1>1, <1>5 DEF MarkProcessed, MarkFailed, At, TypeInv, ShapeOK, queueVars
    <2>2. PICK s \in {"processed", "failed"} : Mark(m, s)
      BY <1>5 DEF MarkProcessed, MarkFailed, Msg
    <2>3. status[m] = "processed" => faults' # 0
      BY <1>2, <1>5, MarksOnce
    <2>4. QED
      BY <1>1, <2>1, <2>2, <2>3 DEF Mark, Outcome!Write, Outcome!Becomes
  <1>6. QED
    BY <1>2, <1>3, <1>4, <1>5, StatusKinds DEF Outcome!Next

\* What WebhookPipeline assumes of the assistant, it guarantees: only events handed over
\* are written, and until something fails none that was found processed, however many
\* slots take tasks and stalled checks run.
THEOREM AssistantOutcomeRefinement == Spec => ImplementsOutcome
  <1>1. Init => OwnedOK /\ CalmOK /\ KeptOK /\ Outcome!Init
    <2> SUFFICES ASSUME Init PROVE OwnedOK /\ CalmOK /\ KeptOK /\ Outcome!Init
      OBVIOUS
    <2>1. \A w \in Workers : run[w].step = "idle"
      BY DEF Init, Idle
    <2>2. \A m \in Messages : work[m].stalled = 0 /\ work[m].state = "waiting"
      BY DEF Init, Queue!WorkInit
    <2>3. QED
      BY <2>1, <2>2 DEF Init, OwnedOK, CalmOK, KeptOK, Outcome!Init
  <1>2. TypeInv /\ OwnedOK /\ CalmOK /\ KeptOK /\ [Next]_vars
          => [Outcome!Next]_<<status, tasks, rewritten, faults = 0>>
    BY OutcomeStep
  <1>3. QED
    BY <1>1, <1>2, InitInv, TypeStep, OwnedStep, CalmStep, KeptStep, PTL
       DEF Spec, ImplementsOutcome, Outcome!Spec
=============================================================================
