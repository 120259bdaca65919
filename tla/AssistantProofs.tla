--------------------------- MODULE AssistantProofs ---------------------------
(***************************************************************************)
(* Proofs of the safety of the assistant, and that it keeps its promise,   *)
(* for any number of messages, tenants and worker slots and every bound on *)
(* attempts, stalls, failures and profile updates.                         *)
(***************************************************************************)
EXTENDS AssistantPipeline, TLAPS

QueueProofs == INSTANCE JobQueueProofs WITH Jobs <- Messages

USE DEF eventVars, historyVars

(***************************************************************************)
(* The queue.                                                              *)
(***************************************************************************)

QueueStep ==
  \/ UNCHANGED work
  \/ \E w \in Workers, m \in Messages :
       Queue!Take(w, m) \/ Queue!Complete(w, m) \/ Queue!Fail(w, m)
  \/ \E m \in Messages : Queue!PutBack(m)

\* The queue keeps its types, as its own proofs say.
LEMMA QueueType ==
  ASSUME Queue!WorkOK, QueueStep
  PROVE  Queue!WorkOK'
  <1> USE DEF Queue!WorkOK, QueueProofs!WorkOK, Queue!Work, QueueProofs!Work, Queue!JobStates,
              QueueProofs!JobStates, Queue!Ended, QueueProofs!Ended
  <1>1. QueueProofs!WorkOK
    OBVIOUS
  <1>2. QueueProofs!QueueStep
    BY DEF QueueStep, QueueProofs!QueueStep, Queue!Take, QueueProofs!Take, Queue!Complete,
           QueueProofs!Complete, Queue!Fail, QueueProofs!Fail, Queue!PutBack,
           QueueProofs!PutBack, Queue!Owns, QueueProofs!Owns, Queue!LastTry,
           QueueProofs!LastTry, Queue!GivenUp, QueueProofs!GivenUp
  <1>3. QueueProofs!WorkOK'
    BY <1>1, <1>2, QueueProofs!QueueType, NobodyAssumption, BoundsAssumption
  <1>4. QED
    BY <1>3

\* What an operation does to the task it is about.
LEMMA QueueMoves ==
  ASSUME Queue!WorkOK, NEW w \in Workers, NEW m \in Messages
  PROVE  /\ work \in [Messages -> Queue!Work]
         /\ Queue!Take(w, m) =>
              /\ work[m].state = "waiting" /\ work'[m].state = "active" /\ work'[m].owner = w
              /\ work'[m].stalled = work[m].stalled
              /\ \A n \in Messages \ {m} : work'[n] = work[n]
         /\ Queue!Complete(w, m) /\ Queue!Owns(w, m) =>
              /\ work'[m].state = "completed" /\ work'[m].stalled = work[m].stalled
              /\ \A n \in Messages \ {m} : work'[n] = work[n]
         /\ Queue!Fail(w, m) /\ Queue!Owns(w, m) =>
              /\ work'[m].state \in {"failed", "waiting"} /\ work'[m].stalled = work[m].stalled
              /\ \A n \in Messages \ {m} : work'[n] = work[n]
         /\ Queue!PutBack(m) =>
              /\ work[m].state = "active" /\ work'[m].state = "waiting"
              /\ \A n \in Messages \ {m} : work'[n] = work[n]
         /\ ~Queue!Owns(w, m) => /\ Queue!Complete(w, m) => UNCHANGED work
                                 /\ Queue!Fail(w, m) => UNCHANGED work
  <1>1. work \in [Messages -> Queue!Work] /\ work[m] \in Queue!Work
    BY DEF Queue!WorkOK
  <1>2. QED
    BY <1>1 DEF Queue!Work, Queue!Take, Queue!Complete, Queue!Fail, Queue!PutBack

(***************************************************************************)
(* Types.                                                                  *)
(***************************************************************************)

\* The steps after a decision and before the call of the service ends.
Resolved == {"appointment", "order", "record", "count1", "count2", "count3", "reply"}

\* What a run is doing has a message, a profile and an outcome when it needs them.
ShapeOK ==
  \A w \in Workers :
    /\ run[w].step # "idle" => run[w].message \in tasks
    /\ run[w].step = "idle" => run[w].message = NoMessage
    /\ run[w].step = "decide" => run[w].profile \in Profiles
    /\ run[w].step \in Resolved =>
         LET o == run[w].outcome  i == message[run[w].message] IN
         o \in Outcomes /\ o.decision \in Decided(i.text, i.answers)
    /\ run[w].step = "appointment" => run[w].outcome.action = "appointment.create"
    /\ run[w].step = "order" => run[w].outcome.action = "order.create"

\* How the actions move a run.
LEMMA RunMoves ==
  ASSUME run \in [Workers -> Run], NEW w \in Workers, NEW s \in Steps
  PROVE  /\ run[w] \in Run
         /\ RunTo(w, s) =>
              /\ run' \in [Workers -> Run] /\ run'[w].step = s
              /\ run'[w].message = run[w].message /\ run'[w].profile = run[w].profile
              /\ run'[w].outcome = run[w].outcome
              /\ \A v \in Workers \ {w} : run'[v] = run[v]
         /\ Leave(w, s) =>
              /\ run' \in [Workers -> Run] /\ run'[w].step = s
              /\ run'[w].message = run[w].message
              /\ \A v \in Workers \ {w} : run'[v] = run[v]
         /\ EndRun(w) =>
              /\ run' \in [Workers -> Run] /\ run'[w].step = "idle"
              /\ run'[w].message = NoMessage
              /\ \A v \in Workers \ {w} : run'[v] = run[v]
  <1>1. run[w] \in Run /\ Idle \in Run
    BY DEF Run, Idle, Steps
  <1>2. [run[w] EXCEPT !.step = s] \in Run
    BY <1>1 DEF Run
  <1>3. [Idle EXCEPT !.step = s, !.message = Msg(w)] \in Run
    BY <1>1 DEF Run, Msg
  <1>4. ASSUME RunTo(w, s)
        PROVE  /\ run' \in [Workers -> Run] /\ run'[w].step = s
               /\ run'[w].message = run[w].message /\ run'[w].profile = run[w].profile
               /\ run'[w].outcome = run[w].outcome
               /\ \A v \in Workers \ {w} : run'[v] = run[v]
    <2> DEFINE r == [run[w] EXCEPT !.step = s]
    <2>1. run' = [run EXCEPT ![w] = r]
      BY <1>4 DEF RunTo
    <2>2. /\ r \in Run /\ r.step = s /\ r.message = run[w].message
          /\ r.profile = run[w].profile /\ r.outcome = run[w].outcome
      BY <1>1, <1>2 DEF Run
    <2> HIDE DEF r
    <2>3. QED
      BY <2>1, <2>2
  <1>5. ASSUME Leave(w, s)
        PROVE  /\ run' \in [Workers -> Run] /\ run'[w].step = s
               /\ run'[w].message = run[w].message
               /\ \A v \in Workers \ {w} : run'[v] = run[v]
    <2> DEFINE r == [Idle EXCEPT !.step = s, !.message = Msg(w)]
    <2>1. run' = [run EXCEPT ![w] = r]
      BY <1>5 DEF Leave
    <2>2. r \in Run /\ r.step = s /\ r.message = run[w].message
      BY <1>3 DEF Idle, Msg
    <2> HIDE DEF r
    <2>3. QED
      BY <2>1, <2>2
  <1>6. ASSUME EndRun(w)
        PROVE  /\ run' \in [Workers -> Run] /\ run'[w].step = "idle"
               /\ run'[w].message = NoMessage
               /\ \A v \in Workers \ {w} : run'[v] = run[v]
    BY <1>1, <1>6 DEF EndRun, Idle
  <1>7. QED
    BY <1>1, <1>4, <1>5, <1>6

\* What the policy makes of a decision is an action, and one it allows.
LEMMA ResolvedActions ==
  ASSUME NEW d \in Decisions, NEW p \in Profiles
  PROVE  /\ ResolvedAction(d, p) \in Actions
         /\ ResolvedAction(d, p) = "appointment.create" => p.canCreateAppointments
         /\ ResolvedAction(d, p) = "order.create" => p.canCreateOrders
  <1>1. d.suggestedAction \in Actions /\ p.handoffEnabled \in BOOLEAN
    BY DEF Decisions, Profiles
  <1>2. CASE p.handoffEnabled /\ (LowConfidence(d, p) \/ Blocked(d, p))
    BY <1>2 DEF ResolvedAction, Actions
  <1>3. CASE ~p.handoffEnabled /\ Blocked(d, p)
    BY <1>3 DEF ResolvedAction, Actions
  <1>4. CASE ~(p.handoffEnabled /\ (LowConfidence(d, p) \/ Blocked(d, p))) /\ ~Blocked(d, p)
    BY <1>1, <1>4 DEF ResolvedAction, Blocked
  <1>5. QED
    BY <1>1, <1>2, <1>3, <1>4

\* Every decision is one, and never blank unless the language model's is.
LEMMA DecidedDecisions ==
  ASSUME NEW i \in Input
  PROVE  /\ Decided(i.text, i.answers) \subseteq Decisions
         /\ \A d \in Decided(i.text, i.answers) : d \in i.answers \/ ~d.blank
  <1>1. i.answers \subseteq Decisions
    BY DEF Input
  <1>2. HeuristicDecision(i.text) \in Decisions /\ ~HeuristicDecision(i.text).blank
    <2>1. PICK a \in Intents, b \in 0..100, c \in Actions :
            HeuristicDecision(i.text) = Decision(a, b, c)
      <3>1. \/ HeuristicDecision(i.text) = Decision("schedule_request", 89, "appointment.create")
            \/ HeuristicDecision(i.text) = Decision("order_request", 87, "order.create")
            \/ HeuristicDecision(i.text) = Decision("product_question", 80, "knowledge.answer")
            \/ HeuristicDecision(i.text) = Decision("support_question", 70, "message.reply")
            \/ HeuristicDecision(i.text) = Decision("fallback", 45, "human.handoff")
        BY DEF HeuristicDecision
      <3>2. QED
        BY <3>1 DEF Intents, Actions
    <2>2. QED
      BY <2>1 DEF Decision, Decisions
  <1>3. QED
    BY <1>1, <1>2 DEF Decided

\* Every step is one of the queue, or leaves the queue alone.
LEMMA StepOfQueue ==
  ASSUME TypeOK, ShapeOK, [Next]_vars
  PROVE  QueueStep
  <1>1. \A w \in Workers : run[w].step # "idle" => Msg(w) \in Messages
    BY DEF TypeOK, ShapeOK, Msg
  <1>2. ASSUME NEW w \in Workers, CompleteTask(w) \/ FailTask(w) PROVE QueueStep
    BY <1>1, <1>2 DEF CompleteTask, FailTask, At, QueueStep
  <1>3. ASSUME NEW w \in Workers, ServiceStep(w) \/ MarkProcessed(w) \/ MarkFailed(w)
                                                \/ WorkerFault(w)
        PROVE  UNCHANGED work
    BY <1>3 DEF ServiceStep, FindRun, ReadProfile, SearchRefused, Decide, CreateAppointment,
                CreateOrder, OrderRefused, RecordRun, RunRefused, CountUsage, CounterRefused,
                AddReply, MarkProcessed, MarkFailed, WorkerFault, AwaitFails, MarkFailedFails,
                WorkerStops, queueVars
  <1>4. ASSUME NEW m \in Messages, QueueActs(m) \/ EventActs(m) PROVE QueueStep
    BY <1>4 DEF QueueActs, RouteMessage, RouteFails, StalledDead, StalledSlow, TakeTask,
                EventActs, MarkQueued, WebhookMarksFailed, EventExpires, QueueStep, queueVars
  <1>5. ASSUME NEW t \in Tenants, TenantActs(t) PROVE UNCHANGED work
    BY <1>5 DEF TenantActs, ApiCreatesOrder, UpdateProfile, queueVars
  <1>6. QED
    BY <1>2, <1>3, <1>4, <1>5 DEF Next, WorkerStep, Drained, vars, queueVars, QueueStep

TypeInv == TypeOK /\ ShapeOK

\* A worker's step leaves the runs of the others and what is asked alone.
Others(w) ==
  /\ \A v \in Workers \ {w} : run'[v] = run[v]
  /\ UNCHANGED <<message, unmarked, profile, updates, tasks, inbound, overtaken>>
  /\ faults' \in {faults, faults + 1}

\* The run of w goes on as the shape demands.
Shaped(w) ==
  /\ run' \in [Workers -> Run]
  /\ run'[w].message = run[w].message
  /\ run'[w].step \notin {"idle", "decide"}
  /\ run'[w].step \in Resolved =>
       /\ run'[w].step \in {"record", "count1", "count2", "count3", "reply"}
       /\ run[w].step \in Resolved /\ run'[w].outcome = run[w].outcome

LEMMA ShapedIsOK ==
  ASSUME TypeInv, NEW w \in Workers, run[w].step # "idle", Others(w), Shaped(w)
  PROVE  ShapeOK'
  <1>1. /\ run[w].message \in tasks
        /\ run[w].step \in Resolved =>
             LET o == run[w].outcome  i == message[run[w].message] IN
             o \in Outcomes /\ o.decision \in Decided(i.text, i.answers)
    BY DEF TypeInv, ShapeOK
  <1>2. ASSUME NEW v \in Workers
        PROVE  /\ run'[v].step # "idle" => run'[v].message \in tasks
               /\ run'[v].step = "idle" => run'[v].message = NoMessage
               /\ run'[v].step = "decide" => run'[v].profile \in Profiles
               /\ run'[v].step \in Resolved =>
                    LET o == run'[v].outcome  i == message[run'[v].message] IN
                    o \in Outcomes /\ o.decision \in Decided(i.text, i.answers)
               /\ run'[v].step = "appointment" => run'[v].outcome.action = "appointment.create"
               /\ run'[v].step = "order" => run'[v].outcome.action = "order.create"
    <2>1. CASE v = w
      BY <1>1, <2>1 DEF Shaped, Resolved
    <2>2. CASE v # w
      BY <2>2 DEF Others, TypeInv, ShapeOK
    <2>3. QED
      BY <2>1, <2>2
  <1>3. UNCHANGED <<message, tasks>>
    BY DEF Others
  <1>4. QED
    BY <1>2, <1>3 DEF ShapeOK

\* The steps of a run that do not touch what others see of the effects.
LEMMA RunSteps ==
  ASSUME TypeInv, NEW w \in Workers,
         \/ ServiceStep(w) /\ ~ReadProfile(w) /\ ~Decide(w)
         \/ MarkProcessed(w) \/ MarkFailed(w) \/ AwaitFails(w) \/ MarkFailedFails(w)
  PROVE  run[w].step # "idle" /\ Others(w) /\ Shaped(w)
  <1> USE DEF TypeInv, Others, Shaped, NoFault, Fault, At, inputVars, queueVars, Steps, Resolved
  <1>1. run \in [Workers -> Run]
    BY DEF TypeOK
  <1> HIDE DEF TypeInv
  <1>2. CASE FindRun(w)
    BY <1>1, <1>2, RunMoves DEF FindRun
  <1>3. CASE SearchRefused(w) \/ OrderRefused(w) \/ RunRefused(w) \/ CounterRefused(w)
    BY <1>1, <1>3, RunMoves DEF SearchRefused, OrderRefused, RunRefused, CounterRefused, NextCount
  <1>4. CASE CreateAppointment(w) \/ CreateOrder(w)
    BY <1>1, <1>4, RunMoves DEF CreateAppointment, CreateOrder, Taken
  <1>5. CASE RecordRun(w)
    BY <1>1, <1>5, RunMoves DEF RecordRun, Taken
  <1>6. CASE CountUsage(w)
    BY <1>1, <1>6, RunMoves DEF CountUsage, Taken, NextCount
  <1>7. CASE AddReply(w)
    BY <1>1, <1>7, RunMoves DEF AddReply
  <1>8. CASE MarkProcessed(w)
    BY <1>1, <1>8, RunMoves DEF MarkProcessed, Taken
  <1>9. CASE MarkFailed(w) \/ MarkFailedFails(w)
    BY <1>1, <1>9, RunMoves DEF MarkFailed, MarkFailedFails
  <1>10. CASE AwaitFails(w)
    BY <1>1, <1>10, RunMoves DEF AwaitFails, TryBlock
  <1>11. QED
    BY <1>2, <1>3, <1>4, <1>5, <1>6, <1>7, <1>8, <1>9, <1>10 DEF ServiceStep

\* The decision of a run.
LEMMA DecideStep ==
  ASSUME TypeInv, NEW w \in Workers, Decide(w), NEW m, m = run[w].message
  PROVE  \E d \in Decided(message[m].text, message[m].answers) :
           LET a == ResolvedAction(d, run[w].profile) IN
           /\ run' \in [Workers -> Run] /\ run[w].step = "decide" /\ run'[w].message = m
           /\ run'[w].outcome = [decision |-> d, action |-> a] /\ run'[w].outcome \in Outcomes
           /\ run'[w].step = CASE a = "appointment.create" -> "appointment"
                               [] a = "order.create" -> "order"
                               [] OTHER -> "record"
  <1>1. /\ run \in [Workers -> Run] /\ run[w] \in Run /\ run[w].step = "decide"
        /\ run[w].profile \in Profiles /\ m \in Messages /\ message[m] \in Input
    BY InputsAssumption DEF TypeInv, TypeOK, ShapeOK, Decide, At
  <1>2. PICK d \in Decided(message[m].text, message[m].answers) :
          LET a == ResolvedAction(d, run[w].profile) IN
          run' = [run EXCEPT
                    ![w].step = CASE a = "appointment.create" -> "appointment"
                                  [] a = "order.create" -> "order"
                                  [] OTHER -> "record",
                    ![w].profile = Nothing,
                    ![w].outcome = [decision |-> d, action |-> a]]
    BY DEF Decide, Msg
  <1> DEFINE a == ResolvedAction(d, run[w].profile)
             o == [decision |-> d, action |-> a]
             s == CASE a = "appointment.create" -> "appointment"
                    [] a = "order.create" -> "order"
                    [] OTHER -> "record"
             r == [run[w] EXCEPT !.step = s, !.profile = Nothing, !.outcome = o]
  <1>3. d \in Decisions /\ a \in Actions /\ o \in Outcomes
    BY <1>1, DecidedDecisions, ResolvedActions DEF Outcomes
  <1>4. run' = [run EXCEPT ![w] = r] /\ s \in Steps
    BY <1>1, <1>2 DEF Steps
  <1> HIDE DEF s, o, a
  <1>5. r \in Run /\ r.step = s /\ r.outcome = o /\ r.message = m
    BY <1>1, <1>3, <1>4 DEF Run
  <1> HIDE DEF r
  <1>6. run' \in [Workers -> Run] /\ run'[w] = r
    BY <1>1, <1>4, <1>5
  <1>7. QED
    BY <1>1, <1>3, <1>5, <1>6 DEF s, o, a

\* A run that ends, or reads or decides, keeps its shape.
LEMMA OtherRunSteps ==
  ASSUME TypeInv, NEW w \in Workers,
         ReadProfile(w) \/ Decide(w) \/ CompleteTask(w) \/ FailTask(w) \/ WorkerStops(w)
  PROVE  run[w].step # "idle" /\ Others(w) /\ run' \in [Workers -> Run] /\ ShapeOK'
  <1> USE DEF Others, NoFault, Fault, At, inputVars, queueVars, Steps, Resolved
  <1>1. run \in [Workers -> Run] /\ run[w] \in Run /\ (run[w].step # "idle" => run[w].message \in tasks)
    BY DEF TypeInv, TypeOK, ShapeOK
  <1>2. CASE CompleteTask(w) \/ FailTask(w) \/ WorkerStops(w)
    <2>1. /\ run[w].step # "idle" /\ Others(w) /\ run' \in [Workers -> Run]
          /\ run'[w].step = "idle" /\ run'[w].message = NoMessage
      BY <1>1, <1>2, RunMoves DEF CompleteTask, FailTask, WorkerStops
    <2>2. QED
      BY <2>1 DEF TypeInv, ShapeOK
  <1>3. CASE ReadProfile(w)
    <2> DEFINE p == profile[Tenant(w)]
               r == [run[w] EXCEPT !.step = "decide", !.profile = p]
    <2>1. run[w].step = "profile" /\ run' = [run EXCEPT ![w] = r]
      BY <1>1, <1>3 DEF ReadProfile
    <2>2. p \in Profiles
      BY <1>1, <2>1, InputsAssumption DEF TypeInv, TypeOK, Tenant, Msg, Input
    <2> HIDE DEF p
    <2>3. r \in Run /\ r.step = "decide" /\ r.profile = p /\ r.message = run[w].message
      BY <1>1, <2>2 DEF Run
    <2> HIDE DEF r
    <2>4. run' \in [Workers -> Run] /\ run'[w] = r /\ Others(w)
      BY <1>1, <1>3, <2>1, <2>3 DEF ReadProfile
    <2>5. QED
      BY <1>1, <2>1, <2>2, <2>3, <2>4 DEF TypeInv, ShapeOK
  <1>4. CASE Decide(w)
    <2> DEFINE m == run[w].message
    <2>1. PICK d \in Decided(message[m].text, message[m].answers) :
            LET a == ResolvedAction(d, run[w].profile) IN
            /\ run' \in [Workers -> Run] /\ run[w].step = "decide" /\ run'[w].message = m
            /\ run'[w].outcome = [decision |-> d, action |-> a] /\ run'[w].outcome \in Outcomes
            /\ run'[w].step = CASE a = "appointment.create" -> "appointment"
                                [] a = "order.create" -> "order"
                                [] OTHER -> "record"
      BY <1>4, DecideStep
    <2>2. Others(w)
      BY <1>1, <1>4 DEF Decide
    <2>3. /\ run'[w].outcome.decision = d /\ run'[w].step \in {"appointment", "order", "record"}
          /\ run'[w].step = "appointment" => run'[w].outcome.action = "appointment.create"
          /\ run'[w].step = "order" => run'[w].outcome.action = "order.create"
      BY <2>1
    <2>4. QED
      BY <1>1, <2>1, <2>2, <2>3 DEF TypeInv, ShapeOK
  <1>5. QED
    BY <1>2, <1>3, <1>4

\* What the steps of workers write.
LEMMA WrittenTypes ==
  ASSUME TypeInv, NEW w \in Workers, WorkerStep(w) \/ WorkerFault(w)
  PROVE  /\ status' \in [Messages -> {"received", "queued", "processed", "failed", "expired"}]
         /\ appointments' \in [Messages -> Nat] /\ orders' \in [Messages -> Nat]
         /\ keyless' \subseteq Tenants
         /\ recorded' \in [Messages -> Outcomes \cup {Nothing}]
         /\ counted' \in [Messages -> Nat]
         /\ replies' \in [Messages -> Outcomes \cup {Nothing}]
         /\ rewritten' \subseteq Messages
  <1>1. TypeOK /\ ShapeOK
    BY DEF TypeInv
  <1>2. Msg(w) = run[w].message
    BY DEF Msg
  <1>3. run[w].step # "idle" => run[w].message \in Messages /\ Tenant(w) \in Tenants
    BY <1>1, InputsAssumption DEF TypeOK, ShapeOK, Tenant, Msg, Input
  <1>4. run[w].step \in {"record", "reply"} => run[w].outcome \in Outcomes
    BY <1>1 DEF ShapeOK, Resolved
  <1> USE DEF TypeOK, At, effectVars
  <1>5. CASE CreateAppointment(w)
    BY <1>1, <1>2, <1>3, <1>5 DEF CreateAppointment
  <1>6. CASE CreateOrder(w)
    BY <1>1, <1>2, <1>3, <1>6 DEF CreateOrder
  <1>7. CASE RecordRun(w)
    BY <1>1, <1>2, <1>3, <1>4, <1>7 DEF RecordRun
  <1>8. CASE CountUsage(w)
    BY <1>1, <1>2, <1>3, <1>8 DEF CountUsage, NextCount
  <1>9. CASE AddReply(w)
    BY <1>1, <1>2, <1>3, <1>4, <1>9 DEF AddReply
  <1>10. CASE MarkProcessed(w) \/ MarkFailed(w)
    BY <1>1, <1>2, <1>3, <1>10 DEF MarkProcessed, MarkFailed, Mark
  <1>11. CASE UNCHANGED <<effectVars, eventVars>>
    BY <1>1, <1>11
  <1>12. ASSUME \/ FindRun(w) \/ ReadProfile(w) \/ SearchRefused(w) \/ Decide(w) \/ OrderRefused(w)
                \/ RunRefused(w) \/ CounterRefused(w) \/ CompleteTask(w) \/ FailTask(w)
                \/ WorkerFault(w)
         PROVE  UNCHANGED <<effectVars, eventVars>>
    BY <1>12 DEF FindRun, ReadProfile, SearchRefused, Decide, OrderRefused, RunRefused,
                 CounterRefused, CompleteTask, FailTask, WorkerFault, AwaitFails,
                 MarkFailedFails, WorkerStops
  <1>13. QED
    BY <1>5, <1>6, <1>7, <1>8, <1>9, <1>10, <1>11, <1>12 DEF WorkerStep, ServiceStep

\* Messages are cut by their own runs only, and stay so.
LEMMA CutMoves ==
  ASSUME TypeInv, NEW w \in Workers, WorkerStep(w) \/ WorkerFault(w)
  PROVE  cut \subseteq cut' /\ cut' \subseteq Messages
  <1>1. cut \subseteq Messages /\ (run[w].step # "idle" => Msg(w) \in Messages)
    BY DEF TypeInv, TypeOK, ShapeOK, Msg
  <1>2. run[w].step # "idle"
    BY RunSteps, OtherRunSteps DEF WorkerStep, WorkerFault
  <1>3. cut' = cut \/ cut' = cut \cup {Msg(w)}
    BY DEF WorkerStep, WorkerFault, ServiceStep, FindRun, ReadProfile, SearchRefused, Decide,
           CreateAppointment, CreateOrder, OrderRefused, RecordRun, RunRefused, CountUsage,
           CounterRefused, AddReply, MarkProcessed, MarkFailed, CompleteTask, FailTask,
           AwaitFails, MarkFailedFails, WorkerStops, Taken, CutAt
  <1>4. QED
    BY <1>1, <1>2, <1>3

\* The types and the shapes of runs are inductive.
LEMMA TypeStep == TypeInv /\ [Next]_vars => TypeInv'
  <1> SUFFICES ASSUME TypeInv, [Next]_vars PROVE TypeInv'
    OBVIOUS
  <1>1. Queue!WorkOK'
    BY StepOfQueue, QueueType DEF TypeInv, TypeOK
  <1>2. ASSUME NEW w \in Workers, WorkerStep(w) \/ WorkerFault(w) PROVE TypeInv'
    <2>1. Others(w) /\ run' \in [Workers -> Run] /\ ShapeOK'
      <3>1. CASE ReadProfile(w) \/ Decide(w) \/ CompleteTask(w) \/ FailTask(w) \/ WorkerStops(w)
        BY <3>1, OtherRunSteps
      <3>2. CASE \/ ServiceStep(w) /\ ~ReadProfile(w) /\ ~Decide(w)
                \/ MarkProcessed(w) \/ MarkFailed(w) \/ AwaitFails(w) \/ MarkFailedFails(w)
        BY <3>2, RunSteps, ShapedIsOK DEF Shaped
      <3>3. QED
        BY <1>2, <3>1, <3>2 DEF WorkerStep, WorkerFault
    <2>2. TypeOK'
      BY <1>1, <1>2, <2>1, WrittenTypes, CutMoves DEF TypeInv, TypeOK, Others
    <2>3. QED
      BY <2>1, <2>2 DEF TypeInv
  <1>3. ASSUME NEW t \in Tenants, TenantActs(t) PROVE TypeInv'
    <2>1. CASE ApiCreatesOrder(t)
      BY <1>1, <2>1 DEF ApiCreatesOrder, TypeInv, TypeOK, ShapeOK, inputVars, queueVars, NoFault
    <2>2. ASSUME NEW p \in Offered, UpdateProfile(t, p) PROVE TypeInv'
      BY <1>1, <2>2, InputsAssumption
         DEF UpdateProfile, TypeInv, TypeOK, ShapeOK, queueVars, effectVars, NoFault
    <2>3. QED
      BY <1>3, <2>1, <2>2 DEF TenantActs
  <1>4. ASSUME NEW m \in Messages, QueueActs(m) \/ EventActs(m) PROVE TypeInv'
    <2>1. CASE RouteMessage(m) \/ RouteFails(m)
      BY <1>1, <2>1 DEF RouteMessage, RouteFails, TypeInv, TypeOK, ShapeOK, inputVars, effectVars,
                        NoFault, Fault
    <2>2. CASE EventActs(m)
      BY <1>1, <2>2 DEF EventActs, MarkQueued, WebhookMarksFailed, EventExpires, Rewrite, TypeInv,
                        TypeOK, ShapeOK, inputVars, queueVars, effectVars, NoFault, Fault
    <2>3. CASE StalledDead(m) \/ StalledSlow(m)
      BY <1>1, <2>3 DEF StalledDead, StalledSlow, TypeInv, TypeOK, ShapeOK, inputVars, effectVars,
                        NoFault, Fault
    <2>4. ASSUME NEW w \in Workers, TakeTask(w, m) PROVE TypeInv'
      <3> DEFINE s == IF Queue!GivenUp(m) THEN "throw" ELSE "find"
                 r == [run[w] EXCEPT !.step = s, !.message = m]
      <3>1. run \in [Workers -> Run] /\ run[w] \in Run
        BY DEF TypeInv, TypeOK
      <3>2. m \in tasks /\ run' = [run EXCEPT ![w] = r]
        BY <2>4, <3>1 DEF TakeTask
      <3>3. s \in {"throw", "find"} /\ s \in Steps
        BY DEF Steps
      <3> HIDE DEF s
      <3>4. r \in Run /\ r.step = s /\ r.message = m
        BY <3>1, <3>3 DEF Run
      <3> HIDE DEF r
      <3>5. run' \in [Workers -> Run] /\ run'[w] = r /\ \A v \in Workers \ {w} : run'[v] = run[v]
        BY <3>1, <3>2, <3>4
      <3>6. TypeOK'
        BY <1>1, <2>4, <3>5 DEF TakeTask, TypeInv, TypeOK, inputVars, effectVars, NoFault
      <3>7. UNCHANGED <<message, tasks>>
        BY <2>4 DEF TakeTask, inputVars
      <3>8. ShapeOK'
        BY <3>2, <3>3, <3>4, <3>5, <3>7 DEF TypeInv, ShapeOK, Resolved
      <3>9. QED
        BY <3>6, <3>8 DEF TypeInv
    <2>5. QED
      BY <1>4, <2>1, <2>2, <2>3, <2>4 DEF QueueActs
  <1>5. CASE UNCHANGED vars
    BY <1>1, <1>5 DEF vars, inputVars, queueVars, effectVars, TypeInv, TypeOK, ShapeOK
  <1>6. QED
    BY <1>2, <1>3, <1>4, <1>5 DEF Next, Drained

(***************************************************************************)
(* The run kept, its counters and the reply.                               *)
(***************************************************************************)

CountsAt(step) ==
  CASE step = "count1" -> 0 [] step = "count2" -> 1 [] step = "count3" -> 2 [] OTHER -> 3

\* Only the slot that recorded the run of a message counts it, and replies.
CountOK ==
  /\ \A m \in Messages :
       /\ recorded[m] = Nothing => counted[m] = 0 /\ replies[m] = Nothing
       /\ counted[m] <= 3
       /\ replies[m] # Nothing => counted[m] = 3 /\ replies[m] = recorded[m]
  /\ \A w \in Workers : run[w].step \in Owing =>
       LET m == run[w].message IN
       /\ recorded[m] # Nothing /\ run[w].outcome = recorded[m] /\ replies[m] = Nothing
       /\ counted[m] = CountsAt(run[w].step)
       /\ \A v \in Workers \ {w} : run[v].step \in Owing => run[v].message # m

\* A step that leaves run, counters and reply of every message alone, and starts no slot
\* counting.
Uncounted ==
  /\ UNCHANGED <<recorded, counted, replies>>
  /\ \A v \in Workers : run'[v].step \in Owing => run'[v] = run[v]

LEMMA UncountedKeeps ==
  ASSUME CountOK, Uncounted
  PROVE  CountOK'
  BY DEF CountOK, Uncounted

\* All steps but three are such steps.
LEMMA UncountedSteps ==
  ASSUME TypeInv, [Next]_vars,
         \A w \in Workers : ~RecordRun(w) /\ ~CountUsage(w) /\ ~AddReply(w)
  PROVE  Uncounted
  <1> USE DEF Steps, Owing
  <1>1. run \in [Workers -> Run] /\ \A w \in Workers : run[w] \in Run
    BY DEF TypeInv, TypeOK
  <1>2. ASSUME NEW w \in Workers, WorkerStep(w) \/ WorkerFault(w) PROVE Uncounted
    <2>1. \A v \in Workers \ {w} : run'[v] = run[v]
      BY <1>2, RunSteps, OtherRunSteps DEF WorkerStep, WorkerFault, Others
    <2>2. CASE FindRun(w)
      BY <1>1, <2>1, <2>2, RunMoves DEF FindRun, Uncounted, effectVars
    <2>3. CASE ReadProfile(w)
      BY <1>1, <2>1, <2>3 DEF ReadProfile, Uncounted, effectVars, Run
    <2>4. CASE SearchRefused(w) \/ OrderRefused(w) \/ RunRefused(w) \/ CounterRefused(w)
      BY <1>1, <2>1, <2>4, RunMoves
         DEF SearchRefused, OrderRefused, RunRefused, CounterRefused, Uncounted, effectVars
    <2>5. CASE Decide(w)
      <3>1. run'[w].step \in {"appointment", "order", "record"}
        <4> DEFINE m == run[w].message
        <4>1. PICK d \in Decided(message[m].text, message[m].answers) :
                LET a == ResolvedAction(d, run[w].profile) IN
                run'[w].step = CASE a = "appointment.create" -> "appointment"
                                 [] a = "order.create" -> "order"
                                 [] OTHER -> "record"
          BY <2>5, DecideStep
        <4>2. QED
          BY <4>1
      <3>2. QED
        BY <2>1, <2>5, <3>1 DEF Decide, Uncounted, effectVars
    <2>6. CASE CreateAppointment(w) \/ CreateOrder(w)
      BY <1>1, <2>1, <2>6, RunMoves DEF CreateAppointment, CreateOrder, Taken, Uncounted
    <2>7. CASE MarkProcessed(w) \/ MarkFailed(w) \/ MarkFailedFails(w)
      BY <1>1, <2>1, <2>7, RunMoves
         DEF MarkProcessed, MarkFailed, MarkFailedFails, Taken, Uncounted, effectVars
    <2>8. CASE AwaitFails(w) \/ CompleteTask(w) \/ FailTask(w) \/ WorkerStops(w)
      BY <1>1, <2>1, <2>8, RunMoves
         DEF AwaitFails, CompleteTask, FailTask, WorkerStops, Uncounted, effectVars
    <2>9. QED
      BY <1>2, <2>2, <2>3, <2>4, <2>5, <2>6, <2>7, <2>8 DEF WorkerStep, WorkerFault, ServiceStep
  <1>3. ASSUME NEW t \in Tenants, TenantActs(t) PROVE Uncounted
    BY <1>3 DEF TenantActs, ApiCreatesOrder, UpdateProfile, Uncounted, effectVars
  <1>4. ASSUME NEW m \in Messages, QueueActs(m) \/ EventActs(m) PROVE Uncounted
    <2>1. ASSUME NEW w \in Workers, TakeTask(w, m) PROVE Uncounted
      BY <1>1, <2>1 DEF TakeTask, Uncounted, effectVars, Run
    <2>2. QED
      BY <1>4, <2>1 DEF QueueActs, RouteMessage, RouteFails, StalledDead, StalledSlow, EventActs,
                        MarkQueued, WebhookMarksFailed, EventExpires, Uncounted, effectVars
  <1>5. CASE UNCHANGED vars
    BY <1>5 DEF vars, effectVars, Uncounted
  <1>6. QED
    BY <1>2, <1>3, <1>4, <1>5 DEF Next, Drained

\* The three that write.
LEMMA CountingStep ==
  ASSUME TypeInv, CountOK, NEW w \in Workers, NEW m, m = run[w].message,
         RecordRun(w) \/ CountUsage(w) \/ AddReply(w)
  PROVE  CountOK'
  <1> USE DEF Steps
  <1>1. /\ run \in [Workers -> Run] /\ Msg(w) = m
        /\ run[w].step # "idle" /\ Others(w) /\ Shaped(w) /\ m \in Messages
        /\ run[w].step \in Resolved => run[w].outcome \in Outcomes
        /\ recorded \in [Messages -> Outcomes \cup {Nothing}] /\ counted \in [Messages -> Nat]
        /\ replies \in [Messages -> Outcomes \cup {Nothing}]
    BY RunSteps DEF TypeInv, TypeOK, ShapeOK, Msg, ServiceStep, RecordRun, CountUsage, AddReply, At,
                    ReadProfile, Decide, NextCount
  <1>2. /\ \A v \in Workers \ {w} : run'[v] = run[v]
        /\ run'[w].message = m
        /\ run'[w].step \in Owing => run'[w].outcome = run[w].outcome
    BY <1>1 DEF Others, Shaped, Owing, Resolved
  <1>3. CASE RecordRun(w)
    <2>1. /\ recorded[m] = Nothing /\ recorded' = [recorded EXCEPT ![m] = run[w].outcome]
          /\ run[w].step = "record" /\ run'[w].step \in {"count1", "catch"}
          /\ UNCHANGED <<counted, replies>>
      BY <1>1, <1>3, RunMoves DEF RecordRun, Taken, At
    <2>2. run[w].outcome # Nothing
      BY <1>1, <2>1, NothingAssumption DEF Resolved
    <2>3. \A v \in Workers \ {w} : run[v].step \in Owing => run[v].message # m
      BY <2>1 DEF CountOK
    <2>4. \A v \in Workers : run[v].step \in Owing => run[v].message \in Messages
      BY DEF TypeInv, TypeOK, ShapeOK, Owing
    <2>5. QED
      BY <1>1, <1>2, <2>1, <2>2, <2>3, <2>4 DEF CountOK, Owing, CountsAt
  <1>4. CASE CountUsage(w)
    <2>1. /\ counted' = [counted EXCEPT ![m] = @ + 1] /\ UNCHANGED <<recorded, replies>>
          /\ run[w].step \in {"count1", "count2", "count3"}
          /\ run'[w].step \in {NextCount[run[w].step], "catch"}
          /\ NextCount[run[w].step] = CASE run[w].step = "count1" -> "count2"
                                         [] run[w].step = "count2" -> "count3"
                                         [] OTHER -> "reply"
      BY <1>1, <1>4, RunMoves DEF CountUsage, Taken, NextCount
    <2>2. /\ recorded[m] # Nothing /\ run[w].outcome = recorded[m] /\ replies[m] = Nothing
          /\ counted[m] = CountsAt(run[w].step) /\ counted[m] \in 0..2
          /\ \A v \in Workers \ {w} : run[v].step \in Owing => run[v].message # m
      BY <2>1 DEF CountOK, Owing, CountsAt
    <2>3. run'[w].step \in Owing => counted'[m] = CountsAt(run'[w].step)
      BY <1>1, <2>1, <2>2 DEF CountsAt, Owing
    <2>4. \A v \in Workers : run[v].step \in Owing => run[v].message \in Messages
      BY DEF TypeInv, TypeOK, ShapeOK, Owing
    <2>5. QED
      BY <1>1, <1>2, <2>1, <2>2, <2>3, <2>4 DEF CountOK
  <1>5. CASE AddReply(w)
    <2>1. /\ replies' = [replies EXCEPT ![m] = IF @ = Nothing THEN run[w].outcome ELSE @]
          /\ run[w].step = "reply" /\ run'[w].step \in {"mark", "catch"}
          /\ UNCHANGED <<recorded, counted>>
      BY <1>1, <1>5, RunMoves DEF AddReply, At
    <2>2. /\ recorded[m] # Nothing /\ run[w].outcome = recorded[m] /\ replies[m] = Nothing
          /\ counted[m] = 3
          /\ \A v \in Workers \ {w} : run[v].step \in Owing => run[v].message # m
      BY <2>1 DEF CountOK, Owing, CountsAt
    <2>3. \A v \in Workers : run[v].step \in Owing => run[v].message \in Messages
      BY DEF TypeInv, TypeOK, ShapeOK, Owing
    <2>4. QED
      BY <1>1, <1>2, <2>1, <2>2, <2>3 DEF CountOK, Owing
  <1>6. QED
    BY <1>3, <1>4, <1>5

LEMMA CountStep == TypeInv /\ CountOK /\ [Next]_vars => CountOK'
  BY UncountedSteps, UncountedKeeps, CountingStep

LEMMA InitInv == Init => TypeInv /\ CountOK
  <1> SUFFICES ASSUME Init PROVE TypeInv /\ CountOK
    OBVIOUS
  <1>1. [state |-> "waiting", owner |-> NoWorker, made |-> 0, stalled |-> 0] \in Queue!Work
    BY BoundsAssumption DEF Queue!Work, Queue!JobStates
  <1>2. Queue!WorkOK
    BY <1>1, BoundsAssumption DEF Init, Queue!WorkInit, Queue!WorkOK
  <1>3. Idle \in Run /\ run = [w \in Workers |-> Idle]
    BY DEF Idle, Run, Steps, Init
  <1>4. \A w \in Workers : run[w].step = "idle" /\ run[w].message = NoMessage
    BY <1>3 DEF Idle
  <1>5. TypeOK
    BY <1>2, <1>3, InputsAssumption DEF Init, TypeOK
  <1>6. ShapeOK
    BY <1>4 DEF ShapeOK, Resolved
  <1>7. CountOK
    BY <1>4 DEF Init, CountOK, Owing
  <1>8. QED
    BY <1>5, <1>6, <1>7 DEF TypeInv

\* Every variable of the pipeline keeps its type; the queue makes no attempt too many.
THEOREM AssistantTypes == Spec => []TypeOK
  <1>1. TypeInv => TypeOK
    BY DEF TypeInv
  <1>2. QED
    BY <1>1, InitInv, TypeStep, PTL DEF Spec

LEMMA SpecCounts == Spec => [](TypeInv /\ CountOK)
  BY InitInv, TypeStep, CountStep, PTL DEF Spec

\* The reply of an event follows the counters, and the counters its run, each once.
THEOREM CountedReplies == Spec => []ReplyIsCounted
  <1>1. TypeInv /\ CountOK => ReplyIsCounted
    BY DEF TypeInv, TypeOK, CountOK, ReplyIsCounted
  <1>2. QED
    BY <1>1, SpecCounts, PTL

\* Every step keeps an outcome, sends the one kept, or does neither.
LEMMA PromiseStep ==
  ASSUME TypeInv, CountOK, [Next]_vars
  PROVE  Promise!Next \/ UNCHANGED <<recorded, replies>>
  <1>1. /\ recorded \in [Messages -> Outcomes \cup {Nothing}]
        /\ replies \in [Messages -> Outcomes \cup {Nothing}]
    BY DEF TypeInv, TypeOK
  <1>2. ASSUME NEW w \in Workers, run[w].step \in Resolved
        PROVE  run[w].message \in Messages /\ run[w].outcome \in Outcomes
    BY <1>2 DEF TypeInv, TypeOK, ShapeOK, Resolved
  <1>3. ASSUME NEW w \in Workers, NEW m, m = run[w].message, RecordRun(w)
        PROVE  Promise!Keep(m) /\ m \in Messages
    BY <1>1, <1>2, <1>3 DEF RecordRun, At, Msg, Resolved, Promise!Keep
  <1>4. ASSUME NEW w \in Workers, NEW m, m = run[w].message, AddReply(w)
        PROVE  Promise!Send(m) /\ m \in Messages
    <2>1. /\ m \in Messages /\ recorded[m] # Nothing /\ run[w].outcome = recorded[m]
          /\ replies[m] = Nothing
      BY <1>2, <1>4 DEF CountOK, Owing, Resolved, AddReply, At
    <2>2. replies' = [replies EXCEPT ![m] = run[w].outcome] /\ UNCHANGED recorded
      BY <1>4, <2>1 DEF AddReply, Msg
    <2>3. QED
      BY <2>1, <2>2 DEF Promise!Send
  <1>5. ASSUME NEW w \in Workers, CountUsage(w) PROVE UNCHANGED <<recorded, replies>>
    BY <1>5 DEF CountUsage
  <1>6. QED
    BY <1>3, <1>4, <1>5, UncountedSteps DEF Uncounted, Promise!Next

\* The promise of the assistant: one outcome is kept for each message and that one is
\* told, once, whatever is retried, stops or is overtaken.
THEOREM AssistantKeepsPromise == Spec => ImplementsPromise
  <1>1. Init => Promise!Init
    BY DEF Init, Promise!Init
  <1>2. TypeInv /\ CountOK /\ [Next]_vars => [Promise!Next]_<<recorded, replies>>
    BY PromiseStep
  <1>3. QED
    BY <1>1, <1>2, SpecCounts, PTL DEF Spec, ImplementsPromise, Promise!Spec

(***************************************************************************)
(* The policy of a tenant.                                                 *)
(***************************************************************************)

ProfileOf(m) == profile[message[m].tenant]

\* Until a profile changes, runs go by it.
PolicyOK ==
  updates = 0 =>
    /\ \A w \in Workers :
         /\ run[w].step = "decide" => run[w].profile = ProfileOf(run[w].message)
         /\ run[w].step = "appointment" => ProfileOf(run[w].message).canCreateAppointments
         /\ run[w].step = "order" => ProfileOf(run[w].message).canCreateOrders
    /\ \A m \in Messages :
         /\ appointments[m] > 0 => ProfileOf(m).canCreateAppointments
         /\ orders[m] > 0 => ProfileOf(m).canCreateOrders

LEMMA PolicyStep == TypeInv /\ PolicyOK /\ [Next]_vars => PolicyOK'
  <1> SUFFICES ASSUME TypeInv, PolicyOK, [Next]_vars PROVE PolicyOK'
    OBVIOUS
  <1>1. /\ run \in [Workers -> Run] /\ updates \in Nat
        /\ appointments \in [Messages -> Nat] /\ orders \in [Messages -> Nat]
        /\ \A w \in Workers : run[w] \in Run
    BY DEF TypeInv, TypeOK
  <1>2. ASSUME NEW w \in Workers, WorkerStep(w) \/ WorkerFault(w) PROVE PolicyOK'
    <2> DEFINE m == run[w].message
    <2>1. /\ \A v \in Workers \ {w} : run'[v] = run[v]
          /\ UNCHANGED <<message, profile, updates>>
          /\ run[w].step # "idle" => m \in Messages
      BY <1>2, RunSteps, OtherRunSteps DEF WorkerStep, WorkerFault, Others, TypeInv, TypeOK, ShapeOK
    <2>2. CASE ReadProfile(w)
      <3>1. /\ run'[w].step = "decide" /\ run'[w].profile = ProfileOf(m) /\ run'[w].message = m
            /\ UNCHANGED <<appointments, orders>>
        BY <1>1, <2>2 DEF ReadProfile, ProfileOf, Tenant, Msg, Run, effectVars
      <3>2. QED
        BY <2>1, <3>1 DEF PolicyOK, ProfileOf
    <2>3. CASE Decide(w)
      <3>1. PICK d \in Decided(message[m].text, message[m].answers) :
              LET a == ResolvedAction(d, run[w].profile) IN
              /\ run'[w].step = CASE a = "appointment.create" -> "appointment"
                                  [] a = "order.create" -> "order"
                                  [] OTHER -> "record"
              /\ run'[w].message = m /\ run[w].step = "decide"
        BY <2>3, DecideStep
      <3>2. /\ d \in Decisions /\ run[w].profile \in Profiles
        BY <2>1, <3>1, InputsAssumption, DecidedDecisions DEF TypeInv, TypeOK, ShapeOK
      <3>3. UNCHANGED <<appointments, orders>>
        BY <2>3 DEF Decide, effectVars
      <3>4. QED
        BY <2>1, <3>1, <3>2, <3>3, ResolvedActions DEF PolicyOK, ProfileOf
    <2>4. CASE CreateAppointment(w) \/ CreateOrder(w)
      <3>1. /\ run'[w].step \in {"record", "catch"}
            /\ \/ /\ run[w].step = "appointment" /\ UNCHANGED orders
                  /\ appointments' = [appointments EXCEPT ![m] = @ + 1]
               \/ /\ run[w].step = "order" /\ UNCHANGED appointments
                  /\ orders' = [orders EXCEPT ![m] = @ + 1]
        BY <1>1, <2>4, RunMoves DEF CreateAppointment, CreateOrder, Taken, At, Msg, Steps
      <3>2. QED
        BY <1>1, <2>1, <3>1 DEF PolicyOK, ProfileOf
    <2>5. CASE UNCHANGED <<appointments, orders>> /\
               run'[w].step \notin {"decide", "appointment", "order"}
      BY <2>1, <2>5 DEF PolicyOK, ProfileOf
    <2>6. CASE \/ ServiceStep(w) /\ ~ReadProfile(w) /\ ~Decide(w)
              \/ MarkProcessed(w) \/ MarkFailed(w) \/ AwaitFails(w) \/ MarkFailedFails(w)
      <3>1. run'[w].step \notin {"decide", "appointment", "order"}
        BY <2>6, RunSteps DEF Shaped, Resolved
      <3>2. \/ CreateAppointment(w) \/ CreateOrder(w) \/ UNCHANGED <<appointments, orders>>
        BY <2>6 DEF ServiceStep, FindRun, SearchRefused, OrderRefused, RecordRun, RunRefused,
                    CountUsage, CounterRefused, AddReply, MarkProcessed, MarkFailed,
                    AwaitFails, MarkFailedFails, effectVars
      <3>3. QED
        BY <2>4, <2>5, <3>1, <3>2
    <2>7. CASE CompleteTask(w) \/ FailTask(w) \/ WorkerStops(w)
      BY <1>1, <2>5, <2>7, RunMoves DEF CompleteTask, FailTask, WorkerStops, effectVars, Steps
    <2>8. QED
      BY <1>2, <2>2, <2>3, <2>6, <2>7 DEF WorkerStep, WorkerFault
  <1>3. ASSUME NEW t \in Tenants, TenantActs(t) PROVE PolicyOK'
    <2>1. CASE ApiCreatesOrder(t)
      BY <2>1 DEF ApiCreatesOrder, PolicyOK, ProfileOf, inputVars
    <2>2. ASSUME NEW p \in Offered, UpdateProfile(t, p) PROVE PolicyOK'
      BY <1>1, <2>2 DEF UpdateProfile, PolicyOK
    <2>3. QED
      BY <1>3, <2>1, <2>2 DEF TenantActs
  <1>4. ASSUME NEW m \in Messages, QueueActs(m) \/ EventActs(m) PROVE PolicyOK'
    <2>1. ASSUME NEW w \in Workers, TakeTask(w, m) PROVE PolicyOK'
      <3>1. /\ \A v \in Workers \ {w} : run'[v] = run[v]
            /\ run'[w].step \in {"throw", "find"} /\ UNCHANGED <<inputVars, appointments, orders>>
        BY <1>1, <2>1 DEF TakeTask, effectVars, Run
      <3>2. QED
        BY <3>1 DEF PolicyOK, ProfileOf, inputVars
    <2>2. CASE UNCHANGED <<message, profile, updates, effectVars, run>>
      BY <2>2 DEF PolicyOK, ProfileOf, effectVars
    <2>3. QED
      BY <1>4, <2>1, <2>2 DEF QueueActs, RouteMessage, RouteFails, StalledDead, StalledSlow,
                              EventActs, MarkQueued, WebhookMarksFailed, EventExpires, inputVars
  <1>5. CASE UNCHANGED vars
    BY <1>5 DEF vars, inputVars, effectVars, PolicyOK, ProfileOf
  <1>6. QED
    BY <1>2, <1>3, <1>4, <1>5 DEF Next, Drained

\* What the profile of a tenant does not allow is not done, whatever is suggested.
THEOREM PolicyIsRespected == Spec => []PolicyRespected
  <1>1. Init => PolicyOK
    <2> SUFFICES ASSUME Init PROVE PolicyOK
      OBVIOUS
    <2>1. \A w \in Workers : run[w].step = "idle"
      BY DEF Init, Idle
    <2>2. QED
      BY <2>1 DEF Init, PolicyOK
  <1>2. PolicyOK => PolicyRespected
    BY DEF PolicyOK, PolicyRespected, ProfileOf
  <1>3. QED
    BY <1>1, <1>2, InitInv, TypeStep, PolicyStep, PTL DEF Spec

(***************************************************************************)
(* Who holds the lock of a task, and the status of its event.              *)
(***************************************************************************)

\* Unless it was overtaken, a run holds the lock of its task.
OwnedOK ==
  \A w \in Workers : run[w].step # "idle" /\ run[w].message \notin overtaken =>
    Queue!Owns(w, run[w].message)

\* Without failures nothing was overtaken, nothing stalled, and who holds a lock runs.
CalmOK ==
  faults = 0 =>
    /\ overtaken = {}
    /\ \A m \in Messages :
         /\ work[m].stalled = 0
         /\ work[m].state = "active" =>
              \E w \in Workers : work[m].owner = w /\ run[w].message = m

\* The event of a message is processed or removed, or the webhook pipeline wrote it last.
Settled(m) == m \in rewritten \/ status[m] \in {"processed", "expired"}

SettledOK ==
  /\ \A w \in Workers : run[w].step = "return" /\ run[w].message \notin overtaken =>
       Settled(run[w].message)
  /\ CompletedMeansSettled

\* Two slots run one task only after one of them was overtaken.
LEMMA OneRun ==
  ASSUME OwnedOK, NEW v \in Workers, NEW w \in Workers, run[v].step # "idle",
         run[w].step # "idle", run[v].message = run[w].message,
         run[w].message \notin overtaken
  PROVE  v = w
  BY DEF OwnedOK, Queue!Owns

\* A run goes on with its task.
GoesOn(w) ==
  /\ Others(w) /\ UNCHANGED work
  /\ run'[w].message = run[w].message /\ run'[w].step # "idle" /\ run[w].step # "idle"

LEMMA GoesOnSteps ==
  ASSUME TypeInv, NEW w \in Workers,
         ServiceStep(w) \/ MarkProcessed(w) \/ MarkFailed(w) \/ AwaitFails(w) \/ MarkFailedFails(w)
  PROVE  GoesOn(w)
  <1>1. UNCHANGED work
    BY DEF ServiceStep, FindRun, ReadProfile, SearchRefused, Decide, CreateAppointment,
           CreateOrder, OrderRefused, RecordRun, RunRefused, CountUsage, CounterRefused,
           AddReply, MarkProcessed, MarkFailed, AwaitFails, MarkFailedFails, queueVars
  <1>2. CASE ReadProfile(w)
    <2>1. run'[w].message = run[w].message /\ run'[w].step = "decide"
      BY <1>2 DEF ReadProfile, TypeInv, TypeOK, Run
    <2>2. QED
      BY <1>1, <1>2, <2>1, OtherRunSteps DEF GoesOn
  <1>3. CASE Decide(w)
    <2> DEFINE m == run[w].message
    <2>1. PICK d \in Decided(message[m].text, message[m].answers) :
            LET a == ResolvedAction(d, run[w].profile) IN
            /\ run'[w].message = m
            /\ run'[w].step = CASE a = "appointment.create" -> "appointment"
                                [] a = "order.create" -> "order"
                                [] OTHER -> "record"
      BY <1>3, DecideStep
    <2>2. run'[w].step # "idle"
      BY <2>1
    <2>3. QED
      BY <1>1, <1>3, <2>1, <2>2, OtherRunSteps DEF GoesOn
  <1>4. QED
    BY <1>1, <1>2, <1>3, RunSteps DEF GoesOn, Shaped

\* The end of a run, the first step of one, and the stalled check.
EndsRun(w, m) ==
  /\ Others(w) /\ m = run[w].message /\ m \in Messages
  /\ run'[w].step = "idle" /\ run'[w].message = NoMessage
  /\ \/ UNCHANGED work /\ faults' # faults
     \/ (UNCHANGED work) /\ ~Queue!Owns(w, m)
     \/ /\ Queue!Owns(w, m) /\ work'[m].state # "active" /\ work'[m].stalled = work[m].stalled
        /\ \A n \in Messages \ {m} : work'[n] = work[n]

StartsRun(w, m) ==
  /\ Others(w) /\ m \in Messages
  /\ run[w].step = "idle" /\ run'[w].step \in {"find", "throw"} /\ run'[w].message = m
  /\ run'[w].step = "find" <=> ~Queue!GivenUp(m)
  /\ work[m].state = "waiting" /\ work'[m].state = "active" /\ work'[m].owner = w
  /\ work'[m].stalled = work[m].stalled
  /\ \A n \in Messages \ {m} : work'[n] = work[n]

PutsBack(m) ==
  /\ UNCHANGED run /\ m \in Messages
  /\ work[m].state = "active" /\ work'[m].state = "waiting"
  /\ \A n \in Messages \ {m} : work'[n] = work[n]
  /\ \/ /\ \A w \in Workers : ~(work[m].owner = w /\ run[w].message = m)
        /\ UNCHANGED <<overtaken, faults>>
     \/ overtaken' = overtaken \cup {m} /\ faults' = faults + 1

LeavesTasks ==
  /\ UNCHANGED <<run, work, overtaken>>
  /\ faults' \in {faults, faults + 1}

LEMMA TakeStarts ==
  ASSUME TypeInv, NEW m \in Messages, NEW w \in Workers, TakeTask(w, m)
  PROVE  StartsRun(w, m)
  <1>1. run \in [Workers -> Run] /\ Queue!WorkOK /\ run[w] \in Run
    BY DEF TypeInv, TypeOK
  <1>2. /\ run[w].step = "idle" /\ run'[w].message = m
        /\ run'[w].step = (IF Queue!GivenUp(m) THEN "throw" ELSE "find")
        /\ \A v \in Workers \ {w} : run'[v] = run[v]
    BY <1>1 DEF TakeTask, At, Run
  <1>3. Others(w)
    BY <1>2 DEF TakeTask, Others, NoFault, inputVars
  <1>4. Queue!Take(w, m)
    BY DEF TakeTask
  <1>5. QED
    BY <1>1, <1>2, <1>3, <1>4, QueueMoves DEF StartsRun

LEMMA StalledPutsBack ==
  ASSUME TypeInv, NEW m \in Messages, StalledDead(m) \/ StalledSlow(m)
  PROVE  PutsBack(m)
  <1>1. /\ UNCHANGED run /\ Queue!PutBack(m) /\ work \in [Messages -> Queue!Work]
    BY DEF StalledDead, StalledSlow, TypeInv, TypeOK, Queue!WorkOK
  <1>2. /\ work[m].state = "active" /\ work'[m].state = "waiting"
        /\ \A n \in Messages \ {m} : work'[n] = work[n]
    BY <1>1 DEF Queue!PutBack, Queue!Work
  <1>3. QED
    BY <1>1, <1>2 DEF StalledDead, StalledSlow, PutsBack, Msg, NoFault, Fault

LEMMA TaskKinds ==
  ASSUME TypeInv, [Next]_vars
  PROVE  \/ LeavesTasks
         \/ \E w \in Workers : GoesOn(w) \/ \E m \in Messages : EndsRun(w, m) \/ StartsRun(w, m)
         \/ \E m \in Messages : PutsBack(m)
  <1>1. /\ run \in [Workers -> Run] /\ Queue!WorkOK /\ faults \in Nat
        /\ \A w \in Workers : run[w] \in Run /\ (run[w].step # "idle" => run[w].message \in Messages)
    BY DEF TypeInv, TypeOK, ShapeOK
  <1>2. ASSUME NEW w \in Workers, CompleteTask(w) \/ FailTask(w) \/ WorkerStops(w)
        PROVE  \E m \in Messages : EndsRun(w, m)
    <2> DEFINE m == run[w].message
    <2>1. run[w].step # "idle" /\ m \in Messages /\ Others(w) /\ Msg(w) = m
      BY <1>1, <1>2, OtherRunSteps DEF Msg
    <2>2. run'[w].step = "idle" /\ run'[w].message = NoMessage
      BY <1>1, <1>2, RunMoves DEF CompleteTask, FailTask, WorkerStops, Steps
    <2>3. \/ UNCHANGED work /\ faults' # faults
          \/ Queue!Complete(w, m) \/ Queue!Fail(w, m)
      BY <1>1, <1>2, <2>1 DEF CompleteTask, FailTask, WorkerStops, Fault, queueVars
    <2> HIDE DEF m
    <2>4. \/ UNCHANGED work /\ faults' # faults
          \/ (UNCHANGED work) /\ ~Queue!Owns(w, m)
          \/ /\ Queue!Owns(w, m) /\ work'[m].state # "active" /\ work'[m].stalled = work[m].stalled
             /\ \A n \in Messages \ {m} : work'[n] = work[n]
      <3>1. CASE Queue!Owns(w, m)
        BY <1>1, <2>1, <2>3, <3>1, QueueMoves
      <3>2. CASE ~Queue!Owns(w, m)
        BY <1>1, <2>1, <2>3, <3>2, QueueMoves
      <3>3. QED
        BY <3>1, <3>2
    <2>5. QED
      BY <2>1, <2>2, <2>4 DEF EndsRun, m
  <1>3. ASSUME NEW m \in Messages, NEW w \in Workers, TakeTask(w, m) PROVE StartsRun(w, m)
    BY <1>3, TakeStarts
  <1>4. ASSUME NEW m \in Messages, StalledDead(m) \/ StalledSlow(m) PROVE PutsBack(m)
    BY <1>4, StalledPutsBack
  <1>5. ASSUME NEW m \in Messages, RouteMessage(m) \/ RouteFails(m) \/ EventActs(m)
        PROVE  LeavesTasks
    BY <1>5 DEF RouteMessage, RouteFails, EventActs, MarkQueued, WebhookMarksFailed, EventExpires,
                LeavesTasks, queueVars, NoFault, Fault
  <1>6. ASSUME NEW t \in Tenants, TenantActs(t) PROVE LeavesTasks
    BY <1>6 DEF TenantActs, ApiCreatesOrder, UpdateProfile, LeavesTasks, queueVars, NoFault
  <1>7. CASE UNCHANGED vars
    BY <1>7 DEF LeavesTasks, vars, queueVars
  <1>8. QED
    BY <1>2, <1>3, <1>4, <1>5, <1>6, <1>7, GoesOnSteps
       DEF Next, WorkerStep, WorkerFault, QueueActs, Drained

LEMMA OwnedStep == TypeInv /\ OwnedOK /\ [Next]_vars => OwnedOK'
  <1> SUFFICES ASSUME TypeInv, OwnedOK, [Next]_vars PROVE OwnedOK'
    OBVIOUS
  <1> USE DEF OwnedOK, Queue!Owns
  <1>1. CASE LeavesTasks
    BY <1>1 DEF LeavesTasks
  <1>2. ASSUME NEW w \in Workers, GoesOn(w) PROVE OwnedOK'
    BY <1>2 DEF GoesOn, Others
  <1>3. ASSUME NEW w \in Workers, NEW m \in Messages, EndsRun(w, m) PROVE OwnedOK'
    <2>1. \A v \in Workers : run[v].step # "idle" => run[v].message \in Messages
      BY DEF TypeInv, TypeOK, ShapeOK
    <2>2. QED
      BY <1>3, <2>1 DEF EndsRun, Others
  <1>4. ASSUME NEW w \in Workers, NEW m \in Messages, StartsRun(w, m) PROVE OwnedOK'
    <2>1. \A v \in Workers : run[v].step # "idle" => run[v].message \in Messages
      BY DEF TypeInv, TypeOK, ShapeOK
    <2>2. QED
      BY <1>4, <2>1 DEF StartsRun, Others
  <1>5. ASSUME NEW m \in Messages, PutsBack(m) PROVE OwnedOK'
    <2>1. \A v \in Workers : run[v].step # "idle" => run[v].message \in Messages
      BY DEF TypeInv, TypeOK, ShapeOK
    <2>2. QED
      BY <1>5, <2>1 DEF PutsBack
  <1>6. QED
    BY <1>1, <1>2, <1>3, <1>4, <1>5, TaskKinds

LEMMA CalmStep == TypeInv /\ OwnedOK /\ CalmOK /\ [Next]_vars => CalmOK'
  <1> SUFFICES ASSUME TypeInv, OwnedOK, CalmOK, [Next]_vars, faults' = 0
               PROVE  /\ overtaken' = {}
                      /\ \A m \in Messages :
                           /\ work'[m].stalled = 0
                           /\ work'[m].state = "active" =>
                                \E w \in Workers : work'[m].owner = w /\ run'[w].message = m
    BY DEF CalmOK
  <1> DEFINE Goal == /\ overtaken' = {}
                     /\ \A m \in Messages :
                          /\ work'[m].stalled = 0
                          /\ work'[m].state = "active" =>
                               \E w \in Workers : work'[m].owner = w /\ run'[w].message = m
  <1>1. faults \in Nat /\ (faults' \in {faults, faults + 1} => faults = 0)
    BY DEF TypeInv, TypeOK
  <1>2. CASE LeavesTasks
    BY <1>1, <1>2 DEF LeavesTasks, CalmOK
  <1>3. ASSUME NEW w \in Workers, GoesOn(w) PROVE Goal
    BY <1>1, <1>3 DEF GoesOn, Others, CalmOK
  <1>4. ASSUME NEW w \in Workers, NEW m \in Messages, EndsRun(w, m) PROVE Goal
    <2>1. faults = 0 /\ faults' = faults /\ UNCHANGED overtaken /\ run[w].message = m
      BY <1>1, <1>4 DEF EndsRun, Others
    <2>2. run[w].step # "idle"
      BY <1>4, NobodyAssumption DEF EndsRun, TypeInv, ShapeOK
    <2>3. Queue!Owns(w, m)
      BY <2>1, <2>2 DEF CalmOK, OwnedOK
    <2>4. QED
      BY <1>4, <2>1, <2>3 DEF EndsRun, Others, CalmOK, Queue!Owns
  <1>5. ASSUME NEW w \in Workers, NEW m \in Messages, StartsRun(w, m) PROVE Goal
    <2>1. faults = 0 /\ UNCHANGED overtaken
      BY <1>1, <1>5 DEF StartsRun, Others
    <2>2. ASSUME NEW n \in Messages \ {m}, NEW v \in Workers, run[v].message = n
          PROVE  run'[v].message = n
      <3>1. run[w].message = NoMessage
        BY <1>5 DEF StartsRun, TypeInv, ShapeOK
      <3>2. QED
        BY <1>5, <2>2, <3>1, NobodyAssumption DEF StartsRun, Others
    <2>3. QED
      BY <1>5, <2>1, <2>2 DEF StartsRun, CalmOK
  <1>6. ASSUME NEW m \in Messages, PutsBack(m) PROVE Goal
    BY <1>1, <1>6 DEF PutsBack, CalmOK
  <1>7. QED
    BY <1>2, <1>3, <1>4, <1>5, <1>6, TaskKinds

\* Who writes the status of an event, and how a run comes to return.
LEMMA StatusMoves ==
  ASSUME TypeInv, [Next]_vars
  PROVE  /\ \/ \A m \in Messages : Settled(m) => Settled(m)'
            \/ \E w \in Workers : \E s \in {"processed", "failed"} :
                 /\ GoesOn(w) /\ Mark(run[w].message, s)
                 /\ s = "processed" \/ (run'[w].step = "throw" /\ run[w].step = "catch")
         /\ \A w \in Workers : run'[w].step = "return" =>
              \/ run[w].step = "return" /\ run'[w].message = run[w].message
              \/ MarkProcessed(w) /\ GoesOn(w)
         /\ \A m \in Messages : work'[m].state = "completed" =>
              \/ work[m].state = "completed"
              \/ \E w \in Workers : run[w].step = "return" /\ run[w].message = m /\ Queue!Owns(w, m)
  <1> DEFINE Goal ==
        /\ \/ \A m \in Messages : Settled(m) => Settled(m)'
           \/ \E w \in Workers : \E s \in {"processed", "failed"} :
                /\ GoesOn(w) /\ Mark(run[w].message, s)
                /\ s = "processed" \/ (run'[w].step = "throw" /\ run[w].step = "catch")
        /\ \A w \in Workers : run'[w].step = "return" =>
             \/ run[w].step = "return" /\ run'[w].message = run[w].message
             \/ MarkProcessed(w) /\ GoesOn(w)
        /\ \A m \in Messages : work'[m].state = "completed" =>
             \/ work[m].state = "completed"
             \/ \E w \in Workers : run[w].step = "return" /\ run[w].message = m /\ Queue!Owns(w, m)
  <1> USE DEF Steps
  <1>1. /\ run \in [Workers -> Run] /\ Queue!WorkOK /\ work \in [Messages -> Queue!Work]
        /\ \A w \in Workers : run[w] \in Run /\ (run[w].step # "idle" => run[w].message \in Messages)
    BY DEF TypeInv, TypeOK, ShapeOK, Queue!WorkOK
  <1>2. ASSUME NEW w \in Workers,
               ServiceStep(w) \/ MarkProcessed(w) \/ MarkFailed(w) \/ AwaitFails(w) \/ MarkFailedFails(w)
        PROVE  Goal
    <2>1. GoesOn(w) /\ Msg(w) = run[w].message
      BY <1>2, GoesOnSteps DEF Msg
    <2>2. run'[w].step = "return" => MarkProcessed(w)
      <3>1. CASE ReadProfile(w)
        BY <1>1, <3>1 DEF ReadProfile, Run
      <3>2. CASE Decide(w)
        <4> DEFINE m == run[w].message
        <4>1. PICK d \in Decided(message[m].text, message[m].answers) :
                LET a == ResolvedAction(d, run[w].profile) IN
                run'[w].step = CASE a = "appointment.create" -> "appointment"
                                 [] a = "order.create" -> "order"
                                 [] OTHER -> "record"
          BY <3>2, DecideStep
        <4>2. QED
          BY <4>1
      <3>3. CASE FindRun(w) \/ SearchRefused(w) \/ OrderRefused(w) \/ RunRefused(w) \/ CounterRefused(w)
        BY <1>1, <3>3, RunMoves DEF FindRun, SearchRefused, OrderRefused, RunRefused, CounterRefused
      <3>4. CASE CreateAppointment(w) \/ CreateOrder(w) \/ RecordRun(w) \/ AddReply(w)
        BY <1>1, <3>4, RunMoves DEF CreateAppointment, CreateOrder, RecordRun, AddReply, Taken
      <3>5. CASE CountUsage(w)
        BY <1>1, <3>5, RunMoves DEF CountUsage, Taken, NextCount
      <3>6. CASE MarkFailed(w) \/ AwaitFails(w) \/ MarkFailedFails(w)
        BY <1>1, <3>6, RunMoves DEF MarkFailed, AwaitFails, MarkFailedFails
      <3>7. QED
        BY <1>2, <3>1, <3>2, <3>3, <3>4, <3>5, <3>6 DEF ServiceStep
    <2>3. CASE MarkProcessed(w)
      <3>1. Mark(run[w].message, "processed")
        BY <2>1, <2>3 DEF MarkProcessed
      <3>2. (UNCHANGED work) /\ \A v \in Workers \ {w} : run'[v] = run[v]
        BY <2>1 DEF GoesOn, Others
      <3>3. \E v \in Workers : \E s \in {"processed", "failed"} :
              /\ GoesOn(v) /\ Mark(run[v].message, s)
              /\ s = "processed" \/ (run'[v].step = "throw" /\ run[v].step = "catch")
        BY <2>1, <3>1
      <3>4. QED
        BY <2>1, <2>2, <3>2, <3>3
    <2>4. CASE MarkFailed(w)
      <3>1. Mark(run[w].message, "failed") /\ run'[w].step = "throw" /\ run[w].step = "catch"
        BY <1>1, <2>1, <2>4, RunMoves DEF MarkFailed, At
      <3>2. QED
        BY <2>1, <2>2, <3>1 DEF GoesOn, Others
    <2>5. CASE UNCHANGED eventVars
      BY <2>1, <2>2, <2>5 DEF GoesOn, Others, Settled
    <2>6. QED
      BY <1>2, <2>3, <2>4, <2>5
         DEF ServiceStep, FindRun, ReadProfile, SearchRefused, Decide, CreateAppointment,
             CreateOrder, OrderRefused, RecordRun, RunRefused, CountUsage, CounterRefused,
             AddReply, AwaitFails, MarkFailedFails
  <1>3. ASSUME NEW w \in Workers, CompleteTask(w) \/ FailTask(w) \/ WorkerStops(w) PROVE Goal
    <2>1. /\ run'[w].step = "idle" /\ \A v \in Workers \ {w} : run'[v] = run[v]
          /\ UNCHANGED eventVars /\ run[w].message \in Messages /\ Msg(w) = run[w].message
      BY <1>1, <1>3, RunMoves DEF CompleteTask, FailTask, WorkerStops, At, Msg
    <2>2. ASSUME NEW m \in Messages, work'[m].state = "completed"
          PROVE  \/ work[m].state = "completed"
                 \/ run[w].step = "return" /\ run[w].message = m /\ Queue!Owns(w, m)
      <3>1. CASE CompleteTask(w)
        BY <1>1, <2>1, <2>2, <3>1, QueueMoves DEF CompleteTask, At
      <3>2. CASE FailTask(w)
        BY <1>1, <2>1, <2>2, <3>2, QueueMoves DEF FailTask
      <3>3. CASE WorkerStops(w)
        BY <2>2, <3>3 DEF WorkerStops, queueVars
      <3>4. QED
        BY <1>3, <3>1, <3>2, <3>3
    <2>3. QED
      BY <2>1, <2>2 DEF Settled
  <1>4. ASSUME NEW m \in Messages, QueueActs(m) \/ EventActs(m) PROVE Goal
    <2>1. CASE RouteMessage(m) \/ RouteFails(m)
      BY <2>1 DEF RouteMessage, RouteFails, Settled
    <2>2. CASE EventActs(m)
      <3>1. status \in [Messages -> {"received", "queued", "processed", "failed", "expired"}]
        BY DEF TypeInv, TypeOK
      <3>2. \A n \in Messages : Settled(n) => Settled(n)'
        BY <2>2, <3>1 DEF EventActs, MarkQueued, WebhookMarksFailed, EventExpires, Rewrite, Settled
      <3>3. UNCHANGED <<run, work>>
        BY <2>2 DEF EventActs, MarkQueued, WebhookMarksFailed, EventExpires, queueVars
      <3>4. QED
        BY <3>2, <3>3
    <2>3. CASE StalledDead(m) \/ StalledSlow(m)
      <3>1. UNCHANGED <<eventVars, run>> /\ Queue!PutBack(m)
        BY <2>3 DEF StalledDead, StalledSlow
      <3>2. \A n \in Messages : work'[n].state = "completed" => work[n].state = "completed"
        BY <1>1, <3>1 DEF Queue!PutBack, Queue!Work
      <3>3. QED
        BY <3>1, <3>2 DEF Settled
    <2>4. ASSUME NEW w \in Workers, TakeTask(w, m) PROVE Goal
      <3>1. /\ run'[w].step \in {"find", "throw"} /\ \A v \in Workers \ {w} : run'[v] = run[v]
            /\ UNCHANGED eventVars /\ Queue!Take(w, m)
        BY <1>1, <2>4 DEF TakeTask, Run
      <3>2. QED
        BY <1>1, <3>1, QueueMoves DEF Settled
    <2>5. QED
      BY <1>4, <2>1, <2>2, <2>3, <2>4 DEF QueueActs
  <1>5. ASSUME NEW t \in Tenants, TenantActs(t) PROVE Goal
    BY <1>5 DEF TenantActs, ApiCreatesOrder, UpdateProfile, queueVars, Settled
  <1>6. CASE UNCHANGED vars
    BY <1>6 DEF vars, queueVars, Settled
  <1>7. QED
    BY <1>2, <1>3, <1>4, <1>5, <1>6 DEF Next, WorkerStep, WorkerFault, Drained

LEMMA OvertakenStays ==
  ASSUME TypeInv, [Next]_vars
  PROVE  overtaken \subseteq overtaken'
  BY TaskKinds DEF LeavesTasks, GoesOn, Others, EndsRun, StartsRun, PutsBack

LEMMA SettledStep == TypeInv /\ OwnedOK /\ SettledOK /\ [Next]_vars => SettledOK'
  <1> SUFFICES ASSUME TypeInv, OwnedOK, SettledOK, [Next]_vars PROVE SettledOK'
    OBVIOUS
  <1>1. /\ status \in [Messages -> {"received", "queued", "processed", "failed", "expired"}]
        /\ \A w \in Workers : run[w].step # "idle" => run[w].message \in Messages
    BY DEF TypeInv, TypeOK, ShapeOK
  \* A settled event stays so, unless it is not settled yet whose run fails.
  <1>2. ASSUME NEW m \in Messages, m \notin overtaken', Settled(m), ~Settled(m)'
        PROVE  \E w \in Workers : /\ run[w].step = "catch" /\ run[w].message = m
                                  /\ run'[w].step = "throw" /\ GoesOn(w)
    <2>1. PICK w \in Workers, s \in {"processed", "failed"} :
            /\ GoesOn(w) /\ Mark(run[w].message, s)
            /\ s = "processed" \/ (run'[w].step = "throw" /\ run[w].step = "catch")
      BY <1>2, StatusMoves
    <2>2. run[w].message = m /\ s = "failed"
      BY <1>1, <1>2, <2>1 DEF Mark, GoesOn, Settled
    <2>3. QED
      BY <2>1, <2>2
  <1>3. ASSUME NEW m \in Messages, m \notin overtaken', work'[m].state = "completed"
        PROVE  Settled(m)'
    <2>1. m \notin overtaken
      BY <1>3, OvertakenStays
    <2>2. CASE work[m].state = "completed"
      <3>1. Settled(m)
        BY <2>1, <2>2 DEF SettledOK, CompletedMeansSettled, Completed, Settled
      <3>2. ASSUME NEW w \in Workers, run[w].step = "catch", run[w].message = m PROVE FALSE
        BY <2>1, <2>2, <3>2 DEF OwnedOK, Queue!Owns
      <3>3. QED
        BY <1>2, <1>3, <3>1, <3>2
    <2>3. ASSUME NEW v \in Workers, run[v].step = "return", run[v].message = m, Queue!Owns(v, m)
          PROVE  Settled(m)'
      <3>1. Settled(m)
        BY <2>1, <2>3 DEF SettledOK
      <3>2. ASSUME NEW w \in Workers, run[w].step = "catch", run[w].message = m PROVE FALSE
        BY <2>1, <2>3, <3>2, OneRun
      <3>3. QED
        BY <1>2, <1>3, <3>1, <3>2
    <2>4. QED
      BY <1>3, <2>2, <2>3, StatusMoves
  <1>4. ASSUME NEW v \in Workers, run'[v].step = "return", run'[v].message \notin overtaken'
        PROVE  Settled(run[v].message)'
    <2>1. CASE run[v].step = "return" /\ run'[v].message = run[v].message
      <3> DEFINE m == run[v].message
      <3>1. m \in Messages /\ m \notin overtaken /\ m \notin overtaken' /\ m = run'[v].message
        BY <1>1, <1>4, <2>1, OvertakenStays
      <3>2. Settled(m)
        BY <2>1, <3>1 DEF SettledOK
      <3>3. ASSUME NEW w \in Workers, run[w].step = "catch", run[w].message = m PROVE FALSE
        BY <2>1, <3>1, <3>3, OneRun
      <3>4. QED
        BY <1>2, <3>1, <3>2, <3>3
    <2>2. CASE MarkProcessed(v) /\ GoesOn(v)
      BY <1>1, <2>2 DEF MarkProcessed, GoesOn, Mark, Msg, Settled
    <2>3. QED
      BY <1>4, <2>1, <2>2, StatusMoves
  <1>5. QED
    BY <1>3, <1>4 DEF SettledOK, CompletedMeansSettled, Completed, Settled

\* A task completes only after its event was marked, and what was marked stays so until
\* the webhook pipeline writes it again, unless a run of the task was overtaken.
THEOREM CompletedIsSettled == Spec => []CompletedMeansSettled
  <1>1. Init => OwnedOK /\ SettledOK
    <2> SUFFICES ASSUME Init PROVE OwnedOK /\ SettledOK
      OBVIOUS
    <2>1. \A w \in Workers : run[w].step = "idle"
      BY DEF Init, Idle
    <2>2. \A m \in Messages : work[m].state = "waiting"
      BY DEF Init, Queue!WorkInit
    <2>3. QED
      BY <2>1, <2>2 DEF OwnedOK, SettledOK, CompletedMeansSettled, Completed
  <1>2. SettledOK => CompletedMeansSettled
    BY DEF SettledOK
  <1>3. QED
    BY <1>1, <1>2, InitInv, TypeStep, OwnedStep, SettledStep, PTL DEF Spec

(***************************************************************************)
(* What a run does while nothing fails.                                    *)
(***************************************************************************)

Hop(w, from, to) == run[w].step = from /\ run'[w].step = to

EffectsKept == UNCHANGED <<appointments, orders, recorded, replies>>

\* The hops of a run that leave no effect behind.
QuietHop(w, m) ==
  /\ EffectsKept
  /\ \/ Hop(w, "find", "profile") /\ recorded[m] = Nothing
     \/ Hop(w, "find", "mark") /\ recorded[m] # Nothing
     \/ Hop(w, "profile", "decide")
     \/ Hop(w, "decide", "catch") /\ ~message[m].searchable
     \/ Hop(w, "decide", "appointment") \/ Hop(w, "decide", "order")
     \/ /\ Hop(w, "decide", "record")
        /\ run'[w].outcome.action \notin {"appointment.create", "order.create"}
     \/ Hop(w, "order", "catch") /\ message[m].tenant \in keyless
     \/ /\ Hop(w, "record", "catch")
        /\ recorded[m] # Nothing \/ message[m].tooLong \/ run[w].outcome.decision.blank
     \/ Hop(w, "count1", "count2") \/ Hop(w, "count2", "count3") \/ Hop(w, "count3", "reply")
     \/ FALSE \in CountersTaken /\ run[w].step \in Owing /\ run'[w].step = "catch"
     \/ Hop(w, "mark", "return") \/ Hop(w, "catch", "throw")

\* Those that do.
EffectHop(w, m) ==
  \/ /\ Hop(w, "appointment", "record") /\ run'[w].outcome = run[w].outcome
     /\ appointments' = [appointments EXCEPT ![m] = @ + 1]
     /\ UNCHANGED <<orders, recorded, replies>>
  \/ /\ Hop(w, "order", "record") /\ run'[w].outcome = run[w].outcome
     /\ orders' = [orders EXCEPT ![m] = @ + 1]
     /\ UNCHANGED <<appointments, recorded, replies>>
  \/ /\ Hop(w, "record", "count1") /\ recorded[m] = Nothing
     /\ recorded' = [recorded EXCEPT ![m] = run[w].outcome]
     /\ UNCHANGED <<appointments, orders, replies>>
  \/ /\ Hop(w, "reply", "mark")
     /\ replies' = [replies EXCEPT ![m] = IF @ = Nothing THEN run[w].outcome ELSE @]
     /\ UNCHANGED <<appointments, orders, recorded>>

LEMMA CalmHops ==
  ASSUME TypeInv, NEW w \in Workers, WorkerStep(w) \/ WorkerFault(w), faults' = 0,
         ~CompleteTask(w), ~FailTask(w), NEW m, m = run[w].message
  PROVE  GoesOn(w) /\ m \in Messages /\ (QuietHop(w, m) \/ EffectHop(w, m))
  <1> USE DEF Steps
  <1>1. faults \in Nat /\ ~Fault /\ run \in [Workers -> Run] /\ run[w] \in Run /\ Msg(w) = m
    BY DEF TypeInv, TypeOK, Fault, Msg
  <1>2. /\ ServiceStep(w) \/ MarkProcessed(w) \/ MarkFailed(w)
        /\ GoesOn(w)
    BY <1>1, GoesOnSteps DEF WorkerStep, WorkerFault, AwaitFails, MarkFailedFails, WorkerStops
  <1>3. m \in Messages /\ message[m].tenant = Tenant(w)
    BY <1>1, <1>2 DEF GoesOn, TypeInv, TypeOK, ShapeOK, Tenant
  <1> USE DEF At, EffectsKept, effectVars, Hop
  <1>4. CASE FindRun(w)
    BY <1>1, <1>2, <1>3, <1>4, RunMoves DEF FindRun, QuietHop
  <1>5. CASE ReadProfile(w)
    BY <1>1, <1>2, <1>3, <1>5 DEF ReadProfile, QuietHop, Run
  <1>6. CASE SearchRefused(w) \/ OrderRefused(w)
    BY <1>1, <1>2, <1>3, <1>6, RunMoves DEF SearchRefused, OrderRefused, QuietHop
  <1>7. CASE Decide(w)
    <2>1. PICK d \in Decided(message[m].text, message[m].answers) :
            LET a == ResolvedAction(d, run[w].profile) IN
            /\ run[w].step = "decide"
            /\ run'[w].outcome = [decision |-> d, action |-> a]
            /\ run'[w].step = CASE a = "appointment.create" -> "appointment"
                                [] a = "order.create" -> "order"
                                [] OTHER -> "record"
      BY <1>7, DecideStep
    <2>2. \/ run'[w].step \in {"appointment", "order"}
          \/ /\ run'[w].step = "record"
             /\ run'[w].outcome.action \notin {"appointment.create", "order.create"}
      BY <2>1
    <2>3. EffectsKept
      BY <1>7 DEF Decide
    <2>4. QED
      BY <1>2, <1>3, <2>1, <2>2, <2>3 DEF QuietHop
  <1>8. CASE CreateAppointment(w)
    BY <1>1, <1>2, <1>3, <1>8, RunMoves DEF CreateAppointment, Taken, EffectHop
  <1>9. CASE CreateOrder(w)
    BY <1>1, <1>2, <1>3, <1>9, RunMoves DEF CreateOrder, Taken, EffectHop
  <1>10. CASE RecordRun(w)
    BY <1>1, <1>2, <1>3, <1>10, RunMoves DEF RecordRun, Taken, EffectHop
  <1>11. CASE RunRefused(w)
    BY <1>1, <1>2, <1>3, <1>11, RunMoves DEF RunRefused, Unrecordable, QuietHop
  <1>12. CASE CountUsage(w)
    <2>1. /\ EffectsKept /\ run[w].step \in {"count1", "count2", "count3"}
          /\ RunTo(w, NextCount[run[w].step])
      BY <1>1, <1>12 DEF CountUsage, Taken, NextCount
    <2>2. \/ run[w].step = "count1" /\ RunTo(w, "count2")
          \/ run[w].step = "count2" /\ RunTo(w, "count3")
          \/ run[w].step = "count3" /\ RunTo(w, "reply")
      BY <2>1 DEF NextCount
    <2>3. QED
      BY <1>1, <1>2, <1>3, <2>1, <2>2, RunMoves DEF QuietHop
  <1>13. CASE CounterRefused(w)
    BY <1>1, <1>2, <1>3, <1>13, RunMoves DEF CounterRefused, NextCount, QuietHop, Owing
  <1>14. CASE AddReply(w)
    BY <1>1, <1>2, <1>3, <1>14, RunMoves DEF AddReply, EffectHop
  <1>15. CASE MarkProcessed(w) \/ MarkFailed(w)
    BY <1>1, <1>2, <1>3, <1>15, RunMoves DEF MarkProcessed, MarkFailed, Taken, QuietHop
  <1>16. QED
    BY <1>2, <1>4, <1>5, <1>6, <1>7, <1>8, <1>9, <1>10, <1>11, <1>12, <1>13, <1>14, <1>15
       DEF ServiceStep

(***************************************************************************)
(* The run kept tells what was done.                                       *)
(***************************************************************************)

Done(m, action) ==
  /\ action = "appointment.create" => appointments[m] > 0
  /\ action = "order.create" => orders[m] > 0

\* A run records, or has recorded, only what was done.
DoneOK ==
  /\ \A m \in Messages : recorded[m] # Nothing => Done(m, recorded[m].action)
  /\ \A w \in Workers : run[w].step = "record" => Done(run[w].message, run[w].outcome.action)

\* Steps that do nothing more, and bring no run to record.
Idles(w) ==
  /\ UNCHANGED <<appointments, orders, recorded>>
  /\ run'[w].step # "record" /\ \A v \in Workers \ {w} : run'[v] = run[v]

LEMMA DoneByWorkers ==
  ASSUME TypeInv, DoneOK, NEW w \in Workers, WorkerStep(w) \/ WorkerFault(w)
  PROVE  DoneOK'
  <1> DEFINE m == run[w].message
  <1> USE DEF Steps, At, effectVars
  <1>1. /\ run \in [Workers -> Run] /\ run[w] \in Run /\ Msg(w) = m
        /\ appointments \in [Messages -> Nat] /\ orders \in [Messages -> Nat]
        /\ recorded \in [Messages -> Outcomes \cup {Nothing}]
        /\ \A v \in Workers : run[v].step = "record" => run[v].message \in Messages
    BY DEF TypeInv, TypeOK, ShapeOK, Msg
  <1>2. /\ run[w].step # "idle" /\ m \in Messages
        /\ \A v \in Workers \ {w} : run'[v] = run[v]
    BY RunSteps, OtherRunSteps DEF WorkerStep, WorkerFault, Others, TypeInv, TypeOK, ShapeOK
  <1>3. CASE CreateAppointment(w)
    <2>1. /\ appointments' = [appointments EXCEPT ![m] = @ + 1] /\ UNCHANGED <<orders, recorded>>
          /\ run[w].outcome.action = "appointment.create"
          /\ run'[w].step = "record" => run'[w].outcome = run[w].outcome /\ run'[w].message = m
      BY <1>1, <1>3, RunMoves DEF CreateAppointment, Taken, TypeInv, ShapeOK
    <2>2. QED
      BY <1>1, <1>2, <2>1 DEF DoneOK, Done
  <1>4. CASE CreateOrder(w)
    <2>1. /\ orders' = [orders EXCEPT ![m] = @ + 1] /\ UNCHANGED <<appointments, recorded>>
          /\ run[w].outcome.action = "order.create"
          /\ run'[w].step = "record" => run'[w].outcome = run[w].outcome /\ run'[w].message = m
      BY <1>1, <1>4, RunMoves DEF CreateOrder, Taken, TypeInv, ShapeOK
    <2>2. QED
      BY <1>1, <1>2, <2>1 DEF DoneOK, Done
  <1>5. CASE RecordRun(w)
    <2>1. /\ recorded' = [recorded EXCEPT ![m] = run[w].outcome] /\ UNCHANGED <<appointments, orders>>
          /\ run[w].step = "record" /\ run'[w].step # "record"
      BY <1>1, <1>5, RunMoves DEF RecordRun, Taken
    <2>2. QED
      BY <1>1, <1>2, <2>1 DEF DoneOK, Done
  <1>6. CASE Decide(w)
    <2>1. PICK d \in Decided(message[m].text, message[m].answers) :
            LET a == ResolvedAction(d, run[w].profile) IN
            /\ run'[w].outcome = [decision |-> d, action |-> a]
            /\ run'[w].step = CASE a = "appointment.create" -> "appointment"
                                [] a = "order.create" -> "order"
                                [] OTHER -> "record"
      BY <1>6, DecideStep
    <2>2. run'[w].step = "record" =>
            run'[w].outcome.action \notin {"appointment.create", "order.create"}
      BY <2>1
    <2>3. UNCHANGED <<appointments, orders, recorded>>
      BY <1>6 DEF Decide
    <2>4. QED
      BY <1>2, <2>2, <2>3 DEF DoneOK, Done
  <1>7. CASE Idles(w)
    BY <1>2, <1>7 DEF DoneOK, Done, Idles
  <1>8. CASE FindRun(w)
    BY <1>1, <1>2, <1>7, <1>8, RunMoves DEF FindRun, Idles
  <1>9. CASE ReadProfile(w)
    BY <1>1, <1>2, <1>7, <1>9 DEF ReadProfile, Idles, Run
  <1>10. CASE SearchRefused(w) \/ OrderRefused(w) \/ RunRefused(w) \/ CounterRefused(w)
    BY <1>1, <1>2, <1>7, <1>10, RunMoves
       DEF SearchRefused, OrderRefused, RunRefused, CounterRefused, Idles
  <1>11. CASE CountUsage(w)
    BY <1>1, <1>2, <1>7, <1>11, RunMoves DEF CountUsage, Taken, NextCount, Idles
  <1>12. CASE AddReply(w)
    BY <1>1, <1>2, <1>7, <1>12, RunMoves DEF AddReply, Idles
  <1>13. CASE MarkProcessed(w) \/ MarkFailed(w) \/ MarkFailedFails(w)
    BY <1>1, <1>2, <1>7, <1>13, RunMoves DEF MarkProcessed, MarkFailed, MarkFailedFails, Taken, Idles
  <1>14. CASE AwaitFails(w) \/ CompleteTask(w) \/ FailTask(w) \/ WorkerStops(w)
    BY <1>1, <1>2, <1>7, <1>14, RunMoves DEF AwaitFails, CompleteTask, FailTask, WorkerStops, Idles
  <1>15. QED
    BY <1>3, <1>4, <1>5, <1>6, <1>8, <1>9, <1>10, <1>11, <1>12, <1>13, <1>14
       DEF WorkerStep, WorkerFault, ServiceStep

\* What the tenants and the queues do is no effect of a run.
LEMMA NoEffects ==
  ASSUME TypeInv, [Next]_vars, \A w \in Workers : ~WorkerStep(w) /\ ~WorkerFault(w)
  PROVE  /\ EffectsKept /\ keyless \subseteq keyless' /\ UNCHANGED message
         /\ \A w \in Workers : run'[w] = run[w] \/ \E m \in Messages : StartsRun(w, m)
         /\ \/ UNCHANGED <<run, work>>
            \/ \E w \in Workers, m \in Messages : StartsRun(w, m)
            \/ \E m \in Messages : PutsBack(m)
  <1> USE DEF EffectsKept, effectVars, inputVars, queueVars
  <1>1. ASSUME NEW m \in Messages, NEW w \in Workers, TakeTask(w, m)
        PROVE  StartsRun(w, m) /\ \A v \in Workers \ {w} : run'[v] = run[v]
    BY <1>1, TakeStarts DEF StartsRun, Others
  <1>2. ASSUME NEW m \in Messages, StalledDead(m) \/ StalledSlow(m) PROVE PutsBack(m)
    BY <1>2, StalledPutsBack
  <1>3. ASSUME NEW m \in Messages, NEW w \in Workers, TakeTask(w, m)
        PROVE  EffectsKept /\ UNCHANGED <<message, keyless>>
    BY <1>3 DEF TakeTask
  <1>4. ASSUME NEW m \in Messages, StalledDead(m) \/ StalledSlow(m)
        PROVE  EffectsKept /\ UNCHANGED <<message, keyless, run>>
    BY <1>4 DEF StalledDead, StalledSlow
  <1>5. ASSUME NEW m \in Messages, RouteMessage(m) \/ RouteFails(m) \/ EventActs(m)
        PROVE  EffectsKept /\ UNCHANGED <<message, keyless, run, work>>
    BY <1>5 DEF RouteMessage, RouteFails, EventActs, MarkQueued, WebhookMarksFailed, EventExpires
  <1>6. ASSUME NEW t \in Tenants, TenantActs(t)
        PROVE  EffectsKept /\ keyless \subseteq keyless' /\ UNCHANGED <<message, run, work>>
    BY <1>6 DEF TenantActs, ApiCreatesOrder, UpdateProfile
  <1>7. CASE UNCHANGED vars
    BY <1>7 DEF vars
  <1>8. QED
    BY <1>1, <1>2, <1>3, <1>4, <1>5, <1>6, <1>7 DEF Next, QueueActs, Drained

LEMMA DoneStep == TypeInv /\ DoneOK /\ [Next]_vars => DoneOK'
  <1> SUFFICES ASSUME TypeInv, DoneOK, [Next]_vars PROVE DoneOK'
    OBVIOUS
  <1>1. CASE \A w \in Workers : ~WorkerStep(w) /\ ~WorkerFault(w)
    <2>1. /\ EffectsKept
          /\ \A w \in Workers : run'[w].step = "record" => run'[w] = run[w]
      BY <1>1, NoEffects DEF StartsRun
    <2>2. QED
      BY <2>1 DEF EffectsKept, DoneOK, Done
  <1>2. QED
    BY <1>1, DoneByWorkers

\* a appointments and o orders are what an action makes, no more and no less.
Exactly(a, o, action) ==
  /\ a = IF action = "appointment.create" THEN 1 ELSE 0
  /\ o = IF action = "order.create" THEN 1 ELSE 0

Unrecorded == {"profile", "decide", "appointment", "order", "record"}

Recording(m) == {w \in Workers : run[w].step = "record" /\ run[w].message = m}

\* While nothing fails a message that can be recorded has the effect of its run, be it
\* recorded or about to be, and no other.
ExactOK ==
  faults = 0 =>
    /\ \A w \in Workers : run[w].step \in Unrecorded => recorded[run[w].message] = Nothing
    /\ \A m \in Messages : Recordable(m) =>
         /\ recorded[m] # Nothing => Exactly(appointments[m], orders[m], recorded[m].action)
         /\ recorded[m] = Nothing =>
              /\ \A w \in Recording(m) : Exactly(appointments[m], orders[m], run[w].outcome.action)
              /\ Recording(m) = {} => Exactly(appointments[m], orders[m], "none")

\* A run of the service that is not refused a recordable message.
LEMMA NotBlank ==
  ASSUME TypeInv, NEW w \in Workers, run[w].step = "record", Recordable(run[w].message)
  PROVE  ~message[run[w].message].tooLong /\ ~run[w].outcome.decision.blank
  <1>1. /\ message[run[w].message] \in Input
        /\ run[w].outcome.decision \in
             Decided(message[run[w].message].text, message[run[w].message].answers)
    BY InputsAssumption DEF TypeInv, TypeOK, ShapeOK, Resolved
  <1>2. QED
    BY <1>1, DecidedDecisions DEF Recordable

LEMMA ExactStep == TypeInv /\ OwnedOK /\ CalmOK /\ ExactOK /\ [Next]_vars => ExactOK'
  <1> DEFINE Before(n, action) == Exactly(appointments[n], orders[n], action)
             After(n, action) == Exactly(appointments'[n], orders'[n], action)
             Goal ==
        /\ \A w \in Workers : run'[w].step \in Unrecorded => recorded'[run'[w].message] = Nothing
        /\ \A m \in Messages : Recordable(m) =>
             /\ recorded'[m] # Nothing => After(m, recorded'[m].action)
             /\ recorded'[m] = Nothing =>
                  /\ \A w \in Recording(m)' : After(m, run'[w].outcome.action)
                  /\ Recording(m)' = {} => After(m, "none")
  <1> SUFFICES ASSUME TypeInv, OwnedOK, CalmOK, ExactOK, [Next]_vars, faults' = 0
               PROVE  Goal /\ UNCHANGED message
    BY DEF ExactOK, Recordable
  <1>1. /\ faults \in Nat /\ run \in [Workers -> Run]
        /\ appointments \in [Messages -> Nat] /\ orders \in [Messages -> Nat]
        /\ recorded \in [Messages -> Outcomes \cup {Nothing}]
        /\ \A w \in Workers : run[w].step # "idle" => run[w].message \in Messages
    BY DEF TypeInv, TypeOK, ShapeOK
  <1>2. ASSUME EffectsKept, faults = 0, UNCHANGED message,
               \A w \in Workers : run'[w] = run[w] \/
                 (run'[w].step \notin Unrecorded /\ run[w].step # "record")
        PROVE  Goal /\ UNCHANGED message
    <2>1. \A m \in Messages : Recording(m)' = Recording(m)
      BY <1>2 DEF Recording, Unrecorded
    <2>2. QED
      BY <1>2, <2>1 DEF EffectsKept, ExactOK, Exactly, Recording
  <1>3. ASSUME \A w \in Workers : ~WorkerStep(w) /\ ~WorkerFault(w)
        PROVE  Goal /\ UNCHANGED message
    <2>1. /\ EffectsKept /\ UNCHANGED message
          /\ \A w \in Workers : run'[w] = run[w] \/ \E m \in Messages : StartsRun(w, m)
      BY <1>3, NoEffects
    <2>2. faults = 0
      BY <1>1, TaskKinds DEF LeavesTasks, GoesOn, EndsRun, StartsRun, PutsBack, Others
    <2>3. QED
      BY <1>2, <2>1, <2>2 DEF StartsRun, Unrecorded
  <1>4. ASSUME NEW w \in Workers, CompleteTask(w) \/ FailTask(w) PROVE Goal /\ UNCHANGED message
    <2>1. Others(w) /\ run'[w].step = "idle" /\ run[w].step # "record" /\ EffectsKept
      BY <1>1, <1>4, OtherRunSteps, RunMoves DEF CompleteTask, FailTask, At, Steps, EffectsKept,
                                                effectVars
    <2>2. QED
      BY <1>1, <1>2, <2>1 DEF Others, Unrecorded
  <1>5. ASSUME NEW w \in Workers, WorkerStep(w) \/ WorkerFault(w), ~CompleteTask(w), ~FailTask(w),
               NEW m, m = run[w].message
        PROVE  Goal /\ UNCHANGED message
    <2>1. GoesOn(w) /\ m \in Messages /\ (QuietHop(w, m) \/ EffectHop(w, m))
      BY <1>5, CalmHops
    <2>2. /\ \A v \in Workers \ {w} : run'[v] = run[v]
          /\ run'[w].message = m /\ run[w].step # "idle" /\ run'[w].step # "idle"
          /\ faults = 0 /\ overtaken = {} /\ UNCHANGED message
      BY <1>1, <1>5, <2>1 DEF GoesOn, Others, CalmOK
    <2>3. \A v \in Workers \ {w} : run[v].step # "idle" => run[v].message # m
      BY <1>5, <2>2, OneRun
    <2>4. \A n \in Messages \ {m} : Recording(n)' = Recording(n)
      BY <1>5, <2>2 DEF Recording
    <2>5. /\ Recording(m) = IF run[w].step = "record" THEN {w} ELSE {}
          /\ Recording(m)' = IF run'[w].step = "record" THEN {w} ELSE {}
      BY <1>5, <2>2, <2>3 DEF Recording
    <2>6. run[w].step \in Unrecorded => recorded[m] = Nothing
      BY <1>5, <2>2 DEF ExactOK
    <2>7. Recordable(m) =>
            /\ recorded[m] # Nothing => Before(m, recorded[m].action)
            /\ recorded[m] = Nothing /\ run[w].step = "record" => Before(m, run[w].outcome.action)
            /\ recorded[m] = Nothing /\ run[w].step # "record" => Before(m, "none")
      BY <1>5, <2>1, <2>2, <2>5 DEF ExactOK
    <2>8. SUFFICES
            ASSUME \A n \in Messages \ {m} : /\ appointments'[n] = appointments[n]
                                             /\ orders'[n] = orders[n] /\ recorded'[n] = recorded[n]
            PROVE  /\ run'[w].step \in Unrecorded => recorded'[m] = Nothing
                   /\ Recordable(m) =>
                        /\ recorded'[m] # Nothing => After(m, recorded'[m].action)
                        /\ recorded'[m] = Nothing /\ run'[w].step = "record" =>
                             After(m, run'[w].outcome.action)
                        /\ recorded'[m] = Nothing /\ run'[w].step # "record" => After(m, "none")
      <3>1. \A n \in Messages \ {m} : /\ appointments'[n] = appointments[n]
                                      /\ orders'[n] = orders[n] /\ recorded'[n] = recorded[n]
        BY <1>1, <2>1 DEF QuietHop, EffectHop, EffectsKept
      <3>2. \A v \in Workers \ {w} : run[v].step \in Unrecorded =>
                                      run[v].message \in Messages \ {m}
        BY <1>1, <2>3 DEF Unrecorded
      <3>3. ASSUME /\ run'[w].step \in Unrecorded => recorded'[m] = Nothing
                   /\ Recordable(m) =>
                        /\ recorded'[m] # Nothing => After(m, recorded'[m].action)
                        /\ recorded'[m] = Nothing /\ run'[w].step = "record" =>
                             After(m, run'[w].outcome.action)
                        /\ recorded'[m] = Nothing /\ run'[w].step # "record" => After(m, "none")
            PROVE  Goal
        <4>1. \A v \in Workers : run'[v].step \in Unrecorded => recorded'[run'[v].message] = Nothing
          BY <2>2, <3>1, <3>2, <3>3 DEF ExactOK
        <4>2. ASSUME NEW n \in Messages \ {m}, Recordable(n)
              PROVE  /\ recorded'[n] # Nothing => After(n, recorded'[n].action)
                     /\ recorded'[n] = Nothing =>
                          /\ \A v \in Recording(n)' : After(n, run'[v].outcome.action)
                          /\ Recording(n)' = {} => After(n, "none")
          <5>1. \A v \in Recording(n) : run'[v] = run[v]
            BY <1>5, <2>2 DEF Recording
          <5>2. QED
            BY <2>2, <2>4, <3>1, <4>2, <5>1 DEF ExactOK, Exactly
        <4>3. QED
          BY <2>1, <2>5, <3>3, <4>1, <4>2
      <3>4. QED
        BY <2>2, <3>1, <3>3
    <2>9. CASE QuietHop(w, m)
      <3>1. CASE Hop(w, "decide", "record")
        BY <2>6, <2>7, <2>9, <3>1 DEF QuietHop, EffectsKept, Hop, Exactly, Unrecorded
      <3>2. CASE Hop(w, "record", "catch")
        <4>1. ~Recordable(m)
          BY <1>5, <2>6, <2>9, <3>2, NotBlank DEF QuietHop, Hop, Unrecorded, Owing
        <4>2. QED
          BY <3>2, <4>1 DEF Hop, Unrecorded
      <3>3. CASE run[w].step # "record" /\ run'[w].step # "record"
        <4>1. run'[w].step \in Unrecorded => recorded[m] = Nothing
          BY <2>6, <2>9, <3>3 DEF QuietHop, Hop, Unrecorded, Owing
        <4>2. QED
          BY <2>7, <2>9, <3>3, <4>1 DEF QuietHop, EffectsKept, Exactly
      <3>4. QED
        BY <2>9, <3>1, <3>2, <3>3 DEF QuietHop, Hop, Owing
    <2>10. CASE EffectHop(w, m)
      <3>1. /\ run[w].step = "appointment" => run[w].outcome.action = "appointment.create"
            /\ run[w].step = "order" => run[w].outcome.action = "order.create"
            /\ run[w].step = "record" => run[w].outcome \in Outcomes
        BY DEF TypeInv, ShapeOK, Resolved
      <3>2. CASE Hop(w, "appointment", "record")
        BY <1>1, <2>1, <2>6, <2>7, <2>10, <3>1, <3>2 DEF EffectHop, Hop, Exactly, Unrecorded
      <3>3. CASE Hop(w, "order", "record")
        BY <1>1, <2>1, <2>6, <2>7, <2>10, <3>1, <3>3 DEF EffectHop, Hop, Exactly, Unrecorded
      <3>4. CASE Hop(w, "record", "count1")
        BY <1>1, <2>1, <2>6, <2>7, <2>10, <3>1, <3>4, NothingAssumption
           DEF EffectHop, Hop, Exactly, Unrecorded
      <3>5. CASE Hop(w, "reply", "mark")
        BY <1>1, <2>1, <2>6, <2>7, <2>10, <3>1, <3>5 DEF EffectHop, Hop, Exactly, Unrecorded
      <3>6. QED
        BY <2>10, <3>2, <3>3, <3>4, <3>5 DEF EffectHop
    <2>11. QED
      BY <2>1, <2>9, <2>10
  <1>6. QED
    BY <1>3, <1>4, <1>5

\* The run kept tells what was done, and of a message that can be recorded exactly that
\* while nothing fails.
THEOREM RecordMatches == Spec => []RecordMatchesEffects
  <1>1. Init => OwnedOK /\ CalmOK /\ DoneOK /\ ExactOK
    <2> SUFFICES ASSUME Init PROVE OwnedOK /\ CalmOK /\ DoneOK /\ ExactOK
      OBVIOUS
    <2>1. \A w \in Workers : run[w].step = "idle"
      BY DEF Init, Idle
    <2>2. \A m \in Messages : /\ work[m].state = "waiting" /\ work[m].stalled = 0
                              /\ recorded[m] = Nothing /\ appointments[m] = 0 /\ orders[m] = 0
      BY DEF Init, Queue!WorkInit
    <2>3. OwnedOK /\ CalmOK
      BY <2>1, <2>2 DEF OwnedOK, CalmOK, Init
    <2>4. DoneOK /\ ExactOK
      BY <2>1, <2>2 DEF DoneOK, ExactOK, Exactly, Recording, Unrecorded
    <2>5. QED
      BY <2>3, <2>4
  <1>2. DoneOK /\ ExactOK => RecordMatchesEffects
    BY DEF DoneOK, ExactOK, Done, Exactly, RecordMatchesEffects
  <1>3. QED
    BY <1>1, <1>2, InitInv, TypeStep, OwnedStep, CalmStep, DoneStep, ExactStep, PTL DEF Spec

(***************************************************************************)
(* What a completed task leaves behind, and who runs it.                   *)
(***************************************************************************)

\* Two slots run the task of one message only after a slow run of it was overtaken.
THEOREM OneRunOfATask ==
  Spec => [](\A v, w \in Workers :
               /\ run[v].step # "idle" /\ run[w].step # "idle"
               /\ run[v].message = run[w].message /\ run[v].message \notin overtaken
               => v = w)
  <1>1. OwnedOK => \A v, w \in Workers :
                     /\ run[v].step # "idle" /\ run[w].step # "idle"
                     /\ run[v].message = run[w].message /\ run[v].message \notin overtaken
                     => v = w
    BY OneRun
  <1>2. Init => OwnedOK
    BY DEF Init, Idle, OwnedOK
  <1>3. QED
    BY <1>1, <1>2, InitInv, TypeStep, OwnedStep, PTL DEF Spec

\* A run that is done with its message found a run of it recorded, or recorded it.
RecordedOK ==
  /\ \A w \in Workers : run[w].step \in {"mark", "return"} => recorded[run[w].message] # Nothing
  /\ \A m \in Messages : Completed(m) => recorded[m] # Nothing

LEMMA RecordedStays ==
  ASSUME TypeInv, CountOK, [Next]_vars, NEW m \in Messages, recorded[m] # Nothing
  PROVE  recorded'[m] # Nothing
  BY PromiseStep DEF Promise!Next, Promise!Keep, Promise!Send, TypeInv, TypeOK

\* How a run comes to mark its event.
LEMMA MarkMoves ==
  ASSUME TypeInv, [Next]_vars, NEW w \in Workers, run'[w].step = "mark"
  PROVE  run'[w] = run[w] \/ FindRun(w) \/ AddReply(w)
  <1> USE DEF Steps
  <1>1. run \in [Workers -> Run] /\ \A v \in Workers : run[v] \in Run
    BY DEF TypeInv, TypeOK
  <1>2. ASSUME NEW v \in Workers, v # w, WorkerStep(v) \/ WorkerFault(v) PROVE run'[w] = run[w]
    BY <1>2, RunSteps, OtherRunSteps DEF WorkerStep, WorkerFault, Others
  <1>3. ASSUME WorkerStep(w) \/ WorkerFault(w) PROVE FindRun(w) \/ AddReply(w)
    <2>1. ~ReadProfile(w)
      BY <1>1 DEF ReadProfile, Run
    <2>2. ~Decide(w)
      <3>1. ASSUME Decide(w) PROVE FALSE
        <4> DEFINE m == run[w].message
        <4>1. PICK d \in Decided(message[m].text, message[m].answers) :
                LET a == ResolvedAction(d, run[w].profile) IN
                run'[w].step = CASE a = "appointment.create" -> "appointment"
                                 [] a = "order.create" -> "order"
                                 [] OTHER -> "record"
          BY <3>1, DecideStep
        <4>2. QED
          BY <4>1
      <3>2. QED
        BY <3>1
    <2>3. ~SearchRefused(w) /\ ~OrderRefused(w) /\ ~RunRefused(w) /\ ~CounterRefused(w)
      BY <1>1, RunMoves DEF SearchRefused, OrderRefused, RunRefused, CounterRefused
    <2>4. ~CreateAppointment(w) /\ ~CreateOrder(w) /\ ~RecordRun(w)
      BY <1>1, RunMoves DEF CreateAppointment, CreateOrder, RecordRun, Taken
    <2>5. ~CountUsage(w)
      <3>1. ASSUME CountUsage(w) PROVE FALSE
        <4>1. /\ NextCount[run[w].step] \in {"count2", "count3", "reply"}
              /\ RunTo(w, NextCount[run[w].step]) \/ Leave(w, "catch")
          BY <3>1 DEF CountUsage, Taken, NextCount
        <4>2. QED
          BY <1>1, <4>1, RunMoves
      <3>2. QED
        BY <3>1
    <2>6. ~MarkProcessed(w) /\ ~MarkFailed(w) /\ ~AwaitFails(w) /\ ~MarkFailedFails(w)
      BY <1>1, RunMoves DEF MarkProcessed, MarkFailed, AwaitFails, MarkFailedFails, Taken
    <2>7. ~CompleteTask(w) /\ ~FailTask(w) /\ ~WorkerStops(w)
      BY <1>1, RunMoves DEF CompleteTask, FailTask, WorkerStops
    <2>8. QED
      BY <1>3, <2>1, <2>2, <2>3, <2>4, <2>5, <2>6, <2>7 DEF WorkerStep, WorkerFault, ServiceStep
  <1>4. ASSUME NEW m \in Messages, QueueActs(m) \/ EventActs(m) PROVE run'[w] = run[w]
    <2>1. ASSUME NEW v \in Workers, TakeTask(v, m) PROVE run'[w] = run[w]
      BY <2>1, TakeStarts DEF StartsRun, Others
    <2>2. QED
      BY <1>4, <2>1 DEF QueueActs, RouteMessage, RouteFails, StalledDead, StalledSlow, EventActs,
                        MarkQueued, WebhookMarksFailed, EventExpires
  <1>5. ASSUME NEW t \in Tenants, TenantActs(t) PROVE run'[w] = run[w]
    BY <1>5 DEF TenantActs, ApiCreatesOrder, UpdateProfile
  <1>6. CASE UNCHANGED vars
    BY <1>6 DEF vars
  <1>7. QED
    BY <1>2, <1>3, <1>4, <1>5, <1>6 DEF Next, Drained

LEMMA RecordedStep == TypeInv /\ CountOK /\ RecordedOK /\ [Next]_vars => RecordedOK'
  <1> SUFFICES ASSUME TypeInv, CountOK, RecordedOK, [Next]_vars PROVE RecordedOK'
    OBVIOUS
  <1>1. run \in [Workers -> Run] /\ \A w \in Workers :
          /\ run[w] \in Run
          /\ run[w].step # "idle" => run[w].message \in Messages
    BY DEF TypeInv, TypeOK, ShapeOK
  <1>2. ASSUME NEW w \in Workers, run'[w].step = "mark"
        PROVE  recorded'[run'[w].message] # Nothing
    <2>1. CASE run'[w] = run[w]
      BY <1>1, <1>2, <2>1, RecordedStays DEF RecordedOK
    <2>2. CASE FindRun(w)
      <3>1. recorded[run[w].message] # Nothing /\ run[w].step = "find"
        BY <1>1, <1>2, <2>2, RunMoves DEF FindRun, At, Msg, Steps
      <3>2. run'[w].message = run[w].message
        BY <2>2, RunSteps DEF ServiceStep, FindRun, ReadProfile, Decide, At, Shaped
      <3>3. QED
        BY <1>1, <3>1, <3>2, RecordedStays
    <2>3. CASE AddReply(w)
      <3>1. recorded[run[w].message] # Nothing /\ run[w].step = "reply"
        BY <2>3 DEF AddReply, At, CountOK, Owing
      <3>2. run'[w].message = run[w].message
        BY <1>1, <2>3, RunMoves DEF AddReply, Steps
      <3>3. QED
        BY <1>1, <3>1, <3>2, RecordedStays
    <2>4. QED
      BY <1>2, <2>1, <2>2, <2>3, MarkMoves
  <1>3. ASSUME NEW w \in Workers, run'[w].step = "return"
        PROVE  recorded'[run'[w].message] # Nothing
    <2>1. /\ run[w].step \in {"mark", "return"} /\ run'[w].message = run[w].message
      BY <1>3, StatusMoves DEF MarkProcessed, At, GoesOn
    <2>2. QED
      BY <1>1, <2>1, RecordedStays DEF RecordedOK
  <1>4. ASSUME NEW m \in Messages, Completed(m)' PROVE recorded'[m] # Nothing
    <2>1. Completed(m) \/ \E w \in Workers : run[w].step = "return" /\ run[w].message = m
      BY <1>4, StatusMoves DEF Completed
    <2>2. QED
      BY <2>1, RecordedStays DEF RecordedOK
  <1>5. QED
    BY <1>2, <1>3, <1>4 DEF RecordedOK

\* A task completes only for a message whose run was recorded, by its attempt or by one
\* before it: what TaskEnds says of completed tasks, without its fairness.
THEOREM CompletedIsRecorded == Spec => [](\A m \in Messages : Completed(m) => recorded[m] # Nothing)
  <1>1. Init => RecordedOK
    BY DEF Init, Idle, RecordedOK, Completed, Queue!WorkInit
  <1>2. RecordedOK => \A m \in Messages : Completed(m) => recorded[m] # Nothing
    BY DEF RecordedOK
  <1>3. QED
    BY <1>1, <1>2, InitInv, TypeStep, CountStep, RecordedStep, PTL DEF Spec

(***************************************************************************)
(* The replies that are lost.                                              *)
(***************************************************************************)

\* The reply of a recorded run was added, or the slot that recorded it is about to, or
\* that slot was cut.
AnswerOK ==
  \A m \in Messages : recorded[m] # Nothing /\ replies[m] = Nothing =>
    m \in cut \/ \E w \in Workers : run[w].step \in Owing /\ run[w].message = m

\* A run that owes its reply goes on owing it, sends it, or is cut.
Owes(w) == run'[w].step \in Owing /\ run'[w].message = run[w].message

LEMMA OwingMoves ==
  ASSUME TypeInv, NEW w \in Workers, WorkerStep(w) \/ WorkerFault(w), run[w].step \in Owing
  PROVE  Owes(w) \/ Msg(w) \in cut' \/ AddReply(w)
  <1> USE DEF Steps, Owing
  <1>1. run \in [Workers -> Run]
    BY DEF TypeInv, TypeOK
  <1>2. CASE CountUsage(w)
    BY <1>1, <1>2, RunMoves DEF CountUsage, Taken, CutAt, NextCount, Owes
  <1>3. CASE CounterRefused(w) \/ AwaitFails(w) \/ WorkerStops(w)
    BY <1>3 DEF CounterRefused, AwaitFails, WorkerStops, CutAt
  <1>4. QED
    BY <1>2, <1>3
       DEF WorkerStep, WorkerFault, ServiceStep, At, FindRun, ReadProfile, SearchRefused, Decide,
           CreateAppointment, CreateOrder, OrderRefused, RecordRun, RunRefused, MarkProcessed,
           MarkFailed, CompleteTask, FailTask, MarkFailedFails

LEMMA AnswerStep == TypeInv /\ CountOK /\ AnswerOK /\ [Next]_vars => AnswerOK'
  <1> SUFFICES ASSUME TypeInv, CountOK, AnswerOK, [Next]_vars PROVE AnswerOK'
    OBVIOUS
  <1> USE DEF Steps, Owing
  <1>1. /\ run \in [Workers -> Run]
        /\ recorded \in [Messages -> Outcomes \cup {Nothing}]
        /\ replies \in [Messages -> Outcomes \cup {Nothing}]
        /\ \A w \in Workers : run[w].step # "idle" => run[w].message \in Messages
    BY DEF TypeInv, TypeOK, ShapeOK
  <1>2. CASE \A w \in Workers : ~WorkerStep(w) /\ ~WorkerFault(w)
    <2>1. /\ UNCHANGED <<recorded, replies>>
          /\ \A w \in Workers : run'[w] = run[w] \/ \E m \in Messages : StartsRun(w, m)
      BY <1>2, NoEffects DEF EffectsKept
    <2>2. UNCHANGED cut
      BY <1>2 DEF Next, QueueActs, RouteMessage, RouteFails, StalledDead, StalledSlow, TakeTask,
                  EventActs, MarkQueued, WebhookMarksFailed, EventExpires, TenantActs,
                  ApiCreatesOrder, UpdateProfile, Drained, vars
    <2>3. QED
      BY <2>1, <2>2 DEF AnswerOK, StartsRun
  <1>3. ASSUME NEW w \in Workers, WorkerStep(w) \/ WorkerFault(w) PROVE AnswerOK'
    <2> DEFINE m == run[w].message
    <2>1. /\ \A v \in Workers \ {w} : run'[v] = run[v]
          /\ cut \subseteq cut' /\ run[w].step # "idle" /\ m \in Messages /\ Msg(w) = m
      BY <1>1, <1>3, CutMoves, RunSteps, OtherRunSteps DEF WorkerStep, WorkerFault, Others, Msg
    <2> HIDE DEF m
    <2>2. ASSUME NEW n \in Messages, recorded[n] # Nothing, replies[n] = Nothing,
                 replies'[n] = Nothing
          PROVE  n \in cut' \/ \E v \in Workers : run'[v].step \in Owing /\ run'[v].message = n
      <3>1. CASE n \in cut
        BY <2>1, <3>1
      <3>2. ASSUME NEW v \in Workers \ {w}, run[v].step \in Owing, run[v].message = n
            PROVE  \E u \in Workers : run'[u].step \in Owing /\ run'[u].message = n
        BY <2>1, <3>2
      <3>3. ASSUME run[w].step \in Owing, m = n
            PROVE  n \in cut' \/ \E v \in Workers : run'[v].step \in Owing /\ run'[v].message = n
        <4>1. ASSUME AddReply(w) PROVE replies'[m] # Nothing
          <5>1. run[w].outcome # Nothing
            BY <3>3, NothingAssumption DEF TypeInv, ShapeOK, Resolved
          <5>2. QED
            BY <1>1, <2>1, <4>1, <5>1 DEF AddReply
        <4>2. Owes(w) \/ m \in cut'
          BY <1>3, <2>1, <2>2, <3>3, <4>1, OwingMoves
        <4>3. QED
          BY <3>3, <4>2 DEF Owes, m
      <3>4. QED
        BY <2>2, <3>1, <3>2, <3>3 DEF AnswerOK, m
    <2>3. CASE RecordRun(w)
      <3>1. /\ \A n \in Messages \ {m} : recorded'[n] = recorded[n]
            /\ UNCHANGED replies
            /\ m \in cut' \/ (run'[w].step \in Owing /\ run'[w].message = m)
        BY <1>1, <2>1, <2>3, RunMoves DEF RecordRun, Taken, CutAt, m
      <3>2. QED
        BY <2>1, <2>2, <3>1 DEF AnswerOK
    <2>4. CASE ~RecordRun(w)
      <3>1. UNCHANGED recorded
        BY <1>3, <2>4 DEF WorkerStep, WorkerFault, ServiceStep, FindRun, ReadProfile, SearchRefused,
                          Decide, CreateAppointment, CreateOrder, OrderRefused, RunRefused,
                          CountUsage, CounterRefused, AddReply, MarkProcessed, MarkFailed,
                          CompleteTask, FailTask, AwaitFails, MarkFailedFails, WorkerStops,
                          effectVars
      <3>2. \A n \in Messages : replies[n] # Nothing => replies'[n] # Nothing
        BY <1>1, PromiseStep DEF Promise!Next, Promise!Keep, Promise!Send
      <3>3. QED
        BY <2>2, <3>1, <3>2 DEF AnswerOK
    <2>5. QED
      BY <2>3, <2>4
  <1>4. QED
    BY <1>2, <1>3

\* A task completes without its reply only if a run of its message was left between the
\* record of the run and the reply, or overtaken: no order of attempts, stalls and slots
\* alone loses one.
THEOREM LostRepliesAreExplained == Spec => []LostReplyExplained
  <1>1. Init => OwnedOK /\ RecordedOK /\ AnswerOK
    <2> SUFFICES ASSUME Init PROVE OwnedOK /\ RecordedOK /\ AnswerOK
      OBVIOUS
    <2>1. /\ \A w \in Workers : run[w].step = "idle"
          /\ \A m \in Messages : recorded[m] = Nothing /\ work[m].state = "waiting"
      BY DEF Init, Idle, Queue!WorkInit
    <2>2. QED
      BY <2>1 DEF OwnedOK, RecordedOK, AnswerOK, Completed
  <1>2. OwnedOK /\ RecordedOK /\ AnswerOK => LostReplyExplained
    BY DEF OwnedOK, RecordedOK, AnswerOK, LostReplyExplained, Completed, Owing, Queue!Owns
  <1>3. QED
    BY <1>1, <1>2, InitInv, TypeStep, CountStep, OwnedStep, RecordedStep, AnswerStep, PTL
       DEF Spec

(***************************************************************************)
(* How tasks fail while nothing fails.                                     *)
(***************************************************************************)

\* The messages whose tasks may fail.
Excused ==
  {m \in Messages : \/ ~message[m].searchable \/ ~Recordable(m)
                    \/ orders[m] = 0 /\ message[m].tenant \in keyless}

\* A counter may be refused, and an attempt lost to it is not the last one.
CounterMayFail == FALSE \in CountersTaken
Spared         == CounterMayFail => MaxAttempts > 1

\* While nothing fails, only the first attempt at a message without excuse can fail, by a
\* counter refused after its run was recorded: the next one finds the run.
FateOK ==
  faults = 0 /\ Spared =>
    /\ \A w \in Workers :
         /\ run[w].step \in Owing =>
              run[w].message \in Excused \/ work[run[w].message].made = 0
         /\ run[w].step \in {"catch", "throw"} =>
              \/ run[w].message \in Excused
              \/ /\ CounterMayFail /\ work[run[w].message].made = 0
                 /\ recorded[run[w].message] # Nothing
    /\ \A m \in Messages :
         /\ work[m].made # 0 => m \in Excused \/ recorded[m] # Nothing
         /\ work[m].state = "failed" => m \in Excused

\* Runs that end are counted, and a task fails with its last attempt or given up.
LEMMA MadeMoves ==
  ASSUME Queue!WorkOK, NEW w \in Workers, NEW m \in Messages,
         Queue!Complete(w, m) \/ Queue!Fail(w, m)
  PROVE  /\ \A n \in Messages \ {m} : work'[n] = work[n]
         /\ work[m].made \in Nat /\ work'[m].made \in {work[m].made, work[m].made + 1}
         /\ Queue!Complete(w, m) /\ work'[m].state = "failed" => work[m].state = "failed"
         /\ Queue!Fail(w, m) /\ work'[m].state = "failed" =>
              work[m].state = "failed" \/ work[m].made + 1 >= MaxAttempts \/ Queue!GivenUp(m)
  <1>1. work \in [Messages -> Queue!Work] /\ work[m] \in Queue!Work
    BY DEF Queue!WorkOK
  <1>2. QED
    BY <1>1, BoundsAssumption
       DEF Queue!Work, Queue!Complete, Queue!Fail, Queue!LastTry, Queue!Owns

LEMMA MadeStays ==
  ASSUME TypeInv, [Next]_vars, \A w \in Workers : ~CompleteTask(w) /\ ~FailTask(w)
  PROVE  \A m \in Messages : /\ work'[m].made = work[m].made
                             /\ work'[m].state = "failed" => work[m].state = "failed"
  <1> DEFINE Goal == \A m \in Messages :
                       /\ work'[m].made = work[m].made
                       /\ work'[m].state = "failed" => work[m].state = "failed"
  <1>1. work \in [Messages -> Queue!Work]
    BY DEF TypeInv, TypeOK, Queue!WorkOK
  <1>2. ASSUME NEW m \in Messages, NEW w \in Workers, Queue!Take(w, m) PROVE Goal
    BY <1>1, <1>2 DEF Queue!Take, Queue!Work
  <1>3. ASSUME NEW m \in Messages, Queue!PutBack(m) PROVE Goal
    BY <1>1, <1>3 DEF Queue!PutBack, Queue!Work
  <1>4. CASE UNCHANGED work
    BY <1>4
  <1>5. ASSUME NEW m \in Messages, QueueActs(m) PROVE Goal
    BY <1>2, <1>3, <1>4, <1>5
       DEF QueueActs, RouteMessage, RouteFails, StalledDead, StalledSlow, TakeTask
  <1>6. ASSUME NEW m \in Messages, EventActs(m) PROVE Goal
    BY <1>4, <1>6 DEF EventActs, MarkQueued, WebhookMarksFailed, EventExpires, queueVars
  <1>7. ASSUME NEW t \in Tenants, TenantActs(t) PROVE Goal
    BY <1>4, <1>7 DEF TenantActs, ApiCreatesOrder, UpdateProfile, queueVars
  <1>8. ASSUME NEW w \in Workers, WorkerStep(w) \/ WorkerFault(w) PROVE Goal
    BY <1>4, <1>8, GoesOnSteps DEF WorkerStep, WorkerFault, GoesOn, WorkerStops, queueVars
  <1>9. QED
    BY <1>4, <1>5, <1>6, <1>7, <1>8 DEF Next, Drained, vars, queueVars

LEMMA KeylessGrows ==
  ASSUME NEW w \in Workers, WorkerStep(w) \/ WorkerFault(w)
  PROVE  keyless \subseteq keyless'
  <1>1. CASE CreateOrder(w)
    BY <1>1 DEF CreateOrder
  <1>2. CASE ~CreateOrder(w)
    BY <1>2 DEF WorkerStep, WorkerFault, ServiceStep, FindRun, ReadProfile, SearchRefused, Decide,
                CreateAppointment, OrderRefused, RecordRun, RunRefused, CountUsage, CounterRefused,
                AddReply, MarkProcessed, MarkFailed, CompleteTask, FailTask, AwaitFails,
                MarkFailedFails, WorkerStops, effectVars
  <1>3. QED
    BY <1>1, <1>2

\* An order that was never made for another without external id never will be.
LEMMA ExcusedStays ==
  ASSUME TypeInv, [Next]_vars
  PROVE  Excused \subseteq Excused' /\ UNCHANGED message
  <1>1. orders \in [Messages -> Nat]
    BY DEF TypeInv, TypeOK
  <1>2. ASSUME NEW w \in Workers, WorkerStep(w) \/ WorkerFault(w)
        PROVE  Excused \subseteq Excused' /\ UNCHANGED message
    <2>1. UNCHANGED message
      BY <1>2, RunSteps, OtherRunSteps DEF WorkerStep, WorkerFault, Others
    <2>2. CASE CreateOrder(w)
      <3>1. /\ Tenant(w) \notin keyless /\ keyless \subseteq keyless'
            /\ \A n \in Messages \ {Msg(w)} : orders'[n] = orders[n]
        BY <1>1, <2>2 DEF CreateOrder
      <3>2. QED
        BY <2>1, <3>1 DEF Excused, Recordable, Tenant
    <2>3. CASE ~CreateOrder(w)
      <3>1. UNCHANGED orders
        BY <1>2, <2>3 DEF WorkerStep, WorkerFault, ServiceStep, FindRun, ReadProfile,
                          SearchRefused, Decide, CreateAppointment, OrderRefused, RecordRun,
                          RunRefused, CountUsage, CounterRefused, AddReply, MarkProcessed,
                          MarkFailed, CompleteTask, FailTask, AwaitFails, MarkFailedFails,
                          WorkerStops, effectVars
      <3>2. QED
        BY <1>2, <2>1, <3>1, KeylessGrows DEF Excused, Recordable
    <2>4. QED
      BY <2>2, <2>3
  <1>3. CASE \A w \in Workers : ~WorkerStep(w) /\ ~WorkerFault(w)
    BY <1>3, NoEffects DEF Excused, Recordable, EffectsKept
  <1>4. QED
    BY <1>2, <1>3

LEMMA FateStep ==
  TypeInv /\ CountOK /\ OwnedOK /\ CalmOK /\ ExactOK /\ RecordedOK /\ FateOK /\ [Next]_vars
    => FateOK'
  <1> DEFINE Goal ==
        /\ \A v \in Workers :
             /\ run'[v].step \in Owing =>
                  run'[v].message \in Excused' \/ work'[run'[v].message].made = 0
             /\ run'[v].step \in {"catch", "throw"} =>
                  \/ run'[v].message \in Excused'
                  \/ /\ CounterMayFail /\ work'[run'[v].message].made = 0
                     /\ recorded'[run'[v].message] # Nothing
        /\ \A n \in Messages :
             /\ work'[n].made # 0 => n \in Excused' \/ recorded'[n] # Nothing
             /\ work'[n].state = "failed" => n \in Excused'
  <1> SUFFICES ASSUME TypeInv, CountOK, OwnedOK, CalmOK, ExactOK, RecordedOK, FateOK,
                      [Next]_vars, faults' = 0, Spared
               PROVE  Goal
    BY DEF FateOK
  <1>1. /\ faults \in Nat /\ run \in [Workers -> Run] /\ Queue!WorkOK
        /\ recorded \in [Messages -> Outcomes \cup {Nothing}]
        /\ \A m \in Messages : work[m].made \in Nat
        /\ \A w \in Workers : run[w].step # "idle" => run[w].message \in Messages
    BY BoundsAssumption DEF TypeInv, TypeOK, ShapeOK, Queue!WorkOK, Queue!Work
  <1>2. faults = 0 /\ overtaken = {}
    <2>1. faults' \in {faults, faults + 1}
      BY TaskKinds DEF LeavesTasks, GoesOn, EndsRun, StartsRun, PutsBack, Others
    <2>2. QED
      BY <1>1, <2>1 DEF CalmOK
  <1>3. Excused \subseteq Excused' /\ \A n \in Messages : recorded[n] # Nothing => recorded'[n] # Nothing
    BY ExcusedStays, RecordedStays
  <1>4. CASE \A w \in Workers : ~WorkerStep(w) /\ ~WorkerFault(w)
    <2>1. \A w \in Workers : run'[w] = run[w] \/ (run[w].step = "idle" /\ run'[w].step = "find")
      <3>1. \A w \in Workers : run'[w] = run[w] \/ \E m \in Messages : StartsRun(w, m)
        BY <1>4, NoEffects
      <3>2. \A w \in Workers, m \in Messages : StartsRun(w, m) => run'[w].step = "find"
        BY <1>2, BoundsAssumption DEF CalmOK, StartsRun, Queue!GivenUp
      <3>3. QED
        BY <3>1, <3>2 DEF StartsRun
    <2>2. \A m \in Messages : /\ work'[m].made = work[m].made
                              /\ work'[m].state = "failed" => work[m].state = "failed"
      BY <1>4, MadeStays DEF WorkerStep
    <2>3. ASSUME NEW v \in Workers, run'[v].step \in Owing \cup {"catch", "throw"}
          PROVE  /\ run'[v] = run[v] /\ run[v].message \in Messages
                 /\ work'[run[v].message].made = work[run[v].message].made
      BY <1>1, <2>1, <2>2, <2>3 DEF Owing
    <2>4. QED
      BY <1>2, <1>3, <2>2, <2>3 DEF FateOK
  <1>5. ASSUME NEW w \in Workers, CompleteTask(w) \/ FailTask(w), NEW m, m = run[w].message
        PROVE  Goal
    <2>1. /\ \A v \in Workers \ {w} : run'[v] = run[v]
          /\ run'[w].step = "idle" /\ m \in Messages /\ Msg(w) = m
          /\ run[w].step = IF CompleteTask(w) THEN "return" ELSE "throw"
      BY <1>1, <1>5, OtherRunSteps, RunMoves DEF CompleteTask, FailTask, At, Steps, Msg, Others
    <2>2. \A v \in Workers \ {w} : run[v].step # "idle" => run[v].message \in Messages \ {m}
      BY <1>1, <1>2, <1>5, <2>1, OneRun
    <2>3. /\ \A n \in Messages \ {m} : work'[n] = work[n]
          /\ work'[m].made \in {work[m].made, work[m].made + 1}
          /\ work'[m].state = "failed" =>
               \/ work[m].state = "failed"
               \/ ~CompleteTask(w) /\ (work[m].made + 1 >= MaxAttempts \/ Queue!GivenUp(m))
      <3>1. CASE CompleteTask(w)
        <4>1. Queue!Complete(w, m)
          BY <2>1, <3>1 DEF CompleteTask
        <4>2. QED
          BY <1>1, <2>1, <4>1, MadeMoves
      <3>2. CASE ~CompleteTask(w)
        <4>1. Queue!Fail(w, m)
          BY <1>5, <2>1, <3>2 DEF FailTask
        <4>2. QED
          BY <1>1, <2>1, <3>2, <4>1, MadeMoves
      <3>3. QED
        BY <3>1, <3>2
    <2>4. ~Queue!GivenUp(m)
      BY <1>2, <2>1, BoundsAssumption DEF CalmOK, Queue!GivenUp
    <2>5. /\ CompleteTask(w) => recorded[m] # Nothing
          /\ ~CompleteTask(w) => \/ m \in Excused
                                 \/ /\ MaxAttempts > 1 /\ work[m].made = 0
                                    /\ recorded[m] # Nothing
      BY <1>2, <1>5, <2>1 DEF RecordedOK, FateOK, Spared
    <2>6. \A n \in Messages :
            /\ work'[n].made # 0 => n \in Excused \/ recorded[n] # Nothing
            /\ work'[n].state = "failed" => n \in Excused
      <3>1. \A n \in Messages \ {m} :
              /\ work'[n].made # 0 => n \in Excused \/ recorded[n] # Nothing
              /\ work'[n].state = "failed" => n \in Excused
        BY <1>2, <2>3 DEF FateOK
      <3>2. m \in Excused \/ recorded[m] # Nothing
        BY <2>5
      <3>3. work[m].state = "failed" => m \in Excused
        BY <1>2, <2>1 DEF FateOK
      <3>4. work'[m].state = "failed" => m \in Excused
        BY <1>1, <2>1, <2>3, <2>4, <2>5, <3>3, BoundsAssumption
      <3>5. QED
        BY <3>1, <3>2, <3>4
    <2>7. ASSUME NEW v \in Workers, run'[v].step \in Owing \cup {"catch", "throw"}
          PROVE  /\ run'[v] = run[v] /\ run[v].message \in Messages
                 /\ work'[run[v].message].made = work[run[v].message].made
      BY <2>1, <2>2, <2>3, <2>7 DEF Owing
    <2>8. QED
      BY <1>2, <1>3, <2>6, <2>7 DEF FateOK
  <1>6. ASSUME NEW w \in Workers, WorkerStep(w) \/ WorkerFault(w), ~CompleteTask(w), ~FailTask(w),
               NEW m, m = run[w].message
        PROVE  Goal
    <2>1. GoesOn(w) /\ m \in Messages /\ (QuietHop(w, m) \/ EffectHop(w, m))
      BY <1>6, CalmHops
    <2>2. /\ \A v \in Workers \ {w} : run'[v] = run[v]
          /\ run'[w].message = m /\ run[w].step # "idle"
          /\ UNCHANGED work
      BY <1>6, <2>1 DEF GoesOn, Others
    <2>3. /\ run[w].step \in Unrecorded => recorded[m] = Nothing
          /\ work[m].made # 0 => m \in Excused \/ recorded[m] # Nothing
          /\ run[w].step \in Owing => m \in Excused \/ work[m].made = 0
          /\ run[w].step = "catch" =>
               \/ m \in Excused
               \/ /\ CounterMayFail /\ work[m].made = 0 /\ recorded[m] # Nothing
          /\ run[w].step \in Owing => recorded[m] # Nothing
      BY <1>2, <1>6, <2>1 DEF FateOK, ExactOK, CountOK
    <2>4. run'[w].step \in Owing => m \in Excused \/ work[m].made = 0
      <3>1. CASE run[w].step \in Owing
        BY <2>3, <3>1
      <3>2. CASE run[w].step \notin Owing /\ run'[w].step \in Owing
        <4>1. run[w].step = "record"
          BY <2>1, <3>2 DEF QuietHop, EffectHop, Hop, Owing
        <4>2. QED
          BY <1>1, <2>1, <2>3, <4>1 DEF Unrecorded
      <3>3. QED
        BY <3>1, <3>2
    <2>5. run'[w].step \in {"catch", "throw"} =>
            \/ m \in Excused
            \/ CounterMayFail /\ work[m].made = 0 /\ recorded[m] # Nothing
      <3>1. CASE Hop(w, "catch", "throw")
        BY <2>3, <3>1 DEF Hop
      <3>2. CASE Hop(w, "decide", "catch") /\ ~message[m].searchable
        BY <2>1, <3>2 DEF Excused
      <3>3. CASE Hop(w, "order", "catch") /\ message[m].tenant \in keyless
        <4>1. recorded[m] = Nothing
          BY <2>3, <3>3 DEF Hop, Unrecorded
        <4>2. Recording(m) = {}
          BY <1>2, <1>6, <2>2, <3>3, OneRun DEF Recording, Hop
        <4>3. Recordable(m) => orders[m] = 0
          BY <1>2, <2>1, <4>1, <4>2 DEF ExactOK, Exactly
        <4>4. QED
          BY <2>1, <3>3, <4>3 DEF Excused
      <3>4. CASE /\ Hop(w, "record", "catch")
                 /\ recorded[m] # Nothing \/ message[m].tooLong \/ run[w].outcome.decision.blank
        <4>1. recorded[m] = Nothing /\ run[w].step = "record"
          BY <2>3, <3>4 DEF Unrecorded, Hop
        <4>2. ~Recordable(m)
          BY <1>6, <3>4, <4>1, NotBlank
        <4>3. QED
          BY <2>1, <4>2 DEF Excused
      <3>5. CASE CounterMayFail /\ run[w].step \in Owing
        BY <2>3, <3>5
      <3>6. CASE run'[w].step \notin {"catch", "throw"}
        BY <3>6
      <3>7. QED
        BY <2>1, <3>1, <3>2, <3>3, <3>4, <3>5, <3>6 DEF QuietHop, EffectHop, Hop, CounterMayFail
    <2>6. ASSUME NEW v \in Workers
          PROVE  /\ run'[v].step \in Owing =>
                      run'[v].message \in Excused' \/ work'[run'[v].message].made = 0
                 /\ run'[v].step \in {"catch", "throw"} =>
                      \/ run'[v].message \in Excused'
                      \/ /\ CounterMayFail /\ work'[run'[v].message].made = 0
                         /\ recorded'[run'[v].message] # Nothing
      <3>1. CASE v = w
        BY <1>3, <2>1, <2>2, <2>4, <2>5, <3>1
      <3>2. CASE v # w
        <4>1. run'[v] = run[v] /\ (run[v].step # "idle" => run[v].message \in Messages)
          BY <1>1, <2>2, <3>2
        <4>2. QED
          BY <1>2, <1>3, <2>2, <4>1 DEF FateOK, Owing
      <3>3. QED
        BY <3>1, <3>2
    <2>7. QED
      BY <1>2, <1>3, <2>2, <2>6 DEF FateOK
  <1>7. QED
    BY <1>4, <1>5, <1>6

\* While nothing fails, a task fails for its message or for an order that was never made,
\* whatever MongoDB makes of the counters, as long as a task has more than one attempt.
THEOREM FailuresAreExplained == Spec => []FailureExplained
  <1>1. Init => OwnedOK /\ CalmOK /\ ExactOK /\ RecordedOK /\ FateOK
    <2> SUFFICES ASSUME Init PROVE OwnedOK /\ CalmOK /\ ExactOK /\ RecordedOK /\ FateOK
      OBVIOUS
    <2>1. \A w \in Workers : run[w].step = "idle"
      BY DEF Init, Idle
    <2>2. \A m \in Messages : /\ work[m].state = "waiting" /\ work[m].stalled = 0
                              /\ work[m].made = 0
                              /\ recorded[m] = Nothing /\ appointments[m] = 0 /\ orders[m] = 0
      BY DEF Init, Queue!WorkInit
    <2>3. OwnedOK /\ CalmOK
      BY <2>1, <2>2 DEF OwnedOK, CalmOK, Init
    <2>4. ExactOK
      BY <2>1, <2>2 DEF ExactOK, Exactly, Recording, Unrecorded
    <2>5. RecordedOK
      BY <2>1, <2>2 DEF RecordedOK, Completed
    <2>6. FateOK
      BY <2>1, <2>2 DEF FateOK, Owing
    <2>7. QED
      BY <2>3, <2>4, <2>5, <2>6
  <1>2. FateOK => FailureExplained
    BY DEF FateOK, FailureExplained, Excused, Spared, CounterMayFail
  <1>3. QED
    BY <1>1, <1>2, InitInv, TypeStep, CountStep, OwnedStep, CalmStep, ExactStep, RecordedStep,
       FateStep, PTL DEF Spec

\* What the customer is told is what the audit of the tenant keeps: a consequence of the
\* abstract promise, whatever retries and overtaken runs decided on the way.
THEOREM ToldIsKept == Spec => [](\A m \in Messages : replies[m] \in {Nothing, recorded[m]})
  <1> DEFINE Told == /\ DOMAIN recorded = Messages /\ DOMAIN replies = Messages
                     /\ \A m \in Messages : replies[m] \in {Nothing, recorded[m]}
  <1>1. Promise!Init => Told
    BY DEF Promise!Init
  <1>2. Told /\ [Promise!Next]_<<recorded, replies>> => Told'
    <2> SUFFICES ASSUME Told, [Promise!Next]_<<recorded, replies>> PROVE Told'
      OBVIOUS
    <2>1. ASSUME NEW m \in Messages, Promise!Keep(m) PROVE Told'
      BY <2>1 DEF Promise!Keep
    <2>2. ASSUME NEW m \in Messages, Promise!Send(m) PROVE Told'
      BY <2>2 DEF Promise!Send
    <2>3. QED
      BY <2>1, <2>2 DEF Promise!Next
  <1>3. ImplementsPromise => []Told
    BY <1>1, <1>2, PTL DEF ImplementsPromise, Promise!Spec
  <1>4. QED
    BY <1>3, AssistantKeepsPromise, PTL
=============================================================================
