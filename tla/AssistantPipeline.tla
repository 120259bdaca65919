-------------------------- MODULE AssistantPipeline --------------------------
(***************************************************************************)
(* The assistant behind the inbound-events queue: inbound-event.processor, *)
(* the ai-tasks queue with its retries and stalls, ai-task.processor and   *)
(* the assistant service it calls.                                         *)
(*                                                                         *)
(* A run of the service reads the run of the event, the profile of the     *)
(* tenant and its documents, decides, creates the appointment or the order *)
(* and only then the assistant run that keeps later attempts from doing it *)
(* again; counters and the reply come last. Every step is a write of its   *)
(* own, and any of them can fail.                                          *)
(***************************************************************************)
EXTENDS AssistantDecision

CONSTANTS
  Messages,     \* the inbound message events, one AI task each
  Tenants,
  Inputs,       \* the messages offered
  Chosen,       \* the profiles tenants start with, or what stands for none
  Offered,      \* the profiles they may change to
  Workers,      \* the worker slots of ai-tasks
  NoWorker,     \* a task that no slot has run
  NoMessage,    \* the message of an idle slot
  Nothing,      \* nothing was decided, recorded or sent yet
  MaxAttempts,  \* attempts of a task, 4 in ai-tasks
  MaxStalled,   \* how often a task may stall, 1 in BullMQ
  MaxFaults,    \* bound on the failures injected
  MaxUpdates,   \* bound on the profile updates
  CountersTaken \* what MongoDB may make of the update of a usage counter: FALSE, it is
                \* refused, is the code as it stands, see WebhookPipeline; TRUE, it is
                \* taken, is that update repaired

\* What a message is to the assistant: a text that is no regular expression cannot be
\* looked up, one of more than 4000 characters cannot be recorded, and answers is
\* what the language model may answer ({} under the heuristic provider).
Input == [tenant : Tenants, text : SUBSET Topics, searchable : BOOLEAN,
          tooLong : BOOLEAN, answers : SUBSET Decisions]

ASSUME InputsAssumption  == Inputs \subseteq Input /\ Chosen \cup Offered \subseteq Profiles
ASSUME NobodyAssumption  == NoWorker \notin Workers /\ NoMessage \notin Messages
ASSUME CountersAssumption == CountersTaken \subseteq BOOLEAN
ASSUME BoundsAssumption  == /\ MaxAttempts \in Nat \ {0} /\ MaxStalled \in Nat
                            /\ MaxFaults \in Nat /\ MaxUpdates \in Nat

VARIABLES
  message,      \* what each event asks
  unmarked,     \* the events that the request of ingest has yet to mark queued
  inbound,      \* the inbound-events job of each event
  status,       \* the status of each event
  tasks,        \* the AI tasks added
  work,         \* what BullMQ records of each task
  run,          \* what each worker slot is doing
  profile,      \* the profile of each tenant
  keyless,      \* the tenants that have an order without external id
  appointments, \* how many appointments were made of each message
  orders,       \* how many orders were made of each message
  recorded,     \* the assistant run of each event
  counted,      \* how many usage counters were incremented for each message
  replies,      \* the reply added to outbound-messages for each message
  updates,      \* the profile updates so far
  rewritten,    \* history: the events that the webhook pipeline wrote last
  overtaken,    \* history: the tasks put back while a run of theirs went on
  cut,          \* history: the messages with a run that was left before its reply
  faults        \* the failures so far

inputVars  == <<message, unmarked, profile, updates>>
eventVars  == <<status, rewritten>>
historyVars == <<overtaken, cut>>
queueVars  == <<tasks, work, inbound>>
effectVars == <<appointments, orders, keyless, recorded, counted, replies>>
vars == <<inputVars, queueVars, effectVars, eventVars, run, historyVars, faults>>

Queue == INSTANCE JobQueue WITH Jobs <- Messages

Steps == {"idle", "find", "profile", "decide", "appointment", "order", "record",
          "count1", "count2", "count3", "reply", "mark", "catch", "return", "throw"}

\* The awaits inside the try block of ai-task.processor.
TryBlock == Steps \ {"idle", "catch", "return", "throw"}

\* What was decided, and what is made of it.
Outcomes == [decision : Decisions, action : Actions]

ASSUME NothingAssumption == Nothing \notin Outcomes

Run == [step : Steps, message : Messages \cup {NoMessage},
        profile : Profiles \cup {Nothing}, outcome : Outcomes \cup {Nothing}]

Idle == [step |-> "idle", message |-> NoMessage,
         profile |-> Nothing, outcome |-> Nothing]

TypeOK ==
  /\ message \in [Messages -> Inputs]
  /\ inbound \in [Messages -> {"waiting", "done", "failed"}]
  /\ unmarked \subseteq Messages
  /\ status \in [Messages -> {"received", "queued", "processed", "failed", "expired"}]
  /\ rewritten \subseteq Messages
  /\ tasks \subseteq Messages
  /\ Queue!WorkOK
  /\ run \in [Workers -> Run]
  /\ profile \in [Tenants -> Profiles]
  /\ keyless \subseteq Tenants
  /\ appointments \in [Messages -> Nat]
  /\ orders \in [Messages -> Nat]
  /\ recorded \in [Messages -> Outcomes \cup {Nothing}]
  /\ counted \in [Messages -> Nat]
  /\ replies \in [Messages -> Outcomes \cup {Nothing}]
  /\ updates \in Nat
  /\ overtaken \subseteq Messages
  /\ cut \subseteq Messages
  /\ faults \in Nat

Init ==
  /\ message \in [Messages -> Inputs]
  /\ unmarked = Messages
  /\ inbound = [m \in Messages |-> "waiting"]
  /\ status = [m \in Messages |-> "received"]
  /\ rewritten = Messages
  /\ tasks = {}
  /\ Queue!WorkInit
  /\ run = [w \in Workers |-> Idle]
  /\ profile \in [Tenants -> Chosen]
  /\ keyless = {}
  /\ appointments = [m \in Messages |-> 0]
  /\ orders = [m \in Messages |-> 0]
  /\ recorded = [m \in Messages |-> Nothing]
  /\ counted = [m \in Messages |-> 0]
  /\ replies = [m \in Messages |-> Nothing]
  /\ updates = 0
  /\ overtaken = {}
  /\ cut = {}
  /\ faults = 0

(***************************************************************************)
(* Helpers.                                                                *)
(***************************************************************************)

NoFault == UNCHANGED faults
Fault   == faults < MaxFaults /\ faults' = faults + 1

\* What the assistant writes of an event.
Mark(m, s) ==
  /\ status' = IF status[m] = "expired" THEN status ELSE [status EXCEPT ![m] = s]
  /\ rewritten' = rewritten \ {m}

At(w, step) == run[w].step = step
Msg(w)      == run[w].message
Tenant(w)   == message[Msg(w)].tenant

RunTo(w, step) == run' = [run EXCEPT ![w].step = step]

\* The call of the service is over: what it read and decided is gone.
Leave(w, step) == run' = [run EXCEPT ![w] = [Idle EXCEPT !.step = step, !.message = Msg(w)]]

\* The steps of a run that was recorded and still owes the reply.
Owing == {"count1", "count2", "count3", "reply"}

\* A run is left that had come to a step.
CutAt(w, step) == cut' = IF step \in Owing THEN cut \cup {Msg(w)} ELSE cut

\* A write was taken: the run goes on, unless the answer of the write gets lost.
Taken(w, step) == \/ RunTo(w, step) /\ NoFault /\ UNCHANGED cut
                  \/ Leave(w, "catch") /\ Fault /\ CutAt(w, step)

EndRun(w) == run' = [run EXCEPT ![w] = Idle]

(***************************************************************************)
(* The inbound-events queue, the tenant and its other users.               *)
(***************************************************************************)

\* inbound-event.processor: an event that is gone is let be, the task of any other
\* is added. Made again, it adds nothing: the id of the task is made of the event's.
RouteMessage(m) ==
  /\ inbound[m] = "waiting"
  /\ inbound' = [inbound EXCEPT ![m] = "done"]
  /\ tasks' = IF status[m] = "expired" THEN tasks ELSE tasks \cup {m}
  /\ NoFault
  /\ UNCHANGED <<inputVars, work, effectVars, eventVars, run, historyVars>>

\* The attempts of the inbound-events job are used up; the task may have been added
\* by one whose answer was lost. Nothing marks the event failed.
RouteFails(m) ==
  /\ inbound[m] = "waiting"
  /\ inbound' = [inbound EXCEPT ![m] = "failed"]
  /\ tasks' \in {tasks, tasks \cup {m}}
  /\ Fault
  /\ UNCHANGED <<inputVars, work, effectVars, eventVars, run, historyVars>>

\* What the webhook pipeline writes of an event that is still there.
Rewrite(m, s) ==
  /\ status[m] # "expired"
  /\ status' = [status EXCEPT ![m] = s]
  /\ rewritten' = rewritten \cup {m}

\* The request of ingest marks the event queued after it enqueued its job, which the
\* webhook worker and the assistant may have been through by then. A call that fails
\* is one that is not made.
MarkQueued(m) ==
  /\ m \in unmarked
  /\ unmarked' = unmarked \ {m}
  /\ Rewrite(m, "queued")
  /\ NoFault
  /\ UNCHANGED <<message, profile, updates, queueVars, effectVars, run, historyVars>>

\* An attempt of webhook.processor fails, before the inbound-events job was added or
\* with the answer lost after it, and its catch block marks the event failed.
WebhookMarksFailed(m) ==
  /\ Rewrite(m, "failed")
  /\ Fault
  /\ UNCHANGED <<inputVars, queueVars, effectVars, run, historyVars>>

\* The TTL index removes the event, long after the request that stored it.
EventExpires(m) ==
  /\ status[m] # "expired"
  /\ status' = [status EXCEPT ![m] = "expired"]
  /\ unmarked' = unmarked \ {m}
  /\ rewritten' = rewritten \ {m}
  /\ NoFault
  /\ UNCHANGED <<message, profile, updates, queueVars, effectVars, run, historyVars>>

\* upsertProfile
UpdateProfile(t, p) ==
  /\ updates < MaxUpdates
  /\ updates' = updates + 1
  /\ profile' = [profile EXCEPT ![t] = p]
  /\ NoFault
  /\ UNCHANGED <<message, unmarked, queueVars, effectVars, eventVars, run,
                 historyVars>>

\* A user of the tenant posts an order without external id.
ApiCreatesOrder(t) ==
  /\ t \notin keyless
  /\ keyless' = keyless \cup {t}
  /\ NoFault
  /\ UNCHANGED <<inputVars, queueVars, appointments, orders, recorded, counted, replies,
                 eventVars, run, historyVars>>

(***************************************************************************)
(* The ai-tasks queue.                                                     *)
(***************************************************************************)

\* A free slot takes a task that waits; one that stalled too often just fails.
TakeTask(w, m) ==
  /\ At(w, "idle")
  /\ m \in tasks
  /\ Queue!Take(w, m)
  /\ run' = [run EXCEPT ![w].step = IF Queue!GivenUp(m) THEN "throw" ELSE "find",
                        ![w].message = m]
  /\ NoFault
  /\ UNCHANGED <<inputVars, tasks, inbound, effectVars, eventVars, historyVars>>

CompleteTask(w) ==
  /\ At(w, "return")
  /\ Queue!Complete(w, Msg(w))
  /\ EndRun(w)
  /\ NoFault
  /\ UNCHANGED <<inputVars, tasks, inbound, effectVars, eventVars, historyVars>>

FailTask(w) ==
  /\ At(w, "throw")
  /\ Queue!Fail(w, Msg(w))
  /\ EndRun(w)
  /\ NoFault
  /\ UNCHANGED <<inputVars, tasks, inbound, effectVars, eventVars, historyVars>>

\* A worker process stops. Its task stays active until the stalled check.
WorkerStops(w) ==
  /\ ~At(w, "idle")
  /\ EndRun(w)
  /\ CutAt(w, run[w].step)
  /\ Fault
  /\ UNCHANGED <<inputVars, queueVars, effectVars, eventVars, overtaken>>

\* Mutant: the stalled check does not look for the lock of the task.
StalledUnchecked(m) ==
  /\ Queue!PutBack(m)
  /\ NoFault
  /\ UNCHANGED <<inputVars, tasks, inbound, effectVars, eventVars, run, historyVars>>

\* The stalled check finds a task whose worker is gone.
StalledDead(m) ==
  /\ \A w \in Workers : ~(work[m].owner = w /\ Msg(w) = m)
  /\ Queue!PutBack(m)
  /\ NoFault
  /\ UNCHANGED <<inputVars, tasks, inbound, effectVars, eventVars, run, historyVars>>

\* The stalled check finds a task whose worker runs but did not renew the lock.
StalledSlow(m) ==
  /\ \E w \in Workers : work[m].owner = w /\ Msg(w) = m
  /\ Queue!PutBack(m)
  /\ overtaken' = overtaken \cup {m}
  /\ Fault
  /\ UNCHANGED <<inputVars, tasks, inbound, effectVars, eventVars, run, cut>>

(***************************************************************************)
(* processInboundWhatsappMessage.                                          *)
(***************************************************************************)

\* Mutant: the run of an earlier attempt is not looked for.
FindRunUnchecked(w) ==
  /\ At(w, "find")
  /\ RunTo(w, "profile")
  /\ NoFault
  /\ UNCHANGED <<inputVars, queueVars, effectVars, eventVars, historyVars>>

\* findRunByWebhookEvent: an event that has a run is done with, its reply sent or not.
FindRun(w) ==
  /\ At(w, "find")
  /\ RunTo(w, IF recorded[Msg(w)] = Nothing THEN "profile" ELSE "mark")
  /\ NoFault
  /\ UNCHANGED <<inputVars, queueVars, effectVars, eventVars, historyVars>>

ReadProfile(w) ==
  /\ At(w, "profile")
  /\ run' = [run EXCEPT ![w].step = "decide", ![w].profile = profile[Tenant(w)]]
  /\ NoFault
  /\ UNCHANGED <<inputVars, queueVars, effectVars, eventVars, historyVars>>

\* Knowledge and catalog are searched with the text as a regular expression, which
\* MongoDB may not be able to read.
SearchRefused(w) ==
  /\ At(w, "decide")
  /\ ~message[Msg(w)].searchable
  /\ Leave(w, "catch")
  /\ NoFault
  /\ UNCHANGED <<inputVars, queueVars, effectVars, eventVars, historyVars>>

\* The decision, and the action that follows from it under the profile read.
Decide(w) ==
  /\ At(w, "decide")
  /\ message[Msg(w)].searchable
  /\ \E d \in Decided(message[Msg(w)].text, message[Msg(w)].answers) :
       LET a == ResolvedAction(d, run[w].profile) IN
       run' = [run EXCEPT
                 ![w].step = CASE a = "appointment.create" -> "appointment"
                               [] a = "order.create" -> "order"
                               [] OTHER -> "record",
                 ![w].profile = Nothing,
                 ![w].outcome = [decision |-> d, action |-> a]]
  /\ NoFault
  /\ UNCHANGED <<inputVars, queueVars, effectVars, eventVars, historyVars>>

\* Mutant: nobody awaits the appointment.
CreateAppointmentUnawaited(w) ==
  /\ At(w, "appointment")
  /\ \/ appointments' = [appointments EXCEPT ![Msg(w)] = @ + 1]
     \/ UNCHANGED appointments
  /\ RunTo(w, "record")
  /\ NoFault
  /\ UNCHANGED <<inputVars, queueVars, orders, keyless, recorded, counted, replies, eventVars,
                 historyVars>>

CreateAppointment(w) ==
  /\ At(w, "appointment")
  /\ appointments' = [appointments EXCEPT ![Msg(w)] = @ + 1]
  /\ Taken(w, "record")
  /\ UNCHANGED <<inputVars, queueVars, orders, keyless, recorded, counted, replies, eventVars,
                 overtaken>>

\* The assistant's orders have no external id, which the unique index on tenant and
\* external id takes once: its sparse option spares only documents with neither.
CreateOrder(w) ==
  /\ At(w, "order")
  /\ Tenant(w) \notin keyless
  /\ keyless' = keyless \cup {Tenant(w)}
  /\ orders' = [orders EXCEPT ![Msg(w)] = @ + 1]
  /\ Taken(w, "record")
  /\ UNCHANGED <<inputVars, queueVars, appointments, recorded, counted, replies, eventVars,
                 overtaken>>

OrderRefused(w) ==
  /\ At(w, "order")
  /\ Tenant(w) \in keyless
  /\ Leave(w, "catch")
  /\ NoFault
  /\ UNCHANGED <<inputVars, queueVars, effectVars, eventVars, historyVars>>

\* The schema refuses a text or an answer.
Unrecordable(m, d) == message[m].tooLong \/ d.blank

\* Mutant: the index on the source event is not unique, the last run is found.
RecordRunAgain(w) ==
  /\ At(w, "record")
  /\ ~Unrecordable(Msg(w), run[w].outcome.decision)
  /\ recorded' = [recorded EXCEPT ![Msg(w)] = run[w].outcome]
  /\ Taken(w, "count1")
  /\ UNCHANGED <<inputVars, queueVars, appointments, orders, keyless, counted, replies,
                 eventVars, overtaken>>

\* createRun, one for each source event.
RecordRun(w) ==
  /\ At(w, "record")
  /\ recorded[Msg(w)] = Nothing /\ ~Unrecordable(Msg(w), run[w].outcome.decision)
  /\ recorded' = [recorded EXCEPT ![Msg(w)] = run[w].outcome]
  /\ Taken(w, "count1")
  /\ UNCHANGED <<inputVars, queueVars, appointments, orders, keyless, counted, replies,
                 eventVars, overtaken>>

RunRefused(w) ==
  /\ At(w, "record")
  /\ recorded[Msg(w)] # Nothing \/ Unrecordable(Msg(w), run[w].outcome.decision)
  /\ Leave(w, "catch")
  /\ NoFault
  /\ UNCHANGED <<inputVars, queueVars, effectVars, eventVars, historyVars>>

\* trackEvent for the runs, the tokens read and the tokens written.
NextCount == [count1 |-> "count2", count2 |-> "count3", count3 |-> "reply"]

CountUsage(w) ==
  /\ run[w].step \in DOMAIN NextCount
  /\ TRUE \in CountersTaken
  /\ counted' = [counted EXCEPT ![Msg(w)] = @ + 1]
  /\ Taken(w, NextCount[run[w].step])
  /\ UNCHANGED <<inputVars, queueVars, appointments, orders, keyless, recorded, replies,
                 eventVars, overtaken>>

CounterRefused(w) ==
  /\ run[w].step \in DOMAIN NextCount
  /\ FALSE \in CountersTaken
  /\ Leave(w, "catch")
  /\ CutAt(w, run[w].step)
  /\ NoFault
  /\ UNCHANGED <<inputVars, queueVars, effectVars, eventVars, overtaken>>

\* The id of the reply's job is made of the event's: a second one is not added.
AddReply(w) ==
  /\ At(w, "reply")
  /\ replies' = [replies EXCEPT ![Msg(w)] = IF @ = Nothing THEN run[w].outcome ELSE @]
  /\ \/ Leave(w, "mark") /\ NoFault
     \/ Leave(w, "catch") /\ Fault
  /\ UNCHANGED <<inputVars, queueVars, appointments, orders, keyless, recorded, counted,
                 eventVars, historyVars>>

(***************************************************************************)
(* The rest of ai-task.processor.                                          *)
(***************************************************************************)

\* Mutant: an event that is gone is an error.
MarkProcessedOrThrow(w) ==
  /\ At(w, "mark")
  /\ Mark(Msg(w), "processed")
  /\ IF status[Msg(w)] = "expired" THEN Leave(w, "catch") ELSE RunTo(w, "return")
  /\ NoFault
  /\ UNCHANGED <<inputVars, queueVars, effectVars, historyVars>>

MarkProcessed(w) ==
  /\ At(w, "mark")
  /\ Mark(Msg(w), "processed")
  /\ Taken(w, "return")
  /\ UNCHANGED <<inputVars, queueVars, effectVars, overtaken>>

\* An await of the try block rejects before it changed anything.
AwaitFails(w) ==
  /\ run[w].step \in TryBlock
  /\ Leave(w, "catch")
  /\ CutAt(w, run[w].step)
  /\ Fault
  /\ UNCHANGED <<inputVars, queueVars, effectVars, eventVars, overtaken>>

\* Mutant: the catch block does not throw the error again.
MarkFailedSwallows(w) ==
  /\ At(w, "catch")
  /\ Mark(Msg(w), "failed")
  /\ RunTo(w, "return")
  /\ NoFault
  /\ UNCHANGED <<inputVars, queueVars, effectVars, historyVars>>

\* The catch block marks the event failed and throws the error again.
MarkFailed(w) ==
  /\ At(w, "catch")
  /\ Mark(Msg(w), "failed")
  /\ RunTo(w, "throw")
  /\ NoFault
  /\ UNCHANGED <<inputVars, queueVars, effectVars, historyVars>>

MarkFailedFails(w) ==
  /\ At(w, "catch")
  /\ RunTo(w, "throw")
  /\ Fault
  /\ UNCHANGED <<inputVars, queueVars, effectVars, eventVars, historyVars>>

ServiceStep(w) ==
  \/ FindRun(w) \/ ReadProfile(w) \/ SearchRefused(w) \/ Decide(w)
  \/ CreateAppointment(w) \/ CreateOrder(w) \/ OrderRefused(w)
  \/ RecordRun(w) \/ RunRefused(w) \/ CountUsage(w) \/ CounterRefused(w) \/ AddReply(w)

WorkerStep(w) ==
  \/ ServiceStep(w) \/ MarkProcessed(w) \/ MarkFailed(w) \/ CompleteTask(w) \/ FailTask(w)

WorkerFault(w) == AwaitFails(w) \/ MarkFailedFails(w) \/ WorkerStops(w)

TenantActs(t) == ApiCreatesOrder(t) \/ \E p \in Offered : UpdateProfile(t, p)

EventActs(m) == MarkQueued(m) \/ WebhookMarksFailed(m) \/ EventExpires(m)

QueueActs(m) ==
  \/ RouteMessage(m) \/ RouteFails(m) \/ StalledDead(m) \/ StalledSlow(m)
  \/ \E w \in Workers : TakeTask(w, m)

\* Every message is routed and every task has ended.
Drained ==
  /\ \A m \in Messages : inbound[m] # "waiting"
  /\ \A m \in tasks : Queue!Ended(m)
  /\ \A w \in Workers : run[w] = Idle
  /\ UNCHANGED vars

Next ==
  \/ \E w \in Workers : WorkerStep(w) \/ WorkerFault(w)
  \/ \E t \in Tenants : TenantActs(t)
  \/ \E m \in Messages : QueueActs(m) \/ EventActs(m)
  \/ Drained

Spec == Init /\ [][Next]_vars

(***************************************************************************)
(* Fairness: a worker that is up runs its pending continuations, a free    *)
(* slot takes a waiting task, and BullMQ's stalled check runs for ever. No *)
(* failure, routing, write of the webhook pipeline, expiry or user is      *)
(* promised.                                                               *)
(***************************************************************************)
Fairness ==
  /\ \A w \in Workers : WF_vars(WorkerStep(w))
  /\ \A m \in Messages : /\ WF_vars(StalledDead(m))
                         /\ WF_vars(\E w \in Workers : TakeTask(w, m))

FairSpec == Spec /\ Fairness

(***************************************************************************)
(* Properties.                                                             *)
(***************************************************************************)

Completed(m) == work[m].state = "completed"

\* What the customer is owed, whatever is retried, stops or is overtaken: one decision
\* kept for each message, and that decision told at most once. Attempts decide anew,
\* so a reply of one attempt beside the run of another would break it.
Promise == INSTANCE AssistantPromise WITH kept <- recorded, sent <- replies

ImplementsPromise == Promise!Spec

\* What WebhookPipeline relies on beside its own workers: the assistant writes the events
\* handed to it and no others, and until something fails no task writes an event that one
\* found processed, although none looks at the status, the request of ingest may have put
\* it back to queued meanwhile, and tasks are taken by many slots.
Outcome == INSTANCE AssistantOutcome WITH
  Events <- Messages, handed <- tasks, calm <- (faults = 0)

ImplementsOutcome == Outcome!Spec

Effects(m) == appointments[m] + orders[m]

Recordable(m) ==
  ~message[m].tooLong /\ \A d \in message[m].answers : ~d.blank

\* Each appointment or order of a message beyond the first is paid by a failure, if its
\* run can be recorded at all: neither a retry nor a second slot repeats one for free.
\* The guard of findRunByWebhookEvent comes before the effect and the run after it.
RepeatedEffectNeedsFault ==
  \A m \in Messages : Recordable(m) => Effects(m) <= 1 + faults

\* A message whose run can never be recorded makes an appointment with each attempt,
\* and retries, stalls and slow runs together no more of them than that.
EffectsBounded == \A m \in Messages : Effects(m) <= MaxAttempts + MaxStalled

\* The run kept for the audit tells what was done: the appointment or the order it
\* names exists, and nothing else was made of the message while nothing fails, of one
\* whose run is never refused.
RecordMatchesEffects ==
  \A m \in Messages : recorded[m] # Nothing =>
    LET a == recorded[m].action IN
    /\ a = "appointment.create" => appointments[m] > 0
    /\ a = "order.create" => orders[m] > 0
    /\ faults = 0 /\ Recordable(m) =>
         /\ appointments[m] = IF a = "appointment.create" THEN 1 ELSE 0
         /\ orders[m] = IF a = "order.create" THEN 1 ELSE 0

\* A reply is sent once the run and its three counters are written, and these are
\* incremented once only, whichever attempts came between.
ReplyIsCounted ==
  \A m \in Messages :
    /\ counted[m] <= IF recorded[m] = Nothing THEN 0 ELSE 3
    /\ replies[m] # Nothing => counted[m] = 3

\* A task that completed without its reply had a run of its message left between the
\* record of the run and the reply, by a refused counter, a failed call or a stopped
\* worker, or put back while it went on: the attempt that finds the record returns
\* before the reply, and nothing else loses it.
LostReplyExplained ==
  \A m \in Messages : Completed(m) /\ replies[m] = Nothing => m \in cut \cup overtaken

\* While nothing fails, a task fails for its message only: it cannot be looked up or
\* recorded, or the order it was decided on was never made, the tenant having one
\* without external id. A refused counter costs an attempt and not the task, unless
\* there is one attempt only. That tenants are left without their orders is a finding.
FailureExplained ==
  faults = 0 /\ (FALSE \notin CountersTaken \/ MaxAttempts > 1) =>
    \A m \in Messages : work[m].state = "failed" =>
      \/ ~message[m].searchable \/ ~Recordable(m)
      \/ orders[m] = 0 /\ message[m].tenant \in keyless

\* What a tenant never allowed is never done in its name, whatever the language model
\* suggests and however its answers change between attempts.
PolicyRespected ==
  \A m \in Messages : updates = 0 =>
    /\ appointments[m] > 0 => profile[message[m].tenant].canCreateAppointments
    /\ orders[m] > 0 => profile[message[m].tenant].canCreateOrders

\* A completed task leaves its event processed, or removed, until the webhook pipeline
\* writes it again, its late markQueued or a failed attempt of webhook.processor: no
\* failed attempt of the task shows in it. Of the assistant, only a slow run that was
\* overtaken by another one may still write it.
CompletedMeansSettled ==
  \A m \in Messages \ overtaken :
    Completed(m) => m \in rewritten \/ status[m] \in {"processed", "expired"}

\* A completed task sent its reply: see the findings.
CompletedIsAnswered == \A m \in Messages : Completed(m) => replies[m] # Nothing

\* What every decision on a text resolves to under the profile of the tenant.
Resolves(m, a) ==
  \A d \in Decided(message[m].text, message[m].answers) :
    ResolvedAction(d, profile[message[m].tenant]) = a

\* A task that ended made the order its message asks for: see the findings.
RequestedOrderIsMade ==
  \A m \in Messages :
    Queue!Ended(m) /\ message[m].searchable /\ Resolves(m, "order.create") => orders[m] > 0

\* Every task added is run to its end, and a completed one left a run of its event,
\* whatever worker stops on the way.
TaskEnds ==
  \A m \in Messages :
    m \in tasks ~> Queue!Ended(m) /\ (Completed(m) => recorded[m] # Nothing)
=============================================================================
