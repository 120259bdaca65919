----------------------- MODULE AssistantEffectsProofs -----------------------
(***************************************************************************)
(* Proofs of the two bounds on what the assistant makes of a message, for  *)
(* any number of messages, tenants and worker slots and every bound on     *)
(* attempts, stalls and failures.                                          *)
(*                                                                         *)
(* A run makes one effect, and only while it is pending. So the effects    *)
(* there are and the pending runs, the load of a message, grow together    *)
(* with the attempts and stalls its task used; and a task that is taken    *)
(* anew before a run is recorded was dropped by a failure.                 *)
(***************************************************************************)
EXTENDS AssistantProofs, FiniteSetTheorems

USE DEF eventVars, historyVars

\* The runs that may still make an appointment or an order of a message.
Pending(m) ==
  {w \in Workers :
     /\ run[w].message = m
     /\ \/ run[w].step \in {"profile", "decide", "appointment", "order"}
        \/ run[w].step = "find" /\ recorded[m] = Nothing}

Load(m) == Effects(m) + Cardinality(Pending(m))

\* The attempts and stalls a task has used, the attempt it is at included. The last
\* stall of a task that was given up uses the attempt that fails it.
Used(m) ==
  work[m].made + work[m].stalled
  + (IF work[m].state = "active" /\ ~Queue!GivenUp(m) THEN 1 ELSE 0)
  - (IF Queue!Ended(m) /\ Queue!GivenUp(m) THEN 1 ELSE 0)

Healthy == Steps \ {"idle", "catch", "throw"}

\* Nothing is made of the message for free: its run is recorded, its task has ended, or
\* the run that holds its lock is one that nothing has failed yet.
Held(m) ==
  \/ recorded[m] # Nothing
  \/ Queue!Ended(m)
  \/ \E w \in Workers : /\ Queue!Owns(w, m) /\ run[w].message = m
                        /\ run[w].step \in Healthy

\* The runs of a task that was given up do nothing but fail.
GivenUpOK(m) ==
  \A w \in Workers : Queue!Owns(w, m) /\ run[w].message = m /\ Queue!GivenUp(m)
                       => run[w].step = "throw"

\* A task that is not held may be taken once more.
LoadInv ==
  \A m \in Messages :
    /\ IsFiniteSet(Pending(m))
    /\ GivenUpOK(m)
    /\ Load(m) <= Used(m)
    /\ Recordable(m) => Load(m) + (IF Held(m) THEN 0 ELSE 1) <= 1 + faults

(***************************************************************************)
(* Whose step it is.                                                       *)
(***************************************************************************)

\* A run goes on.
Goes(w) ==
  ServiceStep(w) \/ MarkProcessed(w) \/ MarkFailed(w) \/ AwaitFails(w) \/ MarkFailedFails(w)

Ends(w) == CompleteTask(w) \/ FailTask(w) \/ WorkerStops(w)

Stalls(m) == StalledDead(m) \/ StalledSlow(m)

\* No run and no task changes.
Aside == UNCHANGED <<run, work, appointments, orders, recorded>>

\* The five kinds of steps.
LEMMA StepKinds ==
  ASSUME TypeInv, [Next]_vars
  PROVE  \/ Aside
         \/ \E w \in Workers : Goes(w) \/ Ends(w) \/ \E m \in Messages : TakeTask(w, m)
         \/ \E m \in Messages : Stalls(m)
  <1>1. ASSUME NEW m \in Messages, RouteMessage(m) \/ RouteFails(m) \/ EventActs(m)
        PROVE  Aside
    BY <1>1 DEF RouteMessage, RouteFails, EventActs, MarkQueued, WebhookMarksFailed, EventExpires,
                Aside, queueVars, effectVars
  <1>2. ASSUME NEW t \in Tenants, TenantActs(t) PROVE Aside
    BY <1>2 DEF TenantActs, ApiCreatesOrder, UpdateProfile, Aside, queueVars, effectVars
  <1>3. CASE UNCHANGED vars
    BY <1>3 DEF Aside, vars, queueVars, effectVars
  <1>4. QED
    BY <1>1, <1>2, <1>3
       DEF Next, WorkerStep, WorkerFault, QueueActs, Drained, Goes, Ends, Stalls

\* What the operations of the queue count.
LEMMA QueueCounts ==
  ASSUME Queue!WorkOK, NEW w \in Workers, NEW m \in Messages
  PROVE  /\ Queue!Take(w, m) => work'[m].made = work[m].made
         /\ Queue!Owns(w, m) =>
              /\ Queue!Complete(w, m) => work'[m].made = work[m].made + 1
              /\ Queue!Fail(w, m) => /\ work'[m].made = work[m].made + 1
                                     /\ Queue!GivenUp(m) => work'[m].state = "failed"
         /\ Queue!PutBack(m) =>
              /\ work'[m].made = work[m].made
              /\ work'[m].stalled = IF Queue!GivenUp(m) THEN work[m].stalled
                                                        ELSE work[m].stalled + 1
  <1>1. work \in [Messages -> Queue!Work] /\ work[m] \in Queue!Work
    BY DEF Queue!WorkOK
  <1>2. Queue!Take(w, m) => work'[m].made = work[m].made
    BY <1>1 DEF Queue!Work, Queue!Take
  <1>3. Queue!Owns(w, m) /\ Queue!Complete(w, m) => work'[m].made = work[m].made + 1
    BY <1>1 DEF Queue!Work, Queue!Complete
  <1>4. Queue!Owns(w, m) /\ Queue!Fail(w, m) =>
          work'[m].made = work[m].made + 1 /\ (Queue!GivenUp(m) => work'[m].state = "failed")
    BY <1>1 DEF Queue!Work, Queue!Fail
  <1>5. Queue!PutBack(m) =>
          /\ work'[m].made = work[m].made
          /\ work'[m].stalled = IF Queue!GivenUp(m) THEN work[m].stalled
                                                    ELSE work[m].stalled + 1
    BY <1>1 DEF Queue!Work, Queue!PutBack
  <1>6. QED
    BY <1>2, <1>3, <1>4, <1>5

\* The steps that may change what the queue records of a task.
LEMMA TaskOf ==
  ASSUME TypeInv, [Next]_vars, NEW m \in Messages
  PROVE  \/ work'[m] = work[m]
         \/ \E w \in Workers : TakeTask(w, m) /\ Queue!Take(w, m)
         \/ \E w \in Workers : /\ run[w].message = m /\ Queue!Owns(w, m)
                               /\ \/ CompleteTask(w) /\ Queue!Complete(w, m)
                                  \/ FailTask(w) /\ Queue!Fail(w, m)
         \/ Stalls(m) /\ Queue!PutBack(m)
  <1>1. /\ Queue!WorkOK
        /\ \A w \in Workers : run[w].step # "idle" => run[w].message \in Messages
    BY DEF TypeInv, TypeOK, ShapeOK
  <1>2. ASSUME NEW w \in Workers, Ends(w), work'[m] # work[m]
        PROVE  /\ run[w].message = m /\ Queue!Owns(w, m)
               /\ \/ CompleteTask(w) /\ Queue!Complete(w, m)
                  \/ FailTask(w) /\ Queue!Fail(w, m)
    <2>1. PICK k \in Messages : k = run[w].message
      BY <1>1, <1>2, OtherRunSteps DEF Ends
    <2>2. \/ CompleteTask(w) /\ Queue!Complete(w, k)
          \/ FailTask(w) /\ Queue!Fail(w, k)
      BY <1>2, <2>1 DEF Ends, CompleteTask, FailTask, WorkerStops, Msg, queueVars
    <2>3. Queue!Owns(w, k)
      BY <1>1, <1>2, <2>2, QueueMoves
    <2>4. \A n \in Messages \ {k} : work'[n] = work[n]
      BY <1>1, <2>2, <2>3, QueueMoves
    <2>5. QED
      BY <1>2, <2>1, <2>2, <2>3, <2>4
  <1>3. ASSUME NEW w \in Workers, NEW k \in Messages, TakeTask(w, k), work'[m] # work[m]
        PROVE  TakeTask(w, m) /\ Queue!Take(w, m)
    <2>1. Queue!Take(w, k)
      BY <1>3 DEF TakeTask
    <2>2. \A n \in Messages \ {k} : work'[n] = work[n]
      BY <1>1, <2>1, QueueMoves
    <2>3. QED
      BY <1>3, <2>1, <2>2
  <1>4. ASSUME NEW k \in Messages, Stalls(k), work'[m] # work[m]
        PROVE  Stalls(m) /\ Queue!PutBack(m)
    <2>1. Queue!PutBack(k)
      BY <1>4 DEF Stalls, StalledDead, StalledSlow
    <2>2. \A n \in Messages \ {k} : work'[n] = work[n]
      BY <1>4, StalledPutsBack DEF Stalls, PutsBack
    <2>3. QED
      BY <1>4, <2>1, <2>2
  <1>5. ASSUME NEW w \in Workers, Goes(w) PROVE UNCHANGED work
    BY <1>5, GoesOnSteps DEF Goes, GoesOn
  <1>6. QED
    BY <1>2, <1>3, <1>4, <1>5, StepKinds DEF Aside

\* The steps that may change a run.
LEMMA RunOf ==
  ASSUME TypeInv, [Next]_vars, NEW w \in Workers
  PROVE  run'[w] = run[w] \/ Goes(w) \/ Ends(w) \/ \E m \in Messages : TakeTask(w, m)
  <1>1. ASSUME NEW v \in Workers, v # w, Goes(v) PROVE run'[w] = run[w]
    BY <1>1, GoesOnSteps DEF Goes, GoesOn, Others
  <1>2. ASSUME NEW v \in Workers, v # w, Ends(v) PROVE run'[w] = run[w]
    BY <1>2, OtherRunSteps DEF Ends, Others
  <1>3. ASSUME NEW v \in Workers, v # w, NEW m \in Messages, TakeTask(v, m)
        PROVE  run'[w] = run[w]
    BY <1>3, TakeStarts DEF StartsRun, Others
  <1>4. ASSUME NEW m \in Messages, Stalls(m) PROVE run'[w] = run[w]
    BY <1>4, StalledPutsBack DEF Stalls, PutsBack
  <1>5. QED
    BY <1>1, <1>2, <1>3, <1>4, StepKinds DEF Aside

(***************************************************************************)
(* What a step of a run does to the effects.                               *)
(***************************************************************************)

\* The message is refused before anything is made of it.
Refuses(w) == SearchRefused(w) \/ OrderRefused(w)

\* The run makes its effect, and is not pending any more.
Makes(w, m) ==
  /\ run[w].step \in {"appointment", "order"} /\ run'[w].step \in {"record", "catch"}
  /\ \/ appointments' = [appointments EXCEPT ![m] = @ + 1] /\ UNCHANGED orders
     \/ orders' = [orders EXCEPT ![m] = @ + 1] /\ UNCHANGED appointments
  /\ UNCHANGED recorded

\* It makes none, and is pending only if it was.
MakesNone(w, m) ==
  /\ UNCHANGED <<appointments, orders>>
  /\ UNCHANGED recorded \/ \E o \in Outcomes : recorded' = [recorded EXCEPT ![m] = o]
  /\ run'[w].step # "find"
  /\ run'[w].step = "profile" => run[w].step = "find" /\ recorded[m] = Nothing
  /\ run'[w].step \in {"decide", "appointment", "order"} => run[w].step \in {"profile", "decide"}

LEMMA GoesMoves ==
  ASSUME TypeInv, NEW w \in Workers, Goes(w), NEW m, m = run[w].message
  PROVE  /\ GoesOn(w) /\ m \in Messages
         /\ Makes(w, m) \/ MakesNone(w, m)
         /\ Refuses(w) => /\ MakesNone(w, m) /\ run'[w].step = "catch"
                          /\ run[w].step \in {"decide", "order"}
  <1> USE DEF Steps, At, effectVars
  <1>1. /\ run \in [Workers -> Run] /\ run[w] \in Run /\ Msg(w) = m /\ GoesOn(w)
    BY GoesOnSteps DEF TypeInv, TypeOK, Msg, Goes
  <1>2. m \in Messages
    BY <1>1 DEF GoesOn, TypeInv, TypeOK, ShapeOK
  <1>3. CASE FindRun(w)
    BY <1>1, <1>2, <1>3, RunMoves DEF FindRun, MakesNone, Refuses, SearchRefused, OrderRefused
  <1>4. CASE ReadProfile(w)
    BY <1>1, <1>2, <1>4 DEF ReadProfile, MakesNone, Refuses, SearchRefused, OrderRefused, Run
  <1>5. CASE Refuses(w)
    BY <1>1, <1>2, <1>5, RunMoves DEF SearchRefused, OrderRefused, MakesNone, Refuses
  <1>6. CASE Decide(w)
    <2>1. PICK d \in Decided(message[m].text, message[m].answers) :
            LET a == ResolvedAction(d, run[w].profile) IN
            /\ run[w].step = "decide"
            /\ run'[w].step = CASE a = "appointment.create" -> "appointment"
                                [] a = "order.create" -> "order"
                                [] OTHER -> "record"
      BY <1>6, DecideStep
    <2>2. run[w].step = "decide" /\ run'[w].step \in {"appointment", "order", "record"}
      BY <2>1
    <2>3. UNCHANGED <<appointments, orders, recorded>> /\ ~Refuses(w)
      BY <1>6, <2>2 DEF Decide, Refuses, SearchRefused, OrderRefused
    <2>4. QED
      BY <1>1, <1>2, <2>2, <2>3 DEF MakesNone
  <1>7. CASE CreateAppointment(w)
    BY <1>1, <1>2, <1>7, RunMoves
       DEF CreateAppointment, Taken, Makes, Refuses, SearchRefused, OrderRefused
  <1>8. CASE CreateOrder(w)
    BY <1>1, <1>2, <1>8, RunMoves
       DEF CreateOrder, Taken, Makes, Refuses, SearchRefused, OrderRefused
  <1>9. CASE RecordRun(w)
    <2>1. run[w].outcome \in Outcomes
      BY <1>9 DEF RecordRun, TypeInv, ShapeOK, Resolved
    <2>2. QED
      BY <1>1, <1>2, <1>9, <2>1, RunMoves
         DEF RecordRun, Taken, MakesNone, Refuses, SearchRefused, OrderRefused
  <1>10. CASE RunRefused(w) \/ CounterRefused(w)
    BY <1>1, <1>2, <1>10, RunMoves
       DEF RunRefused, CounterRefused, NextCount, MakesNone, Refuses, SearchRefused, OrderRefused
  <1>11. CASE CountUsage(w)
    BY <1>1, <1>2, <1>11, RunMoves
       DEF CountUsage, Taken, NextCount, MakesNone, Refuses, SearchRefused, OrderRefused
  <1>12. CASE AddReply(w)
    BY <1>1, <1>2, <1>12, RunMoves
       DEF AddReply, MakesNone, Refuses, SearchRefused, OrderRefused
  <1>13. CASE MarkProcessed(w) \/ MarkFailed(w) \/ MarkFailedFails(w)
    BY <1>1, <1>2, <1>13, RunMoves
       DEF MarkProcessed, MarkFailed, MarkFailedFails, Taken, MakesNone, Refuses,
           SearchRefused, OrderRefused
  <1>14. CASE AwaitFails(w) /\ ~Refuses(w)
    BY <1>1, <1>2, <1>14, RunMoves DEF AwaitFails, MakesNone
  <1>15. QED
    BY <1>3, <1>4, <1>5, <1>6, <1>7, <1>8, <1>9, <1>10, <1>11, <1>12, <1>13, <1>14
       DEF Goes, ServiceStep, Refuses

(***************************************************************************)
(* How the load of a message grows.                                        *)
(***************************************************************************)

\* A task is taken by a run that may make an effect.
Started(m) ==
  recorded[m] = Nothing /\ \E w \in Workers : TakeTask(w, m) /\ ~Queue!GivenUp(m)

\* A pending run of the message is refused.
Refused(m) == \E w \in Pending(m) : Refuses(w)

\* What a step does to the effects of a message and to its pending runs.
LEMMA PendingKinds ==
  ASSUME TypeInv, [Next]_vars, NEW m \in Messages
  PROVE  /\ Effects(m) \in Nat
         /\ \/ Effects(m)' = Effects(m) /\ Pending(m)' \subseteq Pending(m)
            \/ \E w \in Pending(m) : /\ Effects(m)' = Effects(m) + 1
                                     /\ Pending(m)' \subseteq Pending(m) \ {w}
            \/ /\ Started(m) /\ Effects(m)' = Effects(m)
               /\ \E w \in Workers : Pending(m)' \subseteq Pending(m) \cup {w}
         /\ Refused(m) => \E w \in Pending(m) : /\ Effects(m)' = Effects(m)
                                                /\ Pending(m)' \subseteq Pending(m) \ {w}
         /\ recorded[m] # Nothing => recorded'[m] # Nothing
  <1>1. /\ appointments \in [Messages -> Nat] /\ orders \in [Messages -> Nat]
        /\ recorded \in [Messages -> Outcomes \cup {Nothing}]
        /\ \A w \in Workers : run[w].step # "idle" => run[w].message \in Messages
        /\ \A w \in Workers : run[w].step = "idle" => run[w].message \notin Messages
    BY NobodyAssumption DEF TypeInv, TypeOK, ShapeOK
  <1>2. Effects(m) \in Nat
    BY <1>1 DEF Effects
  <1>3. ASSUME NEW w \in Workers, Goes(w)
        PROVE  /\ \/ Effects(m)' = Effects(m) /\ Pending(m)' \subseteq Pending(m)
                  \/ \E v \in Pending(m) : /\ Effects(m)' = Effects(m) + 1
                                           /\ Pending(m)' \subseteq Pending(m) \ {v}
               /\ Refuses(w) /\ w \in Pending(m) =>
                    Effects(m)' = Effects(m) /\ Pending(m)' \subseteq Pending(m) \ {w}
               /\ recorded[m] # Nothing => recorded'[m] # Nothing
    <2>1. PICK k \in Messages : k = run[w].message
      BY <1>3, GoesMoves
    <2>2. /\ \A v \in Workers \ {w} : run'[v] = run[v]
          /\ run'[w].message = k
          /\ Makes(w, k) \/ MakesNone(w, k)
          /\ Refuses(w) => MakesNone(w, k) /\ run'[w].step = "catch"
      BY <1>3, <2>1, GoesMoves DEF GoesOn, Others
    <2>3. recorded[m] # Nothing => recorded'[m] # Nothing
      BY <1>1, <2>2, NothingAssumption DEF Makes, MakesNone
    <2>4. CASE MakesNone(w, k)
      <3>1. Effects(m)' = Effects(m)
        BY <2>4 DEF MakesNone, Effects
      <3>2. ASSUME NEW v \in Pending(m)' PROVE v \in Pending(m)
        <4>1. CASE v = w
          BY <2>1, <2>2, <2>4, <3>2, <4>1 DEF Pending, MakesNone
        <4>2. CASE v # w
          BY <2>2, <2>3, <3>2, <4>2 DEF Pending
        <4>3. QED
          BY <4>1, <4>2
      <3>3. Refuses(w) => w \notin Pending(m)'
        BY <2>2 DEF Pending
      <3>4. QED
        BY <2>3, <3>1, <3>2, <3>3
    <2>5. CASE Makes(w, k)
      <3>1. ASSUME NEW v \in Pending(m)' PROVE v \in Pending(m) \ {w}
        BY <2>2, <2>3, <2>5, <3>1 DEF Pending, Makes
      <3>2. Effects(k)' = Effects(k) + 1 /\ (m # k => Effects(m)' = Effects(m))
        <4>1. CASE appointments' = [appointments EXCEPT ![k] = @ + 1] /\ UNCHANGED orders
          BY <1>1, <4>1 DEF Effects
        <4>2. CASE orders' = [orders EXCEPT ![k] = @ + 1] /\ UNCHANGED appointments
          BY <1>1, <4>2 DEF Effects
        <4>3. QED
          BY <2>5, <4>1, <4>2 DEF Makes
      <3>3. m = k => w \in Pending(m)
        BY <2>1, <2>5 DEF Makes, Pending
      <3>4. ~Refuses(w) \/ MakesNone(w, k)
        BY <2>2
      <3>5. QED
        BY <2>3, <2>4, <3>1, <3>2, <3>3, <3>4
    <2>6. QED
      BY <2>2, <2>4, <2>5
  <1>4. ASSUME NEW w \in Workers, Ends(w)
        PROVE  /\ Effects(m)' = Effects(m) /\ Pending(m)' \subseteq Pending(m)
               /\ UNCHANGED recorded
    <2>1. UNCHANGED <<appointments, orders, recorded>>
      BY <1>4 DEF Ends, CompleteTask, FailTask, WorkerStops, effectVars
    <2>2. \A v \in Workers \ {w} : run'[v] = run[v]
      BY <1>4, OtherRunSteps DEF Ends, Others
    <2>3. run'[w].step = "idle"
      BY <1>4, RunMoves DEF Ends, CompleteTask, FailTask, WorkerStops, TypeInv, TypeOK, Steps
    <2>4. QED
      BY <2>1, <2>2, <2>3 DEF Effects, Pending
  <1>5. ASSUME NEW w \in Workers, NEW k \in Messages, TakeTask(w, k)
        PROVE  /\ Effects(m)' = Effects(m) /\ UNCHANGED recorded
               /\ \/ Pending(m)' \subseteq Pending(m)
                  \/ Started(m) /\ Pending(m)' \subseteq Pending(m) \cup {w}
    <2>1. UNCHANGED <<appointments, orders, recorded>>
      BY <1>5 DEF TakeTask, effectVars
    <2>2. StartsRun(w, k)
      BY <1>5, TakeStarts
    <2>3. \A v \in Workers \ {w} : run'[v] = run[v]
      BY <2>2 DEF StartsRun, Others
    <2>4. CASE k = m /\ ~Queue!GivenUp(m) /\ recorded[m] = Nothing
      <3>1. Started(m)
        BY <1>5, <2>4 DEF Started
      <3>2. Pending(m)' \subseteq Pending(m) \cup {w}
        BY <2>1, <2>3 DEF Pending
      <3>3. QED
        BY <2>1, <3>1, <3>2 DEF Effects
    <2>5. CASE ~(k = m /\ ~Queue!GivenUp(m) /\ recorded[m] = Nothing)
      <3>1. w \notin Pending(m)'
        BY <2>1, <2>2, <2>5 DEF StartsRun, Pending
      <3>2. Pending(m)' \subseteq Pending(m)
        BY <2>1, <2>3, <3>1 DEF Pending
      <3>3. QED
        BY <2>1, <3>2 DEF Effects
    <2>6. QED
      BY <2>4, <2>5
  <1>6. ASSUME Aside
        PROVE  /\ Effects(m)' = Effects(m) /\ Pending(m)' \subseteq Pending(m)
               /\ UNCHANGED recorded
    <2>1. Effects(m)' = Effects(m) /\ Pending(m)' = Pending(m) /\ UNCHANGED recorded
      BY <1>6 DEF Aside, Effects, Pending
    <2>2. QED
      BY <2>1
  <1>7. ASSUME NEW k \in Messages, Stalls(k)
        PROVE  /\ Effects(m)' = Effects(m) /\ Pending(m)' \subseteq Pending(m)
               /\ UNCHANGED recorded
    BY <1>7 DEF Stalls, StalledDead, StalledSlow, effectVars, Effects, Pending
  <1>8. ASSUME Refused(m) PROVE \E w \in Pending(m) : /\ Effects(m)' = Effects(m)
                                                     /\ Pending(m)' \subseteq Pending(m) \ {w}
    <2>1. PICK w \in Pending(m) : Refuses(w)
      BY <1>8 DEF Refused
    <2>2. w \in Workers /\ Goes(w)
      BY <2>1 DEF Pending, Refuses, Goes, ServiceStep
    <2>3. QED
      BY <1>3, <2>1, <2>2
  <1>9. QED
    BY <1>2, <1>3, <1>4, <1>5, <1>6, <1>7, <1>8, StepKinds DEF Aside

\* The load of a message grows with the runs of its task only, and shrinks with each
\* that is refused.
LEMMA LoadStep ==
  ASSUME TypeInv, [Next]_vars, NEW m \in Messages, IsFiniteSet(Pending(m))
  PROVE  /\ IsFiniteSet(Pending(m)') /\ Load(m) \in Nat /\ Load(m)' \in Nat
         /\ Load(m)' <= Load(m) \/ (Started(m) /\ Load(m)' <= Load(m) + 1)
         /\ Refused(m) => Load(m)' + 1 <= Load(m)
  <1> DEFINE P == Pending(m)
             Q == Pending(m)'
             e == Effects(m)
             f == Effects(m)'
  <1>1. IsFiniteSet(P) /\ Cardinality(P) \in Nat /\ e \in Nat
    BY FS_CardinalityType, PendingKinds
  <1>2. Load(m) = e + Cardinality(P) /\ Load(m)' = f + Cardinality(Q)
    BY DEF Load
  <1>3. ASSUME Q \subseteq P
        PROVE  IsFiniteSet(Q) /\ Cardinality(Q) \in Nat /\ Cardinality(Q) <= Cardinality(P)
    BY <1>1, <1>3, FS_Subset, FS_CardinalityType
  <1>4. ASSUME NEW w \in P, Q \subseteq P \ {w}
        PROVE  /\ IsFiniteSet(Q) /\ Cardinality(Q) \in Nat
               /\ Cardinality(Q) + 1 <= Cardinality(P)
    <2>1. IsFiniteSet(P \ {w}) /\ Cardinality(P \ {w}) = Cardinality(P) - 1
      BY <1>1, FS_RemoveElement
    <2>2. IsFiniteSet(Q) /\ Cardinality(Q) <= Cardinality(P \ {w}) /\ Cardinality(Q) \in Nat
      BY <1>4, <2>1, FS_Subset, FS_CardinalityType
    <2>3. QED
      BY <1>1, <2>1, <2>2
  <1>5. ASSUME NEW w, Q \subseteq P \cup {w}
        PROVE  /\ IsFiniteSet(Q) /\ Cardinality(Q) \in Nat
               /\ Cardinality(Q) <= Cardinality(P) + 1
    <2>1. /\ IsFiniteSet(P \cup {w}) /\ Cardinality(P \cup {w}) \in Nat
          /\ Cardinality(P \cup {w}) <= Cardinality(P) + 1
      <3>1. IsFiniteSet(P \cup {w})
        BY <1>1, FS_AddElement
      <3>2. Cardinality(P \cup {w}) \in Nat
        BY <3>1, FS_CardinalityType
      <3>3. CASE w \in P
        <4>1. Cardinality(P \cup {w}) = Cardinality(P)
          BY <1>1, <3>3, FS_AddElement
        <4>2. QED
          BY <1>1, <3>1, <3>2, <4>1
      <3>4. CASE w \notin P
        <4>1. Cardinality(P \cup {w}) = Cardinality(P) + 1
          BY <1>1, <3>4, FS_AddElement
        <4>2. QED
          BY <1>1, <3>1, <3>2, <4>1
      <3>5. QED
        BY <3>3, <3>4
    <2>2. IsFiniteSet(Q) /\ Cardinality(Q) <= Cardinality(P \cup {w}) /\ Cardinality(Q) \in Nat
      BY <1>5, <2>1, FS_Subset, FS_CardinalityType
    <2>3. QED
      BY <1>1, <2>1, <2>2
  <1>6. /\ \/ f = e /\ Q \subseteq P
           \/ \E w \in P : f = e + 1 /\ Q \subseteq P \ {w}
           \/ Started(m) /\ f = e /\ \E w \in Workers : Q \subseteq P \cup {w}
        /\ Refused(m) => \E w \in P : f = e /\ Q \subseteq P \ {w}
    BY PendingKinds
  <1> HIDE DEF P, Q, e, f
  <1>7. IsFiniteSet(Q) /\ Cardinality(Q) \in Nat /\ f \in Nat
    BY <1>1, <1>3, <1>4, <1>5, <1>6
  <1>8. \/ f + Cardinality(Q) <= e + Cardinality(P)
        \/ Started(m) /\ f + Cardinality(Q) <= e + Cardinality(P) + 1
    BY <1>1, <1>3, <1>4, <1>5, <1>6, <1>7
  <1>9. Refused(m) => f + Cardinality(Q) + 1 <= e + Cardinality(P)
    BY <1>1, <1>4, <1>6, <1>7
  <1>10. /\ f + Cardinality(Q) \in Nat /\ e + Cardinality(P) \in Nat
         /\ Load(m) = e + Cardinality(P) /\ Load(m)' = f + Cardinality(Q)
    BY <1>1, <1>2, <1>7
  <1>11. QED
    BY <1>7, <1>8, <1>9, <1>10 DEF Q

(***************************************************************************)
(* What a task has used, and who holds it.                                 *)
(***************************************************************************)

\* Each attempt taken and each stall is counted.
LEMMA UsedStep ==
  ASSUME TypeInv, [Next]_vars, NEW m \in Messages, GivenUpOK(m)
  PROVE  /\ Used(m) \in Int /\ Used(m)' \in Int
         /\ Used(m) <= Used(m)'
         /\ Started(m) => Used(m)' = Used(m) + 1
  <1>1. /\ Queue!WorkOK /\ work \in [Messages -> Queue!Work] /\ work[m] \in Queue!Work
        /\ work[m].made \in Nat /\ work[m].stalled \in Nat /\ MaxStalled \in Nat
    BY BoundsAssumption DEF TypeInv, TypeOK, Queue!WorkOK, Queue!Work
  <1>2. Used(m) \in Int
    BY <1>1 DEF Used
  <1>3. ASSUME Started(m)
        PROVE  work'[m] # work[m] /\ ~Queue!GivenUp(m) /\ work[m].state = "waiting"
    BY <1>1, <1>3, QueueMoves DEF Started, TakeTask
  <1>4. CASE work'[m] = work[m]
    <2>1. Used(m)' = Used(m)
      BY <1>4 DEF Used, Queue!GivenUp, Queue!Ended
    <2>2. QED
      BY <1>2, <1>3, <1>4, <2>1
  <1>5. ASSUME NEW w \in Workers, TakeTask(w, m), Queue!Take(w, m)
        PROVE  Used(m)' = Used(m) + (IF Queue!GivenUp(m) THEN 0 ELSE 1)
    <2>1. /\ work[m].state = "waiting" /\ work'[m].state = "active"
          /\ work'[m].made = work[m].made /\ work'[m].stalled = work[m].stalled
      BY <1>1, <1>5, QueueMoves, QueueCounts
    <2>2. QED
      BY <1>1, <2>1 DEF Used, Queue!GivenUp, Queue!Ended
  <1>6. ASSUME NEW w \in Workers, run[w].message = m, Queue!Owns(w, m),
               CompleteTask(w), Queue!Complete(w, m)
        PROVE  Used(m)' = Used(m) /\ ~Started(m)
    <2>1. ~Queue!GivenUp(m)
      BY <1>6 DEF GivenUpOK, CompleteTask, At
    <2>2. /\ work[m].state = "active" /\ work'[m].state = "completed"
          /\ work'[m].made = work[m].made + 1 /\ work'[m].stalled = work[m].stalled
      BY <1>1, <1>6, QueueMoves, QueueCounts DEF Queue!Owns
    <2>3. QED
      BY <1>1, <1>3, <2>1, <2>2 DEF Used, Queue!GivenUp, Queue!Ended
  <1>7. ASSUME NEW w \in Workers, run[w].message = m, Queue!Owns(w, m), Queue!Fail(w, m)
        PROVE  Used(m)' = Used(m) /\ ~Started(m)
    <2>1. /\ work[m].state = "active" /\ work'[m].state \in {"failed", "waiting"}
          /\ Queue!GivenUp(m) => work'[m].state = "failed"
          /\ work'[m].made = work[m].made + 1 /\ work'[m].stalled = work[m].stalled
      BY <1>1, <1>7, QueueMoves, QueueCounts DEF Queue!Owns
    <2>2. QED
      BY <1>1, <1>3, <2>1 DEF Used, Queue!GivenUp, Queue!Ended
  <1>8. ASSUME Queue!PutBack(m)
        PROVE  Used(m)' = Used(m) /\ ~Started(m)
    <2>1. /\ work[m].state = "active" /\ work'[m].state = "waiting"
          /\ work'[m].made = work[m].made
          /\ work'[m].stalled = IF Queue!GivenUp(m) THEN work[m].stalled ELSE work[m].stalled + 1
      BY <1>1, <1>8 DEF Queue!PutBack, Queue!Work
    <2>2. QED
      BY <1>1, <1>3, <2>1 DEF Used, Queue!GivenUp, Queue!Ended
  <1>9. Started(m) => ~Queue!GivenUp(m)
    BY DEF Started
  <1>10. QED
    BY <1>2, <1>4, <1>5, <1>6, <1>7, <1>8, <1>9, TaskOf

\* A task that was given up is only failed: inductive.
LEMMA GivenUpStep ==
  ASSUME TypeInv, [Next]_vars, NEW m \in Messages, GivenUpOK(m)
  PROVE  GivenUpOK(m)'
  <1> SUFFICES ASSUME NEW w \in Workers, Queue!Owns(w, m)', run'[w].message = m,
                      Queue!GivenUp(m)'
               PROVE  run'[w].step = "throw"
    BY DEF GivenUpOK
  <1>1. /\ Queue!WorkOK /\ work \in [Messages -> Queue!Work] /\ NoMessage \notin Messages
        /\ run \in [Workers -> Run]
    BY NobodyAssumption DEF TypeInv, TypeOK, Queue!WorkOK
  <1>2. ASSUME NEW v \in Workers, TakeTask(v, m), Queue!Take(v, m) PROVE run'[w].step = "throw"
    <2>1. StartsRun(v, m)
      BY <1>2, TakeStarts
    <2>2. v = w
      BY <2>1 DEF StartsRun, Queue!Owns
    <2>3. Queue!GivenUp(m)
      BY <2>1 DEF StartsRun, Queue!GivenUp
    <2>4. QED
      BY <2>1, <2>2, <2>3 DEF StartsRun
  <1>3. CASE work'[m] = work[m]
    <2>1. Queue!Owns(w, m) /\ Queue!GivenUp(m)
      BY <1>3 DEF Queue!Owns, Queue!GivenUp
    <2>2. CASE run'[w] = run[w]
      BY <2>1, <2>2 DEF GivenUpOK
    <2>3. CASE Goes(w)
      <3>1. run[w].message = m
        BY <2>3, GoesMoves DEF GoesOn
      <3>2. run[w].step = "throw"
        BY <2>1, <3>1 DEF GivenUpOK
      <3>3. QED
        BY <2>3, <3>2 DEF Goes, ServiceStep, FindRun, ReadProfile, SearchRefused, Decide,
             CreateAppointment, CreateOrder, OrderRefused, RecordRun, RunRefused, CountUsage,
             CounterRefused, AddReply, MarkProcessed, MarkFailed, AwaitFails, MarkFailedFails,
             At, NextCount, TryBlock
    <2>4. ASSUME NEW k \in Messages, TakeTask(w, k) PROVE FALSE
      <3>1. run'[w].message = k /\ Queue!Take(w, k)
        BY <2>4, TakeStarts DEF StartsRun, TakeTask
      <3>2. QED
        BY <1>1, <1>3, <3>1, QueueMoves
    <2>5. ~Ends(w)
      BY <1>1, RunMoves DEF Ends, CompleteTask, FailTask, WorkerStops, Steps
    <2>6. QED
      BY <2>2, <2>3, <2>4, <2>5, RunOf
  <1>4. ASSUME NEW v \in Workers, Queue!Owns(v, m), Queue!Complete(v, m) \/ Queue!Fail(v, m)
        PROVE  FALSE
    BY <1>1, <1>4, QueueMoves DEF Queue!Owns
  <1>5. ASSUME Queue!PutBack(m) PROVE FALSE
    BY <1>1, <1>5, QueueMoves DEF Queue!Owns
  <1>6. QED
    BY <1>2, <1>3, <1>4, <1>5, TaskOf

\* Without a failure a healthy run of a message that can be recorded stays healthy,
\* unless the message is refused first.
LEMMA HealthyStays ==
  ASSUME TypeInv, CountOK, NEW w \in Workers, Goes(w), run[w].step \in Healthy,
         NEW m, m = run[w].message, Recordable(m), recorded[m] = Nothing,
         faults' = faults, ~Refuses(w)
  PROVE  run'[w].step \in Healthy
  <1> USE DEF Steps, At, Healthy
  <1>1. /\ run \in [Workers -> Run] /\ run[w] \in Run /\ Msg(w) = m /\ ~Fault
    BY DEF TypeInv, TypeOK, Msg, Fault
  <1>2. CASE FindRun(w)
    BY <1>1, <1>2, RunMoves DEF FindRun
  <1>3. CASE ReadProfile(w)
    BY <1>1, <1>3 DEF ReadProfile, Run
  <1>4. CASE Decide(w)
    <2>1. PICK d \in Decided(message[m].text, message[m].answers) :
            LET a == ResolvedAction(d, run[w].profile) IN
            /\ run' \in [Workers -> Run] /\ run[w].step = "decide" /\ run'[w].message = m
            /\ run'[w].outcome = [decision |-> d, action |-> a] /\ run'[w].outcome \in Outcomes
            /\ run'[w].step = CASE a = "appointment.create" -> "appointment"
                                [] a = "order.create" -> "order"
                                [] OTHER -> "record"
      BY <1>4, DecideStep
    <2>2. run'[w].step \in {"appointment", "order", "record"}
      BY <2>1
    <2>3. QED
      BY <2>2
  <1>5. CASE CreateAppointment(w) \/ CreateOrder(w)
    BY <1>1, <1>5, RunMoves DEF CreateAppointment, CreateOrder, Taken
  <1>6. CASE RecordRun(w) \/ MarkProcessed(w)
    BY <1>1, <1>6, RunMoves DEF RecordRun, MarkProcessed, Taken
  <1>7. ~RunRefused(w)
    <2>1. ~Unrecordable(m, run[w].outcome.decision) \/ run[w].step # "record"
      BY NotBlank DEF Unrecordable
    <2>2. QED
      BY <1>1, <2>1 DEF RunRefused
  <1>8. ~CounterRefused(w)
    BY DEF CounterRefused, NextCount, CountOK, Owing
  <1>9. CASE CountUsage(w)
    BY <1>1, <1>9, RunMoves DEF CountUsage, Taken, NextCount
  <1>10. CASE AddReply(w)
    BY <1>1, <1>10, RunMoves DEF AddReply
  <1>11. ~MarkFailed(w) /\ ~MarkFailedFails(w) /\ ~AwaitFails(w)
    BY <1>1 DEF MarkFailed, MarkFailedFails, AwaitFails
  <1>12. QED
    BY <1>2, <1>3, <1>4, <1>5, <1>6, <1>7, <1>8, <1>9, <1>10, <1>11
       DEF Goes, ServiceStep, Refuses

\* A task that is held stays held, unless something fails or the message is refused.
LEMMA HeldStep ==
  ASSUME TypeInv, CountOK, [Next]_vars, NEW m \in Messages, Recordable(m), GivenUpOK(m)
  PROVE  /\ Held(m) /\ faults' = faults => Held(m)' \/ Refused(m)
         /\ Started(m) => ~Held(m) /\ Held(m)'
  <1>1. /\ Queue!WorkOK /\ work \in [Messages -> Queue!Work] /\ NoMessage \notin Messages
        /\ faults \in Nat /\ run \in [Workers -> Run]
    BY NobodyAssumption DEF TypeInv, TypeOK, Queue!WorkOK
  <1>2. ASSUME Started(m) PROVE ~Held(m) /\ Held(m)'
    <2>1. PICK w \in Workers : TakeTask(w, m) /\ ~Queue!GivenUp(m)
      BY <1>2 DEF Started
    <2>2. StartsRun(w, m) /\ recorded[m] = Nothing
      BY <1>2, <2>1, TakeStarts DEF Started
    <2>3. ~Held(m)
      BY <2>2 DEF StartsRun, Held, Queue!Ended, Queue!Owns
    <2>4. Queue!Owns(w, m)' /\ run'[w].message = m /\ run'[w].step = "find"
      BY <2>1, <2>2 DEF StartsRun, Queue!Owns
    <2>5. QED
      BY <2>3, <2>4 DEF Held, Healthy, Steps
  <1>3. ASSUME recorded[m] # Nothing PROVE Held(m)'
    <2>1. recorded'[m] # Nothing
      BY <1>3, PendingKinds
    <2>2. QED
      BY <2>1 DEF Held
  <1>4. ASSUME Queue!Ended(m) PROVE Held(m)'
    <2>1. work'[m] = work[m]
      <3>1. \A w \in Workers : ~Queue!Take(w, m) /\ ~Queue!Owns(w, m)
        BY <1>1, <1>4, QueueMoves DEF Queue!Ended, Queue!Owns
      <3>2. ~Queue!PutBack(m)
        BY <1>4 DEF Queue!PutBack, Queue!Ended
      <3>3. QED
        BY <3>1, <3>2, TaskOf
    <2>2. QED
      BY <1>4, <2>1 DEF Held, Queue!Ended
  <1>5. ASSUME NEW w \in Workers, Queue!Owns(w, m), run[w].message = m,
               run[w].step \in Healthy, faults' = faults, recorded[m] = Nothing
        PROVE  Held(m)' \/ Refused(m)
    <2>1. CASE work'[m] = work[m]
      <3>1. Queue!Owns(w, m)'
        BY <1>5, <2>1 DEF Queue!Owns
      <3>2. CASE run'[w] = run[w]
        BY <1>5, <3>1, <3>2 DEF Held
      <3>3. CASE Goes(w) /\ ~Refuses(w)
        <4>1. run'[w].message = m
          BY <1>5, <3>3, GoesMoves DEF GoesOn
        <4>2. run'[w].step \in Healthy
          BY <1>5, <3>3, HealthyStays
        <4>3. QED
          BY <3>1, <4>1, <4>2 DEF Held
      <3>4. CASE Refuses(w)
        <4>1. w \in Pending(m)
          BY <1>5, <3>4 DEF Refuses, SearchRefused, OrderRefused, At, Pending
        <4>2. QED
          BY <3>4, <4>1 DEF Refused
      <3>5. ~Ends(w)
        <4>1. ~WorkerStops(w) /\ ~FailTask(w)
          BY <1>1, <1>5 DEF WorkerStops, Fault, FailTask, At, Healthy
        <4>2. ASSUME CompleteTask(w) PROVE FALSE
          <5>1. Queue!Complete(w, m)
            BY <1>5, <4>2 DEF CompleteTask, Msg
          <5>2. work'[m].state = "completed"
            BY <1>1, <1>5, <5>1, QueueMoves
          <5>3. QED
            BY <1>5, <2>1, <5>2 DEF Queue!Owns
        <4>3. QED
          BY <4>1, <4>2 DEF Ends
      <3>6. ASSUME NEW k \in Messages, TakeTask(w, k) PROVE FALSE
        BY <1>5, <3>6 DEF TakeTask, At, Healthy
      <3>7. QED
        BY <3>2, <3>3, <3>4, <3>5, <3>6, RunOf
    <2>2. ASSUME NEW v \in Workers, Queue!Take(v, m) PROVE FALSE
      BY <1>1, <1>5, <2>2, QueueMoves DEF Queue!Owns
    <2>3. ASSUME NEW v \in Workers, run[v].message = m, Queue!Owns(v, m),
                 \/ CompleteTask(v) /\ Queue!Complete(v, m)
                 \/ FailTask(v) /\ Queue!Fail(v, m)
          PROVE  Held(m)'
      <3>1. v = w
        BY <1>5, <2>3 DEF Queue!Owns
      <3>2. Queue!Complete(v, m)
        BY <1>5, <2>3, <3>1 DEF FailTask, At, Healthy
      <3>3. work'[m].state = "completed"
        BY <1>1, <2>3, <3>2, QueueMoves
      <3>4. QED
        BY <3>3 DEF Held, Queue!Ended
    <2>4. ~Stalls(m)
      BY <1>1, <1>5 DEF Stalls, StalledDead, StalledSlow, Fault, Queue!Owns, Msg
    <2>5. QED
      BY <2>1, <2>2, <2>3, <2>4, TaskOf
  <1>6. QED
    BY <1>2, <1>3, <1>4, <1>5 DEF Held

LEMMA FaultsGrow ==
  ASSUME TypeInv, [Next]_vars
  PROVE  /\ faults \in Nat /\ faults' \in Nat /\ faults <= faults'
         /\ UNCHANGED message
  <1>1. faults \in Nat
    BY DEF TypeInv, TypeOK
  <1>2. faults' \in {faults, faults + 1}
    <2>1. ASSUME NEW w \in Workers,
                 GoesOn(w) \/ \E m \in Messages : EndsRun(w, m) \/ StartsRun(w, m)
          PROVE  faults' \in {faults, faults + 1}
      BY <2>1 DEF GoesOn, EndsRun, StartsRun, Others
    <2>2. QED
      BY <2>1, TaskKinds DEF LeavesTasks, PutsBack
  <1>3. UNCHANGED message
    <2>1. ASSUME NEW w \in Workers,
                 GoesOn(w) \/ \E m \in Messages : EndsRun(w, m) \/ StartsRun(w, m)
          PROVE  UNCHANGED message
      BY <2>1 DEF GoesOn, EndsRun, StartsRun, Others
    <2>2. CASE \A w \in Workers : ~WorkerStep(w) /\ ~WorkerFault(w)
      BY <2>2, NoEffects
    <2>3. ASSUME NEW w \in Workers, WorkerStep(w) \/ WorkerFault(w) PROVE UNCHANGED message
      <3>1. Goes(w) \/ Ends(w)
        BY <2>3 DEF WorkerStep, WorkerFault, Goes, Ends
      <3>2. QED
        BY <3>1, GoesMoves, OtherRunSteps DEF Ends, GoesOn, Others
    <2>4. QED
      BY <2>2, <2>3
  <1>4. QED
    BY <1>1, <1>2, <1>3

\* The loads stay within what was used and what failures paid for: inductive.
LEMMA LoadInvStep ==
  ASSUME TypeInv, CountOK, LoadInv, [Next]_vars
  PROVE  LoadInv'
  <1> SUFFICES ASSUME NEW m \in Messages
               PROVE  /\ IsFiniteSet(Pending(m)')
                      /\ GivenUpOK(m)'
                      /\ Load(m)' <= Used(m)'
                      /\ Recordable(m)' =>
                           Load(m)' + (IF Held(m)' THEN 0 ELSE 1) <= 1 + faults'
    BY DEF LoadInv
  <1>1. /\ IsFiniteSet(Pending(m)) /\ GivenUpOK(m) /\ Load(m) <= Used(m)
        /\ Recordable(m) => Load(m) + (IF Held(m) THEN 0 ELSE 1) <= 1 + faults
    BY DEF LoadInv
  <1>2. /\ IsFiniteSet(Pending(m)') /\ Load(m) \in Nat /\ Load(m)' \in Nat
        /\ Load(m)' <= Load(m) \/ (Started(m) /\ Load(m)' <= Load(m) + 1)
        /\ Refused(m) => Load(m)' + 1 <= Load(m)
    BY <1>1, LoadStep
  <1>3. /\ Used(m) \in Int /\ Used(m)' \in Int
        /\ Used(m) <= Used(m)'
        /\ Started(m) => Used(m)' = Used(m) + 1
    BY <1>1, UsedStep
  <1>4. Load(m)' <= Used(m)'
    BY <1>1, <1>2, <1>3
  <1>5. faults \in Nat /\ faults' \in Nat /\ faults <= faults' /\ UNCHANGED message
    BY FaultsGrow
  <1>6. ASSUME Recordable(m)'
        PROVE  Load(m)' + (IF Held(m)' THEN 0 ELSE 1) <= 1 + faults'
    <2>1. Recordable(m)
      BY <1>5, <1>6 DEF Recordable
    <2>2. /\ Held(m) /\ faults' = faults => Held(m)' \/ Refused(m)
          /\ Started(m) => ~Held(m) /\ Held(m)'
      BY <1>1, <2>1, HeldStep
    <2>3. QED
      BY <1>1, <1>2, <1>5, <2>1, <2>2
  <1>7. QED
    BY <1>1, <1>2, <1>4, <1>6, GivenUpStep

LEMMA LoadInit == Init => LoadInv
  <1> SUFFICES ASSUME Init, NEW m \in Messages
               PROVE  /\ IsFiniteSet(Pending(m)) /\ GivenUpOK(m) /\ Load(m) <= Used(m)
                      /\ Recordable(m) =>
                           Load(m) + (IF Held(m) THEN 0 ELSE 1) <= 1 + faults
    BY DEF LoadInv
  <1>1. /\ \A w \in Workers : run[w].message = NoMessage
        /\ work[m].state = "waiting" /\ work[m].made = 0 /\ work[m].stalled = 0
        /\ appointments[m] = 0 /\ orders[m] = 0 /\ faults = 0
    BY DEF Init, Queue!WorkInit, Idle
  <1>2. Pending(m) = {}
    BY <1>1, NobodyAssumption DEF Pending
  <1>3. IsFiniteSet(Pending(m)) /\ Load(m) = 0
    BY <1>1, <1>2, FS_EmptySet DEF Load, Effects
  <1>4. Used(m) = 0
    <2>1. ~Queue!Ended(m) /\ work[m].state # "active"
      BY <1>1 DEF Queue!Ended
    <2>2. Used(m) = work[m].made + work[m].stalled + 0 - 0
      BY <2>1 DEF Used
    <2>3. QED
      BY <1>1, <2>2
  <1>5. QED
    BY <1>1, <1>3, <1>4, NobodyAssumption DEF GivenUpOK

LEMMA SpecLoads == Spec => [](TypeInv /\ LoadInv)
  BY InitInv, TypeStep, CountStep, LoadInit, LoadInvStep, PTL DEF Spec

(***************************************************************************)
(* The bounds.                                                             *)
(***************************************************************************)

\* Of a message whose run can never be recorded, retries, stalls and overtaken runs
\* together make no more appointments and orders than its task may be attempted and may
\* stall.
THEOREM EffectsAreBounded == Spec => []EffectsBounded
  <1>1. TypeInv /\ LoadInv => EffectsBounded
    <2> SUFFICES ASSUME TypeInv, LoadInv, NEW m \in Messages
                 PROVE  Effects(m) <= MaxAttempts + MaxStalled
      BY DEF EffectsBounded
    <2>1. /\ work[m] \in Queue!Work /\ (Queue!Ended(m) \/ work[m].made < MaxAttempts)
          /\ appointments[m] \in Nat /\ orders[m] \in Nat
          /\ Cardinality(Pending(m)) \in Nat /\ Load(m) <= Used(m)
      BY FS_CardinalityType DEF TypeInv, TypeOK, Queue!WorkOK, LoadInv
    <2>2. /\ work[m].made \in 0..MaxAttempts /\ work[m].stalled \in 0..(MaxStalled + 1)
          /\ MaxAttempts \in Nat /\ MaxStalled \in Nat
      BY <2>1, BoundsAssumption DEF Queue!Work
    <2>3. Effects(m) \in Nat /\ Effects(m) <= Load(m) /\ Load(m) \in Nat
      BY <2>1 DEF Load, Effects
    <2>4. Used(m) <= MaxAttempts + MaxStalled /\ Used(m) \in Int
      BY <2>1, <2>2 DEF Used, Queue!GivenUp, Queue!Ended
    <2>5. QED
      BY <2>1, <2>2, <2>3, <2>4
  <1>2. QED
    BY <1>1, SpecLoads, PTL

\* Of a message whose run can be recorded one appointment or order is made, and one more
\* for each failure: no retry and no second slot repeats it for nothing.
THEOREM RepeatedEffectsNeedFaults == Spec => []RepeatedEffectNeedsFault
  <1>1. TypeInv /\ LoadInv => RepeatedEffectNeedsFault
    <2> SUFFICES ASSUME TypeInv, LoadInv, NEW m \in Messages, Recordable(m)
                 PROVE  Effects(m) <= 1 + faults
      BY DEF RepeatedEffectNeedsFault
    <2>1. /\ appointments[m] \in Nat /\ orders[m] \in Nat /\ faults \in Nat
          /\ Cardinality(Pending(m)) \in Nat
          /\ Load(m) + (IF Held(m) THEN 0 ELSE 1) <= 1 + faults
      BY FS_CardinalityType DEF TypeInv, TypeOK, LoadInv
    <2>2. Effects(m) \in Nat /\ Effects(m) <= Load(m) /\ Load(m) \in Nat
      BY <2>1 DEF Load, Effects
    <2>3. QED
      BY <2>1, <2>2
  <1>2. QED
    BY <1>1, SpecLoads, PTL
=============================================================================
