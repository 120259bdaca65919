--------------------------- MODULE JobQueueProofs ---------------------------
(***************************************************************************)
(* What the operations of a queue keep, whoever calls them.                *)
(***************************************************************************)
EXTENDS JobQueue, TLAPS

QueueStep ==
  \/ UNCHANGED work
  \/ \E w \in Workers, j \in Jobs : Take(w, j) \/ Complete(w, j) \/ Fail(w, j)
  \/ \E j \in Jobs : PutBack(j)

\* Every operation of the queue keeps its types, and jobs end with their last attempt.
LEMMA QueueType ==
  ASSUME WorkOK, QueueStep
  PROVE  WorkOK'
  <1> USE AttemptsAssumption DEF WorkOK, JobStates, Ended
  <1>1. ASSUME NEW j \in Jobs, NEW v \in Work, work' = [work EXCEPT ![j] = v],
               v.state \in {"completed", "failed"} \/ v.made < MaxAttempts
        PROVE  WorkOK'
    BY <1>1
  <1>2. ASSUME NEW j \in Jobs
        PROVE  work[j] \in Work /\ (Ended(j) \/ work[j].made + 1 \in 0..MaxAttempts)
    <2>1. work[j] \in Work
      OBVIOUS
    <2>2. work[j].made \in 0..MaxAttempts /\ (Ended(j) \/ work[j].made < MaxAttempts)
      BY <2>1 DEF Work
    <2>3. QED
      BY <2>1, <2>2
  <1>3. ASSUME NEW w \in Workers, NEW j \in Jobs, Take(w, j) PROVE WorkOK'
    <2> DEFINE v == [work[j] EXCEPT !.state = "active", !.owner = w]
    <2>1. work[j] \in Work /\ work[j].made < MaxAttempts
      BY <1>2, <1>3 DEF Take, Work
    <2>2. v \in Work /\ v.made = work[j].made
      BY <2>1 DEF Work
    <2>3. work' = [work EXCEPT ![j] = v]
      BY <1>3 DEF Take
    <2>4. QED
      BY <1>1, <2>1, <2>2, <2>3
  <1>4. ASSUME NEW w \in Workers, NEW j \in Jobs, Complete(w, j), Owns(w, j) PROVE WorkOK'
    <2> DEFINE v == [work[j] EXCEPT !.state = "completed", !.made = @ + 1]
    <2>1. work[j] \in Work /\ work[j].made + 1 \in 0..MaxAttempts
      BY <1>2, <1>4 DEF Owns
    <2>2. v \in Work /\ v.state = "completed"
      BY <2>1 DEF Work
    <2>3. work' = [work EXCEPT ![j] = v]
      BY <1>4 DEF Complete
    <2>4. QED
      BY <1>1, <2>2, <2>3
  <1>5. ASSUME NEW w \in Workers, NEW j \in Jobs, Fail(w, j), Owns(w, j) PROVE WorkOK'
    <2> DEFINE s == IF LastTry(j) \/ GivenUp(j) THEN "failed" ELSE "waiting"
               v == [work[j] EXCEPT !.state = s, !.made = @ + 1]
    <2>1. work[j] \in Work /\ work[j].made \in Nat /\ work[j].made + 1 \in 0..MaxAttempts
      BY <1>2, <1>5 DEF Owns, Work
    <2>2. s \in JobStates /\ (s = "failed" \/ work[j].made + 1 < MaxAttempts)
      BY <2>1 DEF LastTry
    <2>3. work' = [work EXCEPT ![j] = v]
      BY <1>5 DEF Fail
    <2> HIDE DEF s
    <2>4. v \in Work /\ v.state = s /\ v.made = work[j].made + 1
      BY <2>1, <2>2 DEF Work
    <2>5. QED
      BY <1>1, <2>2, <2>3, <2>4
  <1>6. ASSUME NEW j \in Jobs, PutBack(j) PROVE WorkOK'
    <2> DEFINE n == IF GivenUp(j) THEN work[j].stalled ELSE work[j].stalled + 1
               v == [work[j] EXCEPT !.state = "waiting", !.stalled = n]
    <2>1. work[j] \in Work /\ work[j].made < MaxAttempts
      BY <1>2, <1>6 DEF PutBack, Work
    <2>2. n \in 0..(MaxStalled + 1)
      BY <2>1 DEF Work, GivenUp
    <2>3. work' = [work EXCEPT ![j] = v]
      BY <1>6 DEF PutBack
    <2> HIDE DEF n
    <2>4. v \in Work /\ v.made = work[j].made
      BY <2>1, <2>2 DEF Work
    <2>5. QED
      BY <1>1, <2>1, <2>3, <2>4
  <1>7. CASE UNCHANGED work
    BY <1>7
  <1>8. QED
    BY <1>3, <1>4, <1>5, <1>6, <1>7 DEF QueueStep, Complete, Fail

\* Attempts are only added, and a job that ended stays as it is.
LEMMA QueueMonotone ==
  ASSUME WorkOK, QueueStep
  PROVE  \A j \in Jobs : work[j].made <= work'[j].made /\ (Ended(j) => work'[j] = work[j])
  <1> SUFFICES ASSUME NEW j \in Jobs
               PROVE  work[j].made <= work'[j].made /\ (Ended(j) => work'[j] = work[j])
    OBVIOUS
  <1>1. work \in [Jobs -> Work] /\ work[j] \in Work /\ work[j].made \in Nat
    BY AttemptsAssumption DEF WorkOK, Work
  <1>2. CASE UNCHANGED work
    BY <1>1, <1>2
  <1>3. ASSUME NEW w \in Workers, NEW k \in Jobs, Take(w, k) \/ Complete(w, k) \/ Fail(w, k)
        PROVE  work[j].made <= work'[j].made /\ (Ended(j) => work'[j] = work[j])
    <2>1. CASE Take(w, k)
      BY <1>1, <2>1 DEF Take, Ended, Work
    <2>2. CASE Complete(w, k)
      BY <1>1, <2>2 DEF Complete, Owns, Ended, Work
    <2>3. CASE Fail(w, k)
      BY <1>1, <2>3 DEF Fail, Owns, Ended, Work
    <2>4. QED
      BY <1>3, <2>1, <2>2, <2>3
  <1>4. ASSUME NEW k \in Jobs, PutBack(k)
        PROVE  work[j].made <= work'[j].made /\ (Ended(j) => work'[j] = work[j])
    BY <1>1, <1>4 DEF PutBack, Ended, Work
  <1>5. QED
    BY <1>2, <1>3, <1>4 DEF QueueStep
=============================================================================
