------------------------ MODULE WebhookIngestProofs ------------------------
(***************************************************************************)
(* Proofs of the safety of webhook ingestion, for every set of requests,   *)
(* every set of deliveries and every bound on the failures.                *)
(***************************************************************************)
EXTENDS WebhookIngest, TLAPS

(***************************************************************************)
(* The relations on deliveries.                                            *)
(***************************************************************************)

\* What findDuplicate finds, an index would have refused.
LEMMA MatchesConflict ==
  ASSUME NEW d, NEW e, Matches(d, e)
  PROVE  IndexConflict(d, e)
  BY DEF Matches, IndexConflict

\* The indexes do not care which of the two events came first.
LEMMA ConflictSymmetric ==
  ASSUME NEW d, NEW e, IndexConflict(d, e)
  PROVE  IndexConflict(e, d)
  BY DEF IndexConflict

\* Deliveries that compete for one lock clash.
LEMMA LockNameConflict ==
  ASSUME NEW d, NEW e, LockName(d) = LockName(e)
  PROVE  IndexConflict(d, e)
  BY DEF LockName, IndexConflict

(***************************************************************************)
(* Type correctness.                                                       *)
(***************************************************************************)

\* Every step of ingestion keeps the types.
LEMMA TypeStep ==
  IngestTypeOK /\ [IngestNext]_ingestVars => IngestTypeOK'
  <1> SUFFICES ASSUME IngestTypeOK, [IngestNext]_ingestVars
               PROVE  IngestTypeOK'
    OBVIOUS
  <1> USE NoEventAssumption, MaxFaultsAssumption
      DEF IngestTypeOK, Goto, Reply, Answer, Answers, Steps, Statuses, Mark,
          NoFault, Fault, storeVars, requestVars
  <1>1. ASSUME NEW r \in Requests, RefuseSignature(r) PROVE IngestTypeOK'
    BY <1>1 DEF RefuseSignature
  <1>2. ASSUME NEW r \in Requests, FindDuplicate(r) PROVE IngestTypeOK'
    BY <1>2 DEF FindDuplicate, Duplicates, Stored
  <1>3. ASSUME NEW r \in Requests, AcquireLock(r) PROVE IngestTypeOK'
    BY <1>3 DEF AcquireLock, LockNames
  <1>4. ASSUME NEW r \in Requests, LockConflict(r) PROVE IngestTypeOK'
    BY <1>4 DEF LockConflict
  <1>5. ASSUME NEW r \in Requests, CreateReceivedEvent(r) PROVE IngestTypeOK'
    BY <1>5 DEF CreateReceivedEvent
  <1>6. ASSUME NEW r \in Requests, AnswerDuplicateKey(r) PROVE IngestTypeOK'
    BY <1>6 DEF AnswerDuplicateKey, Duplicates, Stored
  <1>7. ASSUME NEW r \in Requests, EnqueueJob(r) PROVE IngestTypeOK'
    BY <1>7 DEF EnqueueJob
  <1>8. ASSUME NEW r \in Requests, MarkQueued(r) PROVE IngestTypeOK'
    BY <1>8 DEF MarkQueued
  <1>9. ASSUME NEW r \in Requests, LockUnavailable(r) PROVE IngestTypeOK'
    BY <1>9 DEF LockUnavailable
  <1>10. ASSUME NEW r \in Requests, LockReplyLost(r) PROVE IngestTypeOK'
    BY <1>10 DEF LockReplyLost, LockNames
  <1>11. ASSUME NEW r \in Requests, StepFails(r) PROVE IngestTypeOK'
    BY <1>11 DEF StepFails
  <1>12. ASSUME NEW r \in Requests, ApiStops(r) PROVE IngestTypeOK'
    BY <1>12 DEF ApiStops
  <1>13. ASSUME NEW name \in LockNames, LockExpires(name) PROVE IngestTypeOK'
    BY <1>13 DEF LockExpires
  <1>14. ASSUME NEW e \in Requests, EventExpires(e) PROVE IngestTypeOK'
    BY <1>14 DEF EventExpires
  <1>15. CASE UNCHANGED ingestVars
    BY <1>15 DEF ingestVars
  <1>16. QED
    BY <1>1, <1>2, <1>3, <1>4, <1>5, <1>6, <1>7, <1>8, <1>9, <1>10, <1>11,
       <1>12, <1>13, <1>14, <1>15
       DEF IngestNext, IngestActs, IngestStep, IngestFault, IngestIdle

\* Every variable keeps its type, whatever fails and expires.
THEOREM TypeCorrect == IngestSpec => []IngestTypeOK
  <1>1. IngestInit => IngestTypeOK
    BY NoEventAssumption, MaxFaultsAssumption
       DEF IngestInit, IngestTypeOK, Answer, Answers, Steps, Statuses
  <1>2. QED
    BY <1>1, TypeStep, PTL DEF IngestSpec

(***************************************************************************)
(* The shape of a request: its step, its answer and its event.             *)
(***************************************************************************)

\* Every step keeps the link between the step of a request, its answer and its
\* event.
LEMMA ShapeStep ==
  IngestTypeOK /\ Shape /\ [IngestNext]_ingestVars => Shape'
  <1> SUFFICES ASSUME IngestTypeOK, Shape, [IngestNext]_ingestVars
               PROVE  Shape'
    OBVIOUS
  <1> USE NoEventAssumption
      DEF IngestTypeOK, Shape, Stored, Accepted, TurnedAway, Goto, Reply, Answer,
          Mark, storeVars, requestVars
  <1>1. ASSUME NEW r \in Requests, RefuseSignature(r) PROVE Shape'
    BY <1>1 DEF RefuseSignature
  <1>2. ASSUME NEW r \in Requests, FindDuplicate(r) PROVE Shape'
    BY <1>2 DEF FindDuplicate
  <1>3. ASSUME NEW r \in Requests, AcquireLock(r) PROVE Shape'
    BY <1>3 DEF AcquireLock
  <1>4. ASSUME NEW r \in Requests, LockConflict(r) PROVE Shape'
    BY <1>4 DEF LockConflict
  <1>5. ASSUME NEW r \in Requests, CreateReceivedEvent(r) PROVE Shape'
    BY <1>5 DEF CreateReceivedEvent
  <1>6. ASSUME NEW r \in Requests, AnswerDuplicateKey(r) PROVE Shape'
    BY <1>6 DEF AnswerDuplicateKey
  <1>7. ASSUME NEW r \in Requests, EnqueueJob(r) PROVE Shape'
    BY <1>7 DEF EnqueueJob
  <1>8. ASSUME NEW r \in Requests, MarkQueued(r) PROVE Shape'
    BY <1>8 DEF MarkQueued
  <1>9. ASSUME NEW r \in Requests, LockUnavailable(r) PROVE Shape'
    BY <1>9 DEF LockUnavailable
  <1>10. ASSUME NEW r \in Requests, LockReplyLost(r) PROVE Shape'
    BY <1>10 DEF LockReplyLost
  <1>11. ASSUME NEW r \in Requests, StepFails(r) PROVE Shape'
    BY <1>11 DEF StepFails
  <1>12. ASSUME NEW r \in Requests, ApiStops(r) PROVE Shape'
    BY <1>12 DEF ApiStops
  <1>13. ASSUME NEW name \in LockNames, LockExpires(name) PROVE Shape'
    BY <1>13 DEF LockExpires
  <1>14. ASSUME NEW e \in Requests, EventExpires(e) PROVE Shape'
    BY <1>14 DEF EventExpires
  <1>15. CASE UNCHANGED ingestVars
    BY <1>15 DEF ingestVars
  <1>16. QED
    BY <1>1, <1>2, <1>3, <1>4, <1>5, <1>6, <1>7, <1>8, <1>9, <1>10, <1>11,
       <1>12, <1>13, <1>14, <1>15
       DEF IngestNext, IngestActs, IngestStep, IngestFault, IngestIdle

\* An event is stored exactly by a request that went past the insert, and only a
\* request that is done is answered.
LEMMA ShapeCorrect == IngestSpec => []Shape
  <1>1. IngestInit => Shape
    <2> SUFFICES ASSUME IngestInit, NEW r \in Requests
                 PROVE  /\ pc[r] = "start" /\ status[r] = "none"
                        /\ answer[r].kind = "none"
      BY DEF Shape, Accepted, TurnedAway
    <2>1. QED
      BY DEF IngestInit, Answer
  <1>2. QED
    BY <1>1, ShapeStep, TypeCorrect, PTL DEF IngestSpec

(***************************************************************************)
(* The unique indexes.                                                     *)
(***************************************************************************)

\* No step stores an event that clashes with a stored one: only the insert stores,
\* and the indexes refuse it.
LEMMA NoClashStep ==
  IngestTypeOK /\ NoClash /\ [IngestNext]_ingestVars => NoClash'
  <1> SUFFICES ASSUME IngestTypeOK, NoClash, [IngestNext]_ingestVars
               PROVE  NoClash'
    OBVIOUS
  <1> USE ConflictSymmetric
      DEF IngestTypeOK, NoClash, Clash, Stored, Goto, Reply, Mark, storeVars, requestVars
  <1>1. ASSUME NEW r \in Requests, RefuseSignature(r) PROVE NoClash'
    BY <1>1 DEF RefuseSignature
  <1>2. ASSUME NEW r \in Requests, FindDuplicate(r) PROVE NoClash'
    BY <1>2 DEF FindDuplicate
  <1>3. ASSUME NEW r \in Requests, AcquireLock(r) PROVE NoClash'
    BY <1>3 DEF AcquireLock
  <1>4. ASSUME NEW r \in Requests, LockConflict(r) PROVE NoClash'
    BY <1>4 DEF LockConflict
  <1>5. ASSUME NEW r \in Requests, CreateReceivedEvent(r) PROVE NoClash'
    BY <1>5 DEF CreateReceivedEvent
  <1>6. ASSUME NEW r \in Requests, AnswerDuplicateKey(r) PROVE NoClash'
    BY <1>6 DEF AnswerDuplicateKey
  <1>7. ASSUME NEW r \in Requests, EnqueueJob(r) PROVE NoClash'
    BY <1>7 DEF EnqueueJob
  <1>8. ASSUME NEW r \in Requests, MarkQueued(r) PROVE NoClash'
    BY <1>8 DEF MarkQueued
  <1>9. ASSUME NEW r \in Requests, LockUnavailable(r) PROVE NoClash'
    BY <1>9 DEF LockUnavailable
  <1>10. ASSUME NEW r \in Requests, LockReplyLost(r) PROVE NoClash'
    BY <1>10 DEF LockReplyLost
  <1>11. ASSUME NEW r \in Requests, StepFails(r) PROVE NoClash'
    BY <1>11 DEF StepFails
  <1>12. ASSUME NEW r \in Requests, ApiStops(r) PROVE NoClash'
    BY <1>12 DEF ApiStops
  <1>13. ASSUME NEW name \in LockNames, LockExpires(name) PROVE NoClash'
    BY <1>13 DEF LockExpires
  <1>14. ASSUME NEW e \in Requests, EventExpires(e) PROVE NoClash'
    BY <1>14 DEF EventExpires
  <1>15. CASE UNCHANGED ingestVars
    BY <1>15 DEF ingestVars
  <1>16. QED
    BY <1>1, <1>2, <1>3, <1>4, <1>5, <1>6, <1>7, <1>8, <1>9, <1>10, <1>11,
       <1>12, <1>13, <1>14, <1>15
       DEF IngestNext, IngestActs, IngestStep, IngestFault, IngestIdle

\* The collection never holds two events that clash.
LEMMA NoClashCorrect == IngestSpec => []NoClash
  <1>1. IngestInit => NoClash
    BY DEF IngestInit, NoClash, Stored
  <1>2. QED
    BY <1>1, NoClashStep, TypeCorrect, PTL DEF IngestSpec

\* Two accepted requests never clash while both events are retained, whatever
\* happened to Redis and to its locks: the promise of the unique indexes.
THEOREM AcceptedOnceHolds == IngestSpec => []AcceptedOnce
  <1>1. NoClash => AcceptedOnce
    BY DEF NoClash, AcceptedOnce, Accepted
  <1>2. QED
    BY <1>1, NoClashCorrect, PTL

(***************************************************************************)
(* The hand-off to the queue.                                              *)
(***************************************************************************)

\* A step past the add, or an acceptance, has a job behind it, and no job is lost.
LEMMA JobsAddedStep ==
  IngestTypeOK /\ Shape /\ JobsAdded /\ [IngestNext]_ingestVars => JobsAdded'
  <1> SUFFICES ASSUME IngestTypeOK, Shape, JobsAdded, [IngestNext]_ingestVars
               PROVE  JobsAdded'
    OBVIOUS
  <1> USE NoEventAssumption
      DEF IngestTypeOK, Shape, JobsAdded, Scheduled, Stored, Accepted, Goto, Reply,
          Answer, Mark, storeVars, requestVars
  <1>1. ASSUME NEW r \in Requests, RefuseSignature(r) PROVE JobsAdded'
    BY <1>1 DEF RefuseSignature
  <1>2. ASSUME NEW r \in Requests, FindDuplicate(r) PROVE JobsAdded'
    BY <1>2 DEF FindDuplicate
  <1>3. ASSUME NEW r \in Requests, AcquireLock(r) PROVE JobsAdded'
    BY <1>3 DEF AcquireLock
  <1>4. ASSUME NEW r \in Requests, LockConflict(r) PROVE JobsAdded'
    BY <1>4 DEF LockConflict
  <1>5. ASSUME NEW r \in Requests, CreateReceivedEvent(r) PROVE JobsAdded'
    BY <1>5 DEF CreateReceivedEvent
  <1>6. ASSUME NEW r \in Requests, AnswerDuplicateKey(r) PROVE JobsAdded'
    BY <1>6 DEF AnswerDuplicateKey
  <1>7. ASSUME NEW r \in Requests, EnqueueJob(r) PROVE JobsAdded'
    BY <1>7 DEF EnqueueJob
  <1>8. ASSUME NEW r \in Requests, MarkQueued(r) PROVE JobsAdded'
    BY <1>8 DEF MarkQueued
  <1>9. ASSUME NEW r \in Requests, LockUnavailable(r) PROVE JobsAdded'
    BY <1>9 DEF LockUnavailable
  <1>10. ASSUME NEW r \in Requests, LockReplyLost(r) PROVE JobsAdded'
    BY <1>10 DEF LockReplyLost
  <1>11. ASSUME NEW r \in Requests, StepFails(r) PROVE JobsAdded'
    BY <1>11 DEF StepFails
  <1>12. ASSUME NEW r \in Requests, ApiStops(r) PROVE JobsAdded'
    BY <1>12 DEF ApiStops
  <1>13. ASSUME NEW name \in LockNames, LockExpires(name) PROVE JobsAdded'
    BY <1>13 DEF LockExpires
  <1>14. ASSUME NEW e \in Requests, EventExpires(e) PROVE JobsAdded'
    BY <1>14 DEF EventExpires
  <1>15. CASE UNCHANGED ingestVars
    BY <1>15 DEF ingestVars
  <1>16. QED
    BY <1>1, <1>2, <1>3, <1>4, <1>5, <1>6, <1>7, <1>8, <1>9, <1>10, <1>11,
       <1>12, <1>13, <1>14, <1>15
       DEF IngestNext, IngestActs, IngestStep, IngestFault, IngestIdle

\* Requests past the add, and accepted ones, are scheduled in every reachable state.
LEMMA JobsAddedCorrect == IngestSpec => []JobsAdded
  <1>1. IngestInit => JobsAdded
    BY DEF IngestInit, JobsAdded, Accepted, Answer
  <1>2. QED
    BY <1>1, JobsAddedStep, TypeCorrect, ShapeCorrect, PTL DEF IngestSpec

\* No job without its event, no acceptance without a job.
THEOREM HandedOffHolds == IngestSpec => []HandedOff
  <1>1. IngestTypeOK /\ JobsAdded => HandedOff
    BY DEF IngestTypeOK, JobsAdded, HandedOff, Accepted
  <1>2. QED
    BY <1>1, TypeCorrect, JobsAddedCorrect, PTL

(***************************************************************************)
(* Coverage of duplicate answers while nothing fails.                      *)
(***************************************************************************)

Busy       == Accepted \cup Working
Suspect(r) == pc[r] = "recheck" \/ r \in TurnedAway

\* A step that keeps the requests, the stored events and, but for those that
\* clash with a stored event, the busy requests: the claims survive it.
KeepsClaims ==
  /\ UNCHANGED delivery
  /\ \A e \in Requests : status[e] # "none" => status'[e] # "none"
  /\ \A q \in Busy : \/ q \in Busy'
                     \/ \E e \in Requests : status[e] # "none" /\ Clash(q, e)

\* A step without failure that gives a reason for every event it stores, every
\* lock it takes and every request it suspects of being a duplicate.
KeepsCoverage ==
  /\ KeepsClaims
  /\ UNCHANGED faults
  /\ \A e \in Requests :
       status'[e] # "none" => e \in Busy' \/ (status[e] # "none" /\ e \notin Busy)
  /\ \A name \in locks' : name \in locks \/ Claimed(name)'
  /\ \A r \in Requests : Suspect(r)' =>
       \/ Suspect(r)
       \/ LockName(delivery[r]) \in locks
       \/ Claimed(LockName(delivery[r]))'

\* A claim to a lock survives a step that keeps the requests that made it.
LEMMA ClaimStays ==
  ASSUME NEW name, KeepsClaims, Claimed(name)
  PROVE  Claimed(name)'
  <1>1. PICK q \in Requests :
          /\ LockName(delivery[q]) = name
          /\ \/ q \in Busy
             \/ \E e \in Requests : status[e] # "none" /\ Clash(q, e)
    BY DEF Claimed, Busy
  <1>2. CASE q \in Busy'
    BY <1>1, <1>2 DEF Claimed, Busy, KeepsClaims
  <1>3. CASE \E e \in Requests : status[e] # "none" /\ Clash(q, e)
    BY <1>1, <1>3 DEF Claimed, KeepsClaims, Clash
  <1>4. QED
    BY <1>1, <1>2, <1>3 DEF KeepsClaims

\* A step that gives a reason for all it does keeps the coverage.
LEMMA CoverageStays ==
  ASSUME Coverage, KeepsCoverage
  PROVE  Coverage'
  <1> SUFFICES ASSUME faults' = 0
               PROVE  /\ \A e \in Requests : status'[e] # "none" => e \in Busy'
                      /\ \A name \in locks' : Claimed(name)'
                      /\ \A r \in Requests : Suspect(r)' => Claimed(LockName(delivery[r]))'
    BY DEF Coverage, Busy, Suspect
  <1>1. /\ \A e \in Requests : status[e] # "none" => e \in Busy
        /\ \A name \in locks : Claimed(name)
        /\ \A r \in Requests : Suspect(r) => Claimed(LockName(delivery[r]))
    BY DEF Coverage, KeepsCoverage, Busy, Suspect
  <1>2. \A e \in Requests : status'[e] # "none" => e \in Busy'
    BY <1>1 DEF KeepsCoverage
  <1>3. \A name \in locks' : Claimed(name)'
    BY <1>1, ClaimStays DEF KeepsCoverage
  <1>4. ASSUME NEW r \in Requests, Suspect(r)'
        PROVE  Claimed(LockName(delivery[r]))'
    <2>1. PICK name : name = LockName(delivery[r]) /\ name = LockName(delivery[r])'
      BY DEF KeepsCoverage, KeepsClaims, LockName, IdempotencyKey
    <2>2. CASE Claimed(LockName(delivery[r]))'
      BY <2>2
    <2>3. CASE Claimed(LockName(delivery[r]))
      <3>1. Claimed(name)
        BY <2>1, <2>3
      <3>2. Claimed(name)'
        BY <3>1, ClaimStays DEF KeepsCoverage
      <3>3. QED
        BY <2>1, <3>2 DEF Claimed
    <2>4. QED
      BY <1>1, <1>4, <2>2, <2>3 DEF KeepsCoverage
  <1>5. QED
    BY <1>2, <1>3, <1>4

\* Every step of ingestion either gives its reasons or is a failure.
LEMMA CoverageStep ==
  IngestTypeOK /\ Shape /\ Coverage /\ [IngestNext]_ingestVars => Coverage'
  <1> SUFFICES ASSUME IngestTypeOK, Shape, Coverage, [IngestNext]_ingestVars
               PROVE  Coverage'
    OBVIOUS
  <1> USE NoEventAssumption
      DEF IngestTypeOK, Shape, Stored, Goto, Reply, Answer, Mark, storeVars,
          requestVars, NoFault, KeepsCoverage, KeepsClaims, Busy, Suspect,
          Accepted, Working, TurnedAway
  <1>1. ASSUME NEW r \in Requests, RefuseSignature(r) PROVE KeepsCoverage
    BY <1>1 DEF RefuseSignature
  <1>2. ASSUME NEW r \in Requests, FindDuplicate(r) PROVE KeepsCoverage
    BY <1>2, MatchesConflict DEF FindDuplicate, Duplicates, Clash, Claimed
  <1>3. ASSUME NEW r \in Requests, AcquireLock(r) PROVE KeepsCoverage
    BY <1>3 DEF AcquireLock, Claimed
  <1>4. ASSUME NEW r \in Requests, LockConflict(r) PROVE KeepsCoverage
    BY <1>4 DEF LockConflict
  <1>5. ASSUME NEW r \in Requests, CreateReceivedEvent(r) PROVE KeepsCoverage
    BY <1>5 DEF CreateReceivedEvent, Clash, Claimed
  <1>6. ASSUME NEW r \in Requests, AnswerDuplicateKey(r) PROVE KeepsCoverage
    BY <1>6 DEF AnswerDuplicateKey
  <1>7. ASSUME NEW r \in Requests, EnqueueJob(r) PROVE KeepsCoverage
    BY <1>7 DEF EnqueueJob
  <1>8. ASSUME NEW r \in Requests, MarkQueued(r) PROVE KeepsCoverage
    BY <1>8 DEF MarkQueued
  <1>9. ASSUME NEW r \in Requests, IngestFault(r) PROVE Coverage'
    <2>1. Fault
      BY <1>9 DEF IngestFault, LockUnavailable, LockReplyLost, StepFails, ApiStops
    <2>2. faults' # 0
      BY <2>1, MaxFaultsAssumption DEF Fault
    <2>3. QED
      BY <2>2 DEF Coverage
  <1>10. ASSUME NEW name \in LockNames, LockExpires(name) PROVE KeepsCoverage
    BY <1>10 DEF LockExpires
  <1>11. ASSUME NEW e \in Requests, EventExpires(e) PROVE KeepsCoverage
    BY <1>11 DEF EventExpires
  <1>12. ASSUME UNCHANGED ingestVars PROVE KeepsCoverage
    BY <1>12 DEF ingestVars
  <1> HIDE DEF KeepsCoverage
  <1>13. QED
    BY <1>1, <1>2, <1>3, <1>4, <1>5, <1>6, <1>7, <1>8, <1>9, <1>10, <1>11,
       <1>12, CoverageStays
       DEF IngestNext, IngestActs, IngestStep, IngestIdle

\* While nothing fails, every lock and every duplicate answer is claimed.
LEMMA CoverageCorrect == IngestSpec => []Coverage
  <1>1. IngestInit => Coverage
    <2> SUFFICES ASSUME IngestInit
                 PROVE  /\ \A e \in Requests : status[e] = "none"
                        /\ locks = {}
                        /\ \A r \in Requests : pc[r] = "start" /\ r \notin TurnedAway
      BY DEF Coverage
    <2>1. QED
      BY DEF IngestInit, TurnedAway, Answer
  <1>2. QED
    BY <1>1, CoverageStep, TypeCorrect, ShapeCorrect, PTL DEF IngestSpec

\* A claim to the lock of a delivery that was turned away is another request's.
LEMMA CoveredDuplicates ==
  ASSUME Shape, Coverage
  PROVE  DuplicateIsCovered
  <1> SUFFICES ASSUME faults = 0, NEW r \in TurnedAway
               PROVE  \E e \in Requests : Covers(e, r)
    BY DEF DuplicateIsCovered
  <1>1. /\ r \in Requests /\ status[r] = "none" /\ pc[r] = "done"
        /\ answer[r].kind = "duplicate"
    BY DEF Shape, TurnedAway
  <1>2. PICK q \in Requests :
          /\ LockName(delivery[q]) = LockName(delivery[r])
          /\ \/ q \in Accepted \cup Working
             \/ \E e \in Requests : status[e] # "none" /\ Clash(q, e)
    BY <1>1 DEF Coverage, Claimed
  <1>3. CASE q \in Accepted \cup Working
    <2>1. q # r
      BY <1>1, <1>3 DEF Accepted, Working
    <2>2. Clash(q, q)
      BY DEF Clash, IndexConflict
    <2>3. QED
      BY <1>2, <1>3, <2>1, <2>2 DEF Covers
  <1>4. ASSUME NEW e \in Requests, status[e] # "none", Clash(q, e)
        PROVE  Covers(e, r)
    BY <1>1, <1>2, <1>4 DEF Covers, Coverage
  <1>5. QED
    BY <1>2, <1>3, <1>4

\* While nothing fails, a delivery answered duplicate:true is accounted for by
\* another request of its tenant that was accepted or is still at it.
THEOREM DuplicateIsCoveredHolds == IngestSpec => []DuplicateIsCovered
  <1>1. Shape /\ Coverage => DuplicateIsCovered
    BY CoveredDuplicates
  <1>2. QED
    BY <1>1, ShapeCorrect, CoverageCorrect, PTL

(***************************************************************************)
(* The exact causes of what the findings show. Each property that a run    *)
(* finds violated holds as soon as the cause its finding names is absent.  *)
(***************************************************************************)

\* The event named by a duplicate answer was stored.
NamedStored ==
  \A r \in Requests : answer[r].kind = "duplicate" /\ answer[r].event # NoEvent =>
    answer[r].event \in Requests /\ status[answer[r].event] # "none"

\* Only the duplicate check names an event, one it found in the collection.
LEMMA NamedStoredStep ==
  IngestTypeOK /\ NamedStored /\ [IngestNext]_ingestVars => NamedStored'
  <1> SUFFICES ASSUME IngestTypeOK, NamedStored, [IngestNext]_ingestVars
               PROVE  NamedStored'
    OBVIOUS
  <1> USE NoEventAssumption
      DEF IngestTypeOK, NamedStored, Stored, Goto, Reply, Answer, Mark, storeVars,
          requestVars
  <1>1. ASSUME NEW r \in Requests, RefuseSignature(r) PROVE NamedStored'
    BY <1>1 DEF RefuseSignature
  <1>2. ASSUME NEW r \in Requests, FindDuplicate(r) PROVE NamedStored'
    BY <1>2 DEF FindDuplicate, Duplicates
  <1>3. ASSUME NEW r \in Requests, AcquireLock(r) PROVE NamedStored'
    BY <1>3 DEF AcquireLock
  <1>4. ASSUME NEW r \in Requests, LockConflict(r) PROVE NamedStored'
    BY <1>4 DEF LockConflict
  <1>5. ASSUME NEW r \in Requests, CreateReceivedEvent(r) PROVE NamedStored'
    BY <1>5 DEF CreateReceivedEvent
  <1>6. ASSUME NEW r \in Requests, AnswerDuplicateKey(r) PROVE NamedStored'
    BY <1>6 DEF AnswerDuplicateKey, Duplicates
  <1>7. ASSUME NEW r \in Requests, EnqueueJob(r) PROVE NamedStored'
    BY <1>7 DEF EnqueueJob
  <1>8. ASSUME NEW r \in Requests, MarkQueued(r) PROVE NamedStored'
    BY <1>8 DEF MarkQueued
  <1>9. ASSUME NEW r \in Requests, LockUnavailable(r) PROVE NamedStored'
    BY <1>9 DEF LockUnavailable
  <1>10. ASSUME NEW r \in Requests, LockReplyLost(r) PROVE NamedStored'
    BY <1>10 DEF LockReplyLost
  <1>11. ASSUME NEW r \in Requests, StepFails(r) PROVE NamedStored'
    BY <1>11 DEF StepFails
  <1>12. ASSUME NEW r \in Requests, ApiStops(r) PROVE NamedStored'
    BY <1>12 DEF ApiStops
  <1>13. ASSUME NEW name \in LockNames, LockExpires(name) PROVE NamedStored'
    BY <1>13 DEF LockExpires
  <1>14. ASSUME NEW e \in Requests, EventExpires(e) PROVE NamedStored'
    BY <1>14 DEF EventExpires
  <1>15. CASE UNCHANGED ingestVars
    BY <1>15 DEF ingestVars
  <1>16. QED
    BY <1>1, <1>2, <1>3, <1>4, <1>5, <1>6, <1>7, <1>8, <1>9, <1>10, <1>11,
       <1>12, <1>13, <1>14, <1>15
       DEF IngestNext, IngestActs, IngestStep, IngestFault, IngestIdle

\* Without a failure, a redelivery told which event it repeats is one of an event
\* that reached the queue or is on its way: only a failure between the insert and
\* the hand-off loses one.
THEOREM OnlyFailuresLoseEvents == IngestSpec => [](faults = 0 => RetryReachesQueue)
  <1>1. IngestInit => NamedStored
    BY DEF IngestInit, NamedStored, Answer
  <1>2. NamedStored /\ Coverage => (faults = 0 => RetryReachesQueue)
    BY DEF NamedStored, Coverage, RetryReachesQueue, TurnedAway
  <1>3. QED
    BY <1>1, <1>2, NamedStoredStep, TypeCorrect, CoverageCorrect, PTL DEF IngestSpec

\* Every delivery has an external id, and none an empty Idempotency-Key.
AllIdentified ==
  \A r \in Requests : /\ delivery[r].payload.externalId # Absent
                      /\ delivery[r].header # Empty

\* A delivery with an external id and no empty header has an idempotency key.
LEMMA IdentifiedKey ==
  ASSUME NEW d \in AllDeliveries, d.payload.externalId # Absent, d.header # Empty
  PROVE  IdempotencyKey(d) # Absent
  BY AbsentAssumption DEF AllDeliveries, Payloads, IdempotencyKey

\* When all deliveries carry their identity, a duplicate answer is only given to a
\* delivery that repeats another: absent fields are the one cause of the others.
THEOREM OnlyAbsentFieldsMislead == IngestSpec => [](AllIdentified => DuplicateMeansRepeat)
  <1>1. IngestTypeOK /\ DuplicateIsCovered => (AllIdentified => DuplicateMeansRepeat)
    <2> SUFFICES ASSUME IngestTypeOK, DuplicateIsCovered, AllIdentified, faults = 0,
                        NEW r \in TurnedAway
                 PROVE  \E e \in Requests \ {r} : Matches(delivery[r], delivery[e])
      BY DEF DuplicateMeansRepeat
    <2>1. PICK e \in Requests : Covers(e, r)
      BY DEF DuplicateIsCovered
    <2>2. PICK q \in Requests : /\ q = r \/ LockName(delivery[q]) = LockName(delivery[r])
                                /\ Clash(q, e)
      BY <2>1 DEF Covers
    <2>3. e # r /\ r \in Requests
      BY <2>1 DEF Covers, TurnedAway
    <2>4. IdempotencyKey(delivery[r]) # Absent
      BY <2>3, IdentifiedKey, DeliveriesAssumption DEF IngestTypeOK, AllIdentified
    <2>5. CASE q = r
      BY <2>2, <2>3, <2>4, <2>5 DEF Clash, IndexConflict, Matches, AllIdentified
    <2>6. CASE q # r
      BY <2>2, <2>4, <2>6 DEF LockName, Matches
    <2>7. QED
      BY <2>5, <2>6
  <1>2. QED
    BY <1>1, TypeCorrect, DuplicateIsCoveredHolds, PTL

\* No two requests of a tenant have different keys that the job id confuses.
KeysKeepApart ==
  \A d, e \in Requests : SameJobId(delivery[d], delivery[e]) =>
    IdempotencyKey(delivery[d]) = IdempotencyKey(delivery[e])

NoneExpired == \A e \in Requests : status[e] # "expired"

\* A request past the add has its own job, unless two keys make one job id or an
\* event expired whose job the queue still holds.
Owners == \A r \in Requests : pc[r] = "markQueued" \/ r \in Accepted => r \in jobs
OwnJob == KeysKeepApart /\ NoneExpired => Owners

\* The add finds a job of the same id only when another event clashes with its own,
\* which the indexes exclude.
LEMMA FreshJob ==
  ASSUME IngestTypeOK, Shape, NoClash, JobsAdded, KeysKeepApart, NoneExpired,
         NEW r \in Requests, pc[r] = "enqueue",
         NEW j \in jobs, SameJobId(delivery[r], delivery[j])
  PROVE  j = r
  <1>1. j \in Stored /\ r \in Stored
    BY DEF IngestTypeOK, Shape, JobsAdded, NoneExpired, Stored
  <1>2. Clash(r, j)
    BY <1>1 DEF KeysKeepApart, SameJobId, Clash, IndexConflict, Stored
  <1>3. QED
    BY <1>1, <1>2 DEF NoClash

\* The causes do not go away: keys are constant, and what expired stays expired.
LEMMA CausesStay ==
  IngestTypeOK /\ Shape /\ [IngestNext]_ingestVars =>
    UNCHANGED delivery /\ (NoneExpired' => NoneExpired)
  <1> SUFFICES ASSUME IngestTypeOK, Shape, [IngestNext]_ingestVars
               PROVE  UNCHANGED delivery /\ (NoneExpired' => NoneExpired)
    OBVIOUS
  <1> DEFINE Goal == UNCHANGED delivery /\ (NoneExpired' => NoneExpired)
  <1> USE DEF IngestTypeOK, Shape, NoneExpired, Stored, Goto, Reply, Mark, storeVars,
          requestVars
  <1>1. ASSUME NEW r \in Requests, RefuseSignature(r) PROVE Goal
    BY <1>1 DEF RefuseSignature
  <1>2. ASSUME NEW r \in Requests, FindDuplicate(r) PROVE Goal
    BY <1>2 DEF FindDuplicate
  <1>3. ASSUME NEW r \in Requests, AcquireLock(r) PROVE Goal
    BY <1>3 DEF AcquireLock
  <1>4. ASSUME NEW r \in Requests, LockConflict(r) PROVE Goal
    BY <1>4 DEF LockConflict
  <1>5. ASSUME NEW r \in Requests, CreateReceivedEvent(r) PROVE Goal
    BY <1>5 DEF CreateReceivedEvent
  <1>6. ASSUME NEW r \in Requests, AnswerDuplicateKey(r) PROVE Goal
    BY <1>6 DEF AnswerDuplicateKey
  <1>7. ASSUME NEW r \in Requests, EnqueueJob(r) PROVE Goal
    BY <1>7 DEF EnqueueJob
  <1>8. ASSUME NEW r \in Requests, MarkQueued(r) PROVE Goal
    BY <1>8 DEF MarkQueued
  <1>9. ASSUME NEW r \in Requests, LockUnavailable(r) PROVE Goal
    BY <1>9 DEF LockUnavailable
  <1>10. ASSUME NEW r \in Requests, LockReplyLost(r) PROVE Goal
    BY <1>10 DEF LockReplyLost
  <1>11. ASSUME NEW r \in Requests, StepFails(r) PROVE Goal
    BY <1>11 DEF StepFails
  <1>12. ASSUME NEW r \in Requests, ApiStops(r) PROVE Goal
    BY <1>12 DEF ApiStops
  <1>13. ASSUME NEW name \in LockNames, LockExpires(name) PROVE Goal
    BY <1>13 DEF LockExpires
  <1>14. ASSUME NEW e \in Requests, EventExpires(e) PROVE Goal
    BY <1>14 DEF EventExpires
  <1>15. CASE UNCHANGED ingestVars
    BY <1>15 DEF ingestVars
  <1>16. QED
    BY <1>1, <1>2, <1>3, <1>4, <1>5, <1>6, <1>7, <1>8, <1>9, <1>10, <1>11,
       <1>12, <1>13, <1>14, <1>15
       DEF IngestNext, IngestActs, IngestStep, IngestFault, IngestIdle

\* Every step keeps the own jobs.
LEMMA OwnJobStep ==
  IngestTypeOK /\ Shape /\ NoClash /\ JobsAdded /\ OwnJob /\ [IngestNext]_ingestVars
    => OwnJob'
  <1> SUFFICES ASSUME IngestTypeOK, Shape, NoClash, JobsAdded, OwnJob,
                      [IngestNext]_ingestVars, KeysKeepApart', NoneExpired'
               PROVE  Owners'
    BY DEF OwnJob
  <1>0. KeysKeepApart /\ NoneExpired /\ Owners
    BY CausesStay DEF KeysKeepApart, SameJobId, SanitizedKey, IdempotencyKey, OwnJob
  <1> USE NoEventAssumption, <1>0
      DEF IngestTypeOK, Owners, Accepted, Goto, Reply, Answer, storeVars, requestVars
  <1>1. ASSUME NEW r \in Requests, RefuseSignature(r) PROVE Owners'
    BY <1>1 DEF RefuseSignature
  <1>2. ASSUME NEW r \in Requests, FindDuplicate(r) PROVE Owners'
    BY <1>2 DEF FindDuplicate
  <1>3. ASSUME NEW r \in Requests, AcquireLock(r) PROVE Owners'
    BY <1>3 DEF AcquireLock
  <1>4. ASSUME NEW r \in Requests, LockConflict(r) PROVE Owners'
    BY <1>4 DEF LockConflict
  <1>5. ASSUME NEW r \in Requests, CreateReceivedEvent(r) PROVE Owners'
    BY <1>5 DEF CreateReceivedEvent
  <1>6. ASSUME NEW r \in Requests, AnswerDuplicateKey(r) PROVE Owners'
    BY <1>6 DEF AnswerDuplicateKey
  <1>7. ASSUME NEW r \in Requests, EnqueueJob(r) PROVE Owners'
    BY <1>7, FreshJob DEF EnqueueJob
  <1>8. ASSUME NEW r \in Requests, MarkQueued(r) PROVE Owners'
    BY <1>8 DEF MarkQueued
  <1>9. ASSUME NEW r \in Requests, LockUnavailable(r) PROVE Owners'
    BY <1>9 DEF LockUnavailable
  <1>10. ASSUME NEW r \in Requests, LockReplyLost(r) PROVE Owners'
    BY <1>10 DEF LockReplyLost
  <1>11. ASSUME NEW r \in Requests, StepFails(r) PROVE Owners'
    BY <1>11 DEF StepFails
  <1>12. ASSUME NEW r \in Requests, ApiStops(r) PROVE Owners'
    BY <1>12 DEF ApiStops
  <1>13. ASSUME NEW name \in LockNames, LockExpires(name) PROVE Owners'
    BY <1>13 DEF LockExpires
  <1>14. ASSUME NEW e \in Requests, EventExpires(e) PROVE Owners'
    BY <1>14 DEF EventExpires
  <1>15. CASE UNCHANGED ingestVars
    BY <1>15 DEF ingestVars
  <1>16. QED
    BY <1>1, <1>2, <1>3, <1>4, <1>5, <1>6, <1>7, <1>8, <1>9, <1>10, <1>11,
       <1>12, <1>13, <1>14, <1>15
       DEF IngestNext, IngestActs, IngestStep, IngestFault, IngestIdle

\* An accepted event has a job of its own, whatever fails, unless two keys of the
\* tenant make one job id or the queue holds the job of an event that expired.
THEOREM OnlyConfusedKeysShareJobs ==
  IngestSpec => [](KeysKeepApart /\ NoneExpired => AcceptedHasOwnJob)
  <1>1. IngestInit => OwnJob
    BY DEF IngestInit, OwnJob, Owners, Accepted, Answer
  <1>2. OwnJob => (KeysKeepApart /\ NoneExpired => AcceptedHasOwnJob)
    BY DEF OwnJob, Owners, AcceptedHasOwnJob, Accepted
  <1>3. QED
    BY <1>1, <1>2, OwnJobStep, TypeCorrect, ShapeCorrect, NoClashCorrect,
       JobsAddedCorrect, PTL DEF IngestSpec

(***************************************************************************)
(* Refinement: ingestion implements the at-most-once intake.               *)
(***************************************************************************)

Expired  == {e \in Requests : status[e] = "expired"}
Clashing == {p \in Requests \X Requests : Clash(p[1], p[2])}

\* A step that leaves the abstract state alone.
LEMMA IntakeStutter ==
  ASSUME UNCHANGED delivery, Stored' = Stored, Expired' = Expired, Accepted' = Accepted
  PROVE  UNCHANGED Intake!vars
  BY DEF Intake!vars, Clash, IndexConflict, IdempotencyKey, Expired

\* Every step of ingestion keeps, confirms or forgets an event, or changes none of
\* what the intake sees.
LEMMA IntakeStep ==
  IngestTypeOK /\ Shape /\ [IngestNext]_ingestVars => [Intake!Next]_(Intake!vars)
  <1> SUFFICES ASSUME IngestTypeOK, Shape, [IngestNext]_ingestVars
               PROVE  [Intake!Next]_(Intake!vars)
    OBVIOUS
  <1> USE NoEventAssumption
      DEF IngestTypeOK, Shape, Stored, Expired, Accepted, Goto, Reply, Answer, Mark,
          storeVars, requestVars
  <1>1. ASSUME NEW r \in Requests, RefuseSignature(r) PROVE UNCHANGED Intake!vars
    <2>1. UNCHANGED delivery /\ Stored' = Stored /\ Expired' = Expired /\ Accepted' = Accepted
      BY <1>1 DEF RefuseSignature
    <2>2. QED
      BY <2>1, IntakeStutter
  <1>2. ASSUME NEW r \in Requests, FindDuplicate(r) PROVE UNCHANGED Intake!vars
    <2>1. UNCHANGED delivery /\ Stored' = Stored /\ Expired' = Expired /\ Accepted' = Accepted
      BY <1>2 DEF FindDuplicate
    <2>2. QED
      BY <2>1, IntakeStutter
  <1>3. ASSUME NEW r \in Requests, AcquireLock(r) PROVE UNCHANGED Intake!vars
    <2>1. UNCHANGED delivery /\ Stored' = Stored /\ Expired' = Expired /\ Accepted' = Accepted
      BY <1>3 DEF AcquireLock
    <2>2. QED
      BY <2>1, IntakeStutter
  <1>4. ASSUME NEW r \in Requests, LockConflict(r) PROVE UNCHANGED Intake!vars
    <2>1. UNCHANGED delivery /\ Stored' = Stored /\ Expired' = Expired /\ Accepted' = Accepted
      BY <1>4 DEF LockConflict
    <2>2. QED
      BY <2>1, IntakeStutter
  <1>5. ASSUME NEW r \in Requests, AnswerDuplicateKey(r) PROVE UNCHANGED Intake!vars
    <2>1. UNCHANGED delivery /\ Stored' = Stored /\ Expired' = Expired /\ Accepted' = Accepted
      BY <1>5 DEF AnswerDuplicateKey
    <2>2. QED
      BY <2>1, IntakeStutter
  <1>6. ASSUME NEW r \in Requests, EnqueueJob(r) PROVE UNCHANGED Intake!vars
    <2>1. UNCHANGED delivery /\ Stored' = Stored /\ Expired' = Expired /\ Accepted' = Accepted
      BY <1>6 DEF EnqueueJob
    <2>2. QED
      BY <2>1, IntakeStutter
  <1>7. ASSUME NEW r \in Requests, LockUnavailable(r) PROVE UNCHANGED Intake!vars
    <2>1. UNCHANGED delivery /\ Stored' = Stored /\ Expired' = Expired /\ Accepted' = Accepted
      BY <1>7 DEF LockUnavailable
    <2>2. QED
      BY <2>1, IntakeStutter
  <1>8. ASSUME NEW r \in Requests, LockReplyLost(r) PROVE UNCHANGED Intake!vars
    <2>1. UNCHANGED delivery /\ Stored' = Stored /\ Expired' = Expired /\ Accepted' = Accepted
      BY <1>8 DEF LockReplyLost
    <2>2. QED
      BY <2>1, IntakeStutter
  <1>9. ASSUME NEW r \in Requests, ApiStops(r) PROVE UNCHANGED Intake!vars
    <2>1. UNCHANGED delivery /\ Stored' = Stored /\ Expired' = Expired /\ Accepted' = Accepted
      BY <1>9 DEF ApiStops
    <2>2. QED
      BY <2>1, IntakeStutter
  <1>10. ASSUME NEW name \in LockNames, LockExpires(name) PROVE UNCHANGED Intake!vars
    <2>1. UNCHANGED delivery /\ Stored' = Stored /\ Expired' = Expired /\ Accepted' = Accepted
      BY <1>10 DEF LockExpires
    <2>2. QED
      BY <2>1, IntakeStutter
  <1>11. ASSUME NEW r \in Requests, pc[r] = "create",
                \A e \in Stored : ~IndexConflict(delivery[r], delivery[e]),
                status' = [status EXCEPT ![r] = "received"],
                UNCHANGED delivery, Accepted' = Accepted
         PROVE  Intake!Keep(r)
    <2>1. r \notin Stored \cup Expired
      BY <1>11
    <2>2. Stored' = Stored \cup {r} /\ Expired' = Expired
      BY <1>11
    <2>3. \A e \in Stored : <<r, e>> \notin Clashing
      BY <1>11 DEF Clashing, Clash
    <2>4. UNCHANGED Clashing
      BY <1>11 DEF Clashing, Clash, IndexConflict, IdempotencyKey
    <2>5. QED
      BY <1>11, <2>1, <2>2, <2>3, <2>4 DEF Intake!Keep, Clashing
  <1>12. ASSUME NEW r \in Requests, CreateReceivedEvent(r)
         PROVE  Intake!Keep(r) \/ UNCHANGED Intake!vars
    <2>1. UNCHANGED delivery /\ Accepted' = Accepted
      BY <1>12 DEF CreateReceivedEvent
    <2>2. CASE UNCHANGED status
      BY <2>1, <2>2, IntakeStutter
    <2>3. QED
      BY <1>11, <1>12, <2>1, <2>2 DEF CreateReceivedEvent
  <1>13. ASSUME NEW r \in Requests, StepFails(r)
         PROVE  Intake!Keep(r) \/ UNCHANGED Intake!vars
    <2>1. UNCHANGED delivery /\ Accepted' = Accepted
      BY <1>13 DEF StepFails
    <2>2. CASE UNCHANGED status
      BY <2>1, <2>2, IntakeStutter
    <2>3. QED
      BY <1>11, <1>13, <2>1, <2>2 DEF StepFails
  <1>14. ASSUME NEW r \in Requests, MarkQueued(r) PROVE Intake!Confirm(r)
    <2>1. r \in Stored \ Accepted
      BY <1>14 DEF MarkQueued
    <2>2. Stored' = Stored /\ Expired' = Expired /\ Accepted' = Accepted \cup {r}
      BY <1>14 DEF MarkQueued
    <2>3. UNCHANGED Clashing
      BY <1>14 DEF MarkQueued, Clashing, Clash, IndexConflict, IdempotencyKey
    <2>4. QED
      BY <2>1, <2>2, <2>3 DEF Intake!Confirm, Clashing
  <1>15. ASSUME NEW e \in Requests, EventExpires(e) PROVE Intake!Forget(e)
    <2>1. e \in Stored /\ UNCHANGED delivery /\ Accepted' = Accepted
      BY <1>15 DEF EventExpires
    <2>2. Stored' = Stored \ {e} /\ Expired' = Expired \cup {e}
      BY <1>15 DEF EventExpires
    <2>3. UNCHANGED Clashing
      BY <2>1 DEF Clashing, Clash, IndexConflict, IdempotencyKey
    <2>4. QED
      BY <2>1, <2>2, <2>3 DEF Intake!Forget, Clashing
  <1>16. CASE UNCHANGED ingestVars
    <2>1. UNCHANGED delivery /\ Stored' = Stored /\ Expired' = Expired /\ Accepted' = Accepted
      BY <1>16 DEF ingestVars
    <2>2. QED
      BY <2>1, IntakeStutter
  <1>17. QED
    BY <1>1, <1>2, <1>3, <1>4, <1>5, <1>6, <1>7, <1>8, <1>9, <1>10, <1>12,
       <1>13, <1>14, <1>15, <1>16
       DEF IngestNext, IngestActs, IngestStep, IngestFault, IngestIdle, Intake!Next

\* Every behaviour of ingestion, whatever fails, is one of WebhookIntake.
THEOREM IntakeRefinement == IngestSpec => ImplementsIntake
  <1>1. IngestInit => Intake!Init
    BY DEF IngestInit, Intake!Init, Stored, Accepted, Answer
  <1>2. QED
    BY <1>1, IntakeStep, TypeCorrect, ShapeCorrect, PTL
       DEF IngestSpec, ImplementsIntake, Intake!Spec

\* The promise is worth having: whatever implements the intake with these clashes,
\* ingestion alone or composed with its workers, accepts no two events that clash.
THEOREM IntakePromisesOnce == ImplementsIntake => []AcceptedOnce
  <1> DEFINE Apart == \A r, e \in Stored : r # e => <<r, e>> \notin Clashing
  <1>1. Intake!Init => Apart
    BY DEF Intake!Init, Stored
  <1>2. Apart /\ [Intake!Next]_(Intake!vars) => Apart'
    <2> SUFFICES ASSUME Apart, [Intake!Next]_(Intake!vars) PROVE Apart'
      OBVIOUS
    <2>1. \A r, e \in Requests : <<r, e>> \in Clashing => <<e, r>> \in Clashing
      BY ConflictSymmetric DEF Clashing, Clash
    <2>2. Stored \subseteq Requests /\ Stored' \subseteq Requests
      BY DEF Stored
    <2>3. ASSUME NEW r \in Requests, Intake!Keep(r) PROVE Apart'
      BY <2>1, <2>2, <2>3 DEF Intake!Keep, Clashing
    <2>4. ASSUME NEW r \in Requests, Intake!Confirm(r) \/ Intake!Forget(r) PROVE Apart'
      BY <2>2, <2>4 DEF Intake!Confirm, Intake!Forget, Clashing
    <2>5. CASE UNCHANGED Intake!vars
      BY <2>2, <2>5 DEF Intake!vars, Clashing
    <2>6. QED
      BY <2>3, <2>4, <2>5 DEF Intake!Next
  <1>3. Apart => AcceptedOnce
    BY DEF AcceptedOnce, Accepted, Clashing, Stored
  <1>4. QED
    BY <1>1, <1>2, <1>3, PTL DEF ImplementsIntake, Intake!Spec
=============================================================================
