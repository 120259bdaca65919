------------------------------ MODULE JobQueue ------------------------------
(***************************************************************************)
(* A BullMQ queue as the workers of infra/queue use it: what Redis records *)
(* of each job, and what the library does to it.                           *)
(*                                                                         *)
(* A worker slot (concurrency slots of every worker process) runs one job  *)
(* at a time and holds its lock. A job whose lock was not renewed, because *)
(* its worker stopped or was too slow, is put back in the queue; one that  *)
(* stalled too often fails when it is taken again. Only the holder of the  *)
(* lock can end a job. Which jobs were added is up to the user of the      *)
(* queue.                                                                  *)
(***************************************************************************)
EXTENDS Naturals

CONSTANTS
  Jobs,         \* the job ids
  Workers,      \* the worker slots
  NoWorker,     \* a job that no slot has run
  MaxAttempts,  \* attempts of a job
  MaxStalled    \* how often a job may stall, 1 in BullMQ

ASSUME NoWorkerAssumption == NoWorker \notin Workers
ASSUME AttemptsAssumption == MaxAttempts \in Nat \ {0} /\ MaxStalled \in Nat

VARIABLE work

\* waiting stands for BullMQ's delayed too: the backoff of a retry only adds time.
JobStates == {"waiting", "active", "completed", "failed"}

Work == [state   : JobStates,
         owner   : Workers \cup {NoWorker},  \* the slot that holds the lock, or last did
         made    : 0..MaxAttempts,           \* attemptsMade
         stalled : 0..(MaxStalled + 1)]      \* the stalled count, up to the last that matters

WorkInit ==
  work = [j \in Jobs |->
            [state |-> "waiting", owner |-> NoWorker, made |-> 0, stalled |-> 0]]

Ended(j)   == work[j].state \in {"completed", "failed"}
GivenUp(j) == work[j].stalled > MaxStalled

\* Mutant: one attempt too many.
LastTryLate(j) == work[j].made + 1 > MaxAttempts

LastTry(j) == work[j].made + 1 >= MaxAttempts
Owns(w, j) == work[j].state = "active" /\ work[j].owner = w

\* The type of the queue with what keeps it: a job that did not end has attempts left.
WorkOK == work \in [Jobs -> Work] /\ \A j \in Jobs : Ended(j) \/ work[j].made < MaxAttempts

\* Mutant: a run that ends, or a stalled one, leaves the lock of its job behind.
TakeUnlocked(w, j) ==
  /\ work[j].state = "waiting" /\ work[j].owner = NoWorker
  /\ work' = [work EXCEPT ![j].state = "active", ![j].owner = w]

\* Slot w takes a job that waits.
Take(w, j) ==
  /\ work[j].state = "waiting"
  /\ work' = [work EXCEPT ![j].state = "active", ![j].owner = w]

\* The run of slot w succeeded.
Complete(w, j) ==
  work' = IF Owns(w, j)
            THEN [work EXCEPT ![j].state = "completed", ![j].made = @ + 1]
            ELSE work

\* The run of slot w failed: another try, unless it was the last or the job was
\* given up.
Fail(w, j) ==
  work' = IF Owns(w, j)
            THEN [work EXCEPT ![j].state = IF LastTry(j) \/ GivenUp(j)
                                             THEN "failed" ELSE "waiting",
                              ![j].made = @ + 1]
            ELSE work

\* The stalled check finds an active job without a valid lock.
PutBack(j) ==
  /\ work[j].state = "active"
  /\ work' = [work EXCEPT ![j].state = "waiting",
                          ![j].stalled = IF GivenUp(j) THEN @ ELSE @ + 1]
=============================================================================
