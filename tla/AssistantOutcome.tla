-------------------------- MODULE AssistantOutcome --------------------------
(***************************************************************************)
(* What the webhook pipeline relies on when the assistant shares the       *)
(* status of its events, and what the assistant pipeline guarantees: it    *)
(* writes no event but those that were handed to it, it only finds them    *)
(* processed or failed, and until something fails it leaves alone what it  *)
(* found processed. What the webhook pipeline writes to the same events is *)
(* its environment here, told from the assistant's writes by rewritten.    *)
(***************************************************************************)
CONSTANT Events

VARIABLES
  status,       \* the status of each event
  handed,       \* the events handed to the assistant
  rewritten,    \* the events last written by the webhook pipeline
  calm          \* nothing failed yet

Init ==
  /\ status = [e \in Events |-> "received"]
  /\ handed = {}
  /\ rewritten = Events
  /\ calm = TRUE

Hand(e) == handed' = handed \cup {e} /\ UNCHANGED <<status, rewritten>>

Becomes(e, s) ==
  status' = IF status[e] \in {"none", "expired"} THEN status ELSE [status EXCEPT ![e] = s]

\* An AI task of the event ends an attempt.
Write(e) ==
  /\ e \in handed
  /\ status[e] = "processed" => ~calm'
  /\ \E s \in {"processed", "failed"} : Becomes(e, s)

\* The request of ingest marks the event queued, or an attempt of its webhook job failed.
Rewrite(e) ==
  /\ Becomes(e, "queued") \/ (~calm' /\ Becomes(e, "failed"))
  /\ rewritten' = rewritten \cup {e}
  /\ UNCHANGED handed

Expire(e) ==
  /\ status' = [status EXCEPT ![e] = "expired"]
  /\ rewritten' = rewritten \ {e}
  /\ UNCHANGED handed

Next ==
  /\ calm' => calm
  /\ \/ \E e \in Events :
          \/ Hand(e) \/ Rewrite(e) \/ Expire(e)
          \/ Write(e) /\ rewritten' = rewritten \ {e} /\ UNCHANGED handed
     \/ UNCHANGED <<status, handed, rewritten>>

Spec == Init /\ [][Next]_<<status, handed, rewritten, calm>>
=============================================================================
