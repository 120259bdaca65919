--------------------------- MODULE WebhookIntake ---------------------------
(***************************************************************************)
(* What webhook ingestion promises, without Redis, queue or steps: an      *)
(* event is kept only when no kept event clashes with it, a request is     *)
(* confirmed at most once and only while its event is kept, and an event   *)
(* that retention removed never comes back under the same id.              *)
(***************************************************************************)
CONSTANT Requests

VARIABLES
  clash,        \* the pairs of requests the collection cannot hold together
  kept,         \* the requests whose event is in the collection
  gone,         \* the requests whose event retention removed
  confirmed     \* the requests answered duplicate:false

vars == <<clash, kept, gone, confirmed>>

Init ==
  /\ clash \in SUBSET (Requests \X Requests)
  /\ kept = {}
  /\ gone = {}
  /\ confirmed = {}

Keep(r) ==
  /\ r \notin kept \cup gone
  /\ \A e \in kept : <<r, e>> \notin clash
  /\ kept' = kept \cup {r}
  /\ UNCHANGED <<clash, gone, confirmed>>

Confirm(r) ==
  /\ r \in kept \ confirmed
  /\ confirmed' = confirmed \cup {r}
  /\ UNCHANGED <<clash, kept, gone>>

Forget(e) ==
  /\ e \in kept
  /\ kept' = kept \ {e}
  /\ gone' = gone \cup {e}
  /\ UNCHANGED <<clash, confirmed>>

Next == \E r \in Requests : Keep(r) \/ Confirm(r) \/ Forget(r)

Spec == Init /\ [][Next]_vars
=============================================================================
