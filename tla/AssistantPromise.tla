-------------------------- MODULE AssistantPromise --------------------------
(***************************************************************************)
(* What the assistant promises of each message, whatever happens to its    *)
(* jobs: one decision is kept, the answer sent is the one that was kept,   *)
(* and it is sent once.                                                    *)
(***************************************************************************)
CONSTANTS
  Messages,
  Outcomes,   \* what can be decided of a message
  Nothing     \* nothing was kept or sent yet

VARIABLES
  kept,       \* the outcome in the audit of the tenant
  sent        \* the outcome the customer is told

Init ==
  /\ kept = [m \in Messages |-> Nothing]
  /\ sent = [m \in Messages |-> Nothing]

Keep(m) ==
  /\ kept[m] = Nothing /\ kept'[m] \in Outcomes
  /\ kept' = [kept EXCEPT ![m] = kept'[m]]
  /\ UNCHANGED sent

Send(m) ==
  /\ kept[m] # Nothing /\ sent[m] = Nothing
  /\ sent' = [sent EXCEPT ![m] = kept[m]]
  /\ UNCHANGED kept

Next == \E m \in Messages : Keep(m) \/ Send(m)

Spec == Init /\ [][Next]_<<kept, sent>>
=============================================================================
