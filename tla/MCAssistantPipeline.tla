------------------------ MODULE MCAssistantPipeline ------------------------
(***************************************************************************)
(* Finite instances of AssistantPipeline for TLC.                          *)
(***************************************************************************)
EXTENDS AssistantPipeline

CONSTANTS m1, m2, w1, w2, t1

MCInput(text, searchable, tooLong, answers) ==
  [tenant |-> t1, text |-> text, searchable |-> searchable, tooLong |-> tooLong,
   answers |-> answers]

\* A text the heuristic takes for an appointment and the model for an order, a text
\* that is no regular expression, and one too long to be recorded.
EveryKind ==
  {MCInput({"schedule", "order"}, TRUE, FALSE,
           {Decision("order_request", 60, "order.create")}),
   MCInput({"support"}, FALSE, FALSE, {}),
   MCInput({"schedule"}, TRUE, TRUE, {})}

\* A plain order.
OneOrder == {MCInput({"order"}, TRUE, FALSE, {})}

\* The policy allows no appointment, and nobody is handed off to.
Restricted ==
  [handoffEnabled |-> FALSE, handoffThreshold |-> 50,
   canCreateOrders |-> TRUE, canCreateAppointments |-> FALSE]

OneRestricted == {Restricted}
NoProfile     == {DefaultProfile}

EitherCounters == BOOLEAN
CodeCounters   == {FALSE}
=============================================================================
