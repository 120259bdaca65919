------------------------- MODULE AssistantDecision -------------------------
(***************************************************************************)
(* What the assistant makes of a message: ai-decision.service and          *)
(* resolveActionType of ai-assistant.service, as operators. Confidences    *)
(* and thresholds are in hundredths; a text is the set of the topics whose *)
(* key words it contains; wording, tone and language are left out.         *)
(***************************************************************************)
EXTENDS Naturals

Topics  == {"schedule", "order", "product", "support"}
Intents == {"schedule_request", "order_request", "product_question",
            "support_question", "fallback"}
Actions == {"appointment.create", "order.create", "knowledge.answer",
            "human.handoff", "message.reply"}

\* blank: the output message holds nothing but white space.
Decisions == [intent : Intents, confidence : 0..100, suggestedAction : Actions,
              blank : BOOLEAN]

Profiles == [handoffEnabled : BOOLEAN, handoffThreshold : 0..100,
             canCreateOrders : BOOLEAN, canCreateAppointments : BOOLEAN]

\* What getProfileState makes of a tenant that has no profile.
DefaultProfile ==
  [handoffEnabled |-> TRUE, handoffThreshold |-> 45,
   canCreateOrders |-> TRUE, canCreateAppointments |-> TRUE]

Decision(intent, confidence, action) ==
  [intent |-> intent, confidence |-> confidence, suggestedAction |-> action,
   blank |-> FALSE]

\* heuristicDecision: the first topic found decides.
HeuristicDecision(text) ==
  CASE "schedule" \in text ->
         Decision("schedule_request", 89, "appointment.create")
    [] "order" \in text /\ "schedule" \notin text ->
         Decision("order_request", 87, "order.create")
    [] "product" \in text /\ text \cap {"schedule", "order"} = {} ->
         Decision("product_question", 80, "knowledge.answer")
    [] text = {"support"} ->
         Decision("support_question", 70, "message.reply")
    [] OTHER ->
         Decision("fallback", 45, "human.handoff")

\* decide: an answer of the language model that passes the schema, or the heuristic
\* when the provider is another one, times out, fails, or answers anything else.
Decided(text, modelAnswers) == modelAnswers \cup {HeuristicDecision(text)}

LowConfidence(d, p) == d.confidence < p.handoffThreshold

Blocked(d, p) ==
  \/ d.suggestedAction = "appointment.create" /\ ~p.canCreateAppointments
  \/ d.suggestedAction = "order.create" /\ ~p.canCreateOrders

\* Mutant: the policy is only looked at when the assistant may hand off.
ResolvedActionUnchecked(d, p) ==
  CASE p.handoffEnabled /\ (LowConfidence(d, p) \/ Blocked(d, p)) -> "human.handoff"
    [] OTHER -> d.suggestedAction

\* resolveActionType
ResolvedAction(d, p) ==
  CASE p.handoffEnabled /\ (LowConfidence(d, p) \/ Blocked(d, p)) -> "human.handoff"
    [] ~p.handoffEnabled /\ Blocked(d, p) -> "message.reply"
    [] OTHER -> d.suggestedAction
=============================================================================
