------------------------- MODULE MCWebhookPipeline -------------------------
(***************************************************************************)
(* Finite instances of WebhookPipeline for TLC.                            *)
(***************************************************************************)
EXTENDS WebhookPipeline, TLC

CONSTANTS r1, r2, w1, w2, t1, hubspot, n1, n2, c1

MCDelivery(p, x, type) ==
  [tenant |-> t1, provider |-> p, header |-> Absent, signed |-> TRUE,
   payload |-> [externalId |-> x, type |-> type, content |-> c1]]

\* An inbound message, a lead, an event that is neither, and a message event of
\* a provider whose messages are not routed.
EveryKind ==
  {MCDelivery(WhatsApp, n1, {"message"}),
   MCDelivery(hubspot, n1, {"lead"}),
   MCDelivery(hubspot, n1, {}),
   MCDelivery(hubspot, n1, {"message", "lead"})}

\* An event that is neither a message nor a lead.
OneOther == {MCDelivery(hubspot, n1, {})}

PlainNames == [n \in {n1, n2} |-> n]

Symmetry == Permutations(Requests) \cup Permutations(Workers)
=============================================================================
