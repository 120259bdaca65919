-------------------------- MODULE MCWebhookIngest --------------------------
(***************************************************************************)
(* Finite instances of WebhookIngest for TLC.                              *)
(***************************************************************************)
EXTENDS WebhookIngest, TLC

CONSTANTS r1, r2, r3, t1, t2, whatsapp, hubspot, n1, n2, c1

MCDelivery(t, p, h, x, type) ==
  [tenant |-> t, provider |-> p, header |-> h, signed |-> TRUE,
   payload |-> [externalId |-> x, type |-> type, content |-> c1]]

\* An event with an id, the same event under an Idempotency-Key header, the same
\* key from another provider, the same event sent to another tenant, an event with
\* no id, one with an empty key, and a repeated event with a wrong signature.
RepeatedDeliveries ==
  {MCDelivery(t1, whatsapp, Absent, n1, {"lead"}),
   MCDelivery(t1, whatsapp, n2, n1, {"lead"}),
   MCDelivery(t1, hubspot, n1, Absent, {"lead"}),
   MCDelivery(t2, whatsapp, Absent, n1, {"lead"}),
   MCDelivery(t1, whatsapp, Absent, Absent, {"lead"}),
   MCDelivery(t1, whatsapp, Empty, Absent, {"lead"}),
   [MCDelivery(t1, whatsapp, Absent, n1, {"lead"}) EXCEPT !.signed = FALSE]}

\* Two deliveries that nothing but their Idempotency-Key tells apart.
HeaderDeliveries ==
  {MCDelivery(t1, whatsapp, n1, Absent, {"lead"}),
   MCDelivery(t1, whatsapp, n2, Absent, {"lead"})}

\* Two events with ids of their own.
DistinctDeliveries ==
  {MCDelivery(t1, whatsapp, Absent, n1, {"lead"}),
   MCDelivery(t1, whatsapp, Absent, n2, {"lead"})}

PlainNames == [n \in {n1, n2} |-> n]

\* Two names that differ in ':' or white space only.
CollidingNames == [n \in {n1, n2} |-> n1]

Symmetry == Permutations(Requests)
=============================================================================
