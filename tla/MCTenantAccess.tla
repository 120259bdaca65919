--------------------------- MODULE MCTenantAccess ---------------------------
(***************************************************************************)
(* Finite instances of TenantAccess for TLC.                               *)
(***************************************************************************)
EXTENDS TenantAccess, TLC

CONSTANTS u1, u2, c1, c2, e1, e2, s1, s2, client

\* POST /orders passes several routers that run authMiddleware; two stand for them.
FewPasses == [tenant |-> 1, mine |-> 1, order |-> 2, admin |-> 2]

\* A member who may write orders and not read the tenant, and one who may do nothing.
FewGranted == {[role |-> "manager", status |-> "active"],
               [role |-> "viewer", status |-> "inactive"]}

Symmetry == Permutations(Signups) \cup Permutations(Creations) \cup Permutations(Slugs)
=============================================================================
