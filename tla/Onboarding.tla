----------------------------- MODULE Onboarding -----------------------------
(***************************************************************************)
(* How users and tenants come to be: usersService.createUser and           *)
(* tenantsService.createTenant, each a look-up and then writes of its own, *)
(* with no transaction around them.                                        *)
(*                                                                         *)
(* A call that inserts a document gives it its identity: the user of call  *)
(* s in Signups is s, and the tenant of call c in Creations is c. A caller *)
(* that retries makes another call with the same name.                     *)
(***************************************************************************)
EXTENDS Naturals

CONSTANTS
  Signups,     \* the calls of createUser, and the users
  Creations,   \* the calls of createTenant, and the tenants
  Emails,      \* as they are stored: trimmed, in lower case
  Slugs,
  MaxFaults,   \* bound on the failures injected
  MaxChanges,  \* bound on what operators change in the database
  Granted      \* the memberships operators give

ASSUME CallsAssumption  == Signups \cap Creations = {}
ASSUME LimitsAssumption == MaxFaults \in Nat /\ MaxChanges \in Nat

Calls == Signups \cup Creations

VARIABLES
  name,        \* the e-mail or slug of each call
  owner,       \* the user id a creation names as owner, whether or not it exists
  step,        \* how far each call is, or how it was answered
  userStatus,  \* of the stored users
  tenantStatus, \* of the stored tenants
  member,      \* the membership of each user in each tenant
  changes,     \* the changes made by operators so far
  faults       \* the failures so far

callVars    == <<name, owner, step>>
storeVars   == <<userStatus, tenantStatus, member>>
onboardVars == <<callVars, storeVars, changes, faults>>

Pending == {"find", "plan", "insert", "member"}
Answers == {"created", "conflict", "notFound", "error"}

TenantRoles == {"tenant_owner", "tenant_admin", "manager", "operator", "viewer"}

\* inactive stands for invited and disabled users and memberships alike.
Membership == [role : TenantRoles, status : {"active", "inactive"}]
NoMember   == [role |-> "none", status |-> "none"]

ASSUME GrantedAssumption == Granted \subseteq Membership

OnboardTypeOK ==
  /\ name \in [Calls -> Emails \cup Slugs]
  /\ owner \in [Creations -> Signups]
  /\ step \in [Calls -> Pending \cup Answers]
  /\ userStatus \in [Signups -> {"none", "active", "inactive"}]
  /\ tenantStatus \in [Creations -> {"none", "active", "suspended"}]
  /\ member \in [Creations -> [Signups -> Membership \cup {NoMember}]]
  /\ changes \in Nat /\ faults \in Nat

OnboardInit ==
  /\ name \in [Calls -> Emails \cup Slugs]
  /\ \A c \in Calls : name[c] \in IF c \in Signups THEN Emails ELSE Slugs
  /\ owner \in [Creations -> Signups]
  /\ step = [c \in Calls |-> "find"]
  /\ userStatus = [s \in Signups |-> "none"]
  /\ tenantStatus = [t \in Creations |-> "none"]
  /\ member = [t \in Creations |-> [s \in Signups |-> NoMember]]
  /\ changes = 0 /\ faults = 0

(***************************************************************************)
(* Helpers.                                                                *)
(***************************************************************************)

NoFault == UNCHANGED faults
Fault   == faults < MaxFaults /\ faults' = faults + 1

StoredUsers   == {s \in Signups : userStatus[s] # "none"}
StoredTenants == {t \in Creations : tenantStatus[t] # "none"}

\* The other documents the unique index on the name compares with.
Rivals(c) == {d \in IF c \in Signups THEN StoredUsers ELSE StoredTenants :
                d # c /\ name[d] = name[c]}

Go(c, from, to) ==
  /\ step[c] = from
  /\ step' = [step EXCEPT ![c] = to]
  /\ UNCHANGED <<name, owner>>

\* A write was taken: the call goes on, or its answer gets lost.
GoOn(c, from, to) ==
  \/ Go(c, from, to) /\ NoFault
  \/ Go(c, from, "error") /\ Fault

(***************************************************************************)
(* The calls.                                                              *)
(***************************************************************************)

\* findByEmail or findBySlug.
FindName(c) ==
  /\ Go(c, "find", CASE Rivals(c) # {} -> "conflict"
                     [] Rivals(c) = {} /\ c \in Creations -> "plan"
                     [] OTHER -> "insert")
  /\ NoFault
  /\ UNCHANGED <<storeVars, changes>>

\* The plan exists and is active, or it does not: plans are not modelled.
FindPlan(t) ==
  /\ Go(t, "plan", "insert") \/ Go(t, "plan", "notFound")
  /\ NoFault
  /\ UNCHANGED <<storeVars, changes>>

\* Mutant: no unique index on the e-mail.
InsertUserUnindexed(s) ==
  /\ GoOn(s, "insert", "created")
  /\ userStatus' = [userStatus EXCEPT ![s] = "active"]
  /\ UNCHANGED <<tenantStatus, member, changes>>

InsertUser(s) ==
  /\ Rivals(s) = {}
  /\ GoOn(s, "insert", "created")
  /\ userStatus' = [userStatus EXCEPT ![s] = "active"]
  /\ UNCHANGED <<tenantStatus, member, changes>>

\* Mutant: the answer does not wait for the membership of the owner.
InsertTenantAnswers(t) ==
  /\ Rivals(t) = {}
  /\ GoOn(t, "insert", "created")
  /\ tenantStatus' = [tenantStatus EXCEPT ![t] = "active"]
  /\ UNCHANGED <<userStatus, member, changes>>

InsertTenant(t) ==
  /\ Rivals(t) = {}
  /\ GoOn(t, "insert", "member")
  /\ tenantStatus' = [tenantStatus EXCEPT ![t] = "active"]
  /\ UNCHANGED <<userStatus, member, changes>>

\* The duplicate key is no AppError: the error handler answers 500, not 409.
InsertRefused(c) ==
  /\ Rivals(c) # {}
  /\ Go(c, "insert", "error")
  /\ NoFault
  /\ UNCHANGED <<storeVars, changes>>

\* Mutant: nobody awaits the membership.
AddOwnerUnawaited(t) ==
  /\ Go(t, "member", "created")
  /\ \/ UNCHANGED member
     \/ /\ member[t][owner[t]] = NoMember
        /\ member' = [member EXCEPT ![t][owner[t]] =
                        [role |-> "tenant_owner", status |-> "active"]]
  /\ NoFault
  /\ UNCHANGED <<userStatus, tenantStatus, changes>>

\* createOwnerMembership, refused when an operator made the owner a member before.
\* Nobody looks whether the owner exists.
AddOwner(t) ==
  IF member[t][owner[t]] = NoMember
    THEN /\ GoOn(t, "member", "created")
         /\ member' = [member EXCEPT ![t][owner[t]] =
                         [role |-> "tenant_owner", status |-> "active"]]
         /\ UNCHANGED <<userStatus, tenantStatus, changes>>
    ELSE /\ Go(t, "member", "error")
         /\ NoFault
         /\ UNCHANGED <<storeVars, changes>>

\* An await rejects, or the API stops, before anything changed.
CallFails(c) ==
  /\ step[c] \in Pending
  /\ Go(c, step[c], "error")
  /\ Fault
  /\ UNCHANGED <<storeVars, changes>>

(***************************************************************************)
(* Operators: no operation of the program changes a user, a tenant or a    *)
(* membership once it is stored.                                           *)
(***************************************************************************)

Change == changes < MaxChanges /\ changes' = changes + 1

SetMember(t, s, m) ==
  /\ t \in StoredTenants /\ member[t][s] # m
  /\ member' = [member EXCEPT ![t][s] = m]
  /\ Change /\ NoFault
  /\ UNCHANGED <<callVars, userStatus, tenantStatus>>

SetUser(s, status) ==
  /\ s \in StoredUsers /\ userStatus[s] # status
  /\ userStatus' = [userStatus EXCEPT ![s] = status]
  /\ Change /\ NoFault
  /\ UNCHANGED <<callVars, tenantStatus, member>>

SetTenant(t, status) ==
  /\ t \in StoredTenants /\ tenantStatus[t] # status
  /\ tenantStatus' = [tenantStatus EXCEPT ![t] = status]
  /\ Change /\ NoFault
  /\ UNCHANGED <<callVars, userStatus, member>>

CallActs(c) == FindName(c) \/ InsertRefused(c) \/ CallFails(c)

CreationActs(t) == FindPlan(t) \/ InsertTenant(t) \/ AddOwner(t)

OperatorActs ==
  \/ \E status \in {"active", "inactive"}, s \in Signups : SetUser(s, status)
  \/ \E t \in Creations : \/ \E status \in {"active", "suspended"} : SetTenant(t, status)
                          \/ \E s \in Signups, m \in Granted : SetMember(t, s, m)

OnboardActs ==
  \/ \E c \in Calls : CallActs(c)
  \/ \E s \in Signups : InsertUser(s)
  \/ \E t \in Creations : CreationActs(t)
  \/ OperatorActs

(***************************************************************************)
(* Properties.                                                             *)
(***************************************************************************)

\* No two users share an e-mail and no two tenants a slug, although calls look for the
\* name some steps before they insert.
NamesUnique == \A c \in StoredUsers \cup StoredTenants : Rivals(c) = {}

Answered(c) == step[c] \in Answers

\* Every answer tells the truth: created means that the user is stored, or the tenant
\* with its owner; conflict, and without failures or operators any error, means that a
\* rival is stored, whichever of two calls was first.
AnswersAreTrue ==
  /\ \A s \in Signups : step[s] = "created" => s \in StoredUsers
  /\ \A t \in Creations : step[t] = "created" =>
       t \in StoredTenants /\ member[t][owner[t]] # NoMember
  /\ \A c \in Calls : step[c] = "conflict" => Rivals(c) # {}
  /\ \A c \in Calls : step[c] = "error" /\ faults = 0 /\ changes = 0 => Rivals(c) # {}

Ownerless(t) == t \in StoredTenants /\ Answered(t) /\ member[t][owner[t]] = NoMember

\* A tenant nobody owns was left by a failure of its own call, and the caller was told
\* of an error.
OwnerlessNeedsFault ==
  \A t \in Creations : Ownerless(t) => step[t] = "error" /\ faults > 0
=============================================================================
