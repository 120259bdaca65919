------------------------- MODULE TenantAccessProofs -------------------------
(***************************************************************************)
(* Proofs of the safety of onboarding, of tokens and of requests, for any  *)
(* number of users, tenants and clients, any number of failures and of     *)
(* changes by operators, and any number of passes of authMiddleware.       *)
(***************************************************************************)
EXTENDS TenantAccess, TLAPS

(***************************************************************************)
(* Onboarding.                                                             *)
(***************************************************************************)

Unstored == {"find", "plan", "insert", "conflict", "notFound"}

\* What a call has stored when it is at a step.
StagesOK ==
  /\ \A t \in Creations : step[t] \in Unstored => tenantStatus[t] = "none"
  /\ \A t \in Creations : step[t] \in {"member", "created"} => tenantStatus[t] # "none"
  /\ \A s \in Signups : step[s] = "created" => userStatus[s] # "none"

\* Memberships belong to stored tenants, and without operators to the owners.
MembersOK ==
  /\ \A t \in Creations, s \in Signups : member[t][s] # NoMember => tenantStatus[t] # "none"
  /\ \A t \in Creations, s \in Signups : changes = 0 /\ member[t][s] # NoMember =>
       step[t] # "member" /\ s = owner[t] /\ member[t][s].role = "tenant_owner"

\* What no step of onboarding undoes, and what only operators change.
Kept ==
  /\ name' = name /\ owner' = owner
  /\ \A s \in Signups : userStatus[s] # "none" => userStatus'[s] # "none"
  /\ \A t \in Creations : tenantStatus[t] # "none" => tenantStatus'[t] # "none"
  /\ \A t \in Creations, s \in Signups : member[t][s] # NoMember => member'[t][s] # NoMember
  /\ changes' \in {changes, changes + 1} /\ faults' \in {faults, faults + 1}
  /\ changes' = changes =>
       /\ \A t \in Creations : tenantStatus[t] # "none" => tenantStatus'[t] = tenantStatus[t]
       /\ \A t \in Creations, s \in Signups :
            member[t][s] # NoMember => member'[t][s] = member[t][s]

LEMMA MembershipFacts ==
  /\ NoMember \notin Membership /\ Granted \subseteq Membership
  /\ [role |-> "tenant_owner", status |-> "active"] \in Membership
  BY GrantedAssumption DEF NoMember, Membership, TenantRoles

\* The steps of onboarding keep its types and only add to what is stored.
LEMMA OnboardStep ==
  ASSUME OnboardTypeOK, StagesOK, OnboardActs
  PROVE  OnboardTypeOK' /\ Kept
  <1> USE MembershipFacts, LimitsAssumption, CallsAssumption
      DEF OnboardTypeOK, Kept, Go, GoOn, Fault, NoFault, Change, Pending, Answers, Calls,
          storeVars, callVars
  <1>1. ASSUME NEW c \in Calls, CallActs(c) PROVE OnboardTypeOK' /\ Kept
    BY <1>1 DEF CallActs, FindName, InsertRefused, CallFails
  <1>2. ASSUME NEW s \in Signups, InsertUser(s) PROVE OnboardTypeOK' /\ Kept
    BY <1>2 DEF InsertUser
  <1>3. ASSUME NEW t \in Creations, CreationActs(t) PROVE OnboardTypeOK' /\ Kept
    <2>1. CASE FindPlan(t)
      BY <2>1 DEF FindPlan
    <2>2. CASE InsertTenant(t)
      BY <2>2 DEF InsertTenant, StagesOK, Unstored
    <2>3. CASE AddOwner(t)
      <3>1. CASE member[t][owner[t]] = NoMember
        <4>1. member' = [member EXCEPT ![t][owner[t]] =
                           [role |-> "tenant_owner", status |-> "active"]]
          BY <2>3, <3>1 DEF AddOwner
        <4>2. /\ UNCHANGED <<userStatus, tenantStatus, changes, name, owner>>
              /\ step' \in [Calls -> Pending \cup Answers]
              /\ faults' \in {faults, faults + 1}
          BY <2>3, <3>1 DEF AddOwner
        <4>3. member' \in [Creations -> [Signups -> Membership \cup {NoMember}]]
          BY <4>1
        <4>4. \A u \in Creations, s \in Signups :
                member[u][s] # NoMember => member'[u][s] = member[u][s]
          BY <3>1, <4>1
        <4>5. QED
          BY <4>2, <4>3, <4>4
      <3>2. CASE member[t][owner[t]] # NoMember
        BY <2>3, <3>2 DEF AddOwner
      <3>3. QED
        BY <3>1, <3>2
    <2>4. QED
      BY <1>3, <2>1, <2>2, <2>3 DEF CreationActs
  <1>4. CASE OperatorActs
    <2>1. ASSUME NEW s \in Signups, NEW status \in {"active", "inactive"}, SetUser(s, status)
          PROVE  OnboardTypeOK' /\ Kept
      BY <2>1 DEF SetUser
    <2>2. ASSUME NEW t \in Creations, NEW status \in {"active", "suspended"},
                 SetTenant(t, status)
          PROVE  OnboardTypeOK' /\ Kept
      BY <2>2 DEF SetTenant
    <2>3. ASSUME NEW t \in Creations, NEW s \in Signups, NEW m \in Granted, SetMember(t, s, m)
          PROVE  OnboardTypeOK' /\ Kept
      BY <2>3 DEF SetMember
    <2>4. QED
      BY <1>4, <2>1, <2>2, <2>3 DEF OperatorActs
  <1>5. QED
    BY <1>1, <1>2, <1>3, <1>4 DEF OnboardActs

\* The steps of onboarding keep what calls have stored.
LEMMA StagesStep ==
  ASSUME OnboardTypeOK, StagesOK, OnboardActs
  PROVE  StagesOK'
  <1> USE CallsAssumption
      DEF OnboardTypeOK, StagesOK, Unstored, Go, GoOn, Calls, storeVars, callVars
  <1>1. ASSUME NEW c \in Calls, CallActs(c) PROVE StagesOK'
    <2>1. CASE FindName(c)
      BY <2>1 DEF FindName
    <2>2. CASE InsertRefused(c) \/ CallFails(c)
      BY <2>2 DEF InsertRefused, CallFails
    <2>3. QED
      BY <1>1, <2>1, <2>2 DEF CallActs
  <1>2. ASSUME NEW s \in Signups, InsertUser(s) PROVE StagesOK'
    BY <1>2 DEF InsertUser
  <1>3. ASSUME NEW t \in Creations, CreationActs(t) PROVE StagesOK'
    <2>1. CASE FindPlan(t)
      BY <2>1 DEF FindPlan
    <2>2. CASE InsertTenant(t)
      BY <2>2 DEF InsertTenant
    <2>3. CASE AddOwner(t)
      BY <2>3 DEF AddOwner
    <2>4. QED
      BY <1>3, <2>1, <2>2, <2>3 DEF CreationActs
  <1>4. CASE OperatorActs
    BY <1>4 DEF OperatorActs, SetUser, SetTenant, SetMember, StoredUsers, StoredTenants
  <1>5. QED
    BY <1>1, <1>2, <1>3, <1>4 DEF OnboardActs

\* The steps of onboarding keep memberships where they belong.
LEMMA MembersStep ==
  ASSUME OnboardTypeOK, StagesOK, MembersOK, OnboardActs
  PROVE  MembersOK'
  <1> USE CallsAssumption
      DEF OnboardTypeOK, MembersOK, Go, GoOn, Calls, storeVars, callVars
  <1>1. ASSUME NEW c \in Calls, CallActs(c) PROVE MembersOK'
    <2>1. UNCHANGED <<storeVars, owner, changes>>
      BY <1>1 DEF CallActs, FindName, InsertRefused, CallFails
    <2>2. \A t \in Creations : step'[t] = "member" => step[t] = "member"
      BY <1>1 DEF CallActs, FindName, InsertRefused, CallFails
    <2>3. QED
      BY <2>1, <2>2
  <1>2. ASSUME NEW s \in Signups, InsertUser(s) PROVE MembersOK'
    BY <1>2 DEF InsertUser
  <1>3. ASSUME NEW t \in Creations, CreationActs(t) PROVE MembersOK'
    <2>1. CASE FindPlan(t)
      BY <2>1 DEF FindPlan
    <2>2. CASE InsertTenant(t)
      <3>1. \A s \in Signups : member[t][s] = NoMember
        BY <2>2 DEF InsertTenant, StagesOK, Unstored
      <3>2. QED
        BY <2>2, <3>1 DEF InsertTenant
    <2>3. CASE AddOwner(t)
      <3>1. tenantStatus[t] # "none"
        BY <2>3 DEF AddOwner, StagesOK
      <3>2. CASE member[t][owner[t]] = NoMember
        <4>1. /\ member' = [member EXCEPT ![t][owner[t]] =
                              [role |-> "tenant_owner", status |-> "active"]]
              /\ UNCHANGED <<tenantStatus, changes, owner>>
              /\ step'[t] # "member" /\ \A u \in Creations \ {t} : step'[u] = step[u]
          BY <2>3, <3>2 DEF AddOwner
        <4>2. QED
          BY <3>1, <4>1
      <3>3. CASE member[t][owner[t]] # NoMember
        BY <2>3, <3>3 DEF AddOwner
      <3>4. QED
        BY <3>2, <3>3
    <2>4. QED
      BY <1>3, <2>1, <2>2, <2>3 DEF CreationActs
  <1>4. CASE OperatorActs
    BY <1>4 DEF OperatorActs, SetUser, SetTenant, SetMember, StoredUsers, StoredTenants, Change
  <1>5. QED
    BY <1>1, <1>2, <1>3, <1>4 DEF OnboardActs

\* A rival stays one.
LEMMA RivalsKept ==
  ASSUME Kept
  PROVE  \A c \in Calls : Rivals(c) \subseteq Rivals(c)'
  BY DEF Kept, Rivals, StoredUsers, StoredTenants

\* Names stay unique: whoever inserts had no rival then, whatever it found before.
LEMMA NamesStep ==
  ASSUME OnboardTypeOK, NamesUnique, OnboardActs
  PROVE  NamesUnique'
  <1> USE CallsAssumption
      DEF OnboardTypeOK, NamesUnique, Rivals, StoredUsers, StoredTenants, Go, GoOn, Calls,
          storeVars, callVars
  <1>1. CASE UNCHANGED <<name, userStatus, tenantStatus>>
    BY <1>1
  <1>2. ASSUME NEW s \in Signups, InsertUser(s) PROVE NamesUnique'
    <2>1. /\ UNCHANGED <<name, tenantStatus>>
          /\ \A d \in Signups \ {s} : userStatus'[d] = userStatus[d]
          /\ \A d \in Signups \ {s} : userStatus[d] # "none" => name[d] # name[s]
      BY <1>2 DEF InsertUser
    <2>2. QED
      BY <2>1
  <1>3. ASSUME NEW t \in Creations, InsertTenant(t) PROVE NamesUnique'
    <2>1. /\ UNCHANGED <<name, userStatus>>
          /\ \A d \in Creations \ {t} : tenantStatus'[d] = tenantStatus[d]
          /\ \A d \in Creations \ {t} : tenantStatus[d] # "none" => name[d] # name[t]
      BY <1>3 DEF InsertTenant
    <2>2. QED
      BY <2>1
  <1>4. CASE OperatorActs
    <2>1. /\ UNCHANGED name
          /\ \A s \in Signups : userStatus'[s] # "none" => userStatus[s] # "none"
          /\ \A t \in Creations : tenantStatus'[t] # "none" => tenantStatus[t] # "none"
      BY <1>4 DEF OperatorActs, SetUser, SetTenant, SetMember
    <2>2. QED
      BY <2>1
  <1>5. ASSUME NEW c \in Calls, CallActs(c)
        PROVE  UNCHANGED <<name, userStatus, tenantStatus>>
    BY <1>5 DEF CallActs, FindName, InsertRefused, CallFails
  <1>6. ASSUME NEW t \in Creations, FindPlan(t) \/ AddOwner(t)
        PROVE  UNCHANGED <<name, userStatus, tenantStatus>>
    BY <1>6 DEF FindPlan, AddOwner
  <1>7. QED
    BY <1>1, <1>2, <1>3, <1>4, <1>5, <1>6 DEF OnboardActs, CreationActs

\* Where a write leaves its call.
LEMMA GoneOn ==
  ASSUME OnboardTypeOK, NEW c \in Calls, NEW from, NEW to, GoOn(c, from, to)
  PROVE  /\ step[c] = from
         /\ \/ step'[c] = to /\ faults' = faults
            \/ step'[c] = "error" /\ faults' > 0 /\ faults' # faults
  <1>1. step \in [Calls -> Pending \cup Answers] /\ faults \in Nat
    BY DEF OnboardTypeOK
  <1>2. CASE Go(c, from, to) /\ NoFault
    BY <1>1, <1>2 DEF Go, NoFault
  <1>3. CASE Go(c, from, "error") /\ Fault
    BY <1>1, <1>3 DEF Go, Fault
  <1>4. QED
    BY <1>2, <1>3 DEF GoOn

\* How a step answers a call.
LEMMA AnswersOf ==
  ASSUME OnboardTypeOK, StagesOK, MembersOK, OnboardActs, NEW c \in Calls,
         step'[c] \in Answers, step[c] \notin Answers
  PROVE  /\ step'[c] = "conflict" => Rivals(c) # {}
         /\ step'[c] = "error" => faults' > 0 \/ Rivals(c) # {} \/ changes > 0
         /\ step'[c] = "created" /\ c \in Creations => member'[c][owner[c]] # NoMember
         /\ step'[c] = "error" /\ faults' = faults /\ c \in Creations =>
              tenantStatus'[c] = "none" \/ member[c][owner[c]] # NoMember
  <1> USE CallsAssumption
      DEF OnboardTypeOK, Go, GoOn, Fault, NoFault, Calls, Answers, Pending, Unstored
  <1>1. ASSUME NEW d \in Calls, d # c, step' = [step EXCEPT ![d] = step'[d]] PROVE FALSE
    BY <1>1
  <1>2. CASE CallActs(c)
    <2>1. CASE FindName(c)
      BY <2>1 DEF FindName
    <2>2. CASE InsertRefused(c)
      BY <2>2 DEF InsertRefused, StagesOK, storeVars
    <2>3. CASE CallFails(c)
      BY <2>3 DEF CallFails
    <2>4. QED
      BY <1>2, <2>1, <2>2, <2>3 DEF CallActs
  <1>3. CASE c \in Signups /\ InsertUser(c)
    <2>1. GoOn(c, "insert", "created") /\ c \notin Creations
      BY <1>3 DEF InsertUser
    <2> HIDE DEF GoOn
    <2>2. QED
      BY <2>1, GoneOn
  <1>4. CASE c \in Creations /\ CreationActs(c)
    <2>1. CASE FindPlan(c)
      BY <2>1 DEF FindPlan
    <2>2. CASE InsertTenant(c)
      BY <1>4, <2>2 DEF InsertTenant
    <2>3. CASE AddOwner(c)
      <3>1. CASE member[c][owner[c]] = NoMember
        <4>1. member'[c][owner[c]] # NoMember
          BY <1>4, <2>3, <3>1 DEF AddOwner, NoMember
        <4>2. GoOn(c, "member", "created")
          BY <2>3, <3>1 DEF AddOwner
        <4> HIDE DEF GoOn
        <4>3. QED
          BY <4>1, <4>2, GoneOn
      <3>2. CASE member[c][owner[c]] # NoMember
        <4>1. step[c] = "member" /\ step'[c] = "error" /\ UNCHANGED <<member, faults>>
          BY <1>4, <2>3, <3>2 DEF AddOwner, storeVars
        <4>2. changes > 0
          BY <1>4, <3>2, <4>1 DEF MembersOK
        <4>3. QED
          BY <3>2, <4>1, <4>2
      <3>3. QED
        BY <3>1, <3>2
    <2>4. QED
      BY <1>4, <2>1, <2>2, <2>3 DEF CreationActs
  <1>5. CASE OperatorActs
    BY <1>5 DEF OperatorActs, SetUser, SetTenant, SetMember, callVars
  <1>6. ASSUME NEW d \in Calls, d # c,
               CallActs(d) \/ (d \in Signups /\ InsertUser(d))
                           \/ (d \in Creations /\ CreationActs(d))
        PROVE  FALSE
    BY <1>1, <1>6 DEF CallActs, FindName, InsertRefused, CallFails, InsertUser, CreationActs,
                      FindPlan, InsertTenant, AddOwner
  <1>7. \/ CallActs(c) \/ OperatorActs
        \/ c \in Signups /\ InsertUser(c)
        \/ c \in Creations /\ CreationActs(c)
    <2> HIDE DEF OnboardTypeOK, Go, GoOn, Fault, NoFault, Answers, Pending, Unstored
    <2>1. QED
      BY <1>6 DEF OnboardActs
  <1>8. QED
    BY <1>2, <1>3, <1>4, <1>5, <1>7

\* An answer is never revised, and nothing is stored for a call after it.
LEMMA AnswerStands ==
  ASSUME OnboardTypeOK, OnboardActs, NEW c \in Calls, step[c] \in Answers
  PROVE  /\ step'[c] = step[c]
         /\ c \in Creations /\ tenantStatus[c] = "none" => tenantStatus'[c] = "none"
  <1> USE CallsAssumption DEF OnboardTypeOK, Go, GoOn, Calls, Answers, storeVars, callVars
  <1>1. ASSUME NEW d \in Calls, CallActs(d)
        PROVE  step'[c] = step[c] /\ UNCHANGED tenantStatus
    BY <1>1 DEF CallActs, FindName, InsertRefused, CallFails, Pending
  <1>2. ASSUME NEW s \in Signups, InsertUser(s)
        PROVE  step'[c] = step[c] /\ UNCHANGED tenantStatus
    BY <1>2 DEF InsertUser
  <1>3. ASSUME NEW t \in Creations, FindPlan(t) \/ AddOwner(t)
        PROVE  step'[c] = step[c] /\ UNCHANGED tenantStatus
    BY <1>3 DEF FindPlan, AddOwner
  <1>4. ASSUME NEW t \in Creations, InsertTenant(t)
        PROVE  step'[c] = step[c] /\ (c \in Creations => tenantStatus'[c] = tenantStatus[c])
    BY <1>4 DEF InsertTenant
  <1>5. CASE OperatorActs
    BY <1>5 DEF OperatorActs, SetUser, SetTenant, SetMember, StoredTenants
  <1>6. QED
    BY <1>1, <1>2, <1>3, <1>4, <1>5 DEF OnboardActs, CreationActs

\* Answers stay true.
LEMMA AnswersStep ==
  ASSUME OnboardTypeOK, StagesOK, MembersOK, AnswersAreTrue, OnboardActs
  PROVE  AnswersAreTrue'
  <1>1. Kept /\ StagesOK' /\ OnboardTypeOK'
    BY OnboardStep, StagesStep
  <1>2. ASSUME NEW c \in Calls
        PROVE  /\ step'[c] = "conflict" => Rivals(c)' # {}
               /\ step'[c] = "error" /\ faults' = 0 /\ changes' = 0 => Rivals(c)' # {}
               /\ step'[c] = "created" /\ c \in Creations => member'[c][owner[c]] # NoMember
    <2>1. Rivals(c) # {} => Rivals(c)' # {}
      BY <1>1, RivalsKept
    <2>2. faults \in Nat /\ changes \in Nat /\ owner \in [Creations -> Signups]
      BY DEF OnboardTypeOK
    <2>3. CASE step[c] \in Answers
      <3>1. step'[c] = step[c]
        BY <2>3, AnswerStands
      <3>2. QED
        BY <1>1, <2>1, <2>2, <3>1 DEF AnswersAreTrue, Kept
    <2>4. CASE step[c] \notin Answers
      BY <1>1, <2>1, <2>2, <2>4, AnswersOf DEF Answers, Kept
    <2>5. QED
      BY <2>3, <2>4
  <1>3. QED
    BY <1>1, <1>2 DEF AnswersAreTrue, StagesOK, StoredUsers, StoredTenants, Kept, Calls

\* Only failures leave tenants without an owner.
LEMMA OwnerlessStep ==
  ASSUME OnboardTypeOK, StagesOK, MembersOK, OwnerlessNeedsFault, OnboardActs
  PROVE  OwnerlessNeedsFault'
  <1>1. Kept /\ StagesOK' /\ OnboardTypeOK'
    BY OnboardStep, StagesStep
  <1>2. SUFFICES ASSUME NEW t \in Creations, tenantStatus'[t] # "none", step'[t] \in Answers,
                        member'[t][owner[t]] = NoMember
                 PROVE  step'[t] = "error" /\ faults' > 0
    BY <1>1 DEF OwnerlessNeedsFault, Ownerless, StoredTenants, Answered, Kept
  <1>3. t \in Calls /\ owner[t] \in Signups /\ faults \in Nat
    BY DEF Calls, OnboardTypeOK
  <1>4. member[t][owner[t]] = NoMember
    BY <1>1, <1>2, <1>3 DEF Kept
  <1>5. CASE step[t] \in Answers
    <2>1. step'[t] = step[t] /\ tenantStatus[t] # "none"
      BY <1>2, <1>3, <1>5, AnswerStands
    <2>2. QED
      BY <1>1, <1>3, <1>4, <1>5, <2>1
         DEF OwnerlessNeedsFault, Ownerless, StoredTenants, Answered, Kept
  <1>6. CASE step[t] \notin Answers
    <2>1. step'[t] = "error"
      BY <1>1, <1>2, <1>3, <1>6, AnswersOf DEF Answers, StagesOK, Unstored
    <2>2. faults' # faults
      BY <1>2, <1>3, <1>4, <1>6, <2>1, AnswersOf
    <2>3. QED
      BY <1>1, <1>3, <2>1, <2>2 DEF Kept
  <1>7. QED
    BY <1>5, <1>6

(***************************************************************************)
(* The invariant of onboarding, which clients cannot disturb.              *)
(***************************************************************************)

OnboardInv ==
  /\ OnboardTypeOK /\ StagesOK /\ MembersOK
  /\ NamesUnique /\ AnswersAreTrue /\ OwnerlessNeedsFault

LEMMA OnboardInvInit == OnboardInit => OnboardInv
  <1> SUFFICES ASSUME OnboardInit PROVE OnboardInv
    OBVIOUS
  <1>1. /\ \A c \in Calls : step[c] = "find"
        /\ \A s \in Signups : userStatus[s] = "none"
        /\ \A t \in Creations : tenantStatus[t] = "none"
        /\ \A t \in Creations, s \in Signups : member[t][s] = NoMember
    BY DEF OnboardInit
  <1>2. OnboardTypeOK
    BY DEF OnboardInit, OnboardTypeOK, Pending
  <1>3. StagesOK /\ MembersOK
    BY <1>1 DEF StagesOK, MembersOK, Calls
  <1>4. NamesUnique /\ AnswersAreTrue /\ OwnerlessNeedsFault
    BY <1>1 DEF NamesUnique, AnswersAreTrue, OwnerlessNeedsFault, Ownerless, StoredUsers,
                StoredTenants, Calls
  <1>5. QED
    BY <1>2, <1>3, <1>4 DEF OnboardInv

LEMMA OnboardInvStep ==
  ASSUME OnboardInv, OnboardActs
  PROVE  OnboardInv' /\ Kept
  BY OnboardStep, StagesStep, MembersStep, NamesStep, AnswersStep, OwnerlessStep DEF OnboardInv

LEMMA OnboardInvStutter ==
  ASSUME OnboardInv, UNCHANGED onboardVars
  PROVE  OnboardInv' /\ Kept
  <1>1. OnboardTypeOK' /\ StagesOK' /\ MembersOK'
    BY DEF OnboardInv, OnboardTypeOK, StagesOK, MembersOK, onboardVars, callVars, storeVars
  <1>2. NamesUnique' /\ AnswersAreTrue' /\ OwnerlessNeedsFault'
    BY DEF OnboardInv, NamesUnique, AnswersAreTrue, OwnerlessNeedsFault, Ownerless, Rivals, Answered,
           StoredUsers, StoredTenants, onboardVars, callVars, storeVars
  <1>3. Kept
    BY DEF OnboardInv, OnboardTypeOK, Kept, onboardVars, callVars, storeVars
  <1>4. QED
    BY <1>1, <1>2, <1>3 DEF OnboardInv

(***************************************************************************)
(* Clients.                                                                *)
(***************************************************************************)

\* The token of a client is backed, and there is one if access says so.
GoodSession(k) ==
  /\ k \in Session
  /\ k.access => k.claims # NoClaims
  /\ k.claims # NoClaims =>
       /\ k.claims.sub \in StoredUsers
       /\ IF k.claims.role = "system_admin"
          THEN k.claims.tenant = Platform /\ name[k.claims.sub] \in AdminEmails
          ELSE /\ k.claims.tenant \in StoredTenants
               /\ member[k.claims.tenant][k.claims.sub] # NoMember
               /\ changes = 0 =>
                    k.claims.sub = owner[k.claims.tenant] /\ k.claims.role = "tenant_owner"

\* What a request knows is true of the database, unless operators changed it since.
GoodRequest(q) ==
  /\ q \in Request
  /\ q.since \in Nat /\ q.since <= changes
  /\ q.step # "idle" => q.sub \in StoredUsers
  /\ q.step = "login" => q.tenant \in StoredTenants
  /\ q.step \in {"handle", "list", "served"} /\ q.role # "system_admin" =>
       /\ q.tenant \in StoredTenants /\ Allowed(q.kind, q.role) /\ q.kind # "admin"
       /\ q.since = changes =>
            member[q.tenant][q.sub] = [role |-> q.role, status |-> "active"]
  /\ q.step = "list" => q.kind = "mine"
  /\ q.step \in {"list", "served"} /\ q.kind = "mine" /\ q.since = changes =>
       \A t \in q.listed : ActiveMember(t, q.sub)
  /\ q.step = "list" /\ q.since = changes /\ q.role # "system_admin" =>
       q.tenant \in q.listed
  /\ q.step = "served" /\ q.kind = "mine" /\ q.since = changes =>
       /\ \A t \in q.listed : tenantStatus[t] = "active"
       /\ q.role # "system_admin" /\ tenantStatus[q.tenant] = "active" => q.tenant \in q.listed

AccessInv ==
  /\ DOMAIN session = Clients /\ DOMAIN request = Clients
  /\ session = [c \in Clients |-> session[c]] /\ request = [c \in Clients |-> request[c]]
  /\ \A c \in Clients : GoodSession(session[c]) /\ GoodRequest(request[c])

\* A request that is not under way is good.
LEMMA IdleIsGood ==
  ASSUME OnboardTypeOK
  PROVE  GoodRequest(Idle)
  <1>1. Idle \in Request
    BY DEF Idle, Request, RequestSteps, Kinds
  <1>2. changes \in Nat
    BY DEF OnboardTypeOK
  <1>3. QED
    BY <1>1, <1>2 DEF GoodRequest, Idle

LEMMA NoTokensAreGood == GoodSession(NoTokens)
  BY DEF GoodSession, NoTokens, Session, NoClaims

\* Onboarding leaves every token backed and every request true.
LEMMA AccessKept ==
  ASSUME OnboardInv, AccessInv, Kept, UNCHANGED accessVars
  PROVE  AccessInv'
  <1>1. session' = session /\ request' = request
    BY DEF accessVars
  <1>2. changes \in Nat
    BY DEF OnboardInv, OnboardTypeOK
  <1>3. ASSUME NEW k, GoodSession(k) PROVE GoodSession(k)'
    <2>1. k \in Session /\ (k.claims # NoClaims => k.claims \in Claims)
      BY <1>3 DEF GoodSession, Session
    <2>2. changes' = 0 => changes = 0
      BY <1>2 DEF Kept
    <2>3. QED
      BY <1>3, <2>1, <2>2 DEF GoodSession, Kept, StoredUsers, StoredTenants
  <1>4. ASSUME NEW q, GoodRequest(q) PROVE GoodRequest(q)'
    <2>1. q \in Request /\ q.since \in Nat /\ q.since <= changes
      BY <1>4 DEF GoodRequest
    <2>2. q.since <= changes' /\ (q.since = changes' => changes' = changes)
      BY <1>2, <2>1 DEF Kept
    <2>3. q.sub \in StoredUsers => q.sub \in StoredUsers'
      BY DEF Kept, StoredUsers
    <2>4. q.tenant \in StoredTenants => q.tenant \in StoredTenants'
      BY DEF Kept, StoredTenants
    <2>5. ASSUME q.since = changes', NEW t, NEW s \in Signups, ActiveMember(t, s)
          PROVE  ActiveMember(t, s)'
      BY <2>2, <2>5 DEF ActiveMember, Kept, NoMember
    <2>6. ASSUME q.since = changes', q.tenant \in StoredTenants, q.sub \in Signups,
                 member[q.tenant][q.sub] = [role |-> q.role, status |-> "active"]
          PROVE  member'[q.tenant][q.sub] = member[q.tenant][q.sub]
      BY <2>2, <2>6 DEF Kept, NoMember, StoredTenants
    <2>7. ASSUME q.since = changes', NEW t \in StoredTenants
          PROVE  tenantStatus'[t] = tenantStatus[t]
      BY <2>2, <2>7 DEF Kept, StoredTenants
    <2>8. q.step # "idle" => q.sub \in Signups
      BY <1>4 DEF GoodRequest, StoredUsers
    <2>9. \A t \in q.listed : t \in Creations
      BY <2>1 DEF Request
    <2>10. q.since = changes' => \A t \in q.listed : tenantStatus[t] = "active" =>
                                   tenantStatus'[t] = "active"
      BY <2>7, <2>9 DEF StoredTenants
    <2>11. QED
      BY <1>4, <2>1, <2>2, <2>3, <2>4, <2>5, <2>6, <2>7, <2>8, <2>10 DEF GoodRequest
  <1>5. QED
    BY <1>1, <1>3, <1>4 DEF AccessInv

\* A step of one client puts a good session and a good request in place of its own.
LEMMA ClientPuts ==
  ASSUME AccessInv, UNCHANGED onboardVars, NEW c \in Clients,
         NEW k, GoodSession(k), session' = [session EXCEPT ![c] = k],
         NEW q, GoodRequest(q), request' = [request EXCEPT ![c] = q]
  PROVE  AccessInv'
  <1>1. ASSUME NEW x, GoodSession(x) PROVE GoodSession(x)'
    BY <1>1 DEF GoodSession, StoredUsers, StoredTenants, onboardVars, callVars, storeVars
  <1>2. ASSUME NEW x, GoodRequest(x) PROVE GoodRequest(x)'
    BY <1>2 DEF GoodRequest, ActiveMember, StoredUsers, StoredTenants, onboardVars, callVars,
                storeVars
  <1>3. ASSUME NEW d \in Clients PROVE GoodSession(session'[d]) /\ GoodRequest(request'[d])
    BY DEF AccessInv
  <1>4. /\ DOMAIN session' = Clients /\ DOMAIN request' = Clients
        /\ session' = [d \in Clients |-> session'[d]] /\ request' = [d \in Clients |-> request'[d]]
    BY DEF AccessInv
  <1>5. QED
    BY <1>1, <1>2, <1>3, <1>4 DEF AccessInv

\* Members that are active are members.
LEMMA ActiveMembers ==
  ASSUME OnboardInv, NEW t, NEW s \in Signups, ActiveMember(t, s)
  PROVE  /\ t \in StoredTenants /\ member[t][s] # NoMember /\ member[t][s].role \in TenantRoles
         /\ member[t][s] = [role |-> member[t][s].role, status |-> "active"]
  <1>1. t \in Creations /\ member[t][s] \in Membership \cup {NoMember}
    BY DEF ActiveMember, OnboardInv, OnboardTypeOK
  <1>2. member[t][s] # NoMember
    BY DEF ActiveMember, NoMember
  <1>3. t \in StoredTenants
    BY <1>1, <1>2 DEF OnboardInv, MembersOK, StoredTenants
  <1>4. QED
    BY <1>1, <1>2, <1>3 DEF ActiveMember, Membership

\* The claims of a session and the tokens made from them.
LEMMA OpenedIsGood ==
  ASSUME OnboardInv, NEW s \in StoredUsers, NEW t, NEW role,
         \/ t = Platform /\ role = "system_admin" /\ name[s] \in AdminEmails
         \/ ActiveMember(t, s) /\ role = member[t][s].role
  PROVE  GoodSession([claims |-> [sub |-> s, tenant |-> t, role |-> role], access |-> TRUE])
  <1> DEFINE k == [sub |-> s, tenant |-> t, role |-> role]
  <1>1. s \in Signups
    BY DEF StoredUsers
  <1>2. CASE t = Platform /\ role = "system_admin" /\ name[s] \in AdminEmails
    <2>1. k \in Claims /\ k # NoClaims
      BY <1>1, <1>2, TenantsAssumption DEF Claims, NoClaims, Roles
    <2>2. QED
      BY <1>2, <2>1 DEF GoodSession, Session
  <1>3. CASE ActiveMember(t, s) /\ role = member[t][s].role
    <2>1. /\ t \in StoredTenants /\ t \in Creations
          /\ member[t][s] # NoMember /\ role \in TenantRoles
      BY <1>1, <1>3, ActiveMembers DEF StoredTenants
    <2>2. k \in Claims /\ k # NoClaims /\ role # "system_admin"
      BY <1>1, <2>1, TenantsAssumption DEF Claims, NoClaims, Roles, TenantRoles
    <2>3. changes = 0 => s = owner[t] /\ role = "tenant_owner"
      BY <1>1, <1>3, <2>1 DEF OnboardInv, MembersOK
    <2>4. QED
      BY <2>1, <2>2, <2>3 DEF GoodSession, Session
  <1>4. QED
    BY <1>2, <1>3

\* Logins, and what becomes of tokens.
LEMMA TokenSteps ==
  ASSUME OnboardInv, AccessInv, NEW c \in Clients,
         \/ \E s \in Signups : LoginAdmin(c, s) \/ \E t \in Creations : LoginUser(c, s, t)
         \/ LoginMember(c) \/ RefreshAccess(c) \/ AccessExpires(c) \/ TokensExpire(c)
  PROVE  AccessInv' /\ UNCHANGED onboardVars
  <1>1. GoodSession(session[c]) /\ GoodRequest(request[c]) /\ OnboardTypeOK
    BY DEF AccessInv, OnboardInv
  <1>2. session = [session EXCEPT ![c] = session[c]] /\ request = [request EXCEPT ![c] = request[c]]
    BY DEF AccessInv
  <1>3. GoodRequest(Idle) /\ GoodSession(NoTokens)
    BY <1>1, IdleIsGood, NoTokensAreGood
  <1>4. ASSUME NEW s \in Signups, LoginAdmin(c, s) PROVE AccessInv' /\ UNCHANGED onboardVars
    <2> DEFINE k == [claims |-> [sub |-> s, tenant |-> Platform, role |-> "system_admin"],
                     access |-> TRUE]
    <2>1. s \in StoredUsers /\ name[s] \in AdminEmails
      BY <1>4 DEF LoginAdmin, StoredUsers
    <2>2. GoodSession(k)
      BY <2>1, OpenedIsGood
    <2>3. /\ session' = [session EXCEPT ![c] = k] /\ request' = [request EXCEPT ![c] = Idle]
          /\ UNCHANGED onboardVars
      BY <1>4 DEF LoginAdmin, Open, Refuse
    <2> HIDE DEF k
    <2>4. QED
      BY <1>3, <2>2, <2>3, ClientPuts
  <1>5. ASSUME NEW s \in Signups, NEW t \in Creations, LoginUser(c, s, t)
        PROVE  AccessInv' /\ UNCHANGED onboardVars
    <2> DEFINE q == [Idle EXCEPT !.step = "login", !.sub = s, !.tenant = t]
    <2>1. s \in StoredUsers /\ t \in StoredTenants
      BY <1>5 DEF LoginUser, StoredUsers
    <2>2. q \in Request
      BY DEF Idle, Request, RequestSteps, Kinds
    <2>3. GoodRequest(q)
      BY <1>1, <2>1, <2>2 DEF GoodRequest, Idle, OnboardTypeOK
    <2>4. /\ session' = [session EXCEPT ![c] = NoTokens] /\ request' = [request EXCEPT ![c] = q]
          /\ UNCHANGED onboardVars
      BY <1>5 DEF LoginUser
    <2> HIDE DEF q
    <2>5. QED
      BY <1>3, <2>3, <2>4, ClientPuts
  <1>6. CASE LoginMember(c)
    <2> DEFINE s == request[c].sub
               t == request[c].tenant
               k == [claims |-> [sub |-> s, tenant |-> t, role |-> member[t][s].role],
                     access |-> TRUE]
    <2>1. /\ request' = [request EXCEPT ![c] = Idle] /\ UNCHANGED onboardVars
          /\ \/ session' = [session EXCEPT ![c] = k] /\ ActiveMember(t, s)
             \/ UNCHANGED session
      BY <1>6 DEF LoginMember, Open, Refuse
    <2>2. s \in StoredUsers
      BY <1>1, <1>6 DEF LoginMember, GoodRequest
    <2>3. ActiveMember(t, s) => GoodSession(k)
      BY <2>2, OpenedIsGood
    <2> HIDE DEF k
    <2>4. QED
      BY <1>1, <1>2, <1>3, <2>1, <2>3, ClientPuts
  <1>7. CASE RefreshAccess(c) \/ AccessExpires(c)
    <2>1. PICK b \in BOOLEAN : /\ session' = [session EXCEPT ![c] = [session[c] EXCEPT !.access = b]]
                               /\ session[c].claims # NoClaims
      BY <1>1, <1>7 DEF RefreshAccess, AccessExpires, GoodSession
    <2>2. GoodSession([session[c] EXCEPT !.access = b])
      BY <1>1, <2>1 DEF GoodSession, Session
    <2>3. UNCHANGED <<onboardVars, request>>
      BY <1>7 DEF RefreshAccess, AccessExpires
    <2>4. QED
      BY <1>1, <1>2, <2>1, <2>2, <2>3, ClientPuts
  <1>8. CASE TokensExpire(c)
    <2>1. session' = [session EXCEPT ![c] = NoTokens] /\ UNCHANGED <<onboardVars, request>>
      BY <1>8 DEF TokensExpire
    <2>2. QED
      BY <1>1, <1>2, <1>3, <2>1, ClientPuts
  <1>9. QED
    BY <1>4, <1>5, <1>6, <1>7, <1>8

\* Nobody but a system administrator has the permission of the admin routes.
LEMMA AdminOnly ==
  ASSUME NEW role \in TenantRoles
  PROVE  ~Allowed("admin", role)
  BY DEF TenantRoles, Allowed, Permissions, AdminPermissions, OwnerPermissions,
         MemberPermissions

\* A request goes on with the role it had as an administrator, or with that of the active
\* membership.
LEMMA PassedIsGood ==
  ASSUME OnboardInv, AccessInv, NEW c \in Clients, request[c].step = "check", NEW role,
         \/ role = "system_admin"
         \/ /\ ActiveMember(request[c].tenant, request[c].sub)
            /\ role = member[request[c].tenant][request[c].sub].role
  PROVE  GoodRequest(AfterPass(c, role))
  <1> DEFINE q == request[c]
  <1>1. /\ GoodRequest(q) /\ q \in Request /\ q.step = "check" /\ OnboardTypeOK
        /\ q.sub \in StoredUsers /\ q.sub \in Signups /\ q.left \in Nat /\ q.since \in Nat
        /\ q.since <= changes
    BY DEF AccessInv, GoodRequest, Request, OnboardInv, StoredUsers
  <1>2. /\ role \in Roles
        /\ role # "system_admin" =>
             /\ role \in TenantRoles /\ q.tenant \in StoredTenants
             /\ member[q.tenant][q.sub] = [role |-> role, status |-> "active"]
    BY <1>1, ActiveMembers DEF Roles, TenantRoles
  <1>3. AfterPass(c, role) =
          CASE q.left > 1 -> [q EXCEPT !.left = @ - 1, !.role = role]
            [] q.left = 1 /\ Allowed(q.kind, role) ->
                 [q EXCEPT !.left = 0, !.role = role, !.step = "handle"]
            [] OTHER -> Idle
    BY DEF AfterPass
  <1> HIDE DEF q
  <1>4. CASE q.left > 1
    <2> DEFINE n == q.left - 1
               r == [q EXCEPT !.left = n, !.role = role]
    <2>1. AfterPass(c, role) = r /\ n \in Nat
      BY <1>1, <1>3, <1>4
    <2> HIDE DEF n
    <2>2. r \in Request
      BY <1>1, <1>2, <2>1 DEF Request
    <2>3. GoodRequest(r)
      BY <1>1, <2>2 DEF GoodRequest, Request
    <2>4. QED
      BY <2>1, <2>3
  <1>5. CASE q.left = 1 /\ Allowed(q.kind, role)
    <2> DEFINE r == [q EXCEPT !.left = 0, !.role = role, !.step = "handle"]
    <2>1. AfterPass(c, role) = r
      BY <1>3, <1>5
    <2>2. r \in Request
      BY <1>1, <1>2 DEF Request, RequestSteps
    <2>3. /\ r.step = "handle" /\ r.role = role /\ r.kind = q.kind /\ r.sub = q.sub
          /\ r.tenant = q.tenant /\ r.since = q.since
      BY <1>1 DEF Request
    <2>4. role # "system_admin" => q.kind # "admin"
      BY <1>2, <1>5, AdminOnly
    <2> HIDE DEF r
    <2>5. GoodRequest(r)
      BY <1>1, <1>2, <1>5, <2>2, <2>3, <2>4 DEF GoodRequest
    <2>6. QED
      BY <2>1, <2>5
  <1>6. CASE q.left = 0 \/ (q.left = 1 /\ ~Allowed(q.kind, role))
    BY <1>1, <1>3, <1>6, IdleIsGood
  <1>7. QED
    BY <1>1, <1>4, <1>5, <1>6

\* The request of a client is another good one, and nothing else changes.
RequestPut(c) ==
  /\ \E q \in Request : GoodRequest(q) /\ request' = [request EXCEPT ![c] = q]
  /\ UNCHANGED <<onboardVars, session>>

\* Requests, from the token to the answer.
LEMMA RequestMoves ==
  ASSUME OnboardInv, AccessInv, NEW c \in Clients,
         \/ \E kind \in Kinds : \E route, header \in Paths : StartRequest(c, kind, route, header)
         \/ Pass(c) \/ Serve(c) \/ ReadMemberships(c) \/ ReadTenants(c) \/ Done(c)
  PROVE  RequestPut(c)
  <1> DEFINE q == request[c]
  <1>1. /\ GoodSession(session[c]) /\ GoodRequest(q) /\ OnboardTypeOK /\ q \in Request
        /\ q.since \in Nat /\ changes \in Nat
    BY DEF AccessInv, OnboardInv, GoodRequest, OnboardTypeOK
  <1>2. GoodRequest(Idle) /\ Idle \in Request
    BY <1>1, IdleIsGood DEF GoodRequest
  <1>3. CASE Refuse(c) /\ UNCHANGED <<onboardVars, session>>
    BY <1>2, <1>3 DEF Refuse, RequestPut
  <1>4. ASSUME NEW kind \in Kinds, NEW route \in Paths, NEW header \in Paths,
               StartRequest(c, kind, route, header)
        PROVE  RequestPut(c)
    <2> DEFINE k == session[c].claims
               t == Resolved(route, header, k)
               r == [Idle EXCEPT !.step = "check", !.kind = kind, !.sub = k.sub, !.tenant = t,
                                 !.role = k.role, !.left = Passes[kind], !.since = changes]
    <2>1. k # NoClaims /\ k \in Claims /\ k.sub \in StoredUsers
      BY <1>1, <1>4 DEF StartRequest, GoodSession, Session
    <2>2. k.sub \in Signups /\ k.tenant \in Creations \cup {Platform} /\ k.role \in Roles
      BY <2>1 DEF Claims
    <2>3. t \in Creations \cup {Platform, NoTenant} /\ Passes[kind] \in Nat
      BY <2>2, PassesAssumption DEF Resolved, Paths
    <2>4. request' = [request EXCEPT ![c] = r] /\ UNCHANGED <<onboardVars, session>>
      BY <1>4 DEF StartRequest
    <2> HIDE DEF k, t
    <2>5. r \in Request
      BY <1>1, <2>2, <2>3 DEF Idle, Request, RequestSteps
    <2>6. r.step = "check" /\ r.sub = k.sub /\ r.since = changes
      BY DEF Idle
    <2> HIDE DEF r
    <2>7. GoodRequest(r)
      BY <1>1, <2>1, <2>5, <2>6 DEF GoodRequest
    <2>8. QED
      BY <2>4, <2>5, <2>7 DEF RequestPut
  <1>5. CASE Pass(c)
    <2> DEFINE role == IF q.role = "system_admin" THEN "system_admin" ELSE member[q.tenant][q.sub].role
    <2>1. \/ Refuse(c)
          \/ request' = [request EXCEPT ![c] = Idle]
          \/ /\ request' = [request EXCEPT ![c] = AfterPass(c, role)]
             /\ q.role = "system_admin" \/ ActiveMember(q.tenant, q.sub)
      BY <1>5 DEF Pass
    <2>2. q.step = "check" /\ UNCHANGED <<onboardVars, session>>
      BY <1>5 DEF Pass
    <2>3. q.role = "system_admin" \/ ActiveMember(q.tenant, q.sub) => GoodRequest(AfterPass(c, role))
      BY <2>2, PassedIsGood
    <2>4. ASSUME NEW r, GoodRequest(r) PROVE r \in Request
      BY <2>4 DEF GoodRequest
    <2> HIDE DEF role, q
    <2>5. QED
      BY <1>2, <1>3, <2>1, <2>2, <2>3, <2>4 DEF RequestPut, Refuse
  <1>6. CASE Serve(c)
    <2> DEFINE r == [q EXCEPT !.step = "served"]
    <2>1. /\ q.step = "handle" /\ q.kind # "mine" /\ UNCHANGED <<onboardVars, session>>
          /\ \/ request' = [request EXCEPT ![c] = r] \/ request' = [request EXCEPT ![c] = Idle]
      BY <1>6 DEF Serve
    <2>2. r \in Request
      BY <1>1 DEF Request, RequestSteps
    <2>3. GoodRequest(r)
      BY <1>1, <2>1, <2>2 DEF GoodRequest, Request
    <2>4. QED
      BY <1>2, <2>1, <2>2, <2>3 DEF RequestPut
  <1>7. CASE ReadMemberships(c)
    <2> DEFINE mine == {t \in Creations : ActiveMember(t, q.sub)}
               r == [q EXCEPT !.step = "list", !.listed = mine]
    <2>1. /\ q.step = "handle" /\ q.kind = "mine" /\ UNCHANGED <<onboardVars, session>>
          /\ request' = [request EXCEPT ![c] = r]
      BY <1>7 DEF ReadMemberships
    <2>2. r \in Request
      BY <1>1 DEF Request, RequestSteps
    <2>3. q.role # "system_admin" /\ q.since = changes => q.tenant \in mine
      <3>1. ASSUME q.role # "system_admin", q.since = changes
            PROVE  /\ q.tenant \in StoredTenants
                   /\ member[q.tenant][q.sub] = [role |-> q.role, status |-> "active"]
        BY <1>1, <2>1, <3>1 DEF GoodRequest
      <3>2. QED
        BY <3>1 DEF ActiveMember, StoredTenants
    <2>4. \A t \in mine : ActiveMember(t, q.sub)
      OBVIOUS
    <2> HIDE DEF mine
    <2>5. GoodRequest(r)
      BY <1>1, <2>1, <2>2, <2>3, <2>4 DEF GoodRequest, Request
    <2>6. QED
      BY <2>1, <2>2, <2>5 DEF RequestPut
  <1>8. CASE ReadTenants(c)
    <2> DEFINE live == {t \in q.listed : tenantStatus[t] = "active"}
               r == [q EXCEPT !.step = "served", !.listed = live]
    <2>1. /\ q.step = "list" /\ UNCHANGED <<onboardVars, session>>
          /\ request' = [request EXCEPT ![c] = r]
      BY <1>8 DEF ReadTenants
    <2>2. live \subseteq Creations /\ live \subseteq q.listed
      BY <1>1 DEF Request
    <2>3. \A t \in live : tenantStatus[t] = "active"
      OBVIOUS
    <2>4. q.tenant \in q.listed /\ tenantStatus[q.tenant] = "active" => q.tenant \in live
      OBVIOUS
    <2> HIDE DEF live
    <2>5. r \in Request
      BY <1>1, <2>2 DEF Request, RequestSteps
    <2>6. GoodRequest(r)
      BY <1>1, <2>1, <2>2, <2>3, <2>4, <2>5 DEF GoodRequest, Request
    <2>7. QED
      BY <2>1, <2>5, <2>6 DEF RequestPut
  <1>9. CASE Done(c)
    BY <1>3, <1>9 DEF Done
  <1>10. QED
    BY <1>4, <1>5, <1>6, <1>7, <1>8, <1>9

LEMMA RequestPutKeeps ==
  ASSUME AccessInv, NEW c \in Clients, RequestPut(c)
  PROVE  AccessInv' /\ UNCHANGED onboardVars
  <1>1. PICK q \in Request : GoodRequest(q) /\ request' = [request EXCEPT ![c] = q]
    BY DEF RequestPut
  <1>2. GoodSession(session[c]) /\ session' = [session EXCEPT ![c] = session[c]]
    BY DEF AccessInv, RequestPut
  <1>3. QED
    BY <1>1, <1>2, ClientPuts DEF RequestPut

(***************************************************************************)
(* The theorems.                                                           *)
(***************************************************************************)

Inv == OnboardInv /\ AccessInv

LEMMA InvInit == Init => Inv
  <1> SUFFICES ASSUME Init PROVE Inv
    OBVIOUS
  <1>1. OnboardInv
    BY OnboardInvInit DEF Init
  <1>2. AccessInv
    BY <1>1, IdleIsGood, NoTokensAreGood DEF Init, AccessInv, OnboardInv
  <1>3. QED
    BY <1>1, <1>2 DEF Inv

LEMMA InvStep == Inv /\ [Next]_vars => Inv'
  <1> SUFFICES ASSUME Inv, [Next]_vars PROVE Inv'
    OBVIOUS
  <1>1. CASE OnboardActs /\ UNCHANGED accessVars
    BY <1>1, OnboardInvStep, AccessKept DEF Inv
  <1>2. ASSUME NEW c \in Clients, ClientActs(c) PROVE Inv'
    <2>1. AccessInv' /\ UNCHANGED onboardVars
      BY <1>2, TokenSteps, RequestMoves, RequestPutKeeps DEF ClientActs, Inv
    <2>2. QED
      BY <2>1, OnboardInvStutter DEF Inv
  <1>3. CASE UNCHANGED vars
    BY <1>3, OnboardInvStutter, AccessKept DEF Inv, vars
  <1>4. QED
    BY <1>1, <1>2, <1>3 DEF Next

LEMMA SpecInv == Spec => []Inv
  BY InvInit, InvStep, PTL DEF Spec

LEMMA InvImplies ==
  Inv => /\ TypeOK /\ NamesUnique /\ AnswersAreTrue /\ OwnerlessNeedsFault
         /\ ClaimsAreBacked /\ RoleIsCurrent /\ ListedAreMine
  <1> SUFFICES ASSUME Inv
               PROVE  /\ TypeOK /\ NamesUnique /\ AnswersAreTrue /\ OwnerlessNeedsFault
                      /\ ClaimsAreBacked /\ RoleIsCurrent /\ ListedAreMine
    OBVIOUS
  <1>1. OnboardTypeOK /\ NamesUnique /\ AnswersAreTrue /\ OwnerlessNeedsFault
    BY DEF Inv, OnboardInv
  <1>2. \A c \in Clients : GoodSession(session[c]) /\ GoodRequest(request[c])
    BY DEF Inv, AccessInv
  <1>3. session \in [Clients -> Session] /\ request \in [Clients -> Request]
    BY <1>2 DEF Inv, AccessInv, GoodSession, GoodRequest
  <1>4. TypeOK
    BY <1>1, <1>3 DEF TypeOK
  <1>5. ClaimsAreBacked
    BY <1>2 DEF ClaimsAreBacked, GoodSession
  <1>6. RoleIsCurrent
    BY <1>2 DEF RoleIsCurrent, GoodRequest
  <1>7. ListedAreMine
    BY <1>2 DEF ListedAreMine, GoodRequest
  <1>8. QED
    BY <1>1, <1>4, <1>5, <1>6, <1>7

\* Every variable keeps its type, whoever acts.
THEOREM AccessTypes == Spec => []TypeOK
  BY SpecInv, InvImplies, PTL

\* Names stay unique although a call looks for its name some steps before it inserts:
\* the unique indexes of user.model and tenant.model decide.
THEOREM UniqueNames == Spec => []NamesUnique
  BY SpecInv, InvImplies, PTL

\* What createUser and createTenant answer is true, for as long as the system runs.
THEOREM TrueAnswers == Spec => []AnswersAreTrue
  BY SpecInv, InvImplies, PTL

\* createTenant leaves a tenant without its owner only when it fails, and says so.
THEOREM OwnersAreMissedByFaults == Spec => []OwnerlessNeedsFault
  BY SpecInv, InvImplies, PTL

\* Whatever tokens are refreshed, each goes back to a membership or to a configured
\* administrator: login and refresh of auth.service make no others.
THEOREM BackedClaims == Spec => []ClaimsAreBacked
  BY SpecInv, InvImplies, PTL

\* authMiddleware serves nobody by the role of an old token.
THEOREM CurrentRoles == Spec => []RoleIsCurrent
  BY SpecInv, InvImplies, PTL

\* listForUser answers with the active tenants of the user's active memberships.
THEOREM MyTenants == Spec => []ListedAreMine
  BY SpecInv, InvImplies, PTL
=============================================================================
