---------------------------- MODULE TenantAccess ----------------------------
(***************************************************************************)
(* Onboarding composed with what clients do afterwards: log in, refresh    *)
(* their token, and send requests through authMiddleware, the permission   *)
(* and tenant checks and a handler.                                        *)
(*                                                                         *)
(* A token keeps the tenant and the role its user had at login. Requests   *)
(* read the membership again, once for every router that guards itself     *)
(* with authMiddleware on the way to the one that answers, and operators   *)
(* change memberships, users and tenants in between.                       *)
(***************************************************************************)
EXTENDS Onboarding

CONSTANTS
  Clients,      \* each holds one pair of tokens and has one request under way
  AdminEmails,  \* SYSTEM_ADMIN_EMAILS
  Platform,     \* the tenant of a system administrator's token
  NoTenant,     \* no tenant id in the path, the header or the body
  Passes        \* how often authMiddleware runs for each kind of request

ASSUME TenantsAssumption == {Platform, NoTenant} \cap Creations = {} /\ Platform # NoTenant

VARIABLES session, request

accessVars == <<session, request>>
vars       == <<onboardVars, accessVars>>

Roles == TenantRoles \cup {"system_admin"}

\* GET /tenants/:tenantId, GET /tenants/my, POST /orders, GET /admin/tenants.
Kinds == {"tenant", "mine", "order", "admin"}

ASSUME PassesAssumption == Passes \in [Kinds -> Nat \ {0}]

Claims   == [sub : Signups, tenant : Creations \cup {Platform}, role : Roles]
NoClaims == [sub |-> "none", tenant |-> NoTenant, role |-> "none"]

\* access: the access token is good; otherwise the refresh token still is.
Session  == [claims : Claims \cup {NoClaims}, access : BOOLEAN]
NoTokens == [claims |-> NoClaims, access |-> FALSE]

RequestSteps == {"idle", "login", "check", "handle", "list", "served"}

\* sub, tenant and role are those of req.auth (role is the token's until the first
\* pass), left counts the passes to come, since the changes of operators when the
\* request began, listed is the answer of GET /tenants/my.
Request == [step : RequestSteps, kind : Kinds, sub : Signups \cup {"none"},
            tenant : Creations \cup {Platform, NoTenant}, role : Roles \cup {"none"},
            left : Nat, since : Nat, listed : SUBSET Creations]

Idle == [step |-> "idle", kind |-> "mine", sub |-> "none", tenant |-> NoTenant,
         role |-> "none", left |-> 0, since |-> 0, listed |-> {}]

TypeOK ==
  /\ OnboardTypeOK
  /\ session \in [Clients -> Session]
  /\ request \in [Clients -> Request]

Init ==
  /\ OnboardInit
  /\ session = [c \in Clients |-> NoTokens]
  /\ request = [c \in Clients |-> Idle]

(***************************************************************************)
(* Who may do what.                                                        *)
(***************************************************************************)

MemberPermissions == {"member:read", "integration:read", "integration:write",
                      "automation:read", "automation:write", "execution:read",
                      "execution:write", "usage:read"}

AdminPermissions == MemberPermissions \cup {"tenant:read", "member:write", "billing:read"}

OwnerPermissions == AdminPermissions \cup {"tenant:write", "billing:write"}

\* getRolePermissions
Permissions(role) ==
  CASE role = "system_admin" -> OwnerPermissions \cup {"admin:read", "admin:write"}
    [] role = "tenant_owner" -> OwnerPermissions
    [] role = "tenant_admin" -> AdminPermissions
    [] role = "manager"      -> MemberPermissions
    [] role = "operator"     -> {"integration:read", "automation:read", "execution:read",
                                 "execution:write"}
    [] role = "viewer"       -> {"tenant:read", "member:read", "integration:read",
                                 "automation:read", "execution:read", "usage:read"}
    [] OTHER                 -> {}

\* requirePermission of the routes; GET /tenants/my requires none.
Allowed(kind, role) ==
  CASE kind = "tenant" -> "tenant:read" \in Permissions(role)
    [] kind = "order"  -> "automation:write" \in Permissions(role)
    [] kind = "admin"  -> "admin:read" \in Permissions(role)
    [] OTHER           -> TRUE

\* resolveTenantIdForRequest: the path, else the header, else the token.
Resolved(route, header, claims) ==
  CASE route # NoTenant -> route
    [] route = NoTenant /\ header # NoTenant -> header
    [] OTHER -> claims.tenant

Mismatch(route, header) == NoTenant \notin {route, header} /\ route # header

ActiveMember(t, s) == t \in Creations /\ member[t][s].status = "active"

(***************************************************************************)
(* Tokens. A login or a request that is refused leaves nothing behind; the *)
(* status it is answered with is not modelled.                             *)
(***************************************************************************)

Free(c)   == request[c].step = "idle"
Refuse(c) == request' = [request EXCEPT ![c] = Idle]

Open(c, s, t, role) ==
  session' = [session EXCEPT ![c] =
                [claims |-> [sub |-> s, tenant |-> t, role |-> role], access |-> TRUE]]

\* login without a tenant, for a configured administrator.
LoginAdmin(c, s) ==
  /\ Free(c)
  /\ userStatus[s] = "active" /\ name[s] \in AdminEmails
  /\ Open(c, s, Platform, "system_admin")
  /\ Refuse(c)
  /\ UNCHANGED onboardVars

\* login: the user is active, its password right; the membership is looked up next. The
\* client forgets the tokens it had.
LoginUser(c, s, t) ==
  /\ Free(c)
  /\ userStatus[s] = "active" /\ t \in StoredTenants
  /\ request' = [request EXCEPT ![c] =
                   [Idle EXCEPT !.step = "login", !.sub = s, !.tenant = t]]
  /\ session' = [session EXCEPT ![c] = NoTokens]
  /\ UNCHANGED onboardVars

\* Mutant: the status of the membership is not looked at.
LoginMemberUnchecked(c) ==
  LET s == request[c].sub t == request[c].tenant IN
  /\ request[c].step = "login"
  /\ Open(c, s, t, member[t][s].role)
  /\ Refuse(c)
  /\ UNCHANGED onboardVars

\* findActiveMembership: the tokens carry its role.
LoginMember(c) ==
  LET s == request[c].sub t == request[c].tenant IN
  /\ request[c].step = "login"
  /\ IF ActiveMember(t, s) THEN Open(c, s, t, member[t][s].role) ELSE UNCHANGED session
  /\ Refuse(c)
  /\ UNCHANGED onboardVars

\* refresh signs the claims of a token again, unseen by the database. The type of the
\* token is not looked at, so an access token will do, and changes nothing here.
RefreshAccess(c) ==
  /\ Free(c)
  /\ session[c].claims # NoClaims /\ ~session[c].access
  /\ session' = [session EXCEPT ![c].access = TRUE]
  /\ UNCHANGED <<onboardVars, request>>

\* The access token expires before the refresh token.
AccessExpires(c) ==
  /\ Free(c)
  /\ session[c].access
  /\ session' = [session EXCEPT ![c].access = FALSE]
  /\ UNCHANGED <<onboardVars, request>>

\* No token of the pair is good any more.
TokensExpire(c) ==
  /\ Free(c)
  /\ session[c].claims # NoClaims
  /\ session' = [session EXCEPT ![c] = NoTokens]
  /\ UNCHANGED <<onboardVars, request>>

(***************************************************************************)
(* Requests.                                                               *)
(***************************************************************************)

\* The token is good and the tenant resolved, which for anybody but a system
\* administrator must be the token's.
StartRequest(c, kind, route, header) ==
  LET claims == session[c].claims
      tenant == Resolved(route, header, claims)
  IN
  /\ Free(c)
  /\ session[c].access
  /\ (route # NoTenant) <=> (kind = "tenant")
  /\ ~Mismatch(route, header)
  /\ claims.role = "system_admin" \/ tenant = claims.tenant
  /\ request' = [request EXCEPT ![c] =
                   [Idle EXCEPT !.step = "check", !.kind = kind, !.sub = claims.sub,
                                !.tenant = tenant, !.role = claims.role,
                                !.left = Passes[kind], !.since = changes]]
  /\ UNCHANGED <<onboardVars, session>>

\* After the last pass the route looks at the permission.
AfterPass(c, role) ==
  LET q == request[c] IN
  CASE q.left > 1 -> [q EXCEPT !.left = @ - 1, !.role = role]
    [] q.left = 1 /\ Allowed(q.kind, role) ->
         [q EXCEPT !.left = 0, !.role = role, !.step = "handle"]
    [] OTHER -> Idle

\* Mutant: the role of the token is trusted.
PassTokenRole(c) ==
  /\ request[c].step = "check"
  /\ request' = [request EXCEPT ![c] =
       IF request[c].role = "system_admin" \/ ActiveMember(request[c].tenant, request[c].sub)
         THEN AfterPass(c, request[c].role)
         ELSE Idle]
  /\ UNCHANGED <<onboardVars, session>>

\* One pass of authMiddleware: the token may have expired since the pass before, and the
\* role is that of the active membership now.
Pass(c) ==
  LET s == request[c].sub t == request[c].tenant IN
  /\ request[c].step = "check"
  /\ \/ request' = [request EXCEPT ![c] =
          CASE request[c].role = "system_admin" -> AfterPass(c, "system_admin")
            [] request[c].role # "system_admin" /\ ActiveMember(t, s) ->
                 AfterPass(c, member[t][s].role)
            [] OTHER -> Idle]
     \/ Refuse(c)
  /\ UNCHANGED <<onboardVars, session>>

\* getTenantById finds the tenant of the path; an order is written in a tenant, which
\* the one of an administrator's token is not; admin asks for the role once more.
Serve(c) ==
  LET q == request[c] IN
  /\ q.step = "handle" /\ q.kind # "mine"
  /\ request' = [request EXCEPT ![c] =
       IF \/ q.kind = "tenant" /\ q.tenant \in StoredTenants
          \/ q.kind = "order" /\ q.tenant \in Creations
          \/ q.kind = "admin" /\ q.role = "system_admin"
         THEN [q EXCEPT !.step = "served"] ELSE Idle]
  /\ UNCHANGED <<onboardVars, session>>

\* Mutant: every membership counts.
ReadMembershipsAll(c) ==
  LET q == request[c] IN
  /\ q.step = "handle" /\ q.kind = "mine"
  /\ request' = [request EXCEPT ![c].step = "list",
                    ![c].listed = {t \in Creations : member[t][q.sub] # NoMember}]
  /\ UNCHANGED <<onboardVars, session>>

\* listForUser reads the active memberships of the user ...
ReadMemberships(c) ==
  LET q == request[c] IN
  /\ q.step = "handle" /\ q.kind = "mine"
  /\ request' = [request EXCEPT ![c].step = "list",
                    ![c].listed = {t \in Creations : ActiveMember(t, q.sub)}]
  /\ UNCHANGED <<onboardVars, session>>

\* ... and then the active ones of their tenants.
ReadTenants(c) ==
  /\ request[c].step = "list"
  /\ request' = [request EXCEPT ![c].step = "served",
                    ![c].listed = {t \in @ : tenantStatus[t] = "active"}]
  /\ UNCHANGED <<onboardVars, session>>

\* The client has its answer.
Done(c) ==
  /\ request[c].step = "served"
  /\ Refuse(c)
  /\ UNCHANGED <<onboardVars, session>>

Paths == Creations \cup {NoTenant}

ClientActs(c) ==
  \/ \E s \in Signups : LoginAdmin(c, s) \/ \E t \in Creations : LoginUser(c, s, t)
  \/ LoginMember(c) \/ RefreshAccess(c) \/ AccessExpires(c) \/ TokensExpire(c)
  \/ \E kind \in Kinds : \E route, header \in Paths : StartRequest(c, kind, route, header)
  \/ Pass(c) \/ Serve(c) \/ ReadMemberships(c) \/ ReadTenants(c) \/ Done(c)

Next ==
  \/ OnboardActs /\ UNCHANGED accessVars
  \/ \E c \in Clients : ClientActs(c)

Spec == Init /\ [][Next]_vars

(***************************************************************************)
(* Properties.                                                             *)
(***************************************************************************)

\* A token was earned: an administrator's belongs to one, any other to a member of its
\* tenant, and as long as no operator changed a membership to the owner its creation
\* named, in that role. Refreshing, for ever if need be, adds nothing.
ClaimsAreBacked ==
  \A c \in Clients : session[c].claims # NoClaims =>
    LET k == session[c].claims IN
    /\ k.sub \in StoredUsers
    /\ IF k.role = "system_admin" THEN k.tenant = Platform /\ name[k.sub] \in AdminEmails
       ELSE /\ k.tenant \in StoredTenants /\ member[k.tenant][k.sub] # NoMember
            /\ changes = 0 => k.sub = owner[k.tenant] /\ k.role = "tenant_owner"

\* What is served to anybody but an administrator is served under the active
\* membership it has in the tenant the request is for, with a permission of its
\* present role, unless an operator changed something while the request was served:
\* the role of an old token never counts.
RoleIsCurrent ==
  \A c \in Clients : LET q == request[c] IN
    q.step \in {"handle", "list", "served"} /\ q.role # "system_admin" =>
      /\ q.tenant \in StoredTenants /\ Allowed(q.kind, q.role) /\ q.kind # "admin"
      /\ q.since = changes =>
           member[q.tenant][q.sub] = [role |-> q.role, status |-> "active"]

\* The tenants listed as a user's are its own and active, and the one it is logged into
\* is among them if that is, unless an operator changed something between the reads.
ListedAreMine ==
  \A c \in Clients : LET q == request[c] IN
    q.step = "served" /\ q.kind = "mine" /\ q.since = changes =>
      /\ \A t \in q.listed : ActiveMember(t, q.sub) /\ tenantStatus[t] = "active"
      /\ q.role # "system_admin" /\ tenantStatus[q.tenant] = "active" =>
           q.tenant \in q.listed
=============================================================================
