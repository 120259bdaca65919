SPECIFICATION Spec

CONSTANTS
  u1 = u1  u2 = u2  c1 = c1  c2 = c2  e1 = e1  e2 = e2  s1 = s1  s2 = s2  client = client
  Platform = Platform  NoTenant = NoTenant

  Signups    = {u1, u2}
  Creations  = {c1, c2}
  Emails     = {e1, e2}
  Slugs      = {s1, s2}
  AdminEmails = {e1}
  Clients    = {client}
  Passes    <- FewPasses
  Granted   <- FewGranted
  MaxFaults  = 1
  MaxChanges = 1

SYMMETRY Symmetry

INVARIANTS
  TypeOK
  NamesUnique
  AnswersAreTrue
  OwnerlessNeedsFault
  ClaimsAreBacked
  RoleIsCurrent
  ListedAreMine

CHECK_DEADLOCK FALSE
