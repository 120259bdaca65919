SPECIFICATION Spec

CONSTANTS
  r1 = r1  r2 = r2  w1 = w1  w2 = w2
  t1 = t1  hubspot = hubspot  WhatsApp = whatsapp
  n1 = n1  n2 = n2  c1 = c1
  Absent = Absent  Empty = Empty  NoEvent = NoEvent  NoWorker = NoWorker

  Requests    = {r1}
  Workers     = {w1}
  Tenants     = {t1}
  Providers   = {whatsapp, hubspot}
  Names       = {n1, n2}
  Contents    = {c1}
  Deliveries <- OneOther
  Sanitized  <- PlainNames
  MaxFaults   = 0
  MaxAttempts = 1
  MaxStalled  = 0
  CountersAccepted = FALSE

PROPERTY
  FinalStaysFinal
