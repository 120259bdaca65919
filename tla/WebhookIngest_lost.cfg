SPECIFICATION IngestSpec

CONSTANTS
  r1 = r1  r2 = r2  r3 = r3
  t1 = t1  t2 = t2
  whatsapp = whatsapp  hubspot = hubspot
  n1 = n1  n2 = n2  c1 = c1
  Absent = Absent  Empty = Empty  NoEvent = NoEvent

  Requests   = {r1, r2}
  Tenants    = {t1, t2}
  Providers  = {whatsapp, hubspot}
  Names      = {n1, n2}
  Contents   = {c1}
  Deliveries <- DistinctDeliveries
  Sanitized  <- PlainNames
  MaxFaults  = 1

INVARIANT
  RetryReachesQueue
