SPECIFICATION Spec

CONSTANTS
  m1 = m1  m2 = m2  w1 = w1  w2 = w2  t1 = t1
  NoWorker = NoWorker  NoMessage = NoMessage  Nothing = Nothing

  Messages    = {m1}
  Workers     = {w1}
  Tenants     = {t1}
  Inputs     <- OneOrder
  Chosen     <- NoProfile
  Offered    <- NoProfile
  MaxAttempts = 4
  MaxStalled  = 1
  MaxFaults   = 0
  MaxUpdates  = 0
  CountersTaken <- CodeCounters

INVARIANT RequestedOrderIsMade
