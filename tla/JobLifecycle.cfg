SPECIFICATION Spec

CONSTANTS
  j1 = j1  j2 = j2  j3 = j3  w1 = w1  w2 = w2
  NoWorker = NoWorker  NoJob = NoJob

  Jobs        = {j1, j2, j3}
  Keyless     = {j2, j3}
  Workers     = {w1, w2}
  MaxAttempts = 2
  MaxStalled  = 0
  MaxAdds     = 2
  MaxFaults   = 1

SYMMETRY Symmetry

INVARIANTS
  TypeOK
  FinalClaimsAreTrue
  AttemptsNeverAhead
  OrderedUpdatesSettle

PROPERTY
  FinalOnlyLostToLateUpdate
