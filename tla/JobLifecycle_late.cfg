SPECIFICATION Spec

CONSTANTS
  j1 = j1  j2 = j2  j3 = j3  w1 = w1  w2 = w2
  NoWorker = NoWorker  NoJob = NoJob

  Jobs        = {j1}
  Keyless     = {}
  Workers     = {w1}
  MaxAttempts = 1
  MaxStalled  = 1
  MaxAdds     = 1
  MaxFaults   = 0

INVARIANT
  EndedJobsAreRecorded
