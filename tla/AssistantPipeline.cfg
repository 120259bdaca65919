SPECIFICATION FairSpec

CONSTANTS
  m1 = m1  m2 = m2  w1 = w1  w2 = w2  t1 = t1
  NoWorker = NoWorker  NoMessage = NoMessage  Nothing = Nothing

  Messages    = {m1}
  Workers     = {w1, w2}
  Tenants     = {t1}
  Inputs     <- EveryKind
  Chosen     <- OneRestricted
  Offered    <- NoProfile
  MaxAttempts = 2
  MaxStalled  = 1
  MaxFaults   = 2
  MaxUpdates  = 1
  CountersTaken <- EitherCounters

INVARIANTS
  TypeOK
  RepeatedEffectNeedsFault
  EffectsBounded
  RecordMatchesEffects
  ReplyIsCounted
  LostReplyExplained
  FailureExplained
  PolicyRespected
  CompletedMeansSettled

PROPERTIES
  ImplementsPromise
  ImplementsOutcome
  TaskEnds
