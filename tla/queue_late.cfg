SPECIFICATION FairSpec
CONSTANTS
  k1 = k1
  k2 = k2
  job = job
  NoKey = NoKey
  NoWorker = NoWorker
  Key = {k1, k2}
  Work = {job}
  Worker = {w1, w2}
  Envelopes <- OneItem
  Limits = {2}
  Delays = {0, 1}
  LeaseTime = 2
  ClaimDelay = 1
  PromptCalls = FALSE
  MaxTime = 1
INVARIANTS
  AuditTrail
  OverrunBounded
PROPERTIES
  SettlesForGood
CHECK_DEADLOCK FALSE
