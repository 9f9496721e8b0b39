SPECIFICATION Spec
CONSTANTS
  k1 = k1
  k2 = k2
  job = job
  NoKey = NoKey
  NoWorker = NoWorker
  Key = {k1, k2}
  Work = {job}
  Worker = {w1, w2}
  Envelopes <- OneItem
  Limits = {2}
  Delays = {0}
  LeaseTime = 2
  ClaimDelay = 0
  PromptCalls = FALSE
  MaxTime = 0
INVARIANT
  ExclusiveLeases
CHECK_DEADLOCK FALSE
