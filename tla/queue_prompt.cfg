SPECIFICATION Spec
CONSTANTS
  k1 = k1
  k2 = k2
  job = job
  NoKey = NoKey
  NoWorker = NoWorker
  Key = {k1, k2}
  Work = {job}
  Worker = {w1, w2}
  Envelopes <- TwoItems
  Limits = {2}
  Delays = {1}
  LeaseTime = 2
  ClaimDelay = 1
  PromptCalls = TRUE
  MaxTime = 0
SYMMETRY Workers
INVARIANTS
  QInv
  ExclusiveLeases
  SequenceGapless
  AttemptsWithinLimit
PROPERTIES
  ActsAtomically
CHECK_DEADLOCK FALSE
