SPECIFICATION FairSpec
CONSTANTS
  Runner = {r1}
  Capability <- MCCapability
  Plans <- MCPlans
  MaxRevisions = 1
  HighRisk = TRUE
  Registry0 <- Understaffed
  Offers <- Hire
  MaxCandidates = 10
  MaxCalls = 2
  MaxCrashes = 1
INVARIANTS
  OutcomeBacked
  SecondCopyNeedsCrash
PROPERTIES
  CallsShrink
  CanonicalTaskStays
  WorkOnlyWhileRunning
  ReturnSettlesGoal
  EveryCallReturns
CHECK_DEADLOCK FALSE
