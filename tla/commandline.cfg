SPECIFICATION FairSpec
CONSTANTS
  c1 = c1
  c2 = c2
  Invocation = {c1, c2}
  Runner = {c1}
  Args <- MCArgs
  Limits = {1, 3}
  AgentIds = {1, 2, 3, 4}
  HighRisk = FALSE
  Capability <- MCCapability
  NoBudget = NoBudget
INVARIANTS
  CInv
  FlaggedNeverStarts
  StaffedOrCutShort
  ExitTellsTheTruth
  FundsFollowWork
PROPERTIES
  EveryInvocationEnds
  ImplementsParts
CHECK_DEADLOCK FALSE
