SPECIFICATION Spec
CONSTANTS
  Caller = {c1}
  g1 = g1
  g2 = g2
  g3 = g3
  b1 = b1
  b2 = b2
  s1 = s1
  Goal = {g1, g2, g3}
  Budget = {b1}
  NoBudget = NoBudget
  ConditionId = {s1}
  Field <- MCFields
  Requests <- RepeatRequests
  Settlements = {}
  Conditions <- MCConditions
  Limits = {3}
  Serialized = TRUE
  MaxCalls = 2
INVARIANT
  ApprovalCovers
CHECK_DEADLOCK FALSE
