SPECIFICATION Spec
CONSTANTS
  Caller = {c1, c2}
  g1 = g1
  g2 = g2
  g3 = g3
  b1 = b1
  b2 = b2
  s1 = s1
  Goal = {g1, g2, g3}
  Budget = {b1}
  NoBudget = NoBudget
  ConditionId = {s1}
  Field <- MCFields
  Requests <- RivalRequests
  Settlements = {}
  Conditions <- MCConditions
  Limits = {3}
  Serialized = FALSE
  MaxCalls = 2
INVARIANT
  WithinLimit
CHECK_DEADLOCK FALSE
