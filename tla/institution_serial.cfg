SPECIFICATION Spec
CONSTANTS
  Caller = {c1, c2}
  g1 = g1
  g2 = g2
  g3 = g3
  b1 = b1
  b2 = b2
  s1 = s1
  Goal = {g1, g2, g3}
  Budget = {b1, b2}
  NoBudget = NoBudget
  ConditionId = {s1}
  Field <- MCFields
  Requests <- MCRequests
  Settlements <- MCSettlements
  Conditions <- MCConditions
  Limits = {1, 3}
  Serialized = TRUE
  MaxCalls = 3
SYMMETRY Alike
INVARIANTS
  LedgerInv
  BooksBalance
  WorkIsFunded
  AnswersHold
PROPERTY
  FundsAtomically
CHECK_DEADLOCK FALSE
