SPECIFICATION Spec
CONSTANTS
  MaxKeys = 2
  Keys = {1, 2, 3, 4, 5, 6}
  Budgets = {0, 1, 2, 9}
CHECK_DEADLOCK FALSE
INVARIANTS
  FailedInsertKeepsIndex
