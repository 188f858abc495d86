SPECIFICATION Spec
CONSTANTS
  None = None
  MaxTransactions = 2
  MaxActions = 7
INVARIANT
  AsExecuted
PROPERTY
  OnlyMisnamedThrow
CHECK_DEADLOCK FALSE
