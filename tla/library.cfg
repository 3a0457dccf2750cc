SPECIFICATION Spec
CONSTANTS
  File = {main, other, temp1, temp2}
  Main = main
  Temp = {temp1, temp2}
  Unlimited = Unlimited
  Budgets <- Few
SYMMETRY Names
INVARIANT UntouchedIsRecoverable
PROPERTY RestoreIsExact
PROPERTY OnlyReviewedReplaced
CHECK_DEADLOCK FALSE
