SPECIFICATION Spec
CONSTANTS
  m1 = m1
  m2 = m2
  Machine = {m1, m2}
  Plugin = {1}
  MaxVersion = 2
  Budgets <- Few
SYMMETRY MachineSymmetry
INVARIANT ReviewedOnly
INVARIANT UnfinishedStaysPending
PROPERTY NewcomerTakesNothing
