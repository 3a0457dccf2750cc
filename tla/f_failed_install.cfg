SPECIFICATION Spec
CONSTANTS
  m1 = m1
  m2 = m2
  Machine = {m1, m2}
  Plugin = {1}
  MaxVersion = 1
  Budgets <- OneFailure
SYMMETRY MachineSymmetry
INVARIANT FailedRemains
