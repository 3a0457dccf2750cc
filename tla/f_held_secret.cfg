SPECIFICATION Spec
CONSTANTS
  m1 = m1
  m2 = m2
  Machine = {m1, m2}
  Path = {1}
  Field = {f1}
  Value = {blank, x, y}
  Blank = blank
  None = none
  Strategy <- OneStructured
  FirstMode <- AllMerge
  PushRetries = 2
  Limit <- LocalTrouble
SYMMETRY FullSymmetry
INVARIANT BlockedAlwaysLeaves
