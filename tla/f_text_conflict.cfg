SPECIFICATION Spec
CONSTANTS
  m1 = m1
  m2 = m2
  Machine = {m1, m2}
  Path = {1}
  Field = {f1, f2}
  Value = {blank, x, y}
  Blank = blank
  None = none
  Strategy <- OneText
  FirstMode <- AllMerge
  PushRetries = 2
  Limit <- MoreEdits
SYMMETRY FullSymmetry
PROPERTY EveryConflictOpened
