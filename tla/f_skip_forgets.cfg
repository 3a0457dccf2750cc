SPECIFICATION Spec
CONSTANTS
  m1 = m1
  m2 = m2
  Machine = {m1, m2}
  Path = {1}
  Field = {f1}
  Value = {blank, x}
  Blank = blank
  None = none
  Strategy <- OneBinary
  FirstMode <- AllMerge
  PushRetries = 2
  Limit <- SkipAndReturn
PROPERTY NoResurrection
