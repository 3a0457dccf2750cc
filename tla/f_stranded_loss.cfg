SPECIFICATION Spec
CONSTANTS
  m1 = m1
  m2 = m2
  Machine = {m1}
  Path = {1, 2}
  Field = {f1}
  Value = {blank, x}
  Blank = blank
  None = none
  Strategy <- TwoBinary
  FirstMode <- AllMerge
  PushRetries = 2
  Limit <- OftenOffline
PROPERTY NetworkFailuresPreserve
