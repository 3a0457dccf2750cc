SPECIFICATION FairSpec
CONSTANTS
  m1 = m1
  m2 = m2
  Machine = {m1, m2}
  Path = {1}
  Field = {f1}
  Value = {blank, x}
  Blank = blank
  None = none
  Strategy <- OneBinary
  FirstMode <- LocalThenCloud
  PushRetries = 4
  Limit <- MoreEdits
INVARIANT NoConflictLost
PROPERTY Converges
PROPERTY ConflictedFileStays
PROPERTY UseCloudTrustsCloud
