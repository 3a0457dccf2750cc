SPECIFICATION Spec
CONSTANTS
  Caller = {u1}
  Interval = {0}
  Default = 1
  MaxTime = 1
INVARIANT PausedShows
