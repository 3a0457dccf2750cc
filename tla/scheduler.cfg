SPECIFICATION FairSpec
CONSTANTS
  Caller = {u1, u2}
  Interval = {0, 2}
  Default = 1
  MaxTime = 3
INVARIANT TypeOK
INVARIANT NextRunZero
INVARIANT HeldMeansQuiet
INVARIANT Armed
INVARIANT NoTriggerOutlives
PROPERTY TriggerServed
PROPERTY ImplementsControl
