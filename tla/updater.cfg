SPECIFICATION FairSpec
CONSTANTS
  Helper = {h1, h2}
  NoHelper = NoHelper
  Unlimited = Unlimited
  Budgets <- Few
INVARIANT FailedLaunchNeverInstalls
INVARIANT AcceptedRestartKeepsUpdate
PROPERTY HandoffsEnd
CHECK_DEADLOCK FALSE
