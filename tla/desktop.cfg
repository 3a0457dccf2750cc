SPECIFICATION FairSpec
CONSTANTS
  Viewer = {v1, v2}
  Call = {c1, c2}
  NoCall = NoCall
  Unlimited = Unlimited
  Budgets <- Few
INVARIANT RunsItsDaemon
INVARIANT ResetIsWhole
INVARIANT PauseIsTheUsers
INVARIANT StalePreviewNeverSaved
INVARIANT NobodyWaitsForCancelled
PROPERTY ServiceGoesOn
PROPERTY ViewersAnswered
CHECK_DEADLOCK FALSE
