SPECIFICATION Spec
CONSTANTS
  Conflict = {1, 2, 3}
  Path = {"a", "b"}
  PathOf <- TwoOnOne
  Choice = {"local"}
  Initial <- OneMissing
  Limit <- TwoAnswers
INVARIANT TypeOK
INVARIANT RollbackRestores
INVARIANT ViewBehindApplying
PROPERTY AnswersSurvive
PROPERTY NoBundleDropped
