SPECIFICATION MCSpec
CONSTANTS
  w1 = w1
  e1 = e1
  q1 = q1
  i1 = i1
  i2 = i2
  a1 = a1
  body1 = body1
  need1 = need1
  Writer = {w1}
  Editor = {e1}
  QaRun = {q1}
  Image = {i1, i2}
  Sweep = {a1}
  Body = {body1}
  Need = {need1}
  MaxRetries = 1
  Budget = 6
  MaxRetry = 1
  MaxVersions = 3
  MaxCommands = 3
  MaxFailures = 3
  MaxCrashes = 1
INVARIANTS TypeOK HumanSeesReviewedWork OneAttemptPerIdentity BudgetOvershootIsConcurrency ReworkIsBounded
PROPERTIES WriterAnswersTheRework AutopilotReachesHuman
CHECK_DEADLOCK FALSE
