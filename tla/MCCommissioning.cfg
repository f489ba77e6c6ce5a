SPECIFICATION MCSpec
CONSTANTS
  s1 = s1
  i1 = i1
  p1 = p1
  p2 = p2
  n1 = n1
  n2 = n2
  b1 = b1
  a1 = a1
  ScoreTask = {s1}
  IdeaTask = {i1}
  PackTask = {p1, p2}
  IntentTask = {n1, n2}
  BriefTask = {b1}
  Sweep = {a1}
  MaxRetries = 1
  MaxRetry = 1
  MaxVersions = 2
  MaxCommands = 3
  MaxFailures = 1
  MaxCrashes = 1
INVARIANTS TypeOK DraftingRestsOnItsBrief
PROPERTIES OneDispositionWins AcceptedBriefStays AutopilotCommissions
CHECK_DEADLOCK FALSE
