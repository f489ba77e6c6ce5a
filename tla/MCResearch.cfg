SPECIFICATION MCSpec
CONSTANTS
  e1 = e1
  e2 = e2
  e3 = e3
  k1 = k1
  None = None
  Execution = {e1, e2, e3}
  Key = {k1}
  KeyOf <- MCKeyOf
  Ttl = 2
  MaxTime = 4
  r1 = r1
  r2 = r2
  l1 = l1
  l2 = l2
  Run = {r1, r2}
  Lead = {l1, l2}
  Story <- MCStory
  Listing = {l2}
  Nil = Nil
  PrefilterBatch = 2
  FetchBatch = 2
  MaxFetches = 2
  DailyBudget = 2
  MaxPromotions = 1
  MaxStepRetries = 1
  MaxFetchRetries = 1
  MaxSnapshots = 2
  MaxFailures = 1
  MaxCrashes = 1
  MaxCommands = 2
  MaxDays = 1
  MaxOverlaps = 1
  p1 = p1
  p2 = p2
  w1 = w1
  f1 = f1
  f2 = f2
  MaxRuns = 3
  Idea = {1, 2, 3}
  Finds <- MCFinds
  Page = {p1, p2, w1}
  Web = {w1}
  Cites <- MCCites
  Finalizer = {f1, f2}
  Nothing = Nothing
  MaxPromoted = 2
  MaxChecks = 2
  MaxMissionCommands = 1
  MaxMissionDecisions = 2
  MaxMissionCrashes = 1
  MaxMissionFailures = 1
INVARIANTS TypeOK MutualExclusion IntakeTypeOK OneLiveRun BudgetPerSource FetchedStays StoryLostOnlyByRace MissionTypeOK DroppedForCause
PROPERTIES OnlyHolderReleases CrashNeverPins RunSettles FetchedIsJudged MissionSettles
CHECK_DEADLOCK FALSE
