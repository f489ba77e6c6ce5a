SPECIFICATION FairSpec
CONSTANTS
  c1 = c1
  c2 = c2
  p1 = p1
  p2 = p2
  h1 = h1
  h2 = h2
  d1 = d1
  d2 = d2
  Content = {c1, c2}
  PackageHash = {p1, p2}
  HashOf <- DistinctPayloads
  QaRun = {q1}
  Reviewer = {h1}
  Operator = {o1}
  Delivery = {d1}
  MaxRetries = 1
  MaxDrafts = 1
  MaxDecisions = 2
  MaxEnqueued = 2
  MaxCrashes = 2
CHECK_DEADLOCK FALSE
INVARIANTS
  OneSuccess
  BlockedWasNotPublished
PROPERTY DispatchSettles
