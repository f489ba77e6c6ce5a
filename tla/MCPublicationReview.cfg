SPECIFICATION Spec
CONSTANTS
  c1 = c1
  c2 = c2
  p1 = p1
  p2 = p2
  h1 = h1
  h2 = h2
  d1 = d1
  d2 = d2
  Content = {c1, c2}
  PackageHash = {p1, p2}
  HashOf <- DistinctPayloads
  QaRun = {q1}
  Reviewer = {h1, h2}
  Operator = {o1}
  Delivery = {d1}
  MaxRetries = 0
  MaxDrafts = 2
  MaxDecisions = 3
  MaxEnqueued = 1
  MaxCrashes = 0
CHECK_DEADLOCK FALSE
SYMMETRY MCSymmetry
INVARIANTS
  OnlyApprovedContent
  ReviewCanBeDecided
PROPERTY RevokedApprovalStartsNothing
