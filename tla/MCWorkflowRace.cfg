SPECIFICATION Spec
CONSTANTS
  s1 = s1
  s2 = s2
  r1 = r1
  r2 = r2
  Session = {s1, s2}
  Reason = {r1, r2}
  HeldRequests <- MCHeldRequests
  Past <- MCPast
  MaxNewEvents = 2
SYMMETRY MCSymmetry
INVARIANT NoImpossibleHistory
CHECK_DEADLOCK FALSE
