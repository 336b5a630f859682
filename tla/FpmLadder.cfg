SPECIFICATION FairSpec
CONSTANTS
  Keys = {k1, k2}
  Sites = {s1}
  Ports = {p1, p2, p3}
  Ides = {i1}
  None = None
  MaxFailures = 2
  Requests = {"site", "restart"}
  Faults = {}
  Recycle = FALSE
INVARIANT GaveUpEarned
PROPERTY Recovers
