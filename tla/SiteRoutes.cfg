SPECIFICATION Spec
CONSTANTS
  Names = {a, b}
  Dotted = {}
  Unlistable = {}
  Roots = {r1, r2}
  Capital <- MCCapital
  CaseBlind = TRUE
  Tlds = {test, dev}
  DefaultTld = test
  Pools = {p1, p2}
  DefaultPool = p1
  Clients = {c1}
  None = None
  Specs <- MCSpecs
  MaxChanges = 3
  Requests = {"park", "link", "spec", "import", "pool", "secure", "runtime", "tld", "proxy", "hosts", "reload"}
  Faults = {"save", "spawn", "dirs", "daemon"}
INVARIANT RoutesCurrent
INVARIANT BackendsRouted
INVARIANT HostsCover
INVARIANT FailsOnlyIfMoved
SYMMETRY NameSymmetry
CHECK_DEADLOCK FALSE
