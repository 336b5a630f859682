SPECIFICATION FairSpec
CONSTANTS
  Sites = {s1}
  Bases = {app}
  Branches = {main, feat}
  Unusable = {}
  Ports = {5432}
  DefaultPort = 5432
  Clients = {c1}
  Watcher = watcher
  Writes = {w1, w2}
  None = None
  Attached <- MCAttached
  Trunk = main
  Requests = {"switch"}
  Faults = {"session", "outage"}
INVARIANTS NoWriteLost OneCopyOfLive
PROPERTY KeepsEveryBranch
PROPERTY WatcherSettles
