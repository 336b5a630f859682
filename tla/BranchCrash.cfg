SPECIFICATION Spec
CONSTANTS
  Sites = {s1}
  Bases = {app}
  Branches = {main, feat}
  Unusable = {}
  Ports = {5432}
  DefaultPort = 5432
  Clients = {c1}
  Watcher = watcher
  Writes = {w1, w2}
  None = None
  Attached <- MCAttached
  Trunk = main
  Requests = {}
  Faults = {"crash"}
INVARIANT DroppedCopyIsStale
