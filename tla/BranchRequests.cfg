SPECIFICATION Spec
CONSTANTS
  Sites = {s1}
  Bases = {app}
  Branches = {main, feat}
  Unusable = {}
  Ports = {5432}
  DefaultPort = 5432
  Clients = {c1, c2}
  Watcher = watcher
  Writes = {w1}
  None = None
  Attached <- MCAttached
  Trunk = main
  Requests = {"switch", "attach", "detach", "drop-branch", "link", "unlink", "spec"}
  Faults = {"crash", "savefail"}
INVARIANT OpsExact
PROPERTY BaseParkedNotDropped
SYMMETRY ClientSymmetry
