SPECIFICATION Spec
CONSTANTS
  Sites = {s1}
  Runtimes = {r1}
  Groups = {g1, g2, g3, g4}
  None = None
  MaxFailures = 3
  MaxEdits = 1
  Requests = {"runtime", "watch", "reload", "restart", "repair", "reconcile"}
  Faults = {"exit", "launcher", "reload", "spawn", "save", "daemon"}
  EarlyEdits = TRUE
  LateCrash = TRUE
SYMMETRY OctaneSymmetry
INVARIANT LadderExact
