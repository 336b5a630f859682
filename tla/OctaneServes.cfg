SPECIFICATION FairSpec
CONSTANTS
  Sites = {s1}
  Runtimes = {r1, r2}
  Groups = {g1, g2, g3, g4}
  None = None
  MaxFailures = 2
  MaxEdits = 2
  Requests = {"runtime", "repair", "reconcile"}
  Faults = {"exit", "reload", "spawn", "daemon"}
  EarlyEdits = FALSE
  LateCrash = FALSE
INVARIANT NoStray
PROPERTY Fresh
PROPERTY Recovers
