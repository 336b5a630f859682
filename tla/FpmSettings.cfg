SPECIFICATION Spec
CONSTANTS
  Keys = {k1, k2}
  Sites = {s1}
  Ports = {p1, p2, p3}
  Ides = {i1, i2}
  None = None
  MaxFailures = 2
  Requests = {"sites", "ide", "reload"}
  Faults = {"spawn", "save", "daemon"}
  Recycle = FALSE
SYMMETRY PortSiteSymmetry
INVARIANT SettingsCurrent
INVARIANT CachedIsOwn
