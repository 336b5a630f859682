SPECIFICATION FairSpec
CONSTANTS
  Sites = {s1}
  Scripts = {dev, watch}
  Labels = {label}
  None = None
  MaxFailures = 3
  Requests = {"dev", "share", "link", "unlink", "spec", "restart", "pass", "reload", "repair"}
  Faults = {"exit", "spawn", "save", "daemon"}
INVARIANT FollowsConfig
PROPERTY Climbs
PROPERTY Recovers
