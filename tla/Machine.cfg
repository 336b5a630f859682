SPECIFICATION MachineSpec
CONSTANTS
  Daemons = {d1, d2, d3}
  None = None
  MaxCrashes = 3
  Stops = {"shutdown", "sigterm"}
  Overlap = FALSE
INVARIANTS OneOwner RaceOneOwner
PROPERTY BailsBeforeKilling
PROPERTY DaemonComesBack
PROPERTY FixesConverge
PROPERTY WorkersFreed
PROPERTY PauseEnds
PROPERTY RepairsConverge
CHECK_DEADLOCK FALSE
