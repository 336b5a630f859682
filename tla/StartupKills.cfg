SPECIFICATION Spec
CONSTANTS
  Daemons = {d1, d2}
  None = None
  MaxCrashes = 0
  Stops = {}
  Overlap = TRUE
SYMMETRY DaemonSymmetry
PROPERTY BailsBeforeKilling
