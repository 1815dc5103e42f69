CONSTANTS
  Packets = 2
  LastIsShort = TRUE
  Versions = {0}
  OpenFails = FALSE
  Burst = 2
  Slots = 4
  Modes = {"push", "pull"}
  Crashes = TRUE
  Attempts = 2
  MaxBatch = 2
SPECIFICATION Spec
INVARIANTS UpToDateIsTrue
CHECK_DEADLOCK FALSE
