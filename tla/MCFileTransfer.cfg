CONSTANTS
  Packets = 7
  LastIsShort = FALSE
  Versions = {0}
  OpenFails = FALSE
  Burst = 3
  Slots = 8
  Modes = {"push", "pull"}
  Crashes = FALSE
  Attempts = 2
  MaxBatch = 4
SPECIFICATION Spec
INVARIANTS NoOrphanedTemp
PROPERTIES Delivered  UploadReleased
CHECK_DEADLOCK FALSE
