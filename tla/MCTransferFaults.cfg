CONSTANTS
  Packets = 6
  LastIsShort = TRUE
  Versions = {0, 1}
  OpenFails = TRUE
  Burst = 3
  Slots = 3
  Modes = {"push", "pull"}
  Crashes = TRUE
  Attempts = 2
  MaxBatch = 3
SPECIFICATION Spec
INVARIANTS DestinationWhole SlotForNextPacket  NothingSkipped
PROPERTY OkMeansStored
CHECK_DEADLOCK FALSE
