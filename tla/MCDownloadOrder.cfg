CONSTANTS
  Packets = 4
  LastIsShort = FALSE
  Versions = {0}
  OpenFails = TRUE
SPECIFICATION AloneSpec
INVARIANTS InOrderStores
PROPERTY ClosedMeansStored
CHECK_DEADLOCK FALSE
