SPECIFICATION Spec
CONSTANTS
  Absent = Absent
  MaxPairs = 3
  MaxVersion = 2
  MaxRemovals = 1
INVARIANTS
  UpMeansWholePair
  StartsAgain
PROPERTIES
  KeyKept
  ConfigKept
CHECK_DEADLOCK FALSE
