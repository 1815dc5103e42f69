SPECIFICATION Spec
CONSTANTS
  a = a
  fspa = fspa
  Undefined = Undefined
  Names = {a, fspa}
  Hosts <- MCHosts
  Forbidden <- MCForbidden
  AfterRoot <- MCAfterRoot
  MaxDepth = 2
  MaxNodes = 2
  MaxCounts = {1, 2}
INVARIANTS
  NodeShape
  ServedIsShared
  AnnouncedIsFound
  ListingWhole
PROPERTIES
  ListingEnds
CHECK_DEADLOCK FALSE
