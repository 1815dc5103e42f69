SPECIFICATION Spec
CONSTANTS
  c1 = c1
  c2 = c2
  fsp = fsp
  k1 = k1
  k2 = k2
  Malformed = Malformed
  None = None
  Conns <- MCConns
  Dialled <- MCDialled
  Fds = {1, 2}
  Uuids = {fsp}
  Keys = {k1, k2}
  Devices <- MCDevices
  Supported = {0, 1}
  Lists <- MCLists
  MaxRequests = 1
INVARIANTS
  OnlyTrusted
  NothingLost
  NobodyForgotten
  KnownNeverRefused
PROPERTIES
  RequestsReachApplication
CHECK_DEADLOCK FALSE
