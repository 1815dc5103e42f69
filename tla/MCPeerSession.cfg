CONSTANTS
  a = a
  b = b
  f = f
  g = g
  h = h
  Peers = {a, b}
  Files = {f, g, h}
  Visible = {f, g}
  MaxId = 5
  Packets = 2
  Pages = 2
  Burst = 2
  Scripts <- Ordinary
  MaxBatch = 2
  Requests <- MCRequests
  Final = {"STATUS_OK", "UP_TO_DATE", "FILE_NOT_FOUND", "INVALID_REQUEST_ID", "FORBIDDEN"}
SPECIFICATION Spec
INVARIANTS SlotsAccounted NoException NobodyLeftWaiting OwnRequestSettled UnaskedOnlyInReply
PROPERTIES CallsReturn
CHECK_DEADLOCK FALSE
