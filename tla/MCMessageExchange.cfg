CONSTANTS
  MaxId = 2
  Final = {"STATUS_OK", "FILE_NOT_FOUND"}
  Limit = 5
  Requests <- MCRequests
SPECIFICATION ExchangeSpec
INVARIANTS ReplyMeetsItsRequest HeldRequestKept
PROPERTIES KeepsPromise
CHECK_DEADLOCK FALSE
