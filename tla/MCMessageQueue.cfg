CONSTANTS
  MaxId = 3
  Final = {"STATUS_OK", "FILE_NOT_FOUND"}
  Requests = {r1, r2}
SPECIFICATION Spec
INVARIANTS TypeOK SlotAccounting SearchEnds
PROPERTY OpenKept
CHECK_DEADLOCK FALSE
