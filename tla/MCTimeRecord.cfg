CONSTANTS
  Days = {d1}
  Asks = {a1}
  Handlers = {h1}
SPECIFICATION Spec
INVARIANT RecordNeedsApproval
CHECK_DEADLOCK FALSE
