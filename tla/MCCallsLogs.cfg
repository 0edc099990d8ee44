CONSTANTS
  Users = {alice, bob}
  Calls = {c1}
  Handlers = {h1, h2}
  MaxFaults = 0
SPECIFICATION Spec
CHECK_DEADLOCK FALSE
INVARIANT AtMostOneLog
