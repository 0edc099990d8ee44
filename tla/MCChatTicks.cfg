CONSTANTS
  People = {ann, bob}
  Services = {erp}
  ClientIds = {c1}
  Handlers = {h1, h2}
  MaxMsgs = 1
  MaxAsks = 3
  MaxFaults = 0
SPECIFICATION Spec
PROPERTIES
  TicksOnlyRise
CHECK_DEADLOCK FALSE
