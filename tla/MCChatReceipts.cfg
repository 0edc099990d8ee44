CONSTANTS
  People = {ann, bob}
  Direct = direct
  Group = group
  Requests = {h1}
  MaxTime = 1
  MaxAsks = 3
SPECIFICATION SettingsSpec
INVARIANT ReceiptsOffSendsNone
CHECK_DEADLOCK FALSE
