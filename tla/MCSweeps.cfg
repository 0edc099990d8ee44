CONSTANTS
  Rows = {r1, r2}
  MaxTime = 2
  Limit = 1
  Sweeps = {s1, s2}
  MaxFaults = 1
  People = {"ann", "bob"}
  Managers = {"bob"}
  Slots = {m1}
  Asks = {a1, a2}
  MaxAsks = 3
  MaxId = 2
  MaxStamp = 2
  MaxEdits = 2
  Writers = {w1, w2}
  Limits = {0, 1, 2}
  Cap = 1
SPECIFICATION SweepsSpec
INVARIANTS
  ToldOnceUnlessDisturbed
  CursorLeavesNobody
  FeedSkipsNothingUnlessLate
  RemindersHold
PROPERTIES
  EverybodyHears
  FeedCatchesUp
  DueIsNoticed
CHECK_DEADLOCK FALSE
