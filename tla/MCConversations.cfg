CONSTANTS
  ann = ann
  bob = bob
  c1 = c1
  c2 = c2
  People = {ann, bob}
  Services = {erp}
  ClientIds = {d1}
  Handlers = {h1, h2}
  MaxMsgs = 2
  MaxAsks = 3
  MaxFaults = 1
  MaxViews = 4
  Team = {ann, bob, cat}
  Creator = ann
  Supers = {}
  Adders = {bob}
  Editors = {}
  Renamers = {bob}
  Connected = {ann}
  LastInstant = 4
  Interval = 2
  Owners = {ann, bob}
  Sendings = {post}
  LastHour = 2
SPECIFICATION ConversationsSpec
SYMMETRY Symmetry
INVARIANTS
  MessagesHold
  TicksHold
  DeletedIsGone
  GroupsHold
  CallsHold
  PresenceHolds
  StoriesHold
  OldBackEndHolds
PROPERTIES
  AppearsOnlyToPeers
  NeverRevived
CHECK_DEADLOCK FALSE
