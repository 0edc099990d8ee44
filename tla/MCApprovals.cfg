CONSTANTS
  owner = owner
  manager = manager
  colleague = colleague
  employee = employee
  Users <- MCUsers
  CanAct <- MCUsers
  RankOf <- MCRanks
  BranchesOf <- MCBranches
  MaxLevels = 3
  MaxPerLevel = 3
  Requests = {r1}
  Handlers = {h1, h2}
SYMMETRY MCSymmetry
SPECIFICATION Spec
INVARIANTS
  TypeOK
  SomebodyCanAct
  ApprovedHasQuorum
  FinalIsClosed
PROPERTIES
  HistoryStands
  ImplementsLifecycle
