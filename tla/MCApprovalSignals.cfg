CONSTANTS
  owner = owner
  manager = manager
  colleague = colleague
  employee = employee
  Users <- MCUsers
  Supers <- MCSupers
  CanAct <- MCCanAct
  RankOf <- MCRanks
  BranchesOf <- MCBranches
  MaxLevels = 2
  MaxPerLevel = 2
  Requests = {r1}
  Handlers = {h1, h2}
SYMMETRY MCSymmetry
SPECIFICATION SigSpec
INVARIANTS
  NobodyToldEarly
  ShownIsTrue
