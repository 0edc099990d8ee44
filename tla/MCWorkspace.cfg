CONSTANTS
  Requests = {h1, h2}
  Staff = {"ann"}
  BranchIds = {"bom", "hnbo"}
  CodeOf <- MCCodeOf
  Alias <- MCAlias
  Channels = {"nbo_erp", "nbo_crm", "kgd"}
  ChannelBranch <- MCChannelBranch
  BranchWide = {"nbo_crm"}
  CompanyWide = {"kgd"}
  Granting = {h3}
  Pushes = {h3}
  Postings = {{"hnbo"}}
  Lists = {{}, {"nbo_erp", "nbo_crm", "kgd"}}
  MaxGrants = 1
  Attempts = {h1, h2, h3}
  Keys = {"k1"}
  Rooms = {o1, o2}
  MaxOutages = 1
  MaxTokens = 3
  LastTick = 2
  Life = 2
  Grace = 1
  MaxSwitches = 1
  Mails = {"m1", "m2"}
  Wanted = {"m1"}
  Top = 1
  LastMinute = 2
  Folders = {"f1"}
  Authors = {"s1", "s2"}
  MaxRules = 2
  Employees = {"bob"}
  Wide = {}
  Companies = {"c1", "c2"}
  BranchRows = {"b1", "b2"}
  Names = {"kbiz", "trav"}
  BranchCodes = {"KBIZ", "BOM"}
  Kbiz = "kbiz"
  KbizCode = "KBIZ"
  MaxProvisions = 3
  Owners = {"u", "v"}
  Callee = "u"
  Phones = {"droid", "kit", "old"}
  Ios = {"kit", "old"}
  CallKit = {"kit"}
  Unnamed = {}
  MaxChanges = 1
SPECIFICATION WorkspaceSpec
SYMMETRY Symmetry
INVARIANTS
  AlertsHold
  PushHolds
  SessionsHold
  MailboxHolds
  DirectoryHolds
CHECK_DEADLOCK FALSE
