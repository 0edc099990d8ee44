----------------------------- MODULE Directory -----------------------------
(***************************************************************************)
(* Businesses, branches and who belongs to them, provisioned by super      *)
(* admins (src/src/mongo/directory.service.ts, crm.repo.ts, access.ts,     *)
(* userBusinessAccess.ts).                                                 *)
(*                                                                         *)
(* Every operation reads, checks and then writes, each call on its own;    *)
(* nothing but a unique index on the branch codes stands behind the        *)
(* checks.  A request may die between any two of its calls.                *)
(***************************************************************************)
EXTENDS Naturals, FiniteSets

CONSTANTS
  Users, Wide,          \* people, and those who see the whole company
  Companies, BranchRows, \* bounds: rows there may ever be
  Names, Codes,         \* names of businesses and codes of branches
  Kbiz, KbizCode,       \* the name and the code of KBiz360
  Requests, MaxAsks     \* bounds: requests at once, and in all

VARIABLES
  company,     \* the companies collection
  branch,      \* the branches collection
  users,       \* the users there are
  branchIds,   \* their branch_ids
  businesses,  \* their grants in user_business_access
  departments, \* branches with department rows
  req,         \* what each request is about to do
  asked,       \* bound: requests so far
  named,       \* history: names that two requests were giving at once
  crossed,     \* history: companies deleted while a branch was being made under them
  overtaken    \* history: users and department rows joined to a branch that was being deleted

dirVars == <<company, branch, users, branchIds, businesses, departments, req, asked, named, crossed, overtaken>>

None      == "none"
NoCompany == [pc |-> "none", name |-> None]
NoBranch  == [pc |-> "none", code |-> None, of |-> None]
Idle      == [pc |-> "idle", name |-> None, company |-> None, branch |-> None,
              users |-> {}, grants |-> {}, join |-> TRUE]

DirTypeOK ==
  /\ company \in [Companies -> [pc : {"none", "up", "gone"}, name : Names \cup {None}]]
  /\ branch \in [BranchRows -> [pc : {"none", "up", "gone"}, code : Codes \cup {None}, of : Companies \cup {None}]]
  /\ users \subseteq Users
  /\ branchIds \in [Users -> SUBSET BranchRows] /\ businesses \in [Users -> SUBSET Companies]
  /\ departments \subseteq BranchRows
  /\ DOMAIN req = Requests /\ asked \in 0..MaxAsks
  /\ named \subseteq Names /\ crossed \subseteq Companies
  /\ overtaken \subseteq (Users \cup {"department"}) \X BranchRows

\* KBiz360 is there, without a branch.
DirInit ==
  /\ \E k \in Companies : company = [c \in Companies |-> IF c = k THEN [pc |-> "up", name |-> Kbiz] ELSE NoCompany]
  /\ branch = [b \in BranchRows |-> NoBranch]
  /\ users = Users
  /\ branchIds = [u \in Users |-> {}] /\ businesses = [u \in Users |-> {}]
  /\ departments = {}
  /\ req = [r \in Requests |-> Idle]
  /\ asked = 0 /\ named = {} /\ crossed = {} /\ overtaken = {}

Up(c)          == company[c].pc = "up"
BranchesOf(c)  == {b \in BranchRows : branch[b].pc = "up" /\ branch[b].of = c}
CodeTaken(k)   == \E b \in BranchRows : branch[b].pc = "up" /\ branch[b].code = k
About(pc)      == {r \in Requests : req[r].pc \in pc}
Making(c)      == \E r \in About({"insertBranch", "provision"}) : req[r].company = c
Removing(c)    == \E r \in About({"dropCompany"}) : req[r].company = c

\* Past the pull, or deleted.
Leaving(b) == branch[b].pc # "up" \/ \E r \in About({"dropDepartments", "dropBranch"}) : req[r].branch = b

Ask(r, m) ==
  /\ req[r] = Idle /\ asked < MaxAsks
  /\ asked' = asked + 1
  /\ req' = [req EXCEPT ![r] = m]

Then(r, pc) == req' = [req EXCEPT ![r].pc = pc]
Answer(r)   == req' = [req EXCEPT ![r] = Idle]

\* $addToSet, on a user that is there.
addUserBranch(u, b) ==
  /\ branchIds' = IF u \in users THEN [branchIds EXCEPT ![u] = @ \cup {b}] ELSE branchIds
  /\ overtaken' = IF u \in users /\ Leaving(b) THEN overtaken \cup {<<u, b>>} ELSE overtaken

removeUserBranch(u, b) ==
  /\ branchIds' = [branchIds EXCEPT ![u] = @ \ {b}]
  /\ overtaken' = overtaken \ {<<u, b>>}

-----------------------------------------------------------------------------
(* Businesses. *)

createCompany(r, n) ==
  /\ ~ \E c \in Companies : Up(c) /\ company[c].name = n
  /\ Ask(r, [Idle EXCEPT !.pc = "insertCompany", !.name = n])
  /\ named' = IF \E q \in About({"insertCompany"}) : req[q].name = n THEN named \cup {n} ELSE named
  /\ UNCHANGED <<company, branch, users, branchIds, businesses, departments, crossed, overtaken>>

InsertCompany(r) ==
  /\ req[r].pc = "insertCompany"
  /\ \E c \in Companies :
       /\ company[c] = NoCompany
       /\ company' = [company EXCEPT ![c] = [pc |-> "up", name |-> req[r].name]]
  /\ Answer(r)
  /\ UNCHANGED <<branch, users, branchIds, businesses, departments, asked, named, crossed, overtaken>>

\* As deleteCompany, without asking for branches.
deleteCompanyUnchecked(r, c) ==
  /\ Up(c)
  /\ Ask(r, [Idle EXCEPT !.pc = "dropCompany", !.company = c])
  /\ UNCHANGED <<company, branch, users, branchIds, businesses, departments, named, crossed, overtaken>>

\* A business must be emptied of its branches first.
deleteCompany(r, c) ==
  /\ Up(c) /\ BranchesOf(c) = {}
  /\ Ask(r, [Idle EXCEPT !.pc = "dropCompany", !.company = c])
  /\ crossed' = IF Making(c) THEN crossed \cup {c} ELSE crossed
  /\ UNCHANGED <<company, branch, users, branchIds, businesses, departments, named, overtaken>>

DropCompany(r) ==
  /\ req[r].pc = "dropCompany"
  /\ company' = [company EXCEPT ![req[r].company].pc = "gone"]
  /\ Answer(r)
  /\ UNCHANGED <<branch, users, branchIds, businesses, departments, asked, named, crossed, overtaken>>

-----------------------------------------------------------------------------
(* Branches. *)

createBranch(r, c, k, members) ==
  /\ Up(c) /\ ~CodeTaken(k)
  /\ Ask(r, [Idle EXCEPT !.pc = "insertBranch", !.company = c, !.name = k, !.users = members])
  /\ crossed' = IF Removing(c) THEN crossed \cup {c} ELSE crossed
  /\ UNCHANGED <<company, branch, users, branchIds, businesses, departments, named, overtaken>>

\* The index refuses a code that was taken meanwhile; the members are listed after that.
InsertBranch(r) ==
  LET m == req[r]
  IN /\ m.pc = "insertBranch"
     /\ IF CodeTaken(m.name) THEN Answer(r) /\ UNCHANGED branch
        ELSE \E b \in BranchRows :
               /\ branch[b] = NoBranch
               /\ branch' = [branch EXCEPT ![b] = [pc |-> "up", code |-> m.name, of |-> m.company]]
               /\ req' = [req EXCEPT ![r].pc = "addMembers", ![r].branch = b, ![r].users = @ \cap users]
     /\ UNCHANGED <<company, users, branchIds, businesses, departments, asked, named, crossed, overtaken>>

\* One at a time.
AddMember(r) ==
  LET m == req[r]
  IN /\ m.pc = "addMembers"
     /\ IF m.users = {} THEN Answer(r) /\ UNCHANGED <<branchIds, overtaken>>
        ELSE \E u \in m.users : req' = [req EXCEPT ![r].users = @ \ {u}] /\ addUserBranch(u, m.branch)
     /\ UNCHANGED <<company, branch, users, businesses, departments, asked, named, crossed>>

deleteBranch(r, b) ==
  /\ branch[b].pc = "up"
  /\ Ask(r, [Idle EXCEPT !.pc = "pullUsers", !.branch = b])
  /\ UNCHANGED <<company, branch, users, branchIds, businesses, departments, named, crossed, overtaken>>

PullUsers(r) ==
  LET b == req[r].branch
  IN /\ req[r].pc = "pullUsers" /\ Then(r, "dropDepartments")
     /\ branchIds' = [u \in Users |-> branchIds[u] \ {b}]
     /\ overtaken' = {p \in overtaken : p[2] # b \/ p[1] \notin Users}
     /\ UNCHANGED <<company, branch, users, businesses, departments, asked, named, crossed>>

DropDepartments(r) ==
  LET b == req[r].branch
  IN /\ req[r].pc = "dropDepartments" /\ Then(r, "dropBranch")
     /\ departments' = departments \ {b}
     /\ overtaken' = overtaken \ {<<"department", b>>}
     /\ UNCHANGED <<company, branch, users, branchIds, businesses, asked, named, crossed>>

DropBranch(r) ==
  /\ req[r].pc = "dropBranch"
  /\ branch' = [branch EXCEPT ![req[r].branch].pc = "gone"]
  /\ Answer(r)
  /\ UNCHANGED <<company, users, branchIds, businesses, departments, asked, named, crossed, overtaken>>

-----------------------------------------------------------------------------
(* People. *)

\* What the form sends is not looked up: a branch in it may be gone by now.
updateUser(r, u, bs, cs) ==
  /\ u \in users
  /\ \A b \in bs : branch[b].pc # "none"
  /\ \A c \in cs : company[c].pc # "none"
  /\ Ask(r, [Idle EXCEPT !.pc = "setBusinesses", !.users = {u}, !.grants = cs])
  /\ branchIds' = [branchIds EXCEPT ![u] = bs]
  /\ overtaken' = {p \in overtaken : p[1] # u} \cup {<<u, b>> : b \in {x \in bs : Leaving(x)}}
  /\ UNCHANGED <<company, branch, users, businesses, departments, named, crossed>>

setBusinesses(r) ==
  /\ req[r].pc = "setBusinesses"
  /\ businesses' = [u \in Users |-> IF u \in req[r].users THEN req[r].grants ELSE businesses[u]]
  /\ Answer(r)
  /\ UNCHANGED <<company, branch, users, branchIds, departments, asked, named, crossed, overtaken>>

\* The row of the CRM goes; what the app keeps of the person stays.
deleteUser(u) ==
  /\ u \in users
  /\ users' = users \ {u}
  /\ branchIds' = [branchIds EXCEPT ![u] = {}]
  /\ overtaken' = {p \in overtaken : p[1] # u}
  /\ UNCHANGED <<company, branch, businesses, departments, req, asked, named, crossed>>

\* The CRM gives a branch a department.
AddDepartment(b) ==
  /\ branch[b].pc = "up" /\ b \notin departments
  /\ departments' = departments \cup {b}
  /\ overtaken' = IF Leaving(b) THEN overtaken \cup {<<"department", b>>} ELSE overtaken
  /\ UNCHANGED <<company, branch, users, branchIds, businesses, req, asked, named, crossed>>

-----------------------------------------------------------------------------
(* The one branch of KBiz360 is adopted, or made when it is first asked for. *)

ensureKbizBom(r, c, u, join) ==
  LET coded == {b \in BranchesOf(c) : branch[b].code = KbizCode}
      found == IF coded # {} THEN coded ELSE BranchesOf(c)
  IN /\ Up(c) /\ company[c].name = Kbiz
     /\ IF found = {}
        THEN /\ Ask(r, [Idle EXCEPT !.pc = "provision", !.company = c, !.users = {u}, !.join = join])
             /\ crossed' = IF Removing(c) THEN crossed \cup {c} ELSE crossed
        ELSE /\ \E b \in found :
                  Ask(r, [Idle EXCEPT !.pc = "setMembership", !.branch = b, !.users = {u}, !.join = join])
             /\ UNCHANGED crossed
     /\ UNCHANGED <<company, branch, users, branchIds, businesses, departments, named, overtaken>>

\* The first of two gets it made, the other an error.
Provision(r) ==
  /\ req[r].pc = "provision"
  /\ IF CodeTaken(KbizCode) THEN Answer(r) /\ UNCHANGED branch
     ELSE \E b \in BranchRows :
            /\ branch[b] = NoBranch
            /\ branch' = [branch EXCEPT ![b] = [pc |-> "up", code |-> KbizCode, of |-> req[r].company]]
            /\ req' = [req EXCEPT ![r].pc = "setMembership", ![r].branch = b]
  /\ UNCHANGED <<company, users, branchIds, businesses, departments, asked, named, crossed, overtaken>>

setKbizMembership(r) ==
  /\ req[r].pc = "setMembership"
  /\ \E u \in req[r].users :
       IF req[r].join THEN addUserBranch(u, req[r].branch) ELSE removeUserBranch(u, req[r].branch)
  /\ Answer(r)
  /\ UNCHANGED <<company, branch, users, businesses, departments, asked, named, crossed>>

\* A call fails, or the process stops, and the rest is not done.
Die(r) ==
  /\ req[r] # Idle
  /\ Answer(r)
  /\ UNCHANGED <<company, branch, users, branchIds, businesses, departments, asked, named, crossed, overtaken>>

DirNext ==
  \/ \E r \in Requests :
       \/ \E n \in Names : createCompany(r, n)
       \/ \E c \in Companies :
            \/ deleteCompany(r, c)
            \/ \E k \in Codes, s \in SUBSET Users : createBranch(r, c, k, s)
            \/ \E u \in Users, join \in BOOLEAN : ensureKbizBom(r, c, u, join)
       \/ \E b \in BranchRows : deleteBranch(r, b)
       \/ \E u \in Users, bs \in SUBSET BranchRows, cs \in SUBSET Companies : updateUser(r, u, bs, cs)
       \/ InsertCompany(r) \/ DropCompany(r) \/ InsertBranch(r) \/ AddMember(r)
       \/ PullUsers(r) \/ DropDepartments(r) \/ DropBranch(r)
       \/ setBusinesses(r) \/ Provision(r) \/ setKbizMembership(r) \/ Die(r)
  \/ \E u \in Users : deleteUser(u)
  \/ \E b \in BranchRows : AddDepartment(b)

-----------------------------------------------------------------------------
(* What a person is shown. *)

listBranches(u) ==
  {b \in BranchRows : branch[b].pc = "up" /\ (u \in Wide \/ b \in branchIds[u])}

listCompanies(u) ==
  {c \in Companies : Up(c) /\ (u \in Wide \/ c \in {branch[b].of : b \in listBranches(u)} \/ c \in businesses[u])}

\* A branch that is shown to a person belongs to a business they are shown, however branches
\* and businesses were made and deleted, unless a branch was being made under a business
\* that was being deleted (directory.service.ts:162).
ShownBranchHasShownBusinessUnlessCrossed ==
  \A u \in users : \A b \in listBranches(u) :
    branch[b].of \in listCompanies(u) \cup crossed

\* Nobody belongs to a branch that is gone, and no department names it, unless they were
\* joined to it after its users had been taken off it (directory.service.ts:174).
NothingNamesGoneBranchUnlessOvertaken ==
  \A b \in BranchRows :
    branch[b].pc = "gone" =>
      /\ \A u \in users : b \in branchIds[u] => <<u, b>> \in overtaken
      /\ b \in departments => <<"department", b>> \in overtaken

\* Two businesses have one name only when they were created at once; two branches never
\* have one code, so that KBiz360's own is one (directory.service.ts:200, 232).
NamesAreUniqueUnlessAtOnce ==
  /\ \A c, d \in Companies : Up(c) /\ Up(d) /\ c # d /\ company[c].name = company[d].name
                             => company[c].name \in named
  /\ \A b, d \in BranchRows : branch[b].pc = "up" /\ branch[d].pc = "up" /\ b # d => branch[b].code # branch[d].code
=============================================================================
