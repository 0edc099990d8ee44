------------------------------ MODULE Offices ------------------------------
(***************************************************************************)
(* The offices at which people punch and who is locked to which            *)
(* (src/src/mongo/attendance/attendance.service.ts, office.repository.ts,  *)
(* userOffices.ts, userWorkBranches.ts).                                   *)
(*                                                                         *)
(* A branch's default office is moved by two writes, and a working branch  *)
(* is assigned by a read and up to two writes; requests of several admins  *)
(* interleave between them.                                                *)
(***************************************************************************)
EXTENDS Naturals, FiniteSets

CONSTANTS
  Staff,        \* the people who punch
  Directors,    \* those whose attendance is hidden
  CompanyWide,  \* those with a company-wide role
  Branches,     \* branch ids
  BranchIds,    \* the CRM branches of each person
  OfficeIds,    \* offices that may be created
  Admins,       \* admin requests in progress at once
  MaxChanges    \* bound on admin requests

VARIABLES
  office,       \* office_geofences
  userOffice,   \* user_offices: the office a person is locked to
  workBranch,   \* user_work_branches: where a person is said to work
  admin,        \* what each request still has to write
  changes,      \* requests so far
  follows,      \* history: the working branch that was assigned last, if no office was since
  raced,        \* history: branches whose default two requests moved at once
  crossed       \* history: people given an office while a working branch was on its way

officeVars == <<office, userOffice, workBranch, admin, changes, follows, raced, crossed>>

Nowhere  == "nowhere"
NoOffice == [branch |-> Nowhere]
Deleted  == [branch |-> "deleted"]
Office   == [branch : Branches, active : BOOLEAN, isDefault : BOOLEAN]

Exists(o)    == office[o] \notin {NoOffice, Deleted}
InBranch(bs) == {o \in OfficeIds : office[o].branch \in bs}
ActiveIn(bs) == {o \in InBranch(bs) : office[o].active}
Defaults(os) == {o \in os : office[o].isDefault}

Free == [do |-> "nothing"]
Task ==
  {Free}
  \cup [do : {"siblings"}, o : OfficeIds, asked : BOOLEAN]
  \cup [do : {"clear", "set"}, o : OfficeIds, b : Branches]
  \cup [do : {"assign"}, p : Staff, o : OfficeIds \cup {Nowhere}]
  \cup [do : {"workClear", "workSet"}, p : Staff, b : Branches \cup {Nowhere}]

OfficesTypeOK ==
  /\ office \in [OfficeIds -> {NoOffice, Deleted} \cup Office]
  /\ userOffice \in [Staff -> OfficeIds \cup {Nowhere}]
  /\ workBranch \in [Staff -> Branches \cup {Nowhere}]
  /\ admin \in [Admins -> Task]
  /\ changes \in 0..MaxChanges
  /\ follows \in [Staff -> Branches \cup {Nowhere}]
  /\ raced \subseteq Branches /\ crossed \subseteq Staff

OfficesInit ==
  /\ office = [o \in OfficeIds |-> NoOffice]
  /\ userOffice = [p \in Staff |-> Nowhere]
  /\ workBranch = [p \in Staff |-> Nowhere]
  /\ admin = [a \in Admins |-> Free]
  /\ changes = 0
  /\ follows = [p \in Staff |-> Nowhere]
  /\ raced = {}
  /\ crossed = {}

-----------------------------------------------------------------------------
(* Where a person may punch. *)

\* A branch's default office when it has one, and else all its offices.
PreferDefaults(os) == IF Defaults(os) # {} THEN Defaults(os) ELSE os

ManyBranches(p) == p \in CompanyWide \/ Cardinality(BranchIds[p]) > 1

OfficesForMany(p) ==
  LET own == BranchIds[p] \cup ({workBranch[p]} \ {Nowhere})
      reachable == ActiveIn(IF p \in CompanyWide THEN Branches ELSE own)
  IN reachable \cup {o \in OfficeIds : userOffice[p] = o /\ Exists(o) /\ office[o].active}

OfficesForUser(p) ==
  LET locked == {o \in OfficeIds : userOffice[p] = o /\ Exists(o) /\ office[o].active} IN
  CASE ManyBranches(p)            -> OfficesForMany(p)
    [] ~ManyBranches(p) /\ locked # {} -> locked
    [] ~ManyBranches(p) /\ locked = {} /\ p \in Directors -> InBranch(Branches)
    [] ~ManyBranches(p) /\ locked = {} /\ p \notin Directors /\ workBranch[p] # Nowhere ->
         PreferDefaults(ActiveIn({workBranch[p]}))
    [] OTHER -> UNION {PreferDefaults(ActiveIn({b})) : b \in BranchIds[p]}

-----------------------------------------------------------------------------
(* The admins' requests. *)

Takes(a, task) ==
  /\ admin[a] = Free
  /\ changes < MaxChanges
  /\ changes' = changes + 1
  /\ admin' = [admin EXCEPT ![a] = task]

Goes(a, task) == admin' = [admin EXCEPT ![a] = task] /\ UNCHANGED changes

CreateOffice(a, o, b, asked) ==
  /\ office[o] = NoOffice
  /\ office' = [office EXCEPT ![o] = [branch |-> b, active |-> TRUE, isDefault |-> FALSE]]
  /\ Takes(a, [do |-> "siblings", o |-> o, asked |-> asked])
  /\ UNCHANGED <<userOffice, workBranch, follows, raced, crossed>>

\* The first office of a branch becomes its default, and so does one that is asked to.
CountSiblings(a) ==
  LET o == admin[a].o IN
  /\ admin[a].do = "siblings"
  /\ Goes(a, IF Exists(o) /\ (admin[a].asked \/ Cardinality(InBranch({office[o].branch})) = 1)
             THEN [do |-> "clear", o |-> o, b |-> office[o].branch] ELSE Free)
  /\ UNCHANGED <<office, userOffice, workBranch, follows, raced, crossed>>

UpdateOffice(a, o, active, asDefault) ==
  /\ Exists(o)
  /\ office' = [office EXCEPT ![o].active = active]
  /\ Takes(a, IF asDefault THEN [do |-> "clear", o |-> o, b |-> office[o].branch] ELSE Free)
  /\ UNCHANGED <<userOffice, workBranch, follows, raced, crossed>>

SetDefaultOffice(a, o) ==
  /\ Exists(o)
  /\ Takes(a, [do |-> "clear", o |-> o, b |-> office[o].branch])
  /\ UNCHANGED <<office, userOffice, workBranch, follows, raced, crossed>>

\* Its default and the locks of people on it go with it, or rather stay and mean nothing.
DeleteOffice(a, o) ==
  /\ Exists(o)
  /\ office' = [office EXCEPT ![o] = Deleted]
  /\ Takes(a, Free)
  /\ UNCHANGED <<userOffice, workBranch, follows, raced, crossed>>

\* setDefault, its first write: no office of the branch is the default.
ClearDefault(a) ==
  LET b == admin[a].b IN
  /\ admin[a].do = "clear"
  /\ office' = [o \in OfficeIds |-> IF o \in InBranch({b}) THEN [office[o] EXCEPT !.isDefault = FALSE]
                                    ELSE office[o]]
  /\ raced' = IF \E c \in Admins : admin[c].do = "set" /\ admin[c].b = b THEN raced \cup {b} ELSE raced
  /\ Goes(a, [admin[a] EXCEPT !.do = "set"])
  /\ UNCHANGED <<userOffice, workBranch, follows, crossed>>

\* setDefault, its second write.
SetDefault(a) ==
  LET o == admin[a].o IN
  /\ admin[a].do = "set"
  /\ office' = IF office[o].branch = admin[a].b THEN [office EXCEPT ![o].isDefault = TRUE] ELSE office
  /\ Goes(a, Free)
  /\ UNCHANGED <<userOffice, workBranch, follows, raced, crossed>>

AskAssign(a, p, o) ==
  /\ o # Nowhere => Exists(o)
  /\ Takes(a, [do |-> "assign", p |-> p, o |-> o])
  /\ UNCHANGED <<office, userOffice, workBranch, follows, raced, crossed>>

AssignUserOffice(a) ==
  LET p == admin[a].p IN
  /\ admin[a].do = "assign"
  /\ userOffice' = [userOffice EXCEPT ![p] = admin[a].o]
  /\ follows' = [follows EXCEPT ![p] = Nowhere]
  /\ crossed' = IF \E c \in Admins : admin[c].do \in {"workClear", "workSet"} /\ admin[c].p = p
                THEN crossed \cup {p} ELSE crossed
  /\ Goes(a, Free)
  /\ UNCHANGED <<office, workBranch, raced>>

\* An office in another branch would outrank the working branch.
Contradicts(p, b) ==
  \E o \in OfficeIds : userOffice[p] = o /\ Exists(o) /\ office[o].branch # b

ReadForWorkBranch(a, p, b) ==
  /\ Takes(a, [do |-> IF b # Nowhere /\ Contradicts(p, b) THEN "workClear" ELSE "workSet", p |-> p, b |-> b])
  /\ UNCHANGED <<office, userOffice, workBranch, follows, raced, crossed>>

ClearUserOffice(a) ==
  /\ admin[a].do = "workClear"
  /\ userOffice' = [userOffice EXCEPT ![admin[a].p] = Nowhere]
  /\ Goes(a, [admin[a] EXCEPT !.do = "workSet"])
  /\ UNCHANGED <<office, workBranch, follows, raced, crossed>>

AssignUserWorkBranch(a) ==
  /\ admin[a].do = "workSet"
  /\ workBranch' = [workBranch EXCEPT ![admin[a].p] = admin[a].b]
  /\ follows' = [follows EXCEPT ![admin[a].p] = admin[a].b]
  /\ Goes(a, Free)
  /\ UNCHANGED <<office, userOffice, raced, crossed>>

OfficesNext ==
  \E a \in Admins :
    \/ \E o \in OfficeIds, b \in Branches, asked \in BOOLEAN : CreateOffice(a, o, b, asked)
    \/ \E o \in OfficeIds, active \in BOOLEAN, asDefault \in BOOLEAN : UpdateOffice(a, o, active, asDefault)
    \/ \E o \in OfficeIds : SetDefaultOffice(a, o) \/ DeleteOffice(a, o)
    \/ \E p \in Staff, o \in OfficeIds \cup {Nowhere} : AskAssign(a, p, o)
    \/ \E p \in Staff, b \in Branches \cup {Nowhere} : ReadForWorkBranch(a, p, b)
    \/ CountSiblings(a) \/ ClearDefault(a) \/ SetDefault(a)
    \/ AssignUserOffice(a) \/ ClearUserOffice(a) \/ AssignUserWorkBranch(a)

OfficesSpec == OfficesInit /\ [][OfficesNext]_officeVars

-----------------------------------------------------------------------------
(* Properties. *)

\* A branch never has two default offices, unless two requests moved it at once.
OneDefaultUnlessRaced ==
  \A b \in Branches \ raced : Cardinality(Defaults(InBranch({b}))) <= 1

\* The working branch wins: whoever was sent to a branch, and given no office since,
\* punches there and nowhere else, however offices come and go.  It is not so for
\* people of several branches, for directors, or when the two requests crossed.
WorkBranchWinsUnlessCrossed ==
  \A p \in Staff \ (crossed \cup Directors) :
    ~ManyBranches(p) /\ follows[p] # Nowhere =>
      \A o \in OfficesForUser(p) : office[o].branch = follows[p]
=============================================================================
