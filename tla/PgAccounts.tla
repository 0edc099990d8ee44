----------------------------- MODULE PgAccounts -----------------------------
(***************************************************************************)
(* Users, what they may see, and their refresh tokens in the Postgres back *)
(* end (src/src/modules/{auth,users,access,businesses}, src/src/domain/    *)
(* logic/{validation,access,accessFilters}.ts).                            *)
(*                                                                         *)
(* A user is edited by reading the whole row, laying the patch over it,    *)
(* validating the whole, and writing the whole.  A refresh token is read,  *)
(* revoked, and followed by a new one, in three calls.                     *)
(***************************************************************************)
EXTENDS PgRequests

CONSTANTS
  Ids, Boss, Staff,       \* ids of users there may be; a super admin, and somebody
  Drafts, Patches,        \* inputs: what users are created with, and edits of some of their fields
  StaffDraft,             \* how the somebody begins
  Tk, Codes,              \* the business with branches, and their codes
  GroupNames,             \* the groups of each branch
  DeptNames, AlertNames,  \* [business -> departments], [business -> alert modules]
  Tokens                  \* refresh tokens

VARIABLES
  users,      \* the users table
  meant,      \* history: what each field of each user was last set to
  overtaken,  \* history: users edited by a request that had read them before another edit
  tokens,     \* the refresh_tokens table
  heirs,      \* history: tokens that a refresh of each token issued
  raced,      \* history: tokens that two refreshes had read at once
  out, slipped \* history: tokens logged out, and those refreshed while they were

accounts == <<users, meant, overtaken, tokens, heirs, raced, out, slipped>>

None    == "none"
Bare    == "bare"     \* a grant by its name alone, without a branch code
NoUser  == [pc |-> "none"]
Gone    == [pc |-> "gone"]
NoToken == [pc |-> "none"]
Present(d) == d @@ [pc |-> "up"]
Up(u)      == users[u].pc = "up"
Fields     == {"email", "role", "biz", "branches", "groups", "depts", "alerts"}
SuperDraft == [email |-> "boss", role |-> "SUPER_ADMIN", biz |-> None, branches |-> {},
               groups |-> {}, depts |-> {}, alerts |-> {}]

-----------------------------------------------------------------------------
(* The form: what it offers, and what it accepts. *)

effBranches(d) == IF d.biz = Tk THEN Codes ELSE {}
selBr(d)       == effBranches(d) \cap d.branches
hasBranches(d) == effBranches(d) # {}
OfBusiness(names, d) == IF d.biz \in DOMAIN names THEN names[d.biz] ELSE {}

groupsAvail(d) == IF hasBranches(d) THEN selBr(d) \X GroupNames ELSE {}
Offered(names, d) ==
  (IF hasBranches(d) THEN selBr(d) ELSE {Bare}) \X OfBusiness(names, d)

validateUserDraft(d) ==
  \/ d.role = "SUPER_ADMIN"
  \/ /\ d.biz # None
     /\ hasBranches(d) => d.branches # {}
     /\ groupsAvail(d) # {} => d.groups # {}
     /\ Offered(DeptNames, d) # {} => d.depts # {}
     /\ Offered(AlertNames, d) # {} => d.alerts # {}

(* The filters: what a user is shown. *)

deriveAccess(d) ==
  [isSuper   |-> d.role = "SUPER_ADMIN",
   canManage |-> d.role \in {"SUPER_ADMIN", "DIRECTOR"},
   bizIds    |-> IF d.biz = None THEN {} ELSE {d.biz},
   branches  |-> d.branches, groups |-> d.groups, depts |-> d.depts, alerts |-> d.alerts]

bizOK(a, id)       == a.isSuper \/ id \in a.bizIds
brOK(a, code)      == a.isSuper \/ code \in a.branches
grpOK(a, code, n)  == a.isSuper \/ <<code, n>> \in a.groups
deptOK(a, code, n) == a.isSuper \/ <<code, n>> \in a.depts \/ <<Bare, n>> \in a.depts
alertOK(a, code, n) == a.isSuper \/ <<code, n>> \in a.alerts \/ <<Bare, n>> \in a.alerts

\* A refusal shows nothing.
listBusinesses(a)    == {b \in DOMAIN DeptNames : bizOK(a, b)}
listBranches(a, biz) == IF bizOK(a, biz) /\ biz = Tk THEN {c \in Codes : brOK(a, c)} ELSE {}
listGroups(a, code)  == IF brOK(a, code) THEN {n \in GroupNames : grpOK(a, code, n)} ELSE {}
\* Asked for with one of the branch's groups.
listDepartmentsForGroup(a, code) ==
  IF brOK(a, code) THEN {n \in DeptNames[Tk] : deptOK(a, code, n)} ELSE {}

-----------------------------------------------------------------------------
AccountsInit ==
  /\ AsksInit
  /\ users = [u \in Ids |-> IF u = Boss THEN Present(SuperDraft)
                            ELSE IF u = Staff THEN Present(StaffDraft) ELSE NoUser]
  /\ meant = [u \in Ids |-> IF u = Boss THEN SuperDraft ELSE StaffDraft]
  /\ overtaken = {}
  /\ tokens = [t \in Tokens |-> NoToken]
  /\ heirs = [t \in Tokens |-> {}] /\ raced = {} /\ out = {} /\ slipped = {}

(* Tokens. *)

\* The password holds.
login(r, u) ==
  /\ Up(u)
  /\ Ask(r, [pc |-> "issue", actor |-> u, old |-> None])
  /\ UNCHANGED accounts

Usable(t) == tokens[t].pc = "live"

refresh(r, t) ==
  /\ Usable(t) /\ Up(tokens[t].of)
  /\ Ask(r, [pc |-> "revoke", actor |-> tokens[t].of, old |-> t])
  /\ raced' = IF \E q \in About({"revoke", "issue"}) : req[q].old = t THEN raced \cup {t} ELSE raced
  /\ slipped' = IF \E q \in About({"revokeOut"}) : req[q].old = t THEN slipped \cup {t} ELSE slipped
  /\ UNCHANGED <<users, meant, overtaken, tokens, heirs, out>>

\* The row may have gone with its user.
RevokeOld(r) ==
  LET t == req[r].old
  IN /\ req[r].pc = "revoke"
     /\ IF tokens[t].pc = "gone" THEN Fail(r) /\ UNCHANGED tokens
        ELSE /\ tokens' = [tokens EXCEPT ![t].pc = "revoked"]
             /\ WriteAnd(r, [pc |-> "issue"])
     /\ UNCHANGED <<users, meant, overtaken, heirs, raced, out, slipped>>

\* A token needs its user.
issueTokens(r) ==
  LET u == req[r].actor
  IN /\ req[r].pc = "issue" /\ \E t \in Tokens : tokens[t] = NoToken
     /\ IF ~Up(u) THEN Fail(r) /\ UNCHANGED <<tokens, heirs>>
        ELSE LET t == NewId({x \in Tokens : tokens[x] = NoToken}) IN
               /\ tokens' = [tokens EXCEPT ![t] = [pc |-> "live", of |-> u]]
               /\ heirs' = IF req[r].old = None THEN heirs ELSE [heirs EXCEPT ![req[r].old] = @ \cup {t}]
               /\ Written(r)
     /\ UNCHANGED <<users, meant, overtaken, raced, out, slipped>>

logout(r, t) ==
  /\ Usable(t)
  /\ Ask(r, [pc |-> "revokeOut", actor |-> tokens[t].of, old |-> t])
  /\ slipped' = IF \E q \in About({"revoke", "issue"}) : req[q].old = t THEN slipped \cup {t} ELSE slipped
  /\ UNCHANGED <<users, meant, overtaken, tokens, heirs, raced, out>>

RevokeOut(r) ==
  LET t == req[r].old
  IN /\ req[r].pc = "revokeOut"
     /\ IF tokens[t].pc = "gone" THEN Fail(r) /\ UNCHANGED <<tokens, out>>
        ELSE /\ tokens' = [tokens EXCEPT ![t].pc = "revoked"]
             /\ out' = out \cup {t}
             /\ Written(r)
     /\ UNCHANGED <<users, meant, overtaken, heirs, raced, slipped>>

Expire(t) ==
  /\ Usable(t)
  /\ tokens' = [tokens EXCEPT ![t].pc = "expired"]
  /\ UNCHANGED <<asks, users, meant, overtaken, heirs, raced, out, slipped>>

-----------------------------------------------------------------------------
(* Users. *)

\* requireManage: by the row as it is now, not by the role in the access token.
requireManage(u) == Up(u) /\ deriveAccess(users[u]).canManage

EmailTaken(e, but) == \E v \in Ids \ {but} : Up(v) /\ users[v].email = e

create(r, actor, d) ==
  /\ requireManage(actor) /\ validateUserDraft(d)
  /\ Ask(r, [pc |-> "insert", actor |-> actor, draft |-> d])
  /\ UNCHANGED accounts

\* The unique index on emails refuses the second.
InsertUser(r) ==
  /\ req[r].pc = "insert" /\ \E u \in Ids : users[u] = NoUser
  /\ IF EmailTaken(req[r].draft.email, None) THEN Fail(r) /\ UNCHANGED <<users, meant>>
     ELSE LET u == NewId({x \in Ids : users[x] = NoUser}) IN
            /\ users' = [users EXCEPT ![u] = Present(req[r].draft)]
            /\ meant' = [meant EXCEPT ![u] = req[r].draft]
            /\ Written(r)
  /\ UNCHANGED <<overtaken, tokens, heirs, raced, out, slipped>>

merged(u, patch) == patch @@ [f \in Fields |-> users[u][f]]

update(r, actor, u, patch) ==
  /\ requireManage(actor) /\ Up(u)
  /\ validateUserDraft(merged(u, patch))
  /\ Ask(r, [pc |-> "save", actor |-> actor, on |-> u, draft |-> merged(u, patch),
             patch |-> patch, of |-> users[u]])
  /\ UNCHANGED accounts

\* As SaveUser, but only the fields that were sent are written.
SavePatch(r) ==
  LET m == req[r]
  IN /\ m.pc = "save"
     /\ IF ~Up(m.on) THEN Fail(r) /\ UNCHANGED <<users, meant>>
        ELSE /\ users' = [users EXCEPT ![m.on] = m.patch @@ @]
             /\ meant' = [meant EXCEPT ![m.on] = m.patch @@ @]
             /\ Written(r)
     /\ UNCHANGED <<overtaken, tokens, heirs, raced, out, slipped>>

\* The whole row as it was read, with the patch.
SaveUser(r) ==
  LET m == req[r]
  IN /\ m.pc = "save"
     /\ IF ~Up(m.on) \/ EmailTaken(m.draft.email, m.on)
        THEN Fail(r) /\ UNCHANGED <<users, meant, overtaken>>
        ELSE /\ users' = [users EXCEPT ![m.on] = Present(m.draft)]
             /\ meant' = [meant EXCEPT ![m.on] = m.patch @@ @]
             /\ overtaken' = IF users[m.on] # m.of THEN overtaken \cup {m.on} ELSE overtaken
             /\ Written(r)
     /\ UNCHANGED <<tokens, heirs, raced, out, slipped>>

remove(r, actor, u) ==
  /\ requireManage(actor) /\ u # actor /\ Up(u)
  /\ Ask(r, [pc |-> "delete", actor |-> actor, on |-> u])
  /\ UNCHANGED accounts

\* The user's tokens go with the row.
DeleteUser(r) ==
  LET u == req[r].on
  IN /\ req[r].pc = "delete"
     /\ IF ~Up(u) THEN Fail(r) /\ UNCHANGED <<users, tokens>>
        ELSE /\ users' = [users EXCEPT ![u] = Gone]
             /\ tokens' = [t \in Tokens |-> IF tokens[t] # NoToken /\ tokens[t].pc # "gone" /\ tokens[t].of = u
                                            THEN Gone ELSE tokens[t]]
             /\ Written(r)
     /\ UNCHANGED <<meant, overtaken, heirs, raced, out, slipped>>

Audit(r) == req[r].pc = "audit" /\ writeAudit(r, Up(req[r].actor)) /\ UNCHANGED accounts

DropRequest(r) == Die(r) /\ UNCHANGED accounts

AccountsNext ==
  \/ \E r \in Requests :
       \/ \E u \in Ids : login(r, u)
       \/ \E t \in Tokens : refresh(r, t) \/ logout(r, t)
       \/ \E a \in Ids : \/ \E d \in Drafts : create(r, a, d)
                         \/ \E u \in Ids : remove(r, a, u) \/ \E p \in Patches : update(r, a, u, p)
       \/ RevokeOld(r) \/ issueTokens(r) \/ RevokeOut(r)
       \/ InsertUser(r) \/ SaveUser(r) \/ DeleteUser(r) \/ Audit(r) \/ DropRequest(r)
  \/ \E t \in Tokens : Expire(t)

-----------------------------------------------------------------------------
AccountsTypeOK ==
  /\ AsksTypeOK
  /\ \A u \in Ids : users[u].pc \in {"none", "up", "gone"}
  /\ \A t \in Tokens : tokens[t].pc \in {"none", "live", "revoked", "expired", "gone"}
  /\ overtaken \subseteq Ids /\ raced \subseteq Tokens /\ out \subseteq Tokens /\ slipped \subseteq Tokens

\* However edits cross, every stored user would pass the form, and no two have one
\* email: the whole row is written, so a field never meets the others unchecked
\* (users.service.ts:94).
StoredUsersAreValid ==
  \A u \in Ids : Up(u) => validateUserDraft(users[u]) /\ ~EmailTaken(users[u].email, u)

\* Each field of a user is what it was last set to, unless an edit that had read the
\* user before another one wrote the whole row over it (users.service.ts:101).
EditsStandUnlessOvertaken ==
  \A u \in Ids : Up(u) /\ u \notin overtaken => \A f \in Fields : users[u][f] = meant[u][f]

\* A refresh token is followed by one token, unless two refreshes had read it before
\* either revoked it (auth.service.ts:71).
OneHeirUnlessRaced ==
  \A t \in Tokens \ raced : Cardinality(heirs[t]) <= 1

\* What was logged out was never followed by another token, unless it was being
\* refreshed at the time (auth.service.ts:85).
LoggedOutHasNoHeirUnlessInFlight ==
  \A t \in out \ slipped : heirs[t] = {}

\* The form and the filters spell grants alike: somebody whose grants are all among those the
\* form offers them is shown just what they were granted, and a super admin everything
\* (validation.ts:43, accessFilters.ts:13).
ShownIsWhatWasGranted ==
  \A u \in Ids : Up(u) =>
    LET d == users[u]
        a == deriveAccess(d)
        groups == UNION {{c} \X listGroups(a, c) : c \in listBranches(a, Tk)}
        depts  == UNION {{c} \X listDepartmentsForGroup(a, c) : c \in listBranches(a, Tk)}
        alerts == {p \in Codes \X AlertNames[Tk] : alertOK(a, p[1], p[2])}
    IN /\ d.role = "SUPER_ADMIN" =>
            /\ listBusinesses(a) = DOMAIN DeptNames /\ listBranches(a, Tk) = Codes
            /\ groups = Codes \X GroupNames /\ depts = Codes \X DeptNames[Tk]
       /\ d.role # "SUPER_ADMIN" /\ hasBranches(d) /\ d.branches \subseteq Codes
            /\ d.groups \subseteq groupsAvail(d) /\ d.depts \subseteq Offered(DeptNames, d)
            /\ d.alerts \subseteq Offered(AlertNames, d)
          => /\ listBusinesses(a) = {d.biz} /\ listBranches(a, Tk) = d.branches
             /\ groups = d.groups /\ depts = d.depts /\ alerts = d.alerts
=============================================================================
