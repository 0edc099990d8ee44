----------------------------- MODULE ChatGroups -----------------------------
(***************************************************************************)
(* A group, its roster and its end, and opening a direct chat              *)
(* (src/src/mongo/chat/chat.service.ts).                                   *)
(*                                                                         *)
(* The roster is kept twice in the conversation: participantIds, and one   *)
(* row per member with their role, settings and counters.  Rows of         *)
(* different people have nothing to do with one another, so the rows are   *)
(* kept by person, each with its role, in the order they were pushed.      *)
(* A request reads the conversation, decides what to change from that      *)
(* reading, and writes some awaits later.                                  *)
(***************************************************************************)
EXTENDS Naturals, Sequences, FiniteSets

CONSTANTS
  People,     \* users
  Creator,    \* who created the group
  Supers,     \* super admins
  Adders,     \* GROUP_ADD_MEMBER_EMAILS
  Editors,    \* GROUP_EDIT_EMAILS
  Renamers,   \* GROUP_RENAME_EMAILS
  Requests,   \* requests in progress at once
  MaxAsks     \* bound on requests

VARIABLES
  group,      \* the conversation document
  posts,      \* messages stored under the group's id
  directs,    \* direct chats of two people, by document
  reqs,       \* what each request is about to do
  asked,      \* requests so far
  mixed       \* history: people two adds have overlapped on, and whether
              \* anything was under way when the group was deleted

groupVars == <<group, posts, directs, reqs, asked, mixed>>

Row  == {"admin", "member"}
Idle == [op |-> "idle"]

\* What a request does, to whom, and the roster as it was read.
Request ==
  {Idle}
  \cup [op : {"add", "remove", "promote", "rename", "say", "messages", "conversation"},
        who : People, other : People, roster : SUBSET People]
  \cup [op : {"notice", "direct"}, who : People]

GroupTypeOK ==
  /\ group \in [exists : BOOLEAN, participantIds : SUBSET People, members : [People -> Seq(Row)]]
  /\ posts \in 0..2 * MaxAsks
  /\ directs \in 0..MaxAsks
  /\ \A r \in Requests : reqs[r] \in Request
  /\ asked \in 0..MaxAsks
  /\ mixed \in [added : SUBSET People, deleting : BOOLEAN]

\* The creator is the group's first admin.
NewGroup(team) ==
  [exists |-> TRUE, participantIds |-> team,
   members |-> [p \in People |-> IF p \notin team THEN << >>
                                 ELSE IF p = Creator THEN <<"admin">> ELSE <<"member">>]]

GroupInit ==
  /\ \E team \in SUBSET People : Creator \in team /\ group = NewGroup(team)
  /\ posts = 0
  /\ directs = 0
  /\ reqs = [r \in Requests |-> Idle]
  /\ asked = 0
  /\ mixed = [added |-> {}, deleting |-> FALSE]

RowsOf(p) == group.members[p]
IsAdmin(p) == \E i \in DOMAIN RowsOf(p) : RowsOf(p)[i] = "admin"

\* Creators keep their rights when they have left.
CanManageGroup(p) == p = Creator \/ IsAdmin(p) \/ p \in Supers
CanEdit(p, action) ==
  \/ CanManageGroup(p)
  \/ p \in group.participantIds /\ (p \in Editors \/ (action = "rename" /\ p \in Renamers))
CanAddMembers(p) == CanManageGroup(p) \/ p \in (Adders \cap group.participantIds)

Goto(r, next) == reqs' = [reqs EXCEPT ![r] = next]

-----------------------------------------------------------------------------
(* A request starts: the conversation is read and rights are checked on it. *)

May(p, op, q) ==
  CASE op = "add"      -> CanAddMembers(p)
    [] op = "remove"   -> p = q \/ CanEdit(p, "remove")
    [] op = "promote"  -> CanManageGroup(p)
    [] op = "rename"   -> CanEdit(p, "rename")
    [] op = "messages" -> CanManageGroup(p)
    [] op = "say"      -> p \in group.participantIds

Look(r, p, op, q) ==
  /\ reqs[r] = Idle /\ asked < MaxAsks
  /\ asked' = asked + 1
  /\ group.exists
  /\ May(p, op, q)
  /\ Goto(r, IF op = "add" /\ q \in group.participantIds THEN Idle
             ELSE [op |-> op, who |-> p, other |-> q, roster |-> group.participantIds])
  /\ mixed' = IF op = "add" /\ \E s \in Requests : reqs[s].op = "add" /\ reqs[s].other = q
              THEN [mixed EXCEPT !.added = @ \cup {q}] ELSE mixed
  /\ UNCHANGED <<group, posts, directs>>

\* Regression: the row is written and the list of participants is not.
AddMembersRowOnly(r) ==
  LET t == reqs[r] IN
  /\ t.op = "add"
  /\ group' = IF group.exists
              THEN [group EXCEPT !.members[t.other] = Append(@, "member")]
              ELSE group
  /\ Goto(r, [op |-> "notice", who |-> t.who])
  /\ UNCHANGED <<posts, directs, asked, mixed>>

\* $addToSet keeps participantIds a set; $push knows nothing of the rows there are.
AddMembers(r) ==
  LET t == reqs[r] IN
  /\ t.op = "add"
  /\ group' = IF group.exists
              THEN [group EXCEPT !.participantIds = @ \cup {t.other},
                                 !.members[t.other] = Append(@, "member")]
              ELSE group
  /\ Goto(r, [op |-> "notice", who |-> t.who])
  /\ UNCHANGED <<posts, directs, asked, mixed>>

RemoveMember(r) ==
  LET t == reqs[r] IN
  /\ t.op = "remove"
  /\ group' = [group EXCEPT !.participantIds = @ \ {t.other},
                            !.members[t.other] = << >>]
  /\ Goto(r, IF t.other \in t.roster THEN [op |-> "notice", who |-> t.who] ELSE Idle)
  /\ UNCHANGED <<posts, directs, asked, mixed>>

\* The positional update reaches the first row there is, if any; it is announced
\* unless they were an admin when the group was read.
PromoteAdmin(r) ==
  LET t == reqs[r] IN
  /\ t.op = "promote"
  /\ group' = IF RowsOf(t.other) = << >> THEN group ELSE [group EXCEPT !.members[t.other][1] = "admin"]
  /\ \/ Goto(r, [op |-> "notice", who |-> t.who])
     \/ Goto(r, Idle)
  /\ UNCHANGED <<posts, directs, asked, mixed>>

\* The name, the description and the picture; a new name is announced.
UpdateGroup(r) ==
  LET t == reqs[r] IN
  /\ t.op = "rename"
  /\ \/ Goto(r, [op |-> "notice", who |-> t.who])
     \/ Goto(r, Idle)
  /\ UNCHANGED <<group, posts, directs, asked, mixed>>

\* A message, or a notice of what was done, stored whether or not the group still is.
Post(r) ==
  /\ reqs[r].op \in {"say", "notice"}
  /\ posts' = posts + 1
  /\ mixed' = IF \E s \in Requests : reqs[s].op = "conversation"
              THEN [mixed EXCEPT !.deleting = TRUE] ELSE mixed
  /\ Goto(r, Idle)
  /\ UNCHANGED <<group, directs, asked>>

DeleteMessages(r) ==
  /\ reqs[r].op = "messages"
  /\ posts' = 0
  /\ Goto(r, [reqs[r] EXCEPT !.op = "conversation"])
  /\ UNCHANGED <<group, directs, asked, mixed>>

\* A request that looked before this one has finished still writes.
DeleteConversation(r) ==
  /\ reqs[r].op = "conversation"
  /\ group' = [exists |-> FALSE, participantIds |-> {}, members |-> [p \in People |-> << >>]]
  /\ Goto(r, Idle)
  /\ mixed' = [mixed EXCEPT !.deleting = @ \/ \E s \in Requests \ {r} : reqs[s] # Idle]
  /\ UNCHANGED <<posts, directs, asked>>

-----------------------------------------------------------------------------
(* Opening a direct chat: at most one per pair. *)

FindDirect(r, p) ==
  /\ reqs[r] = Idle /\ asked < MaxAsks
  /\ asked' = asked + 1
  /\ Goto(r, IF directs > 0 THEN Idle ELSE [op |-> "direct", who |-> p])
  /\ UNCHANGED <<group, posts, directs, mixed>>

\* The unique index on directKey refuses a second: that request fails.
CreateDirect(r) ==
  /\ reqs[r].op = "direct"
  /\ directs' = IF directs = 0 THEN 1 ELSE directs
  /\ Goto(r, Idle)
  /\ UNCHANGED <<group, posts, asked, mixed>>

GroupNext ==
  \E r \in Requests :
    \/ \E p, q \in People, op \in {"add", "remove", "promote"} : Look(r, p, op, q)
    \/ \E p \in People, op \in {"rename", "say", "messages"} : Look(r, p, op, p)
    \/ \E p \in People : FindDirect(r, p)
    \/ AddMembers(r) \/ RemoveMember(r) \/ PromoteAdmin(r) \/ UpdateGroup(r)
    \/ Post(r) \/ DeleteMessages(r) \/ DeleteConversation(r) \/ CreateDirect(r)

GroupSpec == GroupInit /\ [][GroupNext]_groupVars

-----------------------------------------------------------------------------
(* Properties. *)

\* The two rosters agree: one row for every participant and none for others, in any
\* interleaving of adds, removals and promotions, unless two adds of one person
\* looked before either wrote.
OneRowEachUnlessAddedTwice ==
  \A p \in People \ mixed.added :
    Len(RowsOf(p)) = (IF p \in group.participantIds THEN 1 ELSE 0)

\* Nothing of a deleted group is left, unless a request was under way, or had
\* posted between the two deletions, when it went.
NothingOutlivesGroupUnlessOverlap ==
  ~group.exists /\ ~mixed.deleting => posts = 0

\* Two people have one direct chat, however often both open it at once.
OneDirectChat == directs <= 1
=============================================================================
