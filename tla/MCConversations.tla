-------------------------- MODULE MCConversations --------------------------
(***************************************************************************)
(* What people have with one another: the messages of a conversation, the  *)
(* roster of a group, calls, two without faults or one with two, presence, *)
(* and statuses; what people mark messages with, and set for themselves;   *)
(* and what the Postgres back end keeps of them: accounts, punches,        *)
(* reminders, a chat and notifications.                                    *)
(* They share no state, so a behaviour follows one of them, and the others *)
(* rest as they began.                                                     *)
(***************************************************************************)
EXTENDS ChatProofs, FiniteSetTheorems, TLC

CONSTANTS
  c1, c2, ann, bob,                                   \* calls and people
  MaxViews,                                           \* Statuses
  Team, Creator, Supers, Adders, Editors, Renamers,   \* ChatGroups
  Connected, LastInstant, Interval,                     \* Presence
  Owners, Sendings, LastHour                           \* ChatSettings

\* Bounds, and times from 1.
ASSUME ViewConstants == MaxViews \in Nat
ASSUME GroupConstants == IsFiniteSet(Handlers)
ASSUME PresenceConstants == LastInstant \in Nat \ {0} /\ Interval \in Nat
ASSUME SettingsConstants == IsFiniteSet(Sendings) /\ LastHour \in Nat \ {0}

VARIABLES
  which,                                                     \* what is followed
  group, posts, directs, reqs, asked, mixed,                 \* ChatGroups
  active, logs, timer, inCall, handlers, trouble, failures,  \* Calls
  time, socket, onlineCounts, lastSeenAt, stored, writes,    \* Presence
  beat, busy, told, seen, lost, mishaps,
  peers, blocks, status, request, views, crossed, raced,     \* Statuses
  marked, roster, barred, put,                               \* MessageMarks
  hour, settings, row, last, sending, wish, hushed, overrun, \* ChatSettings
  req, requested, wrote, audit, cut, quiet,                  \* PgRequests
  users, meant, overtaken, tokens, heirs, renewed, out, slipped,   \* PgAccounts
  day, att, doubled, late,                                   \* PgPunches
  rem, setTo, editedOver,                                    \* PgReminders
  sent, preview, unread, rows, readTo, arrived, passed, shown,     \* PgChats
  owner, moves, note, job, heard, dry                        \* PgNotices

Groups ==
  INSTANCE ChatGroups WITH People <- Team, Requests <- Handlers

OneCall  == INSTANCE CallsProofs WITH Users <- {ann, bob}, Calls <- {c1}, MaxFaults <- 2,
              faults <- failures
TwoCalls == INSTANCE CallsProofs WITH Users <- {ann, bob}, Calls <- {c1, c2}, MaxFaults <- 0,
              faults <- failures

Online ==
  INSTANCE Presence WITH People <- Connected, Sockets <- Handlers, MaxTime <- LastInstant,
    clock <- time

Stories == INSTANCE Statuses WITH Stories <- ClientIds, Requests <- Handlers, MaxAsks <- MaxViews, asks <- views

Marks ==
  INSTANCE MessageMarks WITH People <- {ann, bob}, Direct <- "direct", Group <- "group",
    Emojis <- {"heart"}, Destinations <- {<<"group", "direct">>, <<"direct">>},
    Requests <- Handlers, MaxMsgs <- 3, msgs <- marked, asked <- requested

OwnSettings ==
  INSTANCE ChatSettings WITH People <- Owners, Direct <- "direct", Group <- "group",
    Requests <- Sendings, MaxTime <- LastHour, clock <- hour, send <- sending, asked <- requested,
    slipped <- overrun

\* Grants as the form would offer them: with branch codes in the business that has branches.
Hired(role, biz, codes) ==
  LET under == IF biz = "tk" THEN codes ELSE {"bare"}
  IN [email |-> "staff", role |-> role, biz |-> biz, branches |-> codes,
      groups |-> codes \X {"sales"}, depts |-> under \X {"acc"}, alerts |-> under \X {"crm"}]

PgHired == Hired("HOD", "tk", {"AMD"})
PgDrafts == {[Hired("DIRECTOR", "qa", {}) EXCEPT !.email = "new"]}
PgPatches ==
  {[email |-> "new"], [groups |-> {}, branches |-> {}, biz |-> "qa"]}

PgUsers ==
  INSTANCE PgAccounts WITH
    Ids <- {"boss", "ann", "new"}, Boss <- "boss", Staff <- "ann", StaffDraft <- PgHired,
    Drafts <- PgDrafts, Patches <- PgPatches, Tk <- "tk", Codes <- {"AMD", "BOM"},
    GroupNames <- {"sales"}, DeptNames <- [tk |-> {"acc"}, qa |-> {"acc", "ops"}],
    AlertNames <- [tk |-> {"crm"}, qa |-> {"crm"}], Tokens <- {"t1", "t2", "t3"},
    Requests <- Handlers, asked <- requested, raced <- renewed

PgDays ==
  INSTANCE PgPunches WITH Rows <- {"x1", "x2", "x3"}, MaxDay <- 1, Requests <- Handlers,
    asked <- requested

PgNotes ==
  INSTANCE PgReminders WITH
    Reminders <- {"rem"}, Viewers <- {"a", "m", "r"},
    RoleRank <- [SUPER_ADMIN |-> 0, HOD |-> 4, EMPLOYEE |-> 5],
    Meta <- [a |-> [role |-> "SUPER_ADMIN", branches |-> {"AMD", "BOM"}, dept |-> "none"],
             m |-> [role |-> "HOD", branches |-> {"AMD"}, dept |-> "acc"],
             r |-> [role |-> "EMPLOYEE", branches |-> {"AMD"}, dept |-> "acc"]],
    Text <- "as created", Texts <- {"as edited"}, Sections <- {"week"},
    Requests <- Handlers, asked <- requested, meant <- setTo, overtaken <- editedOver

PgTalk ==
  INSTANCE PgChats WITH Users <- {"ann", "bob"}, Members <- {"ann"}, MaxSent <- 2,
    Requests <- Handlers, MaxAsks <- 4, asked <- requested, crossed <- arrived

PgPushes ==
  INSTANCE PgNotices WITH Users <- {"ann", "bob"}, Phones <- {"p1"}, Notes <- {"n1"},
    MaxStalls <- 1, Requests <- Handlers, MaxAsks <- 4, asked <- requested

groups == <<group, posts, directs, reqs, asked, mixed>>
calls  == <<active, logs, timer, inCall, handlers, trouble, failures>>
online == <<time, socket, onlineCounts, lastSeenAt, stored, writes, beat, busy, told, seen, lost, mishaps>>
stories == <<peers, blocks, status, request, views, crossed, raced>>
marks  == <<marked, roster, barred, put>>
owns   == <<hour, settings, row, last, sending, wish, hushed, overrun>>
pgRequests == <<req, requested, wrote, audit, cut, quiet>>
pgUsers  == <<users, meant, overtaken, tokens, heirs, renewed, out, slipped>>
pgDays   == <<day, att, doubled, late>>
pgNotes  == <<rem, setTo, editedOver>>
pgTalk   == <<sent, preview, unread, rows, readTo, arrived, passed, shown>>
pgPushes == <<owner, moves, note, job, heard, dry>>
older    == <<pgUsers, pgDays, pgNotes, pgTalk, pgPushes>>
chats    == <<groups, calls, online, stories>>
mine     == <<marks, owns>>
newer    == <<vars, chats, mine>>

\* Only a followed group has more than one roster to begin with.
ConversationsInit ==
  /\ which \in {"messages", "groups", "call", "calls", "presence", "stories"}
               \cup {"marks", "settings"}
               \cup {"users", "days", "notes", "talk", "pushes"}
  /\ IF which = "messages" THEN Init ELSE Init /\ kind = "direct"
  /\ Groups!GroupInit
  /\ which # "groups" => group = Groups!NewGroup({Creator})
  /\ IF which = "call" THEN OneCall!Init ELSE TwoCalls!Init
  /\ Online!PresenceInit
  /\ Stories!StatusInit
  /\ Marks!MarksInit /\ marked[1].sender = ann
  /\ OwnSettings!SettingsInit
  /\ PgUsers!AccountsInit /\ PgDays!PunchesInit /\ PgNotes!RemindersInit
  /\ PgTalk!ChatsInit /\ PgPushes!NoticesInit
  /\ which # "pushes" => dry

\* Two people who are alike are told apart by what comes first, so these two bounds lose
\* nothing: the first message is not bob's, and the one call is ann's.
MessagesBound == msgs # << >> /\ msgs[1] # Gone => msgs[1].sender # bob

CallBound == \A h \in Handlers : handlers[h].pc = "check" => handlers[h].user = ann

\* Bounds on two calls: ann places c1, and c2 does not come before it; and the history
\* holds a call once.
CallsBound ==
  /\ \A h \in Handlers : handlers[h].pc = "check" =>
       \/ handlers[h].call = c1 /\ handlers[h].user = ann
       \/ handlers[h].call = c2 /\
            (active[c1] # TwoCalls!NoCall \/ \E g \in Handlers : handlers[g].pc = "check" /\ handlers[g].call = c1)
  /\ \A c \in {c1, c2} : Len(logs[c]) <= 1

ConversationsNext ==
  \/ which = "messages" /\ Next /\ MessagesBound' /\ UNCHANGED <<which, chats, mine, pgRequests, older>>
  \/ which = "groups" /\ Groups!GroupNext
     /\ UNCHANGED <<which, vars, calls, online, stories, mine, pgRequests, older>>
  \/ which = "call" /\ OneCall!Next /\ CallBound'
     /\ UNCHANGED <<which, vars, groups, online, stories, mine, pgRequests, older>>
  \/ which = "calls" /\ TwoCalls!Next /\ CallsBound'
     /\ UNCHANGED <<which, vars, groups, online, stories, mine, pgRequests, older>>
  \/ which = "presence" /\ Online!PresenceNext
     /\ UNCHANGED <<which, vars, groups, calls, stories, mine, pgRequests, older>>
  \/ which = "stories" /\ Stories!StatusNext
     /\ UNCHANGED <<which, vars, groups, calls, online, mine, pgRequests, older>>
  \/ which = "marks" /\ Marks!MarksNext
     /\ UNCHANGED <<which, vars, chats, owns, wrote, audit, cut, quiet, older>>
  \/ which = "settings" /\ OwnSettings!SettingsNext
     /\ UNCHANGED <<which, vars, chats, marks, req, wrote, audit, cut, quiet, older>>
  \/ which = "users" /\ PgUsers!AccountsNext
     /\ UNCHANGED <<which, newer, pgDays, pgNotes, pgTalk, pgPushes>>
  \/ which = "days" /\ PgDays!PunchesNext
     /\ UNCHANGED <<which, newer, pgUsers, pgNotes, pgTalk, pgPushes>>
  \/ which = "notes" /\ PgNotes!RemindersNext
     /\ UNCHANGED <<which, newer, pgUsers, pgDays, pgTalk, pgPushes>>
  \/ which = "talk" /\ PgTalk!ChatsNext
     /\ UNCHANGED <<which, newer, pgUsers, pgDays, pgNotes, pgPushes>>
  \/ which = "pushes" /\ PgPushes!NoticesNext
     /\ UNCHANGED <<which, newer, pgUsers, pgDays, pgNotes, pgTalk>>

ConversationsSpec ==
  ConversationsInit /\ [][ConversationsNext]_<<which, newer, pgRequests, older>>

Symmetry == Permutations(Handlers)

-----------------------------------------------------------------------------
\* A message is stored once for a client id, and whatever is unread has a badge, unless
\* requests crossed; reactions and stars are what each person left, and a forward names the
\* message it comes from in the end.
MessagesHold ==
  /\ which = "messages" => OneMessagePerClientIdUnlessRace /\ BadgeCoversUnreadUnlessCrossed
  /\ which = "marks" =>
       Marks!MarksTypeOK /\ Marks!MarksAreTheirs /\ Marks!ForwardsNameTheFirst

\* A message has the types, ticks and receipts it should; its ticks never show more than
\* its receipts say, and catch up with them unless two reckonings crossed.
TicksHold == which = "messages" => TypeOK /\ TicksNeverAhead /\ TicksCatchUpUnlessCrossed

\* What a person deleted stays gone: a chat they cleared does not come back silently
\* with a badge, and deleted words leave the preview too, unless requests crossed; and no pin, star or search
\* brings back what is hidden.
DeletedIsGone ==
  /\ which = "messages" =>
       HiddenChatIsSilentUnlessCrossed /\ DeletedWordsAreGoneUnlessCrossed
  /\ which = "marks" => Marks!ViewsLeadToThread

\* A person has one row in a group's roster, and no message outlives its group.
GroupsHold ==
  which = "groups" =>
    /\ Groups!GroupTypeOK
    /\ Groups!OneRowEachUnlessAddedTwice
    /\ Groups!NothingOutlivesGroupUnlessOverlap

\* A call that is gone has its row in the history, and but for trouble no more; in-call
\* flags have a call behind them, and unanswered calls somebody who ends them.
CallsHold ==
  /\ which = "call" =>
       /\ OneCall!TypeOK
       /\ OneCall!GoneIsLogged /\ OneCall!OneLogUnlessTrouble
       /\ OneCall!InCallHasCause /\ OneCall!UnansweredIsWatched
  /\ which = "calls" =>
       /\ TwoCalls!TypeOK
       /\ TwoCalls!GoneIsLogged /\ TwoCalls!OneLogUnlessTrouble
       /\ TwoCalls!InCallHasCause /\ TwoCalls!UnansweredIsWatched

\* The count of connections never drifts, everybody was told how a person is, and last
\* seen is true to within a heartbeat; a block keeps messages from passing unless it crosses
\* one, and hides two people from one another where presence is asked for, not in the list; and
\* the badge and the list show what a person asked for.
PresenceHolds ==
  /\ which = "presence" =>
       /\ Online!PresenceTypeOK
       /\ Online!CountsAreConnections
       /\ Online!ToldIsStatus
       /\ Online!LastSeenWithinABeatUnlessLost
  /\ which = "settings" =>
       /\ OwnSettings!SettingsTypeOK
       /\ OwnSettings!BlockedIsSilentUnlessCrossed
       /\ OwnSettings!MutedAsAsked
       /\ OwnSettings!BadgeIsTheListUnlessLapsed
       /\ OwnSettings!HiddenFromOthersUnlessListed

\* A person is one viewer of a status, and one it was meant for.
StoriesHold ==
  which = "stories" =>
    /\ Stories!StatusTypeOK
    /\ Stories!OneViewerRowUnlessRaced
    /\ Stories!ViewersWereMeant

\* Of the Postgres back end, accounts, punches and reminders audit every change but for a
\* request cut off before its row; chats and notifications do not audit marking read nor
\* notify, and audit the rest; and unless requests cross, its users are valid and shown what
\* they were granted, edits stand, a refresh token has one heir, a day has one row, a counter
\* counts, and a push goes to its person.
OldBackEndHolds ==
  /\ which = "users" =>
       /\ PgUsers!AccountsTypeOK /\ PgUsers!EveryMutationIsAuditedUnlessCut
       /\ PgUsers!StoredUsersAreValid /\ PgUsers!EditsStandUnlessOvertaken
       /\ PgUsers!OneHeirUnlessRaced /\ PgUsers!LoggedOutHasNoHeirUnlessInFlight
       /\ PgUsers!ShownIsWhatWasGranted
  /\ which = "days" =>
       /\ PgDays!PunchesTypeOK /\ PgDays!EveryMutationIsAuditedUnlessCut
       /\ PgDays!OneRowPerDayUnlessCrossed /\ PgDays!WhoIsInWasPresent
  /\ which = "notes" =>
       /\ PgNotes!RemindersTypeOK /\ PgNotes!EveryMutationIsAuditedUnlessCut
       /\ PgNotes!LiveIsOnATab /\ PgNotes!EditsStandUnlessOvertaken
       /\ PgNotes!GroupsHoldEverythingOnce
  /\ which = "talk" =>
       /\ PgTalk!ChatsTypeOK /\ PgTalk!AuditFollowsUnlessCutOrQuiet
       /\ PgTalk!BadgeCountsUnreadUnlessCrossed /\ PgTalk!PreviewIsNewestUnlessPassed
  /\ which = "pushes" =>
       /\ PgPushes!NoticesTypeOK /\ PgPushes!AuditFollowsUnlessCutOrQuiet
       /\ PgPushes!PushGoesToOwnerUnlessMoved /\ PgPushes!HeardOnceUnlessStalled

\* A status appears to those who share a conversation with its poster and no block.
AppearsOnlyToPeers ==
  [][which = "stories" => Stories!AppearsUnlessCrossed]_<<which, stories>>

\* A call that is over stays over.
NeverRevived ==
  [][/\ which = "call" => OneCall!StaysOver(c1)
     /\ which = "calls" => \A c \in {c1, c2} : TwoCalls!StaysOver(c)]_<<which, calls>>

-----------------------------------------------------------------------------
(* Proofs: what is proved of the statuses, and what ChatProofs, CallsProofs and         *)
(* MessageMarks prove, for the conversation, calls and marks followed here.             *)


StatusRecord ==
  [pc : {"none", "posting", "up", "gone"}, by : People \cup {Stories!Nobody}, audience : SUBSET People,
   viewers : SUBSET [who : People, at : Handlers \X Nat], expired : BOOLEAN]

\* What a request is about: only of a status that is being posted does it hold readings,
\* and those are what they would be now, unless something changed meanwhile.
StatusReading(m) ==
  /\ m.of \in ClientIds /\ m.who \in People
  /\ status[m.of].pc = "posting" /\ status[m.of].by = m.who
  /\ m.of \notin crossed =>
       /\ m.pc = "peers" => m.reach = peers[m.who]
       /\ m.pc = "blocked" => m.reach = {q \in peers[m.who] : <<m.who, q>> \notin blocks}
  /\ m.pc \in {"peers", "blocked"} => m.reach \subseteq People

\* A view waits for a status that was up, for somebody it was meant for.
StatusViewing(m) ==
  /\ m.of \in ClientIds /\ m.who \in People
  /\ m = [pc |-> "view", who |-> m.who, of |-> m.of, reach |-> {}]
  /\ status[m.of].pc \in {"up", "gone"}
  /\ status[m.of].pc = "up" => m.who \in status[m.of].audience
  /\ Stories!Viewed(m.who, m.of) => <<m.of, m.who>> \in raced

StatusPending(m) ==
  /\ m = [pc |-> m.pc, who |-> m.who, of |-> m.of, reach |-> m.reach]
  /\ m.pc \in {"none", "idle", "post", "peers", "blocked", "view", "remove"}
  /\ m.pc \in {"post", "peers", "blocked"} => StatusReading(m)
  /\ m.pc = "view" => StatusViewing(m)
  /\ m.pc = "remove" => m.of \in ClientIds /\ status[m.of].pc \in {"up", "gone"}

\* One request posts a status; two that add one viewer to it raced.
RequestsApart ==
  \A r, q \in Handlers : r # q /\ request[r].of = request[q].of =>
    /\ ~(request[r].pc \in {"post", "peers", "blocked"} /\ request[q].pc \in {"post", "peers", "blocked"})
    /\ request[r].pc = "view" /\ request[q].pc = "view" /\ request[r].who = request[q].who =>
         <<request[r].of, request[r].who>> \in raced

\* Nobody has seen a status that is not up, and only one that is up is about to expire.
StatusShown(s) ==
  /\ status[s].pc # "up" => status[s].viewers = {} /\ ~status[s].expired
  /\ status[s].pc = "none" => status[s] = Stories!NoStatus

\* The inductive invariant.
StatusInv ==
  /\ Stories!StatusTypeOK
  /\ status \in [ClientIds -> StatusRecord] /\ request = [r \in Handlers |-> request[r]]
  /\ \A s \in ClientIds : StatusShown(s)
  /\ \A r \in Handlers : StatusPending(request[r])
  /\ RequestsApart
  /\ Stories!OneViewerRowUnlessRaced
  /\ Stories!ViewersWereMeant

\* Nobody waits for anything when they are answered.
LEMMA IdleWaits == StatusPending(Stories!Idle) /\ StatusPending(Stories!Idle)' /\ Stories!Idle.pc = "idle"
BY DEF StatusPending, Stories!Idle

LEMMA StatusBegins == ASSUME Stories!StatusInit PROVE StatusInv
<1>1. /\ peers \in [People -> SUBSET People] /\ blocks = {} /\ views = 0 /\ crossed = {} /\ raced = {}
      /\ status = [s \in ClientIds |-> Stories!NoStatus] /\ request = [r \in Handlers |-> Stories!Idle]
  BY DEF Stories!StatusInit
<1>2. /\ Stories!NoStatus \in StatusRecord /\ Stories!NoStatus.pc = "none" /\ Stories!NoStatus.audience = {}
      /\ Stories!NoStatus.viewers = {} /\ Stories!NoStatus.expired = FALSE /\ Stories!Idle.pc = "idle"
  BY DEF Stories!NoStatus, StatusRecord, Stories!Idle
<1>3. Stories!StatusTypeOK
  BY <1>1, <1>2, ViewConstants DEF Stories!StatusTypeOK
<1>4. status \in [ClientIds -> StatusRecord] /\ request = [r \in Handlers |-> request[r]]
  BY <1>1, <1>2
<1>5. \A s \in ClientIds : StatusShown(s)
  BY <1>1, <1>2 DEF StatusShown
<1>6. (\A r \in Handlers : StatusPending(request[r])) /\ RequestsApart
  BY <1>1, <1>2, IdleWaits DEF RequestsApart
<1>7. Stories!OneViewerRowUnlessRaced /\ Stories!ViewersWereMeant
  BY <1>1, <1>2 DEF Stories!OneViewerRowUnlessRaced, Stories!ViewersWereMeant
<1> QED BY <1>3, <1>4, <1>5, <1>6, <1>7 DEF StatusInv

\* What the invariant says of a status, and of a request that is at work.
LEMMA OfStatuses ==
  ASSUME StatusInv
  PROVE  /\ peers \in [People -> SUBSET People] /\ blocks \subseteq People \X People
         /\ views \in 0..MaxViews /\ views \in Nat
         /\ crossed \subseteq ClientIds /\ raced \subseteq ClientIds \X People
         /\ status \in [ClientIds -> StatusRecord] /\ request = [r \in Handlers |-> request[r]]
         /\ \A s \in ClientIds : /\ status[s].pc \in {"none", "posting", "up", "gone"}
                               /\ status[s].audience \subseteq People
                               /\ status[s].viewers \subseteq [who : People, at : Handlers \X Nat]
         /\ \A r \in Handlers : StatusPending(request[r])
         /\ \A s \in ClientIds : StatusShown(s)
BY ViewConstants DEF StatusInv, Stories!StatusTypeOK, StatusRecord

\* A step that changes no status.
LEMMA StatusesStay ==
  ASSUME StatusInv, UNCHANGED status, raced \subseteq raced',
         raced' \subseteq ClientIds \X People, crossed' \subseteq ClientIds,
         peers' \in [People -> SUBSET People], blocks' \subseteq People \X People,
         views' \in 0..MaxViews, request' = [r \in Handlers |-> request'[r]],
         RequestsApart', \A r \in Handlers : StatusPending(request[r])'
  PROVE  StatusInv'
<1>1. Stories!StatusTypeOK'
  BY DEF StatusInv, Stories!StatusTypeOK
<1>2. (\A s \in ClientIds : StatusShown(s))'
  BY DEF StatusInv, StatusShown
<1>3. Stories!OneViewerRowUnlessRaced' /\ Stories!ViewersWereMeant'
  BY DEF StatusInv, Stories!OneViewerRowUnlessRaced, Stories!ViewersWereMeant
<1> QED BY <1>1, <1>2, <1>3 DEF StatusInv

\* A request goes on alone: the others stand where they were.
LEMMA StatusGoesOn ==
  ASSUME StatusInv, UNCHANGED <<status, peers, blocks, crossed>>,
         raced \subseteq raced', raced' \subseteq ClientIds \X People, views' \in 0..MaxViews,
         NEW r \in Handlers, NEW next, request' = [request EXCEPT ![r] = next],
         StatusPending(next)',
         next.pc \in {"post", "peers", "blocked"} =>
           /\ request[r].pc \in {"post", "peers", "blocked"} /\ request[r].of = next.of,
         next.pc = "view" =>
           \A q \in Handlers \ {r} :
             request[q].pc = "view" /\ request[q].of = next.of /\ request[q].who = next.who =>
               <<next.of, next.who>> \in raced'
  PROVE  StatusInv'
<1>1. /\ request' = [q \in Handlers |-> request'[q]] /\ request'[r] = next
      /\ \A q \in Handlers \ {r} : request'[q] = request[q]
  BY DEF StatusInv
<1>2. \A m : StatusPending(m) => StatusPending(m)'
  BY DEF StatusPending, StatusReading, StatusViewing, Stories!Viewed
<1>3. \A q \in Handlers : StatusPending(request[q])'
  BY <1>1, <1>2 DEF StatusInv
<1>4. RequestsApart'
  <2> SUFFICES ASSUME NEW p \in Handlers, NEW q \in Handlers, p # q, request'[p].of = request'[q].of
               PROVE  /\ ~(request'[p].pc \in {"post", "peers", "blocked"}
                           /\ request'[q].pc \in {"post", "peers", "blocked"})
                      /\ request'[p].pc = "view" /\ request'[q].pc = "view"
                         /\ request'[p].who = request'[q].who =>
                           <<request'[p].of, request'[p].who>> \in raced'
    BY DEF RequestsApart
  <2>1. RequestsApart
    BY DEF StatusInv
  <2>2. CASE p # r /\ q # r
    BY <1>1, <2>1, <2>2 DEF RequestsApart
  <2>3. CASE p = r
    BY <1>1, <2>1, <2>3 DEF RequestsApart
  <2>4. CASE q = r
    BY <1>1, <2>1, <2>4 DEF RequestsApart
  <2> QED BY <2>2, <2>3, <2>4
<1> QED BY <1>1, <1>3, <1>4, StatusesStay, OfStatuses

LEMMA ReadingsKeep ==
  ASSUME StatusInv, NEW r \in Handlers
  PROVE  /\ Stories!ReadPeers(r) => StatusInv'
         /\ Stories!ReadBlocked(r) => StatusInv'
         /\ \A p \in People, s \in ClientIds : Stories!remove(r, p, s) => StatusInv'
         /\ \A p \in People, s \in ClientIds : Stories!markViewed(r, p, s) => StatusInv'
<1>1. ASSUME Stories!ReadPeers(r) PROVE StatusInv'
  <2>1. PICK next : next = [request[r] EXCEPT !.pc = "peers", !.reach = peers[request[r].who]]
    OBVIOUS
  <2>2. /\ request' = [request EXCEPT ![r] = next] /\ request[r].pc = "post"
        /\ UNCHANGED <<peers, blocks, status, views, crossed, raced>>
    BY <1>1, <2>1, OfStatuses DEF Stories!ReadPeers, Stories!At
  <2>3. StatusPending(request[r])
    BY OfStatuses
  <2>4. /\ next.pc = "peers" /\ next.who = request[r].who /\ next.of = request[r].of
        /\ next.reach = peers[request[r].who]
        /\ next = [pc |-> next.pc, who |-> next.who, of |-> next.of, reach |-> next.reach]
    BY <2>1, <2>3 DEF StatusPending
  <2>5. StatusReading(next)
    BY <2>2, <2>3, <2>4, OfStatuses DEF StatusPending, StatusReading
  <2>6. StatusPending(next)'
    BY <2>2, <2>4, <2>5 DEF StatusPending, StatusReading
  <2> QED BY <2>2, <2>4, <2>6, StatusGoesOn, OfStatuses
<1>2. ASSUME Stories!ReadBlocked(r) PROVE StatusInv'
  <2>1. PICK next : next = [request[r] EXCEPT !.pc = "blocked",
                              !.reach = {q \in @ : <<request[r].who, q>> \notin blocks}]
    OBVIOUS
  <2>2. /\ request' = [request EXCEPT ![r] = next] /\ request[r].pc = "peers"
        /\ UNCHANGED <<peers, blocks, status, views, crossed, raced>>
    BY <1>2, <2>1, OfStatuses DEF Stories!ReadBlocked, Stories!At
  <2>3. StatusPending(request[r])
    BY OfStatuses
  <2>4. /\ next.pc = "blocked" /\ next.who = request[r].who /\ next.of = request[r].of
        /\ next.reach = {q \in request[r].reach : <<request[r].who, q>> \notin blocks}
        /\ next = [pc |-> next.pc, who |-> next.who, of |-> next.of, reach |-> next.reach]
    BY <2>1, <2>3 DEF StatusPending
  <2>5. StatusReading(next)
    BY <2>2, <2>3, <2>4, OfStatuses DEF StatusPending, StatusReading
  <2>6. StatusPending(next)'
    BY <2>2, <2>4, <2>5 DEF StatusPending, StatusReading
  <2> QED BY <2>2, <2>4, <2>6, StatusGoesOn, OfStatuses
<1>3. ASSUME NEW p \in People, NEW s \in ClientIds, Stories!remove(r, p, s) PROVE StatusInv'
  <2>1. PICK next : next = [Stories!Idle EXCEPT !.pc = "remove", !.who = p, !.of = s]
    OBVIOUS
  <2>2. /\ request' = [request EXCEPT ![r] = next] /\ status[s].pc = "up"
        /\ UNCHANGED <<peers, blocks, status, crossed, raced>> /\ views' \in 0..MaxViews
    BY <1>3, <2>1, OfStatuses, ViewConstants DEF Stories!remove, Stories!Ask
  <2>3. /\ next.pc = "remove" /\ next.of = s
        /\ next = [pc |-> next.pc, who |-> next.who, of |-> next.of, reach |-> next.reach]
    BY <2>1 DEF Stories!Idle
  <2>4. StatusPending(next)'
    BY <2>2, <2>3 DEF StatusPending
  <2> QED BY <2>2, <2>3, <2>4, StatusGoesOn, OfStatuses
<1>4. ASSUME NEW p \in People, NEW s \in ClientIds, Stories!markViewed(r, p, s) PROVE StatusInv'
  <2>1. PICK next : next = [Stories!Idle EXCEPT !.pc = "view", !.who = p, !.of = s]
    OBVIOUS
  <2>2. /\ request' = [request EXCEPT ![r] = next] /\ Stories!Allowed(p, s) /\ ~Stories!Viewed(p, s)
        /\ status[s].by # p
        /\ UNCHANGED <<peers, blocks, status, crossed>> /\ views' \in 0..MaxViews
        /\ raced' = IF \E q \in Handlers : request[q] = next THEN raced \cup {<<s, p>>} ELSE raced
    BY <1>4, <2>1, OfStatuses, ViewConstants DEF Stories!markViewed, Stories!Ask
  <2>3. /\ next.pc = "view" /\ next.of = s /\ next.who = p
        /\ next = [pc |-> next.pc, who |-> next.who, of |-> next.of, reach |-> next.reach]
        /\ next = [pc |-> "view", who |-> p, of |-> s, reach |-> {}]
    BY <2>1 DEF Stories!Idle
  <2>4. StatusViewing(next) /\ ~Stories!Viewed(p, s)'
    BY <2>2, <2>3 DEF StatusViewing, Stories!Allowed, Stories!Viewed
  <2>5. StatusPending(next)'
    BY <2>2, <2>3, <2>4 DEF StatusPending, StatusViewing
  <2>6. \A q \in Handlers : request[q].pc = "view" /\ request[q].of = s /\ request[q].who = p =>
          request[q] = next
    <3>1. \A q \in Handlers : request[q].pc = "view" => StatusViewing(request[q])
      BY OfStatuses DEF StatusPending
    <3> QED BY <2>3, <3>1 DEF StatusViewing
  <2>7. raced \subseteq raced' /\ raced' \subseteq ClientIds \X People
    BY <2>2, OfStatuses
  <2>8. \A q \in Handlers \ {r} : request[q].pc = "view" /\ request[q].of = next.of /\ request[q].who = next.who =>
           <<next.of, next.who>> \in raced'
    BY <2>2, <2>3, <2>6
  <2> QED BY <2>2, <2>3, <2>5, <2>7, <2>8, StatusGoesOn
<1> QED BY <1>1, <1>2, <1>3, <1>4

\* Peers and blocks change: whoever is posting then is crossed.
LEMMA RelationsKeep ==
  ASSUME StatusInv, NEW p \in People, NEW q \in People
  PROVE  /\ Stories!Block(p, q) => StatusInv'
         /\ Stories!PartWays(p, q) => StatusInv'
<1>1. ASSUME UNCHANGED <<status, request, views, raced>>,
             crossed' = crossed \cup Stories!Posting(p) \cup Stories!Posting(q),
             peers' \in [People -> SUBSET People], blocks' \subseteq People \X People,
             \A o \in People \ {p, q} :
               peers'[o] = peers[o] /\ \A x : <<o, x>> \in blocks' <=> <<o, x>> \in blocks
      PROVE  StatusInv'
  <2>1. \A r \in Handlers : request[r].pc \in {"post", "peers", "blocked"} => StatusReading(request[r])
    BY OfStatuses DEF StatusPending
  <2>2. crossed' \subseteq ClientIds
    <3>1. \A r \in Handlers : request[r].pc \in {"peers", "blocked"} => request[r].of \in ClientIds
      BY <2>1 DEF StatusReading
    <3> QED BY <1>1, <3>1, OfStatuses DEF Stories!Posting
  <2>3. ASSUME NEW r \in Handlers, request[r].pc \in {"post", "peers", "blocked"}
        PROVE  StatusReading(request[r])'
    <3>1. StatusReading(request[r])
      BY <2>1, <2>3
    <3>2. /\ request'[r] = request[r] /\ status' = status
          /\ request[r].who \in {p, q} /\ request[r].pc # "post" => request[r].of \in crossed'
          /\ crossed \subseteq crossed'
      BY <1>1, <2>3 DEF Stories!Posting
    <3>3. CASE request[r].of \in crossed' \/ request[r].pc = "post"
      BY <1>1, <3>1, <3>2, <3>3 DEF StatusReading
    <3>4. CASE request[r].of \notin crossed' /\ request[r].pc # "post"
      <4>1. request[r].who \in People \ {p, q} /\ request[r].of \notin crossed
        BY <3>1, <3>2, <3>4 DEF StatusReading
      <4> QED BY <1>1, <3>1, <3>2, <3>4, <4>1 DEF StatusReading
    <3> QED BY <3>3, <3>4
  <2>4. \A r \in Handlers : request[r].pc = "view" => (StatusViewing(request[r]) <=> StatusViewing(request[r])')
    BY <1>1 DEF StatusViewing, Stories!Viewed
  <2>5. \A r \in Handlers : StatusPending(request[r])'
    BY <1>1, <2>3, <2>4, OfStatuses DEF StatusPending
  <2>6. RequestsApart'
    BY <1>1 DEF StatusInv, RequestsApart
  <2> QED BY <1>1, <2>2, <2>5, <2>6, StatusesStay, OfStatuses
<1>2. ASSUME Stories!Block(p, q) PROVE StatusInv'
  BY <1>1, <1>2, OfStatuses DEF Stories!Block
<1>3. ASSUME Stories!PartWays(p, q) PROVE StatusInv'
  <2>1. peers' = [peers EXCEPT ![p] = @ \ {q}, ![q] = @ \ {p}]
    BY <1>3 DEF Stories!PartWays
  <2>2. peers' \in [People -> SUBSET People] /\ \A o \in People \ {p, q} : peers'[o] = peers[o]
    BY <2>1, OfStatuses
  <2> QED BY <1>1, <1>3, <2>2, OfStatuses DEF Stories!PartWays
<1> QED BY <1>2, <1>3

\* A step that changes one status, and perhaps ends a request.
LEMMA OneStatusChanges ==
  ASSUME StatusInv, NEW s \in ClientIds, NEW new \in StatusRecord,
         status' = [status EXCEPT ![s] = new], UNCHANGED <<peers, blocks, crossed, raced>>,
         views' \in 0..MaxViews, request' = [r \in Handlers |-> request'[r]],
         \A r \in Handlers : request'[r] = request[r] \/ request'[r] = Stories!Idle
                             \/ /\ request'[r].pc = "post" /\ request'[r].of = s
                                /\ \A q \in Handlers \ {r} :
                                     /\ request'[q] = request[q]
                                     /\ request[q].of = s =>
                                          request[q].pc \notin {"post", "peers", "blocked"},
         \A r \in Handlers : StatusPending(request[r])',
         new.pc # "up" => new.viewers = {} /\ ~new.expired,
         new.pc = "none" => new = Stories!NoStatus,
         \A v, w \in new.viewers : v.who = w.who => v = w \/ <<s, v.who>> \in raced,
         \A v \in new.viewers : v.who \in new.audience
  PROVE  StatusInv'
<1>1. /\ status' \in [ClientIds -> StatusRecord] /\ status'[s] = new
      /\ \A o \in ClientIds \ {s} : status'[o] = status[o]
  BY OfStatuses
<1>2. Stories!StatusTypeOK'
  <2>1. \A o \in ClientIds : status'[o].pc \in {"none", "posting", "up", "gone"} /\ status'[o].audience \subseteq People
    BY <1>1 DEF StatusRecord
  <2> QED BY <1>1, <2>1, OfStatuses DEF Stories!StatusTypeOK
<1>3. (\A o \in ClientIds : StatusShown(o))'
  BY <1>1, OfStatuses DEF StatusShown
<1>4. RequestsApart'
  <2>1. RequestsApart /\ Stories!Idle.pc = "idle"
    BY DEF StatusInv, Stories!Idle
  <2> SUFFICES ASSUME NEW p \in Handlers, NEW q \in Handlers, p # q, request'[p].of = request'[q].of
               PROVE  /\ ~(request'[p].pc \in {"post", "peers", "blocked"}
                           /\ request'[q].pc \in {"post", "peers", "blocked"})
                      /\ request'[p].pc = "view" /\ request'[q].pc = "view"
                         /\ request'[p].who = request'[q].who =>
                           <<request'[p].of, request'[p].who>> \in raced'
    BY DEF RequestsApart
  <2>2. CASE request'[p] = request[p] /\ request'[q] = request[q]
    BY <2>1, <2>2 DEF RequestsApart
  <2>3. CASE request'[p] = Stories!Idle \/ request'[q] = Stories!Idle
    BY <2>1, <2>3
  <2>4. CASE /\ request'[p].pc = "post" /\ request'[p].of = s
            /\ \A o \in Handlers \ {p} :
                 /\ request'[o] = request[o]
                 /\ request[o].of = s => request[o].pc \notin {"post", "peers", "blocked"}
    BY <2>4
  <2>5. CASE /\ request'[q].pc = "post" /\ request'[q].of = s
            /\ \A o \in Handlers \ {q} :
                 /\ request'[o] = request[o]
                 /\ request[o].of = s => request[o].pc \notin {"post", "peers", "blocked"}
    BY <2>5
  <2> QED BY <2>2, <2>3, <2>4, <2>5
<1>5. Stories!OneViewerRowUnlessRaced'
  BY <1>1 DEF StatusInv, Stories!OneViewerRowUnlessRaced
<1>6. Stories!ViewersWereMeant'
  BY <1>1 DEF StatusInv, Stories!ViewersWereMeant
<1> QED BY <1>1, <1>2, <1>3, <1>4, <1>5, <1>6 DEF StatusInv

\* A new status, and one that goes up, is seen by nobody yet.
LEMMA PostsKeep ==
  ASSUME StatusInv, NEW r \in Handlers
  PROVE  /\ \A p \in People, s \in ClientIds : Stories!Post(r, p, s) => StatusInv'
         /\ Stories!CreateStatus(r) => StatusInv'
<1>1. ASSUME NEW p \in People, NEW s \in ClientIds, Stories!Post(r, p, s) PROVE StatusInv'
  <2>1. PICK next : next = [Stories!Idle EXCEPT !.pc = "post", !.who = p, !.of = s]
    OBVIOUS
  <2>2. PICK new : new = [Stories!NoStatus EXCEPT !.pc = "posting", !.by = p]
    OBVIOUS
  <2>3. /\ request' = [request EXCEPT ![r] = next] /\ request[r] = Stories!Idle /\ status[s] = Stories!NoStatus
        /\ status' = [status EXCEPT ![s] = new] /\ views' \in 0..MaxViews
        /\ UNCHANGED <<peers, blocks, crossed, raced>>
    BY <1>1, <2>1, <2>2, OfStatuses, ViewConstants DEF Stories!Post, Stories!Ask
  <2>4. /\ next.pc = "post" /\ next.who = p /\ next.of = s
        /\ next = [pc |-> next.pc, who |-> next.who, of |-> next.of, reach |-> next.reach]
    BY <2>1 DEF Stories!Idle
  <2>5. /\ new \in StatusRecord /\ new.pc = "posting" /\ new.by = p /\ new.viewers = {}
        /\ new.expired = FALSE /\ new.audience = {}
    BY <2>2 DEF Stories!NoStatus, StatusRecord
  <2>6. /\ status' \in [ClientIds -> StatusRecord] /\ status'[s] = new
        /\ \A o \in ClientIds \ {s} : status'[o] = status[o]
    BY <2>3, <2>5, OfStatuses
  <2>7. /\ request' = [q \in Handlers |-> request'[q]] /\ request'[r] = next
        /\ \A q \in Handlers \ {r} : request'[q] = request[q]
    BY <2>3, OfStatuses
  \* No other request is about a status that is not there.
  <2>8. status[s].pc = "none"
    BY <2>3 DEF Stories!NoStatus
  <2>9. \A q \in Handlers : request[q].pc \in {"post", "peers", "blocked", "view", "remove"} => request[q].of # s
    BY <2>8, OfStatuses DEF StatusPending, StatusReading, StatusViewing
  <2>10. \A q \in Handlers : StatusPending(request[q])'
    <3>1. StatusPending(next)'
      BY <2>3, <2>4, <2>5, <2>6 DEF StatusPending, StatusReading
    <3>2. ASSUME NEW m, StatusPending(m), m.pc \in {"post", "peers", "blocked", "view", "remove"} => m.of # s
          PROVE  StatusPending(m)'
      BY <2>3, <2>6, <3>2 DEF StatusPending, StatusReading, StatusViewing, Stories!Viewed
    <3> QED BY <2>7, <2>9, <3>1, <3>2, OfStatuses
  <2>11. \A q \in Handlers : request'[q] = request[q] \/ request'[q] = Stories!Idle
                             \/ /\ request'[q].pc = "post" /\ request'[q].of = s
                                /\ \A o \in Handlers \ {q} :
                                     /\ request'[o] = request[o]
                                     /\ request[o].of = s =>
                                          request[o].pc \notin {"post", "peers", "blocked"}
    BY <2>4, <2>7, <2>9
  <2> QED BY <2>3, <2>5, <2>7, <2>10, <2>11, OneStatusChanges
<1>2. ASSUME Stories!CreateStatus(r) PROVE StatusInv'
  <2>1. PICK m : m = request[r]
    OBVIOUS
  <2>2. PICK new : new = [status[m.of] EXCEPT !.pc = "up", !.audience = {q \in m.reach : <<q, m.who>> \notin blocks}]
    OBVIOUS
  <2>3. /\ m.pc = "blocked" /\ StatusReading(m)
    BY <1>2, <2>1, OfStatuses DEF Stories!CreateStatus, Stories!At, StatusPending
  <2>4. /\ status' = [status EXCEPT ![m.of] = new]
        /\ request' = [request EXCEPT ![r] = Stories!Idle] /\ UNCHANGED <<peers, blocks, views, crossed, raced>>
    BY <1>2, <2>1, <2>2, <2>3, OfStatuses DEF Stories!CreateStatus, Stories!Answer, StatusReading
  <2>5. m.of \in ClientIds /\ status[m.of] \in StatusRecord /\ m.reach \subseteq People
    BY <2>3, OfStatuses DEF StatusReading
  <2>6. status[m.of].viewers = {} /\ status[m.of].expired = FALSE
    BY <2>3, <2>5, OfStatuses DEF StatusShown, StatusReading, StatusRecord
  <2>7. new \in StatusRecord /\ new.pc = "up" /\ new.viewers = {}
    BY <2>2, <2>5, <2>6 DEF StatusRecord
  <2>8. /\ request' = [q \in Handlers |-> request'[q]] /\ request'[r] = Stories!Idle
        /\ \A q \in Handlers \ {r} : request'[q] = request[q]
    BY <2>4, OfStatuses
  <2>9. \A q \in Handlers \ {r} : StatusPending(request[q]) /\ (request[q].of = m.of =>
          request[q].pc \notin {"post", "peers", "blocked", "view", "remove"})
    <3>1. RequestsApart /\ status[m.of].pc = "posting"
      BY <2>3 DEF StatusInv, StatusReading
    <3>2. \A q \in Handlers \ {r} : request[q].of = m.of => request[q].pc \notin {"post", "peers", "blocked"}
      BY <2>1, <2>3, <3>1 DEF RequestsApart
    <3>3. \A q \in Handlers \ {r} : StatusPending(request[q])
      BY OfStatuses
    <3> QED BY <3>1, <3>2, <3>3 DEF StatusPending, StatusViewing
  <2>10. \A q \in Handlers : StatusPending(request[q])'
    <3>1. ASSUME NEW n, StatusPending(n), n.of = m.of => n.pc \notin {"post", "peers", "blocked", "view", "remove"}
          PROVE  StatusPending(n)'
      <4>1. \A o \in ClientIds \ {m.of} : status'[o] = status[o]
        BY <2>4, <2>5, OfStatuses
      <4> QED BY <2>4, <3>1, <4>1 DEF StatusPending, StatusReading, StatusViewing, Stories!Viewed
    <3> QED BY <2>8, <2>9, <3>1, IdleWaits
  <2>11. \A q \in Handlers : request'[q] = request[q] \/ request'[q] = Stories!Idle
    BY <2>8
  <2> QED BY <2>4, <2>5, <2>7, <2>8, <2>10, <2>11, OneStatusChanges, OfStatuses
<1> QED BY <1>1, <1>2

\* A status goes for good.
LEMMA GoneIsGone ==
  ASSUME StatusInv, NEW s \in ClientIds, status[s].pc \in {"up", "gone"},
         status' = [status EXCEPT ![s] = [Stories!NoStatus EXCEPT !.pc = "gone"]],
         UNCHANGED <<peers, blocks, views, crossed, raced>>,
         request' = [r \in Handlers |-> request'[r]],
         \A r \in Handlers : request'[r] = request[r] \/ request'[r] = Stories!Idle
  PROVE  StatusInv'
<1>1. PICK new : new = [Stories!NoStatus EXCEPT !.pc = "gone"]
  OBVIOUS
<1>2. /\ new \in StatusRecord /\ new.pc = "gone" /\ new.viewers = {} /\ ~new.expired
      /\ status' = [status EXCEPT ![s] = new]
  BY <1>1 DEF Stories!NoStatus, StatusRecord
<1>3. status'[s] = new /\ \A o \in ClientIds \ {s} : status'[o] = status[o]
  BY <1>2, OfStatuses
<1>4. ASSUME NEW m, StatusPending(m) PROVE StatusPending(m)'
  BY <1>2, <1>3, <1>4 DEF StatusPending, StatusReading, StatusViewing, Stories!Viewed
<1>5. \A r \in Handlers : StatusPending(request[r])'
  BY <1>4, IdleWaits, OfStatuses
<1> QED BY <1>2, <1>5, OneStatusChanges, OfStatuses

\* A viewer is added, if the status is still up; a status goes.
LEMMA ViewsKeep ==
  ASSUME StatusInv, NEW r \in Handlers
  PROVE  /\ Stories!AddViewer(r) => StatusInv'
         /\ Stories!DeleteStatus(r) => StatusInv'
<1>1. PICK m : m = request[r]
  OBVIOUS
<1>2. ASSUME Stories!AddViewer(r) PROVE StatusInv'
  <2>1. /\ m.pc = "view" /\ StatusViewing(m) /\ m.of \in ClientIds
        /\ request' = [request EXCEPT ![r] = Stories!Idle] /\ UNCHANGED <<peers, blocks, views, crossed, raced>>
    BY <1>1, <1>2, OfStatuses DEF Stories!AddViewer, Stories!Answer, Stories!At, StatusPending, StatusViewing
  <2>2. /\ request' = [q \in Handlers |-> request'[q]] /\ request'[r] = Stories!Idle
        /\ \A q \in Handlers \ {r} : request'[q] = request[q]
    BY <2>1, OfStatuses
  <2>3. CASE status[m.of].pc # "up"
    <3>1. UNCHANGED status
      BY <1>1, <1>2, <2>3 DEF Stories!AddViewer
    <3> QED BY <2>1, <3>1, IdleWaits, StatusGoesOn, OfStatuses
  <2>4. CASE status[m.of].pc = "up"
    <3>1. PICK look : look = [who |-> m.who, at |-> <<r, views>>]
      OBVIOUS
    <3>2. PICK new : new = [status[m.of] EXCEPT !.viewers = @ \cup {look}]
      OBVIOUS
    <3>3. status' = [status EXCEPT ![m.of] = new]
      BY <1>1, <1>2, <2>4, <3>1, <3>2 DEF Stories!AddViewer
    <3>4. look \in [who : People, at : Handlers \X Nat] /\ look.who = m.who
      BY <2>1, <3>1, OfStatuses DEF StatusViewing
    <3>5. /\ new \in StatusRecord /\ new.pc = "up" /\ new.by = status[m.of].by
          /\ new.audience = status[m.of].audience /\ new.viewers = status[m.of].viewers \cup {look}
      BY <2>1, <2>4, <3>2, <3>4, OfStatuses DEF StatusRecord
    <3>6. /\ m.who \in new.audience
          /\ Stories!Viewed(m.who, m.of) => <<m.of, m.who>> \in raced
      BY <2>1, <2>4, <3>5 DEF StatusViewing
    <3>7. \A v \in new.viewers : v.who \in new.audience
      BY <2>1, <3>4, <3>5, <3>6 DEF StatusInv, Stories!ViewersWereMeant
    <3>8. \A v, w \in new.viewers : v.who = w.who => v = w \/ <<m.of, v.who>> \in raced
      <4>1. \A v \in status[m.of].viewers : v.who = m.who => <<m.of, m.who>> \in raced
        BY <3>6 DEF Stories!Viewed
      <4>2. \A v, w \in status[m.of].viewers : v.who = w.who => v = w \/ <<m.of, v.who>> \in raced
        BY <2>1 DEF StatusInv, Stories!OneViewerRowUnlessRaced
      <4> QED BY <3>4, <3>5, <4>1, <4>2
    <3>9. \A q \in Handlers : StatusPending(request[q])'
      <4>1. \A o \in ClientIds \ {m.of} : status'[o] = status[o]
        BY <2>1, <3>3, OfStatuses
      <4>2. status'[m.of] = new
        BY <2>1, <3>3, OfStatuses
      \* Another view of the same person has raced with this one.
      <4>3. ASSUME NEW q \in Handlers \ {r} PROVE StatusPending(request[q])'
        <5>1. StatusPending(request[q])
          BY OfStatuses
        <5>2. CASE request[q].pc = "view" /\ request[q].of = m.of
          <6>1. StatusViewing(request[q]) /\ RequestsApart
            BY <5>1, <5>2 DEF StatusPending, StatusInv
          <6>2. request[q].who = m.who => <<m.of, m.who>> \in raced
            BY <1>1, <2>1, <5>2, <6>1 DEF RequestsApart
          <6>3. Stories!Viewed(request[q].who, m.of)' => Stories!Viewed(request[q].who, m.of) \/ request[q].who = m.who
            BY <2>2, <3>4, <3>5, <4>2 DEF Stories!Viewed
          <6>4. StatusViewing(request[q])'
            BY <2>1, <2>2, <2>4, <3>5, <4>2, <5>2, <6>1, <6>2, <6>3 DEF StatusViewing
          <6> QED BY <2>2, <5>1, <5>2, <6>4 DEF StatusPending
        <5>3. CASE ~(request[q].pc = "view" /\ request[q].of = m.of)
          <6>1. StatusViewing(request[q]) /\ request[q].of # m.of => StatusViewing(request[q])'
            BY <2>1, <2>2, <4>1 DEF StatusViewing, Stories!Viewed
          <6>2. StatusReading(request[q]) => StatusReading(request[q])'
            BY <2>1, <2>2, <2>4, <4>1 DEF StatusReading
          <6>3. \A o \in ClientIds : status'[o].pc = status[o].pc
            BY <2>4, <3>5, <4>1, <4>2
          <6> QED BY <2>2, <5>1, <5>3, <6>1, <6>2, <6>3 DEF StatusPending
        <5> QED BY <5>2, <5>3
      <4> QED BY <2>2, <4>3, IdleWaits
    <3>10. \A q \in Handlers : request'[q] = request[q] \/ request'[q] = Stories!Idle
      BY <2>2
    <3> QED BY <2>1, <2>2, <3>3, <3>5, <3>7, <3>8, <3>9, <3>10, OneStatusChanges, OfStatuses
  <2> QED BY <2>3, <2>4
<1>3. ASSUME Stories!DeleteStatus(r) PROVE StatusInv'
  <2>2. /\ m.of \in ClientIds /\ status[m.of].pc \in {"up", "gone"}
        /\ request' = [request EXCEPT ![r] = Stories!Idle] /\ status' = [status EXCEPT ![m.of] = [Stories!NoStatus EXCEPT !.pc = "gone"]]
        /\ UNCHANGED <<peers, blocks, views, crossed, raced>>
    BY <1>1, <1>3, OfStatuses DEF Stories!DeleteStatus, Stories!Answer, Stories!At, StatusPending
  <2>3. /\ request' = [q \in Handlers |-> request'[q]] /\ request'[r] = Stories!Idle
        /\ \A q \in Handlers \ {r} : request'[q] = request[q]
    BY <2>2, OfStatuses
  <2> QED BY <2>2, <2>3, GoneIsGone
<1> QED BY <1>2, <1>3

LEMMA TimePasses ==
  ASSUME StatusInv, NEW s \in ClientIds
  PROVE  /\ Stories!Expire(s) => StatusInv'
         /\ Stories!Reap(s) => StatusInv'
<1>1. ASSUME Stories!Expire(s) PROVE StatusInv'
  <2>1. PICK new : new = [status[s] EXCEPT !.expired = TRUE]
    OBVIOUS
  <2>2. /\ status[s].pc = "up" /\ status' = [status EXCEPT ![s] = new]
        /\ UNCHANGED <<peers, blocks, request, views, crossed, raced>>
    BY <1>1, <2>1, OfStatuses DEF Stories!Expire
  <2>3. /\ new \in StatusRecord /\ new.pc = "up" /\ new.by = status[s].by
        /\ new.audience = status[s].audience /\ new.viewers = status[s].viewers
    BY <2>1, <2>2, OfStatuses DEF StatusRecord
  <2>4. status'[s] = new /\ \A o \in ClientIds \ {s} : status'[o] = status[o]
    BY <2>2, OfStatuses
  <2>5. ASSUME NEW m, StatusPending(m) PROVE StatusPending(m)'
    BY <2>2, <2>3, <2>4, <2>5 DEF StatusPending, StatusReading, StatusViewing, Stories!Viewed
  <2>6. \A r \in Handlers : StatusPending(request[r])'
    BY <2>2, <2>5, OfStatuses
  <2>7. /\ \A v, w \in new.viewers : v.who = w.who => v = w \/ <<s, v.who>> \in raced
        /\ \A v \in new.viewers : v.who \in new.audience
    BY <2>3 DEF StatusInv, Stories!OneViewerRowUnlessRaced, Stories!ViewersWereMeant
  <2> QED BY <2>2, <2>3, <2>6, <2>7, OneStatusChanges, OfStatuses
<1>2. ASSUME Stories!Reap(s) PROVE StatusInv'
  <2>1. status[s].pc = "up"
    BY <1>2, OfStatuses DEF Stories!Reap, StatusShown
  <2> QED BY <1>2, <2>1, GoneIsGone, OfStatuses DEF Stories!Reap
<1> QED BY <1>1, <1>2

LEMMA StatusStays == ASSUME StatusInv, [Stories!StatusNext]_(Stories!statusVars) PROVE StatusInv'
<1>1. CASE Stories!StatusNext
  <2>1. ASSUME NEW r \in Handlers, Stories!ReadPeers(r) \/ Stories!ReadBlocked(r) \/ Stories!CreateStatus(r) \/ Stories!AddViewer(r) \/ Stories!DeleteStatus(r)
        PROVE  StatusInv'
    BY <2>1, ReadingsKeep, PostsKeep, ViewsKeep
  <2>2. ASSUME NEW r \in Handlers, NEW p \in People, NEW s \in ClientIds,
               Stories!Post(r, p, s) \/ Stories!markViewed(r, p, s) \/ Stories!remove(r, p, s)
        PROVE  StatusInv'
    BY <2>2, ReadingsKeep, PostsKeep
  <2>3. ASSUME NEW s \in ClientIds, Stories!Expire(s) \/ Stories!Reap(s) PROVE StatusInv'
    BY <2>3, TimePasses
  <2>4. ASSUME NEW p \in People, NEW q \in People, Stories!Block(p, q) \/ Stories!PartWays(p, q) PROVE StatusInv'
    BY <2>4, RelationsKeep
  <2> QED BY <1>1, <2>1, <2>2, <2>3, <2>4 DEF Stories!StatusNext
<1>2. CASE UNCHANGED Stories!statusVars
  <2>1. UNCHANGED <<peers, blocks, status, request, views, crossed, raced>>
    BY <1>2 DEF Stories!statusVars
  <2>2. (\A r \in Handlers : StatusPending(request[r])') /\ RequestsApart'
    BY <2>1 DEF StatusInv, StatusPending, StatusReading, StatusViewing, Stories!Viewed, RequestsApart
  <2> QED BY <2>1, <2>2, StatusesStay, OfStatuses
<1> QED BY <1>1, <1>2

\* Only CreateStatus puts a status up, with the readings of its own request.
LEMMA AppearsToPeers ==
  ASSUME StatusInv, [Stories!StatusNext]_(Stories!statusVars)
  PROVE  Stories!AppearsUnlessCrossed
<1> SUFFICES ASSUME NEW s \in ClientIds \ crossed, status[s].pc = "posting", status'[s].pc = "up"
             PROVE  status'[s].audience = {q \in peers[status[s].by] :
                      <<status[s].by, q>> \notin blocks /\ <<q, status[s].by>> \notin blocks}
  BY DEF Stories!AppearsUnlessCrossed
<1>1. status # status'
  OBVIOUS
<1>2. PICK r \in Handlers : Stories!CreateStatus(r) /\ request[r].of = s
  <2>1. Stories!StatusNext
    BY <1>1 DEF Stories!statusVars
  <2>2. ASSUME NEW q \in Handlers, Stories!CreateStatus(q), request[q].of # s PROVE FALSE
    <3>1. status'[s] = status[s]
      BY <2>2, OfStatuses DEF Stories!CreateStatus
    <3> QED BY <3>1
  <2>3. ASSUME NEW q \in Handlers, Stories!AddViewer(q) PROVE FALSE
    <3>1. status'[s].pc = status[s].pc
      BY <2>3, OfStatuses DEF Stories!AddViewer, StatusRecord
    <3> QED BY <3>1
  <2>4. ASSUME NEW q \in Handlers, Stories!DeleteStatus(q) PROVE FALSE
    <3>1. status'[s] = status[s] \/ status'[s] = [Stories!NoStatus EXCEPT !.pc = "gone"]
      BY <2>4, OfStatuses DEF Stories!DeleteStatus
    <3> QED BY <3>1 DEF Stories!NoStatus
  <2>5. ASSUME NEW q \in Handlers, NEW p \in People, NEW o \in ClientIds, Stories!Post(q, p, o) PROVE FALSE
    <3>1. status'[s] = status[s] \/ status'[s] = [Stories!NoStatus EXCEPT !.pc = "posting", !.by = p]
      BY <2>5, OfStatuses DEF Stories!Post
    <3> QED BY <3>1 DEF Stories!NoStatus
  <2>6. ASSUME NEW o \in ClientIds, Stories!Expire(o) PROVE FALSE
    <3>1. status'[s].pc = status[s].pc
      BY <2>6, OfStatuses DEF Stories!Expire, StatusRecord
    <3> QED BY <3>1
  <2>7. ASSUME NEW o \in ClientIds, Stories!Reap(o) PROVE FALSE
    <3>1. status'[s] = status[s] \/ status'[s] = [Stories!NoStatus EXCEPT !.pc = "gone"]
      BY <2>7, OfStatuses DEF Stories!Reap
    <3> QED BY <3>1 DEF Stories!NoStatus
  <2>8. ASSUME NEW q \in Handlers, Stories!ReadPeers(q) \/ Stories!ReadBlocked(q) PROVE FALSE
    BY <1>1, <2>8 DEF Stories!ReadPeers, Stories!ReadBlocked
  <2>9. ASSUME NEW q \in Handlers, NEW p \in People, NEW o \in ClientIds, Stories!markViewed(q, p, o) \/ Stories!remove(q, p, o)
        PROVE  FALSE
    BY <1>1, <2>9 DEF Stories!markViewed, Stories!remove
  <2>10. ASSUME NEW p \in People, NEW q \in People, Stories!Block(p, q) \/ Stories!PartWays(p, q) PROVE FALSE
    BY <1>1, <2>10 DEF Stories!Block, Stories!PartWays
  <2> QED BY <2>1, <2>2, <2>3, <2>4, <2>5, <2>6, <2>7, <2>8, <2>9, <2>10 DEF Stories!StatusNext
<1>3. PICK m : m = request[r]
  OBVIOUS
<1>4. m.pc = "blocked" /\ StatusReading(m) /\ m.of = s
  BY <1>2, <1>3, OfStatuses DEF Stories!CreateStatus, Stories!At, StatusPending
<1>5. status'[s].audience = {q \in m.reach : <<q, m.who>> \notin blocks}
  BY <1>2, <1>3, <1>4, OfStatuses DEF Stories!CreateStatus, StatusRecord
<1>6. /\ status[s].by = m.who /\ m.reach = {q \in peers[m.who] : <<m.who, q>> \notin blocks}
  BY <1>4 DEF StatusReading
<1> QED BY <1>5, <1>6

-----------------------------------------------------------------------------
(* A group's roster. *)

\* The requests in flight, each of which posts once at most.
GroupAtWork == {r \in Handlers : reqs[r] # Groups!Idle}

GroupCounts ==
  /\ asked \in 0..MaxAsks /\ posts \in Nat /\ directs \in {0, 1}
  /\ posts + Cardinality(GroupAtWork) <= asked
  /\ directs <= asked

\* Who is about to be added is not on the roster, and is added once, unless two adds met.
AddingFresh(r) ==
  reqs[r].op = "add" /\ reqs[r].other \notin mixed.added =>
    /\ reqs[r].other \notin group.participantIds
    /\ \A s \in Handlers \ {r} : reqs[s].op = "add" => reqs[s].other # reqs[r].other

\* Between the two deletions nothing is posted, and after them nobody is left to post.
GroupEnds ==
  ~mixed.deleting =>
    /\ \A r \in Handlers : reqs[r].op = "conversation" => posts = 0
    /\ ~group.exists => posts = 0 /\ \A r \in Handlers : reqs[r].op \in {"idle", "direct"}

GroupInv ==
  /\ group \in [exists : BOOLEAN, participantIds : SUBSET Team, members : [Team -> Seq(Groups!Row)]]
  /\ reqs \in [Handlers -> Groups!Request]
  /\ mixed \in [added : SUBSET Team, deleting : BOOLEAN]
  /\ GroupCounts
  /\ \A r \in Handlers : AddingFresh(r)
  /\ Groups!OneRowEachUnlessAddedTwice
  /\ GroupEnds

LEMMA GroupTypes == ASSUME GroupInv PROVE Groups!GroupTypeOK
<1>1. MaxAsks \in Nat /\ Cardinality(GroupAtWork) \in Nat
  BY ChatConstants, GroupConstants, FS_Subset, FS_CardinalityType DEF GroupAtWork
<1>2. posts \in 0..2 * MaxAsks /\ directs \in 0..MaxAsks
  BY <1>1 DEF GroupInv, GroupCounts
<1> QED BY <1>2 DEF GroupInv, GroupCounts, Groups!GroupTypeOK

\* What a request holds at each of its steps.
LEMMA GroupAsks ==
  ASSUME NEW m \in Groups!Request
  PROVE  /\ m.op \in {"idle", "add", "remove", "promote", "rename", "say", "messages", "conversation", "notice", "direct"}
         /\ m.op = "idle" <=> m = Groups!Idle
         /\ m.op \in {"add", "remove", "promote", "rename", "say", "messages", "conversation"} =>
              /\ m \in [op : {"add", "remove", "promote", "rename", "say", "messages", "conversation"},
                        who : Team, other : Team, roster : SUBSET Team]
              /\ m.who \in Team /\ m.other \in Team
         /\ m.op \in {"notice", "direct"} => m.who \in Team
BY DEF Groups!Request, Groups!Idle

LEMMA GroupBegins == ASSUME ConversationsInit PROVE GroupInv
<1>1. Groups!GroupInit
  BY DEF ConversationsInit
<1>2. PICK team \in SUBSET Team : group = Groups!NewGroup(team)
  BY <1>1 DEF Groups!GroupInit
<1>3. /\ group.exists = TRUE /\ group.participantIds = team
      /\ group.members = [p \in Team |-> IF p \notin team THEN << >>
                                        ELSE IF p = Creator THEN <<"admin">> ELSE <<"member">>]
      /\ group = [exists |-> group.exists, participantIds |-> group.participantIds, members |-> group.members]
  BY <1>2 DEF Groups!NewGroup
<1>4. << >> \in Seq(Groups!Row) /\ <<"admin">> \in Seq(Groups!Row) /\ <<"member">> \in Seq(Groups!Row)
  BY DEF Groups!Row
<1>5. group \in [exists : BOOLEAN, participantIds : SUBSET Team, members : [Team -> Seq(Groups!Row)]]
  BY <1>3, <1>4
<1>6. Groups!OneRowEachUnlessAddedTwice
  BY <1>3 DEF Groups!OneRowEachUnlessAddedTwice, Groups!RowsOf
<1>7. /\ \A r \in Handlers : reqs[r] = Groups!Idle
      /\ reqs \in [Handlers -> Groups!Request] /\ mixed \in [added : SUBSET Team, deleting : BOOLEAN]
      /\ posts = 0 /\ directs = 0 /\ asked = 0
  BY <1>1 DEF Groups!GroupInit, Groups!Request
<1>8. GroupCounts
  <2>1. GroupAtWork = {} /\ Cardinality({}) = 0
    BY <1>7, FS_EmptySet DEF GroupAtWork
  <2> QED BY <1>7, <2>1, ChatConstants DEF GroupCounts
<1>9. \A r \in Handlers : reqs[r].op = "idle"
  BY <1>7 DEF Groups!Idle
<1>10. (\A r \in Handlers : AddingFresh(r)) /\ GroupEnds
  BY <1>3, <1>7, <1>9 DEF AddingFresh, GroupEnds
<1> QED BY <1>5, <1>6, <1>7, <1>8, <1>10 DEF GroupInv

\* How many are at work after one of them has begun, gone on or finished.
LEMMA GroupWorkers ==
  ASSUME GroupInv, NEW r \in Handlers, NEW m \in Groups!Request, reqs' = [reqs EXCEPT ![r] = m]
  PROVE  /\ reqs' \in [Handlers -> Groups!Request] /\ reqs'[r] = m /\ \A s \in Handlers \ {r} : reqs'[s] = reqs[s]
         /\ Cardinality(GroupAtWork) \in Nat /\ Cardinality(GroupAtWork)' \in Nat
         /\ Cardinality(GroupAtWork)' <= Cardinality(GroupAtWork) + 1
         /\ reqs[r] # Groups!Idle => Cardinality(GroupAtWork)' <= Cardinality(GroupAtWork)
         /\ reqs[r] # Groups!Idle => Cardinality(GroupAtWork) >= 1
         /\ reqs[r] # Groups!Idle /\ m = Groups!Idle => Cardinality(GroupAtWork)' = Cardinality(GroupAtWork) - 1
<1>1. /\ reqs' \in [Handlers -> Groups!Request] /\ reqs'[r] = m /\ \A s \in Handlers \ {r} : reqs'[s] = reqs[s]
  BY DEF GroupInv
<1>2. IsFiniteSet(GroupAtWork) /\ IsFiniteSet(GroupAtWork')
  BY GroupConstants, FS_Subset DEF GroupAtWork
<1>3. Cardinality(GroupAtWork) \in Nat /\ Cardinality(GroupAtWork') \in Nat
  BY <1>2, FS_CardinalityType
<1>4. /\ Cardinality(GroupAtWork \cup {r}) = IF r \in GroupAtWork THEN Cardinality(GroupAtWork) ELSE Cardinality(GroupAtWork) + 1
      /\ IsFiniteSet(GroupAtWork \cup {r})
  BY <1>2, FS_AddElement
<1>5. /\ Cardinality(GroupAtWork \ {r}) = IF r \in GroupAtWork THEN Cardinality(GroupAtWork) - 1 ELSE Cardinality(GroupAtWork)
      /\ IsFiniteSet(GroupAtWork \ {r})
  BY <1>2, FS_RemoveElement
<1>6. GroupAtWork' = IF m = Groups!Idle THEN GroupAtWork \ {r} ELSE GroupAtWork \cup {r}
  BY <1>1 DEF GroupAtWork
<1>7. Cardinality(GroupAtWork)' = Cardinality(GroupAtWork')
  OBVIOUS
<1>8. Cardinality(GroupAtWork \ {r}) \in Nat
  BY <1>5, FS_CardinalityType
<1>9. reqs[r] # Groups!Idle => r \in GroupAtWork
  BY DEF GroupAtWork
<1>10. CASE m = Groups!Idle
  BY <1>1, <1>3, <1>5, <1>6, <1>7, <1>8, <1>9, <1>10
<1>11. CASE m # Groups!Idle
  BY <1>1, <1>3, <1>4, <1>5, <1>6, <1>7, <1>8, <1>9, <1>11
<1> QED BY <1>10, <1>11

\* A request goes on or finishes, without adding anybody, and the roster stays.
LEMMA GroupRosterStays ==
  ASSUME GroupInv, NEW r \in Handlers, NEW m \in Groups!Request, reqs' = [reqs EXCEPT ![r] = m],
         m.op # "add", UNCHANGED group, mixed' \in [added : SUBSET Team, deleting : BOOLEAN],
         mixed'.added = mixed.added, GroupCounts', GroupEnds'
  PROVE  GroupInv'
<1>1. /\ reqs' \in [Handlers -> Groups!Request] /\ reqs'[r] = m /\ \A s \in Handlers \ {r} : reqs'[s] = reqs[s]
  BY GroupWorkers
<1>2. (\A s \in Handlers : AddingFresh(s))'
  BY <1>1 DEF GroupInv, AddingFresh
<1>3. Groups!OneRowEachUnlessAddedTwice'
  BY DEF GroupInv, Groups!OneRowEachUnlessAddedTwice, Groups!RowsOf
<1> QED BY <1>1, <1>2, <1>3 DEF GroupInv

LEMMA LookKeeps ==
  ASSUME GroupInv, NEW r \in Handlers, NEW p \in Team, NEW q \in Team,
         NEW op \in {"add", "remove", "promote", "rename", "say", "messages"}, Groups!Look(r, p, op, q)
  PROVE  GroupInv'
<1>1. PICK m : m = IF op = "add" /\ q \in group.participantIds THEN Groups!Idle
                   ELSE [op |-> op, who |-> p, other |-> q, roster |-> group.participantIds]
  OBVIOUS
<1>2. /\ reqs' = [reqs EXCEPT ![r] = m] /\ reqs[r] = Groups!Idle /\ asked < MaxAsks /\ asked' = asked + 1 /\ group.exists
      /\ UNCHANGED <<group, posts, directs>>
      /\ mixed' = IF op = "add" /\ \E s \in Handlers : reqs[s].op = "add" /\ reqs[s].other = q
                  THEN [mixed EXCEPT !.added = @ \cup {q}] ELSE mixed
  BY <1>1 DEF Groups!Look, Groups!Goto
<1>3. m \in Groups!Request /\ (m = Groups!Idle \/ (m.op = op /\ m.other = q /\ ~(op = "add" /\ q \in group.participantIds)))
  BY <1>1 DEF Groups!Request, GroupInv
<1>4. /\ reqs' \in [Handlers -> Groups!Request] /\ reqs'[r] = m /\ \A s \in Handlers \ {r} : reqs'[s] = reqs[s]
      /\ Cardinality(GroupAtWork) \in Nat /\ Cardinality(GroupAtWork)' \in Nat
      /\ Cardinality(GroupAtWork)' <= Cardinality(GroupAtWork) + 1
  BY <1>2, <1>3, GroupWorkers
<1>5. GroupCounts'
  BY <1>2, <1>4, ChatConstants DEF GroupInv, GroupCounts
<1>6. /\ mixed' \in [added : SUBSET Team, deleting : BOOLEAN] /\ mixed'.deleting = mixed.deleting
      /\ mixed.added \subseteq mixed'.added
      /\ op = "add" /\ (\E s \in Handlers : reqs[s].op = "add" /\ reqs[s].other = q) => q \in mixed'.added
  BY <1>2 DEF GroupInv
<1>7. Groups!Idle.op = "idle"
  BY DEF Groups!Idle
<1>8. ASSUME NEW s \in Handlers PROVE AddingFresh(s)'
  <2>1. AddingFresh(s)
    BY DEF GroupInv
  <2>2. CASE s # r
    BY <1>2, <1>3, <1>4, <1>6, <1>7, <2>1, <2>2 DEF AddingFresh
  <2>3. CASE s = r
    BY <1>2, <1>3, <1>4, <1>6, <1>7, <2>3 DEF AddingFresh
  <2> QED BY <2>2, <2>3
<1>9. Groups!OneRowEachUnlessAddedTwice'
  BY <1>2, <1>6 DEF GroupInv, Groups!OneRowEachUnlessAddedTwice, Groups!RowsOf
<1>10. GroupEnds'
  BY <1>2, <1>3, <1>4, <1>6, <1>7 DEF GroupInv, GroupEnds
<1> QED BY <1>2, <1>4, <1>5, <1>6, <1>8, <1>9, <1>10 DEF GroupInv

\* The requests that end where a request stands: they change nothing but who is at work.
LEMMA NoticesKeep ==
  ASSUME GroupInv, NEW r \in Handlers
  PROVE  /\ Groups!UpdateGroup(r) => GroupInv'
         /\ Groups!CreateDirect(r) => GroupInv'
         /\ \A p \in Team : Groups!FindDirect(r, p) => GroupInv'
<1>1. ASSUME Groups!UpdateGroup(r) PROVE GroupInv'
  <2>1. reqs[r].op = "rename" /\ reqs[r].who \in Team
    BY <1>1, GroupAsks DEF Groups!UpdateGroup, GroupInv
  <2>2. PICK m \in {[op |-> "notice", who |-> reqs[r].who], Groups!Idle} : reqs' = [reqs EXCEPT ![r] = m]
    BY <1>1 DEF Groups!UpdateGroup, Groups!Goto
  <2>3. m \in Groups!Request /\ m.op \in {"notice", "idle"}
    BY <2>1, <2>2 DEF Groups!Request, Groups!Idle
  <2>4. UNCHANGED <<group, posts, directs, asked, mixed>>
    BY <1>1 DEF Groups!UpdateGroup
  <2>5. reqs[r] # Groups!Idle
    BY <2>1 DEF Groups!Idle
  <2>6. /\ Cardinality(GroupAtWork) \in Nat /\ Cardinality(GroupAtWork)' \in Nat
        /\ Cardinality(GroupAtWork)' <= Cardinality(GroupAtWork)
        /\ reqs'[r] = m /\ \A s \in Handlers \ {r} : reqs'[s] = reqs[s]
    BY <2>2, <2>3, <2>5, GroupWorkers
  <2>7. GroupCounts'
    BY <2>4, <2>6, ChatConstants DEF GroupInv, GroupCounts
  <2>8. GroupEnds'
    BY <2>1, <2>3, <2>4, <2>6 DEF GroupInv, GroupEnds
  <2>9. mixed' \in [added : SUBSET Team, deleting : BOOLEAN] /\ mixed'.added = mixed.added
    BY <2>4 DEF GroupInv
  <2> QED BY <2>2, <2>3, <2>4, <2>7, <2>8, <2>9, GroupRosterStays
<1>2. ASSUME Groups!CreateDirect(r) PROVE GroupInv'
  <2>1. reqs[r].op = "direct" /\ reqs' = [reqs EXCEPT ![r] = Groups!Idle]
    BY <1>2 DEF Groups!CreateDirect, Groups!Goto
  <2>2. UNCHANGED <<group, posts, asked, mixed>> /\ directs' = IF directs = 0 THEN 1 ELSE directs
    BY <1>2 DEF Groups!CreateDirect
  <2>3. Groups!Idle \in Groups!Request /\ Groups!Idle.op = "idle" /\ reqs[r] # Groups!Idle
    BY <2>1 DEF Groups!Request, Groups!Idle
  <2>4. /\ Cardinality(GroupAtWork) \in Nat /\ Cardinality(GroupAtWork)' \in Nat
        /\ Cardinality(GroupAtWork)' <= Cardinality(GroupAtWork) /\ Cardinality(GroupAtWork) >= 1
        /\ reqs'[r] = Groups!Idle /\ \A s \in Handlers \ {r} : reqs'[s] = reqs[s]
    BY <2>1, <2>3, GroupWorkers
  <2>5. GroupCounts'
    BY <2>2, <2>4, ChatConstants DEF GroupInv, GroupCounts
  <2>6. GroupEnds'
    BY <2>1, <2>2, <2>3, <2>4 DEF GroupInv, GroupEnds
  <2>7. mixed' \in [added : SUBSET Team, deleting : BOOLEAN] /\ mixed'.added = mixed.added
    BY <2>2 DEF GroupInv
  <2> QED BY <2>1, <2>2, <2>3, <2>5, <2>6, <2>7, GroupRosterStays
<1>3. ASSUME NEW p \in Team, Groups!FindDirect(r, p) PROVE GroupInv'
  <2>1. PICK m \in {[op |-> "direct", who |-> p], Groups!Idle} : reqs' = [reqs EXCEPT ![r] = m]
    BY <1>3 DEF Groups!FindDirect, Groups!Goto
  <2>2. m \in Groups!Request /\ m.op \in {"direct", "idle"}
    BY <2>1 DEF Groups!Request, Groups!Idle
  <2>3. UNCHANGED <<group, posts, directs, mixed>> /\ asked < MaxAsks /\ asked' = asked + 1 /\ reqs[r] = Groups!Idle
    BY <1>3 DEF Groups!FindDirect
  <2>4. /\ Cardinality(GroupAtWork) \in Nat /\ Cardinality(GroupAtWork)' \in Nat
        /\ Cardinality(GroupAtWork)' <= Cardinality(GroupAtWork) + 1
        /\ reqs'[r] = m /\ \A s \in Handlers \ {r} : reqs'[s] = reqs[s]
    BY <2>1, <2>2, GroupWorkers
  <2>5. GroupCounts'
    BY <2>3, <2>4, ChatConstants DEF GroupInv, GroupCounts
  <2>6. GroupEnds'
    BY <2>2, <2>3, <2>4 DEF GroupInv, GroupEnds
  <2>7. mixed' \in [added : SUBSET Team, deleting : BOOLEAN] /\ mixed'.added = mixed.added
    BY <2>3 DEF GroupInv
  <2> QED BY <2>1, <2>2, <2>3, <2>5, <2>6, <2>7, GroupRosterStays
<1> QED BY <1>1, <1>2, <1>3

\* Posts, and the deletions.
LEMMA EndsKeep ==
  ASSUME GroupInv, NEW r \in Handlers
  PROVE  /\ Groups!Post(r) => GroupInv'
         /\ Groups!DeleteMessages(r) => GroupInv'
         /\ Groups!DeleteConversation(r) => GroupInv'
<1>1. ASSUME Groups!Post(r) PROVE GroupInv'
  <2>1. reqs[r].op \in {"say", "notice"} /\ reqs' = [reqs EXCEPT ![r] = Groups!Idle]
    BY <1>1 DEF Groups!Post, Groups!Goto
  <2>2. UNCHANGED <<group, directs, asked>> /\ posts' = posts + 1
    BY <1>1 DEF Groups!Post
  <2>3. Groups!Idle \in Groups!Request /\ Groups!Idle.op = "idle" /\ reqs[r] # Groups!Idle
    BY <2>1 DEF Groups!Request, Groups!Idle
  <2>4. /\ Cardinality(GroupAtWork) \in Nat /\ Cardinality(GroupAtWork)' \in Nat
        /\ Cardinality(GroupAtWork)' = Cardinality(GroupAtWork) - 1
        /\ reqs'[r] = Groups!Idle /\ \A s \in Handlers \ {r} : reqs'[s] = reqs[s]
    BY <2>1, <2>3, GroupWorkers
  <2>5. GroupCounts'
    BY <2>2, <2>4, ChatConstants DEF GroupInv, GroupCounts
  <2>6. /\ mixed' \in [added : SUBSET Team, deleting : BOOLEAN] /\ mixed'.added = mixed.added
        /\ ~mixed'.deleting => ~mixed.deleting /\ \A s \in Handlers : reqs[s].op # "conversation"
    BY <1>1 DEF Groups!Post, GroupInv
  <2>7. GroupEnds'
    BY <2>1, <2>2, <2>3, <2>4, <2>6 DEF GroupInv, GroupEnds
  <2> QED BY <2>1, <2>2, <2>3, <2>5, <2>6, <2>7, GroupRosterStays
<1>2. ASSUME Groups!DeleteMessages(r) PROVE GroupInv'
  <2>1. PICK m : m = [reqs[r] EXCEPT !.op = "conversation"]
    OBVIOUS
  <2>2. reqs[r].op = "messages" /\ reqs' = [reqs EXCEPT ![r] = m]
    BY <1>2, <2>1 DEF Groups!DeleteMessages, Groups!Goto
  <2>3. UNCHANGED <<group, directs, asked, mixed>> /\ posts' = 0
    BY <1>2 DEF Groups!DeleteMessages
  <2>4. m \in Groups!Request /\ m.op = "conversation"
    <3>1. reqs[r] \in [op : {"add", "remove", "promote", "rename", "say", "messages", "conversation"},
                       who : Team, other : Team, roster : SUBSET Team]
      BY <2>2, GroupAsks DEF GroupInv
    <3>2. m \in [op : {"add", "remove", "promote", "rename", "say", "messages", "conversation"},
                 who : Team, other : Team, roster : SUBSET Team] /\ m.op = "conversation"
      BY <2>1, <3>1
    <3> QED BY <3>2 DEF Groups!Request
  <2>5. reqs[r] # Groups!Idle
    BY <2>2 DEF Groups!Idle
  <2>6. /\ Cardinality(GroupAtWork) \in Nat /\ Cardinality(GroupAtWork)' \in Nat
        /\ Cardinality(GroupAtWork)' <= Cardinality(GroupAtWork)
        /\ reqs'[r] = m /\ \A s \in Handlers \ {r} : reqs'[s] = reqs[s]
    BY <2>2, <2>4, <2>5, GroupWorkers
  <2>7. GroupCounts'
    BY <2>3, <2>6, ChatConstants DEF GroupInv, GroupCounts
  <2>8. GroupEnds'
    BY <2>2, <2>3, <2>4, <2>6 DEF GroupInv, GroupEnds
  <2>9. mixed' \in [added : SUBSET Team, deleting : BOOLEAN] /\ mixed'.added = mixed.added
    BY <2>3 DEF GroupInv
  <2> QED BY <2>2, <2>3, <2>4, <2>7, <2>8, <2>9, GroupRosterStays
<1>3. ASSUME Groups!DeleteConversation(r) PROVE GroupInv'
  <2>1. reqs[r].op = "conversation" /\ reqs' = [reqs EXCEPT ![r] = Groups!Idle]
    BY <1>3 DEF Groups!DeleteConversation, Groups!Goto
  <2>2. UNCHANGED <<posts, directs, asked>>
    BY <1>3 DEF Groups!DeleteConversation
  <2>3. /\ group' = [exists |-> FALSE, participantIds |-> {}, members |-> [p \in Team |-> << >>]]
        /\ << >> \in Seq(Groups!Row)
    BY <1>3 DEF Groups!DeleteConversation
  <2>4. /\ group' \in [exists : BOOLEAN, participantIds : SUBSET Team, members : [Team -> Seq(Groups!Row)]]
        /\ group'.participantIds = {} /\ group'.members = [p \in Team |-> << >>]
    BY <2>3
  <2>5. Groups!Idle \in Groups!Request /\ Groups!Idle.op = "idle" /\ reqs[r] # Groups!Idle
    BY <2>1 DEF Groups!Request, Groups!Idle
  <2>6. /\ Cardinality(GroupAtWork) \in Nat /\ Cardinality(GroupAtWork)' \in Nat
        /\ Cardinality(GroupAtWork)' <= Cardinality(GroupAtWork) /\ reqs' \in [Handlers -> Groups!Request]
        /\ reqs'[r] = Groups!Idle /\ \A s \in Handlers \ {r} : reqs'[s] = reqs[s]
    BY <2>1, <2>5, GroupWorkers
  <2>7. GroupCounts'
    BY <2>2, <2>6, ChatConstants DEF GroupInv, GroupCounts
  <2>8. /\ mixed' \in [added : SUBSET Team, deleting : BOOLEAN] /\ mixed'.added = mixed.added
        /\ ~mixed'.deleting => ~mixed.deleting /\ \A s \in Handlers \ {r} : reqs[s] = Groups!Idle
    BY <1>3 DEF Groups!DeleteConversation, GroupInv
  <2>9. GroupEnds'
    <3>1. ~mixed'.deleting => posts = 0
      BY <2>1, <2>8 DEF GroupInv, GroupEnds
    <3>2. ~mixed'.deleting => \A s \in Handlers : reqs'[s].op = "idle"
      BY <2>5, <2>6, <2>8
    <3>3. posts' = posts
      BY <2>2
    <3> QED BY <3>1, <3>2, <3>3 DEF GroupEnds
  <2>10. (\A s \in Handlers : AddingFresh(s))'
    <3>1. ASSUME NEW s \in Handlers PROVE AddingFresh(s)'
      <4>1. AddingFresh(s)
        BY DEF GroupInv
      <4>2. CASE s = r
        BY <2>5, <2>6, <4>2 DEF AddingFresh
      <4>3. CASE s # r
        BY <2>4, <2>5, <2>6, <2>8, <4>1, <4>3 DEF AddingFresh
      <4> QED BY <4>2, <4>3
    <3> QED BY <3>1
  <2>11. Groups!OneRowEachUnlessAddedTwice'
    BY <2>4 DEF Groups!OneRowEachUnlessAddedTwice, Groups!RowsOf
  <2> QED BY <2>4, <2>6, <2>7, <2>8, <2>9, <2>10, <2>11 DEF GroupInv
<1> QED BY <1>1, <1>2, <1>3

\* The roster of one person changes.
Rewrites(r, q, roles) ==
  /\ group' \in [exists : BOOLEAN, participantIds : SUBSET Team, members : [Team -> Seq(Groups!Row)]]
  /\ group'.members = [group.members EXCEPT ![q] = roles]
  /\ group'.exists = group.exists /\ group'.participantIds \ {q} = group.participantIds \ {q}
  /\ q \notin mixed.added => Len(roles) = IF q \in group'.participantIds THEN 1 ELSE 0
  /\ q \in group'.participantIds \ group.participantIds => reqs[r].op = "add" /\ reqs[r].other = q

LEMMA OneRosterChanges ==
  ASSUME GroupInv, NEW r \in Handlers, NEW m \in Groups!Request, Groups!Goto(r, m),
         m.op # "add", m.op # "conversation", reqs[r].op \in {"add", "remove", "promote"},
         UNCHANGED <<posts, directs, asked, mixed>>,
         NEW q \in Team, NEW roles \in Seq(Groups!Row), Rewrites(r, q, roles)
  PROVE  GroupInv'
<1>0. reqs' = [reqs EXCEPT ![r] = m]
  BY DEF Groups!Goto
<1>1. reqs[r] # Groups!Idle
  BY DEF Groups!Idle
<1>2. /\ reqs' \in [Handlers -> Groups!Request] /\ reqs'[r] = m /\ \A s \in Handlers \ {r} : reqs'[s] = reqs[s]
      /\ Cardinality(GroupAtWork) \in Nat /\ Cardinality(GroupAtWork)' \in Nat
      /\ Cardinality(GroupAtWork)' <= Cardinality(GroupAtWork)
  BY <1>0, <1>1, GroupWorkers
<1>3. GroupCounts'
  BY <1>2, ChatConstants DEF GroupInv, GroupCounts
<1>4. GroupEnds'
  <2>1. ~mixed.deleting => group.exists /\ \A s \in Handlers : reqs[s].op = "conversation" => posts = 0
    BY DEF GroupInv, GroupEnds
  <2>2. posts' = posts /\ mixed' = mixed /\ group'.exists = group.exists
    BY DEF Rewrites
  <2>3. \A s \in Handlers : reqs'[s].op = "conversation" => reqs[s].op = "conversation"
    BY <1>2
  <2> QED BY <2>1, <2>2, <2>3 DEF GroupEnds
<1>5. ASSUME NEW s \in Handlers PROVE AddingFresh(s)'
  <2>1. AddingFresh(s) /\ AddingFresh(r)
    BY DEF GroupInv
  <2>2. CASE s # r
    <3>1. \A t \in Handlers : reqs'[t].op = "add" => t # r /\ reqs'[t] = reqs[t]
      BY <1>2
    <3>2. /\ mixed' = mixed /\ group'.participantIds \ {q} = group.participantIds \ {q}
          /\ q \in group'.participantIds \ group.participantIds => reqs[r].op = "add" /\ reqs[r].other = q
      BY DEF Rewrites
    <3>3. reqs[s].op = "add" /\ reqs[s].other \notin mixed.added => reqs[s].other \notin group'.participantIds
      BY <2>1, <2>2, <3>2 DEF AddingFresh
    <3> QED BY <1>2, <2>1, <2>2, <3>1, <3>2, <3>3 DEF AddingFresh
  <2>3. CASE s = r
    BY <1>2, <2>3 DEF AddingFresh
  <2> QED BY <2>2, <2>3
<1>6. Groups!OneRowEachUnlessAddedTwice'
  <2>1. mixed' = mixed /\ (q \notin mixed.added => Len(roles) = IF q \in group'.participantIds THEN 1 ELSE 0)
    BY DEF Rewrites
  <2>2. group'.members[q] = roles /\ \A p \in Team \ {q} : group'.members[p] = group.members[p]
    BY DEF GroupInv, Rewrites
  <2>3. \A p \in Team \ {q} : p \in group'.participantIds <=> p \in group.participantIds
    BY DEF Rewrites
  <2>4. ASSUME NEW p \in Team \ mixed.added
        PROVE  Len(group'.members[p]) = IF p \in group'.participantIds THEN 1 ELSE 0
    <3>1. CASE p = q
      BY <2>1, <2>2, <3>1
    <3>2. CASE p # q
      <4>1. Len(group.members[p]) = IF p \in group.participantIds THEN 1 ELSE 0
        BY DEF GroupInv, Groups!OneRowEachUnlessAddedTwice, Groups!RowsOf
      <4> QED BY <2>2, <2>3, <3>2, <4>1
    <3> QED BY <3>1, <3>2
  <2> QED BY <2>1, <2>4 DEF Groups!OneRowEachUnlessAddedTwice, Groups!RowsOf
<1>7. group' \in [exists : BOOLEAN, participantIds : SUBSET Team, members : [Team -> Seq(Groups!Row)]]
  BY DEF Rewrites
<1> QED BY <1>2, <1>3, <1>4, <1>5, <1>6, <1>7 DEF GroupInv

LEMMA RostersKeep ==
  ASSUME GroupInv, NEW r \in Handlers
  PROVE  /\ Groups!AddMembers(r) => GroupInv'
         /\ Groups!RemoveMember(r) => GroupInv'
         /\ Groups!PromoteAdmin(r) => GroupInv'
<1> DEFINE Doc == [exists : BOOLEAN, participantIds : SUBSET Team, members : [Team -> Seq(Groups!Row)]]
<1>1. PICK q : q = reqs[r].other
  OBVIOUS
<1>2. /\ group \in Doc /\ (q \in Team => group.members[q] \in Seq(Groups!Row))
      /\ q \in Team /\ q \notin mixed.added => Len(group.members[q]) = IF q \in group.participantIds THEN 1 ELSE 0
  BY DEF GroupInv, Groups!OneRowEachUnlessAddedTwice, Groups!RowsOf
<1>3. reqs[r].op \in {"add", "remove", "promote"} =>
        /\ q \in Team /\ [op |-> "notice", who |-> reqs[r].who] \in Groups!Request
        /\ Groups!Idle \in Groups!Request /\ Groups!Idle.op = "idle"
  BY <1>1, GroupAsks DEF GroupInv, Groups!Request, Groups!Idle
<1>4. ASSUME Groups!AddMembers(r) PROVE GroupInv'
  <2>1. PICK m : m = [op |-> "notice", who |-> reqs[r].who]
    OBVIOUS
  <2>2. /\ reqs[r].op = "add" /\ Groups!Goto(r, m) /\ m.op = "notice" /\ m \in Groups!Request /\ q \in Team
        /\ UNCHANGED <<posts, directs, asked, mixed>>
    BY <1>3, <1>4, <2>1 DEF Groups!AddMembers
  <2>3. CASE ~group.exists
    <3>1. UNCHANGED group
      BY <1>4, <2>3 DEF Groups!AddMembers
    <3>2. Rewrites(r, q, group.members[q])
      BY <1>2, <2>2, <3>1 DEF Rewrites
    <3> QED BY <1>2, <2>2, <3>2, OneRosterChanges
  <2>4. CASE group.exists
    <3>1. PICK roles : roles = Append(group.members[q], "member")
      OBVIOUS
    <3>2. group' = [group EXCEPT !.participantIds = @ \cup {q}, !.members[q] = roles]
      BY <1>1, <1>4, <2>4, <3>1 DEF Groups!AddMembers
    <3>3. roles \in Seq(Groups!Row) /\ Len(roles) = Len(group.members[q]) + 1
      BY <1>2, <2>2, <3>1 DEF Groups!Row
    <3>4. /\ group' \in Doc /\ group'.exists = group.exists /\ group'.participantIds = group.participantIds \cup {q}
          /\ group'.members = [group.members EXCEPT ![q] = roles]
      BY <1>2, <2>2, <3>2, <3>3
    <3>5. q \notin mixed.added => q \notin group.participantIds
      BY <1>1, <2>2 DEF GroupInv, AddingFresh
    <3>6. q \notin mixed.added => Len(roles) = IF q \in group'.participantIds THEN 1 ELSE 0
      BY <1>2, <2>2, <3>3, <3>4, <3>5
    <3>7. group'.participantIds \ {q} = group.participantIds \ {q}
      BY <3>4
    <3>8. Rewrites(r, q, roles)
      BY <1>1, <2>2, <3>4, <3>6, <3>7 DEF Rewrites
    <3> QED BY <2>2, <3>3, <3>8, OneRosterChanges
  <2> QED BY <2>3, <2>4
<1>5. ASSUME Groups!RemoveMember(r) PROVE GroupInv'
  <2>1. PICK m \in {[op |-> "notice", who |-> reqs[r].who], Groups!Idle} : Groups!Goto(r, m)
    BY <1>5 DEF Groups!RemoveMember
  <2>2. /\ reqs[r].op = "remove" /\ m.op \in {"notice", "idle"} /\ m \in Groups!Request /\ q \in Team
        /\ UNCHANGED <<posts, directs, asked, mixed>>
    BY <1>3, <1>5, <2>1 DEF Groups!RemoveMember
  <2>3. group' = [group EXCEPT !.participantIds = @ \ {q}, !.members[q] = << >>]
    BY <1>1, <1>5 DEF Groups!RemoveMember
  <2>4. << >> \in Seq(Groups!Row) /\ Len(<< >>) = 0
    OBVIOUS
  <2>5. /\ group' \in Doc /\ group'.exists = group.exists /\ group'.participantIds = group.participantIds \ {q}
        /\ group'.members = [group.members EXCEPT ![q] = << >>]
    BY <1>2, <2>2, <2>3, <2>4
  <2>6. group'.participantIds \ {q} = group.participantIds \ {q}
    BY <2>5
  <2>7. Rewrites(r, q, << >>)
    BY <2>4, <2>5, <2>6 DEF Rewrites
  <2> QED BY <2>1, <2>2, <2>4, <2>7, OneRosterChanges
<1>6. ASSUME Groups!PromoteAdmin(r) PROVE GroupInv'
  <2>1. PICK m \in {[op |-> "notice", who |-> reqs[r].who], Groups!Idle} : Groups!Goto(r, m)
    BY <1>6 DEF Groups!PromoteAdmin
  <2>2. /\ reqs[r].op = "promote" /\ m.op \in {"notice", "idle"} /\ m \in Groups!Request /\ q \in Team
        /\ UNCHANGED <<posts, directs, asked, mixed>>
    BY <1>3, <1>6, <2>1 DEF Groups!PromoteAdmin
  <2>3. CASE group.members[q] = << >>
    <3>1. UNCHANGED group
      BY <1>1, <1>6, <2>3 DEF Groups!PromoteAdmin, Groups!RowsOf
    <3>2. Rewrites(r, q, group.members[q])
      BY <1>2, <2>2, <3>1 DEF Rewrites
    <3> QED BY <1>2, <2>1, <2>2, <3>2, OneRosterChanges
  <2>4. CASE group.members[q] # << >>
    <3>1. PICK roles : roles = [group.members[q] EXCEPT ![1] = "admin"]
      OBVIOUS
    <3>2. group' = [group EXCEPT !.members[q] = roles]
      BY <1>1, <1>6, <2>4, <3>1 DEF Groups!PromoteAdmin, Groups!RowsOf
    <3>3. roles \in Seq(Groups!Row) /\ Len(roles) = Len(group.members[q])
      <4>1. PICK old \in Seq(Groups!Row) : old = group.members[q]
        BY <1>2, <2>2
      <4>2. old \in [1..Len(old) -> Groups!Row] /\ Len(old) \in Nat /\ "admin" \in Groups!Row
        BY DEF Groups!Row
      <4>3. roles \in [1..Len(old) -> Groups!Row]
        BY <3>1, <4>1, <4>2
      <4> QED BY <4>1, <4>2, <4>3
    <3>4. /\ group' \in Doc /\ group'.exists = group.exists /\ group'.participantIds = group.participantIds
          /\ group'.members = [group.members EXCEPT ![q] = roles]
      BY <1>2, <2>2, <3>2, <3>3
    <3>5. Rewrites(r, q, roles)
      BY <1>2, <2>2, <3>3, <3>4 DEF Rewrites
    <3> QED BY <2>1, <2>2, <3>3, <3>5, OneRosterChanges
  <2> QED BY <2>3, <2>4
<1> QED BY <1>4, <1>5, <1>6

LEMMA GroupStays == ASSUME GroupInv, [Groups!GroupNext]_(Groups!groupVars) PROVE GroupInv'
<1>1. CASE Groups!GroupNext
  <2>1. ASSUME NEW r \in Handlers, NEW p \in Team, NEW q \in Team, NEW op \in {"add", "remove", "promote"},
               Groups!Look(r, p, op, q)
        PROVE  GroupInv'
    BY <2>1, LookKeeps
  <2>2. ASSUME NEW r \in Handlers, NEW p \in Team, NEW op \in {"rename", "say", "messages"}, Groups!Look(r, p, op, p)
        PROVE  GroupInv'
    BY <2>2, LookKeeps
  <2>3. ASSUME NEW r \in Handlers, NEW p \in Team, Groups!FindDirect(r, p) PROVE GroupInv'
    BY <2>3, NoticesKeep
  <2>4. ASSUME NEW r \in Handlers,
               \/ Groups!AddMembers(r) \/ Groups!RemoveMember(r) \/ Groups!PromoteAdmin(r) \/ Groups!UpdateGroup(r)
               \/ Groups!Post(r) \/ Groups!DeleteMessages(r) \/ Groups!DeleteConversation(r) \/ Groups!CreateDirect(r)
        PROVE  GroupInv'
    BY <2>4, RostersKeep, EndsKeep, NoticesKeep
  <2> QED BY <1>1, <2>1, <2>2, <2>3, <2>4 DEF Groups!GroupNext
<1>2. CASE UNCHANGED Groups!groupVars
  <2>1. UNCHANGED <<group, posts, directs, reqs, asked, mixed>>
    BY <1>2 DEF Groups!groupVars
  <2> QED BY <2>1 DEF GroupInv, GroupCounts, GroupAtWork, AddingFresh, GroupEnds,
                       Groups!OneRowEachUnlessAddedTwice, Groups!RowsOf
<1> QED BY <1>1, <1>2

-----------------------------------------------------------------------------
(* Who is online, and when they were last seen. *)

HereOf(p) == {s \in Handlers : socket[s] = [user |-> p, pc |-> "here"]}

CountsHere == \A p \in Connected : onlineCounts[p] = Cardinality(HereOf(p))

SocketState == [user : Connected \cup {Online!Nobody}, pc : {"none", "here", "away"}]

\* A stamp of an instant, or of a later one, is stored or on its way.
Stamped(p, t) == stored[p] >= t \/ \E w \in writes : w.user = p /\ w.at >= t

\* Whoever is online has a stamp since the last heartbeat; whoever is not, one from within
\* an interval of when they last were, and is shown such a one.
StampKept(p) ==
  \E t \in 0..LastInstant :
    /\ Stamped(p, t)
    /\ onlineCounts[p] # 0 => t >= beat
    /\ onlineCounts[p] = 0 => t + Interval >= seen[p] /\ lastSeenAt[p] + Interval >= seen[p]

\* No stamp is ahead of when a person was online.
SeenInTime(p) ==
  /\ onlineCounts[p] # 0 => seen[p] = time
  /\ seen[p] <= time /\ stored[p] <= seen[p] /\ lastSeenAt[p] <= seen[p]

PresenceTypes ==
  /\ Online!PresenceTypeOK
  /\ \A s \in Handlers : socket[s].pc # "none" => socket[s].user \in Connected

PresenceInv ==
  /\ PresenceTypes
  /\ CountsHere
  /\ Online!ToldIsStatus
  /\ beat <= time /\ time <= beat + Interval
  /\ \A p \in Connected : SeenInTime(p)
  /\ \A w \in writes : w.at <= seen[w.user]
  /\ \A p \in Connected \ lost : StampKept(p)

LEMMA SameCount == \A S : Online!Cardinality(S) = Cardinality(S)
BY DEF Online!Cardinality, Cardinality

LEMMA CountsAre == CountsHere => Online!CountsAreConnections
<1>1. ASSUME CountsHere, NEW p \in Connected
      PROVE  onlineCounts[p] = Cardinality({s \in Handlers : socket[s] = [user |-> p, pc |-> "here"]})
  <2>1. HereOf(p) = {s \in Handlers : socket[s] = [user |-> p, pc |-> "here"]}
    BY DEF HereOf
  <2>2. onlineCounts[p] = Cardinality(HereOf(p))
    BY <1>1 DEF CountsHere
  <2> HIDE DEF HereOf
  <2> QED BY <2>1, <2>2, Zenon
<1> QED BY <1>1, SameCount, Zenon DEF Online!CountsAreConnections

LEMMA PresenceNumbers ==
  ASSUME PresenceTypes
  PROVE  /\ time \in Nat /\ beat \in Nat /\ Interval \in Nat /\ LastInstant \in Nat
         /\ \A p \in Connected : /\ onlineCounts[p] \in Nat /\ seen[p] \in Nat /\ stored[p] \in Nat /\ lastSeenAt[p] \in Nat
                               /\ Online!isOnline(p) <=> onlineCounts[p] # 0
         /\ \A w \in writes : w.user \in Connected /\ w.at \in Nat /\ w.at \in 1..LastInstant
         /\ \A s \in Handlers : socket[s] \in SocketState /\ (socket[s].pc # "none" => socket[s].user \in Connected)
BY PresenceConstants DEF PresenceTypes, Online!PresenceTypeOK, Online!isOnline, SocketState

LEMMA ClockNumbers ==
  ASSUME PresenceTypes
  PROVE  time \in Nat /\ beat \in Nat /\ Interval \in Nat /\ LastInstant \in Nat
BY PresenceNumbers

LEMMA PersonNumbers ==
  ASSUME PresenceTypes, NEW p \in Connected
  PROVE  onlineCounts[p] \in Nat /\ seen[p] \in Nat /\ stored[p] \in Nat /\ lastSeenAt[p] \in Nat
<1>1. /\ onlineCounts \in [Connected -> Nat] /\ seen \in [Connected -> 0..LastInstant]
      /\ stored \in [Connected -> 0..LastInstant] /\ lastSeenAt \in [Connected -> 0..LastInstant]
  BY DEF PresenceTypes, Online!PresenceTypeOK
<1> QED BY <1>1

LEMMA OnlineIsCounted ==
  ASSUME PresenceTypes, NEW p \in Connected
  PROVE  Online!isOnline(p) <=> onlineCounts[p] # 0
BY PersonNumbers DEF Online!isOnline

LEMMA WriteNumbers ==
  ASSUME PresenceTypes, NEW w \in writes
  PROVE  w.user \in Connected /\ w.at \in Nat
<1>1. w \in [user : Connected, at : 1..LastInstant]
  BY DEF PresenceTypes, Online!PresenceTypeOK
<1> QED BY <1>1, PresenceConstants

LEMMA PresenceBegins == ASSUME ConversationsInit PROVE PresenceInv
<1>1. Online!PresenceInit
  BY DEF ConversationsInit
<1>2. /\ time = 1 /\ beat = 1 /\ mishaps = 0 /\ writes = {} /\ busy = {} /\ lost = {}
      /\ socket = [s \in Handlers |-> Online!Gone] /\ onlineCounts = [p \in Connected |-> 0]
      /\ lastSeenAt = [p \in Connected |-> 0] /\ stored = [p \in Connected |-> 0] /\ seen = [p \in Connected |-> 0]
      /\ told = [p \in Connected |-> "offline"]
  BY <1>1 DEF Online!PresenceInit, Online!Never
<1>3. Online!Gone \in SocketState /\ Online!Gone.pc = "none"
  BY DEF Online!Gone, SocketState
<1>4. PresenceTypes
  BY <1>2, <1>3, PresenceConstants, ChatConstants DEF PresenceTypes, Online!PresenceTypeOK, SocketState
<1>5. CountsHere
  <2>1. ASSUME NEW p \in Connected PROVE {s \in Handlers : socket[s] = [user |-> p, pc |-> "here"]} = {}
    <3>1. ASSUME NEW s \in Handlers PROVE socket[s] # [user |-> p, pc |-> "here"]
      <4>1. socket[s].pc = "none"
        BY <1>2, <1>3
      <4> QED BY <4>1
    <3> QED BY <3>1
  <2>2. ASSUME NEW p \in Connected PROVE onlineCounts[p] = Cardinality(HereOf(p))
    <3>1. HereOf(p) = {}
      BY <2>1 DEF HereOf
    <3> QED BY <1>2, <3>1, FS_EmptySet
  <2> QED BY <2>2 DEF CountsHere
<1>6. Online!ToldIsStatus
  BY <1>2 DEF Online!ToldIsStatus, Online!presenceStatusOf
<1>7. beat <= time /\ time <= beat + Interval /\ (\A p \in Connected : SeenInTime(p)) /\ \A w \in writes : w.at <= seen[w.user]
  BY <1>2, PresenceConstants DEF SeenInTime
<1>8. ASSUME NEW p \in Connected PROVE StampKept(p)
  <2>1. Stamped(p, 0) /\ 0 \in 0..LastInstant
    BY <1>2, PresenceConstants DEF Stamped
  <2> QED BY <1>2, <2>1, PresenceConstants DEF StampKept
<1> QED BY <1>4, <1>5, <1>6, <1>7, <1>8 DEF PresenceInv

\* A connection changes: whose it counts for changes with it.
LEMMA OneSocket ==
  ASSUME PresenceInv, NEW s \in Handlers, NEW m \in SocketState, socket' = [socket EXCEPT ![s] = m]
  PROVE  /\ socket' \in [Handlers -> SocketState] /\ socket'[s] = m /\ \A r \in Handlers \ {s} : socket'[r] = socket[r]
         /\ \A p \in Connected :
              /\ onlineCounts[p] = Cardinality(HereOf(p))
              /\ s \in HereOf(p) <=> socket[s] = [user |-> p, pc |-> "here"]
              /\ s \in HereOf(p) => onlineCounts[p] # 0
              /\ m = [user |-> p, pc |-> "here"] =>
                   Cardinality(HereOf(p))' = IF s \in HereOf(p) THEN onlineCounts[p] ELSE onlineCounts[p] + 1
              /\ m # [user |-> p, pc |-> "here"] =>
                   Cardinality(HereOf(p))' = IF s \in HereOf(p) THEN onlineCounts[p] - 1 ELSE onlineCounts[p]
<1>1. socket \in [Handlers -> SocketState]
  BY DEF PresenceInv, PresenceTypes, Online!PresenceTypeOK, SocketState
<1>2. socket' \in [Handlers -> SocketState] /\ socket'[s] = m /\ \A r \in Handlers \ {s} : socket'[r] = socket[r]
  BY <1>1
<1>3. ASSUME NEW p \in Connected
      PROVE  /\ onlineCounts[p] = Cardinality(HereOf(p))
             /\ s \in HereOf(p) <=> socket[s] = [user |-> p, pc |-> "here"]
             /\ s \in HereOf(p) => onlineCounts[p] # 0
             /\ m = [user |-> p, pc |-> "here"] =>
                  Cardinality(HereOf(p))' = IF s \in HereOf(p) THEN onlineCounts[p] ELSE onlineCounts[p] + 1
             /\ m # [user |-> p, pc |-> "here"] =>
                  Cardinality(HereOf(p))' = IF s \in HereOf(p) THEN onlineCounts[p] - 1 ELSE onlineCounts[p]
  <2>1. onlineCounts[p] = Cardinality(HereOf(p))
    BY DEF PresenceInv, CountsHere
  <2>2. s \in HereOf(p) <=> socket[s] = [user |-> p, pc |-> "here"]
    BY DEF HereOf
  <2>3. IsFiniteSet(HereOf(p))
    BY GroupConstants, FS_Subset DEF HereOf
  <2>4. s \in HereOf(p) => Cardinality(HereOf(p)) # 0
    BY <2>3, FS_EmptySet
  <2> DEFINE here == [user |-> p, pc |-> "here"]
  <2> HIDE DEF here
  <2>9. HereOf(p) = {r \in Handlers : socket[r] = here} /\ HereOf(p)' = {r \in Handlers : socket'[r] = here}
    BY DEF HereOf, here
  <2>5. m = [user |-> p, pc |-> "here"] => HereOf(p)' = HereOf(p) \cup {s}
    <3>1. m = here => HereOf(p)' = HereOf(p) \cup {s}
      BY <1>2, <2>9
    <3> QED BY <3>1 DEF here
  <2>6. m # [user |-> p, pc |-> "here"] => HereOf(p)' = HereOf(p) \ {s}
    <3>1. m # here => HereOf(p)' = HereOf(p) \ {s}
      BY <1>2, <2>9
    <3> QED BY <3>1 DEF here
  <2>7. Cardinality(HereOf(p))' = Cardinality(HereOf(p)')
    OBVIOUS
  <2>8. /\ Cardinality(HereOf(p) \cup {s}) = IF s \in HereOf(p) THEN Cardinality(HereOf(p)) ELSE Cardinality(HereOf(p)) + 1
        /\ Cardinality(HereOf(p) \ {s}) = IF s \in HereOf(p) THEN Cardinality(HereOf(p)) - 1 ELSE Cardinality(HereOf(p))
    BY <2>3, FS_AddElement, FS_RemoveElement
  <2> QED BY <2>1, <2>2, <2>4, <2>5, <2>6, <2>7, <2>8
<1> QED BY <1>2, <1>3

\* What was stamped stays so while stamps are only added, and the rest of a person with it.
LEMMA StampsStay ==
  ASSUME NEW p \in Connected, NEW t \in 0..LastInstant, Stamped(p, t), writes \subseteq writes', stored' = stored
  PROVE  Stamped(p, t)'
BY DEF Stamped

LEMMA StampKeptStays ==
  ASSUME NEW p \in Connected, StampKept(p), \A t \in 0..LastInstant : Stamped(p, t) => Stamped(p, t)',
         onlineCounts'[p] = 0 <=> onlineCounts[p] = 0, beat' = beat, seen'[p] = seen[p], lastSeenAt'[p] = lastSeenAt[p]
  PROVE  StampKept(p)'
<1>1. PICK t \in 0..LastInstant :
        /\ Stamped(p, t)
        /\ onlineCounts[p] # 0 => t >= beat
        /\ onlineCounts[p] = 0 => t + Interval >= seen[p] /\ lastSeenAt[p] + Interval >= seen[p]
  BY DEF StampKept
<1>2. Stamped(p, t)'
  BY <1>1
<1> QED BY <1>1, <1>2 DEF StampKept

\* A person comes, or comes back.
LEMMA Comes ==
  ASSUME PresenceInv, NEW s \in Handlers, NEW p \in Connected, socket[s].pc # "here",
         socket' = [socket EXCEPT ![s] = [user |-> p, pc |-> "here"]], Online!markOnline(p),
         UNCHANGED <<time, stored, beat, busy, lost, mishaps>>
  PROVE  PresenceInv'
<1>1. PICK m : m = [user |-> p, pc |-> "here"]
  OBVIOUS
<1>2. m \in SocketState /\ m.pc = "here" /\ m.user = p
  BY <1>1 DEF SocketState
<1>3. PICK w : w = [user |-> p, at |-> time]
  OBVIOUS
<1>4. PresenceTypes /\ time \in 1..LastInstant /\ w \in [user : Connected, at : 1..LastInstant] /\ w.user = p /\ w.at = time
  BY <1>3 DEF PresenceInv, PresenceTypes, Online!PresenceTypeOK
<1>5. /\ onlineCounts' = [onlineCounts EXCEPT ![p] = @ + 1] /\ writes' = writes \cup {w}
      /\ seen' = [seen EXCEPT ![p] = time] /\ lastSeenAt' = lastSeenAt
  BY <1>3 DEF Online!markOnline
<1>6. /\ onlineCounts' \in [Connected -> Nat] /\ onlineCounts'[p] = onlineCounts[p] + 1
      /\ \A q \in Connected \ {p} : onlineCounts'[q] = onlineCounts[q]
      /\ seen' \in [Connected -> 0..LastInstant] /\ seen'[p] = time /\ \A q \in Connected \ {p} : seen'[q] = seen[q]
  BY <1>4, <1>5 DEF PresenceTypes, Online!PresenceTypeOK
<1>7. /\ socket' \in [Handlers -> SocketState] /\ socket'[s] = m /\ \A r \in Handlers \ {s} : socket'[r] = socket[r]
  BY <1>1, <1>2, OneSocket
<1>8. CountsHere'
  <2>1. ASSUME NEW q \in Connected PROVE onlineCounts'[q] = Cardinality(HereOf(q))'
    <3>1. s \notin HereOf(q) /\ (m = [user |-> q, pc |-> "here"] <=> q = p)
      BY <1>1 DEF HereOf
    <3> QED BY <1>1, <1>2, <1>6, <3>1, OneSocket
  <2> QED BY <2>1 DEF CountsHere
<1>9. told' \in [Connected -> {"in_call", "online", "offline"}] /\ Online!ToldIsStatus'
  <2>1. told \in [Connected -> {"in_call", "online", "offline"}] /\ busy' = busy /\ onlineCounts[p] \in Nat
    BY <1>4, PresenceNumbers DEF PresenceTypes, Online!PresenceTypeOK
  <2>2. ASSUME NEW q \in Connected
        PROVE  told[q] = IF q \in busy THEN "in_call" ELSE IF onlineCounts[q] > 0 THEN "online" ELSE "offline"
    BY DEF PresenceInv, Online!ToldIsStatus, Online!presenceStatusOf
  <2>3. CASE Online!isOnline(p)
    <3>1. told' = told /\ onlineCounts[p] > 0 /\ onlineCounts'[p] > 0
      BY <1>6, <2>1, <2>3 DEF Online!markOnline, Online!isOnline
    <3> QED BY <1>6, <2>1, <2>2, <3>1 DEF Online!ToldIsStatus, Online!presenceStatusOf
  <2>4. CASE ~Online!isOnline(p)
    <3>1. /\ told' = [told EXCEPT ![p] = IF p \in busy THEN "in_call" ELSE IF onlineCounts'[p] > 0 THEN "online" ELSE "offline"]
      BY <1>5, <2>4 DEF Online!markOnline, Online!broadcastPresence, Online!presenceStatusOf
    <3> QED BY <1>6, <2>1, <2>2, <3>1 DEF Online!ToldIsStatus, Online!presenceStatusOf
  <2> QED BY <2>3, <2>4
<1>10. PresenceTypes'
  <2>1. \A r \in Handlers : socket'[r].pc # "none" => socket'[r].user \in Connected
    BY <1>2, <1>4, <1>7 DEF PresenceTypes
  <2> QED BY <1>4, <1>5, <1>6, <1>7, <1>9, <2>1 DEF PresenceTypes, Online!PresenceTypeOK, SocketState
<1>11. beat' <= time' /\ time' <= beat' + Interval
  BY DEF PresenceInv
<1>12. ASSUME NEW q \in Connected PROVE SeenInTime(q)'
  <2>1. SeenInTime(q) /\ seen[q] \in Nat /\ time \in Nat /\ stored[q] \in Nat /\ lastSeenAt[q] \in Nat
    BY <1>4, PersonNumbers, ClockNumbers DEF PresenceInv
  <2>2. CASE q = p
    BY <1>5, <1>6, <2>1, <2>2 DEF SeenInTime
  <2>3. CASE q # p
    BY <1>5, <1>6, <2>1, <2>3 DEF SeenInTime
  <2> QED BY <2>2, <2>3
<1>13. ASSUME NEW x \in writes' PROVE x.at <= seen'[x.user]
  <2>1. CASE x = w
    BY <1>4, <1>6, <2>1
  <2>2. CASE x \in writes
    <3>1. x.at <= seen[x.user] /\ x.user \in Connected /\ x.at \in Nat /\ time \in Nat /\ seen[x.user] \in Nat /\ seen[x.user] <= time
      BY <1>4, <2>2, PersonNumbers, WriteNumbers, ClockNumbers DEF PresenceInv, SeenInTime
    <3> QED BY <1>6, <3>1
  <2> QED BY <1>5, <2>1, <2>2
<1>14. ASSUME NEW q \in Connected \ lost' PROVE StampKept(q)'
  <2>1. StampKept(q) /\ writes \subseteq writes' /\ stored' = stored /\ beat' = beat
    BY <1>5 DEF PresenceInv
  <2>2. CASE q # p
    <3>1. \A t \in 0..LastInstant : Stamped(q, t) => Stamped(q, t)'
      BY <2>1, StampsStay
    <3>2. (onlineCounts'[q] = 0 <=> onlineCounts[q] = 0) /\ seen'[q] = seen[q] /\ lastSeenAt'[q] = lastSeenAt[q]
      BY <1>5, <1>6, <2>2
    <3> QED BY <2>1, <3>1, <3>2, StampKeptStays
  <2>3. CASE q = p
    <3>1. PICK t \in 0..LastInstant : t = time
      BY <1>4
    <3>2. Stamped(q, t)'
      BY <1>4, <1>5, <2>3, <3>1, PresenceNumbers DEF Stamped
    <3>3. onlineCounts'[q] # 0 /\ t >= beat'
      BY <1>4, <1>6, <2>3, <3>1, PresenceNumbers DEF PresenceInv
    <3> QED BY <3>2, <3>3 DEF StampKept
  <2> QED BY <2>2, <2>3
<1> QED BY <1>8, <1>9, <1>10, <1>11, <1>12, <1>13, <1>14 DEF PresenceInv

\* A person goes, or goes away.
LEMMA Goes ==
  ASSUME PresenceInv, NEW s \in Handlers, NEW m \in SocketState, socket[s].pc = "here", m.pc # "here",
         m.pc # "none" => m.user \in Connected,
         socket' = [socket EXCEPT ![s] = m], Online!markOffline(socket[s].user),
         UNCHANGED <<time, stored, beat, busy, lost, mishaps>>
  PROVE  PresenceInv'
<1>1. PresenceTypes /\ time \in 1..LastInstant
  BY DEF PresenceInv, PresenceTypes, Online!PresenceTypeOK
<1>2. PICK p \in Connected : p = socket[s].user
  BY <1>1, PresenceNumbers
<1>3. PICK w : w = [user |-> p, at |-> time]
  OBVIOUS
<1>4. /\ w \in [user : Connected, at : 1..LastInstant] /\ w.user = p /\ w.at = time /\ time \in Nat
      /\ onlineCounts[p] \in Nat /\ busy' = busy
  BY <1>1, <1>3, PresenceNumbers
<1>5. socket' \in [Handlers -> SocketState] /\ socket'[s] = m /\ \A r \in Handlers \ {s} : socket'[r] = socket[r]
  BY OneSocket
<1>6. socket[s] = [user |-> p, pc |-> "here"]
  <2>1. socket[s] \in SocketState
    BY <1>1, PresenceNumbers
  <2> QED BY <1>2, <2>1 DEF SocketState
<1>7. /\ onlineCounts[p] # 0
      /\ \A q \in Connected : Cardinality(HereOf(q))' = IF q = p THEN onlineCounts[q] - 1 ELSE onlineCounts[q]
  <2>1. ASSUME NEW q \in Connected
        PROVE  /\ m # [user |-> q, pc |-> "here"]
               /\ socket[s] = [user |-> q, pc |-> "here"] <=> q = p
    BY <1>6
  <2> QED BY <2>1, OneSocket
<1>8. /\ onlineCounts' = [onlineCounts EXCEPT ![p] = @ - 1] /\ seen' = seen
      /\ IF onlineCounts[p] - 1 = 0
         THEN /\ lastSeenAt' = [lastSeenAt EXCEPT ![p] = time] /\ writes' = writes \cup {w}
              /\ Online!broadcastPresence(p, onlineCounts', busy)
         ELSE UNCHANGED <<lastSeenAt, writes, told>>
  <2>1. onlineCounts[p] > 0
    BY <1>4, <1>7
  <2>2. [onlineCounts EXCEPT ![p] = IF @ > 0 THEN @ - 1 ELSE 0] = [onlineCounts EXCEPT ![p] = @ - 1]
    BY <2>1
  <2>3. onlineCounts' = [onlineCounts EXCEPT ![p] = @ - 1] /\ seen' = seen
    BY <1>2, <2>2 DEF Online!markOffline
  <2>4. onlineCounts'[p] = onlineCounts[p] - 1
    BY <1>1, <2>3 DEF PresenceTypes, Online!PresenceTypeOK
  <2> QED BY <1>2, <1>3, <2>2, <2>3, <2>4 DEF Online!markOffline
<1>9. /\ onlineCounts' \in [Connected -> Nat] /\ onlineCounts'[p] = onlineCounts[p] - 1
      /\ \A q \in Connected \ {p} : onlineCounts'[q] = onlineCounts[q]
  BY <1>1, <1>4, <1>7, <1>8 DEF PresenceTypes, Online!PresenceTypeOK
<1>10. CountsHere'
  <2>1. ASSUME NEW q \in Connected PROVE onlineCounts'[q] = Cardinality(HereOf(q))'
    BY <1>7, <1>9
  <2> QED BY <2>1 DEF CountsHere
<1>11. /\ writes \subseteq writes' /\ writes' \subseteq writes \cup {w} /\ (onlineCounts'[p] = 0 => w \in writes')
       /\ lastSeenAt' \in [Connected -> 0..LastInstant] /\ \A q \in Connected \ {p} : lastSeenAt'[q] = lastSeenAt[q]
       /\ lastSeenAt'[p] = IF onlineCounts'[p] = 0 THEN time ELSE lastSeenAt[p]
  BY <1>1, <1>8, <1>9 DEF PresenceTypes, Online!PresenceTypeOK
<1>12. told' \in [Connected -> {"in_call", "online", "offline"}] /\ Online!ToldIsStatus'
  <2>1. told \in [Connected -> {"in_call", "online", "offline"}]
    BY <1>1 DEF PresenceTypes, Online!PresenceTypeOK
  <2>2. ASSUME NEW q \in Connected
        PROVE  told[q] = IF q \in busy THEN "in_call" ELSE IF onlineCounts[q] > 0 THEN "online" ELSE "offline"
    BY DEF PresenceInv, Online!ToldIsStatus, Online!presenceStatusOf
  <2>3. CASE onlineCounts'[p] # 0
    <3>1. told' = told /\ onlineCounts[p] > 0 /\ onlineCounts'[p] > 0
      BY <1>4, <1>7, <1>8, <1>9, <2>3
    <3> QED BY <1>4, <1>9, <2>1, <2>2, <3>1 DEF Online!ToldIsStatus, Online!presenceStatusOf
  <2>4. CASE onlineCounts'[p] = 0
    <3>1. told' = [told EXCEPT ![p] = IF p \in busy THEN "in_call" ELSE IF onlineCounts'[p] > 0 THEN "online" ELSE "offline"]
      BY <1>8, <1>9, <2>4 DEF Online!broadcastPresence, Online!presenceStatusOf
    <3> QED BY <1>4, <1>9, <2>1, <2>2, <3>1 DEF Online!ToldIsStatus, Online!presenceStatusOf
  <2> QED BY <2>3, <2>4
<1>13. PresenceTypes'
  <2>1. \A r \in Handlers : socket'[r].pc # "none" => socket'[r].user \in Connected
    BY <1>1, <1>5 DEF PresenceTypes
  <2>2. writes' \subseteq [user : Connected, at : 1..LastInstant]
    BY <1>1, <1>4, <1>11 DEF PresenceTypes, Online!PresenceTypeOK
  <2> QED BY <1>1, <1>5, <1>8, <1>9, <1>11, <1>12, <2>1, <2>2 DEF PresenceTypes, Online!PresenceTypeOK, SocketState
<1>14. beat' <= time' /\ time' <= beat' + Interval
  BY DEF PresenceInv
<1>15. seen[p] = time
  BY <1>7 DEF PresenceInv, SeenInTime
<1>16. ASSUME NEW q \in Connected PROVE SeenInTime(q)'
  <2>1. SeenInTime(q) /\ seen[q] \in Nat /\ time \in Nat
    BY <1>1, PersonNumbers, ClockNumbers DEF PresenceInv
  <2>2. CASE q = p
    BY <1>7, <1>8, <1>11, <1>15, <2>1, <2>2 DEF SeenInTime
  <2>3. CASE q # p
    BY <1>8, <1>9, <1>11, <2>1, <2>3 DEF SeenInTime
  <2> QED BY <2>2, <2>3
<1>17. ASSUME NEW x \in writes' PROVE x.at <= seen'[x.user]
  <2>1. CASE x = w
    BY <1>4, <1>8, <1>15, <2>1
  <2>2. CASE x \in writes
    BY <1>8, <2>2 DEF PresenceInv
  <2> QED BY <1>11, <2>1, <2>2
<1>18. ASSUME NEW q \in Connected \ lost' PROVE StampKept(q)'
  <2>1. StampKept(q) /\ stored' = stored /\ beat' = beat
    BY DEF PresenceInv
  <2>2. \A t \in 0..LastInstant : Stamped(q, t) => Stamped(q, t)'
    BY <1>11, <2>1, StampsStay
  <2>3. CASE q # p \/ onlineCounts'[p] # 0
    <3>1. (onlineCounts'[q] = 0 <=> onlineCounts[q] = 0) /\ seen'[q] = seen[q] /\ lastSeenAt'[q] = lastSeenAt[q]
      BY <1>7, <1>8, <1>9, <1>11, <2>3
    <3> QED BY <2>1, <2>2, <3>1, StampKeptStays
  <2>4. CASE q = p /\ onlineCounts'[p] = 0
    <3>1. PICK t \in 0..LastInstant : t = time
      BY <1>1
    <3>2. Stamped(q, t)'
      BY <1>4, <1>11, <2>4, <3>1 DEF Stamped
    <3>3. t + Interval >= seen'[q] /\ lastSeenAt'[q] + Interval >= seen'[q]
      BY <1>1, <1>4, <1>8, <1>11, <1>15, <2>4, <3>1, PresenceNumbers
    <3> QED BY <2>4, <3>2, <3>3 DEF StampKept
  <2> QED BY <2>3, <2>4
<1> QED BY <1>10, <1>12, <1>13, <1>14, <1>16, <1>17, <1>18 DEF PresenceInv

\* A step that leaves the counts, what is shown and the history alone.
LEMMA StampsMove ==
  ASSUME PresenceInv, PresenceTypes', CountsHere',
         UNCHANGED <<time, onlineCounts, lastSeenAt, busy, told, seen>>, stored' = stored,
         beat' <= time', time' <= beat' + Interval, \A w \in writes' : w.at <= seen[w.user],
         \A p \in Connected \ lost' : StampKept(p)'
  PROVE  PresenceInv'
<1>1. Online!ToldIsStatus'
  BY DEF PresenceInv, Online!ToldIsStatus, Online!presenceStatusOf
<1>2. (\A p \in Connected : SeenInTime(p))'
  BY DEF PresenceInv, SeenInTime
<1> QED BY <1>1, <1>2 DEF PresenceInv

\* The rest: a person's calls, the heartbeat, stamps that land or are lost, the end of the
\* process, and time.
LEMMA CallsFlag ==
  ASSUME PresenceInv, NEW p \in Connected, Online!setInCall(p) PROVE PresenceInv'
<1>1. PICK calls1 : calls1 = IF p \in busy THEN busy \ {p} ELSE busy \cup {p}
  OBVIOUS
<1>2. /\ UNCHANGED <<time, socket, onlineCounts, lastSeenAt, stored, writes, beat, seen, lost, mishaps>>
      /\ busy' = calls1
      /\ told' = [told EXCEPT ![p] = IF p \in busy' THEN "in_call" ELSE IF onlineCounts[p] > 0 THEN "online" ELSE "offline"]
  BY <1>1 DEF Online!setInCall, Online!broadcastPresence, Online!presenceStatusOf
<1>3. PresenceTypes /\ busy' \subseteq Connected /\ \A q \in Connected \ {p} : q \in busy' <=> q \in busy
  BY <1>1, <1>2 DEF PresenceInv, PresenceTypes, Online!PresenceTypeOK
<1>4. told' \in [Connected -> {"in_call", "online", "offline"}] /\ Online!ToldIsStatus'
  <2>1. told \in [Connected -> {"in_call", "online", "offline"}]
    BY <1>3 DEF PresenceTypes, Online!PresenceTypeOK
  <2>2. ASSUME NEW q \in Connected
        PROVE  told[q] = IF q \in busy THEN "in_call" ELSE IF onlineCounts[q] > 0 THEN "online" ELSE "offline"
    BY DEF PresenceInv, Online!ToldIsStatus, Online!presenceStatusOf
  <2> QED BY <1>2, <1>3, <2>1, <2>2 DEF Online!ToldIsStatus, Online!presenceStatusOf
<1>5. PresenceTypes'
  BY <1>2, <1>3, <1>4 DEF PresenceTypes, Online!PresenceTypeOK
<1>6. CountsHere'
  BY <1>2 DEF PresenceInv, CountsHere, HereOf
<1>7. (\A q \in Connected : SeenInTime(q))' /\ (\A w \in writes : w.at <= seen[w.user])'
      /\ beat' <= time' /\ time' <= beat' + Interval
  BY <1>2 DEF PresenceInv, SeenInTime
<1>8. (\A q \in Connected \ lost : StampKept(q))'
  BY <1>2 DEF PresenceInv, StampKept, Stamped
<1> QED BY <1>4, <1>5, <1>6, <1>7, <1>8 DEF PresenceInv

LEMMA HeartBeats == ASSUME PresenceInv, Online!Heartbeat PROVE PresenceInv'
<1>1. /\ UNCHANGED <<time, socket, onlineCounts, lastSeenAt, stored, busy, told, seen, lost, mishaps>> /\ beat' = time
      /\ writes' = writes \cup {[user |-> p, at |-> time] : p \in {q \in Connected : Online!isOnline(q)}}
  BY DEF Online!Heartbeat
<1>2. PresenceTypes /\ time \in 1..LastInstant /\ time \in Nat /\ Interval \in Nat
  BY PresenceNumbers DEF PresenceInv, PresenceTypes, Online!PresenceTypeOK
<1>3. ASSUME NEW w \in writes'
      PROVE  w \in [user : Connected, at : 1..LastInstant] /\ w.at <= seen[w.user]
  <2>1. CASE w \in writes
    BY <1>2, <2>1 DEF PresenceInv, PresenceTypes, Online!PresenceTypeOK
  <2>2. CASE w \notin writes
    <3>1. PICK p \in Connected : Online!isOnline(p) /\ w = [user |-> p, at |-> time]
      BY <1>1, <2>2
    <3>2. seen[p] = time
      BY <1>2, <3>1, OnlineIsCounted DEF PresenceInv, SeenInTime
    <3> QED BY <1>2, <3>1, <3>2
  <2> QED BY <2>1, <2>2
<1>4. PresenceTypes'
  <2>1. writes' \subseteq [user : Connected, at : 1..LastInstant]
    BY <1>3
  <2>2. beat' \in 0..LastInstant
    BY <1>1, <1>2
  <2> QED BY <1>1, <1>2, <2>1, <2>2 DEF PresenceTypes, Online!PresenceTypeOK
<1>5. CountsHere'
  BY <1>1 DEF PresenceInv, CountsHere, HereOf
<1>6. ASSUME NEW p \in Connected \ lost' PROVE StampKept(p)'
  <2>1. PICK t \in 0..LastInstant :
          /\ Stamped(p, t)
          /\ onlineCounts[p] # 0 => t >= beat
          /\ onlineCounts[p] = 0 => t + Interval >= seen[p] /\ lastSeenAt[p] + Interval >= seen[p]
    BY <1>1 DEF PresenceInv, StampKept
  <2>2. CASE onlineCounts[p] = 0
    <3>1. Stamped(p, t)'
      BY <1>1, <2>1, StampsStay
    <3> QED BY <1>1, <2>1, <2>2, <3>1 DEF StampKept
  <2>3. CASE onlineCounts[p] # 0
    <3>1. PICK u \in 0..LastInstant : u = time
      BY <1>2
    <3>2. PICK w : w = [user |-> p, at |-> time]
      OBVIOUS
    <3>3. w \in writes' /\ w.user = p /\ w.at >= u
      BY <1>1, <1>2, <2>3, <3>1, <3>2, PresenceNumbers
    <3>4. Stamped(p, u)'
      BY <3>3 DEF Stamped
    <3> QED BY <1>1, <1>2, <2>3, <3>1, <3>4 DEF StampKept
  <2> QED BY <2>2, <2>3
<1>7. beat' <= time' /\ time' <= beat' + Interval
  BY <1>1, <1>2
<1> QED BY <1>1, <1>3, <1>4, <1>5, <1>6, <1>7, StampsMove

LEMMA StampLands == ASSUME PresenceInv, NEW x \in writes, Online!persistLastSeen(x) PROVE PresenceInv'
<1>1. /\ UNCHANGED <<time, socket, onlineCounts, lastSeenAt, beat, busy, told, seen, mishaps>>
      /\ writes' = writes \ {x} /\ stored' = [stored EXCEPT ![x.user] = x.at]
      /\ lost' = IF x.at < stored[x.user] THEN lost \cup {x.user} ELSE lost
  BY DEF Online!persistLastSeen
<1>2. PresenceTypes /\ x.user \in Connected /\ x.at \in 1..LastInstant /\ x.at <= seen[x.user]
  BY PresenceNumbers DEF PresenceInv
<1>3. /\ stored' \in [Connected -> 0..LastInstant] /\ stored'[x.user] = x.at
      /\ \A p \in Connected \ {x.user} : stored'[p] = stored[p]
  BY <1>1, <1>2 DEF PresenceTypes, Online!PresenceTypeOK
<1>4. PresenceTypes'
  <2>1. lost' \subseteq Connected /\ writes' \subseteq [user : Connected, at : 1..LastInstant]
    BY <1>1, <1>2 DEF PresenceTypes, Online!PresenceTypeOK
  <2> QED BY <1>1, <1>2, <1>3, <2>1 DEF PresenceTypes, Online!PresenceTypeOK
<1>5. CountsHere' /\ Online!ToldIsStatus'
  BY <1>1 DEF PresenceInv, CountsHere, HereOf, Online!ToldIsStatus, Online!presenceStatusOf
<1>6. ASSUME NEW p \in Connected PROVE SeenInTime(p)'
  <2>1. SeenInTime(p)
    BY DEF PresenceInv
  <2> QED BY <1>1, <1>2, <1>3, <2>1 DEF SeenInTime
<1>7. ASSUME NEW p \in Connected \ lost', NEW t \in 0..LastInstant, Stamped(p, t)
      PROVE  Stamped(p, t)'
  <2>1. \A q \in Connected : stored[q] \in Nat
    BY <1>2, PersonNumbers
  <2>2. CASE stored[p] >= t
    BY <1>1, <1>2, <1>3, <2>1, <2>2 DEF Stamped
  <2>3. CASE ~(stored[p] >= t)
    <3>1. PICK w \in writes : w.user = p /\ w.at >= t
      BY <1>7, <2>3 DEF Stamped
    <3>2. CASE w = x
      BY <1>3, <3>1, <3>2 DEF Stamped
    <3>3. CASE w # x
      BY <1>1, <3>1, <3>3 DEF Stamped
    <3> QED BY <3>2, <3>3
  <2> QED BY <2>2, <2>3
<1>8. ASSUME NEW p \in Connected \ lost' PROVE StampKept(p)'
  <2>1. StampKept(p)
    BY <1>1 DEF PresenceInv
  <2> QED BY <1>1, <1>7, <2>1, StampKeptStays
<1>9. beat' <= time' /\ time' <= beat' + Interval /\ \A w \in writes' : w.at <= seen'[w.user]
  BY <1>1 DEF PresenceInv
<1> QED BY <1>4, <1>5, <1>6, <1>8, <1>9 DEF PresenceInv

LEMMA StampIsLost == ASSUME PresenceInv, NEW x \in writes, Online!LoseStamp(x) PROVE PresenceInv'
<1>1. /\ UNCHANGED <<time, socket, onlineCounts, lastSeenAt, stored, beat, busy, told, seen>>
      /\ writes' = writes \ {x} /\ lost' = lost \cup {x.user} /\ mishaps < MaxFaults /\ mishaps' = mishaps + 1
  BY DEF Online!LoseStamp
<1>2. PresenceTypes /\ x.user \in Connected
  BY PresenceNumbers DEF PresenceInv
<1>3. PresenceTypes'
  <2>1. lost' \subseteq Connected /\ writes' \subseteq [user : Connected, at : 1..LastInstant] /\ mishaps' \in 0..MaxFaults
    BY <1>1, <1>2, ChatConstants DEF PresenceTypes, Online!PresenceTypeOK
  <2> QED BY <1>1, <1>2, <2>1 DEF PresenceTypes, Online!PresenceTypeOK
<1>4. CountsHere'
  BY <1>1 DEF PresenceInv, CountsHere, HereOf
<1>5. ASSUME NEW p \in Connected \ lost' PROVE StampKept(p)'
  <2>1. StampKept(p) /\ p # x.user
    BY <1>1 DEF PresenceInv
  <2>2. \A t \in 0..LastInstant : Stamped(p, t) => Stamped(p, t)'
    BY <1>1, <2>1 DEF Stamped
  <2> QED BY <1>1, <2>1, <2>2, StampKeptStays
<1>6. beat' <= time' /\ time' <= beat' + Interval /\ \A w \in writes' : w.at <= seen[w.user]
  BY <1>1 DEF PresenceInv
<1> QED BY <1>1, <1>3, <1>4, <1>5, <1>6, StampsMove

LEMMA Restarts == ASSUME PresenceInv, Online!Restart PROVE PresenceInv'
<1>1. /\ time' = time /\ stored' = stored /\ seen' = seen /\ beat' = time
      /\ socket' = [s \in Handlers |-> Online!Gone] /\ onlineCounts' = [p \in Connected |-> 0]
      /\ busy' = {} /\ told' = [p \in Connected |-> "offline"] /\ lastSeenAt' = stored /\ writes' = {}
      /\ lost' = lost \cup {w.user : w \in writes} /\ mishaps < MaxFaults /\ mishaps' = mishaps + 1
  BY DEF Online!Restart
<1>2. PresenceTypes /\ time \in 1..LastInstant
  BY DEF PresenceInv, PresenceTypes, Online!PresenceTypeOK
<1>3. Online!Gone \in SocketState /\ Online!Gone.pc = "none"
  BY DEF Online!Gone, SocketState
<1>4. PresenceTypes'
  <2>1. lost' \subseteq Connected /\ mishaps' \in 0..MaxFaults /\ beat' \in 0..LastInstant
    BY <1>1, <1>2, PresenceNumbers, ChatConstants DEF PresenceTypes, Online!PresenceTypeOK
  <2>2. socket' \in [Handlers -> SocketState] /\ \A s \in Handlers : socket'[s].pc = "none"
    BY <1>1, <1>3
  <2> QED BY <1>1, <1>2, <2>1, <2>2 DEF PresenceTypes, Online!PresenceTypeOK, SocketState
<1>5. CountsHere'
  <2>1. ASSUME NEW p \in Connected PROVE onlineCounts'[p] = Cardinality(HereOf(p))'
    <3>1. ASSUME NEW s \in Handlers PROVE socket'[s] # [user |-> p, pc |-> "here"]
      <4>1. socket'[s].pc = "none"
        BY <1>1, <1>3
      <4> QED BY <4>1
    <3>2. HereOf(p)' = {}
      BY <3>1 DEF HereOf
    <3> QED BY <1>1, <3>2, FS_EmptySet
  <2> QED BY <2>1 DEF CountsHere
<1>6. Online!ToldIsStatus'
  BY <1>1 DEF Online!ToldIsStatus, Online!presenceStatusOf
<1>7. ASSUME NEW p \in Connected PROVE SeenInTime(p)'
  BY <1>1 DEF PresenceInv, SeenInTime
<1>8. ASSUME NEW p \in Connected \ lost' PROVE StampKept(p)'
  <2>1. StampKept(p) /\ \A w \in writes : w.user # p
    BY <1>1 DEF PresenceInv
  <2>2. PICK t \in 0..LastInstant :
          /\ Stamped(p, t)
          /\ onlineCounts[p] # 0 => t >= beat
          /\ onlineCounts[p] = 0 => t + Interval >= seen[p] /\ lastSeenAt[p] + Interval >= seen[p]
    BY <2>1 DEF StampKept
  <2>3. stored[p] >= t /\ t + Interval >= seen[p]
    <3>1. stored[p] >= t
      BY <2>1, <2>2 DEF Stamped
    <3>2. CASE onlineCounts[p] # 0
      <4>1. seen[p] = time /\ t >= beat /\ time <= beat + Interval
        BY <2>2, <3>2 DEF PresenceInv, SeenInTime
      <4> QED BY <1>2, <3>1, <4>1, PresenceNumbers
    <3> QED BY <2>2, <3>1, <3>2
  <2>4. Stamped(p, t)'
    BY <1>1, <2>3 DEF Stamped
  <2>5. stored[p] + Interval >= seen[p]
    BY <1>2, <2>3, PersonNumbers, ClockNumbers
  <2> QED BY <1>1, <2>3, <2>4, <2>5 DEF StampKept
<1>9. beat' <= time' /\ time' <= beat' + Interval /\ \A w \in writes' : w.at <= seen'[w.user]
  BY <1>1, <1>2, PresenceNumbers
<1> QED BY <1>4, <1>5, <1>6, <1>7, <1>8, <1>9 DEF PresenceInv

LEMMA TimeGoesOn == ASSUME PresenceInv, Online!Later PROVE PresenceInv'
<1>1. /\ UNCHANGED <<socket, onlineCounts, lastSeenAt, stored, writes, beat, busy, told, lost, mishaps>>
      /\ time < LastInstant /\ time - beat < Interval /\ time' = time + 1
      /\ seen' = [p \in Connected |-> IF Online!isOnline(p) THEN time' ELSE seen[p]]
  BY DEF Online!Later
<1>2. PresenceTypes /\ time \in Nat /\ beat \in Nat /\ Interval \in Nat /\ LastInstant \in Nat
  BY PresenceNumbers DEF PresenceInv
<1>3. ASSUME NEW p \in Connected
      PROVE  /\ seen'[p] = IF onlineCounts[p] # 0 THEN time' ELSE seen[p]
             /\ seen'[p] \in 0..LastInstant /\ seen'[p] \in Nat /\ seen[p] \in Nat /\ seen[p] <= seen'[p] /\ seen'[p] <= time'
  <2>1. seen'[p] = IF onlineCounts[p] # 0 THEN time' ELSE seen[p]
    BY <1>1, <1>2, OnlineIsCounted
  <2>2. seen[p] \in 0..LastInstant /\ seen[p] <= time
    BY <1>2 DEF PresenceInv, SeenInTime, PresenceTypes, Online!PresenceTypeOK
  <2>3. time' \in 0..LastInstant
    BY <1>1, <1>2
  <2> QED BY <1>1, <1>2, <2>1, <2>2, <2>3
<1>4. PresenceTypes'
  <2>1. time' \in 1..LastInstant
    BY <1>1, <1>2
  <2>2. seen' \in [Connected -> 0..LastInstant]
    BY <1>1, <1>3
  <2> QED BY <1>1, <1>2, <2>1, <2>2 DEF PresenceTypes, Online!PresenceTypeOK
<1>5. CountsHere' /\ Online!ToldIsStatus'
  BY <1>1 DEF PresenceInv, CountsHere, HereOf, Online!ToldIsStatus, Online!presenceStatusOf
<1>6. ASSUME NEW p \in Connected PROVE SeenInTime(p)'
  <2>1. SeenInTime(p) /\ stored[p] \in Nat /\ lastSeenAt[p] \in Nat
    BY <1>2, PersonNumbers DEF PresenceInv
  <2> QED BY <1>1, <1>2, <1>3, <2>1 DEF SeenInTime
<1>7. ASSUME NEW w \in writes' PROVE w.at <= seen'[w.user]
  <2>1. w.at <= seen[w.user] /\ w.user \in Connected /\ w.at \in Nat
    BY <1>1, <1>2, PresenceNumbers DEF PresenceInv
  <2> QED BY <1>3, <2>1
<1>8. ASSUME NEW p \in Connected \ lost' PROVE StampKept(p)'
  <2>1. PICK t \in 0..LastInstant :
          /\ Stamped(p, t)
          /\ onlineCounts[p] # 0 => t >= beat
          /\ onlineCounts[p] = 0 => t + Interval >= seen[p] /\ lastSeenAt[p] + Interval >= seen[p]
    BY <1>1 DEF PresenceInv, StampKept
  <2>2. Stamped(p, t)'
    BY <1>1, <2>1 DEF Stamped
  <2> QED BY <1>1, <1>3, <2>1, <2>2 DEF StampKept
<1>9. beat' <= time' /\ time' <= beat' + Interval
  BY <1>1, <1>2 DEF PresenceInv
<1> QED BY <1>4, <1>5, <1>6, <1>7, <1>8, <1>9 DEF PresenceInv

LEMMA PresenceStays == ASSUME PresenceInv, [Online!PresenceNext]_(Online!presenceVars) PROVE PresenceInv'
<1>1. PresenceTypes
  BY DEF PresenceInv
<1>2. ASSUME NEW s \in Handlers, Online!GoAway(s) PROVE PresenceInv'
  <2>1. PICK m : m = [socket[s] EXCEPT !.pc = "away"]
    OBVIOUS
  <2>2. m \in SocketState /\ m.pc = "away" /\ m.user \in Connected
    BY <1>1, <1>2, <2>1, PresenceNumbers DEF SocketState, Online!GoAway
  <2> QED BY <1>2, <2>1, <2>2, Goes DEF Online!GoAway
<1>3. ASSUME NEW s \in Handlers, Online!ComeBack(s) PROVE PresenceInv'
  <2>1. socket[s] \in SocketState /\ socket[s].user \in Connected /\ socket[s].pc = "away"
    BY <1>1, <1>3, PresenceNumbers DEF Online!ComeBack
  <2>2. [socket[s] EXCEPT !.pc = "here"] = [user |-> socket[s].user, pc |-> "here"]
    BY <2>1 DEF SocketState
  <2> QED BY <1>3, <2>1, <2>2, Comes DEF Online!ComeBack
<1>4. ASSUME NEW s \in Handlers, Online!Disconnect(s) PROVE PresenceInv'
  <2>1. Online!Gone \in SocketState /\ Online!Gone.pc = "none"
    BY DEF Online!Gone, SocketState
  <2>2. CASE socket[s].pc = "here"
    BY <1>4, <2>1, <2>2, Goes DEF Online!Disconnect
  <2>3. CASE socket[s].pc # "here"
    <3>1. /\ socket' = [socket EXCEPT ![s] = Online!Gone]
          /\ UNCHANGED <<onlineCounts, lastSeenAt, writes, told, seen>>
          /\ UNCHANGED <<time, stored, beat, busy, lost, mishaps>>
      BY <1>4, <2>3 DEF Online!Disconnect
    <3>2. ASSUME NEW p \in Connected
          PROVE  Online!Gone # [user |-> p, pc |-> "here"] /\ socket[s] # [user |-> p, pc |-> "here"]
      <4>1. [user |-> p, pc |-> "here"].pc = "here"
        OBVIOUS
      <4>2. Online!Gone # [user |-> p, pc |-> "here"]
        BY <2>1, <4>1
      <4>3. socket[s] # [user |-> p, pc |-> "here"]
        BY <2>3, <4>1
      <4> QED BY <4>2, <4>3
    <3>3. /\ socket' \in [Handlers -> SocketState] /\ socket'[s] = Online!Gone /\ \A r \in Handlers \ {s} : socket'[r] = socket[r]
      BY <2>1, <3>1, OneSocket
    <3>4. CountsHere'
      <4>1. ASSUME NEW p \in Connected PROVE onlineCounts'[p] = Cardinality(HereOf(p))'
        <5>1. Cardinality(HereOf(p))' = IF s \in HereOf(p) THEN onlineCounts[p] - 1 ELSE onlineCounts[p]
          BY <2>1, <3>1, <3>2, OneSocket
        <5>2. s \notin HereOf(p)
          BY <3>2 DEF HereOf
        <5> QED BY <3>1, <5>1, <5>2
      <4> QED BY <4>1 DEF CountsHere
    <3>5. PresenceTypes'
      <4>1. \A r \in Handlers : socket'[r].pc # "none" => socket'[r].user \in Connected
        BY <1>1, <2>1, <3>3 DEF PresenceTypes
      <4> QED BY <1>1, <3>1, <3>3, <4>1 DEF PresenceTypes, Online!PresenceTypeOK, SocketState
    <3>6. (\A p \in Connected \ lost : StampKept(p))'
      BY <3>1 DEF PresenceInv, StampKept, Stamped
    <3>7. beat' <= time' /\ time' <= beat' + Interval /\ \A w \in writes' : w.at <= seen[w.user]
      BY <3>1 DEF PresenceInv
    <3> QED BY <3>1, <3>4, <3>5, <3>6, <3>7, StampsMove
  <2> QED BY <2>2, <2>3
<1>5. ASSUME NEW s \in Handlers, NEW p \in Connected, Online!Connect(s, p) PROVE PresenceInv'
  <2>1. socket[s].pc # "here"
    BY <1>5 DEF Online!Connect, Online!Gone
  <2> QED BY <1>5, <2>1, Comes DEF Online!Connect
<1>6. CASE Online!PresenceNext
  BY <1>2, <1>3, <1>4, <1>5, <1>6, CallsFlag, StampLands, StampIsLost, HeartBeats, Restarts, TimeGoesOn DEF Online!PresenceNext
<1>7. CASE UNCHANGED Online!presenceVars
  <2>1. UNCHANGED <<time, socket, onlineCounts, lastSeenAt, stored, writes, beat, busy, told, seen, lost, mishaps>>
    BY <1>7 DEF Online!presenceVars
  <2>2. PresenceTypes' /\ CountsHere'
    BY <2>1 DEF PresenceInv, PresenceTypes, Online!PresenceTypeOK, CountsHere, HereOf
  <2>3. (\A p \in Connected \ lost : StampKept(p))'
    BY <2>1 DEF PresenceInv, StampKept, Stamped
  <2>4. beat' <= time' /\ time' <= beat' + Interval /\ \A w \in writes' : w.at <= seen[w.user]
    BY <2>1 DEF PresenceInv
  <2> QED BY <2>1, <2>2, <2>3, <2>4, StampsMove
<1> QED BY <1>6, <1>7

LEMMA PresenceIs ==
  ASSUME PresenceInv
  PROVE  Online!PresenceTypeOK /\ Online!CountsAreConnections /\ Online!ToldIsStatus /\ Online!LastSeenWithinABeatUnlessLost
<1>1. PresenceTypes
  BY DEF PresenceInv
<1>2. ASSUME NEW p \in Connected \ lost, ~Online!isOnline(p)
      PROVE  lastSeenAt[p] + Interval >= seen[p] /\ lastSeenAt[p] <= seen[p]
  <2>1. StampKept(p) /\ SeenInTime(p) /\ onlineCounts[p] = 0
    BY <1>1, <1>2, PresenceNumbers DEF PresenceInv
  <2> QED BY <2>1 DEF StampKept, SeenInTime
<1>3. Online!LastSeenWithinABeatUnlessLost
  BY <1>2 DEF Online!LastSeenWithinABeatUnlessLost
<1> QED BY <1>1, <1>3, CountsAre DEF PresenceInv, PresenceTypes

-----------------------------------------------------------------------------
(* What people set for themselves. *)

ChatRow ==
  [unread : Nat, muted : BOOLEAN, until : 1..(LastHour + 2), archived : BOOLEAN, pinned : BOOLEAN, hidden : BOOLEAN]

Sent == [pc : {"post"}, by : Owners, chat : OwnSettings!Chats, crossed : BOOLEAN]

\* Messages on their way: each was asked for, and is counted once.
OnTheirWay == {h \in Sendings : sending[h] # OwnSettings!Idle}

SettingsTypes ==
  /\ hour \in 1..LastHour
  /\ settings \in [Owners -> OwnSettings!ChatSettingsDoc]
  /\ row \in [OwnSettings!Chats -> [Owners -> ChatRow]]
  /\ last \in [OwnSettings!Chats -> [by : Owners \cup {OwnSettings!NoOne}, tick : {"sent", "read"}]]
  /\ sending \in [Sendings -> {OwnSettings!Idle} \cup Sent]
  /\ requested \in 0..MaxAsks /\ Cardinality(OnTheirWay) <= requested
  /\ wish \in [OwnSettings!Chats -> [Owners -> 0..(LastHour + 2)]]
  /\ hushed \subseteq OwnSettings!Chats

\* Nobody blocks the sender of a message that was let through, unless they did meanwhile.
LetThrough(h) ==
  sending[h].pc = "post" /\ sending[h].chat = "direct" /\ ~sending[h].crossed =>
    \A q \in Owners \ {sending[h].by} : ~OwnSettings!IsBlockedBetween(sending[h].by, q)

\* A row has the mute that was last asked for, what is hidden has nothing unread, and
\* nothing is unread that was not asked for.
RowKept(c, p) ==
  /\ row[c][p].muted <=> wish[c][p] # 0
  /\ row[c][p].muted => row[c][p].until = wish[c][p]
  /\ row[c][p].hidden => row[c][p].unread = 0
  /\ row[c][p].unread + Cardinality(OnTheirWay) <= requested

SettingsInv ==
  /\ SettingsTypes
  /\ \A h \in Sendings : LetThrough(h)
  /\ \A c \in OwnSettings!Chats, p \in Owners : RowKept(c, p)
  /\ overrun = FALSE

LEMMA TheChats ==
  /\ OwnSettings!Chats = {"direct", "group"} /\ OwnSettings!Never = 0 /\ OwnSettings!Always = LastHour + 2
  /\ OwnSettings!Unset = LastHour + 2 /\ OwnSettings!Idle.pc = "idle" /\ LastHour \in Nat \ {0}
  /\ OwnSettings!Idle \notin Sent
BY SettingsConstants DEF OwnSettings!Chats, OwnSettings!Never, OwnSettings!Always, OwnSettings!Unset, OwnSettings!Idle, Sent

LEMMA SendingsCounted == IsFiniteSet(OnTheirWay) /\ Cardinality(OnTheirWay) \in Nat
BY SettingsConstants, FS_Subset, FS_CardinalityType DEF OnTheirWay

LEMMA SettingsBegin == ASSUME ConversationsInit PROVE SettingsInv
<1>1. /\ hour = 1 /\ requested = 0 /\ hushed = {} /\ overrun = FALSE
      /\ settings = [p \in Owners |-> [receipts |-> TRUE, lastSeen |-> "everyone", blocked |-> {}]]
      /\ row = [c \in OwnSettings!Chats |-> [p \in Owners |->
                 [unread |-> 0, muted |-> FALSE, until |-> LastHour + 2, archived |-> FALSE, pinned |-> FALSE, hidden |-> FALSE]]]
      /\ last = [c \in OwnSettings!Chats |-> [by |-> OwnSettings!NoOne, tick |-> "sent"]]
      /\ sending = [h \in Sendings |-> OwnSettings!Idle]
      /\ wish = [c \in OwnSettings!Chats |-> [p \in Owners |-> 0]]
  BY TheChats DEF ConversationsInit, OwnSettings!SettingsInit
<1>2. OnTheirWay = {} /\ Cardinality({}) = 0
  BY <1>1, FS_EmptySet DEF OnTheirWay
<1>3. [unread |-> 0, muted |-> FALSE, until |-> LastHour + 2, archived |-> FALSE, pinned |-> FALSE, hidden |-> FALSE] \in ChatRow
  BY TheChats DEF ChatRow
<1>4. SettingsTypes
  <2>1. settings \in [Owners -> OwnSettings!ChatSettingsDoc]
    BY <1>1 DEF OwnSettings!ChatSettingsDoc
  <2>2. row \in [OwnSettings!Chats -> [Owners -> ChatRow]]
    BY <1>1, <1>3
  <2>3. wish \in [OwnSettings!Chats -> [Owners -> 0..(LastHour + 2)]]
    BY <1>1, TheChats
  <2>4. last \in [OwnSettings!Chats -> [by : Owners \cup {OwnSettings!NoOne}, tick : {"sent", "read"}]]
    BY <1>1
  <2>5. sending \in [Sendings -> {OwnSettings!Idle} \cup Sent]
    BY <1>1
  <2>6. requested \in 0..MaxAsks /\ Cardinality(OnTheirWay) <= requested /\ hour \in 1..LastHour
    BY <1>1, <1>2, TheChats, ChatConstants
  <2>7. hushed \subseteq OwnSettings!Chats
    BY <1>1
  <2> QED BY <2>1, <2>2, <2>3, <2>4, <2>5, <2>6, <2>7 DEF SettingsTypes
<1>5. (\A h \in Sendings : LetThrough(h)) /\ \A c \in OwnSettings!Chats, p \in Owners : RowKept(c, p)
  BY <1>1, <1>2, TheChats DEF LetThrough, RowKept
<1> QED BY <1>1, <1>4, <1>5 DEF SettingsInv

\* A request that is not about a message on its way: the messages stay, and one row changes, or none.
OnlyRow(c, p, x) ==
  /\ x \in ChatRow /\ row' = [row EXCEPT ![c][p] = x]
  /\ wish' \in [OwnSettings!Chats -> [Owners -> 0..(LastHour + 2)]]
  /\ \A d \in OwnSettings!Chats, q \in Owners : d # c \/ q # p => wish'[d][q] = wish[d][q]
  /\ x.muted <=> wish'[c][p] # 0
  /\ x.muted => x.until = wish'[c][p]
  /\ x.hidden => x.unread = 0
  /\ x.unread <= row[c][p].unread

LEMMA OneRow ==
  ASSUME SettingsInv, NEW c \in OwnSettings!Chats, NEW p \in Owners, NEW x, OnlyRow(c, p, x),
         OwnSettings!Ask, UNCHANGED <<hour, settings, sending, overrun>>,
         last' \in [OwnSettings!Chats -> [by : Owners \cup {OwnSettings!NoOne}, tick : {"sent", "read"}]],
         hushed' \subseteq OwnSettings!Chats
  PROVE  SettingsInv'
<1>1. requested < MaxAsks /\ requested' = requested + 1 /\ requested \in Nat /\ MaxAsks \in Nat
  BY ChatConstants DEF OwnSettings!Ask, SettingsInv, SettingsTypes
<1>2. OnTheirWay' = OnTheirWay /\ Cardinality(OnTheirWay)' = Cardinality(OnTheirWay) /\ Cardinality(OnTheirWay) \in Nat
  BY SendingsCounted DEF OnTheirWay
<1>3. /\ row' \in [OwnSettings!Chats -> [Owners -> ChatRow]] /\ row'[c][p] = x
      /\ \A d \in OwnSettings!Chats, q \in Owners : d # c \/ q # p => row'[d][q] = row[d][q]
  BY DEF OnlyRow, SettingsInv, SettingsTypes
<1>4. SettingsTypes'
  BY <1>1, <1>2, <1>3 DEF SettingsInv, SettingsTypes, OnlyRow
<1>5. (\A h \in Sendings : LetThrough(h))'
  BY DEF SettingsInv, LetThrough, OwnSettings!IsBlockedBetween
<1>6. ASSUME NEW d \in OwnSettings!Chats, NEW q \in Owners PROVE RowKept(d, q)'
  <2>1. RowKept(d, q) /\ row[d][q].unread \in Nat /\ row'[d][q].unread \in Nat
    BY <1>3 DEF SettingsInv, SettingsTypes, ChatRow
  <2>2. CASE d = c /\ q = p
    BY <1>1, <1>2, <1>3, <2>1, <2>2 DEF RowKept, OnlyRow
  <2>3. CASE d # c \/ q # p
    <3>1. row'[d][q] = row[d][q] /\ wish'[d][q] = wish[d][q]
      BY <1>3, <2>3 DEF OnlyRow
    <3> QED BY <1>1, <1>2, <2>1, <3>1 DEF RowKept
  <2> QED BY <2>2, <2>3
<1>7. overrun' = FALSE
  BY DEF SettingsInv
<1> QED BY <1>4, <1>5, <1>6, <1>7 DEF SettingsInv

LEMMA RowIs ==
  ASSUME SettingsInv, NEW c \in OwnSettings!Chats, NEW p \in Owners
  PROVE  /\ row[c][p] \in ChatRow /\ RowKept(c, p) /\ wish[c][p] \in 0..(LastHour + 2)
         /\ row[c][p].unread \in Nat /\ hour \in 1..LastHour
         /\ wish \in [OwnSettings!Chats -> [Owners -> 0..(LastHour + 2)]]
BY DEF SettingsInv, SettingsTypes, ChatRow

LEMMA MuteStays ==
  ASSUME SettingsInv, NEW c \in OwnSettings!Chats, NEW p \in Owners, NEW x \in ChatRow, row' = [row EXCEPT ![c][p] = x],
         wish' = wish, x.muted = row[c][p].muted, x.until = row[c][p].until,
         x.unread = 0 \/ (x.unread = row[c][p].unread /\ x.hidden = row[c][p].hidden)
  PROVE  OnlyRow(c, p, x)
<1>1. RowKept(c, p) /\ row[c][p].unread \in Nat /\ x.unread \in Nat
  BY RowIs DEF ChatRow
<1>2. /\ x.muted <=> wish'[c][p] # 0
      /\ x.muted => x.until = wish'[c][p]
  BY <1>1 DEF RowKept
<1>3. (x.hidden => x.unread = 0) /\ x.unread <= row[c][p].unread
  BY <1>1 DEF RowKept
<1>4. /\ wish' \in [OwnSettings!Chats -> [Owners -> 0..(LastHour + 2)]]
      /\ \A d \in OwnSettings!Chats, q \in Owners : d # c \/ q # p => wish'[d][q] = wish[d][q]
  BY RowIs
<1> QED BY <1>2, <1>3, <1>4 DEF OnlyRow

LEMMA ReadingKeeps ==
  ASSUME SettingsInv, NEW p \in Owners, NEW c \in OwnSettings!Chats, OwnSettings!MarkRead(p, c) PROVE SettingsInv'
<1>1. PICK x : x = [row[c][p] EXCEPT !.unread = 0]
  OBVIOUS
<1>2. /\ OwnSettings!Ask /\ UNCHANGED <<hour, settings, sending, overrun>> /\ wish' = wish
      /\ row' = [row EXCEPT ![c][p].unread = 0]
  BY DEF OwnSettings!MarkRead
<1>3. x \in ChatRow /\ x.unread = 0 /\ x.muted = row[c][p].muted /\ x.until = row[c][p].until
  BY <1>1, RowIs DEF ChatRow
<1>4. row' = [row EXCEPT ![c][p] = x]
  <2>1. row[c][p] \in ChatRow
    BY RowIs
  <2> QED BY <1>1, <1>2, <2>1, Zenon
<1>5. OnlyRow(c, p, x)
  BY <1>2, <1>3, <1>4, MuteStays
<1>6. last' \in [OwnSettings!Chats -> [by : Owners \cup {OwnSettings!NoOne}, tick : {"sent", "read"}]]
  BY DEF OwnSettings!MarkRead, SettingsInv, SettingsTypes
<1>7. hushed' \subseteq OwnSettings!Chats
  BY DEF OwnSettings!MarkRead, SettingsInv, SettingsTypes
<1> QED BY <1>2, <1>5, <1>6, <1>7, OneRow

LEMMA ClearingKeeps == ASSUME SettingsInv, NEW p \in Owners, OwnSettings!DeleteChat(p) PROVE SettingsInv'
<1>1. PICK x : x = [row["direct"][p] EXCEPT !.unread = 0, !.pinned = FALSE, !.archived = FALSE, !.hidden = TRUE]
  OBVIOUS
<1>2. /\ OwnSettings!Ask /\ UNCHANGED <<hour, settings, sending, overrun>> /\ wish' = wish /\ last' = last /\ hushed' = hushed
      /\ row' = [row EXCEPT !["direct"][p] = x]
  BY <1>1 DEF OwnSettings!DeleteChat, OwnSettings!Cleared
<1>3. "direct" \in OwnSettings!Chats
  BY TheChats
<1>4. x \in ChatRow /\ x.unread = 0 /\ x.muted = row["direct"][p].muted /\ x.until = row["direct"][p].until
  BY <1>1, <1>3, RowIs DEF ChatRow
<1>5. OnlyRow("direct", p, x)
  BY <1>2, <1>3, <1>4, RowIs DEF OnlyRow, RowKept
<1>6. last' \in [OwnSettings!Chats -> [by : Owners \cup {OwnSettings!NoOne}, tick : {"sent", "read"}]]
      /\ hushed' \subseteq OwnSettings!Chats
  BY <1>2 DEF SettingsInv, SettingsTypes
<1> QED BY <1>2, <1>3, <1>5, <1>6, OneRow

LEMMA PinningKeeps ==
  ASSUME SettingsInv, NEW p \in Owners, NEW c \in OwnSettings!Chats, NEW archived \in BOOLEAN, NEW pinned \in BOOLEAN,
         OwnSettings!SetConversationSettings(p, c, archived, pinned)
  PROVE  SettingsInv'
<1>1. PICK x : x = [row[c][p] EXCEPT !.archived = archived, !.pinned = pinned]
  OBVIOUS
<1>2. /\ OwnSettings!Ask /\ UNCHANGED <<hour, settings, sending, overrun>> /\ wish' = wish /\ last' = last /\ hushed' = hushed
      /\ row' = [row EXCEPT ![c][p].archived = archived, ![c][p].pinned = pinned]
  BY DEF OwnSettings!SetConversationSettings
<1>3. /\ x \in ChatRow /\ x.unread = row[c][p].unread /\ x.muted = row[c][p].muted /\ x.until = row[c][p].until
      /\ x.hidden = row[c][p].hidden
  BY <1>1, RowIs DEF ChatRow
<1>4. row' = [row EXCEPT ![c][p] = x]
  <2>1. row \in [OwnSettings!Chats -> [Owners -> ChatRow]]
    BY DEF SettingsInv, SettingsTypes
  <2>2. PICK y : y = [row[c][p] EXCEPT !.archived = archived]
    OBVIOUS
  <2>3. [row EXCEPT ![c][p].archived = archived] = [row EXCEPT ![c][p] = y]
    BY <2>2, Zenon
  <2>4. PICK z : z = [row EXCEPT ![c][p] = y]
    OBVIOUS
  <2>5. z[c][p] = y
    BY <2>1, <2>4
  <2>6. row' = [z EXCEPT ![c][p].pinned = pinned]
    BY <1>2, <2>3, <2>4, Zenon
  <2>7. row' = [z EXCEPT ![c][p] = x]
    BY <1>1, <2>2, <2>5, <2>6, Zenon
  <2>8. [z EXCEPT ![c][p] = x] = [row EXCEPT ![c][p] = x]
    BY <2>1, <2>4
  <2> QED BY <2>7, <2>8
<1>5. OnlyRow(c, p, x)
  BY <1>2, <1>3, <1>4, MuteStays
<1>6. last' \in [OwnSettings!Chats -> [by : Owners \cup {OwnSettings!NoOne}, tick : {"sent", "read"}]]
      /\ hushed' \subseteq OwnSettings!Chats
  BY <1>2 DEF SettingsInv, SettingsTypes
<1> QED BY <1>2, <1>5, <1>6, OneRow

LEMMA MutingKeeps ==
  ASSUME SettingsInv, NEW p \in Owners, NEW c \in OwnSettings!Chats, NEW on \in BOOLEAN, NEW hours \in {0, 1},
         OwnSettings!SetMute(p, c, on, hours)
  PROVE  SettingsInv'
<1>1. PICK u : u = IF on /\ hours > 0 THEN hour + hours ELSE LastHour + 2
  OBVIOUS
<1>2. PICK v : v = CASE ~on -> 0 [] on /\ hours = 0 -> LastHour + 2 [] OTHER -> hour + hours
  OBVIOUS
<1>3. u \in 1..(LastHour + 2) /\ v \in 0..(LastHour + 2) /\ (on <=> v # 0) /\ (on => u = v)
  <2>1. hour \in 1..LastHour /\ LastHour \in Nat
    BY RowIs, TheChats
  <2>2. CASE ~on
    BY <1>1, <1>2, <2>1, <2>2
  <2>3. CASE on /\ hours = 0
    BY <1>1, <1>2, <2>1, <2>3
  <2>4. CASE on /\ hours = 1
    BY <1>1, <1>2, <2>1, <2>4
  <2> QED BY <2>2, <2>3, <2>4
<1>4. PICK x : x = [row[c][p] EXCEPT !.muted = on, !.until = u]
  OBVIOUS
<1>5. /\ OwnSettings!Ask /\ UNCHANGED <<hour, settings, sending, overrun>> /\ last' = last /\ hushed' = hushed
      /\ row' = [row EXCEPT ![c][p] = x] /\ wish' = [wish EXCEPT ![c][p] = v]
  BY <1>1, <1>2, <1>4, TheChats DEF OwnSettings!SetMute, OwnSettings!MutedUntil
<1>6. x \in ChatRow /\ x.unread = row[c][p].unread /\ x.muted = on /\ x.until = u /\ x.hidden = row[c][p].hidden
  BY <1>3, <1>4, RowIs DEF ChatRow
<1>7. /\ wish' \in [OwnSettings!Chats -> [Owners -> 0..(LastHour + 2)]] /\ wish'[c][p] = v
      /\ \A d \in OwnSettings!Chats, q \in Owners : d # c \/ q # p => wish'[d][q] = wish[d][q]
  BY <1>3, <1>5, RowIs
<1>8. OnlyRow(c, p, x)
  BY <1>3, <1>5, <1>6, <1>7, RowIs DEF OnlyRow, RowKept
<1>9. last' \in [OwnSettings!Chats -> [by : Owners \cup {OwnSettings!NoOne}, tick : {"sent", "read"}]]
      /\ hushed' \subseteq OwnSettings!Chats
  BY <1>5 DEF SettingsInv, SettingsTypes
<1> QED BY <1>5, <1>8, <1>9, OneRow
-----------------------------------------------------------------------------
\* What stays when no message comes or goes, and no row changes.
LEMMA RowsStay ==
  ASSUME SettingsInv, UNCHANGED <<row, wish, overrun>>, requested' \in {requested, requested + 1}, requested' <= MaxAsks,
         Cardinality(OnTheirWay)' <= Cardinality(OnTheirWay) + (requested' - requested),
         Cardinality(OnTheirWay)' \in Nat
  PROVE  /\ requested' \in 0..MaxAsks /\ Cardinality(OnTheirWay)' <= requested'
         /\ \A c \in OwnSettings!Chats, p \in Owners : RowKept(c, p)'
<1>1. requested \in Nat /\ MaxAsks \in Nat /\ Cardinality(OnTheirWay) <= requested /\ Cardinality(OnTheirWay) \in Nat
  BY ChatConstants, SendingsCounted DEF SettingsInv, SettingsTypes
<1>2. ASSUME NEW c \in OwnSettings!Chats, NEW p \in Owners PROVE RowKept(c, p)'
  <2>1. RowKept(c, p) /\ row[c][p].unread \in Nat
    BY RowIs
  <2> QED BY <1>1, <2>1 DEF RowKept
<1> QED BY <1>1, <1>2

LEMMA HoursPass == ASSUME SettingsInv, OwnSettings!Tick PROVE SettingsInv'
<1>1. /\ UNCHANGED <<settings, row, last, sending, requested, wish, hushed, overrun>>
      /\ hour < LastHour /\ hour' = hour + 1
  BY DEF OwnSettings!Tick
<1>2. SettingsTypes'
  <2>1. hour' \in 1..LastHour
    BY <1>1, TheChats DEF SettingsInv, SettingsTypes
  <2> QED BY <1>1, <2>1 DEF SettingsInv, SettingsTypes, OnTheirWay
<1>3. /\ (\A h \in Sendings : LetThrough(h))' /\ overrun' = FALSE
      /\ (\A c \in OwnSettings!Chats, p \in Owners : RowKept(c, p))'
  BY <1>1 DEF SettingsInv, LetThrough, OwnSettings!IsBlockedBetween, RowKept, OnTheirWay
<1> QED BY <1>2, <1>3 DEF SettingsInv

LEMMA PrivacyKeeps ==
  ASSUME SettingsInv, NEW p \in Owners, NEW receipts \in BOOLEAN, NEW seenBy \in {"everyone", "nobody"},
         OwnSettings!UpdatePrivacy(p, receipts, seenBy)
  PROVE  SettingsInv'
<1>1. /\ UNCHANGED <<hour, row, last, sending, wish, hushed, overrun>> /\ requested < MaxAsks /\ requested' = requested + 1
      /\ settings' = [settings EXCEPT ![p].receipts = receipts, ![p].lastSeen = seenBy]
  BY DEF OwnSettings!UpdatePrivacy, OwnSettings!Ask
<1>2. settings \in [Owners -> OwnSettings!ChatSettingsDoc] /\ requested \in Nat /\ MaxAsks \in Nat
  BY ChatConstants DEF SettingsInv, SettingsTypes
<1>3. /\ settings' \in [Owners -> OwnSettings!ChatSettingsDoc]
      /\ \A q \in Owners : settings'[q].blocked = settings[q].blocked
  <2>1. PICK doc : doc = [settings[p] EXCEPT !.receipts = receipts, !.lastSeen = seenBy]
    OBVIOUS
  <2>2. doc \in OwnSettings!ChatSettingsDoc /\ doc.blocked = settings[p].blocked
    <3>1. PICK old \in OwnSettings!ChatSettingsDoc : old = settings[p]
      BY <1>2
    <3>2. doc = [receipts |-> receipts, lastSeen |-> seenBy, blocked |-> old.blocked]
      BY <2>1, <3>1 DEF OwnSettings!ChatSettingsDoc
    <3> QED BY <3>1, <3>2 DEF OwnSettings!ChatSettingsDoc
  <2>3. settings' = [settings EXCEPT ![p] = doc]
    <3>1. PICK half : half = [settings[p] EXCEPT !.receipts = receipts]
      OBVIOUS
    <3>2. PICK z : z = [settings EXCEPT ![p] = half]
      OBVIOUS
    <3>3. z[p] = half
      BY <1>2, <3>2
    <3>4. settings' = [z EXCEPT ![p].lastSeen = seenBy]
      BY <1>1, <3>1, <3>2, Zenon
    <3>5. settings' = [z EXCEPT ![p] = doc]
      BY <2>1, <3>1, <3>3, <3>4, Zenon
    <3>6. [z EXCEPT ![p] = doc] = [settings EXCEPT ![p] = doc]
      BY <1>2, <3>2
    <3> QED BY <3>5, <3>6
  <2> QED BY <1>2, <2>2, <2>3
<1>4. Cardinality(OnTheirWay)' = Cardinality(OnTheirWay) /\ Cardinality(OnTheirWay) \in Nat
  BY <1>1, SendingsCounted DEF OnTheirWay
<1>5. /\ requested' \in 0..MaxAsks /\ Cardinality(OnTheirWay)' <= requested'
      /\ \A c \in OwnSettings!Chats, q \in Owners : RowKept(c, q)'
  BY <1>1, <1>2, <1>4, RowsStay
<1>6. SettingsTypes'
  BY <1>1, <1>3, <1>5 DEF SettingsInv, SettingsTypes
<1>7. ASSUME NEW h \in Sendings PROVE LetThrough(h)'
  <2>1. LetThrough(h) /\ sending[h] \in {OwnSettings!Idle} \cup Sent
    BY DEF SettingsInv, SettingsTypes
  <2>2. sending[h].pc = "post" => sending[h].by \in Owners
    BY <2>1, TheChats DEF Sent
  <2> QED BY <1>1, <1>3, <2>1, <2>2 DEF LetThrough, OwnSettings!IsBlockedBetween
<1>9. overrun' = FALSE
  BY <1>1 DEF SettingsInv
<1> QED BY <1>5, <1>6, <1>7, <1>9 DEF SettingsInv

LEMMA BlocksKeep ==
  ASSUME SettingsInv, NEW p \in Owners, NEW q \in Owners, NEW on \in BOOLEAN, OwnSettings!SetBlocked(p, q, on)
  PROVE  SettingsInv'
<1>1. /\ UNCHANGED <<hour, row, last, wish, hushed, overrun>> /\ requested < MaxAsks /\ requested' = requested + 1 /\ p # q
      /\ settings' = [settings EXCEPT ![p].blocked = IF on THEN @ \cup {q} ELSE @ \ {q}]
      /\ sending' = [h \in Sendings |->
           IF sending[h] # OwnSettings!Idle /\ on THEN [sending[h] EXCEPT !.crossed = TRUE] ELSE sending[h]]
  BY DEF OwnSettings!SetBlocked, OwnSettings!Ask
<1>2. /\ settings \in [Owners -> OwnSettings!ChatSettingsDoc] /\ requested \in Nat /\ MaxAsks \in Nat
      /\ sending \in [Sendings -> {OwnSettings!Idle} \cup Sent]
  BY ChatConstants DEF SettingsInv, SettingsTypes
<1>3. /\ settings' \in [Owners -> OwnSettings!ChatSettingsDoc]
      /\ ~on => \A u \in Owners : settings'[u].blocked \subseteq settings[u].blocked
  <2>1. PICK doc : doc = [settings[p] EXCEPT !.blocked = IF on THEN @ \cup {q} ELSE @ \ {q}]
    OBVIOUS
  <2>2. doc \in OwnSettings!ChatSettingsDoc /\ (~on => doc.blocked \subseteq settings[p].blocked)
    BY <1>2, <2>1 DEF OwnSettings!ChatSettingsDoc
  <2>3. settings' = [settings EXCEPT ![p] = doc]
    BY <1>1, <1>2, <2>1
  <2> QED BY <1>2, <2>2, <2>3
<1>4. ASSUME NEW h \in Sendings
      PROVE  /\ sending'[h] \in {OwnSettings!Idle} \cup Sent
             /\ sending'[h] = OwnSettings!Idle <=> sending[h] = OwnSettings!Idle
             /\ on => sending'[h] = OwnSettings!Idle \/ sending'[h].crossed
             /\ ~on => sending'[h] = sending[h]
  <2>1. CASE sending[h] = OwnSettings!Idle \/ ~on
    BY <1>1, <1>2, <2>1
  <2>2. CASE sending[h] # OwnSettings!Idle /\ on
    <3>1. PICK x : x = [sending[h] EXCEPT !.crossed = TRUE]
      OBVIOUS
    <3>2. sending[h] \in Sent
      BY <1>2, <2>2
    <3>3. x \in Sent /\ x.crossed
      BY <3>1, <3>2 DEF Sent
    <3> QED BY <1>1, <2>2, <3>1, <3>3, TheChats
  <2> QED BY <2>1, <2>2
<1>5. /\ Cardinality(OnTheirWay)' = Cardinality(OnTheirWay) /\ Cardinality(OnTheirWay) \in Nat
      /\ sending' \in [Sendings -> {OwnSettings!Idle} \cup Sent]
  <2>1. OnTheirWay' = OnTheirWay
    BY <1>4 DEF OnTheirWay
  <2> QED BY <1>1, <1>4, <2>1, SendingsCounted
<1>6. /\ requested' \in 0..MaxAsks /\ Cardinality(OnTheirWay)' <= requested'
      /\ \A c \in OwnSettings!Chats, u \in Owners : RowKept(c, u)'
  BY <1>1, <1>2, <1>5, RowsStay
<1>7. SettingsTypes'
  BY <1>1, <1>3, <1>5, <1>6 DEF SettingsInv, SettingsTypes
<1>8. ASSUME NEW h \in Sendings PROVE LetThrough(h)'
  <2>1. CASE on
    BY <1>4, <2>1, TheChats DEF LetThrough
  <2>2. CASE ~on
    <3>1. LetThrough(h) /\ sending'[h] = sending[h] /\ (sending[h].pc = "post" => sending[h].by \in Owners)
      BY <1>2, <1>4, <2>2, TheChats DEF SettingsInv, Sent
    <3> QED BY <1>3, <2>2, <3>1 DEF LetThrough, OwnSettings!IsBlockedBetween
  <2> QED BY <2>1, <2>2
<1>9. overrun' = FALSE
  BY <1>1 DEF SettingsInv
<1> QED BY <1>6, <1>7, <1>8, <1>9 DEF SettingsInv

LEMMA SendsKeep ==
  ASSUME SettingsInv, NEW h \in Sendings, NEW p \in Owners, NEW c \in OwnSettings!Chats, OwnSettings!ReadForSend(h, p, c)
  PROVE  SettingsInv'
<1>1. PICK x : x = [pc |-> "post", by |-> p, chat |-> c, crossed |-> FALSE]
  OBVIOUS
<1>2. /\ UNCHANGED <<hour, settings, row, last, wish, hushed, overrun>> /\ requested < MaxAsks /\ requested' = requested + 1
      /\ sending' = [sending EXCEPT ![h] = x] /\ sending[h] = OwnSettings!Idle
      /\ c = "direct" => \A q \in Owners \ {p} : ~OwnSettings!IsBlockedBetween(p, q)
  BY <1>1 DEF OwnSettings!ReadForSend, OwnSettings!Ask
<1>3. x \in Sent /\ x.by = p /\ x.chat = c /\ requested \in Nat /\ MaxAsks \in Nat /\ sending \in [Sendings -> {OwnSettings!Idle} \cup Sent]
  BY <1>1, ChatConstants DEF SettingsInv, SettingsTypes, Sent
<1>4. /\ sending' \in [Sendings -> {OwnSettings!Idle} \cup Sent] /\ sending'[h] = x
      /\ \A g \in Sendings \ {h} : sending'[g] = sending[g]
  BY <1>2, <1>3
<1>5. Cardinality(OnTheirWay)' <= Cardinality(OnTheirWay) + 1 /\ Cardinality(OnTheirWay)' \in Nat /\ Cardinality(OnTheirWay) \in Nat
  <2>1. OnTheirWay' = OnTheirWay \cup {h}
    BY <1>2, <1>3, <1>4, TheChats DEF OnTheirWay
  <2>2. Cardinality(OnTheirWay)' = Cardinality(OnTheirWay')
    OBVIOUS
  <2>3. Cardinality(OnTheirWay \cup {h}) = IF h \in OnTheirWay THEN Cardinality(OnTheirWay) ELSE Cardinality(OnTheirWay) + 1
    BY SendingsCounted, FS_AddElement
  <2> QED BY <2>1, <2>2, <2>3, SendingsCounted
<1>6. /\ requested' \in 0..MaxAsks /\ Cardinality(OnTheirWay)' <= requested'
      /\ \A d \in OwnSettings!Chats, q \in Owners : RowKept(d, q)'
  BY <1>2, <1>3, <1>5, RowsStay
<1>7. SettingsTypes'
  BY <1>2, <1>4, <1>6 DEF SettingsInv, SettingsTypes
<1>8. ASSUME NEW g \in Sendings PROVE LetThrough(g)'
  <2>1. CASE g = h
    BY <1>2, <1>3, <1>4, <2>1 DEF LetThrough, OwnSettings!IsBlockedBetween
  <2>2. CASE g # h
    BY <1>2, <1>4, <2>2 DEF SettingsInv, LetThrough, OwnSettings!IsBlockedBetween
  <2> QED BY <2>1, <2>2
<1>9. overrun' = FALSE
  BY <1>2 DEF SettingsInv
<1> QED BY <1>6, <1>7, <1>8, <1>9 DEF SettingsInv

LEMMA PostingKeeps == ASSUME SettingsInv, NEW h \in Sendings, OwnSettings!Post(h) PROVE SettingsInv'
<1>1. PICK t : t = sending[h]
  OBVIOUS
<1>2. /\ sending \in [Sendings -> {OwnSettings!Idle} \cup Sent] /\ requested \in Nat
      /\ row \in [OwnSettings!Chats -> [Owners -> ChatRow]]
      /\ last \in [OwnSettings!Chats -> [by : Owners \cup {OwnSettings!NoOne}, tick : {"sent", "read"}]]
  BY DEF SettingsInv, SettingsTypes
<1>3. t.pc = "post" /\ t \in Sent /\ t.by \in Owners /\ t.chat \in OwnSettings!Chats /\ sending[h] # OwnSettings!Idle
  BY <1>1, <1>2, TheChats DEF OwnSettings!Post, Sent
<1>4. PICK team : team = [p \in Owners |->
                      [row[t.chat][p] EXCEPT !.unread = IF p = t.by THEN @ ELSE @ + 1, !.hidden = FALSE]]
  OBVIOUS
<1>5. /\ UNCHANGED <<hour, settings, requested, wish>> /\ sending' = [sending EXCEPT ![h] = OwnSettings!Idle]
      /\ hushed' = hushed \ {t.chat} /\ last' = [last EXCEPT ![t.chat] = [by |-> t.by, tick |-> "sent"]]
      /\ row' = [row EXCEPT ![t.chat] = team]
  <2>1. /\ UNCHANGED <<hour, settings, requested, wish>> /\ sending' = [sending EXCEPT ![h] = OwnSettings!Idle]
        /\ hushed' = hushed \ {t.chat} /\ last' = [last EXCEPT ![t.chat] = [by |-> t.by, tick |-> "sent"]]
    BY <1>1 DEF OwnSettings!Post
  <2>2. row' = [row EXCEPT ![t.chat] = [p \in Owners |->
                  [row[t.chat][p] EXCEPT !.unread = IF p = t.by THEN @ ELSE @ + 1, !.hidden = FALSE]]]
    BY <1>1, <1>2 DEF OwnSettings!Post
  <2>3. row' = [row EXCEPT ![t.chat] = team]
    BY <1>4, <2>2
  <2> QED BY <2>1, <2>3
<1>6. overrun' = FALSE
  <2>1. LetThrough(h) /\ overrun = FALSE
    BY DEF SettingsInv
  <2>2. t.chat = "direct" /\ ~t.crossed =>
          ~\E q \in Owners \ {t.by} : q \in settings[t.by].blocked \/ t.by \in settings[q].blocked
    BY <1>1, <1>3, <2>1 DEF LetThrough, OwnSettings!IsBlockedBetween
  <2>3. overrun' = (overrun \/ (t.chat = "direct"
                      /\ (\E q \in Owners \ {t.by} : q \in settings[t.by].blocked \/ t.by \in settings[q].blocked)
                      /\ ~t.crossed))
    BY <1>1 DEF OwnSettings!Post
  <2> QED BY <2>1, <2>2, <2>3
<1>7. /\ sending' \in [Sendings -> {OwnSettings!Idle} \cup Sent] /\ sending'[h] = OwnSettings!Idle
      /\ \A g \in Sendings \ {h} : sending'[g] = sending[g]
  BY <1>2, <1>5
<1>8. Cardinality(OnTheirWay)' = Cardinality(OnTheirWay) - 1 /\ Cardinality(OnTheirWay)' \in Nat /\ Cardinality(OnTheirWay) \in Nat
  <2>1. OnTheirWay' = OnTheirWay \ {h} /\ h \in OnTheirWay
    BY <1>3, <1>7 DEF OnTheirWay
  <2>2. Cardinality(OnTheirWay)' = Cardinality(OnTheirWay')
    OBVIOUS
  <2>3. Cardinality(OnTheirWay \ {h}) = Cardinality(OnTheirWay) - 1 /\ IsFiniteSet(OnTheirWay \ {h})
    BY <2>1, SendingsCounted, FS_RemoveElement
  <2>4. Cardinality(OnTheirWay \ {h}) \in Nat
    BY <2>3, FS_CardinalityType
  <2> QED BY <2>1, <2>2, <2>3, <2>4, SendingsCounted
<1>9. ASSUME NEW p \in Owners
      PROVE  /\ team[p] \in ChatRow /\ team[p].muted = row[t.chat][p].muted /\ team[p].until = row[t.chat][p].until
             /\ ~team[p].hidden /\ team[p].unread \in {row[t.chat][p].unread, row[t.chat][p].unread + 1}
  <2>1. PICK old \in ChatRow : old = row[t.chat][p]
    BY <1>2, <1>3
  <2>2. PICK n \in Nat : n = IF p = t.by THEN old.unread ELSE old.unread + 1
    BY <2>1 DEF ChatRow
  <2>3. team[p] = [old EXCEPT !.unread = n, !.hidden = FALSE]
    BY <1>4, <2>1, <2>2
  <2> QED BY <2>1, <2>2, <2>3 DEF ChatRow
<1>10. /\ row' \in [OwnSettings!Chats -> [Owners -> ChatRow]] /\ row'[t.chat] = team
       /\ \A c \in OwnSettings!Chats \ {t.chat} : row'[c] = row[c]
  <2>1. team \in [Owners -> ChatRow]
    BY <1>4, <1>9
  <2> QED BY <1>2, <1>3, <1>5, <2>1
<1>11. ASSUME NEW c \in OwnSettings!Chats, NEW p \in Owners PROVE RowKept(c, p)'
  <2>1. RowKept(c, p) /\ row[c][p].unread \in Nat
    BY RowIs
  <2>2. CASE c = t.chat
    BY <1>2, <1>5, <1>8, <1>9, <1>10, <2>1, <2>2 DEF RowKept
  <2>3. CASE c # t.chat
    BY <1>2, <1>5, <1>8, <1>10, <2>1, <2>3 DEF RowKept
  <2> QED BY <2>2, <2>3
<1>12. SettingsTypes'
  <2>1. last' \in [OwnSettings!Chats -> [by : Owners \cup {OwnSettings!NoOne}, tick : {"sent", "read"}]]
    BY <1>2, <1>3, <1>5
  <2>2. Cardinality(OnTheirWay)' <= requested'
    BY <1>2, <1>5, <1>8 DEF SettingsInv, SettingsTypes
  <2> QED BY <1>5, <1>7, <1>10, <2>1, <2>2 DEF SettingsInv, SettingsTypes
<1>13. ASSUME NEW g \in Sendings PROVE LetThrough(g)'
  <2>1. CASE g = h
    BY <1>7, <2>1, TheChats DEF LetThrough
  <2>2. CASE g # h
    BY <1>5, <1>7, <2>2 DEF SettingsInv, LetThrough, OwnSettings!IsBlockedBetween
  <2> QED BY <2>1, <2>2
<1> QED BY <1>6, <1>11, <1>12, <1>13 DEF SettingsInv

LEMMA SettingsStay == ASSUME SettingsInv, [OwnSettings!SettingsNext]_(OwnSettings!vars) PROVE SettingsInv'
<1>1. CASE OwnSettings!SettingsNext
  BY <1>1, HoursPass, PrivacyKeeps, BlocksKeep, SendsKeep, ReadingKeeps, MutingKeeps, PinningKeeps, ClearingKeeps, PostingKeeps
     DEF OwnSettings!SettingsNext
<1>2. CASE UNCHANGED OwnSettings!vars
  <2>1. UNCHANGED <<hour, settings, row, last, sending, requested, wish, hushed, overrun>>
    BY <1>2 DEF OwnSettings!vars
  <2> QED BY <2>1 DEF SettingsInv, SettingsTypes, LetThrough, OwnSettings!IsBlockedBetween, RowKept, OnTheirWay
<1> QED BY <1>1, <1>2

\* What the invariant says of what people see.
LEMMA SettingsAre ==
  ASSUME SettingsInv
  PROVE  /\ OwnSettings!SettingsTypeOK /\ OwnSettings!BlockedIsSilentUnlessCrossed /\ OwnSettings!MutedAsAsked
         /\ OwnSettings!BadgeIsTheListUnlessLapsed /\ OwnSettings!HiddenFromOthersUnlessListed
<1>1. SettingsTypes /\ hour \in Nat /\ LastHour \in Nat /\ requested \in 0..MaxAsks /\ MaxAsks \in Nat
  BY TheChats, ChatConstants DEF SettingsInv, SettingsTypes
<1>2. ASSUME NEW c \in OwnSettings!Chats, NEW p \in Owners
      PROVE  /\ row[c][p] \in ChatRow /\ RowKept(c, p) /\ row[c][p].unread \in 0..MaxAsks /\ wish[c][p] \in Nat
             /\ row[c][p].unread \in Nat /\ row[c][p].until \in Nat
  <2>1. row[c][p] \in ChatRow /\ RowKept(c, p) /\ wish[c][p] \in 0..(LastHour + 2) /\ row[c][p].unread \in Nat
    BY RowIs
  <2>2. row[c][p].unread <= MaxAsks
    BY <1>1, <2>1, SendingsCounted DEF RowKept
  <2> QED BY <1>1, <2>1, <2>2 DEF ChatRow
<1>3. OwnSettings!SettingsTypeOK
  <2>1. row \in [OwnSettings!Chats -> [Owners -> [unread : 0..MaxAsks, muted : BOOLEAN, until : 1..OwnSettings!Always,
                                                  archived : BOOLEAN, pinned : BOOLEAN, hidden : BOOLEAN]]]
    <3>1. ASSUME NEW c \in OwnSettings!Chats, NEW p \in Owners
          PROVE  row[c][p] \in [unread : 0..MaxAsks, muted : BOOLEAN, until : 1..(LastHour + 2),
                                archived : BOOLEAN, pinned : BOOLEAN, hidden : BOOLEAN]
      BY <1>2 DEF ChatRow
    <3> QED BY <1>1, <3>1, TheChats DEF SettingsTypes
  <2>2. \A h \in Sendings : sending[h].pc \in {"idle", "post"}
    BY <1>1, TheChats DEF SettingsTypes, Sent
  <2>3. /\ wish \in [OwnSettings!Chats -> [Owners -> OwnSettings!Never..OwnSettings!Always]] /\ overrun \in BOOLEAN
        /\ hour \in 1..LastHour /\ settings \in [Owners -> OwnSettings!ChatSettingsDoc]
    BY TheChats DEF SettingsInv, SettingsTypes
  <2>4. /\ last \in [OwnSettings!Chats -> [by : Owners \cup {OwnSettings!NoOne}, tick : {"sent", "read"}]]
        /\ requested \in 0..MaxAsks /\ hushed \subseteq OwnSettings!Chats
    BY DEF SettingsInv, SettingsTypes
  <2> QED BY <2>1, <2>2, <2>3, <2>4 DEF OwnSettings!SettingsTypeOK
<1>4. OwnSettings!MutedAsAsked
  <2>1. ASSUME NEW c \in OwnSettings!Chats, NEW p \in Owners
        PROVE  OwnSettings!ConvDTO(c, p).muted <=> wish[c][p] > hour
    <3>1. OwnSettings!ConvDTO(c, p).muted <=> row[c][p].muted /\ row[c][p].until > hour
      BY DEF OwnSettings!ConvDTO
    <3> QED BY <1>1, <1>2, <3>1 DEF RowKept
  <2> QED BY <2>1 DEF OwnSettings!MutedAsAsked
<1>5. OwnSettings!BadgeIsTheListUnlessLapsed
  <2>1. ASSUME NEW p \in Owners, NEW c \in OwnSettings!Chats
        PROVE  /\ c \in OwnSettings!UnreadChats(p) <=> row[c][p].unread > 0 /\ ~row[c][p].muted
               /\ c \in OwnSettings!List(p) <=> ~row[c][p].hidden
               /\ OwnSettings!ConvDTO(c, p).unread = row[c][p].unread
               /\ OwnSettings!ConvDTO(c, p).muted <=> row[c][p].muted /\ row[c][p].until > hour
    BY DEF OwnSettings!UnreadChats, OwnSettings!List, OwnSettings!ConvDTO
  <2>2. ASSUME NEW p \in Owners, NEW c \in OwnSettings!Chats
        PROVE  /\ row[c][p].unread > 0 => ~row[c][p].hidden
               /\ ~(row[c][p].until > hour) <=> row[c][p].until <= hour
    BY <1>1, <1>2 DEF RowKept
  <2>3. \A p \in Owners : OwnSettings!UnreadChats(p) \subseteq OwnSettings!Chats /\ OwnSettings!List(p) \subseteq OwnSettings!Chats
    BY DEF OwnSettings!UnreadChats, OwnSettings!List
  <2> QED BY <2>1, <2>2, <2>3 DEF OwnSettings!BadgeIsTheListUnlessLapsed
<1>6. OwnSettings!HiddenFromOthersUnlessListed
  <2>1. ASSUME NEW viewer \in Owners, NEW p \in Owners, viewer # p
        PROVE  /\ OwnSettings!IsBlockedBetween(viewer, p) => OwnSettings!Presence(viewer, p).status = "offline"
               /\ OwnSettings!IsBlockedBetween(viewer, p) \/ settings[p].lastSeen = "nobody" =>
                    ~OwnSettings!Presence(viewer, p).lastSeen
    BY <2>1 DEF OwnSettings!Presence
  <2> QED BY <2>1 DEF OwnSettings!HiddenFromOthersUnlessListed, OwnSettings!SeesOnline,
            OwnSettings!SeesLastSeen, OwnSettings!Ways
<1>7. OwnSettings!BlockedIsSilentUnlessCrossed
  BY DEF SettingsInv, OwnSettings!BlockedIsSilentUnlessCrossed
<1> QED BY <1>3, <1>4, <1>5, <1>6, <1>7

-----------------------------------------------------------------------------
(* Of whatever is followed, its invariant. *)

SomeChat  == which = "messages" => IInv
SomeMark  == which = "marks" => Marks!MarksInv
SomeStory == which = "stories" => StatusInv
SomeGroup == which = "groups" => GroupInv
SomePresence == which = "presence" => PresenceInv
SomeSettings == which = "settings" => SettingsInv

\* Every step is one of what is followed.
LEMMA FollowedSteps ==
  ASSUME [ConversationsNext]_<<which, newer, pgRequests, older>>
  PROVE  /\ which' = which
         /\ which = "messages" => [Next]_vars
         /\ which = "marks" => [Marks!MarksNext]_(Marks!vars)
         /\ which = "stories" => [Stories!StatusNext]_(Stories!statusVars)
         /\ which = "groups" => [Groups!GroupNext]_(Groups!groupVars)
         /\ which = "presence" => [Online!PresenceNext]_(Online!presenceVars)
         /\ which = "settings" => [OwnSettings!SettingsNext]_(OwnSettings!vars)
<1>1. CASE ConversationsNext
  BY <1>1, SMT DEF ConversationsNext, newer
<1>2. CASE UNCHANGED <<which, newer, pgRequests, older>>
  <2>1. /\ UNCHANGED <<which, vars, groups, online, stories>>
        /\ UNCHANGED <<marks, owns, req, requested, wrote, audit, cut, quiet>>
    BY <1>2 DEF newer, chats, mine, pgRequests
  <2>2. UNCHANGED Groups!groupVars /\ UNCHANGED Online!presenceVars
    BY <2>1 DEF groups, online, Groups!groupVars, Online!presenceVars
  <2>3. UNCHANGED Stories!statusVars /\ UNCHANGED Marks!vars /\ UNCHANGED OwnSettings!vars
    BY <2>1 DEF stories, marks, owns, Stories!statusVars, Marks!vars, OwnSettings!vars
  <2> QED BY <2>1, <2>2, <2>3
<1> QED BY <1>1, <1>2

LEMMA SomeChatStays ==
  SomeChat /\ [ConversationsNext]_<<which, newer, pgRequests, older>> => SomeChat'
BY FollowedSteps, StepIInv DEF SomeChat

LEMMA SomeChatBegins == ConversationsInit => SomeChat
BY InitIInv DEF ConversationsInit, SomeChat

LEMMA RoomForMarks == Marks!MarksParameters
<1>1. /\ <<"group", "direct">> \in Seq({"direct", "group"}) /\ <<"direct">> \in Seq({"direct", "group"})
      /\ <<"group", "direct">> # << >> /\ <<"direct">> # << >>
  OBVIOUS
<1> QED BY <1>1, ChatConstants DEF Marks!MarksParameters, Marks!Chats

LEMMA SomeMarkStays ==
  SomeMark /\ [ConversationsNext]_<<which, newer, pgRequests, older>> => SomeMark'
BY FollowedSteps, RoomForMarks, Marks!MarksStay DEF SomeMark

LEMMA SomeMarkBegins == ConversationsInit => SomeMark
BY RoomForMarks, Marks!MarksBegin DEF ConversationsInit, SomeMark

LEMMA SomeStoryStays ==
  SomeStory /\ [ConversationsNext]_<<which, newer, pgRequests, older>> => SomeStory'
BY FollowedSteps, StatusStays DEF SomeStory

LEMMA SomeStoryBegins == ConversationsInit => SomeStory
BY StatusBegins DEF ConversationsInit, SomeStory

LEMMA SomeGroupStays ==
  SomeGroup /\ [ConversationsNext]_<<which, newer, pgRequests, older>> => SomeGroup'
BY FollowedSteps, GroupStays DEF SomeGroup

LEMMA SomeGroupBegins == ConversationsInit => SomeGroup
BY GroupBegins DEF SomeGroup

LEMMA SomePresenceStays ==
  SomePresence /\ [ConversationsNext]_<<which, newer, pgRequests, older>> => SomePresence'
BY FollowedSteps, PresenceStays DEF SomePresence

LEMMA SomePresenceBegins == ConversationsInit => SomePresence
BY PresenceBegins DEF SomePresence

LEMMA SomeSettingsStay ==
  SomeSettings /\ [ConversationsNext]_<<which, newer, pgRequests, older>> => SomeSettings'
BY FollowedSteps, SettingsStay DEF SomeSettings

LEMMA SomeSettingsBegin == ConversationsInit => SomeSettings
BY SettingsBegin DEF SomeSettings

\* In every run of a conversation its ticks never run ahead of its receipts, and catch up.
THEOREM ConversationTicks == ConversationsSpec => []TicksHold
<1>1. SomeChat => TicksHold
  BY NeverAheadHolds, CatchUpHolds DEF SomeChat, TicksHold, IInv, TypeInv
<1> QED BY <1>1, SomeChatBegins, SomeChatStays, PTL DEF ConversationsSpec

\* In every run a client id is stored once and a badge covers what is unread, unless
\* requests crossed; and marks and forwards are whose they should be.
THEOREM ConversationMessages == ConversationsSpec => []MessagesHold
<1>1. SomeChat /\ SomeMark => MessagesHold
  BY OneMessageHolds, BadgeHolds DEF SomeChat, SomeMark, MessagesHold, Marks!MarksInv
<1> QED BY <1>1, SomeChatBegins, SomeChatStays, SomeMarkBegins, SomeMarkStays, PTL DEF ConversationsSpec

\* In every run what was deleted stays gone from badges, previews and views.
THEOREM ConversationForgets == ConversationsSpec => []DeletedIsGone
<1>1. SomeChat => DeletedIsGone
  BY SilentHolds, WordsHold, Marks!ViewsAgree DEF SomeChat, DeletedIsGone
<1> QED BY <1>1, SomeChatBegins, SomeChatStays, PTL DEF ConversationsSpec

\* In every run a viewer of a status is one, and one it was meant for.
THEOREM ConversationStories == ConversationsSpec => []StoriesHold
<1>1. SomeStory => StoriesHold
  BY DEF SomeStory, StoriesHold, StatusInv
<1> QED BY <1>1, SomeStoryBegins, SomeStoryStays, PTL DEF ConversationsSpec

\* And a status appears only to those who may see it, unless they changed meanwhile.
THEOREM ConversationPeers == ConversationsSpec => AppearsOnlyToPeers
<1>1. SomeStory /\ [ConversationsNext]_<<which, newer, pgRequests, older>> =>
        [which = "stories" => Stories!AppearsUnlessCrossed]_<<which, stories>>
  BY FollowedSteps, AppearsToPeers DEF SomeStory
<1> QED BY <1>1, SomeStoryBegins, SomeStoryStays, PTL DEF ConversationsSpec, AppearsOnlyToPeers

\* A person has one row in a group's roster unless two requests added them at once, and no
\* message outlives its group unless one was on its way: for any team and any requests.
THEOREM ConversationGroups == ConversationsSpec => []GroupsHold
<1>1. SomeGroup => GroupsHold
  BY GroupTypes DEF SomeGroup, GroupsHold, GroupInv, GroupEnds, Groups!NothingOutlivesGroupUnlessOverlap
<1> QED BY <1>1, SomeGroupBegins, SomeGroupStays, PTL DEF ConversationsSpec

\* The count of a person's connections never drifts, everybody was told how they are, and
\* last seen is true to within a heartbeat unless a write was lost; and a block keeps two
\* people apart, while badge, list and mute are what was asked for: for any people, requests and hours.
THEOREM ConversationPresence == ConversationsSpec => []PresenceHolds
<1>1. SomePresence /\ SomeSettings => PresenceHolds
  BY PresenceIs, SettingsAre DEF SomePresence, SomeSettings, PresenceHolds
<1> QED BY <1>1, SomePresenceBegins, SomePresenceStays, SomeSettingsBegin, SomeSettingsStay, PTL DEF ConversationsSpec

SomeCall ==
  /\ which = "call"  => OneCall!IInv
  /\ which = "calls" => TwoCalls!IInv

\* Every step is one of the calls followed, or leaves the calls as they are.
LEMMA CallSteps ==
  ASSUME [ConversationsNext]_<<which, newer, pgRequests, older>>
  PROVE  /\ which' = which
         /\ \/ which = "call" /\ OneCall!Next
            \/ which = "calls" /\ TwoCalls!Next
            \/ UNCHANGED calls
<1>1. CASE ConversationsNext
  BY <1>1, SMT DEF ConversationsNext, newer, chats
<1>2. CASE UNCHANGED <<which, newer, pgRequests, older>>
  BY <1>2 DEF newer, chats
<1> QED BY <1>1, <1>2

LEMMA SomeCallStays ==
  SomeCall /\ [ConversationsNext]_<<which, newer, pgRequests, older>> => SomeCall'
<1> SUFFICES ASSUME SomeCall, [ConversationsNext]_<<which, newer, pgRequests, older>>
             PROVE  SomeCall'
  OBVIOUS
<1>1. which = "call" => (OneCall!Next \/ UNCHANGED OneCall!vars) /\ which' = which
  BY CallSteps DEF calls, OneCall!vars
<1>2. which = "calls" => (TwoCalls!Next \/ UNCHANGED TwoCalls!vars) /\ which' = which
  BY CallSteps DEF calls, TwoCalls!vars
<1>3. which = "call" => OneCall!IInv'
  BY <1>1, OneCall!StepIInv DEF SomeCall
<1>4. which = "calls" => TwoCalls!IInv'
  BY <1>2, TwoCalls!StepIInv DEF SomeCall
<1> QED BY <1>3, <1>4, CallSteps DEF SomeCall

LEMMA SomeCallBegins == ConversationsInit => SomeCall
BY OneCall!InitIInv, TwoCalls!InitIInv DEF ConversationsInit, SomeCall

\* One call with two faults, or two calls without, keep what is proved of any calls.
THEOREM CallsKeepTheirWord == ConversationsSpec => []CallsHold
<1>1. SomeCall => CallsHold
  BY OneCall!Gives, TwoCalls!Gives DEF SomeCall, CallsHold
<1> QED BY <1>1, SomeCallBegins, SomeCallStays, PTL DEF ConversationsSpec

\* Among them, a call that is over stays over.
THEOREM CallsStayOver == ConversationsSpec => NeverRevived
<1>1. SomeCall /\ [ConversationsNext]_<<which, newer, pgRequests, older>> =>
        [/\ which = "call" => OneCall!StaysOver(c1)
         /\ which = "calls" => \A c \in {c1, c2} : TwoCalls!StaysOver(c)]_<<which, calls>>
  <2> SUFFICES ASSUME SomeCall, [ConversationsNext]_<<which, newer, pgRequests, older>>
               PROVE  /\ which = "call" => OneCall!StaysOver(c1)
                      /\ which = "calls" => \A c \in {c1, c2} : TwoCalls!StaysOver(c)
    OBVIOUS
  <2>1. which = "call" => OneCall!StaysOver(c1)
    BY CallSteps, OneCall!StepStaysOver DEF SomeCall, calls, OneCall!vars
  <2>2. which = "calls" => \A c \in {c1, c2} : TwoCalls!StaysOver(c)
    BY CallSteps, TwoCalls!StepStaysOver DEF SomeCall, calls, TwoCalls!vars
  <2> QED BY <2>1, <2>2
<1> QED BY <1>1, SomeCallBegins, SomeCallStays, PTL DEF ConversationsSpec, NeverRevived
=============================================================================
