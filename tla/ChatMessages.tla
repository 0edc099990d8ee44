---------------------------- MODULE ChatMessages ----------------------------
(***************************************************************************)
(* The messages of one conversation, its preview and unread counters, and  *)
(* the senders' ticks (src/src/mongo/chat/chat.service.ts and              *)
(* chat.repository.ts).                                                    *)
(*                                                                         *)
(* A message and its conversation are two documents that no transaction    *)
(* joins.  Requests read one, wait, and write the other; any two of them   *)
(* interleave, and a failed write or a restart may cut one short.  Who is  *)
(* in the conversation is fixed here: ChatGroups changes it.               *)
(***************************************************************************)
EXTENDS Integers, Sequences, FiniteSets

CONSTANTS
  People,     \* participantIds
  Services,   \* backends that post into groups without being participants
  ClientIds,  \* the optimistic ids of the senders' devices
  Handlers,   \* requests in progress at once
  MaxMsgs,    \* bound on messages
  MaxAsks,    \* bound on requests
  MaxFaults   \* bound on failures and restarts

ASSUME ChatConstants ==
  /\ People \cap Services = {}
  /\ MaxMsgs \in Nat /\ MaxAsks \in Nat /\ MaxFaults \in Nat

VARIABLES
  kind,       \* whether the conversation is direct or a group
  msgs,       \* the messages, by id; ids grow with every insert
  conv,       \* the conversation: preview, unread counters, when it was cleared
  tasks,      \* what each request is about to do
  clock,      \* the last instant anything was stamped with
  asks,       \* requests so far
  races,      \* history: what has overlapped (see Races)
  faults      \* failures and restarts so far

vars == <<kind, msgs, conv, tasks, clock, asks, races, faults>>

Senders  == People \cup Services
Ids      == 1..MaxMsgs
Statuses == {"sent", "delivered", "read"}
Rank(s)  == CASE s = "sent" -> 0 [] s = "delivered" -> 1 [] s = "read" -> 2
None     == 0
Gone     == [type |-> "removed"]
Idle     == [pc |-> "idle"]

\* What a message keeps: whether it has text, who has it, who has read it, and for
\* whom it is hidden.
Message ==
  [type : {"said", "notice"}, sender : Senders, client : ClientIds \cup {"none"},
   text : BOOLEAN, deleted : BOOLEAN, expires : BOOLEAN, status : Statuses,
   deliveredTo : SUBSET Senders, readBy : SUBSET People, deletedFor : SUBSET People]

Conversation ==
  [last : Ids \cup {None}, at : 0..MaxAsks, tombstone : BOOLEAN, vanishing : BOOLEAN,
   unread : [People -> 0..MaxMsgs], cleared : [People -> 0..MaxAsks]]

Task ==
  {Idle}
  \cup [pc : {"create"}, who : Senders, client : ClientIds \cup {"none"}, expires : BOOLEAN]
  \cup [pc : {"touch"}, id : Ids, who : Senders, at : 0..MaxAsks]
  \cup [pc : {"notice"}, who : People]
  \cup [pc : {"preview"}, id : Ids, at : 0..MaxAsks]
  \cup [pc : {"receive", "reckon"}, how : {"delivered", "read"}, who : People, ids : SUBSET Ids]
  \cup [pc : {"tick"}, how : {"delivered", "read"}, who : People,
        ids : SUBSET Ids, next : UNION {[S -> Statuses] : S \in SUBSET Ids}]
  \cup [pc : {"clear"}, who : People]
  \cup [pc : {"forget"}, who : People, at : 0..MaxAsks]
  \cup [pc : {"edit", "wipe", "tombstone"}, id : Ids]

\* What has overlapped: two sends of one client id; two computations of the ticks
\* of a message, or one cut short; an edit and a deletion of a message, or a
\* deletion and the write of its preview; a new message and a reset of a counter;
\* messages that a failure kept from the conversation; and an older preview that
\* was written over a newer one.
Races ==
  [client : SUBSET ClientIds, ticks : SUBSET Ids, words : SUBSET Ids,
   counter : SUBSET People, untold : SUBSET Ids, preview : BOOLEAN]

TypeOK ==
  /\ kind \in {"direct", "group"}
  /\ msgs \in Seq(Message \cup {Gone}) /\ Len(msgs) <= MaxMsgs
  /\ conv \in Conversation
  /\ \A h \in Handlers : tasks[h] \in Task
  /\ clock \in 0..MaxAsks
  /\ asks \in 0..MaxAsks
  /\ races \in Races
  /\ faults \in 0..MaxFaults

Init ==
  /\ kind \in {"direct", "group"}
  /\ msgs = <<>>
  /\ conv = [last |-> None, at |-> 0, tombstone |-> FALSE, vanishing |-> FALSE,
             unread |-> [p \in People |-> 0], cleared |-> [p \in People |-> 0]]
  /\ tasks = [h \in Handlers |-> Idle]
  /\ clock = 0
  /\ asks = 0
  /\ races = [client |-> {}, ticks |-> {}, words |-> {}, counter |-> {}, untold |-> {},
              preview |-> FALSE]
  /\ faults = 0

Goto(h, next) == tasks' = [tasks EXCEPT ![h] = next]

Asked(h) == tasks[h] = Idle /\ asks < MaxAsks /\ asks' = asks + 1

\* Messages that are still stored, and those of them somebody said.
Stored == {m \in DOMAIN msgs : msgs[m] # Gone}
Said   == {m \in Stored : msgs[m].type = "said"}

At(pc) == {h \in Handlers : tasks[h].pc \in pc}

-----------------------------------------------------------------------------
(* Sending. *)

FindByClientId(c) == {m \in Stored : msgs[m].client = c}

\* A message that is already stored under its client id is not sent again.
Begin(h, p, c) ==
  /\ Asked(h)
  /\ c # "none" => FindByClientId(c) = {}
  /\ Goto(h, [pc |-> "create", who |-> p, client |-> c, expires |-> conv.vanishing])
  /\ races' = IF c # "none" /\ \E g \in At({"create"}) : tasks[g].client = c
              THEN [races EXCEPT !.client = @ \cup {c}] ELSE races
  /\ UNCHANGED <<kind, msgs, conv, clock, faults>>

\* A send that is refused, to or from somebody blocked for one, changes nothing.
ReadForSend(h, p, c) == p \in People /\ Begin(h, p, c)

\* A back end posts its reports into groups only, and is asked no membership.
PostServiceMessage(h, s, c) == s \in Services /\ kind = "group" /\ Begin(h, s, c)

Create(h) ==
  LET t == tasks[h] IN
  /\ t.pc = "create"
  /\ Len(msgs) < MaxMsgs
  /\ clock' = clock + 1
  /\ msgs' = Append(msgs,
       [type |-> "said", sender |-> t.who, client |-> t.client, text |-> TRUE,
        deleted |-> FALSE, expires |-> t.expires, status |-> "sent",
        deliveredTo |-> {t.who}, readBy |-> {}, deletedFor |-> {}])
  /\ Goto(h, [pc |-> "touch", id |-> Len(msgs) + 1, who |-> t.who, at |-> clock'])
  /\ UNCHANGED <<kind, conv, races, faults, asks>>

\* The preview is overwritten whatever it shows, and everybody else counts one more.
Touched(t) ==
  [conv EXCEPT !.last = t.id, !.at = t.at, !.tombstone = FALSE,
               !.unread = [p \in People |-> IF p = t.who THEN @[p] ELSE @[p] + 1]]

\* Stored first, counted later: somebody who is clearing the counter, having looked
\* before this message came, clears this one's mark too.
TouchLastMessage(h) ==
  LET t == tasks[h]
      clearing == {tasks[g].who : g \in {g \in At({"receive", "reckon", "tick", "clear", "forget"}) :
                                           tasks[g].pc = "forget" \/ tasks[g].pc = "clear"
                                             \/ tasks[g].how = "read"}}
  IN
  /\ t.pc = "touch"
  /\ conv' = Touched(t)
  /\ races' = [races EXCEPT !.counter = @ \cup clearing, !.preview = @ \/ t.at < conv.at]
  /\ Goto(h, Idle)
  /\ UNCHANGED <<kind, msgs, clock, faults, asks>>

-----------------------------------------------------------------------------
(* Notices: the service's own messages, which no counter counts. *)

SetDisappearing(h, p, on) ==
  /\ Asked(h)
  /\ conv.vanishing # on
  /\ conv' = [conv EXCEPT !.vanishing = on]
  /\ Goto(h, [pc |-> "notice", who |-> p])
  /\ UNCHANGED <<kind, msgs, clock, races, faults>>

CreateNotice(h) ==
  LET t == tasks[h] IN
  /\ t.pc = "notice"
  /\ Len(msgs) < MaxMsgs
  /\ clock' = clock + 1
  /\ msgs' = Append(msgs,
       [type |-> "notice", sender |-> t.who, client |-> "none", text |-> TRUE,
        deleted |-> FALSE, expires |-> FALSE, status |-> "sent",
        deliveredTo |-> {}, readBy |-> {}, deletedFor |-> {}])
  /\ Goto(h, [pc |-> "preview", id |-> Len(msgs) + 1, at |-> clock'])
  /\ UNCHANGED <<kind, conv, races, faults, asks>>

PreviewNotice(h) ==
  LET t == tasks[h] IN
  /\ t.pc = "preview"
  /\ conv' = [conv EXCEPT !.last = t.id, !.at = t.at, !.tombstone = FALSE]
  /\ races' = [races EXCEPT !.preview = @ \/ t.at < conv.at]
  /\ Goto(h, Idle)
  /\ UNCHANGED <<kind, msgs, clock, faults, asks>>

-----------------------------------------------------------------------------
(* Receipts: opening the chat marks it read, coming online marks it delivered. *)

\* Regression: the set of those who have the message stands for those who read it.
AggregateStatusSwapped(m) ==
  LET others == People \ {msgs[m].sender} IN
  IF others \cap (msgs[m].deliveredTo \cup msgs[m].readBy) # {} THEN "read"
  ELSE IF others \cap msgs[m].readBy # {} THEN "delivered" ELSE "sent"

\* A read receipt implies delivery, and one of the others is enough.
AggregateStatus(m) ==
  LET others == People \ {msgs[m].sender} IN
  IF others = {} \/ others \cap msgs[m].readBy # {} THEN "read"
  ELSE IF others \cap (msgs[m].deliveredTo \cup msgs[m].readBy) # {} THEN "delivered"
  ELSE "sent"

Pending(p, how) ==
  {m \in Said : msgs[m].sender # p
                /\ p \notin (IF how = "read" THEN msgs[m].readBy ELSE msgs[m].deliveredTo)}

\* With nothing pending a reader goes straight to the counter.
FindPending(h, p, how) ==
  LET ids == Pending(p, how) IN
  /\ Asked(h)
  /\ ids # {} \/ how = "read"
  /\ Goto(h, IF ids = {} THEN [pc |-> "clear", who |-> p]
             ELSE [pc |-> "receive", how |-> how, who |-> p, ids |-> ids])
  /\ UNCHANGED <<kind, msgs, conv, clock, races, faults>>

MarkRead(h, p)      == FindPending(h, p, "read")
MarkDelivered(h, p) == FindPending(h, p, "delivered")

AddReceipts(h) ==
  LET t == tasks[h]
      With(m) == IF t.how = "read"
                 THEN [msgs[m] EXCEPT !.readBy = @ \cup {t.who}, !.deliveredTo = @ \cup {t.who}]
                 ELSE [msgs[m] EXCEPT !.deliveredTo = @ \cup {t.who}]
  IN
  /\ t.pc = "receive"
  /\ msgs' = [m \in DOMAIN msgs |-> IF m \in t.ids /\ m \in Stored THEN With(m) ELSE msgs[m]]
  /\ Goto(h, [t EXCEPT !.pc = "reckon"])
  /\ UNCHANGED <<kind, conv, clock, races, faults, asks>>

\* The new ticks are worked out from what is read here ...
ReadForAggregates(h) ==
  LET t    == tasks[h]
      ids  == t.ids \cap Stored
      Next1(m) == IF Rank(AggregateStatus(m)) > Rank(msgs[m].status)
                  THEN AggregateStatus(m) ELSE msgs[m].status
      up   == {m \in ids : Next1(m) # msgs[m].status}
      same == UNION {tasks[g].ids : g \in At({"tick"})}
  IN
  /\ t.pc = "reckon"
  /\ Goto(h, [pc |-> "tick", how |-> t.how, who |-> t.who, ids |-> up,
              next |-> [m \in up |-> Next1(m)]])
  /\ races' = [races EXCEPT !.ticks = @ \cup (up \cap same)]
  /\ UNCHANGED <<kind, msgs, conv, clock, faults, asks>>

\* ... and written later, whatever the tick shows by then.
WriteAggregates(h) ==
  LET t == tasks[h] IN
  /\ t.pc = "tick"
  /\ msgs' = [m \in DOMAIN msgs |->
       IF m \in t.ids \cap Stored THEN [msgs[m] EXCEPT !.status = t.next[m]] ELSE msgs[m]]
  /\ Goto(h, IF t.how = "read" THEN [pc |-> "clear", who |-> t.who] ELSE Idle)
  /\ UNCHANGED <<kind, conv, clock, races, faults, asks>>

ClearUnread(h) ==
  LET t == tasks[h] IN
  /\ t.pc = "clear"
  /\ conv' = [conv EXCEPT !.unread[t.who] = 0]
  /\ Goto(h, Idle)
  /\ UNCHANGED <<kind, msgs, clock, races, faults, asks>>

-----------------------------------------------------------------------------
(* Editing and deleting. *)

\* The windows for both are longer than any request takes: a message may be in
\* them or not.
ReadForEdit(h, m) ==
  /\ Asked(h)
  /\ m \in Stored /\ msgs[m].sender \in People
  /\ ~msgs[m].deleted
  /\ Goto(h, [pc |-> "edit", id |-> m])
  /\ UNCHANGED <<kind, msgs, conv, clock, races, faults>>

\* The preview keeps what it showed.
SaveEdit(h) ==
  LET m == tasks[h].id IN
  /\ tasks[h].pc = "edit"
  /\ Goto(h, Idle)
  /\ IF m \in Stored
     THEN /\ msgs' = [msgs EXCEPT ![m].text = TRUE]
          /\ races' = IF msgs[m].deleted THEN [races EXCEPT !.words = @ \cup {m}] ELSE races
     ELSE UNCHANGED <<msgs, races>>
  /\ UNCHANGED <<kind, conv, clock, faults, asks>>

DeleteForMe(p, m) ==
  /\ asks < MaxAsks
  /\ asks' = asks + 1
  /\ m \in Stored
  /\ msgs' = [msgs EXCEPT ![m].deletedFor = @ \cup {p}]
  /\ UNCHANGED <<kind, conv, tasks, clock, races, faults>>

\* The sender's first step: the message is found, theirs and within the hour.
ReadForDelete(h, m) ==
  /\ Asked(h)
  /\ m \in Stored /\ msgs[m].sender \in People
  /\ Goto(h, [pc |-> "wipe", id |-> m])
  /\ UNCHANGED <<kind, msgs, conv, clock, races, faults>>

SaveDeletion(h) ==
  LET m == tasks[h].id IN
  /\ tasks[h].pc = "wipe"
  /\ IF m \in Stored
     THEN /\ msgs' = [msgs EXCEPT ![m].text = FALSE, ![m].deleted = TRUE]
          /\ races' = IF \E g \in At({"touch", "preview"}) : tasks[g].id = m
                      THEN [races EXCEPT !.words = @ \cup {m}] ELSE races
          /\ Goto(h, [pc |-> "tombstone", id |-> m])
     ELSE Goto(h, Idle) /\ UNCHANGED <<msgs, races>>
  /\ UNCHANGED <<kind, conv, clock, faults, asks>>

Tombstone(h) ==
  /\ tasks[h].pc = "tombstone"
  /\ conv' = IF conv.last = tasks[h].id THEN [conv EXCEPT !.tombstone = TRUE] ELSE conv
  /\ Goto(h, Idle)
  /\ UNCHANGED <<kind, msgs, clock, races, faults, asks>>

\* "Delete chat": every message so far is hidden from one side of a direct chat ...
HideAll(h, p) ==
  /\ Asked(h)
  /\ kind = "direct"
  /\ clock' = clock + 1
  /\ msgs' = [m \in DOMAIN msgs |->
       IF m \in Stored THEN [msgs[m] EXCEPT !.deletedFor = @ \cup {p}] ELSE msgs[m]]
  /\ Goto(h, [pc |-> "forget", who |-> p, at |-> clock'])
  /\ races' = IF At({"touch"}) # {} THEN [races EXCEPT !.counter = @ \cup {p}] ELSE races
  /\ UNCHANGED <<kind, conv, faults>>

\* Regression: the counter stays when the chat goes.
ForgetChatKeepsUnread(h) ==
  LET t == tasks[h] IN
  /\ t.pc = "forget"
  /\ conv' = [conv EXCEPT !.cleared[t.who] = t.at]
  /\ Goto(h, Idle)
  /\ UNCHANGED <<kind, msgs, clock, races, faults, asks>>

\* ... and the chat leaves their list.
ForgetChat(h) ==
  LET t == tasks[h] IN
  /\ t.pc = "forget"
  /\ conv' = [conv EXCEPT !.cleared[t.who] = t.at, !.unread[t.who] = 0]
  /\ Goto(h, Idle)
  /\ UNCHANGED <<kind, msgs, clock, races, faults, asks>>

HiddenFor(p) == conv.cleared[p] # 0 /\ (conv.last = None \/ conv.at <= conv.cleared[p])

-----------------------------------------------------------------------------
\* MongoDB removes a message whose time is up.
Expire(m) ==
  /\ m \in Stored /\ msgs[m].expires
  /\ msgs' = [msgs EXCEPT ![m] = Gone]
  /\ UNCHANGED <<kind, conv, tasks, clock, races, faults, asks>>

\* Requests are cut short: one by a failed or refused write, all by a restart.  The
\* documents stay as they are.
CutShort(H) ==
  LET cut == {h \in H : tasks[h] # Idle} IN
  /\ faults < MaxFaults
  /\ faults' = faults + 1
  /\ cut # {}
  /\ tasks' = [h \in Handlers |-> IF h \in H THEN Idle ELSE tasks[h]]
  /\ races' = [races EXCEPT
       !.ticks  = @ \cup UNION {tasks[h].ids : h \in cut \cap At({"reckon", "tick"})},
       !.words  = @ \cup {tasks[h].id : h \in cut \cap At({"tombstone"})},
       !.untold = @ \cup {tasks[h].id : h \in cut \cap At({"touch"})}]
  /\ UNCHANGED <<kind, msgs, conv, clock, asks>>

Next ==
  \/ \E h \in Handlers :
       \/ \E c \in ClientIds \cup {"none"} :
            \/ \E p \in People : ReadForSend(h, p, c)
            \/ \E s \in Services : PostServiceMessage(h, s, c)
       \/ \E p \in People, on \in BOOLEAN : SetDisappearing(h, p, on)
       \/ \E p \in People : MarkRead(h, p) \/ MarkDelivered(h, p)
       \/ \E m \in Ids : ReadForEdit(h, m) \/ ReadForDelete(h, m)
       \/ \E p \in People : HideAll(h, p)
       \/ Create(h) \/ TouchLastMessage(h) \/ CreateNotice(h) \/ PreviewNotice(h)
       \/ AddReceipts(h) \/ ReadForAggregates(h) \/ WriteAggregates(h) \/ ClearUnread(h)
       \/ SaveEdit(h) \/ SaveDeletion(h) \/ Tombstone(h) \/ ForgetChat(h)
  \/ \E p \in People, m \in Ids : DeleteForMe(p, m)
  \/ \E m \in Ids : Expire(m)
  \/ (\E h \in Handlers : CutShort({h})) \/ CutShort(Handlers)

Spec == Init /\ [][Next]_vars

\* receipts: what the sender of a message is shown of the others' reading.
Receipts(m) ==
  LET others == People \ {msgs[m].sender}
      readBy == msgs[m].readBy \cap others
  IN [readBy |-> readBy, deliveredTo |-> (msgs[m].deliveredTo \cap others) \ readBy]

-----------------------------------------------------------------------------
(* Properties. *)

\* A retried send leaves one message, unless the retry looked before the first
\* attempt had stored it; nor is a message sent again that has since expired.
OneMessagePerClientIdUnlessRace ==
  \A m, n \in Said :
    m # n /\ msgs[m].client # "none" /\ msgs[m].client = msgs[n].client
      => msgs[m].client \in races.client

\* A sender's ticks never promise more than the message's info names somebody for,
\* whatever computations of them overlap.
TicksNeverAhead ==
  \A m \in Said :
    LET info == Receipts(m) IN
    /\ msgs[m].status = "delivered" => info.deliveredTo \cup info.readBy # {}
    /\ msgs[m].status = "read" => info.readBy # {}

\* Nor do they fall behind: with no receipt under way a message shows as read once
\* one of the others has read it and as delivered once one has it, unless two
\* computations of its ticks overlapped or one was cut short.
TicksCatchUpUnlessCrossed ==
  At({"reckon", "tick"}) = {} =>
    \A m \in Said \ races.ticks :
      LET others == People \ {msgs[m].sender} IN
      /\ others \cap msgs[m].readBy # {} => msgs[m].status = "read"
      /\ others \cap msgs[m].deliveredTo # {} => msgs[m].status # "sent"

\* A counter never hides a message: it covers those the person has yet to read,
\* unless one was counted while they were clearing it, or a failure kept it from
\* the conversation.
BadgeCoversUnreadUnlessCrossed ==
  \A p \in People \ races.counter :
    Cardinality({m \in Said \ races.untold :
                   /\ msgs[m].sender # p
                   /\ p \notin msgs[m].readBy \cup msgs[m].deletedFor
                   /\ \A h \in At({"touch"}) : tasks[h].id # m})
      <= conv.unread[p]

\* A chat that one side deleted asks for no attention before something new is said,
\* unless a message was being counted meanwhile, or the preview of an older message
\* was written over a newer one's.
HiddenChatIsSilentUnlessCrossed ==
  ~races.preview =>
    \A p \in People \ races.counter : HiddenFor(p) => conv.unread[p] = 0

\* What was deleted for everyone is not kept and not shown by the preview, unless
\* an edit was under way, or the preview not yet written, when it was deleted.
DeletedWordsAreGoneUnlessCrossed ==
  \A m \in Stored \ races.words :
    msgs[m].deleted =>
      /\ ~msgs[m].text
      /\ conv.last = m => conv.tombstone \/ \E h \in At({"tombstone"}) : tasks[h].id = m

\* chat.repository.ts on applyAggregates: "MONOTONIC: stored status only ever moves up".
TicksOnlyRise ==
  [][\A m \in DOMAIN msgs :
       msgs[m] # Gone /\ msgs'[m] # Gone => Rank(msgs'[m].status) >= Rank(msgs[m].status)]_vars
=============================================================================
