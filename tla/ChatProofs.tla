----------------------------- MODULE ChatProofs -----------------------------
(***************************************************************************)
(* What ChatMessages promises, for any people, devices, requests in        *)
(* progress and bounds.                                                    *)
(*                                                                         *)
(* A request carries what it read across its awaits.  The inductive        *)
(* invariant says, of each request in progress, what still holds of what   *)
(* it read, and what has been noted in races when it no longer does.       *)
(***************************************************************************)
EXTENDS ChatMessages, FiniteSetTheorems, TLAPS

Holds(h, pc) == tasks[h].pc = pc

\* Requests that are about to insert, and to count what they inserted: an instant and an
\* id have been set aside for each of them.
Creating == At({"create", "notice"})
Touching == At({"touch"})

Counted ==
  /\ IsFiniteSet(Creating) /\ clock + Cardinality(Creating) <= asks
  /\ IsFiniteSet(Touching)
  /\ \A p \in People : conv.unread[p] + Cardinality(Touching) <= Len(msgs)

\* What a request still finds of what it read: its message if that is still stored, and a
\* receipt is never of the sender's own.
TouchesOwn(h) ==
  Holds(h, "touch") =>
    /\ tasks[h].id \in DOMAIN msgs
    /\ msgs[tasks[h].id] # Gone =>
         msgs[tasks[h].id].type = "said" /\ msgs[tasks[h].id].sender = tasks[h].who
    /\ \A g \in Handlers : Holds(g, "touch") /\ tasks[g].id = tasks[h].id => g = h

ReceivesOthers(h) ==
  tasks[h].pc \in {"receive", "reckon", "tick"} =>
    \A m \in tasks[h].ids :
      /\ m \in DOMAIN msgs
      /\ msgs[m] # Gone => msgs[m].type = "said" /\ msgs[m].sender # tasks[h].who

HasId(h) ==
  tasks[h].pc \in {"preview", "edit", "wipe", "tombstone"} => tasks[h].id \in DOMAIN msgs

Kept(h) == TouchesOwn(h) /\ ReceivesOthers(h) /\ HasId(h)

-----------------------------------------------------------------------------
(* One message for a client id. *)

SentOnce(c) ==
  c \notin races.client =>
    /\ \A m, n \in Said : msgs[m].client = c /\ msgs[n].client = c => m = n
    /\ \A g, h \in Handlers :
         Holds(g, "create") /\ tasks[g].client = c /\ Holds(h, "create") /\ tasks[h].client = c
           => g = h
    /\ \A h \in Handlers, m \in Said :
         ~(Holds(h, "create") /\ tasks[h].client = c /\ msgs[m].client = c)

-----------------------------------------------------------------------------
(* Ticks. *)

Others(m) == People \ {msgs[m].sender}

\* The tick that a message's receipts call for.
Due(m) ==
  IF Others(m) \cap msgs[m].readBy # {} THEN "read"
  ELSE IF Others(m) \cap (msgs[m].deliveredTo \cup msgs[m].readBy) # {} THEN "delivered"
  ELSE "sent"

TickHeld(m) == Rank(msgs[m].status) <= Rank(Due(m))

NextHeld(h) ==
  Holds(h, "tick") =>
    \A m \in tasks[h].ids :
      /\ m \in DOMAIN tasks[h].next
      /\ m \in Said => Rank(tasks[h].next[m]) <= Rank(Due(m))

\* Somebody will still work out the tick of m.
Reckoned(m) == \E h \in Handlers : Holds(h, "reckon") /\ m \in tasks[h].ids

\* Somebody will write the tick of m.
Writing(h, m) == Holds(h, "tick") /\ m \in tasks[h].ids

\* As long as no two reckonings of m overlapped and none was cut short: one at most is being
\* written, and it rises; what is written in the end is due, unless it is reckoned again.
CatchesUp(m) ==
  m \notin races.ticks =>
    /\ \A g, h \in Handlers : Writing(g, m) /\ Writing(h, m) => g = h
    /\ \A h \in Handlers : Writing(h, m) =>
         /\ Rank(msgs[m].status) < Rank(tasks[h].next[m])
         /\ Rank(Due(m)) <= Rank(tasks[h].next[m]) \/ Reckoned(m)
    /\ (\A h \in Handlers : ~Writing(h, m)) =>
         Rank(Due(m)) <= Rank(msgs[m].status) \/ Reckoned(m)

-----------------------------------------------------------------------------
(* Counters and the list of chats. *)

\* The messages that the counter of p has to cover.
Unread(p) ==
  {m \in Said \ races.untold :
     /\ msgs[m].sender # p
     /\ p \notin msgs[m].readBy \cup msgs[m].deletedFor
     /\ \A h \in At({"touch"}) : tasks[h].id # m}

Clearing(h, p) ==
  /\ tasks[h].pc \in {"receive", "reckon", "tick", "clear", "forget"}
  /\ tasks[h].who = p
  /\ tasks[h].pc \in {"clear", "forget"} \/ tasks[h].how = "read"

\* Whoever is about to reset the counter of p has dealt with all it covers.
ClearsAll(h, p) ==
  Clearing(h, p) =>
    Unread(p) \subseteq (IF Holds(h, "receive") THEN tasks[h].ids ELSE {})

Covered(p) ==
  p \notin races.counter =>
    /\ Cardinality(Unread(p)) <= conv.unread[p]
    /\ \A h \in Handlers : ClearsAll(h, p)

\* What p cleared the chat of was said before; what is still to be counted was said after.
ClearedBefore(p) ==
  /\ conv.cleared[p] <= clock
  /\ \A h \in Handlers : Holds(h, "forget") => tasks[h].at <= clock
  /\ \A h \in Handlers : Holds(h, "touch") \/ Holds(h, "preview") => tasks[h].at <= clock

SaidSince(p) ==
  p \notin races.counter =>
    \A h \in Touching :
      /\ conv.cleared[p] < tasks[h].at
      /\ \A g \in Handlers : Holds(g, "forget") /\ tasks[g].who = p => tasks[g].at < tasks[h].at

Silent(p) == ~races.preview /\ p \notin races.counter /\ HiddenFor(p) => conv.unread[p] = 0

-----------------------------------------------------------------------------
(* Deleted words. *)

WordsGone(m) ==
  m \notin races.words /\ msgs[m].deleted =>
    /\ ~msgs[m].text
    /\ conv.last = m => conv.tombstone \/ \E h \in Handlers : Holds(h, "tombstone") /\ tasks[h].id = m
    /\ \A h \in Handlers : Holds(h, "touch") \/ Holds(h, "preview") => tasks[h].id # m

-----------------------------------------------------------------------------
TypeInv  == TypeOK /\ tasks = [h \in Handlers |-> tasks[h]]
KeptInv  == \A h \in Handlers : Kept(h)
SentInv  == \A c \in ClientIds \ {"none"} : SentOnce(c)
TicksInv == (\A m \in Said : TickHeld(m) /\ CatchesUp(m)) /\ \A h \in Handlers : NextHeld(h)
BadgeInv == \A p \in People : Covered(p)
ListInv  == \A p \in People : ClearedBefore(p) /\ SaidSince(p) /\ Silent(p)
WordsInv == \A m \in Stored : WordsGone(m)

\* The inductive invariant.
IInv ==
  TypeInv /\ Counted /\ KeptInv /\ SentInv /\ TicksInv /\ BadgeInv /\ ListInv /\ WordsInv

-----------------------------------------------------------------------------
(* What types say. *)

\* A request's step tells what it carries.
LEMMA Kinds ==
  ASSUME TypeOK, NEW h \in Handlers
  PROVE  /\ tasks[h].pc \in {"idle", "create", "touch", "notice", "preview", "receive", "reckon",
                             "tick", "clear", "forget", "edit", "wipe", "tombstone"}
         /\ Holds(h, "idle") => tasks[h] = Idle
         /\ Holds(h, "create") =>
              /\ tasks[h].who \in Senders /\ tasks[h].client \in ClientIds \cup {"none"}
              /\ tasks[h].expires \in BOOLEAN
         /\ Holds(h, "touch") =>
              tasks[h].id \in Ids /\ tasks[h].who \in Senders /\ tasks[h].at \in 0..MaxAsks
         /\ Holds(h, "notice") => tasks[h].who \in People
         /\ Holds(h, "preview") => tasks[h].id \in Ids /\ tasks[h].at \in 0..MaxAsks
         /\ tasks[h].pc \in {"receive", "reckon", "tick"} =>
              /\ tasks[h].how \in {"delivered", "read"}
              /\ tasks[h].who \in People /\ tasks[h].ids \in SUBSET Ids
         /\ Holds(h, "clear") => tasks[h].who \in People
         /\ Holds(h, "forget") => tasks[h].who \in People /\ tasks[h].at \in 0..MaxAsks
         /\ tasks[h].pc \in {"edit", "wipe", "tombstone"} => tasks[h].id \in Ids
BY DEF TypeOK, Task, Idle, Holds

LEMMA Records ==
  ASSUME TypeOK, NEW h \in Handlers
  PROVE  /\ Holds(h, "receive") \/ Holds(h, "reckon") =>
              tasks[h] \in [pc : {"receive", "reckon"}, how : {"delivered", "read"}, who : People,
                           ids : SUBSET Ids]
         /\ Holds(h, "idle") => tasks[h] = Idle
BY DEF TypeOK, Task, Idle, Holds

\* The ticks that are about to be written are ticks.
LEMMA NextTicks ==
  ASSUME TypeOK, NEW h \in Handlers, Holds(h, "tick"), NEW m \in DOMAIN tasks[h].next
  PROVE  tasks[h].next[m] \in Statuses
BY DEF TypeOK, Task, Idle, Holds

LEMMA Lengths ==
  ASSUME TypeOK
  PROVE  /\ Len(msgs) \in Nat /\ MaxMsgs \in Nat /\ MaxAsks \in Nat
         /\ DOMAIN msgs = 1..Len(msgs) /\ DOMAIN msgs \subseteq Ids
         /\ \A m \in DOMAIN msgs : msgs[m] = Gone \/ msgs[m] \in Message
         /\ \A m \in Stored : m \in DOMAIN msgs /\ msgs[m] \in Message
         /\ Said \subseteq Stored
BY ChatConstants DEF TypeOK, Ids, Stored, Said

LEMMA GoneIsNone == Gone \notin Message
BY DEF Gone, Message

\* A request moves on, and the others rest.
LEMMA Moved ==
  ASSUME tasks = [g \in Handlers |-> tasks[g]], NEW h \in Handlers, NEW next, Goto(h, next)
  PROVE  /\ tasks' = [g \in Handlers |-> tasks'[g]]
         /\ tasks'[h] = next
         /\ \A g \in Handlers : g # h => tasks'[g] = tasks[g]
BY DEF Goto

\* A list of as many messages, each one still what a message may be.
LEMMA Rewritten ==
  ASSUME TypeOK, NEW S, S = Message \cup {Gone}, DOMAIN msgs' = DOMAIN msgs,
         msgs' = [m \in DOMAIN msgs |-> msgs'[m]],
         \A m \in DOMAIN msgs : msgs'[m] \in S
  PROVE  msgs' \in Seq(S) /\ Len(msgs') = Len(msgs)
<1>1. DOMAIN msgs = 1..Len(msgs) /\ Len(msgs) \in Nat
  BY Lengths
<1>2. msgs' \in [1..Len(msgs) -> S]
  BY <1>1
<1> QED BY <1>1, <1>2

\* An instant, and a place, are left for whoever is about to insert or to count.
LEMMA Room ==
  ASSUME TypeInv, Counted
  PROVE  /\ clock \in Nat /\ asks \in Nat /\ MaxAsks \in Nat /\ asks <= MaxAsks /\ clock <= asks
         /\ Cardinality(Creating) \in Nat /\ Cardinality(Touching) \in Nat
         /\ \A p \in People : conv.unread[p] \in Nat /\ conv.unread[p] <= Len(msgs)
         /\ \A h \in Handlers : tasks[h].pc \in {"create", "notice"} => clock + 1 <= asks
         /\ \A h \in Handlers : Holds(h, "touch") =>
              \A p \in People : conv.unread[p] + 1 <= Len(msgs)
<1>1. clock \in Nat /\ asks \in Nat /\ asks <= MaxAsks /\ MaxAsks \in Nat /\ Len(msgs) \in Nat
  BY Lengths DEF TypeInv, TypeOK
<1>2. \A p \in People : conv.unread[p] \in Nat
  BY ChatConstants DEF TypeInv, TypeOK, Conversation
<1>3. Cardinality(Creating) \in Nat /\ Cardinality(Touching) \in Nat
  BY FS_CardinalityType DEF Counted
<1>4. ASSUME NEW h \in Handlers, tasks[h].pc \in {"create", "notice"} PROVE Cardinality(Creating) # 0
  <2>1. h \in Creating
    BY <1>4 DEF Creating, At
  <2> QED BY <2>1, FS_EmptySet DEF Counted
<1>5. ASSUME NEW h \in Handlers, Holds(h, "touch") PROVE Cardinality(Touching) # 0
  <2>1. h \in Touching
    BY <1>5 DEF Touching, At, Holds
  <2> QED BY <2>1, FS_EmptySet DEF Counted
<1>6. clock + Cardinality(Creating) <= asks /\ \A p \in People : conv.unread[p] + Cardinality(Touching) <= Len(msgs)
  BY DEF Counted
<1> QED BY <1>1, <1>2, <1>3, <1>4, <1>5, <1>6

\* The types, less the two bounds that need counting.
LEMMA TypesStay ==
  ASSUME TypeOK, kind' = kind, msgs' \in Seq(Message \cup {Gone}), Len(msgs') <= MaxMsgs,
         conv' \in Conversation, \A h \in Handlers : tasks'[h] \in Task,
         clock' \in 0..MaxAsks, asks' \in 0..MaxAsks, races' \in Races, faults' \in 0..MaxFaults
  PROVE  TypeOK'
BY DEF TypeOK, Conversation, Message, Task, Races, Senders, Ids

LEMMA Parts ==
  ASSUME TypeInv
  PROVE  /\ TypeOK
         /\ msgs \in Seq(Message \cup {Gone}) /\ Len(msgs) <= MaxMsgs
         /\ conv \in Conversation
         /\ \A h \in Handlers : tasks[h] \in Task
         /\ clock \in 0..MaxAsks /\ asks \in 0..MaxAsks
         /\ races \in Races /\ faults \in 0..MaxFaults
BY DEF TypeInv, TypeOK

LEMMA GotoTypes ==
  ASSUME TypeInv, NEW h \in Handlers, NEW next \in Task, Goto(h, next),
         kind' = kind, msgs' \in Seq(Message \cup {Gone}), Len(msgs') <= MaxMsgs,
         conv' \in Conversation, clock' \in 0..MaxAsks, asks' \in 0..MaxAsks,
         races' \in Races, faults' = faults
  PROVE  TypeInv'
<1>1. tasks'[h] = next /\ \A g \in Handlers : g # h => tasks'[g] = tasks[g]
  BY Moved DEF TypeInv
<1>2. tasks' = [g \in Handlers |-> tasks'[g]]
  BY Moved DEF TypeInv
<1>3. \A g \in Handlers : tasks'[g] \in Task
  BY <1>1, Parts
<1>4. TypeOK'
  BY <1>3, Parts, TypesStay
<1> QED BY <1>2, <1>4 DEF TypeInv

LEMMA BeginTypes ==
  ASSUME TypeInv, Counted, NEW h \in Handlers, NEW p \in Senders, NEW c \in ClientIds \cup {"none"}, Begin(h, p, c)
  PROVE  TypeInv'
<1>1. [pc |-> "create", who |-> p, client |-> c, expires |-> conv.vanishing] \in Task
  BY DEF Task, TypeInv, TypeOK, Conversation
<1>2. races' \in Races
  BY DEF Begin, TypeInv, TypeOK, Races
<1>3. asks' \in 0..MaxAsks
  BY ChatConstants DEF Begin, Asked, TypeInv, TypeOK
<1> QED BY <1>1, <1>2, <1>3, GotoTypes, Parts DEF Begin

LEMMA CreateTypes ==
  ASSUME TypeInv, Counted, NEW h \in Handlers, Create(h)
  PROVE  TypeInv'
<1>1. clock' \in 0..MaxAsks
  BY Room DEF Create
<1>2. Len(msgs) + 1 \in Ids /\ Len(msgs) \in Nat /\ Len(msgs) + 1 <= MaxMsgs
  BY Lengths DEF Create, Ids, TypeInv
<1>3. tasks[h].who \in Senders /\ tasks[h].client \in ClientIds \cup {"none"} /\ tasks[h].expires \in BOOLEAN
  BY Kinds DEF Create, Holds, TypeInv
<1>4. [pc |-> "touch", id |-> Len(msgs) + 1, who |-> tasks[h].who, at |-> clock'] \in Task
  BY <1>1, <1>2, <1>3 DEF Task
<1>5. [type |-> "said", sender |-> tasks[h].who, client |-> tasks[h].client, text |-> TRUE,
       deleted |-> FALSE, expires |-> tasks[h].expires, status |-> "sent",
       deliveredTo |-> {tasks[h].who}, readBy |-> {}, deletedFor |-> {}] \in Message
  BY <1>3 DEF Message, Statuses
<1>6. msgs' \in Seq(Message \cup {Gone}) /\ Len(msgs') = Len(msgs) + 1
  BY <1>5 DEF Create, TypeInv, TypeOK
<1> QED BY <1>1, <1>2, <1>4, <1>6, GotoTypes, Parts DEF Create

LEMMA NoticeTypes ==
  ASSUME TypeInv, Counted, NEW h \in Handlers, CreateNotice(h)
  PROVE  TypeInv'
<1>1. clock' \in 0..MaxAsks
  BY Room DEF CreateNotice
<1>2. Len(msgs) + 1 \in Ids /\ Len(msgs) \in Nat /\ Len(msgs) + 1 <= MaxMsgs
  BY Lengths DEF CreateNotice, Ids, TypeInv
<1>3. tasks[h].who \in Senders
  BY Kinds DEF CreateNotice, Holds, TypeInv, Senders
<1>4. [pc |-> "preview", id |-> Len(msgs) + 1, at |-> clock'] \in Task
  BY <1>1, <1>2 DEF Task
<1>5. [type |-> "notice", sender |-> tasks[h].who, client |-> "none", text |-> TRUE,
       deleted |-> FALSE, expires |-> FALSE, status |-> "sent",
       deliveredTo |-> {}, readBy |-> {}, deletedFor |-> {}] \in Message
  BY <1>3 DEF Message, Statuses
<1>6. msgs' \in Seq(Message \cup {Gone}) /\ Len(msgs') = Len(msgs) + 1
  BY <1>5 DEF CreateNotice, TypeInv, TypeOK
<1> QED BY <1>1, <1>2, <1>4, <1>6, GotoTypes, Parts DEF CreateNotice

LEMMA TouchTypes ==
  ASSUME TypeInv, Counted, NEW h \in Handlers, TouchLastMessage(h)
  PROVE  TypeInv'
<1>1. tasks[h].id \in Ids /\ tasks[h].who \in Senders /\ tasks[h].at \in 0..MaxAsks
  BY Kinds DEF TouchLastMessage, Holds, TypeInv
<1>2. \A p \in People : conv.unread[p] + 1 \in 0..MaxMsgs /\ conv.unread[p] \in 0..MaxMsgs
  <2>1. Holds(h, "touch")
    BY DEF TouchLastMessage, Holds
  <2>2. Len(msgs) \in Nat /\ Len(msgs) <= MaxMsgs /\ MaxMsgs \in Nat
    BY Parts, Lengths
  <2> QED BY <2>1, <2>2, Room
<1>3. conv' \in Conversation
  BY <1>1, <1>2 DEF TouchLastMessage, Touched, TypeInv, TypeOK, Conversation
<1>4. {tasks[g].who : g \in {g \in At({"receive", "reckon", "tick", "clear", "forget"}) :
          tasks[g].pc = "forget" \/ tasks[g].pc = "clear" \/ tasks[g].how = "read"}} \subseteq People
  BY Kinds DEF At, Holds, TypeInv
<1>5. races' \in Races
  BY <1>4 DEF TouchLastMessage, TypeInv, TypeOK, Races
<1>6. Idle \in Task
  BY DEF Task
<1> QED BY <1>3, <1>5, <1>6, GotoTypes, Parts DEF TouchLastMessage

LEMMA SettingTypes ==
  ASSUME TypeInv, Counted, NEW h \in Handlers, NEW p \in People, NEW on \in BOOLEAN, SetDisappearing(h, p, on)
  PROVE  TypeInv'
<1>1. conv' \in Conversation
  BY Parts DEF SetDisappearing, Conversation
<1>3. asks' \in 0..MaxAsks
  BY ChatConstants, Parts DEF SetDisappearing, Asked
<1>2. [pc |-> "notice", who |-> p] \in Task
  BY DEF Task
<1> QED BY <1>1, <1>2, <1>3, GotoTypes, Parts DEF SetDisappearing

LEMMA PreviewTypes ==
  ASSUME TypeInv, Counted, NEW h \in Handlers, PreviewNotice(h)
  PROVE  TypeInv'
<1>1. tasks[h].id \in Ids /\ tasks[h].at \in 0..MaxAsks
  BY Kinds DEF PreviewNotice, Holds, TypeInv
<1>2. conv' \in Conversation /\ races' \in Races /\ Idle \in Task
  BY <1>1 DEF PreviewNotice, TypeInv, TypeOK, Conversation, Races, Task
<1> QED BY <1>2, GotoTypes, Parts DEF PreviewNotice

LEMMA PendingTypes ==
  ASSUME TypeInv, Counted, NEW h \in Handlers, NEW p \in People, NEW how \in {"read", "delivered"},
         FindPending(h, p, how)
  PROVE  TypeInv'
<1>1. Pending(p, how) \in SUBSET Ids
  BY Lengths DEF Pending, TypeInv
<1>2. [pc |-> "clear", who |-> p] \in Task /\ [pc |-> "receive", how |-> how, who |-> p, ids |-> Pending(p, how)] \in Task
  BY <1>1 DEF Task
<1>3. asks' \in 0..MaxAsks
  BY ChatConstants DEF FindPending, Asked, TypeInv, TypeOK
<1> QED BY <1>2, <1>3, GotoTypes, Parts DEF FindPending

LEMMA ReceiptTypes ==
  ASSUME TypeInv, Counted, NEW h \in Handlers, AddReceipts(h)
  PROVE  TypeInv'
<1>1. tasks[h].how \in {"delivered", "read"} /\ tasks[h].who \in People /\ tasks[h].ids \in SUBSET Ids
  BY Kinds DEF AddReceipts, Holds, TypeInv
<1>2. [tasks[h] EXCEPT !.pc = "reckon"] \in Task
  <2>1. Holds(h, "receive")
    BY DEF AddReceipts, Holds
  <2>2. tasks[h] \in [pc : {"receive", "reckon"}, how : {"delivered", "read"}, who : People, ids : SUBSET Ids]
    BY <2>1, Records, Parts
  <2> QED BY <2>2 DEF Task
<1>3. ASSUME NEW m \in DOMAIN msgs PROVE msgs'[m] \in Message \cup {Gone}
  <2>1. CASE ~(m \in tasks[h].ids /\ m \in Stored)
    BY <2>1, Lengths DEF AddReceipts, TypeInv
  <2>2. CASE m \in tasks[h].ids /\ m \in Stored
    <3>1. msgs[m] \in Message /\ tasks[h].who \in Senders
      BY <2>2, <1>1, Lengths DEF TypeInv, Senders
    <3>2. [msgs[m] EXCEPT !.readBy = @ \cup {tasks[h].who}, !.deliveredTo = @ \cup {tasks[h].who}] \in Message
      BY <3>1, <1>1 DEF Message
    <3>3. [msgs[m] EXCEPT !.deliveredTo = @ \cup {tasks[h].who}] \in Message
      BY <3>1 DEF Message
    <3> QED BY <2>2, <3>2, <3>3 DEF AddReceipts
  <2> QED BY <2>1, <2>2
<1>4. DOMAIN msgs' = DOMAIN msgs /\ msgs' = [m \in DOMAIN msgs |-> msgs'[m]]
  BY DEF AddReceipts
<1>5. msgs' \in Seq(Message \cup {Gone}) /\ Len(msgs') <= MaxMsgs
  BY <1>3, <1>4, Rewritten DEF TypeInv, TypeOK
<1> QED BY <1>2, <1>5, GotoTypes, Parts DEF AddReceipts

\* What a write may do to a message, and to the conversation.
LEMMA MessageWrites ==
  ASSUME NEW n \in Message, NEW p \in People
  PROVE  [n EXCEPT !.deletedFor = @ \cup {p}] \in Message
BY DEF Message

LEMMA MessageRewords ==
  ASSUME NEW n \in Message
  PROVE  /\ [n EXCEPT !.text = TRUE] \in Message
         /\ [n EXCEPT !.text = FALSE, !.deleted = TRUE] \in Message
BY DEF Message

LEMMA ConversationWrites ==
  ASSUME NEW c \in Conversation, NEW p \in People, NEW a \in 0..MaxAsks
  PROVE  /\ [c EXCEPT !.unread[p] = 0] \in Conversation
         /\ [c EXCEPT !.cleared[p] = a, !.unread[p] = 0] \in Conversation
<1>1. 0 \in 0..MaxMsgs /\ c.unread \in [People -> 0..MaxMsgs] /\ c.cleared \in [People -> 0..MaxAsks]
  BY ChatConstants DEF Conversation
<1>2. [c.unread EXCEPT ![p] = 0] \in [People -> 0..MaxMsgs]
  BY <1>1
<1>3. [c.cleared EXCEPT ![p] = a] \in [People -> 0..MaxAsks]
  BY <1>1
<1> QED BY <1>2, <1>3 DEF Conversation

LEMMA RacesWrites ==
  ASSUME NEW r \in Races, NEW m \in Ids
  PROVE  [r EXCEPT !.words = @ \cup {m}] \in Races
BY DEF Races

LEMMA ReckonTypes ==
  ASSUME TypeInv, Counted, NEW h \in Handlers, ReadForAggregates(h)
  PROVE  TypeInv'
<1> DEFINE Next1(m) == IF Rank(AggregateStatus(m)) > Rank(msgs[m].status)
                       THEN AggregateStatus(m) ELSE msgs[m].status
           up   == {m \in tasks[h].ids \cap Stored : Next1(m) # msgs[m].status}
           next == [m \in up |-> Next1(m)]
           t    == [pc |-> "tick", how |-> tasks[h].how, who |-> tasks[h].who, ids |-> up, next |-> next]
<1>1. tasks[h].how \in {"delivered", "read"} /\ tasks[h].who \in People /\ tasks[h].ids \in SUBSET Ids
  BY Kinds, Parts DEF ReadForAggregates, Holds
<1>2. \A m \in up : Next1(m) \in Statuses
  <2>1. \A m \in up : msgs[m].status \in Statuses
    BY Lengths, Parts DEF Message
  <2>2. \A m \in up : AggregateStatus(m) \in Statuses
    BY DEF AggregateStatus, Statuses
  <2> QED BY <2>1, <2>2
<1>3. up \in SUBSET Ids
  BY <1>1
<1>4. next \in UNION {[S -> Statuses] : S \in SUBSET Ids}
  <2>1. next \in [up -> Statuses]
    <3> HIDE DEF Next1, up
    <3> QED BY <1>2
  <2> HIDE DEF next, up
  <2> QED BY <2>1, <1>3
<1>5. t \in Task
  <2> HIDE DEF up, next
  <2> QED BY <1>1, <1>3, <1>4 DEF Task
<1>6. Goto(h, t)
  BY DEF ReadForAggregates
<1>7. races' \in Races
  <2>1. races \in Races /\ races' = [races EXCEPT !.ticks = @ \cup (up \cap UNION {tasks[g].ids : g \in At({"tick"})})]
    BY Parts DEF ReadForAggregates
  <2> HIDE DEF up
  <2> QED BY <2>1, <1>3 DEF Races
<1>8. UNCHANGED <<kind, msgs, conv, clock, faults, asks>>
  BY DEF ReadForAggregates
<1> QED
  <2> HIDE DEF t
  <2> QED BY <1>5, <1>6, <1>7, <1>8, GotoTypes, Parts

LEMMA TickTypes ==
  ASSUME TypeInv, Counted, KeptInv, TicksInv, NEW h \in Handlers, WriteAggregates(h)
  PROVE  TypeInv'
<1>1. tasks[h].who \in People /\ Holds(h, "tick")
  BY Kinds, Parts DEF WriteAggregates, Holds
<1>2. ASSUME NEW m \in DOMAIN msgs PROVE msgs'[m] \in Message \cup {Gone}
  <2>1. CASE m \notin tasks[h].ids \cap Stored
    BY <2>1, Lengths, Parts DEF WriteAggregates
  <2>2. CASE m \in tasks[h].ids \cap Stored
    <3>1. msgs[m] \in Message
      BY <2>2, Lengths, Parts
    <3>2. tasks[h].next[m] \in Statuses
      BY <2>2, <1>1, NextTicks, Parts DEF TicksInv, NextHeld
    <3>3. [msgs[m] EXCEPT !.status = tasks[h].next[m]] \in Message
      BY <3>1, <3>2 DEF Message
    <3> QED BY <2>2, <3>3 DEF WriteAggregates
  <2> QED BY <2>1, <2>2
<1>3. DOMAIN msgs' = DOMAIN msgs /\ msgs' = [m \in DOMAIN msgs |-> msgs'[m]]
  BY DEF WriteAggregates
<1>4. msgs' \in Seq(Message \cup {Gone}) /\ Len(msgs') <= MaxMsgs
  BY <1>2, <1>3, Rewritten, Parts
<1>5. [pc |-> "clear", who |-> tasks[h].who] \in Task /\ Idle \in Task
  BY <1>1 DEF Task
<1> QED BY <1>4, <1>5, GotoTypes, Parts DEF WriteAggregates

LEMMA ClearTypes ==
  ASSUME TypeInv, Counted, NEW h \in Handlers, ClearUnread(h) \/ ForgetChat(h)
  PROVE  TypeInv'
<1>1. tasks[h].who \in People
  BY Kinds, Parts DEF ClearUnread, ForgetChat, Holds
<1>2. Holds(h, "forget") => tasks[h].at \in 0..MaxAsks
  BY Kinds, Parts
<1>3. MaxMsgs \in Nat /\ Idle \in Task
  BY ChatConstants DEF Task
<1>4. conv' \in Conversation
  <2>1. CASE ClearUnread(h)
    BY <2>1, <1>1, <1>3, Parts, ConversationWrites, ChatConstants DEF ClearUnread
  <2>2. CASE ForgetChat(h)
    BY <2>2, <1>1, <1>2, Parts, ConversationWrites DEF ForgetChat, Holds
  <2> QED BY <2>1, <2>2
<1> QED BY <1>3, <1>4, GotoTypes, Parts DEF ClearUnread, ForgetChat

LEMMA AskTypes ==
  ASSUME TypeInv, NEW h \in Handlers, Asked(h)
  PROVE  asks' \in 0..MaxAsks /\ asks' = asks + 1 /\ asks \in Nat /\ asks + 1 <= MaxAsks
BY ChatConstants, Parts DEF Asked

LEMMA LookTypes ==
  ASSUME TypeInv, Counted, NEW h \in Handlers, NEW m \in Ids, ReadForEdit(h, m) \/ ReadForDelete(h, m)
  PROVE  TypeInv'
<1>1. [pc |-> "edit", id |-> m] \in Task /\ [pc |-> "wipe", id |-> m] \in Task
  BY DEF Task
<1> QED BY <1>1, AskTypes, GotoTypes, Parts DEF ReadForEdit, ReadForDelete

\* One message is rewritten.
LEMMA OneRewritten ==
  ASSUME TypeOK, NEW m \in Stored, NEW n \in Message \cup {Gone}, msgs' = [msgs EXCEPT ![m] = n]
  PROVE  /\ msgs' \in Seq(Message \cup {Gone}) /\ Len(msgs') <= MaxMsgs
         /\ DOMAIN msgs' = DOMAIN msgs
         /\ msgs'[m] = n /\ \A k \in DOMAIN msgs : k # m => msgs'[k] = msgs[k]
<1>1. DOMAIN msgs' = DOMAIN msgs /\ msgs' = [k \in DOMAIN msgs |-> msgs'[k]]
  OBVIOUS
<1>2. msgs'[m] = n /\ \A k \in DOMAIN msgs : k # m => msgs'[k] = msgs[k]
  BY Lengths
<1>3. \A k \in DOMAIN msgs : msgs'[k] \in Message \cup {Gone}
  BY <1>2, Lengths
<1>4. msgs' \in Seq(Message \cup {Gone}) /\ Len(msgs') = Len(msgs)
  BY <1>1, <1>3, Rewritten
<1> QED BY <1>1, <1>2, <1>4 DEF TypeOK

LEMMA EditTypes ==
  ASSUME TypeInv, Counted, NEW h \in Handlers, SaveEdit(h)
  PROVE  TypeInv'
<1> DEFINE m == tasks[h].id
<1>1. Idle \in Task /\ m \in Ids
  BY Kinds, Parts DEF Task, SaveEdit, Holds
<1>2. CASE m \in Stored
  <2>1. [msgs[m] EXCEPT !.text = TRUE] \in Message
    <3>1. msgs[m] \in Message
      BY <1>2, Lengths, Parts
    <3> QED BY <3>1, MessageRewords
  <2>2. msgs' = [msgs EXCEPT ![m] = [msgs[m] EXCEPT !.text = TRUE]]
    BY <1>2 DEF SaveEdit
  <2>3. msgs' \in Seq(Message \cup {Gone}) /\ Len(msgs') <= MaxMsgs
    BY <1>2, <2>1, <2>2, OneRewritten, Parts
  <2>4. races' \in Races
    <3>1. races \in Races /\ [races EXCEPT !.words = @ \cup {m}] \in Races
      BY <1>1, Parts, RacesWrites
    <3> QED BY <1>2, <3>1 DEF SaveEdit
  <2> QED BY <1>1, <2>3, <2>4, GotoTypes, Parts DEF SaveEdit
<1>3. CASE m \notin Stored
  BY <1>1, <1>3, GotoTypes, Parts DEF SaveEdit
<1> QED BY <1>2, <1>3

LEMMA WipeTypes ==
  ASSUME TypeInv, Counted, NEW h \in Handlers, SaveDeletion(h)
  PROVE  TypeInv'
<1> DEFINE m == tasks[h].id
<1>1. Idle \in Task /\ m \in Ids /\ [pc |-> "tombstone", id |-> m] \in Task
  <2>1. m \in Ids
    BY Kinds, Parts DEF SaveDeletion, Holds
  <2> QED BY <2>1 DEF Task
<1>2. CASE m \in Stored
  <2>1. [msgs[m] EXCEPT !.text = FALSE, !.deleted = TRUE] \in Message
    <3>1. msgs[m] \in Message
      BY <1>2, Lengths, Parts
    <3> QED BY <3>1, MessageRewords
  <2>2. msgs' = [msgs EXCEPT ![m] = [msgs[m] EXCEPT !.text = FALSE, !.deleted = TRUE]]
    BY <1>2, Lengths, Parts DEF SaveDeletion
  <2>3. msgs' \in Seq(Message \cup {Gone}) /\ Len(msgs') <= MaxMsgs
    BY <1>2, <2>1, <2>2, OneRewritten, Parts
  <2>4. races' \in Races
    <3>1. races \in Races /\ [races EXCEPT !.words = @ \cup {m}] \in Races
      BY <1>1, Parts, RacesWrites
    <3> QED BY <1>2, <3>1 DEF SaveDeletion
  <2> QED BY <1>1, <1>2, <2>3, <2>4, GotoTypes, Parts DEF SaveDeletion
<1>3. CASE m \notin Stored
  BY <1>1, <1>3, GotoTypes, Parts DEF SaveDeletion
<1> QED BY <1>2, <1>3

LEMMA TombstoneTypes ==
  ASSUME TypeInv, Counted, NEW h \in Handlers, Tombstone(h)
  PROVE  TypeInv'
<1>1. Idle \in Task
  BY DEF Task
<1>2. conv' \in Conversation
  BY Parts DEF Tombstone, Conversation
<1> QED BY <1>1, <1>2, GotoTypes, Parts DEF Tombstone

LEMMA HideTypes ==
  ASSUME TypeInv, Counted, NEW h \in Handlers, NEW p \in People, HideAll(h, p)
  PROVE  TypeInv'
<1>1. clock' \in 0..MaxAsks
  BY AskTypes, Room DEF HideAll
<1>2. [pc |-> "forget", who |-> p, at |-> clock'] \in Task
  BY <1>1 DEF Task
<1>3. ASSUME NEW m \in DOMAIN msgs PROVE msgs'[m] \in Message \cup {Gone}
  <2>1. CASE m \notin Stored
    BY <2>1, Lengths, Parts DEF HideAll
  <2>2. CASE m \in Stored
    <3>1. [msgs[m] EXCEPT !.deletedFor = @ \cup {p}] \in Message
      BY <2>2, Lengths, Parts DEF Message
    <3> QED BY <2>2, <3>1 DEF HideAll
  <2> QED BY <2>1, <2>2
<1>4. DOMAIN msgs' = DOMAIN msgs /\ msgs' = [m \in DOMAIN msgs |-> msgs'[m]]
  BY DEF HideAll
<1>5. msgs' \in Seq(Message \cup {Gone}) /\ Len(msgs') <= MaxMsgs
  BY <1>3, <1>4, Rewritten, Parts
<1>6. races' \in Races
  BY Parts DEF HideAll, Races
<1> QED BY <1>1, <1>2, <1>5, <1>6, AskTypes, GotoTypes, Parts DEF HideAll

LEMMA DropTypes ==
  ASSUME TypeInv, Counted, NEW m \in Ids, Expire(m) \/ \E p \in People : DeleteForMe(p, m)
  PROVE  TypeInv'
<1>1. CASE Expire(m)
  <2>1. msgs' \in Seq(Message \cup {Gone}) /\ Len(msgs') <= MaxMsgs
    BY <1>1, OneRewritten, Parts DEF Expire
  <2>2. TypeOK'
    BY <1>1, <2>1, Parts, TypesStay DEF Expire
  <2> QED BY <1>1, <2>2 DEF Expire, TypeInv
<1>2. ASSUME NEW p \in People, DeleteForMe(p, m) PROVE TypeInv'
  <2>1. [msgs[m] EXCEPT !.deletedFor = @ \cup {p}] \in Message
    <3>1. msgs[m] \in Message
      BY <1>2, Lengths, Parts DEF DeleteForMe
    <3> QED BY <3>1, MessageWrites
  <2>2. msgs' = [msgs EXCEPT ![m] = [msgs[m] EXCEPT !.deletedFor = @ \cup {p}]]
    BY <1>2 DEF DeleteForMe
  <2>3. msgs' \in Seq(Message \cup {Gone}) /\ Len(msgs') <= MaxMsgs
    BY <1>2, <2>1, <2>2, OneRewritten, Parts DEF DeleteForMe
  <2>4. asks' \in 0..MaxAsks
    BY <1>2, ChatConstants, Parts DEF DeleteForMe
  <2>5. TypeOK'
    BY <1>2, <2>3, <2>4, Parts, TypesStay DEF DeleteForMe
  <2> QED BY <1>2, <2>5 DEF DeleteForMe, TypeInv
<1> QED BY <1>1, <1>2

LEMMA CutTypes ==
  ASSUME TypeInv, Counted, NEW H \in SUBSET Handlers, CutShort(H)
  PROVE  TypeInv'
<1>1. \A h \in Handlers : tasks'[h] \in Task
  BY Parts DEF CutShort, Task
<1>2. tasks' = [h \in Handlers |-> tasks'[h]]
  BY DEF CutShort
<1>3. /\ UNION {tasks[h].ids : h \in {g \in H : tasks[g] # Idle} \cap At({"reckon", "tick"})} \subseteq Ids
      /\ {tasks[h].id : h \in {g \in H : tasks[g] # Idle} \cap At({"tombstone"})} \subseteq Ids
      /\ {tasks[h].id : h \in {g \in H : tasks[g] # Idle} \cap At({"touch"})} \subseteq Ids
  BY Kinds, Parts DEF At, Holds
<1>4. races' \in Races
  BY <1>3, Parts DEF CutShort, Races
<1>5. faults' \in 0..MaxFaults
  BY ChatConstants, Parts DEF CutShort
<1>6. TypeOK'
  BY <1>1, <1>4, <1>5, Parts, TypesStay DEF CutShort
<1> QED BY <1>2, <1>6 DEF TypeInv

\* Nothing but the time of day, and nothing of that.
LEMMA RestTypes == ASSUME TypeInv, UNCHANGED vars PROVE TypeInv'
BY DEF vars, TypeInv, TypeOK, Conversation, Message, Task, Races, Senders, Ids

\* Whatever the step, everything stays well formed.
LEMMA StepTypes ==
  ASSUME TypeInv, Counted, KeptInv, TicksInv, [Next]_vars
  PROVE  TypeInv'
<1>1. ASSUME NEW h \in Handlers, NEW c \in ClientIds \cup {"none"},
             \/ \E p \in People : ReadForSend(h, p, c)
             \/ \E s \in Services : PostServiceMessage(h, s, c)
      PROVE  TypeInv'
  BY <1>1, BeginTypes DEF ReadForSend, PostServiceMessage, Senders
<1>2. ASSUME NEW h \in Handlers, NEW p \in People, MarkRead(h, p) \/ MarkDelivered(h, p)
      PROVE  TypeInv'
  BY <1>2, PendingTypes DEF MarkRead, MarkDelivered
<1>3. ASSUME CutShort(Handlers) \/ \E h \in Handlers : CutShort({h}) PROVE TypeInv'
  BY <1>3, CutTypes
<1> QED BY <1>1, <1>2, <1>3, RestTypes, CreateTypes, NoticeTypes, TouchTypes, SettingTypes, PreviewTypes,
           ReceiptTypes, ReckonTypes, TickTypes, ClearTypes, LookTypes, EditTypes, WipeTypes,
           TombstoneTypes, HideTypes, DropTypes, CutTypes
        DEF Next

-----------------------------------------------------------------------------
(* What every step leaves alone. *)

\* What no step changes in a message but by removing it, and what only grows.
Stays(m) ==
  /\ m \in DOMAIN msgs'
  /\ msgs'[m] # Gone =>
       /\ msgs[m] # Gone
       /\ msgs'[m].type = msgs[m].type /\ msgs'[m].sender = msgs[m].sender
       /\ msgs'[m].client = msgs[m].client
       /\ msgs[m].deliveredTo \subseteq msgs'[m].deliveredTo
       /\ msgs[m].readBy \subseteq msgs'[m].readBy
       /\ msgs[m].deletedFor \subseteq msgs'[m].deletedFor

LEMMA SameStays == ASSUME msgs' = msgs, NEW m \in DOMAIN msgs PROVE Stays(m)
BY DEF Stays

\* A message that a step inserts.
LEMMA Inserted ==
  ASSUME TypeInv, NEW n \in Message, msgs' = Append(msgs, n)
  PROVE  /\ DOMAIN msgs' = DOMAIN msgs \cup {Len(msgs) + 1} /\ Len(msgs) + 1 \notin DOMAIN msgs
         /\ Len(msgs') = Len(msgs) + 1 /\ msgs'[Len(msgs) + 1] = n
         /\ \A m \in DOMAIN msgs : msgs'[m] = msgs[m]
BY Parts, Lengths

LEMMA CreateInserts ==
  ASSUME TypeInv, NEW h \in Handlers, Create(h)
  PROVE  \E n \in Message :
           /\ msgs' = Append(msgs, n)
           /\ n.type = "said" /\ n.sender = tasks[h].who /\ n.client = tasks[h].client
           /\ n.status = "sent" /\ n.readBy = {} /\ n.deliveredTo = {tasks[h].who} /\ ~n.deleted
<1>1. tasks[h].who \in Senders /\ tasks[h].client \in ClientIds \cup {"none"} /\ tasks[h].expires \in BOOLEAN
  BY Kinds, Parts DEF Create, Holds
<1>2. [type |-> "said", sender |-> tasks[h].who, client |-> tasks[h].client, text |-> TRUE,
       deleted |-> FALSE, expires |-> tasks[h].expires, status |-> "sent",
       deliveredTo |-> {tasks[h].who}, readBy |-> {}, deletedFor |-> {}] \in Message
  BY <1>1 DEF Message, Statuses
<1> QED BY <1>2 DEF Create

LEMMA NoticeInserts ==
  ASSUME TypeInv, NEW h \in Handlers, CreateNotice(h)
  PROVE  \E n \in Message : msgs' = Append(msgs, n) /\ n.type = "notice" /\ ~n.deleted
<1>1. tasks[h].who \in Senders
  BY Kinds, Parts DEF CreateNotice, Holds, Senders
<1>2. [type |-> "notice", sender |-> tasks[h].who, client |-> "none", text |-> TRUE,
       deleted |-> FALSE, expires |-> FALSE, status |-> "sent",
       deliveredTo |-> {}, readBy |-> {}, deletedFor |-> {}] \in Message
  BY <1>1 DEF Message, Statuses
<1> QED BY <1>2 DEF CreateNotice

\* What AddReceipts, WriteAggregates, HideAll and the writes to one message leave.
LEMMA ReceiptSteps ==
  ASSUME TypeInv, NEW h \in Handlers, AddReceipts(h), NEW m \in DOMAIN msgs
  PROVE  /\ DOMAIN msgs' = DOMAIN msgs
         /\ m \notin tasks[h].ids \/ msgs[m] = Gone => msgs'[m] = msgs[m]
         /\ m \in tasks[h].ids /\ msgs[m] # Gone =>
              /\ msgs'[m] # Gone
              /\ msgs'[m].type = msgs[m].type /\ msgs'[m].sender = msgs[m].sender
              /\ msgs'[m].client = msgs[m].client /\ msgs'[m].status = msgs[m].status
              /\ msgs'[m].deletedFor = msgs[m].deletedFor /\ msgs'[m].deleted = msgs[m].deleted
              /\ msgs'[m].text = msgs[m].text
              /\ msgs'[m].deliveredTo = msgs[m].deliveredTo \cup {tasks[h].who}
              /\ msgs'[m].readBy =
                   (IF tasks[h].how = "read" THEN msgs[m].readBy \cup {tasks[h].who} ELSE msgs[m].readBy)
<1>1. DOMAIN msgs' = DOMAIN msgs
  BY DEF AddReceipts
<1>2. CASE m \notin tasks[h].ids \/ msgs[m] = Gone
  BY <1>1, <1>2 DEF AddReceipts, Stored
<1>3. CASE m \in tasks[h].ids /\ msgs[m] # Gone
  <2>1. msgs[m] \in Message
    BY <1>3, Lengths, Parts
  <2>2. msgs'[m] = IF tasks[h].how = "read"
                   THEN [msgs[m] EXCEPT !.readBy = @ \cup {tasks[h].who}, !.deliveredTo = @ \cup {tasks[h].who}]
                   ELSE [msgs[m] EXCEPT !.deliveredTo = @ \cup {tasks[h].who}]
    BY <1>3 DEF AddReceipts, Stored
  <2> QED BY <1>1, <1>3, <2>1, <2>2 DEF Message, Gone
<1> QED BY <1>2, <1>3

LEMMA TickSteps ==
  ASSUME TypeInv, NEW h \in Handlers, WriteAggregates(h), NEW m \in DOMAIN msgs
  PROVE  /\ DOMAIN msgs' = DOMAIN msgs
         /\ m \notin tasks[h].ids \/ msgs[m] = Gone => msgs'[m] = msgs[m]
         /\ m \in tasks[h].ids /\ msgs[m] # Gone =>
              /\ msgs'[m] # Gone
              /\ msgs'[m].type = msgs[m].type /\ msgs'[m].sender = msgs[m].sender
              /\ msgs'[m].client = msgs[m].client /\ msgs'[m].status = tasks[h].next[m]
              /\ msgs'[m].deletedFor = msgs[m].deletedFor /\ msgs'[m].deleted = msgs[m].deleted
              /\ msgs'[m].text = msgs[m].text
              /\ msgs'[m].deliveredTo = msgs[m].deliveredTo /\ msgs'[m].readBy = msgs[m].readBy
<1>1. DOMAIN msgs' = DOMAIN msgs
  BY DEF WriteAggregates
<1>2. CASE m \notin tasks[h].ids \/ msgs[m] = Gone
  BY <1>1, <1>2 DEF WriteAggregates, Stored
<1>3. CASE m \in tasks[h].ids /\ msgs[m] # Gone
  <2>1. msgs[m] \in Message
    BY <1>3, Lengths, Parts
  <2>2. msgs'[m] = [msgs[m] EXCEPT !.status = tasks[h].next[m]]
    BY <1>3 DEF WriteAggregates, Stored
  <2> QED BY <1>1, <1>3, <2>1, <2>2 DEF Message, Gone
<1> QED BY <1>2, <1>3

LEMMA HideSteps ==
  ASSUME TypeInv, NEW h \in Handlers, NEW p \in People, HideAll(h, p), NEW m \in DOMAIN msgs
  PROVE  /\ DOMAIN msgs' = DOMAIN msgs
         /\ msgs[m] = Gone => msgs'[m] = msgs[m]
         /\ msgs[m] # Gone =>
              /\ msgs'[m] # Gone
              /\ msgs'[m].type = msgs[m].type /\ msgs'[m].sender = msgs[m].sender
              /\ msgs'[m].client = msgs[m].client /\ msgs'[m].status = msgs[m].status
              /\ msgs'[m].deletedFor = msgs[m].deletedFor \cup {p} /\ msgs'[m].deleted = msgs[m].deleted
              /\ msgs'[m].text = msgs[m].text
              /\ msgs'[m].deliveredTo = msgs[m].deliveredTo /\ msgs'[m].readBy = msgs[m].readBy
<1>1. DOMAIN msgs' = DOMAIN msgs
  BY DEF HideAll
<1>2. CASE msgs[m] = Gone
  BY <1>1, <1>2 DEF HideAll, Stored
<1>3. CASE msgs[m] # Gone
  <2>1. msgs[m] \in Message
    BY <1>3, Lengths, Parts
  <2>2. msgs'[m] = [msgs[m] EXCEPT !.deletedFor = @ \cup {p}]
    BY <1>3 DEF HideAll, Stored
  <2> QED BY <1>1, <1>3, <2>1, <2>2 DEF Message, Gone
<1> QED BY <1>2, <1>3

\* One message is given other words, or is hidden from somebody.
Reworded(m, text, deleted, hidden) ==
  /\ m \in Stored /\ DOMAIN msgs' = DOMAIN msgs
  /\ \A k \in DOMAIN msgs : k # m => msgs'[k] = msgs[k]
  /\ msgs'[m] # Gone
  /\ msgs'[m].type = msgs[m].type /\ msgs'[m].sender = msgs[m].sender
  /\ msgs'[m].client = msgs[m].client /\ msgs'[m].status = msgs[m].status
  /\ msgs'[m].deliveredTo = msgs[m].deliveredTo /\ msgs'[m].readBy = msgs[m].readBy
  /\ msgs'[m].text = text /\ msgs'[m].deleted = deleted /\ msgs'[m].deletedFor = hidden

LEMMA RewordSteps ==
  ASSUME TypeInv
  PROVE  /\ \A h \in Handlers : SaveEdit(h) /\ tasks[h].id \in Stored =>
              Reworded(tasks[h].id, TRUE, msgs[tasks[h].id].deleted, msgs[tasks[h].id].deletedFor)
         /\ \A h \in Handlers : SaveDeletion(h) /\ tasks[h].id \in Stored =>
              Reworded(tasks[h].id, FALSE, TRUE, msgs[tasks[h].id].deletedFor)
         /\ \A p \in People, m \in Ids : DeleteForMe(p, m) =>
              Reworded(m, msgs[m].text, msgs[m].deleted, msgs[m].deletedFor \cup {p})
<1>1. ASSUME NEW m \in Stored
      PROVE  /\ m \in DOMAIN msgs /\ msgs[m] \in Message
             /\ \A n : msgs' = [msgs EXCEPT ![m] = n] =>
                  /\ DOMAIN msgs' = DOMAIN msgs /\ msgs'[m] = n
                  /\ \A k \in DOMAIN msgs : k # m => msgs'[k] = msgs[k]
  BY <1>1, Lengths, Parts
<1>2. ASSUME NEW h \in Handlers, SaveEdit(h), tasks[h].id \in Stored
      PROVE  Reworded(tasks[h].id, TRUE, msgs[tasks[h].id].deleted, msgs[tasks[h].id].deletedFor)
  <2>1. PICK m \in Stored : m = tasks[h].id
    BY <1>2
  <2>2. msgs' = [msgs EXCEPT ![m] = [msgs[m] EXCEPT !.text = TRUE]]
    BY <1>2, <2>1 DEF SaveEdit
  <2>3. msgs'[m] = [msgs[m] EXCEPT !.text = TRUE] /\ msgs[m] \in Message
    BY <1>1, <2>2
  <2> QED BY <1>1, <2>1, <2>2, <2>3 DEF Reworded, Message, Gone
<1>3. ASSUME NEW h \in Handlers, SaveDeletion(h), tasks[h].id \in Stored
      PROVE  Reworded(tasks[h].id, FALSE, TRUE, msgs[tasks[h].id].deletedFor)
  <2>1. PICK m \in Stored : m = tasks[h].id
    BY <1>3
  <2>2. msgs' = [msgs EXCEPT ![m] = [msgs[m] EXCEPT !.text = FALSE, !.deleted = TRUE]]
    BY <1>1, <1>3, <2>1 DEF SaveDeletion
  <2>3. msgs'[m] = [msgs[m] EXCEPT !.text = FALSE, !.deleted = TRUE] /\ msgs[m] \in Message
    BY <1>1, <2>2
  <2>4. /\ msgs'[m].text = FALSE /\ msgs'[m].deleted = TRUE
        /\ msgs'[m].type = msgs[m].type /\ msgs'[m].sender = msgs[m].sender
        /\ msgs'[m].client = msgs[m].client /\ msgs'[m].status = msgs[m].status
        /\ msgs'[m].deliveredTo = msgs[m].deliveredTo /\ msgs'[m].readBy = msgs[m].readBy
        /\ msgs'[m].deletedFor = msgs[m].deletedFor
    BY <2>3 DEF Message
  <2>5. msgs'[m] \in Message
    BY <2>3, MessageRewords
  <2>6. msgs'[m] # Gone
    BY <2>5, GoneIsNone
  <2>7. DOMAIN msgs' = DOMAIN msgs /\ \A k \in DOMAIN msgs : k # m => msgs'[k] = msgs[k]
    BY <1>1, <2>2
  <2> QED BY <2>1, <2>4, <2>6, <2>7 DEF Reworded
<1>4. ASSUME NEW p \in People, NEW m \in Ids, DeleteForMe(p, m)
      PROVE  Reworded(m, msgs[m].text, msgs[m].deleted, msgs[m].deletedFor \cup {p})
  <2>1. m \in Stored /\ msgs' = [msgs EXCEPT ![m] = [msgs[m] EXCEPT !.deletedFor = @ \cup {p}]]
    BY <1>4 DEF DeleteForMe
  <2>2. msgs'[m] = [msgs[m] EXCEPT !.deletedFor = @ \cup {p}] /\ msgs[m] \in Message
    BY <1>1, <2>1
  <2> QED BY <1>1, <2>1, <2>2 DEF Reworded, Message, Gone
<1> QED BY <1>2, <1>3, <1>4

LEMMA ExpireSteps ==
  ASSUME TypeInv, NEW m \in Ids, Expire(m)
  PROVE  /\ m \in Stored /\ DOMAIN msgs' = DOMAIN msgs /\ msgs'[m] = Gone
         /\ \A k \in DOMAIN msgs : k # m => msgs'[k] = msgs[k]
BY Lengths, Parts DEF Expire

\* Every message is where it was, with no fewer receipts, or is gone.
LEMMA MessagesStay ==
  ASSUME TypeInv, [Next]_vars, NEW m \in DOMAIN msgs
  PROVE  Stays(m)
<1>1. ASSUME NEW n \in Message, msgs' = Append(msgs, n) PROVE Stays(m)
  BY <1>1, Inserted DEF Stays
<1>2. ASSUME NEW k, NEW a, NEW b, NEW c, Reworded(k, a, b, c), msgs[k].deletedFor \subseteq c PROVE Stays(m)
  BY <1>2 DEF Reworded, Stays, Stored
<1>3. ASSUME NEW h \in Handlers, SaveEdit(h) \/ SaveDeletion(h) PROVE Stays(m)
  BY <1>2, <1>3, SameStays, RewordSteps DEF SaveEdit, SaveDeletion
<1>4. ASSUME NEW p \in People, NEW k \in Ids, DeleteForMe(p, k) PROVE Stays(m)
  <2>1. Reworded(k, msgs[k].text, msgs[k].deleted, msgs[k].deletedFor \cup {p})
    BY <1>4, RewordSteps
  <2> QED BY <2>1, <1>2
<1>5. ASSUME NEW k \in Ids, Expire(k) PROVE Stays(m)
  BY <1>5, ExpireSteps DEF Stays
<1>6. ASSUME NEW h \in Handlers, AddReceipts(h) PROVE Stays(m)
  BY <1>6, ReceiptSteps DEF Stays
<1>8. ASSUME NEW h \in Handlers, WriteAggregates(h) PROVE Stays(m)
  BY <1>8, TickSteps DEF Stays
<1>9. ASSUME NEW h \in Handlers, NEW p \in People, HideAll(h, p) PROVE Stays(m)
  BY <1>9, HideSteps DEF Stays
<1>7. ASSUME NEW h \in Handlers, Create(h) \/ CreateNotice(h) PROVE Stays(m)
  BY <1>1, <1>7, CreateInserts, NoticeInserts
<1> QED BY <1>3, <1>4, <1>5, <1>6, <1>7, <1>8, <1>9, SameStays
        DEF Next, vars, ReadForSend, PostServiceMessage, Begin, SetDisappearing, MarkRead,
            MarkDelivered, FindPending, ReadForEdit, ReadForDelete, TouchLastMessage, PreviewNotice,
            ReadForAggregates, ClearUnread, Tombstone, ForgetChat, CutShort


-----------------------------------------------------------------------------
(* Instants and places. *)

LEMMA CountedLess ==
  ASSUME TypeInv, Counted, Creating' \subseteq Creating, Touching' \subseteq Touching,
         clock' = clock, asks' \in Nat, asks <= asks', Len(msgs') = Len(msgs),
         \A p \in People : conv'.unread[p] \in Nat /\ conv'.unread[p] <= conv.unread[p]
  PROVE  Counted'
<1>1. /\ IsFiniteSet(Creating') /\ Cardinality(Creating') <= Cardinality(Creating)
      /\ IsFiniteSet(Touching') /\ Cardinality(Touching') <= Cardinality(Touching)
      /\ Cardinality(Creating) \in Nat /\ Cardinality(Creating') \in Nat
      /\ Cardinality(Touching) \in Nat /\ Cardinality(Touching') \in Nat
  BY FS_Subset, FS_CardinalityType DEF Counted
<1>2. clock \in Nat /\ asks \in Nat /\ Len(msgs) \in Nat /\ \A p \in People : conv.unread[p] \in Nat
  BY Room, Parts, Lengths
<1>3. clock' + Cardinality(Creating') <= asks'
  BY <1>1, <1>2 DEF Counted
<1>4. ASSUME NEW p \in People PROVE conv'.unread[p] + Cardinality(Touching') <= Len(msgs')
  <2>1. conv.unread[p] + Cardinality(Touching) <= Len(msgs)
    BY DEF Counted
  <2>2. conv'.unread[p] \in Nat /\ conv'.unread[p] <= conv.unread[p]
    OBVIOUS
  <2> QED BY <1>1, <1>2, <2>1, <2>2
<1> QED BY <1>1, <1>3, <1>4 DEF Counted

LEMMA BeginCounted ==
  ASSUME TypeInv, Counted, NEW h \in Handlers, tasks[h] = Idle, NEW next, Goto(h, next),
         next.pc \in {"create", "notice"}, asks' = asks + 1, msgs' = msgs, clock' = clock,
         conv'.unread = conv.unread
  PROVE  Counted'
<1>1. tasks'[h] = next /\ \A g \in Handlers : g # h => tasks'[g] = tasks[g]
  BY Moved DEF TypeInv
<1>2. Creating' = Creating \cup {h} /\ h \notin Creating /\ Touching' = Touching
  BY <1>1 DEF Creating, Touching, At, Idle
<1>3. IsFiniteSet(Creating') /\ Cardinality(Creating') = Cardinality(Creating) + 1
  BY <1>2, FS_AddElement DEF Counted
<1>4. Cardinality(Creating) \in Nat /\ clock \in Nat /\ asks \in Nat
  BY Room
<1> QED BY <1>2, <1>3, <1>4 DEF Counted

LEMMA InsertCounted ==
  ASSUME TypeInv, Counted, NEW h \in Handlers, tasks[h].pc \in {"create", "notice"},
         NEW next, Goto(h, next), next.pc \in {"touch", "preview"}, asks' = asks,
         NEW n \in Message, msgs' = Append(msgs, n), clock' = clock + 1, conv' = conv
  PROVE  Counted'
<1>1. tasks'[h] = next /\ \A g \in Handlers : g # h => tasks'[g] = tasks[g]
  BY Moved DEF TypeInv
<1>2. Creating' = Creating \ {h} /\ h \in Creating /\ Touching' \subseteq Touching \cup {h} /\ h \notin Touching
  BY <1>1 DEF Creating, Touching, At
<1>3. IsFiniteSet(Creating') /\ Cardinality(Creating') = Cardinality(Creating) - 1
  BY <1>2, FS_RemoveElement DEF Counted
<1>4. /\ IsFiniteSet(Touching \cup {h})
      /\ Cardinality(Touching \cup {h}) = Cardinality(Touching) + 1
  BY <1>2, FS_AddElement DEF Counted
<1>5. IsFiniteSet(Touching') /\ Cardinality(Touching') <= Cardinality(Touching \cup {h})
  BY <1>2, <1>4, FS_Subset
<1>6. /\ Cardinality(Creating) \in Nat /\ clock \in Nat /\ asks \in Nat /\ Cardinality(Touching) \in Nat
      /\ Cardinality(Touching') \in Nat
  BY <1>5, Room, FS_CardinalityType
<1>7. Len(msgs') = Len(msgs) + 1 /\ Len(msgs) \in Nat
  BY Inserted, Lengths, Parts
<1>8. \A p \in People : conv.unread[p] \in Nat
  BY Room
<1>9. clock' + Cardinality(Creating') <= asks'
  BY <1>3, <1>6 DEF Counted
<1>10. ASSUME NEW p \in People PROVE conv'.unread[p] + Cardinality(Touching') <= Len(msgs')
  <2>1. conv.unread[p] + Cardinality(Touching) <= Len(msgs) /\ conv.unread[p] \in Nat
    BY <1>8 DEF Counted
  <2> QED BY <2>1, <1>4, <1>5, <1>6, <1>7
<1> QED BY <1>3, <1>5, <1>9, <1>10 DEF Counted

LEMMA TouchCounted ==
  ASSUME TypeInv, Counted, NEW h \in Handlers, TouchLastMessage(h)
  PROVE  Counted'
<1>1. tasks'[h] = Idle /\ \A g \in Handlers : g # h => tasks'[g] = tasks[g]
  BY Moved DEF TypeInv, TouchLastMessage
<1>2. Touching' = Touching \ {h} /\ h \in Touching /\ Creating' = Creating
  BY <1>1 DEF Creating, Touching, At, Idle, TouchLastMessage
<1>3. IsFiniteSet(Touching') /\ Cardinality(Touching') = Cardinality(Touching) - 1
  BY <1>2, FS_RemoveElement DEF Counted
<1>4. Cardinality(Touching) \in Nat /\ Len(msgs) \in Nat
  BY Room, Parts, Lengths
<1>5. UNCHANGED <<msgs, clock, asks>>
  BY DEF TouchLastMessage
<1>6. ASSUME NEW p \in People PROVE conv'.unread[p] + Cardinality(Touching') <= Len(msgs')
  <2>1. conv.unread[p] + Cardinality(Touching) <= Len(msgs) /\ conv.unread[p] \in Nat
    BY Room DEF Counted
  <2>2. conv'.unread[p] = conv.unread[p] \/ conv'.unread[p] = conv.unread[p] + 1
    BY Parts DEF TouchLastMessage, Touched, Conversation
  <2> QED BY <2>1, <2>2, <1>3, <1>4, <1>5
<1> QED BY <1>2, <1>3, <1>5, <1>6 DEF Counted

LEMMA HideCounted ==
  ASSUME TypeInv, Counted, NEW h \in Handlers, NEW p \in People, HideAll(h, p)
  PROVE  Counted'
<1>1. tasks'[h] = [pc |-> "forget", who |-> p, at |-> clock'] /\ \A g \in Handlers : g # h => tasks'[g] = tasks[g]
  BY Moved DEF TypeInv, HideAll
<1>2. Touching' = Touching /\ Creating' = Creating
  BY <1>1 DEF Creating, Touching, At, Idle, HideAll, Asked
<1>3. Cardinality(Creating) \in Nat /\ clock \in Nat /\ asks \in Nat
  BY Room
<1>4. Len(msgs') = Len(msgs)
  BY Parts, Lengths DEF HideAll
<1>5. conv' = conv /\ clock' = clock + 1 /\ asks' = asks + 1
  BY DEF HideAll, Asked
<1> QED BY <1>2, <1>3, <1>4, <1>5 DEF Counted

\* The other steps begin no insertion, count nothing and insert nothing.
LEMMA QuietCounted ==
  ASSUME TypeInv, Counted, NEW h \in Handlers, NEW next, Goto(h, next),
         next.pc \notin {"create", "notice", "touch"},
         clock' = clock, asks' = asks \/ asks' = asks + 1, Len(msgs') = Len(msgs),
         \A p \in People : conv'.unread[p] = conv.unread[p] \/ conv'.unread[p] = 0
  PROVE  Counted'
<1>1. tasks'[h] = next /\ \A g \in Handlers : g # h => tasks'[g] = tasks[g]
  BY Moved DEF TypeInv
<1>2. Touching' \subseteq Touching /\ Creating' \subseteq Creating
  BY <1>1 DEF Creating, Touching, At
<1>3. asks' \in Nat /\ asks <= asks'
  BY Room
<1>4. \A p \in People : conv'.unread[p] \in Nat /\ conv'.unread[p] <= conv.unread[p]
  BY Room
<1> QED BY <1>2, <1>3, <1>4, CountedLess

LEMMA FreeCounted ==
  ASSUME TypeInv, Counted, tasks' = tasks, conv' = conv, clock' = clock, asks' = asks \/ asks' = asks + 1,
         Len(msgs') = Len(msgs)
  PROVE  Counted'
<1>1. Touching' = Touching /\ Creating' = Creating
  BY DEF Creating, Touching, At
<1>2. clock \in Nat /\ asks \in Nat /\ Cardinality(Creating) \in Nat
  BY Room
<1> QED BY <1>1, <1>2 DEF Counted

LEMMA SameLength == ASSUME TypeInv, TypeInv', DOMAIN msgs' = DOMAIN msgs PROVE Len(msgs') = Len(msgs)
<1>1. msgs' \in Seq(Message' \cup {Gone})
  BY DEF TypeInv, TypeOK, Gone
<1>2. Len(msgs') \in Nat /\ DOMAIN msgs' = 1..Len(msgs')
  BY <1>1
<1> QED BY <1>2, Lengths, Parts

LEMMA StepCounted ==
  ASSUME TypeInv, TypeInv', Counted, [Next]_vars
  PROVE  Counted'
<1>1. ASSUME NEW h \in Handlers, NEW p, NEW c, Begin(h, p, c) PROVE Counted'
  BY <1>1, BeginCounted DEF Begin, Asked
<1>2. ASSUME NEW h \in Handlers, NEW p \in People, NEW on \in BOOLEAN, SetDisappearing(h, p, on) PROVE Counted'
  <2>1. conv'.unread = conv.unread
    BY <1>2, Parts DEF SetDisappearing, Conversation
  <2> QED BY <1>2, <2>1, BeginCounted DEF SetDisappearing, Asked
<1>3. ASSUME NEW h \in Handlers, Create(h) PROVE Counted'
  <2>1. PICK n \in Message : msgs' = Append(msgs, n)
    BY <1>3, CreateInserts
  <2> QED BY <1>3, <2>1, InsertCounted DEF Create
<1>4. ASSUME NEW h \in Handlers, CreateNotice(h) PROVE Counted'
  <2>1. PICK n \in Message : msgs' = Append(msgs, n)
    BY <1>4, NoticeInserts
  <2> QED BY <1>4, <2>1, InsertCounted DEF CreateNotice
<1>5. ASSUME NEW h \in Handlers, NEW p \in People, NEW how, FindPending(h, p, how) PROVE Counted'
  <2>1. PICK next : Goto(h, next) /\ next.pc \in {"clear", "receive"}
    BY <1>5 DEF FindPending
  <2> QED BY <1>5, <2>1, QuietCounted DEF FindPending, Asked
<1>6. ASSUME NEW h \in Handlers, NEW m \in Ids, ReadForEdit(h, m) \/ ReadForDelete(h, m) PROVE Counted'
  <2>1. PICK next : Goto(h, next) /\ next.pc \in {"edit", "wipe"}
    BY <1>6 DEF ReadForEdit, ReadForDelete
  <2> QED BY <1>6, <2>1, QuietCounted DEF ReadForEdit, ReadForDelete, Asked
<1>7. ASSUME NEW h \in Handlers, PreviewNotice(h) PROVE Counted'
  <2>1. conv'.unread = conv.unread /\ Idle.pc = "idle"
    BY <1>7, Parts DEF PreviewNotice, Conversation, Idle
  <2> QED BY <1>7, <2>1, QuietCounted DEF PreviewNotice
<1>8. ASSUME NEW h \in Handlers, AddReceipts(h) PROVE Counted'
  <2>1. Len(msgs') = Len(msgs)
    BY <1>8, SameLength DEF AddReceipts
  <2>2. [tasks[h] EXCEPT !.pc = "reckon"].pc = "reckon"
    BY <1>8, Records, Parts DEF AddReceipts, Holds
  <2> QED BY <1>8, <2>1, <2>2, QuietCounted DEF AddReceipts
<1>9. ASSUME NEW h \in Handlers, ReadForAggregates(h) PROVE Counted'
  <2>1. PICK next : Goto(h, next) /\ next.pc = "tick"
    BY <1>9 DEF ReadForAggregates
  <2> QED BY <1>9, <2>1, QuietCounted DEF ReadForAggregates
<1>10. ASSUME NEW h \in Handlers, WriteAggregates(h) PROVE Counted'
  <2>1. Len(msgs') = Len(msgs)
    BY <1>10, SameLength DEF WriteAggregates
  <2>2. PICK next : Goto(h, next) /\ next.pc \in {"clear", "idle"}
    BY <1>10 DEF WriteAggregates, Idle
  <2> QED BY <1>10, <2>1, <2>2, QuietCounted DEF WriteAggregates
<1>11. ASSUME NEW h \in Handlers, ClearUnread(h) \/ ForgetChat(h) \/ Tombstone(h) PROVE Counted'
  <2>1. Goto(h, Idle) /\ Idle.pc = "idle" /\ UNCHANGED <<msgs, clock, asks>>
    BY <1>11 DEF ClearUnread, ForgetChat, Tombstone, Idle
  <2>2. \A p \in People : conv'.unread[p] = conv.unread[p] \/ conv'.unread[p] = 0
    BY <1>11, Parts DEF ClearUnread, ForgetChat, Tombstone, Conversation
  <2> QED BY <2>1, <2>2, QuietCounted
<1>12. ASSUME NEW h \in Handlers, SaveEdit(h) \/ SaveDeletion(h) PROVE Counted'
  <2>1. PICK next : Goto(h, next) /\ next.pc \in {"idle", "tombstone"}
    BY <1>12 DEF SaveEdit, SaveDeletion, Idle
  <2>2. Len(msgs') = Len(msgs)
    BY <1>12, Lengths, Parts DEF SaveEdit, SaveDeletion
  <2> QED BY <1>12, <2>1, <2>2, QuietCounted DEF SaveEdit, SaveDeletion
<1>13. ASSUME NEW m \in Ids, Expire(m) \/ \E p \in People : DeleteForMe(p, m) PROVE Counted'
  <2>1. Len(msgs') = Len(msgs)
    BY <1>13, Lengths, Parts DEF Expire, DeleteForMe
  <2> QED BY <1>13, <2>1, FreeCounted DEF Expire, DeleteForMe
<1>14. ASSUME NEW H, CutShort(H) PROVE Counted'
  <2>1. Touching' \subseteq Touching /\ Creating' \subseteq Creating
    BY <1>14 DEF CutShort, Creating, Touching, At, Idle
  <2> QED BY <1>14, <2>1, CountedLess, Room DEF CutShort
<1>15. CASE UNCHANGED vars
  BY <1>15, FreeCounted DEF vars
<1> QED BY <1>1, <1>2, <1>3, <1>4, <1>5, <1>6, <1>7, <1>8, <1>9, <1>10, <1>11, <1>12, <1>13, <1>14, <1>15,
           TouchCounted, HideCounted
        DEF Next, ReadForSend, PostServiceMessage, MarkRead, MarkDelivered

-----------------------------------------------------------------------------
(* What a request still finds of what it read. *)

\* Messages stay, and a request that has not moved still finds them.
LEMMA KeptBefore ==
  ASSUME TypeInv, \A m \in DOMAIN msgs : Stays(m), NEW h \in Handlers, Kept(h), tasks'[h] = tasks[h]
  PROVE  /\ ReceivesOthers(h)' /\ HasId(h)'
         /\ Holds(h, "touch") => tasks'[h].id \in DOMAIN msgs'
                /\ (msgs'[tasks'[h].id] # Gone =>
                      msgs'[tasks'[h].id].type = "said" /\ msgs'[tasks'[h].id].sender = tasks'[h].who)
BY DEF Kept, TouchesOwn, ReceivesOthers, HasId, Stays, Holds

\* One request takes a step that counts no message of somebody else's.
LEMMA KeptAfter ==
  ASSUME TypeInv, KeptInv, \A m \in DOMAIN msgs : Stays(m),
         NEW H \in SUBSET Handlers,
         \A g \in Handlers : g \notin H => tasks'[g] = tasks[g],
         \A h \in H : ReceivesOthers(h)' /\ HasId(h)' /\ tasks'[h].pc # "touch"
  PROVE  KeptInv'
<1>1. ASSUME NEW g \in Handlers PROVE Kept(g)'
  <2>1. CASE g \in H
    BY <2>1 DEF Kept, TouchesOwn, Holds
  <2>2. CASE g \notin H
    <3>1. ReceivesOthers(g)' /\ HasId(g)'
      BY <2>2, KeptBefore DEF KeptInv
    <3>2. TouchesOwn(g)'
      <4>1. ASSUME NEW k \in Handlers, tasks'[k].pc = "touch" PROVE k \notin H /\ tasks'[k] = tasks[k]
        BY <4>1
      <4>2. TouchesOwn(g)
        BY DEF KeptInv, Kept
      <4> QED BY <2>2, <4>1, <4>2, KeptBefore DEF KeptInv, TouchesOwn, Holds
    <3> QED BY <3>1, <3>2 DEF Kept
  <2> QED BY <2>1, <2>2
<1> QED BY <1>1 DEF KeptInv

LEMMA CreateKept ==
  ASSUME TypeInv, KeptInv, \A m \in DOMAIN msgs : Stays(m), NEW h \in Handlers, Create(h)
  PROVE  KeptInv'
<1>1. tasks'[h] = [pc |-> "touch", id |-> Len(msgs) + 1, who |-> tasks[h].who, at |-> clock']
      /\ \A g \in Handlers : g # h => tasks'[g] = tasks[g]
  BY Moved DEF TypeInv, Create
<1>2. PICK n \in Message : msgs' = Append(msgs, n) /\ n.type = "said" /\ n.sender = tasks[h].who
  BY CreateInserts
<1>3. /\ Len(msgs) + 1 \in DOMAIN msgs' /\ Len(msgs) + 1 \notin DOMAIN msgs
      /\ msgs'[Len(msgs) + 1] = n
  BY <1>2, Inserted
<1>4. ASSUME NEW g \in Handlers, g # h, Holds(g, "touch") PROVE tasks[g].id # Len(msgs) + 1
  BY <1>3, <1>4 DEF KeptInv, Kept, TouchesOwn
<1>5. Kept(h)'
  BY <1>1, <1>2, <1>3, <1>4 DEF Kept, TouchesOwn, ReceivesOthers, HasId, Holds
<1>6. ASSUME NEW g \in Handlers, g # h PROVE Kept(g)'
  <2>1. ReceivesOthers(g)' /\ HasId(g)'
    BY <1>1, <1>6, KeptBefore DEF KeptInv
  <2>2. TouchesOwn(g)'
    <3>1. TouchesOwn(g) /\ tasks'[g] = tasks[g] /\ tasks'[h].id = Len(msgs) + 1
      BY <1>1, <1>6 DEF KeptInv, Kept
    <3>2. Holds(g, "touch") => tasks'[g].id # tasks'[h].id
      BY <1>4, <1>6, <3>1
    <3> QED BY <1>1, <1>6, <3>1, <3>2, KeptBefore DEF KeptInv, TouchesOwn, Holds
  <2> QED BY <2>1, <2>2 DEF Kept
<1> QED BY <1>5, <1>6 DEF KeptInv

\* The steps of one request that keep no more than they had, or ask for what is stored.
LEMMA MovesKept ==
  ASSUME TypeInv, KeptInv, \A m \in DOMAIN msgs : Stays(m), NEW h \in Handlers, NEW next, Goto(h, next),
         next.pc # "touch",
         next.pc \in {"preview", "edit", "wipe", "tombstone"} => next.id \in DOMAIN msgs',
         next.pc \in {"receive", "reckon", "tick"} =>
           \A m \in next.ids : m \in DOMAIN msgs /\
              (msgs[m] # Gone => msgs[m].type = "said" /\ msgs[m].sender # next.who)
  PROVE  KeptInv'
<1>1. tasks'[h] = next /\ \A g \in Handlers : g # h => tasks'[g] = tasks[g]
  BY Moved DEF TypeInv
<1>2. HasId(h)'
  BY <1>1 DEF HasId
<1>3. ReceivesOthers(h)'
  BY <1>1 DEF ReceivesOthers, Stays
<1>4. \A g \in Handlers : g \notin {h} => tasks'[g] = tasks[g]
  BY <1>1
<1>5. \A g \in {h} : ReceivesOthers(g)' /\ HasId(g)' /\ tasks'[g].pc # "touch"
  BY <1>1, <1>2, <1>3
<1>6. {h} \in SUBSET Handlers
  OBVIOUS
<1> QED BY <1>4, <1>5, <1>6, KeptAfter

LEMMA CutKept ==
  ASSUME TypeInv, KeptInv, \A m \in DOMAIN msgs : Stays(m), NEW H \in SUBSET Handlers, CutShort(H)
  PROVE  KeptInv'
<1>1. \A h \in H : tasks'[h] = Idle
  BY DEF CutShort
<1>2. \A g \in Handlers : g \notin H => tasks'[g] = tasks[g]
  BY DEF CutShort
<1>3. \A h \in H : ReceivesOthers(h)' /\ HasId(h)' /\ tasks'[h].pc # "touch"
  BY <1>1 DEF ReceivesOthers, HasId, Idle
<1> QED BY <1>2, <1>3, KeptAfter

LEMMA StepKept ==
  ASSUME TypeInv, KeptInv, [Next]_vars
  PROVE  KeptInv'
<1> USE MessagesStay
<1>0. \A m \in DOMAIN msgs : Stays(m)
  OBVIOUS
<1>1. ASSUME NEW h \in Handlers, NEW p, NEW c, Begin(h, p, c) PROVE KeptInv'
  BY <1>0, <1>1, MovesKept DEF Begin
<1>2. ASSUME NEW h \in Handlers, NEW p, NEW on, SetDisappearing(h, p, on) PROVE KeptInv'
  BY <1>0, <1>2, MovesKept DEF SetDisappearing
<1>3. ASSUME NEW h \in Handlers, CreateNotice(h) PROVE KeptInv'
  <2>1. PICK n \in Message : msgs' = Append(msgs, n)
    BY <1>3, NoticeInserts
  <2>2. Len(msgs) + 1 \in DOMAIN msgs'
    BY <2>1, Inserted
  <2> QED BY <1>0, <1>3, <2>2, MovesKept DEF CreateNotice
<1>4. ASSUME NEW h \in Handlers, NEW p \in People, NEW how, FindPending(h, p, how) PROVE KeptInv'
  <2>1. CASE Pending(p, how) = {}
    BY <1>0, <1>4, <2>1, MovesKept DEF FindPending
  <2>2. CASE Pending(p, how) # {}
    <3>1. Goto(h, [pc |-> "receive", how |-> how, who |-> p, ids |-> Pending(p, how)])
      BY <1>4, <2>2 DEF FindPending
    <3>2. \A m \in Pending(p, how) : m \in DOMAIN msgs /\ msgs[m].type = "said" /\ msgs[m].sender # p
      BY DEF Pending, Said, Stored
    <3> QED BY <1>0, <3>1, <3>2, MovesKept
  <2> QED BY <2>1, <2>2
<1>5. ASSUME NEW h \in Handlers, NEW m \in Ids, ReadForEdit(h, m) \/ ReadForDelete(h, m) PROVE KeptInv'
  <2>1. PICK next : Goto(h, next) /\ next.pc \in {"edit", "wipe"} /\ next.id = m
    BY <1>5 DEF ReadForEdit, ReadForDelete
  <2>2. m \in DOMAIN msgs'
    BY <1>5 DEF ReadForEdit, ReadForDelete, Stored
  <2> QED BY <1>0, <2>1, <2>2, MovesKept
<1>6. ASSUME NEW h \in Handlers, AddReceipts(h) PROVE KeptInv'
  <2>1. PICK next : Goto(h, next) /\ next.pc = "reckon" /\ next.ids = tasks[h].ids /\ next.who = tasks[h].who
    <3>1. tasks[h] \in [pc : {"receive", "reckon"}, how : {"delivered", "read"}, who : People, ids : SUBSET Ids]
      BY <1>6, Records, Parts DEF AddReceipts, Holds
    <3> WITNESS [tasks[h] EXCEPT !.pc = "reckon"]
    <3> QED BY <1>6, <3>1 DEF AddReceipts
  <2>2. ReceivesOthers(h) /\ tasks[h].pc = "receive"
    BY <1>6 DEF KeptInv, Kept, AddReceipts
  <2> QED BY <1>0, <2>1, <2>2, MovesKept DEF ReceivesOthers
<1>7. ASSUME NEW h \in Handlers, ReadForAggregates(h) PROVE KeptInv'
  <2>1. PICK next : Goto(h, next) /\ next.pc = "tick" /\ next.ids \subseteq tasks[h].ids /\ next.who = tasks[h].who
    BY <1>7 DEF ReadForAggregates
  <2>2. ReceivesOthers(h) /\ tasks[h].pc = "reckon"
    BY <1>7 DEF KeptInv, Kept, ReadForAggregates
  <2> QED BY <1>0, <2>1, <2>2, MovesKept DEF ReceivesOthers
<1>8. ASSUME NEW h \in Handlers, WriteAggregates(h) PROVE KeptInv'
  <2>1. PICK next : Goto(h, next) /\ next.pc \in {"clear", "idle"}
    BY <1>8 DEF WriteAggregates, Idle
  <2> QED BY <1>0, <2>1, MovesKept
<1>9. ASSUME NEW h \in Handlers, SaveDeletion(h) PROVE KeptInv'
  <2>1. PICK next : Goto(h, next) /\ next.pc \in {"idle", "tombstone"} /\ (next.pc = "tombstone" => next.id = tasks[h].id)
    BY <1>9 DEF SaveDeletion, Idle
  <2>2. tasks[h].id \in DOMAIN msgs'
    BY <1>0, <1>9 DEF KeptInv, Kept, HasId, SaveDeletion, Stays
  <2> QED BY <1>0, <2>1, <2>2, MovesKept
<1>10. ASSUME NEW h \in Handlers, NEW p \in People, HideAll(h, p) PROVE KeptInv'
  BY <1>0, <1>10, MovesKept DEF HideAll
<1>11. ASSUME NEW h \in Handlers, \/ TouchLastMessage(h) \/ PreviewNotice(h) \/ ClearUnread(h)
                                  \/ SaveEdit(h) \/ Tombstone(h) \/ ForgetChat(h)
       PROVE  KeptInv'
  <2>1. Goto(h, Idle) /\ Idle.pc = "idle"
    BY <1>11 DEF TouchLastMessage, PreviewNotice, ClearUnread, SaveEdit, Tombstone, ForgetChat, Idle
  <2> QED BY <1>0, <2>1, MovesKept
<1>12. CASE tasks' = tasks
  <2>1. \A g \in Handlers : g \notin {} => tasks'[g] = tasks[g]
    BY <1>12
  <2>2. \A g \in {} : ReceivesOthers(g)' /\ HasId(g)' /\ tasks'[g].pc # "touch"
    OBVIOUS
  <2>3. {} \in SUBSET Handlers
    OBVIOUS
  <2> QED BY <1>0, <2>1, <2>2, <2>3, KeptAfter
<1>13. ASSUME NEW m, NEW p, Expire(m) \/ DeleteForMe(p, m) \/ UNCHANGED vars PROVE tasks' = tasks
  BY <1>13 DEF Expire, DeleteForMe, vars
<1> HIDE MessagesStay
<1> QED BY <1>0, <1>1, <1>2, <1>3, <1>4, <1>5, <1>6, <1>7, <1>8, <1>9, <1>10, <1>11, <1>12, <1>13,
           CreateKept, CutKept
        DEF Next, ReadForSend, PostServiceMessage, MarkRead, MarkDelivered

-----------------------------------------------------------------------------
(* One message for a client id. *)

\* Sends in progress, and messages said: fewer of them are no more of one client id.
LEMMA SentLess ==
  ASSUME SentInv, races.client \subseteq races'.client,
         \A g \in Handlers : tasks'[g].pc = "create" => tasks'[g] = tasks[g],
         \A m \in Said' : m \in Said /\ msgs'[m].client = msgs[m].client
  PROVE  SentInv'
<1> SUFFICES ASSUME NEW c \in ClientIds \ {"none"}, c \notin races'.client PROVE SentOnce(c)'
  BY DEF SentInv, SentOnce
<1>1. SentOnce(c) /\ c \notin races.client
  BY DEF SentInv
<1> QED BY <1>1 DEF SentOnce, Holds

LEMMA SaidBefore ==
  ASSUME TypeInv, TypeInv', \A m \in DOMAIN msgs : Stays(m), DOMAIN msgs' = DOMAIN msgs
  PROVE  \A m \in Said' : m \in Said /\ msgs'[m].client = msgs[m].client
BY DEF Said, Stored, Stays

LEMMA BeginSent ==
  ASSUME TypeInv, SentInv, NEW h \in Handlers, NEW p \in Senders, NEW c \in ClientIds \cup {"none"}, Begin(h, p, c)
  PROVE  SentInv'
<1> SUFFICES ASSUME NEW d \in ClientIds \ {"none"}, d \notin races'.client PROVE SentOnce(d)'
  BY DEF SentInv, SentOnce
<1>1. /\ tasks'[h] = [pc |-> "create", who |-> p, client |-> c, expires |-> conv.vanishing]
      /\ \A g \in Handlers : g # h => tasks'[g] = tasks[g]
  BY Moved DEF TypeInv, Begin
<1>2. SentOnce(d) /\ d \notin races.client
  BY Parts DEF SentInv, Begin, Races
<1>3. msgs' = msgs /\ Said' = Said
  BY DEF Begin, Said, Stored
<1>4. CASE d # c
  BY <1>1, <1>2, <1>3, <1>4 DEF SentOnce, Holds
<1>5. CASE d = c
  <2>1. \A g \in Handlers : ~(Holds(g, "create") /\ tasks[g].client = d)
    BY <1>5, Parts DEF Begin, At, Holds, Races
  <2>2. \A m \in Said : msgs[m].client # d
    BY <1>5 DEF Begin, FindByClientId, Said
  <2>3. \A g \in Handlers : Holds(g, "create")' /\ tasks'[g].client = d => g = h
    BY <1>1, <2>1 DEF Holds
  <2> QED BY <1>2, <1>3, <2>2, <2>3 DEF SentOnce
<1> QED BY <1>4, <1>5

LEMMA CreateSent ==
  ASSUME TypeInv, SentInv, NEW h \in Handlers, Create(h)
  PROVE  SentInv'
<1> SUFFICES ASSUME NEW d \in ClientIds \ {"none"}, d \notin races'.client PROVE SentOnce(d)'
  BY DEF SentInv, SentOnce
<1>1. /\ tasks'[h].pc = "touch" /\ tasks[h].pc = "create"
      /\ \A g \in Handlers : g # h => tasks'[g] = tasks[g]
  BY Moved DEF TypeInv, Create
<1>2. SentOnce(d) /\ d \notin races.client
  BY DEF SentInv, Create
<1>3. PICK n \in Message : msgs' = Append(msgs, n) /\ n.type = "said" /\ n.client = tasks[h].client
  BY CreateInserts
<1>4. /\ DOMAIN msgs' = DOMAIN msgs \cup {Len(msgs) + 1} /\ Len(msgs) + 1 \notin DOMAIN msgs
      /\ msgs'[Len(msgs) + 1] = n
      /\ \A m \in DOMAIN msgs : msgs'[m] = msgs[m]
  BY <1>3, Inserted
<1>5. \A m \in Said' : \/ m = Len(msgs) + 1 /\ msgs'[m].client = tasks[h].client
                       \/ m \in Said /\ msgs'[m].client = msgs[m].client
  BY <1>3, <1>4 DEF Said, Stored
<1>6. ASSUME NEW g \in Handlers, Holds(g, "create")', tasks'[g].client = d
      PROVE  g # h /\ Holds(g, "create") /\ tasks[g].client = d
  BY <1>1, <1>6 DEF Holds
<1>7. CASE tasks[h].client # d
  BY <1>2, <1>5, <1>6, <1>7 DEF SentOnce
<1>8. CASE tasks[h].client = d
  <2>1. Holds(h, "create")
    BY <1>1 DEF Holds
  <2>2. \A m \in Said : msgs[m].client # d
    BY <1>2, <1>8, <2>1 DEF SentOnce
  <2>3. \A g \in Handlers : ~(Holds(g, "create")' /\ tasks'[g].client = d)
    BY <1>2, <1>6, <1>8, <2>1 DEF SentOnce
  <2> QED BY <1>5, <2>2, <2>3 DEF SentOnce
<1> QED BY <1>7, <1>8

\* No race is forgotten.
Noted ==
  /\ races.client \subseteq races'.client /\ races.ticks \subseteq races'.ticks
  /\ races.words \subseteq races'.words /\ races.counter \subseteq races'.counter
  /\ races.untold \subseteq races'.untold /\ (races.preview => races'.preview)

LEMMA MoreNoted ==
  ASSUME TypeInv, NEW C, NEW T, NEW W, NEW P, NEW U
  PROVE  /\ races' = [races EXCEPT !.client = @ \cup C] => Noted
         /\ races' = [races EXCEPT !.ticks = @ \cup T, !.words = @ \cup W, !.untold = @ \cup U] => Noted
         /\ races' = [races EXCEPT !.ticks = @ \cup T] => Noted
         /\ races' = [races EXCEPT !.words = @ \cup W] => Noted
         /\ races' = [races EXCEPT !.counter = @ \cup P] => Noted
         /\ races' = races => Noted
<1>1. races \in Races
  BY Parts
<1> QED BY <1>1 DEF Noted, Races

LEMMA PreviewNoted ==
  ASSUME TypeInv, NEW P, NEW b \in BOOLEAN, races.preview => b,
         races' = [races EXCEPT !.counter = @ \cup P, !.preview = b]
  PROVE  Noted
<1>1. races \in Races
  BY Parts
<1>2. /\ races'.client = races.client /\ races'.ticks = races.ticks /\ races'.words = races.words
      /\ races'.counter = races.counter \cup P /\ races'.untold = races.untold
  BY <1>1 DEF Races
<1>3. races'.preview = b
  BY <1>1 DEF Races
<1> QED BY <1>2, <1>3 DEF Noted

LEMMA RacesGrow ==
  ASSUME TypeInv, [Next]_vars
  PROVE  Noted
<1>1. ASSUME NEW h \in Handlers, TouchLastMessage(h) PROVE Noted
  <2>1. PICK P : races' = [races EXCEPT !.counter = @ \cup P, !.preview = @ \/ tasks[h].at < conv.at]
    BY <1>1 DEF TouchLastMessage
  <2>2. (races.preview \/ tasks[h].at < conv.at) \in BOOLEAN
    OBVIOUS
  <2> QED BY <2>1, <2>2, PreviewNoted
<1>2. ASSUME NEW h \in Handlers, PreviewNotice(h) PROVE Noted
  <2>1. races' = [races EXCEPT !.counter = @ \cup {}, !.preview = races.preview \/ tasks[h].at < conv.at]
    BY <1>2, Parts DEF PreviewNotice, Races
  <2>2. (races.preview \/ tasks[h].at < conv.at) \in BOOLEAN
    OBVIOUS
  <2> QED BY <2>1, <2>2, PreviewNoted
<1>3. ASSUME NEW H \in SUBSET Handlers, CutShort(H) PROVE Noted
  BY <1>3, MoreNoted DEF CutShort
<1>4. ASSUME NEW h \in Handlers, NEW p \in People, HideAll(h, p) PROVE Noted
  BY <1>4, MoreNoted DEF HideAll
<1>5. ASSUME NEW h \in Handlers, SaveEdit(h) PROVE Noted
  BY <1>5, MoreNoted DEF SaveEdit
<1>6. ASSUME NEW h \in Handlers, SaveDeletion(h) PROVE Noted
  BY <1>6, MoreNoted DEF SaveDeletion
<1>7. ASSUME NEW h \in Handlers, ReadForAggregates(h) PROVE Noted
  BY <1>7, MoreNoted DEF ReadForAggregates
<1>8. ASSUME NEW h \in Handlers, NEW p, NEW c, Begin(h, p, c) PROVE Noted
  BY <1>8, MoreNoted DEF Begin
<1>9. CASE races' = races
  BY <1>9, MoreNoted
<1>10. ASSUME NEW h \in Handlers, NEW p, NEW on, NEW m,
              \/ SetDisappearing(h, p, on) \/ MarkRead(h, p) \/ MarkDelivered(h, p)
              \/ ReadForEdit(h, m) \/ ReadForDelete(h, m) \/ Create(h) \/ CreateNotice(h)
              \/ AddReceipts(h) \/ WriteAggregates(h) \/ ClearUnread(h) \/ Tombstone(h) \/ ForgetChat(h)
       PROVE  races' = races
  BY <1>10 DEF SetDisappearing, MarkRead, MarkDelivered, FindPending, ReadForEdit, ReadForDelete, Create,
               CreateNotice, AddReceipts, WriteAggregates, ClearUnread, Tombstone, ForgetChat
<1>11. ASSUME NEW m, NEW p, Expire(m) \/ DeleteForMe(p, m) \/ UNCHANGED vars PROVE races' = races
  BY <1>11 DEF Expire, DeleteForMe, vars
<1> QED BY <1>1, <1>2, <1>3, <1>4, <1>5, <1>6, <1>7, <1>8, <1>9, <1>10, <1>11
        DEF Next, ReadForSend, PostServiceMessage

\* What the steps that insert nothing leave.
LEMMA DomainStays ==
  ASSUME TypeInv
  PROVE  /\ \A h \in Handlers : TouchLastMessage(h) \/ PreviewNotice(h) => DOMAIN msgs' = DOMAIN msgs
         /\ \A h \in Handlers : AddReceipts(h) \/ WriteAggregates(h) => DOMAIN msgs' = DOMAIN msgs
         /\ \A h \in Handlers : ReadForAggregates(h) \/ ClearUnread(h) => DOMAIN msgs' = DOMAIN msgs
         /\ \A h \in Handlers : SaveEdit(h) \/ SaveDeletion(h) => DOMAIN msgs' = DOMAIN msgs
         /\ \A h \in Handlers : Tombstone(h) \/ ForgetChat(h) => DOMAIN msgs' = DOMAIN msgs
         /\ \A h \in Handlers : \A p, c : Begin(h, p, c) => DOMAIN msgs' = DOMAIN msgs
         /\ \A h \in Handlers : \A p, c : SetDisappearing(h, p, c) => DOMAIN msgs' = DOMAIN msgs
         /\ \A h \in Handlers : \A p, c : FindPending(h, p, c) => DOMAIN msgs' = DOMAIN msgs
         /\ \A h \in Handlers : \A m : ReadForEdit(h, m) \/ ReadForDelete(h, m) => DOMAIN msgs' = DOMAIN msgs
         /\ \A h \in Handlers : \A p : HideAll(h, p) => DOMAIN msgs' = DOMAIN msgs
         /\ \A m, p : DeleteForMe(p, m) => DOMAIN msgs' = DOMAIN msgs
         /\ \A m : Expire(m) \/ CutShort(m) => DOMAIN msgs' = DOMAIN msgs
<1>1. ASSUME NEW h \in Handlers, AddReceipts(h) \/ WriteAggregates(h) \/ SaveEdit(h) PROVE DOMAIN msgs' = DOMAIN msgs
  BY <1>1 DEF AddReceipts, WriteAggregates, SaveEdit
<1>2. ASSUME NEW h \in Handlers, SaveDeletion(h) PROVE DOMAIN msgs' = DOMAIN msgs
  BY <1>2 DEF SaveDeletion
<1>3. ASSUME NEW h \in Handlers, \/ TouchLastMessage(h) \/ PreviewNotice(h) \/ ReadForAggregates(h)
                                 \/ ClearUnread(h) \/ Tombstone(h) \/ ForgetChat(h)
      PROVE  DOMAIN msgs' = DOMAIN msgs
  BY <1>3 DEF TouchLastMessage, PreviewNotice, ReadForAggregates, ClearUnread, Tombstone, ForgetChat
<1>4. ASSUME NEW h \in Handlers, NEW p, NEW c, Begin(h, p, c) \/ SetDisappearing(h, p, c) \/ FindPending(h, p, c)
      PROVE  DOMAIN msgs' = DOMAIN msgs
  BY <1>4 DEF Begin, SetDisappearing, FindPending
<1>5. ASSUME NEW h \in Handlers, NEW m, ReadForEdit(h, m) \/ ReadForDelete(h, m) PROVE DOMAIN msgs' = DOMAIN msgs
  BY <1>5 DEF ReadForEdit, ReadForDelete
<1>6. ASSUME NEW h \in Handlers, NEW p, HideAll(h, p) PROVE DOMAIN msgs' = DOMAIN msgs
  BY <1>6 DEF HideAll
<1>7. ASSUME NEW m, NEW p, DeleteForMe(p, m) PROVE DOMAIN msgs' = DOMAIN msgs
  BY <1>7 DEF DeleteForMe
<1>8. ASSUME NEW m, Expire(m) \/ CutShort(m) PROVE DOMAIN msgs' = DOMAIN msgs
  BY <1>8 DEF Expire, CutShort
<1> QED BY <1>1, <1>2, <1>3, <1>4, <1>5, <1>6, <1>7, <1>8

LEMMA StepSent ==
  ASSUME TypeInv, TypeInv', SentInv, [Next]_vars
  PROVE  SentInv'
<1>1. \A m \in DOMAIN msgs : Stays(m)
  BY MessagesStay
<1>2. Noted
  BY RacesGrow
<1>4. ASSUME NEW h \in Handlers, NEW next, Goto(h, next), next.pc # "create", DOMAIN msgs' = DOMAIN msgs
      PROVE  SentInv'
  <2>1. tasks'[h] = next /\ \A g \in Handlers : g # h => tasks'[g] = tasks[g]
    BY <1>4, Moved DEF TypeInv
  <2>2. \A m \in Said' : m \in Said /\ msgs'[m].client = msgs[m].client
    BY <1>1, <1>4, SaidBefore
  <2> QED BY <1>2, <1>4, <2>1, <2>2, SentLess DEF Noted
<1>5. ASSUME NEW h \in Handlers, CreateNotice(h) PROVE SentInv'
  <2>1. tasks'[h].pc = "preview" /\ \A g \in Handlers : g # h => tasks'[g] = tasks[g]
    BY <1>5, Moved DEF TypeInv, CreateNotice
  <2>2. PICK n \in Message : msgs' = Append(msgs, n) /\ n.type = "notice"
    BY <1>5, NoticeInserts
  <2>3. \A m \in Said' : m \in Said /\ msgs'[m].client = msgs[m].client
    BY <2>2, Inserted DEF Said, Stored
  <2> QED BY <1>2, <2>1, <2>3, SentLess DEF Noted
<1>6. ASSUME NEW h \in Handlers, NEW p, NEW m, NEW c,
             \/ TouchLastMessage(h) \/ PreviewNotice(h) \/ AddReceipts(h) \/ ReadForAggregates(h)
             \/ WriteAggregates(h) \/ ClearUnread(h) \/ SaveEdit(h) \/ SaveDeletion(h)
             \/ Tombstone(h) \/ ForgetChat(h) \/ SetDisappearing(h, p, m) \/ FindPending(h, p, c)
             \/ ReadForEdit(h, m) \/ ReadForDelete(h, m) \/ HideAll(h, p)
      PROVE  \E next : Goto(h, next) /\ next.pc # "create"
  <2>1. AddReceipts(h) => [tasks[h] EXCEPT !.pc = "reckon"].pc = "reckon"
    BY Records, Parts DEF AddReceipts, Holds
  <2>2. CASE TouchLastMessage(h) \/ PreviewNotice(h) \/ ClearUnread(h) \/ SaveEdit(h) \/ Tombstone(h) \/ ForgetChat(h)
    BY <2>2 DEF TouchLastMessage, PreviewNotice, ClearUnread, SaveEdit, Tombstone, ForgetChat, Idle
  <2>3. CASE AddReceipts(h)
    BY <2>1, <2>3 DEF AddReceipts
  <2>4. CASE ReadForAggregates(h) \/ WriteAggregates(h) \/ SaveDeletion(h)
    BY <2>4 DEF ReadForAggregates, WriteAggregates, SaveDeletion, Idle
  <2>5. CASE SetDisappearing(h, p, m) \/ ReadForEdit(h, m) \/ ReadForDelete(h, m) \/ HideAll(h, p)
    BY <2>5 DEF SetDisappearing, ReadForEdit, ReadForDelete, HideAll
  <2>6. CASE FindPending(h, p, c)
    BY <2>6 DEF FindPending
  <2> QED BY <1>6, <2>2, <2>3, <2>4, <2>5, <2>6
<1>7. CASE tasks' = tasks /\ DOMAIN msgs' = DOMAIN msgs
  <2>1. \A m \in Said' : m \in Said /\ msgs'[m].client = msgs[m].client
    BY <1>1, <1>7, SaidBefore
  <2> QED BY <1>2, <1>7, <2>1, SentLess DEF Noted
<1>8. ASSUME NEW m, NEW p, Expire(m) \/ DeleteForMe(p, m) \/ UNCHANGED vars
      PROVE  tasks' = tasks /\ DOMAIN msgs' = DOMAIN msgs
  <2>1. CASE Expire(m)
    BY <2>1 DEF Expire
  <2>2. CASE DeleteForMe(p, m)
    BY <2>2 DEF DeleteForMe
  <2>3. CASE UNCHANGED vars
    BY <2>3 DEF vars
  <2> QED BY <1>8, <2>1, <2>2, <2>3
<1>9. ASSUME NEW H \in SUBSET Handlers, CutShort(H) PROVE SentInv'
  <2>1. \A g \in Handlers : tasks'[g].pc = "create" => tasks'[g] = tasks[g]
    BY <1>9 DEF CutShort, Idle
  <2>3. DOMAIN msgs' = DOMAIN msgs
    BY <1>9 DEF CutShort
  <2>2. \A m \in Said' : m \in Said /\ msgs'[m].client = msgs[m].client
    BY <1>1, <2>3, SaidBefore
  <2> QED BY <1>2, <2>1, <2>2, SentLess DEF Noted
<1>10. ASSUME NEW h \in Handlers, NEW p, NEW m, NEW c,
             \/ TouchLastMessage(h) \/ PreviewNotice(h) \/ AddReceipts(h) \/ ReadForAggregates(h)
             \/ WriteAggregates(h) \/ ClearUnread(h) \/ SaveEdit(h) \/ SaveDeletion(h)
             \/ Tombstone(h) \/ ForgetChat(h) \/ SetDisappearing(h, p, m) \/ FindPending(h, p, c)
             \/ ReadForEdit(h, m) \/ ReadForDelete(h, m) \/ HideAll(h, p)
      PROVE  SentInv'
  <2>1. DOMAIN msgs' = DOMAIN msgs
    <3>1. CASE \/ TouchLastMessage(h) \/ PreviewNotice(h) \/ AddReceipts(h) \/ ReadForAggregates(h)
               \/ WriteAggregates(h) \/ ClearUnread(h) \/ SaveEdit(h) \/ SaveDeletion(h)
               \/ Tombstone(h) \/ ForgetChat(h)
      BY <3>1, DomainStays
    <3>2. CASE SetDisappearing(h, p, m)
      BY <3>2, DomainStays
    <3>3. CASE FindPending(h, p, c)
      BY <3>3, DomainStays
    <3>4. CASE ReadForEdit(h, m) \/ ReadForDelete(h, m)
      BY <3>4, DomainStays
    <3>5. CASE HideAll(h, p)
      BY <3>5, DomainStays
    <3> QED BY <1>10, <3>1, <3>2, <3>3, <3>4, <3>5
  <2> QED BY <1>4, <1>6, <1>10, <2>1
<1>11. ASSUME NEW h \in Handlers, NEW c \in ClientIds \cup {"none"},
             \/ \E p \in People : ReadForSend(h, p, c)
             \/ \E s \in Services : PostServiceMessage(h, s, c)
      PROVE  SentInv'
  BY <1>11, BeginSent DEF ReadForSend, PostServiceMessage, Senders
<1> QED BY <1>5, <1>7, <1>8, <1>9, <1>10, <1>11, CreateSent DEF Next, MarkRead, MarkDelivered

-----------------------------------------------------------------------------
(* Ticks. *)

LEMMA Ranks ==
  /\ Rank("sent") = 0 /\ Rank("delivered") = 1 /\ Rank("read") = 2
  /\ \A s \in Statuses : Rank(s) \in 0..2
  /\ \A s, t \in Statuses : Rank(s) = Rank(t) => s = t
<1>1. Rank("sent") = 0 /\ Rank("delivered") = 1 /\ Rank("read") = 2
  BY DEF Rank
<1> QED BY <1>1 DEF Statuses

LEMMA DueTypes == ASSUME NEW m PROVE Due(m) \in Statuses
BY DEF Due, Statuses

\* Receipts only add to what is due.
LEMMA DueGrows ==
  ASSUME NEW m, msgs'[m].sender = msgs[m].sender, msgs[m].readBy \subseteq msgs'[m].readBy,
         msgs[m].deliveredTo \subseteq msgs'[m].deliveredTo
  PROVE  Rank(Due(m)) <= Rank(Due(m)')
BY Ranks DEF Due, Others

LEMMA DueStays ==
  ASSUME NEW m, msgs'[m].sender = msgs[m].sender, msgs'[m].readBy = msgs[m].readBy,
         msgs'[m].deliveredTo = msgs[m].deliveredTo
  PROVE  Due(m)' = Due(m)
BY DEF Due, Others

\* What the code works out is due, where the sender is not alone.
LEMMA AggregateIsDue ==
  ASSUME NEW m, NEW p \in People, msgs[m].sender # p
  PROVE  AggregateStatus(m) = Due(m)
BY DEF AggregateStatus, Due, Others

\* Nothing happens to the receipts and ticks of m, nor to who works on them.
LEMMA MessageTicks ==
  ASSUME NEW m, TickHeld(m), CatchesUp(m), races.ticks \subseteq races'.ticks,
         msgs'[m].sender = msgs[m].sender, msgs'[m].readBy = msgs[m].readBy,
         msgs'[m].deliveredTo = msgs[m].deliveredTo, msgs'[m].status = msgs[m].status,
         \A g \in Handlers : Writing(g, m)' => Writing(g, m) /\ tasks'[g].next[m] = tasks[g].next[m],
         m \notin races'.ticks => \A g \in Handlers : Writing(g, m) => Writing(g, m)',
         m \notin races'.ticks /\ Reckoned(m) => Reckoned(m)'
  PROVE  TickHeld(m)' /\ CatchesUp(m)'
<1>1. Due(m)' = Due(m)
  BY DueStays
<1>2. TickHeld(m)'
  BY <1>1 DEF TickHeld
<1>3. CatchesUp(m)'
  <2> SUFFICES ASSUME m \notin races'.ticks PROVE CatchesUp(m)'
    BY DEF CatchesUp
  <2>1. m \notin races.ticks
    OBVIOUS
  <2>2. \A g, h \in Handlers : Writing(g, m)' /\ Writing(h, m)' => g = h
    BY <2>1 DEF CatchesUp
  <2>3. ASSUME NEW h \in Handlers, Writing(h, m)'
        PROVE  /\ Rank(msgs'[m].status) < Rank(tasks'[h].next[m])
               /\ Rank(Due(m)') <= Rank(tasks'[h].next[m]) \/ Reckoned(m)'
    BY <1>1, <2>1, <2>3 DEF CatchesUp
  <2>4. (\A h \in Handlers : ~Writing(h, m)') => Rank(Due(m)') <= Rank(msgs'[m].status) \/ Reckoned(m)'
    BY <1>1, <2>1 DEF CatchesUp
  <2> QED BY <2>2, <2>3, <2>4 DEF CatchesUp
<1> QED BY <1>2, <1>3

\* Messages that were there are owed no less.
LEMMA NextStays ==
  ASSUME TypeInv, KeptInv, NEW h \in Handlers, NextHeld(h), tasks'[h] = tasks[h],
         \A m \in DOMAIN msgs : Stays(m)
  PROVE  NextHeld(h)'
<1> SUFFICES ASSUME Holds(h, "tick"), NEW m \in tasks[h].ids
             PROVE  m \in DOMAIN tasks[h].next /\ (m \in Said' => Rank(tasks[h].next[m]) <= Rank(Due(m)'))
  BY DEF NextHeld, Holds
<1>1. m \in DOMAIN msgs
  BY DEF KeptInv, Kept, ReceivesOthers, Holds
<1>2. m \in DOMAIN tasks[h].next /\ (m \in Said => Rank(tasks[h].next[m]) <= Rank(Due(m)))
  BY DEF NextHeld
<1>3. ASSUME m \in Said' PROVE m \in Said /\ Rank(Due(m)) <= Rank(Due(m)')
  <2>1. m \in Said /\ msgs'[m].sender = msgs[m].sender /\ msgs[m].readBy \subseteq msgs'[m].readBy
        /\ msgs[m].deliveredTo \subseteq msgs'[m].deliveredTo
    BY <1>1, <1>3 DEF Said, Stored, Stays
  <2> QED BY <2>1, DueGrows
<1>4. Rank(tasks[h].next[m]) \in 0..2 /\ Rank(Due(m)) \in 0..2 /\ Rank(Due(m)') \in 0..2
  <2>1. tasks[h].next[m] \in Statuses
    BY <1>2, NextTicks, Parts
  <2>2. Due(m) \in Statuses /\ Due(m)' \in Statuses
    BY DueTypes DEF Due, Statuses
  <2> QED BY <2>1, <2>2, Ranks
<1> QED BY <1>2, <1>3, <1>4

\* No receipt is added, worked out or written, and nothing is newly said.
LEMMA TicksRest ==
  ASSUME TypeInv, KeptInv, TicksInv, races.ticks \subseteq races'.ticks, \A m \in DOMAIN msgs : Stays(m),
         \A g \in Handlers : tasks[g].pc \in {"reckon", "tick"} \/ tasks'[g].pc \in {"reckon", "tick"}
           => tasks'[g] = tasks[g],
         \A m \in Said' : /\ m \in Said
                          /\ msgs'[m].sender = msgs[m].sender /\ msgs'[m].readBy = msgs[m].readBy
                          /\ msgs'[m].deliveredTo = msgs[m].deliveredTo /\ msgs'[m].status = msgs[m].status
  PROVE  TicksInv'
<1>1. ASSUME NEW m \in Said' PROVE TickHeld(m)' /\ CatchesUp(m)'
  <2>1. \A g \in Handlers : Writing(g, m)' => Writing(g, m) /\ tasks'[g].next[m] = tasks[g].next[m]
    BY DEF Writing, Holds
  <2>2. \A g \in Handlers : Writing(g, m) => Writing(g, m)'
    BY DEF Writing, Holds
  <2>3. Reckoned(m) => Reckoned(m)'
    BY DEF Reckoned, Holds
  <2>4. TickHeld(m) /\ CatchesUp(m)
    BY DEF TicksInv
  <2> QED BY <2>1, <2>2, <2>3, <2>4, MessageTicks
<1>2. ASSUME NEW h \in Handlers PROVE NextHeld(h)'
  <2>1. CASE tasks'[h].pc = "tick"
    BY <2>1, NextStays DEF TicksInv
  <2>2. CASE tasks'[h].pc # "tick"
    BY <2>2 DEF NextHeld, Holds
  <2> QED BY <2>1, <2>2
<1> QED BY <1>1, <1>2 DEF TicksInv

LEMMA CreateTicks ==
  ASSUME TypeInv, KeptInv, TicksInv, \A m \in DOMAIN msgs : Stays(m), NEW h \in Handlers, Create(h)
  PROVE  TicksInv'
<1>1. /\ tasks'[h].pc = "touch" /\ tasks[h].pc = "create"
      /\ \A g \in Handlers : g # h => tasks'[g] = tasks[g]
  BY Moved DEF TypeInv, Create
<1>2. PICK n \in Message : /\ msgs' = Append(msgs, n) /\ n.sender = tasks[h].who /\ n.status = "sent"
                           /\ n.readBy = {} /\ n.deliveredTo = {tasks[h].who}
  BY CreateInserts
<1>3. /\ DOMAIN msgs' = DOMAIN msgs \cup {Len(msgs) + 1} /\ Len(msgs) + 1 \notin DOMAIN msgs
      /\ msgs'[Len(msgs) + 1] = n
      /\ \A m \in DOMAIN msgs : msgs'[m] = msgs[m]
  BY <1>2, Inserted
<1>4. races' = races
  BY DEF Create
<1>5. ASSUME NEW m \in Said', m # Len(msgs) + 1 PROVE TickHeld(m)' /\ CatchesUp(m)'
  <2>1. \A g \in Handlers : Writing(g, m)' => Writing(g, m) /\ tasks'[g].next[m] = tasks[g].next[m]
    BY <1>1 DEF Writing, Holds
  <2>2. \A g \in Handlers : Writing(g, m) => Writing(g, m)'
    BY <1>1 DEF Writing, Holds
  <2>3. Reckoned(m) => Reckoned(m)'
    BY <1>1 DEF Reckoned, Holds
  <2>4. m \in Said /\ msgs'[m] = msgs[m]
    BY <1>3, <1>5 DEF Said, Stored
  <2>5. TickHeld(m) /\ CatchesUp(m)
    BY <2>4 DEF TicksInv
  <2> QED BY <1>4, <2>1, <2>2, <2>3, <2>4, <2>5, MessageTicks
<1>6. ASSUME NEW m, m = Len(msgs) + 1 PROVE TickHeld(m)' /\ CatchesUp(m)'
  <2>1. Rank(Due(m)') = 0 /\ Rank(msgs'[m].status) = 0
    BY <1>2, <1>3, <1>6, Ranks DEF Due, Others
  <2>2. \A g \in Handlers : ~Writing(g, m)'
    BY <1>1, <1>3, <1>6 DEF Writing, Holds, KeptInv, Kept, ReceivesOthers
  <2> QED BY <2>1, <2>2 DEF TickHeld, CatchesUp
<1>7. ASSUME NEW g \in Handlers PROVE NextHeld(g)'
  <2>1. CASE tasks'[g].pc = "tick"
    BY <1>1, <2>1, NextStays DEF TicksInv
  <2>2. CASE tasks'[g].pc # "tick"
    BY <2>2 DEF NextHeld, Holds
  <2> QED BY <2>1, <2>2
<1> QED BY <1>5, <1>6, <1>7 DEF TicksInv

LEMMA ReceiptTicks ==
  ASSUME TypeInv, KeptInv, TicksInv, \A m \in DOMAIN msgs : Stays(m), NEW h \in Handlers, AddReceipts(h)
  PROVE  TicksInv'
<1>1. /\ tasks'[h].pc = "reckon" /\ tasks'[h].ids = tasks[h].ids /\ tasks[h].pc = "receive"
      /\ \A g \in Handlers : g # h => tasks'[g] = tasks[g]
  <2>1. tasks[h] \in [pc : {"receive", "reckon"}, how : {"delivered", "read"}, who : People, ids : SUBSET Ids]
    BY Records, Parts DEF AddReceipts, Holds
  <2>2. Goto(h, [tasks[h] EXCEPT !.pc = "reckon"]) /\ tasks[h].pc = "receive"
    BY DEF AddReceipts
  <2>3. /\ tasks'[h] = [tasks[h] EXCEPT !.pc = "reckon"]
        /\ \A g \in Handlers : g # h => tasks'[g] = tasks[g]
    BY <2>2, Moved DEF TypeInv
  <2> QED BY <2>1, <2>2, <2>3
<1>2. DOMAIN msgs' = DOMAIN msgs /\ races' = races
  BY DEF AddReceipts
<1>3. ASSUME NEW m \in Said' PROVE m \in Said /\ m \in DOMAIN msgs /\ TickHeld(m) /\ CatchesUp(m)
  BY <1>2, <1>3 DEF Said, Stored, Stays, TicksInv
<1>4. ASSUME NEW m \in Said'
      PROVE  /\ \A g \in Handlers : Writing(g, m)' => Writing(g, m) /\ tasks'[g].next[m] = tasks[g].next[m]
             /\ \A g \in Handlers : Writing(g, m) => Writing(g, m)'
             /\ Reckoned(m) => Reckoned(m)'
  BY <1>1 DEF Writing, Reckoned, Holds
<1>5. ASSUME NEW m \in Said', m \notin tasks[h].ids PROVE TickHeld(m)' /\ CatchesUp(m)'
  <2>1. msgs'[m] = msgs[m]
    BY <1>3, <1>5, ReceiptSteps
  <2> QED BY <1>2, <1>3, <1>4, <2>1, MessageTicks
<1>6. ASSUME NEW m \in Said', m \in tasks[h].ids PROVE TickHeld(m)' /\ CatchesUp(m)'
  <2>1. m \in DOMAIN msgs /\ msgs[m] # Gone /\ msgs[m] \in Message /\ msgs'[m] # Gone
    BY <1>3, <1>6, Lengths, Parts DEF Said, Stored
  <2>2. /\ msgs'[m].status = msgs[m].status /\ msgs'[m].sender = msgs[m].sender
        /\ msgs[m].readBy \subseteq msgs'[m].readBy /\ msgs[m].deliveredTo \subseteq msgs'[m].deliveredTo
    BY <1>6, <2>1, ReceiptSteps
  <2>3. Rank(Due(m)) <= Rank(Due(m)')
    BY <2>2, DueGrows
  <2>4. Rank(Due(m)) \in 0..2 /\ Rank(Due(m)') \in 0..2 /\ Rank(msgs[m].status) \in 0..2
    BY <2>1, Ranks DEF Due, Message, Statuses
  <2>5. Reckoned(m)'
    BY <1>1, <1>6 DEF Reckoned, Holds
  <2>6. TickHeld(m)'
    BY <1>3, <2>2, <2>3, <2>4 DEF TickHeld
  <2>7. CatchesUp(m)'
    <3> SUFFICES ASSUME m \notin races'.ticks PROVE CatchesUp(m)'
      BY DEF CatchesUp
    <3>1. \A g, k \in Handlers : Writing(g, m)' /\ Writing(k, m)' => g = k
      BY <1>2, <1>3, <1>4 DEF CatchesUp
    <3>2. \A g \in Handlers : Writing(g, m)' => Rank(msgs'[m].status) < Rank(tasks'[g].next[m])
      BY <1>2, <1>3, <1>4, <2>2 DEF CatchesUp
    <3> QED BY <2>5, <3>1, <3>2 DEF CatchesUp
  <2> QED BY <2>6, <2>7
<1>7. ASSUME NEW g \in Handlers PROVE NextHeld(g)'
  <2>1. CASE tasks'[g].pc = "tick"
    BY <1>1, <2>1, NextStays DEF TicksInv
  <2>2. CASE tasks'[g].pc # "tick"
    BY <2>2 DEF NextHeld, Holds
  <2> QED BY <2>1, <2>2
<1> QED BY <1>5, <1>6, <1>7 DEF TicksInv

LEMMA ReckonTicks ==
  ASSUME TypeInv, KeptInv, TicksInv, \A m \in DOMAIN msgs : Stays(m), NEW h \in Handlers, ReadForAggregates(h)
  PROVE  TicksInv'
<1> DEFINE Next1(m) == IF Rank(AggregateStatus(m)) > Rank(msgs[m].status)
                       THEN AggregateStatus(m) ELSE msgs[m].status
           up   == {m \in tasks[h].ids \cap Stored : Next1(m) # msgs[m].status}
           next == [m \in up |-> Next1(m)]
           same == UNION {tasks[g].ids : g \in At({"tick"})}
<1>1. /\ tasks[h].pc = "reckon" /\ msgs' = msgs
      /\ Goto(h, [pc |-> "tick", how |-> tasks[h].how, who |-> tasks[h].who, ids |-> up, next |-> next])
      /\ races' = [races EXCEPT !.ticks = @ \cup (up \cap same)]
  BY DEF ReadForAggregates
<1>2. /\ tasks'[h].pc = "tick" /\ tasks'[h].ids = up /\ tasks'[h].next = next
      /\ \A g \in Handlers : g # h => tasks'[g] = tasks[g]
  <2> HIDE DEF up, next
  <2> QED BY <1>1, Moved DEF TypeInv
<1>3. races'.ticks = races.ticks \cup (up \cap same) /\ Said' = Said
  <2> HIDE DEF up, same
  <2> QED BY <1>1, Parts DEF Races, Said, Stored
<1>4. \A m \in Said : /\ m \in DOMAIN msgs /\ m \in Stored /\ msgs[m] \in Message
                      /\ Rank(msgs[m].status) \in 0..2 /\ Rank(Due(m)) \in 0..2
                      /\ TickHeld(m) /\ CatchesUp(m) /\ Due(m)' = Due(m)
  BY <1>1, Lengths, Parts, Ranks, DueTypes, DueStays DEF Message, TicksInv
<1>5. \A m \in Said \cap tasks[h].ids :
        /\ AggregateStatus(m) = Due(m)
        /\ m \in up <=> Rank(Due(m)) > Rank(msgs[m].status)
        /\ m \in up => next[m] = Due(m)
  <2> SUFFICES ASSUME NEW m \in Said \cap tasks[h].ids
               PROVE  /\ AggregateStatus(m) = Due(m)
                      /\ m \in up <=> Rank(Due(m)) > Rank(msgs[m].status)
                      /\ m \in up => next[m] = Due(m)
    OBVIOUS
  <2>1. msgs[m].sender # tasks[h].who /\ tasks[h].who \in People
    <3>1. msgs[m] # Gone
      BY DEF Said, Stored
    <3> QED BY <1>1, <3>1, Kinds, Parts DEF KeptInv, Kept, ReceivesOthers
  <2>2. AggregateStatus(m) = Due(m)
    BY <2>1, AggregateIsDue
  <2>3. Next1(m) = IF Rank(Due(m)) > Rank(msgs[m].status) THEN Due(m) ELSE msgs[m].status
    BY <2>2
  <2>4. m \in up <=> Next1(m) # msgs[m].status
    BY <1>4
  <2>5. Rank(Due(m)) > Rank(msgs[m].status) => Due(m) # msgs[m].status
    BY <1>4
  <2>6. m \in up => next[m] = Next1(m)
    OBVIOUS
  <2> HIDE DEF Next1, up, next
  <2> QED BY <2>2, <2>3, <2>4, <2>5, <2>6
<1>6. up \subseteq tasks[h].ids /\ DOMAIN next = up
  OBVIOUS
<1>7. same = UNION {tasks[g].ids : g \in At({"tick"})}
  OBVIOUS
<1> HIDE DEF Next1, up, next, same
<1>8. ASSUME NEW m \in Said, m \notin tasks[h].ids PROVE TickHeld(m)' /\ CatchesUp(m)'
  <2>1. \A g \in Handlers : Writing(g, m)' => Writing(g, m) /\ tasks'[g].next[m] = tasks[g].next[m]
    BY <1>2, <1>6, <1>8 DEF Writing, Holds
  <2>2. \A g \in Handlers : Writing(g, m) => Writing(g, m)'
    BY <1>1, <1>2 DEF Writing, Holds
  <2>3. Reckoned(m) => Reckoned(m)'
    BY <1>1, <1>2, <1>8 DEF Reckoned, Holds
  <2> QED BY <1>1, <1>3, <1>4, <2>1, <2>2, <2>3, MessageTicks
<1>9. ASSUME NEW m \in Said, m \in tasks[h].ids PROVE TickHeld(m)' /\ CatchesUp(m)'
  <2>1. TickHeld(m)'
    BY <1>1, <1>4 DEF TickHeld
  <2>2. CatchesUp(m)'
    <3> SUFFICES ASSUME m \notin races'.ticks PROVE CatchesUp(m)'
      BY DEF CatchesUp
    <3>1. m \notin races.ticks /\ m \notin up \cap same
      BY <1>3
    <3>2. /\ \A g, k \in Handlers : Writing(g, m) /\ Writing(k, m) => g = k
          /\ \A g \in Handlers : Writing(g, m) => Rank(msgs[m].status) < Rank(tasks[g].next[m])
      BY <1>4, <3>1 DEF CatchesUp
    <3>3. CASE m \in up
      <4>1. \A g \in Handlers : ~Writing(g, m)
        BY <1>7, <3>1, <3>3 DEF Writing, Holds, At
      <4>2. \A g \in Handlers : Writing(g, m)' => g = h
        BY <1>2, <4>1 DEF Writing, Holds
      <4>3. tasks'[h].next[m] = Due(m) /\ Rank(Due(m)) > Rank(msgs[m].status)
        BY <1>2, <1>5, <1>9, <3>3
      <4>4. Writing(h, m)'
        BY <1>2, <3>3 DEF Writing, Holds
      <4>5. Rank(msgs'[m].status) < Rank(tasks'[h].next[m]) /\ Rank(Due(m)') <= Rank(tasks'[h].next[m])
        BY <1>1, <1>4, <4>3
      <4> QED BY <4>2, <4>4, <4>5 DEF CatchesUp
    <3>4. CASE m \notin up
      <4>1. Rank(Due(m)) <= Rank(msgs[m].status)
        BY <1>4, <1>5, <1>9, <3>4
      <4>2. \A g \in Handlers : Writing(g, m)' => Writing(g, m) /\ tasks'[g].next[m] = tasks[g].next[m]
        BY <1>2, <3>4 DEF Writing, Holds
      <4>3. ASSUME NEW g \in Handlers, Writing(g, m)'
            PROVE  Rank(msgs'[m].status) < Rank(tasks'[g].next[m]) /\ Rank(Due(m)') <= Rank(tasks'[g].next[m])
        <5>1. Rank(msgs[m].status) < Rank(tasks[g].next[m]) /\ tasks'[g].next[m] = tasks[g].next[m]
          BY <3>2, <4>2, <4>3
        <5>2. Rank(tasks[g].next[m]) \in 0..2
          <6>1. Holds(g, "tick") /\ m \in tasks[g].ids /\ m \in DOMAIN tasks[g].next
            BY <4>2, <4>3 DEF Writing, TicksInv, NextHeld
          <6> QED BY <6>1, NextTicks, Ranks, Parts
        <5>3. Due(m)' = Due(m) /\ Rank(Due(m)) \in 0..2 /\ Rank(msgs[m].status) \in 0..2
          BY <1>4
        <5> QED BY <1>1, <4>1, <5>1, <5>2, <5>3
      <4>4. Rank(Due(m)') <= Rank(msgs'[m].status)
        BY <1>1, <1>4, <4>1
      <4>5. \A g, k \in Handlers : Writing(g, m)' /\ Writing(k, m)' => g = k
        BY <3>2, <4>2
      <4> QED BY <4>3, <4>4, <4>5 DEF CatchesUp
    <3> QED BY <3>3, <3>4
  <2> QED BY <2>1, <2>2
<1>10. ASSUME NEW g \in Handlers, g # h PROVE NextHeld(g)'
  BY <1>2, <1>10, NextStays DEF TicksInv
<1>11. NextHeld(h)'
  <2>1. \A m \in up : m \in DOMAIN next /\ (m \in Said' => Rank(next[m]) <= Rank(Due(m)'))
    BY <1>3, <1>4, <1>5, <1>6
  <2> QED BY <1>2, <2>1 DEF NextHeld
<1> QED BY <1>3, <1>8, <1>9, <1>10, <1>11 DEF TicksInv

LEMMA WriteTicks ==
  ASSUME TypeInv, KeptInv, TicksInv, \A m \in DOMAIN msgs : Stays(m), NEW h \in Handlers, WriteAggregates(h)
  PROVE  TicksInv'
<1>1. /\ tasks'[h].pc \notin {"tick", "reckon"} /\ tasks[h].pc = "tick"
      /\ \A g \in Handlers : g # h => tasks'[g] = tasks[g]
  BY Moved DEF TypeInv, WriteAggregates, Idle
<1>2. DOMAIN msgs' = DOMAIN msgs /\ races' = races
  BY DEF WriteAggregates
<1>3. ASSUME NEW m \in Said'
      PROVE  /\ m \in Said /\ m \in DOMAIN msgs /\ TickHeld(m) /\ CatchesUp(m)
             /\ msgs[m] # Gone
  BY <1>2, <1>3 DEF Said, Stored, Stays, TicksInv
<1>4. ASSUME NEW m \in Said'
      PROVE  /\ \A g \in Handlers : Writing(g, m)' => Writing(g, m) /\ tasks'[g].next[m] = tasks[g].next[m] /\ g # h
             /\ \A g \in Handlers : g # h /\ Writing(g, m) => Writing(g, m)'
             /\ Reckoned(m) => Reckoned(m)'
  BY <1>1 DEF Writing, Reckoned, Holds
<1>5. ASSUME NEW m \in Said', m \notin tasks[h].ids PROVE TickHeld(m)' /\ CatchesUp(m)'
  <2>1. msgs'[m] = msgs[m]
    BY <1>3, <1>5, TickSteps
  <2>2. \A g \in Handlers : Writing(g, m) => Writing(g, m)'
    BY <1>4, <1>5 DEF Writing
  <2> QED BY <1>2, <1>3, <1>4, <2>1, <2>2, MessageTicks
<1>6. ASSUME NEW m \in Said', m \in tasks[h].ids PROVE TickHeld(m)' /\ CatchesUp(m)'
  <2>1. /\ msgs'[m].status = tasks[h].next[m] /\ msgs'[m].sender = msgs[m].sender
        /\ msgs'[m].readBy = msgs[m].readBy /\ msgs'[m].deliveredTo = msgs[m].deliveredTo
    BY <1>3, <1>6, TickSteps
  <2>2. Due(m)' = Due(m)
    BY <2>1, DueStays
  <2>3. Rank(tasks[h].next[m]) <= Rank(Due(m))
    BY <1>1, <1>3, <1>6 DEF TicksInv, NextHeld, Holds
  <2>4. TickHeld(m)'
    BY <2>1, <2>2, <2>3 DEF TickHeld
  <2>5. CatchesUp(m)'
    <3> SUFFICES ASSUME m \notin races'.ticks PROVE CatchesUp(m)'
      BY DEF CatchesUp
    <3>1. Writing(h, m)
      BY <1>1, <1>6 DEF Writing, Holds
    <3>2. /\ \A g \in Handlers : Writing(g, m) => g = h
          /\ Rank(Due(m)) <= Rank(tasks[h].next[m]) \/ Reckoned(m)
      BY <1>2, <1>3, <3>1 DEF CatchesUp
    <3>3. \A g \in Handlers : ~Writing(g, m)'
      BY <1>4, <3>2
    <3> QED BY <1>4, <2>1, <2>2, <3>2, <3>3 DEF CatchesUp
  <2> QED BY <2>4, <2>5
<1>7. ASSUME NEW g \in Handlers PROVE NextHeld(g)'
  <2>1. CASE tasks'[g].pc = "tick"
    BY <1>1, <2>1, NextStays DEF TicksInv
  <2>2. CASE tasks'[g].pc # "tick"
    BY <2>2 DEF NextHeld, Holds
  <2> QED BY <2>1, <2>2
<1> QED BY <1>5, <1>6, <1>7 DEF TicksInv

LEMMA CutTicks ==
  ASSUME TypeInv, KeptInv, TicksInv, \A m \in DOMAIN msgs : Stays(m), NEW H \in SUBSET Handlers, CutShort(H)
  PROVE  TicksInv'
<1>1. /\ \A g \in H : tasks'[g] = Idle
      /\ \A g \in Handlers : g \notin H => tasks'[g] = tasks[g]
  BY DEF CutShort
<1>2. msgs' = msgs /\ Said' = Said
  BY DEF CutShort, Said, Stored
<1>3. races'.ticks = races.ticks \cup UNION {tasks[g].ids : g \in {k \in H : tasks[k] # Idle} \cap At({"reckon", "tick"})}
  BY Parts DEF CutShort, Races
<1>4. \A m : m \notin races'.ticks => \A g \in H : tasks[g].pc \in {"reckon", "tick"} => m \notin tasks[g].ids
  BY <1>3 DEF At, Idle
<1>5. ASSUME NEW m \in Said PROVE TickHeld(m)' /\ CatchesUp(m)'
  <2>1. \A g \in Handlers : Writing(g, m)' => Writing(g, m) /\ tasks'[g].next[m] = tasks[g].next[m]
    BY <1>1 DEF Writing, Holds, Idle
  <2>2. m \notin races'.ticks => \A g \in Handlers : Writing(g, m) => Writing(g, m)'
    BY <1>1, <1>4 DEF Writing, Holds
  <2>3. m \notin races'.ticks /\ Reckoned(m) => Reckoned(m)'
    BY <1>1, <1>4 DEF Reckoned, Holds
  <2>4. TickHeld(m) /\ CatchesUp(m)
    BY DEF TicksInv
  <2> QED BY <1>2, <1>3, <2>1, <2>2, <2>3, <2>4, MessageTicks
<1>6. ASSUME NEW g \in Handlers PROVE NextHeld(g)'
  <2>1. CASE tasks'[g].pc = "tick"
    BY <1>1, <2>1, NextStays DEF TicksInv, Idle
  <2>2. CASE tasks'[g].pc # "tick"
    BY <2>2 DEF NextHeld, Holds
  <2> QED BY <2>1, <2>2
<1> QED BY <1>2, <1>5, <1>6 DEF TicksInv

\* Who has what, and who said it, is as before.
SaidAsBefore ==
  \A m \in Said' : /\ m \in Said
                   /\ msgs'[m].sender = msgs[m].sender /\ msgs'[m].readBy = msgs[m].readBy
                   /\ msgs'[m].deliveredTo = msgs[m].deliveredTo /\ msgs'[m].status = msgs[m].status

LEMMA SameSaid == ASSUME msgs' = msgs PROVE SaidAsBefore
BY DEF SaidAsBefore, Said, Stored

LEMMA RewordedSaid ==
  ASSUME NEW k, NEW a, NEW b, NEW c, Reworded(k, a, b, c) PROVE SaidAsBefore
BY DEF SaidAsBefore, Said, Stored, Reworded

LEMMA RewordsSaid ==
  ASSUME TypeInv
  PROVE  /\ \A h \in Handlers : SaveEdit(h) \/ SaveDeletion(h) => SaidAsBefore
         /\ \A p \in People, m \in Ids : DeleteForMe(p, m) => SaidAsBefore
<1>1. ASSUME NEW h \in Handlers, SaveEdit(h) PROVE SaidAsBefore
  <2>1. CASE tasks[h].id \in Stored
    BY <1>1, <2>1, RewordSteps, RewordedSaid
  <2>2. CASE tasks[h].id \notin Stored
    BY <1>1, <2>2, SameSaid DEF SaveEdit
  <2> QED BY <2>1, <2>2
<1>2. ASSUME NEW h \in Handlers, SaveDeletion(h) PROVE SaidAsBefore
  <2>1. CASE tasks[h].id \in Stored
    BY <1>2, <2>1, RewordSteps, RewordedSaid
  <2>2. CASE tasks[h].id \notin Stored
    BY <1>2, <2>2, SameSaid DEF SaveDeletion
  <2> QED BY <2>1, <2>2
<1>3. ASSUME NEW p \in People, NEW m \in Ids, DeleteForMe(p, m) PROVE SaidAsBefore
  <2>1. Reworded(m, msgs[m].text, msgs[m].deleted, msgs[m].deletedFor \cup {p})
    BY <1>3, RewordSteps
  <2> QED BY <2>1, RewordedSaid
<1> QED BY <1>1, <1>2, <1>3

LEMMA FewerSaid ==
  ASSUME TypeInv
  PROVE  /\ \A m \in Ids : Expire(m) => SaidAsBefore
         /\ \A h \in Handlers : CreateNotice(h) => SaidAsBefore
         /\ \A h \in Handlers, p \in People : HideAll(h, p) => SaidAsBefore
<1>1. ASSUME NEW m \in Ids, Expire(m) PROVE SaidAsBefore
  BY <1>1, ExpireSteps DEF SaidAsBefore, Said, Stored
<1>2. ASSUME NEW h \in Handlers, CreateNotice(h) PROVE SaidAsBefore
  <2>1. PICK n \in Message : msgs' = Append(msgs, n) /\ n.type = "notice"
    BY <1>2, NoticeInserts
  <2> QED BY <2>1, Inserted DEF SaidAsBefore, Said, Stored
<1>3. ASSUME NEW h \in Handlers, NEW p \in People, HideAll(h, p) PROVE SaidAsBefore
  <2>1. DOMAIN msgs' = DOMAIN msgs
    BY <1>3, DomainStays
  <2>2. ASSUME NEW m \in Said'
        PROVE  /\ m \in Said
               /\ msgs'[m].sender = msgs[m].sender /\ msgs'[m].readBy = msgs[m].readBy
               /\ msgs'[m].deliveredTo = msgs[m].deliveredTo /\ msgs'[m].status = msgs[m].status
    <3>1. m \in DOMAIN msgs /\ msgs'[m] # Gone /\ msgs'[m].type = "said"
      BY <2>1, <2>2 DEF Said, Stored
    <3>2. msgs[m] # Gone
      BY <1>3, <3>1, HideSteps
    <3> QED BY <1>3, <3>1, <3>2, HideSteps DEF Said, Stored
  <2> QED BY <2>2 DEF SaidAsBefore
<1> QED BY <1>1, <1>2, <1>3

LEMMA StepTicks ==
  ASSUME TypeInv, KeptInv, TicksInv, [Next]_vars
  PROVE  TicksInv'
<1>1. \A m \in DOMAIN msgs : Stays(m)
  BY MessagesStay
<1>2. races.ticks \subseteq races'.ticks
  BY RacesGrow DEF Noted
<1>3. ASSUME NEW h \in Handlers, NEW next, Goto(h, next), next.pc \notin {"reckon", "tick"},
             tasks[h].pc \notin {"reckon", "tick"}, SaidAsBefore
      PROVE  TicksInv'
  <2>1. \A g \in Handlers : tasks[g].pc \in {"reckon", "tick"} \/ tasks'[g].pc \in {"reckon", "tick"}
           => tasks'[g] = tasks[g]
    BY <1>3, Moved DEF TypeInv
  <2> QED BY <1>1, <1>2, <1>3, <2>1, TicksRest DEF SaidAsBefore
<1>4. ASSUME tasks' = tasks, SaidAsBefore PROVE TicksInv'
  BY <1>1, <1>2, <1>4, TicksRest DEF SaidAsBefore
<1>5. ASSUME NEW h \in Handlers, NEW p, NEW c, Begin(h, p, c) PROVE TicksInv'
  BY <1>3, <1>5, SameSaid DEF Begin, Asked, Idle
<1>6. ASSUME NEW h \in Handlers, NEW p, NEW c, SetDisappearing(h, p, c) PROVE TicksInv'
  BY <1>3, <1>6, SameSaid DEF SetDisappearing, Asked, Idle
<1>7. ASSUME NEW h \in Handlers, NEW p, NEW c, FindPending(h, p, c) PROVE TicksInv'
  BY <1>3, <1>7, SameSaid DEF FindPending, Asked, Idle
<1>8. ASSUME NEW h \in Handlers, NEW m, ReadForEdit(h, m) \/ ReadForDelete(h, m) PROVE TicksInv'
  BY <1>3, <1>8, SameSaid DEF ReadForEdit, ReadForDelete, Asked, Idle
<1>9. ASSUME NEW h \in Handlers, TouchLastMessage(h) \/ PreviewNotice(h) PROVE TicksInv'
  BY <1>3, <1>9, SameSaid DEF TouchLastMessage, PreviewNotice, Idle
<1>10. ASSUME NEW h \in Handlers, ClearUnread(h) \/ ForgetChat(h) \/ Tombstone(h) PROVE TicksInv'
  BY <1>3, <1>10, SameSaid DEF ClearUnread, ForgetChat, Tombstone, Idle
<1>11. ASSUME NEW h \in Handlers, CreateNotice(h) PROVE TicksInv'
  BY <1>3, <1>11, FewerSaid DEF CreateNotice
<1>12. ASSUME NEW h \in Handlers, NEW p \in People, HideAll(h, p) PROVE TicksInv'
  <2>1. SaidAsBefore
    BY <1>12, FewerSaid
  <2>2. Goto(h, [pc |-> "forget", who |-> p, at |-> clock']) /\ tasks[h].pc = "idle"
    BY <1>12 DEF HideAll, Asked, Idle
  <2> QED BY <1>3, <2>1, <2>2
<1>13. ASSUME NEW h \in Handlers, SaveEdit(h) PROVE TicksInv'
  BY <1>3, <1>13, RewordsSaid DEF SaveEdit, Idle
<1>14. ASSUME NEW h \in Handlers, SaveDeletion(h) PROVE TicksInv'
  <2>1. PICK next : Goto(h, next) /\ next.pc \notin {"reckon", "tick"}
    BY <1>14 DEF SaveDeletion, Idle
  <2> QED BY <1>3, <1>14, <2>1, RewordsSaid DEF SaveDeletion
<1>15. ASSUME NEW p \in People, NEW m \in Ids, DeleteForMe(p, m) PROVE TicksInv'
  BY <1>4, <1>15, RewordsSaid DEF DeleteForMe
<1>16. ASSUME NEW m \in Ids, Expire(m) PROVE TicksInv'
  BY <1>4, <1>16, FewerSaid DEF Expire
<1>17. CASE UNCHANGED vars
  BY <1>4, <1>17, SameSaid DEF vars
<1> QED BY <1>1, <1>5, <1>6, <1>7, <1>8, <1>9, <1>10, <1>11, <1>12, <1>13, <1>14, <1>15, <1>16, <1>17,
           CreateTicks, ReceiptTicks, ReckonTicks, WriteTicks, CutTicks
        DEF Next, ReadForSend, PostServiceMessage, MarkRead, MarkDelivered

-----------------------------------------------------------------------------
(* Counters. *)

LEMMA UnreadFinite ==
  ASSUME TypeInv, NEW p
  PROVE  IsFiniteSet(Unread(p)) /\ Cardinality(Unread(p)) \in Nat /\ Unread(p) \subseteq Said
<1>1. Unread(p) \subseteq 1..Len(msgs) /\ Len(msgs) \in Nat /\ Unread(p) \subseteq Said
  BY Lengths, Parts DEF Unread, Said, Stored
<1>2. IsFiniteSet(1..Len(msgs))
  BY <1>1, FS_Interval
<1> QED BY <1>1, <1>2, FS_Subset, FS_CardinalityType

\* What is to be covered shrinks, where nothing is newly said but by who will count it, and
\* nothing is counted.
LEMMA UnreadShrinks ==
  ASSUME TypeInv, \A m \in DOMAIN msgs : Stays(m), races.untold \subseteq races'.untold, NEW p,
         \A m \in Said' : m \in DOMAIN msgs \/ \E h \in Handlers : tasks'[h].pc = "touch" /\ tasks'[h].id = m,
         \A h \in Handlers : Holds(h, "touch") => tasks'[h] = tasks[h] \/ tasks[h].id \in races'.untold
  PROVE  Unread(p)' \subseteq Unread(p)
<1> SUFFICES ASSUME NEW m \in Unread(p)' PROVE m \in Unread(p)
  OBVIOUS
<1>1. /\ m \in Said' /\ m \notin races'.untold /\ msgs'[m].sender # p
      /\ p \notin msgs'[m].readBy \cup msgs'[m].deletedFor
      /\ \A h \in Handlers : tasks'[h].pc = "touch" => tasks'[h].id # m
  BY DEF Unread, At
<1>2. m \in DOMAIN msgs /\ Stays(m)
  BY <1>1
<1>3. /\ m \in Said /\ msgs[m].sender # p /\ p \notin msgs[m].readBy \cup msgs[m].deletedFor
  BY <1>1, <1>2 DEF Said, Stored, Stays
<1>4. ASSUME NEW h \in Handlers, Holds(h, "touch") PROVE tasks[h].id # m
  BY <1>1, <1>4 DEF Holds
<1> QED BY <1>1, <1>3, <1>4 DEF Unread, At, Holds

\* Whoever is clearing the counter of p was doing so, no further behind.
ClearsAsBefore(p) ==
  \A g \in Handlers : Clearing(g, p)' =>
    /\ Clearing(g, p)
    /\ tasks[g].pc = "receive" <=> tasks'[g].pc = "receive"
    /\ tasks[g].pc = "receive" => tasks'[g].ids = tasks[g].ids

LEMMA CoveredRests ==
  ASSUME TypeInv, NEW p \in People, Covered(p), races.counter \subseteq races'.counter,
         Unread(p)' \subseteq Unread(p), conv'.unread[p] = conv.unread[p], ClearsAsBefore(p)
  PROVE  Covered(p)'
<1> SUFFICES ASSUME p \notin races'.counter PROVE Covered(p)'
  BY DEF Covered
<1>1. Cardinality(Unread(p)) <= conv.unread[p] /\ \A h \in Handlers : ClearsAll(h, p)
  BY DEF Covered
<1>2. Cardinality(Unread(p)') <= Cardinality(Unread(p)) /\ Cardinality(Unread(p)') \in Nat
      /\ Cardinality(Unread(p)) \in Nat
  BY UnreadFinite, FS_Subset, FS_CardinalityType
<1>3. conv.unread[p] \in Nat
  BY ChatConstants, Parts DEF Conversation
<1>4. ASSUME NEW g \in Handlers PROVE ClearsAll(g, p)'
  <2> SUFFICES ASSUME Clearing(g, p)'
               PROVE  Unread(p)' \subseteq (IF tasks'[g].pc = "receive" THEN tasks'[g].ids ELSE {})
    BY DEF ClearsAll, Holds
  <2>1. /\ Clearing(g, p)
        /\ tasks[g].pc = "receive" <=> tasks'[g].pc = "receive"
        /\ tasks[g].pc = "receive" => tasks'[g].ids = tasks[g].ids
    BY DEF ClearsAsBefore
  <2>2. Unread(p) \subseteq (IF tasks[g].pc = "receive" THEN tasks[g].ids ELSE {})
    BY <1>1, <2>1 DEF ClearsAll, Holds
  <2> QED BY <2>1, <2>2
<1> QED BY <1>1, <1>2, <1>3, <1>4 DEF Covered

\* One request moves on, clearing nothing it was not clearing.
LEMMA MoveBadge ==
  ASSUME TypeInv, BadgeInv, \A m \in DOMAIN msgs : Stays(m), Noted,
         NEW h \in Handlers, NEW next, Goto(h, next), tasks[h].pc # "touch", conv'.unread = conv.unread,
         \/ \A m \in Said' : m \in DOMAIN msgs
         \/ next.pc = "touch" /\ \A m \in Said' : m \in DOMAIN msgs \/ m = next.id,
         \/ next.pc \notin {"receive", "reckon", "tick", "clear", "forget"}
         \/ next.pc = "tick" /\ tasks[h].pc = "reckon" /\ next.who = tasks[h].who /\ next.how = tasks[h].how
         \/ next.pc = "clear" /\ tasks[h].pc = "tick" /\ next.who = tasks[h].who /\ tasks[h].how = "read"
         \/ next.pc = "receive" /\ next.how # "read"
  PROVE  BadgeInv'
<1>1. tasks'[h] = next /\ \A g \in Handlers : g # h => tasks'[g] = tasks[g]
  BY Moved DEF TypeInv
<1>2. \A m \in Said' : m \in DOMAIN msgs \/ \E g \in Handlers : tasks'[g].pc = "touch" /\ tasks'[g].id = m
  BY <1>1
<1>3. \A g \in Handlers : Holds(g, "touch") => tasks'[g] = tasks[g] \/ tasks[g].id \in races'.untold
  BY <1>1 DEF Holds
<1>4. ASSUME NEW p \in People PROVE Covered(p)'
  <2>1. Unread(p)' \subseteq Unread(p)
    BY <1>2, <1>3, UnreadShrinks DEF Noted
  <2>2. ClearsAsBefore(p)
    BY <1>1 DEF ClearsAsBefore, Clearing
  <2> QED BY <2>1, <2>2, CoveredRests DEF Noted, BadgeInv
<1> QED BY <1>4 DEF BadgeInv

LEMMA FreeBadge ==
  ASSUME TypeInv, BadgeInv, \A m \in DOMAIN msgs : Stays(m), Noted, tasks' = tasks, conv' = conv,
         DOMAIN msgs' = DOMAIN msgs
  PROVE  BadgeInv'
<1>1. \A m \in Said' : m \in DOMAIN msgs
  BY DEF Said, Stored
<1>2. ASSUME NEW p \in People PROVE Covered(p)'
  <2>1. Unread(p)' \subseteq Unread(p)
    BY <1>1, UnreadShrinks DEF Noted
  <2>2. ClearsAsBefore(p)
    BY DEF ClearsAsBefore, Clearing
  <2> QED BY <2>1, <2>2, CoveredRests DEF Noted, BadgeInv
<1> QED BY <1>2 DEF BadgeInv

LEMMA CutBadge ==
  ASSUME TypeInv, BadgeInv, \A m \in DOMAIN msgs : Stays(m), Noted, NEW H \in SUBSET Handlers, CutShort(H)
  PROVE  BadgeInv'
<1>1. /\ \A g \in H : tasks'[g] = Idle
      /\ \A g \in Handlers : g \notin H => tasks'[g] = tasks[g]
      /\ conv' = conv /\ msgs' = msgs
  BY DEF CutShort
<1>2. races'.untold = races.untold \cup {tasks[g].id : g \in {k \in H : tasks[k] # Idle} \cap At({"touch"})}
  BY Parts DEF CutShort, Races
<1>3. \A m \in Said' : m \in DOMAIN msgs
  BY <1>1 DEF Said, Stored
<1>4. \A g \in Handlers : Holds(g, "touch") => tasks'[g] = tasks[g] \/ tasks[g].id \in races'.untold
  BY <1>1, <1>2 DEF Holds, At, Idle
<1>5. ASSUME NEW p \in People PROVE Covered(p)'
  <2>1. Unread(p)' \subseteq Unread(p)
    BY <1>3, <1>4, UnreadShrinks DEF Noted
  <2>2. ClearsAsBefore(p)
    BY <1>1 DEF ClearsAsBefore, Clearing, Idle
  <2> QED BY <1>1, <2>1, <2>2, CoveredRests DEF Noted, BadgeInv
<1> QED BY <1>5 DEF BadgeInv

\* A reader who finds nothing to mark has nothing left to be counted; one who finds
\* something marks all of it.
LEMMA PendingBadge ==
  ASSUME TypeInv, BadgeInv, \A m \in DOMAIN msgs : Stays(m), Noted,
         NEW h \in Handlers, NEW q \in People, FindPending(h, q, "read")
  PROVE  BadgeInv'
<1> DEFINE ids == Pending(q, "read")
<1>1. /\ \/ ids = {} /\ tasks'[h] = [pc |-> "clear", who |-> q]
         \/ ids # {} /\ tasks'[h] = [pc |-> "receive", how |-> "read", who |-> q, ids |-> ids]
      /\ \A g \in Handlers : g # h => tasks'[g] = tasks[g]
      /\ tasks[h].pc = "idle" /\ conv' = conv /\ msgs' = msgs /\ Said' = Said /\ Said \subseteq DOMAIN msgs
  BY Moved DEF TypeInv, FindPending, Asked, Idle, Said, Stored
<1>2. \A p : Unread(p)' \subseteq Unread(p)
  <2>1. \A m \in Said' : m \in DOMAIN msgs
    BY <1>1
  <2>2. \A g \in Handlers : Holds(g, "touch") => tasks'[g] = tasks[g] \/ tasks[g].id \in races'.untold
    BY <1>1 DEF Holds
  <2> QED BY <2>1, <2>2, UnreadShrinks DEF Noted
<1>3. Unread(q) \subseteq ids
  BY DEF Unread, Pending
<1>4. ASSUME NEW p \in People PROVE Covered(p)'
  <2> SUFFICES ASSUME p \notin races'.counter PROVE Covered(p)'
    BY DEF Covered
  <2>1. Cardinality(Unread(p)) <= conv.unread[p] /\ \A g \in Handlers : ClearsAll(g, p)
    BY DEF Covered, BadgeInv, Noted
  <2>2. Cardinality(Unread(p)') <= conv'.unread[p]
    <3>1. Cardinality(Unread(p)') <= Cardinality(Unread(p)) /\ Cardinality(Unread(p)') \in Nat
          /\ Cardinality(Unread(p)) \in Nat
      BY <1>2, UnreadFinite, FS_Subset, FS_CardinalityType
    <3>2. conv.unread[p] \in Nat
      BY ChatConstants, Parts DEF Conversation
    <3> QED BY <1>1, <2>1, <3>1, <3>2
  <2>3. ASSUME NEW g \in Handlers PROVE ClearsAll(g, p)'
    <3>1. CASE g # h
      <4>1. ClearsAll(g, p) /\ tasks'[g] = tasks[g]
        BY <1>1, <2>1, <3>1
      <4> QED BY <1>2, <4>1 DEF ClearsAll, Clearing, Holds
    <3>2. CASE g = h /\ p = q
      <4>1. Unread(p)' \subseteq ids
        BY <1>2, <1>3, <3>2
      <4> HIDE DEF ids
      <4> QED BY <1>1, <3>2, <4>1 DEF ClearsAll, Holds
    <3>3. CASE g = h /\ p # q
      <4> HIDE DEF ids
      <4> QED BY <1>1, <3>3 DEF ClearsAll, Clearing
    <3> QED BY <3>1, <3>2, <3>3
  <2> QED BY <2>2, <2>3 DEF Covered
<1> QED BY <1>4 DEF BadgeInv

\* Nothing is left to be covered.
LEMMA EmptyCovered ==
  ASSUME NEW p, Unread(p)' = {}, conv'.unread[p] \in Nat
  PROVE  Covered(p)'
<1>1. Cardinality(Unread(p)') = 0
  BY FS_EmptySet
<1>2. \A g \in Handlers : ClearsAll(g, p)'
  BY DEF ClearsAll
<1> QED BY <1>1, <1>2 DEF Covered

LEMMA ReceiptBadge ==
  ASSUME TypeInv, BadgeInv, \A m \in DOMAIN msgs : Stays(m), Noted, NEW h \in Handlers, AddReceipts(h)
  PROVE  BadgeInv'
<1>1. /\ tasks'[h] = [tasks[h] EXCEPT !.pc = "reckon"]
      /\ \A g \in Handlers : g # h => tasks'[g] = tasks[g]
      /\ tasks[h].pc = "receive" /\ conv' = conv /\ DOMAIN msgs' = DOMAIN msgs
  BY Moved DEF TypeInv, AddReceipts
<1>2. tasks'[h].pc = "reckon" /\ tasks'[h].who = tasks[h].who /\ tasks'[h].how = tasks[h].how
  <2>1. tasks[h] \in [pc : {"receive", "reckon"}, how : {"delivered", "read"}, who : People, ids : SUBSET Ids]
    BY <1>1, Records, Parts DEF Holds
  <2> QED BY <1>1, <2>1
<1>3. \A m \in Said' : m \in DOMAIN msgs
  BY <1>1 DEF Said, Stored
<1>4. \A g \in Handlers : Holds(g, "touch") => tasks'[g] = tasks[g] \/ tasks[g].id \in races'.untold
  BY <1>1 DEF Holds
<1>5. ASSUME NEW p \in People PROVE Covered(p)'
  <2>1. Unread(p)' \subseteq Unread(p)
    BY <1>3, <1>4, UnreadShrinks DEF Noted
  <2>2. CASE tasks[h].who # p \/ tasks[h].how # "read"
    <3>1. ClearsAsBefore(p)
      BY <1>1, <1>2, <2>2 DEF ClearsAsBefore, Clearing
    <3> QED BY <1>1, <2>1, <3>1, CoveredRests DEF Noted, BadgeInv
  <2>3. CASE tasks[h].who = p /\ tasks[h].how = "read" /\ p \notin races'.counter
    <3>1. Unread(p) \subseteq tasks[h].ids
      BY <1>1, <2>3 DEF BadgeInv, Covered, Noted, ClearsAll, Clearing, Holds
    <3>2. ASSUME NEW m \in Unread(p)' PROVE FALSE
      <4>1. m \in tasks[h].ids /\ m \in DOMAIN msgs /\ msgs[m] # Gone
        BY <2>1, <3>1 DEF Unread, Said, Stored
      <4>2. msgs'[m].readBy = msgs[m].readBy \cup {p}
        BY <2>3, <4>1, ReceiptSteps
      <4> QED BY <4>2 DEF Unread
    <3>3. conv'.unread[p] \in Nat
      BY <1>1, ChatConstants, Parts DEF Conversation
    <3> QED BY <3>2, <3>3, EmptyCovered
  <2>4. CASE p \in races'.counter
    BY <2>4 DEF Covered
  <2> QED BY <2>2, <2>3, <2>4
<1> QED BY <1>5 DEF BadgeInv

\* A reset finds nothing that it should have left.
LEMMA ClearBadge ==
  ASSUME TypeInv, BadgeInv, \A m \in DOMAIN msgs : Stays(m), Noted, NEW h \in Handlers,
         ClearUnread(h) \/ ForgetChat(h)
  PROVE  BadgeInv'
<1>1. Goto(h, Idle) /\ msgs' = msgs /\ tasks[h].pc \in {"clear", "forget"}
  BY DEF ClearUnread, ForgetChat
<1>2. /\ tasks'[h] = Idle
      /\ \A g \in Handlers : g # h => tasks'[g] = tasks[g]
  BY <1>1, Moved DEF TypeInv
<1>3. tasks[h].who \in People
  BY <1>1, Kinds, Parts DEF Holds
<1>4. conv'.unread[tasks[h].who] = 0 /\ \A p \in People : p # tasks[h].who => conv'.unread[p] = conv.unread[p]
  BY <1>3, Parts DEF ClearUnread, ForgetChat, Conversation
<1>5. \A m \in Said' : m \in DOMAIN msgs
  BY <1>1 DEF Said, Stored
<1>6. \A g \in Handlers : Holds(g, "touch") => tasks'[g] = tasks[g] \/ tasks[g].id \in races'.untold
  BY <1>1, <1>2 DEF Holds
<1>7. ASSUME NEW p \in People PROVE Covered(p)'
  <2>1. Unread(p)' \subseteq Unread(p)
    BY <1>5, <1>6, UnreadShrinks DEF Noted
  <2>2. CASE tasks[h].who # p
    <3>1. ClearsAsBefore(p)
      BY <1>2 DEF ClearsAsBefore, Clearing, Idle
    <3> QED BY <1>4, <2>1, <2>2, <3>1, CoveredRests DEF Noted, BadgeInv
  <2>3. CASE tasks[h].who = p /\ p \notin races'.counter
    <3>1. Unread(p) \subseteq {}
      BY <1>1, <2>3 DEF BadgeInv, Covered, Noted, ClearsAll, Clearing, Holds
    <3>2. Unread(p)' = {}
      BY <2>1, <3>1
    <3> QED BY <1>4, <2>3, <3>2, EmptyCovered
  <2>4. CASE p \in races'.counter
    BY <2>4 DEF Covered
  <2> QED BY <2>2, <2>3, <2>4
<1> QED BY <1>7 DEF BadgeInv

LEMMA HideBadge ==
  ASSUME TypeInv, BadgeInv, \A m \in DOMAIN msgs : Stays(m), Noted,
         NEW h \in Handlers, NEW q \in People, HideAll(h, q)
  PROVE  BadgeInv'
<1>1. /\ tasks'[h] = [pc |-> "forget", who |-> q, at |-> clock']
      /\ \A g \in Handlers : g # h => tasks'[g] = tasks[g]
      /\ tasks[h].pc = "idle" /\ conv' = conv /\ DOMAIN msgs' = DOMAIN msgs
  BY Moved DEF TypeInv, HideAll, Asked, Idle
<1>2. \A m \in Said' : m \in DOMAIN msgs
  BY <1>1 DEF Said, Stored
<1>3. \A g \in Handlers : Holds(g, "touch") => tasks'[g] = tasks[g] \/ tasks[g].id \in races'.untold
  BY <1>1 DEF Holds
<1>4. ASSUME NEW p \in People, p # q PROVE Covered(p)'
  <2>1. Unread(p)' \subseteq Unread(p)
    BY <1>2, <1>3, UnreadShrinks DEF Noted
  <2>2. ClearsAsBefore(p)
    BY <1>1, <1>4 DEF ClearsAsBefore, Clearing
  <2> QED BY <1>1, <2>1, <2>2, CoveredRests DEF Noted, BadgeInv
<1>5. Covered(q)'
  <2>1. ASSUME NEW m \in Unread(q)' PROVE FALSE
    <3>1. m \in DOMAIN msgs /\ msgs'[m] # Gone
      BY <1>2 DEF Unread, Said, Stored
    <3>2. msgs'[m].deletedFor = msgs[m].deletedFor \cup {q}
      BY <3>1, HideSteps
    <3> QED BY <3>2 DEF Unread
  <2>2. conv'.unread[q] \in Nat
    BY <1>1, ChatConstants, Parts DEF Conversation
  <2> QED BY <2>1, <2>2, EmptyCovered
<1> QED BY <1>4, <1>5 DEF BadgeInv

\* One more to be covered, and one more on the counter of each that it is for.
LEMMA TouchBadge ==
  ASSUME TypeInv, KeptInv, BadgeInv, NEW h \in Handlers, TouchLastMessage(h)
  PROVE  BadgeInv'
<1>1. /\ tasks'[h] = Idle /\ tasks[h].pc = "touch" /\ msgs' = msgs /\ Said' = Said
      /\ \A g \in Handlers : g # h => tasks'[g] = tasks[g]
  BY Moved DEF TypeInv, TouchLastMessage, Said, Stored
<1>2. \A p \in People : conv'.unread[p] = IF p = tasks[h].who THEN conv.unread[p] ELSE conv.unread[p] + 1
  BY Parts DEF TouchLastMessage, Touched, Conversation
<1>3. races'.untold = races.untold /\ races.counter \subseteq races'.counter
      /\ \A g \in Handlers : /\ tasks[g].pc \in {"receive", "reckon", "tick", "clear", "forget"}
                             /\ tasks[g].pc \in {"clear", "forget"} \/ tasks[g].how = "read"
           => tasks[g].who \in races'.counter
  <2> DEFINE clearing == {tasks[g].who : g \in {g \in At({"receive", "reckon", "tick", "clear", "forget"}) :
                                           tasks[g].pc = "forget" \/ tasks[g].pc = "clear"
                                             \/ tasks[g].how = "read"}}
  <2>1. races' = [races EXCEPT !.counter = @ \cup clearing, !.preview = @ \/ tasks[h].at < conv.at]
    BY DEF TouchLastMessage
  <2>2. \A g \in Handlers : /\ tasks[g].pc \in {"receive", "reckon", "tick", "clear", "forget"}
                            /\ tasks[g].pc \in {"clear", "forget"} \/ tasks[g].how = "read"
           => tasks[g].who \in clearing
    BY DEF At
  <2>3. races'.untold = races.untold /\ races'.counter = races.counter \cup clearing
    <3> HIDE DEF clearing
    <3> QED BY <2>1, Parts DEF Races
  <2> HIDE DEF clearing
  <2> QED BY <2>2, <2>3
<1>4. ASSUME NEW p \in People PROVE Covered(p)'
  <2> SUFFICES ASSUME p \notin races'.counter PROVE Covered(p)'
    BY DEF Covered
  <2>1. Cardinality(Unread(p)) <= conv.unread[p]
    BY <1>3 DEF BadgeInv, Covered
  <2>2. \A g \in Handlers : ClearsAll(g, p)'
    BY <1>1, <1>3 DEF ClearsAll, Clearing, Idle
  <2>3. conv.unread[p] \in Nat
    BY ChatConstants, Parts DEF Conversation
  <2>4. Unread(p)' \subseteq Unread(p) \cup {tasks[h].id}
    <3> SUFFICES ASSUME NEW m \in Unread(p)', m # tasks[h].id PROVE m \in Unread(p)
      OBVIOUS
    <3>1. /\ m \in Said /\ m \notin races.untold /\ msgs[m].sender # p
          /\ p \notin msgs[m].readBy \cup msgs[m].deletedFor
          /\ \A g \in Handlers : tasks'[g].pc = "touch" => tasks'[g].id # m
      BY <1>1, <1>3 DEF Unread, At
    <3>2. \A g \in Handlers : tasks[g].pc = "touch" => tasks[g].id # m
      BY <1>1, <3>1
    <3> QED BY <3>1, <3>2 DEF Unread, At
  <2>5. CASE p = tasks[h].who
    <3>1. tasks[h].id \notin Unread(p)'
      BY <1>1, <2>5 DEF KeptInv, Kept, TouchesOwn, Holds, Unread, Said, Stored
    <3>2. Unread(p)' \subseteq Unread(p)
      BY <2>4, <3>1
    <3>3. Cardinality(Unread(p)') <= Cardinality(Unread(p)) /\ Cardinality(Unread(p)') \in Nat
          /\ Cardinality(Unread(p)) \in Nat
      BY <3>2, UnreadFinite, FS_Subset, FS_CardinalityType
    <3> QED BY <1>2, <2>1, <2>2, <2>3, <2>5, <3>3 DEF Covered
  <2>6. CASE p # tasks[h].who
    <3>1. /\ IsFiniteSet(Unread(p) \cup {tasks[h].id})
          /\ Cardinality(Unread(p) \cup {tasks[h].id}) <= Cardinality(Unread(p)) + 1
          /\ Cardinality(Unread(p) \cup {tasks[h].id}) \in Nat /\ Cardinality(Unread(p)) \in Nat
      <4>1. IsFiniteSet(Unread(p)) /\ Cardinality(Unread(p)) \in Nat
        BY UnreadFinite
      <4>2. CASE tasks[h].id \in Unread(p)
        <5>1. Unread(p) \cup {tasks[h].id} = Unread(p)
          BY <4>2
        <5> QED BY <4>1, <5>1
      <4>3. CASE tasks[h].id \notin Unread(p)
        <5>1. /\ IsFiniteSet(Unread(p) \cup {tasks[h].id})
              /\ Cardinality(Unread(p) \cup {tasks[h].id}) = Cardinality(Unread(p)) + 1
          BY <4>1, <4>3, FS_AddElement
        <5> QED BY <4>1, <5>1
      <4> QED BY <4>2, <4>3
    <3>2. Cardinality(Unread(p)') <= Cardinality(Unread(p) \cup {tasks[h].id}) /\ Cardinality(Unread(p)') \in Nat
      BY <2>4, <3>1, FS_Subset, FS_CardinalityType
    <3> QED BY <1>2, <2>1, <2>2, <2>3, <2>6, <3>1, <3>2 DEF Covered
  <2> QED BY <2>5, <2>6
<1> QED BY <1>4 DEF BadgeInv

LEMMA StepBadge ==
  ASSUME TypeInv, KeptInv, BadgeInv, [Next]_vars
  PROVE  BadgeInv'
<1>1. \A m \in DOMAIN msgs : Stays(m)
  BY MessagesStay
<1>2. Noted
  BY RacesGrow
<1>3. DOMAIN msgs' = DOMAIN msgs \/ SaidAsBefore => \A m \in Said' : m \in DOMAIN msgs
  BY DEF SaidAsBefore, Said, Stored
<1>4. ASSUME NEW h \in Handlers, NEW next, Goto(h, next), tasks[h].pc # "touch", conv'.unread = conv.unread,
             next.pc \notin {"receive", "reckon", "tick", "clear", "forget"},
             DOMAIN msgs' = DOMAIN msgs \/ SaidAsBefore
      PROVE  BadgeInv'
  BY <1>1, <1>2, <1>3, <1>4, MoveBadge
<1>5. ASSUME NEW h \in Handlers, NEW p, NEW c, Begin(h, p, c) PROVE BadgeInv'
  BY <1>4, <1>5 DEF Begin, Asked, Idle
<1>6. ASSUME NEW h \in Handlers, NEW p, NEW c, SetDisappearing(h, p, c) PROVE BadgeInv'
  <2>1. conv'.unread = conv.unread
    BY <1>6, Parts DEF SetDisappearing, Conversation
  <2> QED BY <1>4, <1>6, <2>1 DEF SetDisappearing, Asked, Idle
<1>7. ASSUME NEW h \in Handlers, NEW m, ReadForEdit(h, m) \/ ReadForDelete(h, m) PROVE BadgeInv'
  BY <1>4, <1>7 DEF ReadForEdit, ReadForDelete, Asked, Idle
<1>8. ASSUME NEW h \in Handlers, Create(h) PROVE BadgeInv'
  <2>1. PICK n \in Message : msgs' = Append(msgs, n)
    BY <1>8, CreateInserts
  <2>2. \A m \in Said' : m \in DOMAIN msgs \/ m = Len(msgs) + 1
    BY <2>1, Inserted DEF Said, Stored
  <2> QED BY <1>1, <1>2, <1>8, <2>2, MoveBadge DEF Create
<1>9. ASSUME NEW h \in Handlers, CreateNotice(h) PROVE BadgeInv'
  BY <1>4, <1>9, FewerSaid DEF CreateNotice
<1>10. ASSUME NEW h \in Handlers, PreviewNotice(h) PROVE BadgeInv'
  <2>1. conv'.unread = conv.unread
    BY <1>10, Parts DEF PreviewNotice, Conversation
  <2> QED BY <1>4, <1>10, <2>1 DEF PreviewNotice, Idle
<1>11. ASSUME NEW h \in Handlers, NEW p \in People, MarkDelivered(h, p) PROVE BadgeInv'
  <2>1. Goto(h, [pc |-> "receive", how |-> "delivered", who |-> p, ids |-> Pending(p, "delivered")])
    BY <1>11 DEF MarkDelivered, FindPending
  <2>2. tasks[h].pc = "idle" /\ conv' = conv /\ \A m \in Said' : m \in DOMAIN msgs
    BY <1>3, <1>11 DEF MarkDelivered, FindPending, Asked, Idle
  <2> QED BY <1>1, <1>2, <2>1, <2>2, MoveBadge
<1>12. ASSUME NEW h \in Handlers, ReadForAggregates(h) PROVE BadgeInv'
  <2>1. PICK next : Goto(h, next) /\ next.pc = "tick" /\ next.who = tasks[h].who /\ next.how = tasks[h].how
    BY <1>12 DEF ReadForAggregates
  <2>2. tasks[h].pc = "reckon" /\ conv' = conv /\ \A m \in Said' : m \in DOMAIN msgs
    BY <1>3, <1>12 DEF ReadForAggregates
  <2> QED BY <1>1, <1>2, <2>1, <2>2, MoveBadge
<1>13. ASSUME NEW h \in Handlers, WriteAggregates(h) PROVE BadgeInv'
  <2>1. tasks[h].pc = "tick" /\ conv' = conv /\ \A m \in Said' : m \in DOMAIN msgs
    BY <1>3, <1>13 DEF WriteAggregates
  <2>2. CASE tasks[h].how = "read"
    <3>1. Goto(h, [pc |-> "clear", who |-> tasks[h].who])
      BY <1>13, <2>2 DEF WriteAggregates
    <3> QED BY <1>1, <1>2, <2>1, <2>2, <3>1, MoveBadge
  <2>3. CASE tasks[h].how # "read"
    <3>1. Goto(h, Idle) /\ Idle.pc = "idle"
      BY <1>13, <2>3 DEF WriteAggregates, Idle
    <3> QED BY <1>1, <1>2, <2>1, <3>1, MoveBadge
  <2> QED BY <2>2, <2>3
<1>14. ASSUME NEW h \in Handlers, SaveEdit(h) PROVE BadgeInv'
  BY <1>4, <1>14, DomainStays DEF SaveEdit, Idle
<1>15. ASSUME NEW h \in Handlers, SaveDeletion(h) PROVE BadgeInv'
  <2>1. PICK next : Goto(h, next) /\ next.pc \in {"idle", "tombstone"}
    BY <1>15 DEF SaveDeletion, Idle
  <2> QED BY <1>4, <1>15, <2>1, DomainStays DEF SaveDeletion
<1>16. ASSUME NEW h \in Handlers, Tombstone(h) PROVE BadgeInv'
  <2>1. conv'.unread = conv.unread
    BY <1>16, Parts DEF Tombstone, Conversation
  <2> QED BY <1>4, <1>16, <2>1, DomainStays DEF Tombstone, Idle
<1>17. ASSUME NEW p, NEW m, DeleteForMe(p, m) PROVE BadgeInv'
  BY <1>1, <1>2, <1>17, FreeBadge, DomainStays DEF DeleteForMe
<1>18. ASSUME NEW m, Expire(m) PROVE BadgeInv'
  BY <1>1, <1>2, <1>18, FreeBadge, DomainStays DEF Expire
<1>19. CASE UNCHANGED vars
  BY <1>1, <1>2, <1>19, FreeBadge DEF vars
<1>20. ASSUME NEW h \in Handlers, NEW p \in People, MarkRead(h, p) PROVE BadgeInv'
  BY <1>1, <1>2, <1>20, PendingBadge DEF MarkRead
<1> QED BY <1>1, <1>2, <1>5, <1>6, <1>7, <1>8, <1>9, <1>10, <1>11, <1>12, <1>13, <1>14, <1>15, <1>16, <1>17, <1>18,
           <1>19, <1>20, ReceiptBadge, ClearBadge, HideBadge, TouchBadge, CutBadge
        DEF Next, ReadForSend, PostServiceMessage

-----------------------------------------------------------------------------
(* The list of chats. *)

\* What a step may do to what a request keeps of instants, and to the counters.
LEMMA ListRests ==
  ASSUME TypeInv, ListInv, Noted, NEW h \in Handlers, NEW next, Goto(h, next),
         clock' = clock \/ clock' = clock + 1, conv'.last = conv.last, conv'.at = conv.at,
         conv'.cleared = conv.cleared,
         \A p \in People : conv'.unread[p] = conv.unread[p] \/ conv'.unread[p] = 0,
         next.pc \in {"touch", "preview"} => next.at = clock + 1 /\ clock' = clock + 1,
         next.pc # "forget"
  PROVE  ListInv'
<1>1. tasks'[h] = next /\ \A g \in Handlers : g # h => tasks'[g] = tasks[g]
  BY Moved DEF TypeInv
<1>2. clock \in Nat /\ clock <= clock' /\ clock' \in Nat
  BY Parts, ChatConstants
<1>3. ASSUME NEW p \in People PROVE ClearedBefore(p)' /\ SaidSince(p)' /\ Silent(p)'
  <2>1. ClearedBefore(p) /\ SaidSince(p) /\ Silent(p)
    BY DEF ListInv
  <2>2. conv.cleared[p] \in Nat /\ conv.cleared[p] <= clock
    BY <2>1, Parts, ChatConstants DEF Conversation, ClearedBefore
  <2>3. \A g \in Handlers : Holds(g, "forget") \/ Holds(g, "touch") \/ Holds(g, "preview") =>
          tasks[g].at \in Nat /\ tasks[g].at <= clock
    BY <2>1, Kinds, Parts, ChatConstants DEF ClearedBefore, Holds
  <2>4. ClearedBefore(p)'
    BY <1>1, <1>2, <2>2, <2>3 DEF ClearedBefore, Holds
  <2>5. SaidSince(p)'
    <3> SUFFICES ASSUME p \notin races'.counter, NEW k \in Handlers, tasks'[k].pc = "touch"
                 PROVE  /\ conv'.cleared[p] < tasks'[k].at
                        /\ \A g \in Handlers : tasks'[g].pc = "forget" /\ tasks'[g].who = p => tasks'[g].at < tasks'[k].at
      BY DEF SaidSince, Touching, At, Holds
    <3>1. p \notin races.counter
      BY DEF Noted
    <3>2. CASE k = h
      BY <1>1, <1>2, <2>2, <2>3, <3>2 DEF Holds
    <3>3. CASE k # h
      <4>1. tasks'[k] = tasks[k] /\ k \in Touching
        BY <1>1, <3>3 DEF Touching, At
      <4>2. /\ conv.cleared[p] < tasks[k].at
            /\ \A g \in Handlers : Holds(g, "forget") /\ tasks[g].who = p => tasks[g].at < tasks[k].at
        BY <2>1, <3>1, <4>1 DEF SaidSince
      <4> QED BY <1>1, <4>1, <4>2 DEF Holds
    <3> QED BY <3>2, <3>3
  <2>6. Silent(p)'
    BY <2>1 DEF Silent, HiddenFor, Noted
  <2> QED BY <2>4, <2>5, <2>6
<1> QED BY <1>3 DEF ListInv

LEMMA FreeList ==
  ASSUME TypeInv, ListInv, Noted, conv' = conv, clock' = clock,
         \A g \in Handlers : tasks'[g] = tasks[g] \/ tasks'[g] = Idle
  PROVE  ListInv'
<1>1. ASSUME NEW p \in People PROVE ClearedBefore(p)' /\ SaidSince(p)' /\ Silent(p)'
  <2>1. ClearedBefore(p) /\ SaidSince(p) /\ Silent(p)
    BY DEF ListInv
  <2>2. ClearedBefore(p)'
    BY <2>1 DEF ClearedBefore, Holds, Idle
  <2>3. SaidSince(p)'
    BY <2>1 DEF SaidSince, Touching, At, Holds, Idle, Noted
  <2>4. Silent(p)'
    BY <2>1 DEF Silent, HiddenFor, Noted
  <2> QED BY <2>2, <2>3, <2>4
<1> QED BY <1>1 DEF ListInv

\* A message that counts was said after the chat was cleared, and brings it back.
LEMMA TouchList ==
  ASSUME TypeInv, ListInv, Noted, NEW h \in Handlers, TouchLastMessage(h)
  PROVE  ListInv'
<1>1. /\ tasks'[h] = Idle /\ tasks[h].pc = "touch" /\ clock' = clock
      /\ \A g \in Handlers : g # h => tasks'[g] = tasks[g]
  BY Moved DEF TypeInv, TouchLastMessage
<1>2. /\ conv'.cleared = conv.cleared /\ conv'.at = tasks[h].at /\ conv'.last = tasks[h].id
  BY Parts DEF TouchLastMessage, Touched, Conversation
<1>3. tasks[h].id # None /\ tasks[h].at \in Nat
  BY <1>1, Kinds, Parts, ChatConstants DEF Holds, Ids, None
<1>4. ASSUME NEW p \in People PROVE ClearedBefore(p)' /\ SaidSince(p)' /\ Silent(p)'
  <2>1. ClearedBefore(p) /\ SaidSince(p)
    BY DEF ListInv
  <2>2. ClearedBefore(p)'
    BY <1>1, <1>2, <2>1 DEF ClearedBefore, Holds, Idle
  <2>3. SaidSince(p)'
    BY <1>1, <1>2, <2>1 DEF SaidSince, Touching, At, Holds, Idle, Noted
  <2>4. Silent(p)'
    <3> SUFFICES ASSUME p \notin races'.counter PROVE ~HiddenFor(p)'
      BY DEF Silent
    <3>1. conv.cleared[p] < tasks[h].at
      BY <1>1, <2>1 DEF SaidSince, Touching, At, Noted
    <3>2. conv.cleared[p] \in Nat
      BY Parts, ChatConstants DEF Conversation
    <3> QED BY <1>2, <1>3, <3>1, <3>2 DEF HiddenFor
  <2> QED BY <2>2, <2>3, <2>4
<1> QED BY <1>4 DEF ListInv

LEMMA PreviewList ==
  ASSUME TypeInv, ListInv, Noted, NEW h \in Handlers, PreviewNotice(h)
  PROVE  ListInv'
<1>1. /\ tasks'[h] = Idle /\ tasks[h].pc = "preview" /\ clock' = clock
      /\ \A g \in Handlers : g # h => tasks'[g] = tasks[g]
  BY Moved DEF TypeInv, PreviewNotice
<1>2. /\ conv'.cleared = conv.cleared /\ conv'.at = tasks[h].at /\ conv'.last = tasks[h].id
      /\ conv'.unread = conv.unread
  BY Parts DEF PreviewNotice, Conversation
<1>3. tasks[h].at \in Nat /\ conv.at \in Nat /\ tasks[h].id # None
  BY <1>1, Kinds, Parts, ChatConstants DEF Holds, Conversation, Ids, None
<1>4. ~races'.preview => ~races.preview /\ ~(tasks[h].at < conv.at)
  <2>1. races' = [races EXCEPT !.preview = @ \/ tasks[h].at < conv.at]
    BY DEF PreviewNotice
  <2>2. races \in Races
    BY Parts
  <2>3. races'.preview = (races.preview \/ tasks[h].at < conv.at)
    BY <2>1, <2>2 DEF Races
  <2> QED BY <2>3
<1>5. ASSUME NEW p \in People PROVE ClearedBefore(p)' /\ SaidSince(p)' /\ Silent(p)'
  <2>1. ClearedBefore(p) /\ SaidSince(p) /\ Silent(p)
    BY DEF ListInv
  <2>2. ClearedBefore(p)'
    BY <1>1, <1>2, <2>1 DEF ClearedBefore, Holds, Idle
  <2>3. SaidSince(p)'
    BY <1>1, <1>2, <2>1 DEF SaidSince, Touching, At, Holds, Idle, Noted
  <2>4. Silent(p)'
    <3> SUFFICES ASSUME ~races'.preview, p \notin races'.counter, HiddenFor(p)' PROVE conv'.unread[p] = 0
      BY DEF Silent
    <3>1. conv.cleared[p] \in Nat
      BY Parts, ChatConstants DEF Conversation
    <3>2. conv.cleared[p] # 0 /\ tasks[h].at <= conv.cleared[p] /\ conv.at <= tasks[h].at
      BY <1>2, <1>3, <1>4 DEF HiddenFor
    <3>3. HiddenFor(p)
      BY <1>3, <3>1, <3>2 DEF HiddenFor
    <3> QED BY <1>2, <1>4, <2>1, <3>3 DEF Silent, Noted
  <2> QED BY <2>2, <2>3, <2>4
<1> QED BY <1>5 DEF ListInv

\* Whoever deletes the chat while a message is being counted is noted.
LEMMA HideList ==
  ASSUME TypeInv, ListInv, Noted, NEW h \in Handlers, NEW q \in People, HideAll(h, q)
  PROVE  ListInv'
<1>1. /\ tasks'[h] = [pc |-> "forget", who |-> q, at |-> clock'] /\ tasks[h].pc = "idle"
      /\ clock' = clock + 1 /\ conv' = conv
      /\ \A g \in Handlers : g # h => tasks'[g] = tasks[g]
  BY Moved DEF TypeInv, HideAll, Asked, Idle
<1>2. Touching # {} => q \in races'.counter
  BY Parts DEF HideAll, Touching, Races
<1>3. clock \in Nat
  BY Parts, ChatConstants
<1>4. ASSUME NEW p \in People PROVE ClearedBefore(p)' /\ SaidSince(p)' /\ Silent(p)'
  <2>1. ClearedBefore(p) /\ SaidSince(p) /\ Silent(p)
    BY DEF ListInv
  <2>2. conv.cleared[p] \in Nat /\ conv.cleared[p] <= clock
    BY <2>1, Parts, ChatConstants DEF Conversation, ClearedBefore
  <2>3. \A g \in Handlers : Holds(g, "forget") \/ Holds(g, "touch") \/ Holds(g, "preview") =>
          tasks[g].at \in Nat /\ tasks[g].at <= clock
    BY <2>1, Kinds, Parts, ChatConstants DEF ClearedBefore, Holds
  <2>4. ClearedBefore(p)'
    BY <1>1, <1>3, <2>2, <2>3 DEF ClearedBefore, Holds
  <2>5. SaidSince(p)'
    <3> SUFFICES ASSUME p \notin races'.counter, NEW k \in Handlers, tasks'[k].pc = "touch"
                 PROVE  /\ conv'.cleared[p] < tasks'[k].at
                        /\ \A g \in Handlers : tasks'[g].pc = "forget" /\ tasks'[g].who = p => tasks'[g].at < tasks'[k].at
      BY DEF SaidSince, Touching, At, Holds
    <3>1. k # h /\ tasks'[k] = tasks[k] /\ k \in Touching /\ p # q
      BY <1>1, <1>2 DEF Touching, At
    <3>2. /\ conv.cleared[p] < tasks[k].at
          /\ \A g \in Handlers : Holds(g, "forget") /\ tasks[g].who = p => tasks[g].at < tasks[k].at
      BY <2>1, <3>1 DEF SaidSince, Noted
    <3> QED BY <1>1, <3>1, <3>2 DEF Holds
  <2>6. Silent(p)'
    BY <1>1, <2>1 DEF Silent, HiddenFor, Noted
  <2> QED BY <2>4, <2>5, <2>6
<1> QED BY <1>4 DEF ListInv

LEMMA ForgetList ==
  ASSUME TypeInv, ListInv, Noted, NEW h \in Handlers, ForgetChat(h)
  PROVE  ListInv'
<1>1. /\ tasks'[h] = Idle /\ tasks[h].pc = "forget" /\ clock' = clock
      /\ \A g \in Handlers : g # h => tasks'[g] = tasks[g]
  BY Moved DEF TypeInv, ForgetChat
<1>2. tasks[h].who \in People /\ tasks[h].at \in Nat
  BY <1>1, Kinds, Parts, ChatConstants DEF Holds
<1>3. /\ conv'.cleared[tasks[h].who] = tasks[h].at /\ conv'.unread[tasks[h].who] = 0
      /\ conv'.last = conv.last /\ conv'.at = conv.at
      /\ \A p \in People : p # tasks[h].who => conv'.cleared[p] = conv.cleared[p] /\ conv'.unread[p] = conv.unread[p]
  BY <1>2, Parts DEF ForgetChat, Conversation
<1>4. ASSUME NEW p \in People PROVE ClearedBefore(p)' /\ SaidSince(p)' /\ Silent(p)'
  <2>1. ClearedBefore(p) /\ SaidSince(p) /\ Silent(p)
    BY DEF ListInv
  <2>2. ClearedBefore(p)'
    BY <1>1, <1>3, <2>1 DEF ClearedBefore, Holds, Idle
  <2>3. SaidSince(p)'
    BY <1>1, <1>3, <2>1 DEF SaidSince, Touching, At, Holds, Idle, Noted
  <2>4. Silent(p)'
    BY <1>3, <2>1 DEF Silent, HiddenFor, Noted
  <2> QED BY <2>2, <2>3, <2>4
<1> QED BY <1>4 DEF ListInv

LEMMA StepList ==
  ASSUME TypeInv, ListInv, [Next]_vars
  PROVE  ListInv'
<1>1. Noted
  BY RacesGrow
<1>2. ASSUME NEW h \in Handlers, NEW p, NEW c, Begin(h, p, c) PROVE ListInv'
  BY <1>1, <1>2, ListRests DEF Begin
<1>3. ASSUME NEW h \in Handlers, NEW p, NEW c, SetDisappearing(h, p, c) PROVE ListInv'
  <2>1. /\ conv'.last = conv.last /\ conv'.at = conv.at /\ conv'.cleared = conv.cleared
        /\ conv'.unread = conv.unread
    BY <1>3, Parts DEF SetDisappearing, Conversation
  <2> QED BY <1>1, <1>3, <2>1, ListRests DEF SetDisappearing
<1>4. ASSUME NEW h \in Handlers, NEW p, NEW c, FindPending(h, p, c) PROVE ListInv'
  <2>1. PICK next : Goto(h, next) /\ next.pc \in {"clear", "receive"}
    BY <1>4 DEF FindPending
  <2> QED BY <1>1, <1>4, <2>1, ListRests DEF FindPending
<1>5. ASSUME NEW h \in Handlers, NEW m, ReadForEdit(h, m) \/ ReadForDelete(h, m) PROVE ListInv'
  BY <1>1, <1>5, ListRests DEF ReadForEdit, ReadForDelete
<1>6. ASSUME NEW h \in Handlers, Create(h) \/ CreateNotice(h) PROVE ListInv'
  <2>1. PICK next : Goto(h, next) /\ next.pc \in {"touch", "preview"} /\ next.at = clock'
    BY <1>6 DEF Create, CreateNotice
  <2>2. clock' = clock + 1 /\ conv' = conv
    BY <1>6 DEF Create, CreateNotice
  <2> QED BY <1>1, <2>1, <2>2, ListRests
<1>7. ASSUME NEW h \in Handlers, AddReceipts(h) PROVE ListInv'
  <2>1. PICK next : Goto(h, next) /\ next.pc = "reckon"
    <3>1. tasks[h] \in [pc : {"receive", "reckon"}, how : {"delivered", "read"}, who : People, ids : SUBSET Ids]
      BY <1>7, Records, Parts DEF AddReceipts, Holds
    <3> WITNESS [tasks[h] EXCEPT !.pc = "reckon"]
    <3> QED BY <1>7, <3>1 DEF AddReceipts
  <2> QED BY <1>1, <1>7, <2>1, ListRests DEF AddReceipts
<1>8. ASSUME NEW h \in Handlers, ReadForAggregates(h) PROVE ListInv'
  <2>1. PICK next : Goto(h, next) /\ next.pc = "tick"
    BY <1>8 DEF ReadForAggregates
  <2> QED BY <1>1, <1>8, <2>1, ListRests DEF ReadForAggregates
<1>9. ASSUME NEW h \in Handlers, WriteAggregates(h) PROVE ListInv'
  <2>1. PICK next : Goto(h, next) /\ next.pc \in {"clear", "idle"}
    BY <1>9 DEF WriteAggregates, Idle
  <2> QED BY <1>1, <1>9, <2>1, ListRests DEF WriteAggregates
<1>10. ASSUME NEW h \in Handlers, ClearUnread(h) \/ Tombstone(h) PROVE ListInv'
  <2>1. /\ conv'.last = conv.last /\ conv'.at = conv.at /\ conv'.cleared = conv.cleared
        /\ \A p \in People : conv'.unread[p] = conv.unread[p] \/ conv'.unread[p] = 0
    BY <1>10, Parts DEF ClearUnread, Tombstone, Conversation
  <2>2. Goto(h, Idle) /\ Idle.pc = "idle" /\ clock' = clock
    BY <1>10 DEF ClearUnread, Tombstone, Idle
  <2> QED BY <1>1, <2>1, <2>2, ListRests
<1>11. ASSUME NEW h \in Handlers, SaveEdit(h) \/ SaveDeletion(h) PROVE ListInv'
  <2>1. PICK next : Goto(h, next) /\ next.pc \in {"idle", "tombstone"}
    BY <1>11 DEF SaveEdit, SaveDeletion, Idle
  <2> QED BY <1>1, <1>11, <2>1, ListRests DEF SaveEdit, SaveDeletion
<1>12. ASSUME NEW p, NEW m, DeleteForMe(p, m) \/ Expire(m) \/ UNCHANGED vars PROVE ListInv'
  BY <1>1, <1>12, FreeList DEF DeleteForMe, Expire, vars
<1>13. ASSUME NEW H \in SUBSET Handlers, CutShort(H) PROVE ListInv'
  BY <1>1, <1>13, FreeList DEF CutShort
<1> QED BY <1>1, <1>2, <1>3, <1>4, <1>5, <1>6, <1>7, <1>8, <1>9, <1>10, <1>11, <1>12, <1>13,
           TouchList, PreviewList, HideList, ForgetList
        DEF Next, ReadForSend, PostServiceMessage, MarkRead, MarkDelivered

-----------------------------------------------------------------------------
(* Deleted words. *)

\* A message keeps its words, or its lack of them, and so does the preview of it.
LEMMA MessageWords ==
  ASSUME NEW m, WordsGone(m), races.words \subseteq races'.words,
         msgs'[m].text = msgs[m].text, msgs'[m].deleted = msgs[m].deleted,
         conv'.last = m => conv.last = m /\ (conv.tombstone => conv'.tombstone),
         \A g \in Handlers : Holds(g, "tombstone") /\ tasks[g].id = m
           => tasks'[g] = tasks[g] \/ m \in races'.words,
         \A g \in Handlers : Holds(g, "touch")' \/ Holds(g, "preview")'
           => tasks'[g] = tasks[g] \/ tasks'[g].id # m
  PROVE  WordsGone(m)'
<1> SUFFICES ASSUME m \notin races'.words, msgs'[m].deleted
             PROVE  /\ ~msgs'[m].text
                    /\ conv'.last = m => conv'.tombstone
                                         \/ \E h \in Handlers : Holds(h, "tombstone")' /\ tasks'[h].id = m
                    /\ \A h \in Handlers : Holds(h, "touch")' \/ Holds(h, "preview")' => tasks'[h].id # m
  BY DEF WordsGone
<1>1. /\ ~msgs[m].text
      /\ conv.last = m => conv.tombstone \/ \E h \in Handlers : Holds(h, "tombstone") /\ tasks[h].id = m
      /\ \A h \in Handlers : Holds(h, "touch") \/ Holds(h, "preview") => tasks[h].id # m
  BY DEF WordsGone
<1>2. ASSUME NEW h \in Handlers, Holds(h, "touch")' \/ Holds(h, "preview")' PROVE tasks'[h].id # m
  BY <1>1, <1>2 DEF Holds
<1>3. ASSUME conv'.last = m
      PROVE  conv'.tombstone \/ \E h \in Handlers : Holds(h, "tombstone")' /\ tasks'[h].id = m
  BY <1>1, <1>3 DEF Holds
<1> QED BY <1>1, <1>2, <1>3

\* Nobody's words change.
WordsAsBefore ==
  \A m \in Stored' : m \in Stored /\ msgs'[m].text = msgs[m].text /\ msgs'[m].deleted = msgs[m].deleted

LEMMA WordsStay ==
  ASSUME TypeInv
  PROVE  /\ msgs' = msgs => WordsAsBefore
         /\ \A h \in Handlers : AddReceipts(h) => WordsAsBefore
         /\ \A h \in Handlers : WriteAggregates(h) => WordsAsBefore
         /\ \A h \in Handlers, p \in People : HideAll(h, p) => WordsAsBefore
         /\ \A m \in Ids : Expire(m) => WordsAsBefore
         /\ \A p \in People, m \in Ids : DeleteForMe(p, m) => WordsAsBefore
<1>1. ASSUME msgs' = msgs PROVE WordsAsBefore
  BY <1>1 DEF WordsAsBefore, Stored
<1>2. ASSUME NEW h \in Handlers, AddReceipts(h) PROVE WordsAsBefore
  <2>1. DOMAIN msgs' = DOMAIN msgs
    BY <1>2, DomainStays
  <2> QED BY <1>2, <2>1, ReceiptSteps DEF WordsAsBefore, Stored
<1>3. ASSUME NEW h \in Handlers, WriteAggregates(h) PROVE WordsAsBefore
  <2>1. DOMAIN msgs' = DOMAIN msgs
    BY <1>3, DomainStays
  <2> QED BY <1>3, <2>1, TickSteps DEF WordsAsBefore, Stored
<1>4. ASSUME NEW h \in Handlers, NEW p \in People, HideAll(h, p) PROVE WordsAsBefore
  <2>1. DOMAIN msgs' = DOMAIN msgs
    BY <1>4, DomainStays
  <2> QED BY <1>4, <2>1, HideSteps DEF WordsAsBefore, Stored
<1>5. ASSUME NEW m \in Ids, Expire(m) PROVE WordsAsBefore
  BY <1>5, ExpireSteps DEF WordsAsBefore, Stored
<1>6. ASSUME NEW p \in People, NEW m \in Ids, DeleteForMe(p, m) PROVE WordsAsBefore
  <2>1. Reworded(m, msgs[m].text, msgs[m].deleted, msgs[m].deletedFor \cup {p})
    BY <1>6, RewordSteps
  <2> QED BY <2>1 DEF Reworded, WordsAsBefore, Stored
<1> QED BY <1>1, <1>2, <1>3, <1>4, <1>5, <1>6

\* One request moves on, and neither words nor preview change.
LEMMA MoveWords ==
  ASSUME TypeInv, WordsInv, Noted, WordsAsBefore, NEW h \in Handlers, NEW next, Goto(h, next),
         tasks[h].pc # "tombstone", next.pc \notin {"touch", "preview"},
         conv'.last = conv.last, conv'.tombstone = conv.tombstone
  PROVE  WordsInv'
<1>1. tasks'[h] = next /\ \A g \in Handlers : g # h => tasks'[g] = tasks[g]
  BY Moved DEF TypeInv
<1>2. ASSUME NEW m \in Stored' PROVE WordsGone(m)'
  <2>1. WordsGone(m) /\ msgs'[m].text = msgs[m].text /\ msgs'[m].deleted = msgs[m].deleted
    BY DEF WordsInv, WordsAsBefore
  <2>2. \A g \in Handlers : Holds(g, "tombstone") /\ tasks[g].id = m => tasks'[g] = tasks[g] \/ m \in races'.words
    BY <1>1 DEF Holds
  <2>3. \A g \in Handlers : Holds(g, "touch")' \/ Holds(g, "preview")' => tasks'[g] = tasks[g] \/ tasks'[g].id # m
    BY <1>1 DEF Holds
  <2> QED BY <2>1, <2>2, <2>3, MessageWords DEF Noted
<1> QED BY <1>2 DEF WordsInv

LEMMA FreeWords ==
  ASSUME TypeInv, WordsInv, Noted, WordsAsBefore, conv' = conv, tasks' = tasks
  PROVE  WordsInv'
<1>1. ASSUME NEW m \in Stored' PROVE WordsGone(m)'
  <2>1. WordsGone(m) /\ msgs'[m].text = msgs[m].text /\ msgs'[m].deleted = msgs[m].deleted
    BY DEF WordsInv, WordsAsBefore
  <2> QED BY <2>1, MessageWords DEF Noted
<1> QED BY <1>1 DEF WordsInv

\* What is inserted is not deleted yet.
LEMMA InsertWords ==
  ASSUME TypeInv, KeptInv, WordsInv, Noted, NEW h \in Handlers, NEW next, Goto(h, next),
         tasks[h].pc \in {"create", "notice"}, next.id = Len(msgs) + 1, conv' = conv,
         NEW n \in Message, ~n.deleted, msgs' = Append(msgs, n)
  PROVE  WordsInv'
<1>1. tasks'[h] = next /\ \A g \in Handlers : g # h => tasks'[g] = tasks[g]
  BY Moved DEF TypeInv
<1>2. /\ DOMAIN msgs' = DOMAIN msgs \cup {Len(msgs) + 1} /\ Len(msgs) + 1 \notin DOMAIN msgs
      /\ msgs'[Len(msgs) + 1] = n
      /\ \A m \in DOMAIN msgs : msgs'[m] = msgs[m]
  BY Inserted
<1>3. ASSUME NEW m \in Stored', m = Len(msgs) + 1 PROVE WordsGone(m)'
  BY <1>2, <1>3 DEF WordsGone
<1>4. ASSUME NEW m \in Stored', m # Len(msgs) + 1 PROVE WordsGone(m)'
  <2>1. m \in Stored /\ msgs'[m] = msgs[m]
    BY <1>2, <1>4 DEF Stored
  <2>2. WordsGone(m)
    BY <2>1 DEF WordsInv
  <2>3. \A g \in Handlers : Holds(g, "tombstone") /\ tasks[g].id = m => tasks'[g] = tasks[g] \/ m \in races'.words
    BY <1>1 DEF Holds
  <2>4. \A g \in Handlers : Holds(g, "touch")' \/ Holds(g, "preview")' => tasks'[g] = tasks[g] \/ tasks'[g].id # m
    BY <1>1, <1>4 DEF Holds
  <2> QED BY <2>1, <2>2, <2>3, <2>4, MessageWords DEF Noted
<1> QED BY <1>3, <1>4 DEF WordsInv

\* The preview is of a message that nobody has deleted, or the race was noted.
LEMMA PreviewWords ==
  ASSUME TypeInv, WordsInv, Noted, NEW h \in Handlers, tasks[h].pc \in {"touch", "preview"},
         Goto(h, Idle), msgs' = msgs, conv'.last = tasks[h].id
  PROVE  WordsInv'
<1>1. tasks'[h] = Idle /\ \A g \in Handlers : g # h => tasks'[g] = tasks[g]
  BY Moved DEF TypeInv
<1>2. ASSUME NEW m \in Stored' PROVE WordsGone(m)'
  <2>1. WordsGone(m) /\ m \in Stored
    BY DEF WordsInv, Stored
  <2>2. CASE m # tasks[h].id
    <3>1. \A g \in Handlers : Holds(g, "tombstone") /\ tasks[g].id = m => tasks'[g] = tasks[g] \/ m \in races'.words
      BY <1>1 DEF Holds
    <3>2. \A g \in Handlers : Holds(g, "touch")' \/ Holds(g, "preview")' => tasks'[g] = tasks[g] \/ tasks'[g].id # m
      BY <1>1 DEF Holds, Idle
    <3> QED BY <2>1, <2>2, <3>1, <3>2, MessageWords DEF Noted
  <2>3. CASE m = tasks[h].id
    <3>1. m \in races'.words \/ ~msgs'[m].deleted
      BY <2>1, <2>3 DEF WordsGone, Holds, Noted
    <3> QED BY <3>1 DEF WordsGone
  <2> QED BY <2>2, <2>3
<1> QED BY <1>2 DEF WordsInv

LEMMA EditWords ==
  ASSUME TypeInv, WordsInv, Noted, NEW h \in Handlers, SaveEdit(h)
  PROVE  WordsInv'
<1>1. Goto(h, Idle) /\ Idle.pc = "idle" /\ tasks[h].pc = "edit" /\ conv' = conv
  BY DEF SaveEdit, Idle
<1>2. CASE tasks[h].id \notin Stored
  <2>1. WordsAsBefore
    BY <1>2, WordsStay DEF SaveEdit
  <2> QED BY <1>1, <2>1, MoveWords
<1>3. CASE tasks[h].id \in Stored
  <2>1. tasks'[h] = Idle /\ \A g \in Handlers : g # h => tasks'[g] = tasks[g]
    BY <1>1, Moved DEF TypeInv
  <2>2. Reworded(tasks[h].id, TRUE, msgs[tasks[h].id].deleted, msgs[tasks[h].id].deletedFor)
    BY <1>3, RewordSteps
  <2>3. ASSUME NEW m \in Stored' PROVE WordsGone(m)'
    <3>1. m \in Stored /\ WordsGone(m)
      BY <2>2 DEF Reworded, Stored, WordsInv
    <3>2. CASE m # tasks[h].id
      <4>1. msgs'[m] = msgs[m]
        BY <2>2, <3>1, <3>2 DEF Reworded, Stored
      <4>2. \A g \in Handlers : Holds(g, "tombstone") /\ tasks[g].id = m => tasks'[g] = tasks[g] \/ m \in races'.words
        BY <1>1, <2>1 DEF Holds
      <4>3. \A g \in Handlers : Holds(g, "touch")' \/ Holds(g, "preview")' => tasks'[g] = tasks[g] \/ tasks'[g].id # m
        BY <1>1, <2>1 DEF Holds
      <4> QED BY <1>1, <3>1, <4>1, <4>2, <4>3, MessageWords DEF Noted
    <3>3. CASE m = tasks[h].id
      <4>1. msgs'[m].deleted => m \in races'.words
        BY <1>3, <2>2, <3>3, Parts DEF SaveEdit, Reworded, Races
      <4> QED BY <4>1 DEF WordsGone
    <3> QED BY <3>2, <3>3
  <2> QED BY <2>3 DEF WordsInv
<1> QED BY <1>2, <1>3

LEMMA WipeWords ==
  ASSUME TypeInv, WordsInv, Noted, NEW h \in Handlers, SaveDeletion(h)
  PROVE  WordsInv'
<1>1. tasks[h].pc = "wipe" /\ conv' = conv
  BY DEF SaveDeletion
<1>2. CASE tasks[h].id \notin Stored
  <2>1. WordsAsBefore
    BY <1>2, WordsStay DEF SaveDeletion
  <2>2. Goto(h, Idle) /\ Idle.pc = "idle"
    BY <1>2 DEF SaveDeletion, Idle
  <2> QED BY <1>1, <2>1, <2>2, MoveWords
<1>3. CASE tasks[h].id \in Stored
  <2>1. /\ tasks'[h] = [pc |-> "tombstone", id |-> tasks[h].id]
        /\ \A g \in Handlers : g # h => tasks'[g] = tasks[g]
    BY <1>3, Moved DEF TypeInv, SaveDeletion
  <2>2. Reworded(tasks[h].id, FALSE, TRUE, msgs[tasks[h].id].deletedFor)
    BY <1>3, RewordSteps
  <2>3. ASSUME NEW m \in Stored' PROVE WordsGone(m)'
    <3>1. m \in Stored /\ WordsGone(m)
      BY <2>2 DEF Reworded, Stored, WordsInv
    <3>2. CASE m # tasks[h].id
      <4>1. msgs'[m] = msgs[m]
        BY <2>2, <3>1, <3>2 DEF Reworded, Stored
      <4>2. \A g \in Handlers : Holds(g, "tombstone") /\ tasks[g].id = m => tasks'[g] = tasks[g] \/ m \in races'.words
        BY <1>1, <2>1 DEF Holds
      <4>3. \A g \in Handlers : Holds(g, "touch")' \/ Holds(g, "preview")' => tasks'[g] = tasks[g] \/ tasks'[g].id # m
        BY <1>1, <2>1 DEF Holds
      <4> QED BY <1>1, <3>1, <4>1, <4>2, <4>3, MessageWords DEF Noted
    <3>3. CASE m = tasks[h].id
      <4> SUFFICES ASSUME m \notin races'.words PROVE WordsGone(m)'
        BY DEF WordsGone
      <4>1. \A g \in Handlers : tasks[g].pc \in {"touch", "preview"} => tasks[g].id # m
        BY <1>3, <3>3, Parts DEF SaveDeletion, Races, At
      <4>2. \A g \in Handlers : Holds(g, "touch")' \/ Holds(g, "preview")' => tasks'[g].id # m
        BY <2>1, <4>1 DEF Holds
      <4>3. ~msgs'[m].text
        BY <2>2, <3>3 DEF Reworded
      <4>4. Holds(h, "tombstone")' /\ tasks'[h].id = m
        BY <2>1, <3>3 DEF Holds
      <4> QED BY <4>2, <4>3, <4>4 DEF WordsGone
    <3> QED BY <3>2, <3>3
  <2> QED BY <2>3 DEF WordsInv
<1> QED BY <1>2, <1>3

LEMMA TombstoneWords ==
  ASSUME TypeInv, WordsInv, Noted, NEW h \in Handlers, Tombstone(h)
  PROVE  WordsInv'
<1>1. /\ tasks'[h] = Idle /\ tasks[h].pc = "tombstone" /\ msgs' = msgs
      /\ \A g \in Handlers : g # h => tasks'[g] = tasks[g]
  BY Moved DEF TypeInv, Tombstone
<1>2. /\ conv'.last = conv.last /\ (conv.tombstone => conv'.tombstone)
      /\ conv.last = tasks[h].id => conv'.tombstone
  BY Parts DEF Tombstone, Conversation
<1>3. ASSUME NEW m \in Stored' PROVE WordsGone(m)'
  <2>1. WordsGone(m)
    BY <1>1 DEF WordsInv, Stored
  <2>2. CASE m # tasks[h].id
    <3>1. \A g \in Handlers : Holds(g, "tombstone") /\ tasks[g].id = m => tasks'[g] = tasks[g] \/ m \in races'.words
      BY <1>1, <2>2 DEF Holds
    <3>2. \A g \in Handlers : Holds(g, "touch")' \/ Holds(g, "preview")' => tasks'[g] = tasks[g] \/ tasks'[g].id # m
      BY <1>1 DEF Holds, Idle
    <3> QED BY <1>1, <1>2, <2>1, <3>1, <3>2, MessageWords DEF Noted
  <2>3. CASE m = tasks[h].id
    BY <1>1, <1>2, <2>1, <2>3 DEF WordsGone, Holds, Idle, Noted
  <2> QED BY <2>2, <2>3
<1> QED BY <1>3 DEF WordsInv

LEMMA CutWords ==
  ASSUME TypeInv, WordsInv, Noted, NEW H \in SUBSET Handlers, CutShort(H)
  PROVE  WordsInv'
<1>1. /\ \A g \in H : tasks'[g] = Idle
      /\ \A g \in Handlers : g \notin H => tasks'[g] = tasks[g]
      /\ conv' = conv /\ msgs' = msgs
  BY DEF CutShort
<1>2. races'.words = races.words \cup {tasks[g].id : g \in {k \in H : tasks[k] # Idle} \cap At({"tombstone"})}
  BY Parts DEF CutShort, Races
<1>3. ASSUME NEW m \in Stored' PROVE WordsGone(m)'
  <2>1. WordsGone(m)
    BY <1>1 DEF WordsInv, Stored
  <2>2. \A g \in Handlers : Holds(g, "tombstone") /\ tasks[g].id = m => tasks'[g] = tasks[g] \/ m \in races'.words
    BY <1>1, <1>2 DEF Holds, At, Idle
  <2>3. \A g \in Handlers : Holds(g, "touch")' \/ Holds(g, "preview")' => tasks'[g] = tasks[g] \/ tasks'[g].id # m
    BY <1>1 DEF Holds, Idle
  <2> QED BY <1>1, <2>1, <2>2, <2>3, MessageWords DEF Noted
<1> QED BY <1>3 DEF WordsInv

LEMMA StepWords ==
  ASSUME TypeInv, KeptInv, WordsInv, [Next]_vars
  PROVE  WordsInv'
<1>1. Noted
  BY RacesGrow
<1>2. ASSUME NEW h \in Handlers, NEW p, NEW c, Begin(h, p, c) PROVE WordsInv'
  BY <1>1, <1>2, MoveWords, WordsStay DEF Begin, Asked, Idle
<1>3. ASSUME NEW h \in Handlers, NEW p, NEW c, SetDisappearing(h, p, c) PROVE WordsInv'
  <2>1. conv'.last = conv.last /\ conv'.tombstone = conv.tombstone
    BY <1>3, Parts DEF SetDisappearing, Conversation
  <2> QED BY <1>1, <1>3, <2>1, MoveWords, WordsStay DEF SetDisappearing, Asked, Idle
<1>4. ASSUME NEW h \in Handlers, NEW p, NEW c, FindPending(h, p, c) PROVE WordsInv'
  <2>1. PICK next : Goto(h, next) /\ next.pc \in {"clear", "receive"}
    BY <1>4 DEF FindPending
  <2> QED BY <1>1, <1>4, <2>1, MoveWords, WordsStay DEF FindPending, Asked, Idle
<1>5. ASSUME NEW h \in Handlers, NEW m, ReadForEdit(h, m) \/ ReadForDelete(h, m) PROVE WordsInv'
  <2>1. PICK next : Goto(h, next) /\ next.pc \in {"edit", "wipe"}
    BY <1>5 DEF ReadForEdit, ReadForDelete
  <2>2. tasks[h].pc = "idle" /\ msgs' = msgs /\ conv' = conv
    BY <1>5 DEF ReadForEdit, ReadForDelete, Asked, Idle
  <2> QED BY <1>1, <2>1, <2>2, MoveWords, WordsStay
<1>6. ASSUME NEW h \in Handlers, Create(h) PROVE WordsInv'
  <2>1. PICK n \in Message : msgs' = Append(msgs, n) /\ ~n.deleted
    BY <1>6, CreateInserts
  <2>2. PICK next : Goto(h, next) /\ next.id = Len(msgs) + 1
    BY <1>6 DEF Create
  <2> QED BY <1>1, <1>6, <2>1, <2>2, InsertWords DEF Create
<1>7. ASSUME NEW h \in Handlers, CreateNotice(h) PROVE WordsInv'
  <2>1. PICK n \in Message : msgs' = Append(msgs, n) /\ ~n.deleted
    BY <1>7, NoticeInserts
  <2>2. PICK next : Goto(h, next) /\ next.id = Len(msgs) + 1
    BY <1>7 DEF CreateNotice
  <2> QED BY <1>1, <1>7, <2>1, <2>2, InsertWords DEF CreateNotice
<1>8. ASSUME NEW h \in Handlers, TouchLastMessage(h) PROVE WordsInv'
  <2>1. conv'.last = tasks[h].id
    BY <1>8, Parts DEF TouchLastMessage, Touched, Conversation
  <2> QED BY <1>1, <1>8, <2>1, PreviewWords DEF TouchLastMessage
<1>9. ASSUME NEW h \in Handlers, PreviewNotice(h) PROVE WordsInv'
  <2>1. conv'.last = tasks[h].id
    BY <1>9, Parts DEF PreviewNotice, Conversation
  <2> QED BY <1>1, <1>9, <2>1, PreviewWords DEF PreviewNotice
<1>10. ASSUME NEW h \in Handlers, AddReceipts(h) PROVE WordsInv'
  <2>1. PICK next : Goto(h, next) /\ next.pc = "reckon"
    <3>1. tasks[h] \in [pc : {"receive", "reckon"}, how : {"delivered", "read"}, who : People, ids : SUBSET Ids]
      BY <1>10, Records, Parts DEF AddReceipts, Holds
    <3> WITNESS [tasks[h] EXCEPT !.pc = "reckon"]
    <3> QED BY <1>10, <3>1 DEF AddReceipts
  <2>2. WordsAsBefore /\ tasks[h].pc = "receive" /\ conv' = conv
    BY <1>10, WordsStay DEF AddReceipts
  <2> QED BY <1>1, <2>1, <2>2, MoveWords
<1>11. ASSUME NEW h \in Handlers, ReadForAggregates(h) PROVE WordsInv'
  <2>1. PICK next : Goto(h, next) /\ next.pc = "tick"
    BY <1>11 DEF ReadForAggregates
  <2> QED BY <1>1, <1>11, <2>1, MoveWords, WordsStay DEF ReadForAggregates
<1>12. ASSUME NEW h \in Handlers, WriteAggregates(h) PROVE WordsInv'
  <2>1. PICK next : Goto(h, next) /\ next.pc \in {"clear", "idle"}
    BY <1>12 DEF WriteAggregates, Idle
  <2>2. WordsAsBefore /\ tasks[h].pc = "tick" /\ conv' = conv
    BY <1>12, WordsStay DEF WriteAggregates
  <2> QED BY <1>1, <2>1, <2>2, MoveWords
<1>13. ASSUME NEW h \in Handlers, ClearUnread(h) \/ ForgetChat(h) PROVE WordsInv'
  <2>1. conv'.last = conv.last /\ conv'.tombstone = conv.tombstone
    BY <1>13, Parts DEF ClearUnread, ForgetChat, Conversation
  <2>2. Goto(h, Idle) /\ Idle.pc = "idle" /\ tasks[h].pc # "tombstone" /\ msgs' = msgs
    BY <1>13 DEF ClearUnread, ForgetChat, Idle
  <2> QED BY <1>1, <2>1, <2>2, MoveWords, WordsStay
<1>14. ASSUME NEW h \in Handlers, NEW p \in People, HideAll(h, p) PROVE WordsInv'
  <2>1. WordsAsBefore
    BY <1>14, WordsStay
  <2>2. PICK next : Goto(h, next) /\ next.pc = "forget"
    BY <1>14 DEF HideAll
  <2>3. tasks[h].pc = "idle" /\ conv' = conv
    BY <1>14 DEF HideAll, Asked, Idle
  <2> QED BY <1>1, <2>1, <2>2, <2>3, MoveWords
<1>15. ASSUME NEW p \in People, NEW m \in Ids, DeleteForMe(p, m) PROVE WordsInv'
  <2>1. WordsAsBefore
    BY <1>15, WordsStay
  <2>2. conv' = conv /\ tasks' = tasks
    BY <1>15 DEF DeleteForMe
  <2> QED BY <1>1, <2>1, <2>2, FreeWords
<1>16. ASSUME NEW m \in Ids, Expire(m) PROVE WordsInv'
  <2>1. WordsAsBefore
    BY <1>16, WordsStay
  <2> QED BY <1>1, <1>16, <2>1, FreeWords DEF Expire
<1>17. CASE UNCHANGED vars
  BY <1>1, <1>17, FreeWords, WordsStay DEF vars
<1> QED BY <1>1, <1>2, <1>3, <1>4, <1>5, <1>6, <1>7, <1>8, <1>9, <1>10, <1>11, <1>12, <1>13, <1>14, <1>15,
           <1>16, <1>17, EditWords, WipeWords, TombstoneWords, CutWords
        DEF Next, ReadForSend, PostServiceMessage, MarkRead, MarkDelivered

-----------------------------------------------------------------------------
(* The invariant, and what it says of the conversation. *)

LEMMA InitTypes == ASSUME Init PROVE TypeInv
<1>1. 0 \in 0..MaxAsks /\ 0 \in 0..MaxMsgs /\ 0 \in 0..MaxFaults
  BY ChatConstants
<1>2. [p \in People |-> 0] \in [People -> 0..MaxMsgs] /\ [p \in People |-> 0] \in [People -> 0..MaxAsks]
  BY <1>1
<1>3. conv \in Conversation
  BY <1>1, <1>2 DEF Init, Conversation
<1>4. races \in Races
  BY DEF Init, Races
<1>5. msgs \in Seq(Message \cup {Gone}) /\ Len(msgs) <= MaxMsgs
  BY ChatConstants DEF Init
<1>6. \A h \in Handlers : tasks[h] \in Task
  BY DEF Init, Task
<1>7. TypeOK
  BY <1>1, <1>3, <1>4, <1>5, <1>6 DEF Init, TypeOK
<1>8. tasks = [h \in Handlers |-> tasks[h]]
  BY DEF Init
<1> QED BY <1>7, <1>8 DEF TypeInv

LEMMA InitIInv == Init => IInv
<1> SUFFICES ASSUME Init PROVE IInv
  OBVIOUS
<1>1. TypeInv
  BY InitTypes
<1>2. /\ \A h \in Handlers : tasks[h] = Idle /\ tasks[h].pc = "idle"
      /\ msgs = <<>> /\ Len(msgs) = 0 /\ DOMAIN msgs = {} /\ Stored = {} /\ Said = {}
      /\ clock = 0 /\ asks = 0
  BY DEF Init, Idle, Stored, Said
<1>3. /\ conv.last = None /\ conv.at = 0 /\ \A p \in People : conv.unread[p] = 0 /\ conv.cleared[p] = 0
  BY DEF Init
<1>4. Counted
  <2>1. Creating = {} /\ Touching = {}
    BY <1>2 DEF Creating, Touching, At
  <2>2. IsFiniteSet({}) /\ Cardinality({}) = 0
    BY FS_EmptySet
  <2> QED BY <1>2, <1>3, <2>1, <2>2 DEF Counted
<1>5. KeptInv /\ SentInv
  BY <1>2 DEF KeptInv, Kept, TouchesOwn, ReceivesOthers, HasId, SentInv, SentOnce, Holds
<1>6. TicksInv
  BY <1>2 DEF TicksInv, NextHeld, Holds
<1>7. BadgeInv
  <2>1. ASSUME NEW p \in People PROVE Covered(p)
    <3>1. Unread(p) = {} /\ Cardinality({}) = 0
      BY <1>2, FS_EmptySet DEF Unread
    <3> QED BY <1>3, <3>1 DEF Covered, ClearsAll
  <2> QED BY <2>1 DEF BadgeInv
<1>8. ListInv
  BY <1>2, <1>3 DEF ListInv, ClearedBefore, SaidSince, Silent, HiddenFor, Touching, At, Holds
<1>9. WordsInv
  BY <1>2 DEF WordsInv
<1> QED BY <1>1, <1>4, <1>5, <1>6, <1>7, <1>8, <1>9 DEF IInv

LEMMA StepIInv == IInv /\ [Next]_vars => IInv'
<1> SUFFICES ASSUME IInv, [Next]_vars PROVE IInv'
  OBVIOUS
<1>1. TypeInv /\ Counted /\ KeptInv /\ SentInv /\ TicksInv /\ BadgeInv /\ ListInv /\ WordsInv
  BY DEF IInv
<1>2. TypeInv'
  BY <1>1, StepTypes
<1>3. Counted' /\ KeptInv' /\ SentInv' /\ TicksInv'
  BY <1>1, <1>2, StepCounted, StepKept, StepSent, StepTicks
<1>4. BadgeInv' /\ ListInv' /\ WordsInv'
  BY <1>1, StepBadge, StepList, StepWords
<1> QED BY <1>2, <1>3, <1>4 DEF IInv

\* Requests, receipts and failures in any order keep the inductive invariant.
THEOREM Invariance == Spec => []IInv
BY InitIInv, StepIInv, PTL DEF Spec

\* Messages, counters, requests and instants stay within their types and bounds.
THEOREM TypeCorrect == Spec => []TypeOK
<1>1. IInv => TypeOK
  BY DEF IInv, TypeInv
<1> QED BY <1>1, Invariance, PTL

LEMMA OneMessageHolds == IInv => OneMessagePerClientIdUnlessRace
<1> SUFFICES ASSUME IInv, NEW m \in Said, NEW n \in Said, m # n, msgs[m].client # "none",
                    msgs[m].client = msgs[n].client, msgs[m].client \notin races.client
             PROVE  FALSE
  BY DEF OneMessagePerClientIdUnlessRace
<1>1. msgs[m] \in Message
  BY Lengths, Parts DEF IInv
<1>2. msgs[m].client \in ClientIds \ {"none"}
  BY <1>1 DEF Message
<1> QED BY <1>2 DEF IInv, SentInv, SentOnce

LEMMA NeverAheadHolds == IInv => TicksNeverAhead
<1> SUFFICES ASSUME IInv, NEW m \in Said
             PROVE  /\ msgs[m].status = "delivered" => Receipts(m).deliveredTo \cup Receipts(m).readBy # {}
                    /\ msgs[m].status = "read" => Receipts(m).readBy # {}
  BY DEF TicksNeverAhead
<1>1. Rank(msgs[m].status) <= Rank(Due(m))
  BY DEF IInv, TicksInv, TickHeld
<1>2. /\ Receipts(m).readBy = msgs[m].readBy \cap Others(m)
      /\ Receipts(m).deliveredTo \cup Receipts(m).readBy
           = Others(m) \cap (msgs[m].deliveredTo \cup msgs[m].readBy)
  BY DEF Receipts, Others
<1>3. CASE msgs[m].status = "read"
  <2>1. Due(m) = "read"
    BY <1>1, <1>3, Ranks DEF Due
  <2> QED BY <1>2, <1>3, <2>1 DEF Due
<1>4. CASE msgs[m].status = "delivered"
  <2>1. Due(m) # "sent"
    BY <1>1, <1>4, Ranks
  <2> QED BY <1>2, <1>4, <2>1 DEF Due
<1> QED BY <1>3, <1>4

LEMMA CatchUpHolds == IInv => TicksCatchUpUnlessCrossed
<1> SUFFICES ASSUME IInv, At({"reckon", "tick"}) = {}, NEW m \in Said \ races.ticks
             PROVE  /\ Others(m) \cap msgs[m].readBy # {} => msgs[m].status = "read"
                    /\ Others(m) \cap msgs[m].deliveredTo # {} => msgs[m].status # "sent"
  BY DEF TicksCatchUpUnlessCrossed, Others
<1>1. \A h \in Handlers : tasks[h].pc # "reckon" /\ tasks[h].pc # "tick"
  BY DEF At
<1>2. Rank(Due(m)) <= Rank(msgs[m].status)
  BY <1>1 DEF IInv, TicksInv, CatchesUp, Writing, Reckoned, Holds
<1>3. msgs[m].status \in Statuses
  BY Lengths, Parts DEF IInv, Message
<1>4. ASSUME Others(m) \cap msgs[m].readBy # {} PROVE msgs[m].status = "read"
  <2>1. Due(m) = "read"
    BY <1>4 DEF Due
  <2> QED BY <1>2, <1>3, <2>1, Ranks DEF Statuses
<1>5. ASSUME Others(m) \cap msgs[m].deliveredTo # {} PROVE msgs[m].status # "sent"
  <2>1. Due(m) \in {"delivered", "read"}
    BY <1>5 DEF Due
  <2> QED BY <1>2, <2>1, Ranks
<1> QED BY <1>4, <1>5

LEMMA BadgeHolds == IInv => BadgeCoversUnreadUnlessCrossed
BY DEF IInv, BadgeInv, Covered, Unread, BadgeCoversUnreadUnlessCrossed

LEMMA SilentHolds == IInv => HiddenChatIsSilentUnlessCrossed
BY DEF IInv, ListInv, Silent, HiddenChatIsSilentUnlessCrossed

LEMMA WordsHold == IInv => DeletedWordsAreGoneUnlessCrossed
BY DEF IInv, WordsInv, WordsGone, At, Holds, DeletedWordsAreGoneUnlessCrossed

\* Of the sends of one client id one is stored, unless two of them overlapped.
THEOREM SentOnceOrRaced == Spec => []OneMessagePerClientIdUnlessRace
BY OneMessageHolds, Invariance, PTL

\* A tick never claims a receipt that nobody has given, however the reckonings overlap.
THEOREM TicksAreEarned == Spec => []TicksNeverAhead
BY NeverAheadHolds, Invariance, PTL

\* Once nobody works on receipts a tick shows all of them, unless two reckonings of it
\* overlapped or one was cut short.
THEOREM TicksCatchUp == Spec => []TicksCatchUpUnlessCrossed
BY CatchUpHolds, Invariance, PTL

\* A counter covers what its owner has yet to read, unless they reset it while a message
\* was being counted.
THEOREM BadgeCovers == Spec => []BadgeCoversUnreadUnlessCrossed
BY BadgeHolds, Invariance, PTL

\* A chat that was deleted on one side stays off their counter until something new is said.
THEOREM HiddenIsSilent == Spec => []HiddenChatIsSilentUnlessCrossed
BY SilentHolds, Invariance, PTL

\* What was deleted for everyone is stored nowhere and shown nowhere, unless an edit or a
\* preview crossed the deletion.
THEOREM DeletedIsForgotten == Spec => []DeletedWordsAreGoneUnlessCrossed
BY WordsHold, Invariance, PTL

=============================================================================
