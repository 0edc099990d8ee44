---------------------------- MODULE MessageMarks ----------------------------
(***************************************************************************)
(* What people add to messages that are already there, and what they then  *)
(* see of them: reactions, stars, pins, deletions, forwards, and the       *)
(* thread, pinned, starred and search views (src/src/mongo/chat/           *)
(* chat.service.ts and chat.repository.ts).                                *)
(*                                                                         *)
(* react, star, pin and deleteForEveryone load a message, change it in     *)
(* memory and save what changed.  A save that replaces an array asks that  *)
(* the document's __v is the one that was read, and raises it; one that    *)
(* appends to an array raises it; one of plain fields does neither.        *)
(***************************************************************************)
EXTENDS Integers, Sequences, FiniteSets, TLAPS

CONSTANTS
  People,       \* users
  Direct,       \* a conversation of two of them
  Group,        \* a group that people may leave
  Emojis,       \* reactions
  Destinations, \* sequences of the chats somebody forwards to
  Requests,     \* requests in progress at once
  MaxMsgs,      \* bound on messages
  MaxAsks       \* bound on requests

VARIABLES
  msgs,     \* the messages, by id
  roster,   \* participantIds of the two conversations
  barred,   \* whether one of the two of the direct conversation has blocked the other
  req,      \* what each request is about to do
  asked,    \* requests so far
  put       \* history: by message and person, the reaction and star they last saved

vars == <<msgs, roster, barred, req, asked, put>>

Chats  == {Direct, Group}
Ids    == DOMAIN msgs
Idle   == [pc |-> "idle"]
NoMark == "none"
NoOne  == "nobody"

\* A message as it is sent; its type, text or media, stays.
Sent(chat, sender, media, origin) ==
  [chat |-> chat, sender |-> sender, media |-> media, files |-> media, words |-> TRUE,
   deleted |-> FALSE, origin |-> origin, reactions |-> [p \in People |-> NoMark], stars |-> {},
   pinnedBy |-> NoOne, hidden |-> {}, version |-> 0]

Message ==
  [chat : Chats, sender : People, media : BOOLEAN, files : BOOLEAN, words : BOOLEAN,
   deleted : BOOLEAN, origin : 0..MaxMsgs, reactions : [People -> Emojis \cup {NoMark}],
   stars : SUBSET People, pinnedBy : People \cup {NoOne}, hidden : SUBSET People,
   version : 0..MaxAsks]

MarksTypeOK ==
  /\ msgs \in Seq(Message)
  /\ Len(msgs) <= MaxMsgs
  /\ roster \in [Chats -> SUBSET People]
  /\ barred \in BOOLEAN
  /\ \A h \in Requests : req[h].pc \in {"idle", "save", "forward"}
  /\ asked \in 0..MaxAsks
  /\ put \in [1..MaxMsgs -> [People -> [reaction : Emojis \cup {NoMark}, star : BOOLEAN]]]

\* A photo in the direct conversation and a text in the group, from different people.
MarksInit ==
  /\ \E p, q \in People :
       p # q /\ msgs = <<Sent(Direct, p, TRUE, 0), Sent(Group, q, FALSE, 0)>>
  /\ roster = [c \in Chats |-> People]
  /\ barred = FALSE
  /\ req = [h \in Requests |-> Idle]
  /\ asked = 0
  /\ put = [m \in 1..MaxMsgs |-> [p \in People |-> [reaction |-> NoMark, star |-> FALSE]]]

Goto(h, next) == req' = [req EXCEPT ![h] = next]
Ask           == asked < MaxAsks /\ asked' = asked + 1
Asked(h)      == req[h] = Idle /\ Ask
May(p, m)     == m \in Ids /\ p \in roster[msgs[m].chat]

\* A request holds what it will write, and where; "checked" if it replaces an array.
Change(h, p, m, field, value, checked) ==
  /\ Asked(h)
  /\ Goto(h, [pc |-> "save", by |-> p, id |-> m, field |-> field, value |-> value,
              checked |-> checked, version |-> msgs[m].version])
  /\ UNCHANGED <<msgs, roster, barred, put>>

-----------------------------------------------------------------------------
(* Reading a message in order to change it. *)

\* The same emoji again takes it back, another replaces it.
ReadForReaction(h, p, m, e) ==
  LET mine == IF msgs[m].reactions[p] = e THEN NoMark ELSE e IN
  /\ May(p, m)
  /\ Change(h, p, m, "reactions", [msgs[m].reactions EXCEPT ![p] = mine], TRUE)

ReadForStar(h, p, m) ==
  LET on == p \in msgs[m].stars IN
  /\ May(p, m)
  /\ Change(h, p, m, "stars", IF on THEN msgs[m].stars \ {p} ELSE msgs[m].stars \cup {p}, TRUE)

ReadForPin(h, p, m) ==
  /\ May(p, m)
  /\ Change(h, p, m, "pinnedBy", IF msgs[m].pinnedBy = NoOne THEN p ELSE NoOne, FALSE)

\* Emptying the attachments changes the array only if there are any.
ReadForWipe(h, p, m) ==
  /\ m \in Ids /\ msgs[m].sender = p
  /\ Change(h, p, m, "deleted", TRUE, msgs[m].files)

\* A message with what a request holds.
Written(t, msg) ==
  CASE t.field = "reactions" -> [msg EXCEPT !.reactions = t.value]
    [] t.field = "stars"     -> [msg EXCEPT !.stars = t.value]
    [] t.field = "pinnedBy"  -> [msg EXCEPT !.pinnedBy = t.value]
    [] t.field = "deleted"   -> [msg EXCEPT !.deleted = TRUE, !.words = FALSE, !.files = FALSE]

\* What somebody put on a message, once it is saved.
Noted(t) ==
  CASE t.field = "reactions" -> [put EXCEPT ![t.id][t.by].reaction = t.value[t.by]]
    [] t.field = "stars"     -> [put EXCEPT ![t.id][t.by].star = (t.by \in t.value)]
    [] OTHER                 -> put

\* Regression: a save asks nothing of the document.
SaveUnversioned(h) ==
  LET t == req[h] IN
  /\ t.pc = "save"
  /\ msgs' = [msgs EXCEPT ![t.id] = Written(t, @)]
  /\ put' = Noted(t)
  /\ Goto(h, Idle)
  /\ UNCHANGED <<roster, barred, asked>>

\* A checked save that finds another version is refused, and the request fails.
Save(h) ==
  LET t       == req[h]
      refused == t.checked /\ msgs[t.id].version # t.version
      raised  == msgs[t.id].version + (IF t.checked THEN 1 ELSE 0)
  IN
  /\ t.pc = "save"
  /\ IF refused THEN UNCHANGED <<msgs, put>>
     ELSE /\ msgs' = [msgs EXCEPT ![t.id] = [Written(t, @) EXCEPT !.version = raised]]
          /\ put' = Noted(t)
  /\ Goto(h, Idle)
  /\ UNCHANGED <<roster, barred, asked>>

-----------------------------------------------------------------------------
(* Hiding, leaving, blocking: one write each. *)

\* Anybody who knows the id may hide a message from themselves.  Appending to
\* deletedFor raises the version, and asks nothing of it.
DeleteForMe(p, m) ==
  /\ Ask
  /\ m \in Ids /\ p \notin msgs[m].hidden
  /\ msgs' = [msgs EXCEPT ![m].hidden = @ \cup {p}, ![m].version = @ + 1]
  /\ UNCHANGED <<roster, barred, req, put>>

\* "Delete chat" hides whatever is there by one update, which leaves the version alone.
HideAllFor(p) ==
  /\ Ask
  /\ \E m \in Ids : msgs[m].chat = Direct /\ p \notin msgs[m].hidden
  /\ msgs' = [m \in Ids |-> IF msgs[m].chat = Direct
                            THEN [msgs[m] EXCEPT !.hidden = @ \cup {p}] ELSE msgs[m]]
  /\ UNCHANGED <<roster, barred, req, put>>

LeaveGroup(p) ==
  /\ Ask
  /\ p \in roster[Group]
  /\ roster' = [roster EXCEPT ![Group] = @ \ {p}]
  /\ UNCHANGED <<msgs, barred, req, put>>

SetBlocked ==
  /\ Ask
  /\ barred' = ~barred
  /\ UNCHANGED <<msgs, roster, req, put>>

-----------------------------------------------------------------------------
(* Forwarding. *)

\* Only who is in the conversation of a message may forward it, to chats in an order.
\* What is sent is what was read here.
ReadForForward(h, p, m, chats) ==
  /\ May(p, m)
  /\ Asked(h)
  /\ Goto(h, [pc |-> "forward", by |-> p, source |-> msgs[m], id |-> m, left |-> chats])
  /\ UNCHANGED <<msgs, roster, barred, put>>

\* The label of a forward survives being forwarded.
Origin(t) == IF t.source.origin # 0 THEN t.source.origin ELSE t.id

\* A conversation somebody is not in is skipped.  A send that is refused, to somebody
\* blocked or of a text that is empty, ends the request: the chats before it have the
\* message, those after it have not.  Media goes out even when it was deleted, with
\* nothing in it.
ForwardNext(h) ==
  LET t       == req[h]
      chat    == Head(t.left)
      rest    == IF Len(t.left) = 1 THEN Idle ELSE [t EXCEPT !.left = Tail(@)]
      refused == (chat = Direct /\ barred) \/ (~t.source.media /\ ~t.source.words)
  IN
  /\ t.pc = "forward"
  /\ IF t.by \notin roster[chat] THEN Goto(h, rest) /\ UNCHANGED msgs
     ELSE IF refused THEN Goto(h, Idle) /\ UNCHANGED msgs
     ELSE /\ Len(msgs) < MaxMsgs
          /\ msgs' = Append(msgs,
               [Sent(chat, t.by, t.source.media, Origin(t)) EXCEPT
                  !.files = t.source.files, !.words = t.source.words])
          /\ Goto(h, rest)
  /\ UNCHANGED <<roster, barred, asked, put>>

-----------------------------------------------------------------------------
(* What people see. *)

\* A message as it goes out, to a viewer: of one that was deleted only that it was.
MessageDTO(m, p) ==
  [words   |-> msgs[m].words /\ ~msgs[m].deleted,
   files   |-> msgs[m].files /\ ~msgs[m].deleted,
   pinned  |-> msgs[m].pinnedBy # NoOne,
   starred |-> p \in msgs[m].stars]

\* listByConversation: the thread, whose deleted messages are shown as such.
Thread(p, c) == {m \in Ids : msgs[m].chat = c /\ p \in roster[c] /\ p \notin msgs[m].hidden}

Pinned(p, c) ==
  {m \in Ids : /\ msgs[m].chat = c /\ p \in roster[c]
               /\ msgs[m].pinnedBy # NoOne /\ ~msgs[m].deleted /\ p \notin msgs[m].hidden}

\* The starred list asks for no membership: it is kept when one leaves a group.
Starred(p) == {m \in Ids : p \in msgs[m].stars /\ p \notin msgs[m].hidden}

Search(p) ==
  {m \in Ids : /\ p \in roster[msgs[m].chat]
               /\ msgs[m].words /\ ~msgs[m].deleted /\ p \notin msgs[m].hidden}

-----------------------------------------------------------------------------
MarksNext ==
  \/ \E h \in Requests, p \in People, m \in 1..MaxMsgs :
       /\ m \in Ids
       /\ \/ \E e \in Emojis : ReadForReaction(h, p, m, e)
          \/ ReadForStar(h, p, m) \/ ReadForPin(h, p, m) \/ ReadForWipe(h, p, m)
          \/ \E chats \in Destinations : ReadForForward(h, p, m, chats)
  \/ \E h \in Requests : Save(h) \/ ForwardNext(h)
  \/ \E p \in People : HideAllFor(p) \/ LeaveGroup(p) \/ \E m \in 1..MaxMsgs : DeleteForMe(p, m)
  \/ SetBlocked

MarksSpec == MarksInit /\ [][MarksNext]_vars

-----------------------------------------------------------------------------
(* Properties. *)

\* Whoever reacts, stars, deletes or hides at the same time, everybody's reaction and
\* star on a message is what they last saved themselves.
MarksAreTheirs ==
  \A m \in Ids, p \in People :
    /\ msgs[m].reactions[p] = put[m][p].reaction
    /\ p \in msgs[m].stars <=> put[m][p].star

\* What a search, a pin or a star leads to is in the thread, for whoever is still in the
\* conversation: nothing hidden comes back through one of them, and neither a search nor
\* a pin leads to a message that was deleted.
ViewsLeadToThread ==
  \A p \in People :
    /\ \A m \in Search(p) \cup Starred(p) :
         p \in roster[msgs[m].chat] => m \in Thread(p, msgs[m].chat)
    /\ \A c \in Chats : Pinned(p, c) \subseteq Thread(p, c)
    /\ \A m \in Search(p) : MessageDTO(m, p).words
    /\ \A m \in Pinned(p, Direct) \cup Pinned(p, Group) : ~msgs[m].deleted

\* However often a message is forwarded, a forward names a message that is none itself.
ForwardsNameTheFirst ==
  \A m \in Ids : msgs[m].origin # 0 =>
    msgs[m].origin < m /\ msgs[msgs[m].origin].origin = 0

-----------------------------------------------------------------------------
(* Proofs. *)

\* What the constants must be: there is room for the two messages there are to begin
\* with, and whoever forwards names a conversation.
MarksParameters ==
  /\ MaxMsgs \in Nat \ {0, 1} /\ MaxAsks \in Nat
  /\ Destinations \subseteq Seq(Chats) /\ << >> \notin Destinations

Marks == Emojis \cup {NoMark}

\* A save that replaces an array still has of others what the message has of them, as long
\* as the version is the one that was read; and then the version may be raised once more.
Fresh(t) == t.checked /\ msgs[t.id].version = t.version

Holding(t) ==
  \/ /\ t.field = "reactions" /\ t.checked
     /\ t.value \in [People -> Marks]
     /\ Fresh(t) => \A p \in People \ {t.by} : t.value[p] = msgs[t.id].reactions[p]
  \/ /\ t.field = "stars" /\ t.checked
     /\ t.value \in SUBSET People
     /\ Fresh(t) => \A p \in People \ {t.by} : p \in t.value <=> p \in msgs[t.id].stars
  \/ t.field = "pinnedBy" /\ ~t.checked /\ t.value \in People \cup {NoOne}
  \/ t.field = "deleted"

Saving(t) ==
  /\ t.id \in Ids /\ t.by \in People /\ t.checked \in BOOLEAN
  /\ t.version \in Nat /\ t.version <= msgs[t.id].version
  /\ Holding(t)
  /\ Fresh(t) => t.version < asked

\* A forward keeps the origin of the message it was made from, which never changes.
Forwarding(t) ==
  /\ t.id \in Ids /\ t.by \in People
  /\ t.source \in Message /\ t.source.origin = msgs[t.id].origin
  /\ t.left \in Seq(Chats) /\ t.left # << >>

Carried(t) == (t.pc = "save" => Saving(t)) /\ (t.pc = "forward" => Forwarding(t))

\* What is not there yet has no marks.
Unmarked ==
  \A m \in (1..MaxMsgs) \ Ids, p \in People : put[m][p].reaction = NoMark /\ ~put[m][p].star

\* The inductive invariant.
MarksInv ==
  /\ MarksTypeOK /\ req = [h \in Requests |-> req[h]]
  /\ \A m \in Ids : msgs[m].version <= asked
  /\ \A h \in Requests : Carried(req[h])
  /\ Unmarked
  /\ MarksAreTheirs
  /\ ForwardsNameTheFirst

LEMMA SentIsMessage ==
  ASSUME MarksParameters, NEW c \in Chats, NEW p \in People, NEW media \in BOOLEAN,
         NEW origin \in 0..MaxMsgs
  PROVE  /\ Sent(c, p, media, origin) \in Message
         /\ Sent(c, p, media, origin).version = 0 /\ Sent(c, p, media, origin).origin = origin
         /\ Sent(c, p, media, origin).stars = {}
         /\ Sent(c, p, media, origin).reactions = [q \in People |-> NoMark]
BY DEF MarksParameters, Sent, Message

LEMMA MarksBegin == ASSUME MarksParameters, MarksInit PROVE MarksInv
<1>1. PICK p \in People, q \in People : msgs = <<Sent(Direct, p, TRUE, 0), Sent(Group, q, FALSE, 0)>>
  BY DEF MarksInit
<1>2. \A c \in Chats, r \in People, media \in BOOLEAN :
        LET s == Sent(c, r, media, 0)
        IN /\ s \in Message /\ s.version = 0 /\ s.origin = 0 /\ s.stars = {}
           /\ s.reactions = [o \in People |-> NoMark]
  <2>1. 0 \in 0..MaxMsgs
    BY DEF MarksParameters
  <2> QED BY <2>1, SentIsMessage
<1>3. /\ Direct \in Chats /\ Group \in Chats /\ TRUE \in BOOLEAN /\ FALSE \in BOOLEAN
  BY DEF Chats
<1>4. /\ msgs \in Seq(Message) /\ Len(msgs) = 2 /\ Ids = {1, 2}
      /\ \A m \in Ids : /\ msgs[m].version = 0 /\ msgs[m].origin = 0 /\ msgs[m].stars = {}
                        /\ msgs[m].reactions = [r \in People |-> NoMark]
  <2> DEFINE s == Sent(Direct, p, TRUE, 0)
             t == Sent(Group, q, FALSE, 0)
  <2>1. /\ s \in Message /\ s.version = 0 /\ s.origin = 0 /\ s.stars = {}
        /\ s.reactions = [o \in People |-> NoMark]
    BY <1>2, <1>3
  <2>2. /\ t \in Message /\ t.version = 0 /\ t.origin = 0 /\ t.stars = {}
        /\ t.reactions = [o \in People |-> NoMark]
    BY <1>2, <1>3
  <2>3. msgs = <<s, t>>
    BY <1>1
  <2> HIDE DEF s, t
  <2> QED BY <2>1, <2>2, <2>3 DEF Ids
<1>5. /\ roster = [c \in Chats |-> People] /\ barred = FALSE /\ asked = 0
      /\ req = [h \in Requests |-> [pc |-> "idle"]]
      /\ put = [m \in 1..MaxMsgs |-> [r \in People |-> [reaction |-> NoMark, star |-> FALSE]]]
  BY DEF MarksInit, Idle
<1>6. MarksTypeOK /\ req = [h \in Requests |-> req[h]]
  <2>1. /\ 0 \in 0..MaxAsks /\ 2 <= MaxMsgs
    BY DEF MarksParameters
  <2>2. put \in [1..MaxMsgs -> [People -> [reaction : Emojis \cup {NoMark}, star : BOOLEAN]]]
    <3>1. [reaction |-> NoMark, star |-> FALSE] \in [reaction : Emojis \cup {NoMark}, star : BOOLEAN]
      OBVIOUS
    <3> QED BY <1>5, <3>1, Zenon
  <2>3. roster \in [Chats -> SUBSET People] /\ barred \in BOOLEAN
    BY <1>5
  <2>4. /\ \A h \in Requests : req[h].pc \in {"idle", "save", "forward"}
        /\ req = [h \in Requests |-> req[h]]
    BY <1>5
  <2> QED BY <1>4, <1>5, <2>1, <2>2, <2>3, <2>4 DEF MarksTypeOK
<1>7. \A h \in Requests : Carried(req[h])
  BY <1>5 DEF Carried
<1>8. MarksAreTheirs
  <2>1. Ids \subseteq 1..MaxMsgs
    BY <1>4 DEF MarksParameters
  <2>2. \A m \in Ids, r \in People : put[m][r].reaction = NoMark /\ put[m][r].star = FALSE
    BY <1>5, <2>1
  <2> QED BY <1>4, <2>2 DEF MarksAreTheirs
<1>11. Unmarked
  BY <1>5 DEF Unmarked
<1>9. ForwardsNameTheFirst
  BY <1>4 DEF ForwardsNameTheFirst
<1>10. \A m \in Ids : msgs[m].version <= asked
  BY <1>4, <1>5
<1> QED BY <1>6, <1>7, <1>8, <1>9, <1>10, <1>11 DEF MarksInv

\* What the type says of a message that is there.
LEMMA OfMessages ==
  ASSUME MarksTypeOK, MarksParameters
  PROVE  /\ Len(msgs) \in 0..MaxMsgs /\ Ids = 1..Len(msgs) /\ Ids \subseteq 1..MaxMsgs
         /\ msgs = [m \in Ids |-> msgs[m]]
         /\ \A m \in Ids : /\ msgs[m] \in Message /\ msgs[m].version \in Nat /\ msgs[m].origin \in 0..MaxMsgs
                           /\ msgs[m].chat \in Chats /\ msgs[m].words \in BOOLEAN
                           /\ msgs[m].deleted \in BOOLEAN /\ msgs[m].hidden \subseteq People
                           /\ msgs[m].reactions \in [People -> Marks]
                           /\ msgs[m].stars \in SUBSET People
<1>1. /\ Len(msgs) \in 0..MaxMsgs /\ Ids = 1..Len(msgs) /\ msgs = [m \in Ids |-> msgs[m]]
      /\ \A m \in Ids : msgs[m] \in Message
  BY DEF MarksTypeOK, MarksParameters, Ids
<1>2. Ids \subseteq 1..MaxMsgs
  BY <1>1 DEF MarksParameters
<1>3. ASSUME NEW msg \in Message
      PROVE  /\ msg.version \in Nat /\ msg.origin \in 0..MaxMsgs /\ msg.chat \in Chats
             /\ msg.words \in BOOLEAN /\ msg.deleted \in BOOLEAN /\ msg.hidden \subseteq People
             /\ msg.reactions \in [People -> Marks] /\ msg.stars \in SUBSET People
  BY DEF Message, MarksParameters, Marks
<1> QED BY <1>1, <1>2, <1>3

\* A message stays one when a field changes within its type, and the other fields stay.
LEMMA StaysMessage ==
  ASSUME MarksParameters, NEW msg \in Message
  PROVE  /\ \A v \in [People -> Marks] :
              LET new == [msg EXCEPT !.reactions = v]
              IN new \in Message /\ new.reactions = v /\ new.stars = msg.stars /\ new.origin = msg.origin
         /\ \A v \in SUBSET People :
              LET new == [msg EXCEPT !.stars = v]
              IN new \in Message /\ new.stars = v /\ new.reactions = msg.reactions /\ new.origin = msg.origin
         /\ \A v \in People \cup {NoOne} :
              LET new == [msg EXCEPT !.pinnedBy = v]
              IN /\ new \in Message
                 /\ new.stars = msg.stars /\ new.reactions = msg.reactions /\ new.origin = msg.origin
         /\ LET new == [msg EXCEPT !.deleted = TRUE, !.words = FALSE, !.files = FALSE]
            IN /\ new \in Message
               /\ new.stars = msg.stars /\ new.reactions = msg.reactions /\ new.origin = msg.origin
         /\ \A n \in 0..MaxAsks :
              LET new == [msg EXCEPT !.version = n]
              IN /\ new \in Message /\ new.version = n
                 /\ new.stars = msg.stars /\ new.reactions = msg.reactions /\ new.origin = msg.origin
BY DEF Message, Marks, MarksParameters

\* A request that only takes something up, or goes on, changes nothing but itself.
LEMMA Takes ==
  ASSUME MarksParameters, MarksInv, UNCHANGED <<msgs, put>>,
         roster' \in [Chats -> SUBSET People], barred' \in BOOLEAN,
         asked' \in {asked, asked + 1}, asked' \in 0..MaxAsks,
         NEW next, req' = [g \in Requests |-> req'[g]],
         \A g \in Requests : req'[g] = req[g] \/ req'[g] = next,
         next.pc \in {"idle", "save", "forward"}, Carried(next)'
  PROVE  MarksInv'
<1>2. asked \in Nat /\ asked' \in Nat /\ asked <= asked'
  BY DEF MarksInv, MarksTypeOK, MarksParameters
<1>3. \A m \in Ids : msgs[m].version \in Nat
  BY OfMessages DEF MarksInv
<1>4. \A t : Carried(t) => Carried(t)'
  BY <1>2, <1>3 DEF Carried, Saving, Forwarding, Holding, Fresh, Ids
<1>5. \A g \in Requests : Carried(req[g])'
  BY <1>4 DEF MarksInv
<1>6. \A g \in Requests : req'[g].pc \in {"idle", "save", "forward"}
  BY DEF MarksInv, MarksTypeOK
<1>8. MarksTypeOK'
  BY <1>6 DEF MarksInv, MarksTypeOK
<1>9. \A m \in Ids' : msgs'[m].version <= asked'
  BY <1>2, <1>3 DEF MarksInv, Ids
<1>10. MarksAreTheirs' /\ ForwardsNameTheFirst' /\ Unmarked'
  BY DEF MarksInv, MarksAreTheirs, ForwardsNameTheFirst, Unmarked, Ids
<1> QED BY <1>5, <1>8, <1>9, <1>10 DEF MarksInv

\* A conversation, a block and the end of a request are none of the messages' business.
LEMMA QuietSteps ==
  ASSUME MarksParameters, MarksInv
  PROVE  /\ \A p \in People : LeaveGroup(p) => MarksInv'
         /\ SetBlocked => MarksInv'
<1>1. asked \in 0..MaxAsks /\ MaxAsks \in Nat /\ Carried(Idle)' /\ Idle.pc = "idle"
  BY DEF MarksInv, MarksTypeOK, MarksParameters, Carried, Idle
<1>2. roster \in [Chats -> SUBSET People] /\ barred \in BOOLEAN /\ Group \in Chats
  BY DEF MarksInv, MarksTypeOK, Chats
<1>3. req = [g \in Requests |-> req[g]]
  BY DEF MarksInv
<1>4. ASSUME NEW p \in People, LeaveGroup(p) PROVE MarksInv'
  <2>1. /\ roster' \in [Chats -> SUBSET People] /\ barred' \in BOOLEAN
        /\ UNCHANGED <<msgs, put, req>> /\ asked' = asked + 1 /\ asked' \in 0..MaxAsks
    BY <1>1, <1>2, <1>4 DEF LeaveGroup, Ask
  <2> QED BY <1>1, <1>3, <2>1, Takes
<1>5. ASSUME SetBlocked PROVE MarksInv'
  <2>1. /\ roster' \in [Chats -> SUBSET People] /\ barred' \in BOOLEAN
        /\ UNCHANGED <<msgs, put, req>> /\ asked' = asked + 1 /\ asked' \in 0..MaxAsks
    BY <1>1, <1>2, <1>5 DEF SetBlocked, Ask
  <2> QED BY <1>1, <1>3, <2>1, Takes
<1> QED BY <1>4, <1>5

\* What somebody reads in order to change it, they may save.
LEMMA ReadingSteps ==
  ASSUME MarksParameters, MarksInv, NEW h \in Requests, NEW p \in People, NEW m \in Ids
  PROVE  /\ \A e \in Emojis : ReadForReaction(h, p, m, e) => MarksInv'
         /\ ReadForStar(h, p, m) => MarksInv'
         /\ ReadForPin(h, p, m) => MarksInv'
         /\ ReadForWipe(h, p, m) => MarksInv'
         /\ \A chats \in Destinations : ReadForForward(h, p, m, chats) => MarksInv'
<1>1. /\ asked \in 0..MaxAsks /\ MaxAsks \in Nat
      /\ roster \in [Chats -> SUBSET People] /\ barred \in BOOLEAN
      /\ req = [g \in Requests |-> req[g]]
      /\ msgs[m].version \in Nat /\ msgs[m].version <= asked
      /\ msgs[m] \in Message /\ msgs[m].files \in BOOLEAN
      /\ msgs[m].reactions \in [People -> Marks] /\ msgs[m].stars \in SUBSET People
  BY OfMessages DEF MarksInv, MarksTypeOK, MarksParameters, Message
<1>2. ASSUME NEW field, NEW value, NEW checked \in BOOLEAN, Change(h, p, m, field, value, checked),
             LET t == [pc |-> "save", by |-> p, id |-> m, field |-> field, value |-> value,
                       checked |-> checked, version |-> msgs[m].version] IN Holding(t)
      PROVE  MarksInv'
  <2>t. PICK t : t = [pc |-> "save", by |-> p, id |-> m, field |-> field, value |-> value,
                      checked |-> checked, version |-> msgs[m].version]
    OBVIOUS
  <2>1. /\ asked' = asked + 1 /\ asked' \in 0..MaxAsks /\ UNCHANGED <<msgs, put, roster, barred>>
        /\ req' = [req EXCEPT ![h] = t]
    BY <1>1, <1>2, <2>t DEF Change, Asked, Ask, Goto
  <2>2. /\ t.pc = "save" /\ t.id = m /\ t.by = p /\ t.checked = checked
        /\ t.version = msgs[m].version
    BY <2>t
  <2>3. Holding(t)
    BY <1>2, <2>t
  <2>4. Holding(t)'
    BY <2>1, <2>3 DEF Holding, Fresh
  <2>5. m \in Ids' /\ msgs'[m].version < asked'
    BY <1>1, <2>1 DEF Ids
  <2>6. Carried(t)'
    BY <1>1, <2>1, <2>2, <2>4, <2>5 DEF Carried, Saving
  <2>7. /\ req' = [g \in Requests |-> req'[g]]
        /\ \A g \in Requests : req'[g] = req[g] \/ req'[g] = t
    BY <1>1, <2>1
  <2> QED BY <1>1, <2>1, <2>2, <2>6, <2>7, Takes
<1>3. ASSUME NEW e \in Emojis, ReadForReaction(h, p, m, e) PROVE MarksInv'
  <2> DEFINE mine == IF msgs[m].reactions[p] = e THEN NoMark ELSE e
             v    == [msgs[m].reactions EXCEPT ![p] = mine]
  <2>1. Change(h, p, m, "reactions", v, TRUE)
    BY <1>3 DEF ReadForReaction
  <2>2. v \in [People -> Marks] /\ \A q \in People \ {p} : v[q] = msgs[m].reactions[q]
    BY <1>1 DEF Marks
  <2> HIDE DEF v
  <2> QED BY <1>2, <2>1, <2>2 DEF Holding
<1>4. ASSUME ReadForStar(h, p, m) PROVE MarksInv'
  <2> DEFINE v == IF p \in msgs[m].stars THEN msgs[m].stars \ {p} ELSE msgs[m].stars \cup {p}
  <2>1. Change(h, p, m, "stars", v, TRUE)
    BY <1>4 DEF ReadForStar
  <2>2. v \in SUBSET People /\ \A q \in People \ {p} : q \in v <=> q \in msgs[m].stars
    BY <1>1
  <2> HIDE DEF v
  <2> QED BY <1>2, <2>1, <2>2 DEF Holding
<1>5. ASSUME ReadForPin(h, p, m) PROVE MarksInv'
  <2> DEFINE v == IF msgs[m].pinnedBy = NoOne THEN p ELSE NoOne
  <2>1. Change(h, p, m, "pinnedBy", v, FALSE)
    BY <1>5 DEF ReadForPin
  <2>2. v \in People \cup {NoOne}
    OBVIOUS
  <2> HIDE DEF v
  <2> QED BY <1>2, <2>1, <2>2 DEF Holding
<1>6. ASSUME ReadForWipe(h, p, m) PROVE MarksInv'
  <2>1. Change(h, p, m, "deleted", TRUE, msgs[m].files)
    BY <1>6 DEF ReadForWipe
  <2> QED BY <1>1, <1>2, <2>1 DEF Holding
<1>7. ASSUME NEW chats \in Destinations, ReadForForward(h, p, m, chats) PROVE MarksInv'
  <2>t. PICK t : t = [pc |-> "forward", by |-> p, source |-> msgs[m], id |-> m, left |-> chats]
    OBVIOUS
  <2>1. /\ asked' = asked + 1 /\ asked' \in 0..MaxAsks /\ UNCHANGED <<msgs, put, roster, barred>>
        /\ req' = [req EXCEPT ![h] = t]
    BY <1>1, <1>7, <2>t DEF ReadForForward, Asked, Ask, Goto
  <2>2. /\ t.pc = "forward" /\ t.id = m /\ t.by = p /\ t.source = msgs[m] /\ t.left = chats
    BY <2>t
  <2>3. chats \in Seq(Chats) /\ chats # << >>
    BY DEF MarksParameters
  <2>4. Carried(t)'
    BY <1>1, <2>1, <2>2, <2>3 DEF Carried, Forwarding, Ids
  <2>5. /\ req' = [g \in Requests |-> req'[g]]
        /\ \A g \in Requests : req'[g] = req[g] \/ req'[g] = t
    BY <1>1, <2>1
  <2> QED BY <1>1, <2>1, <2>2, <2>4, <2>5, Takes
<1> QED BY <1>3, <1>4, <1>5, <1>6, <1>7

\* Requests go on being what they were while messages change, if whatever touches the
\* reactions or stars of a message raises its version.
LEMMA CarriedOn ==
  ASSUME MarksParameters, MarksInv, MarksTypeOK', asked <= asked', Ids \subseteq Ids',
         \A m \in Ids : /\ msgs'[m].origin = msgs[m].origin
                        /\ msgs[m].version <= msgs'[m].version
                        /\ msgs'[m].version = msgs[m].version =>
                             msgs'[m].reactions = msgs[m].reactions /\ msgs'[m].stars = msgs[m].stars
  PROVE  \A t : Carried(t) => Carried(t)'
<1>1. \A m \in Ids : msgs[m].version \in Nat
  BY OfMessages DEF MarksInv
<1>2. asked \in Nat /\ asked' \in Nat /\ \A m \in Ids : msgs'[m].version \in Nat
  <2>1. \A msg \in Message : msg.version \in Nat
    BY DEF Message, MarksParameters
  <2>2. \A m \in Ids' : msgs'[m] \in Message
    BY DEF MarksTypeOK, Ids
  <2> QED BY <2>1, <2>2 DEF MarksInv, MarksTypeOK, MarksParameters
<1>3. ASSUME NEW t, Carried(t), t.pc = "forward" PROVE Forwarding(t)'
  BY <1>3 DEF Carried, Forwarding
<1>4. ASSUME NEW t, Carried(t), t.pc = "save" PROVE Saving(t)'
  <2>1. Saving(t)
    BY <1>4 DEF Carried
  <2>2. /\ t.id \in Ids /\ t.id \in Ids' /\ t.version \in Nat /\ t.version <= msgs[t.id].version
        /\ t.version <= msgs'[t.id].version
    BY <1>1, <1>2, <2>1 DEF Saving
  <2>3. Fresh(t)' => /\ Fresh(t)
                     /\ msgs'[t.id].reactions = msgs[t.id].reactions
                     /\ msgs'[t.id].stars = msgs[t.id].stars
    BY <1>1, <1>2, <2>2 DEF Fresh
  <2>4. Holding(t)'
    BY <2>1, <2>3 DEF Saving, Holding
  <2>5. Fresh(t)' => t.version < asked'
    BY <1>2, <2>1, <2>2, <2>3 DEF Saving
  <2> QED BY <2>1, <2>2, <2>4, <2>5 DEF Saving
<1> QED BY <1>3, <1>4 DEF Carried

\* The messages after one of them was written over.
LEMMA OneWritten ==
  ASSUME MarksParameters, MarksTypeOK, NEW m \in Ids, NEW msg \in Message,
         msgs' = [msgs EXCEPT ![m] = msg]
  PROVE  /\ msgs' \in Seq(Message) /\ Len(msgs') = Len(msgs) /\ Ids' = Ids
         /\ msgs'[m] = msg /\ \A n \in Ids \ {m} : msgs'[n] = msgs[n]
BY DEF MarksTypeOK, Ids

LEMMA HidingSteps ==
  ASSUME MarksParameters, MarksInv, NEW p \in People
  PROVE  /\ \A m : DeleteForMe(p, m) => MarksInv'
         /\ HideAllFor(p) => MarksInv'
<1>1. /\ MarksTypeOK /\ asked \in 0..MaxAsks /\ MaxAsks \in Nat
      /\ req = [g \in Requests |-> req[g]]
  BY DEF MarksInv, MarksTypeOK, MarksParameters
<1>2. \A m \in Ids : /\ msgs[m] \in Message /\ msgs[m].version \in Nat /\ msgs[m].version <= asked
                     /\ msgs[m].hidden \subseteq People
  BY OfMessages DEF MarksInv
\* Everything but hidden words and versions stays as it is.
<1>3. ASSUME msgs' \in Seq(Message), Len(msgs') = Len(msgs), Ids' = Ids,
             \A m \in Ids : /\ msgs'[m].origin = msgs[m].origin
                            /\ msgs'[m].reactions = msgs[m].reactions
                            /\ msgs'[m].stars = msgs[m].stars
                            /\ msgs'[m].version \in {msgs[m].version, msgs[m].version + 1},
             asked' = asked + 1, asked' \in 0..MaxAsks, UNCHANGED <<roster, barred, req, put>>
      PROVE  MarksInv'
  <2>1. MarksTypeOK'
    BY <1>1, <1>3 DEF MarksTypeOK
  <2>2. \A m \in Ids' : msgs[m].version <= msgs'[m].version /\ msgs'[m].version <= asked'
    BY <1>1, <1>2, <1>3
  <2>3. \A t : Carried(t) => Carried(t)'
    BY <1>1, <1>3, <2>1, <2>2, CarriedOn
  <2>4. \A g \in Requests : Carried(req[g])'
    BY <1>3, <2>3 DEF MarksInv
  <2>5. MarksAreTheirs'
    BY <1>3 DEF MarksInv, MarksAreTheirs
  <2>7. Unmarked'
    BY <1>3 DEF MarksInv, Unmarked
  <2>6. ForwardsNameTheFirst'
    <3>1. \A m \in Ids : msgs[m].origin # 0 => msgs[m].origin \in Ids
      BY OfMessages DEF MarksInv, ForwardsNameTheFirst
    <3> QED BY <1>3, <3>1 DEF MarksInv, ForwardsNameTheFirst
  <2> QED BY <1>1, <1>3, <2>1, <2>2, <2>4, <2>5, <2>6, <2>7 DEF MarksInv
<1>4. ASSUME NEW m, DeleteForMe(p, m) PROVE MarksInv'
  <2>1. /\ m \in Ids /\ asked' = asked + 1 /\ asked' \in 0..MaxAsks
        /\ UNCHANGED <<roster, barred, req, put>>
    BY <1>1, <1>4 DEF DeleteForMe, Ask
  <2>2. PICK msg : msg = [msgs[m] EXCEPT !.hidden = @ \cup {p}, !.version = @ + 1]
    OBVIOUS
  <2>3. /\ msg \in Message /\ msg.origin = msgs[m].origin /\ msg.reactions = msgs[m].reactions
        /\ msg.stars = msgs[m].stars /\ msg.version = msgs[m].version + 1
    <3>1. /\ msgs[m] \in Message /\ msgs[m].version + 1 \in 0..MaxAsks
          /\ msgs[m].hidden \cup {p} \in SUBSET People
      BY <1>1, <1>2, <2>1
    <3>2. PICK v \in 0..MaxAsks, s \in SUBSET People :
            v = msgs[m].version + 1 /\ s = msgs[m].hidden \cup {p}
      BY <3>1
    <3>3. msg = [msgs[m] EXCEPT !.hidden = s, !.version = v]
      BY <2>2, <3>2
    <3> QED BY <3>1, <3>2, <3>3 DEF Message
  <2>4. msgs' = [msgs EXCEPT ![m] = msg]
    BY <1>4, <2>2 DEF DeleteForMe
  <2>5. /\ msgs' \in Seq(Message) /\ Len(msgs') = Len(msgs) /\ Ids' = Ids
        /\ msgs'[m] = msg /\ \A n \in Ids \ {m} : msgs'[n] = msgs[n]
    BY <1>1, <2>1, <2>3, <2>4, OneWritten
  <2> QED BY <1>3, <2>1, <2>3, <2>5
<1>5. ASSUME HideAllFor(p) PROVE MarksInv'
  <2>1. /\ asked' = asked + 1 /\ asked' \in 0..MaxAsks /\ UNCHANGED <<roster, barred, req, put>>
        /\ msgs' = [m \in Ids |-> IF msgs[m].chat = Direct
                                  THEN [msgs[m] EXCEPT !.hidden = @ \cup {p}] ELSE msgs[m]]
    BY <1>1, <1>5 DEF HideAllFor, Ask
  <2>2. \A m \in Ids :
          LET msg == [msgs[m] EXCEPT !.hidden = @ \cup {p}]
          IN /\ msg \in Message /\ msg.origin = msgs[m].origin /\ msg.reactions = msgs[m].reactions
             /\ msg.stars = msgs[m].stars /\ msg.version = msgs[m].version
    BY <1>2 DEF Message
  <2>3. \A m \in Ids : /\ msgs'[m] \in Message /\ msgs'[m].origin = msgs[m].origin
                       /\ msgs'[m].reactions = msgs[m].reactions
                       /\ msgs'[m].stars = msgs[m].stars /\ msgs'[m].version = msgs[m].version
    BY <1>2, <2>1, <2>2
  <2>4. Ids = 1..Len(msgs) /\ Len(msgs) \in Nat
    BY <1>1, OfMessages
  <2>5. msgs' \in Seq(Message) /\ Len(msgs') = Len(msgs) /\ Ids' = Ids
    <3>1. msgs' = [m \in 1..Len(msgs) |-> msgs'[m]]
      BY <2>1, <2>4
    <3> QED BY <2>3, <2>4, <3>1 DEF Ids
  <2> QED BY <1>3, <2>1, <2>3, <2>5
<1> QED BY <1>4, <1>5

\* A save stores what it holds, if nobody was quicker, and the history notes it.
LEMMA SaveStep ==
  ASSUME MarksParameters, MarksInv, NEW h \in Requests, Save(h)
  PROVE  MarksInv'
<1>1. /\ MarksTypeOK /\ asked \in 0..MaxAsks /\ MaxAsks \in Nat
      /\ roster \in [Chats -> SUBSET People] /\ barred \in BOOLEAN
      /\ req = [g \in Requests |-> req[g]]
      /\ put \in [1..MaxMsgs -> [People -> [reaction : Marks, star : BOOLEAN]]]
      /\ Ids \subseteq 1..MaxMsgs
  BY OfMessages DEF MarksInv, MarksTypeOK, MarksParameters, Marks
<1>2. PICK t : t = req[h]
  OBVIOUS
<1>3. /\ t.pc = "save" /\ Saving(t) /\ asked' = asked /\ UNCHANGED <<roster, barred>>
      /\ req' = [req EXCEPT ![h] = Idle]
  BY <1>2 DEF Save, MarksInv, Carried, Goto
<1>4. /\ req' = [g \in Requests |-> req'[g]]
      /\ \A g \in Requests : req'[g] = req[g] \/ req'[g] = Idle
      /\ \A g \in Requests : req'[g].pc \in {"idle", "save", "forward"}
      /\ Carried(Idle)' /\ Idle.pc = "idle"
  BY <1>1, <1>3 DEF Idle, Carried, MarksTypeOK
<1>5. CASE t.checked /\ msgs[t.id].version # t.version
  BY <1>1, <1>2, <1>3, <1>4, <1>5, Takes DEF Save
<1>6. CASE ~(t.checked /\ msgs[t.id].version # t.version)
  <2>1. /\ t.id \in Ids /\ t.by \in People /\ t.checked \in BOOLEAN /\ Holding(t)
        /\ msgs[t.id].version \in Nat /\ msgs[t.id].version <= asked /\ msgs[t.id] \in Message
        /\ msgs[t.id].reactions \in [People -> Marks] /\ msgs[t.id].stars \in SUBSET People
    BY <1>3, OfMessages DEF Saving, MarksInv
  <2>2. t.checked => Fresh(t) /\ msgs[t.id].version < asked
    BY <1>3, <1>6 DEF Saving, Fresh
  <2>3. PICK raised : raised = msgs[t.id].version + (IF t.checked THEN 1 ELSE 0)
    OBVIOUS
  <2>4. /\ raised \in 0..MaxAsks /\ raised <= asked /\ msgs[t.id].version <= raised
        /\ t.checked => raised # msgs[t.id].version
    BY <1>1, <2>1, <2>2, <2>3
  <2>5. PICK old : old = Written(t, msgs[t.id])
    OBVIOUS
  <2>6. PICK new : new = [old EXCEPT !.version = raised]
    OBVIOUS
  <2>7. msgs' = [msgs EXCEPT ![t.id] = new] /\ put' = Noted(t)
    BY <1>2, <1>6, <2>3, <2>5, <2>6 DEF Save
  <2>8. /\ old \in Message /\ old.origin = msgs[t.id].origin
        /\ t.field # "reactions" => old.reactions = msgs[t.id].reactions
        /\ t.field = "reactions" => old.reactions = t.value
        /\ t.field # "stars" => old.stars = msgs[t.id].stars
        /\ t.field = "stars" => old.stars = t.value
    <3>1. CASE t.field = "reactions"
      <4>1. old = [msgs[t.id] EXCEPT !.reactions = t.value] /\ t.value \in [People -> Marks]
        BY <2>1, <2>5, <3>1 DEF Written, Holding
      <4> QED BY <2>1, <3>1, <4>1, StaysMessage
    <3>2. CASE t.field = "stars"
      <4>1. old = [msgs[t.id] EXCEPT !.stars = t.value] /\ t.value \in SUBSET People
        BY <2>1, <2>5, <3>2 DEF Written, Holding
      <4> QED BY <2>1, <3>2, <4>1, StaysMessage
    <3>3. CASE t.field = "pinnedBy"
      <4>1. old = [msgs[t.id] EXCEPT !.pinnedBy = t.value] /\ t.value \in People \cup {NoOne}
        BY <2>1, <2>5, <3>3 DEF Written, Holding
      <4> QED BY <2>1, <3>3, <4>1, StaysMessage
    <3>4. CASE t.field = "deleted"
      <4>1. old = [msgs[t.id] EXCEPT !.deleted = TRUE, !.words = FALSE, !.files = FALSE]
        BY <2>5, <3>4 DEF Written
      <4> QED BY <2>1, <3>4, <4>1, StaysMessage
    <3> QED BY <2>1, <3>1, <3>2, <3>3, <3>4 DEF Holding
  <2>9. /\ new \in Message /\ new.version = raised /\ new.origin = old.origin
        /\ new.reactions = old.reactions /\ new.stars = old.stars
    BY <2>4, <2>6, <2>8, StaysMessage
  <2>10. /\ msgs' \in Seq(Message) /\ Len(msgs') = Len(msgs) /\ Ids' = Ids
         /\ msgs'[t.id] = new /\ \A n \in Ids \ {t.id} : msgs'[n] = msgs[n]
    BY <1>1, <2>1, <2>7, <2>9, OneWritten
  <2>11. /\ put' \in [1..MaxMsgs -> [People -> [reaction : Marks, star : BOOLEAN]]]
         /\ \A m \in 1..MaxMsgs, p \in People :
              ~(m = t.id /\ p = t.by) => put'[m][p] = put[m][p]
         /\ t.field = "reactions" => /\ put'[t.id][t.by].reaction = t.value[t.by]
                                     /\ put'[t.id][t.by].star = put[t.id][t.by].star
         /\ t.field = "stars" => /\ put'[t.id][t.by].star = (t.by \in t.value)
                                 /\ put'[t.id][t.by].reaction = put[t.id][t.by].reaction
         /\ t.field \notin {"reactions", "stars"} => put' = put
    <3>1. t.id \in 1..MaxMsgs
      BY <1>1, <2>1
    <3>2. CASE t.field = "reactions"
      <4>1. PICK v : v = t.value[t.by]
        OBVIOUS
      <4>2. v \in Marks
        BY <2>1, <3>2, <4>1 DEF Holding
      <4>3. put' = [put EXCEPT ![t.id][t.by].reaction = v]
        BY <2>7, <3>2, <4>1 DEF Noted
      <4> HIDE DEF Marks
      <4> QED BY <1>1, <2>1, <3>1, <3>2, <4>1, <4>2, <4>3
    <3>3. CASE t.field = "stars"
      <4>1. PICK v \in BOOLEAN : v <=> t.by \in t.value
        BY Zenon
      <4>2. put' = [put EXCEPT ![t.id][t.by].star = v]
        BY <2>7, <3>3, <4>1 DEF Noted
      <4> QED BY <1>1, <2>1, <3>1, <3>3, <4>1, <4>2
    <3>4. CASE t.field \notin {"reactions", "stars"}
      <4>1. put' = put
        BY <2>7, <3>4 DEF Noted
      <4> QED BY <1>1, <3>4, <4>1
    <3> QED BY <3>2, <3>3, <3>4
  <2>12. MarksAreTheirs'
    <3> SUFFICES ASSUME NEW m \in Ids, NEW p \in People
                 PROVE  /\ msgs'[m].reactions[p] = put'[m][p].reaction
                        /\ p \in msgs'[m].stars <=> put'[m][p].star
      BY <2>10 DEF MarksAreTheirs
    <3>1. /\ msgs[m].reactions[p] = put[m][p].reaction
          /\ p \in msgs[m].stars <=> put[m][p].star
      BY DEF MarksInv, MarksAreTheirs
    <3>2. CASE m # t.id
      BY <1>1, <2>10, <2>11, <3>1, <3>2
    <3>3. CASE m = t.id /\ p # t.by
      <4>1. put'[m][p] = put[m][p]
        BY <1>1, <2>11, <3>3
      <4>2. t.field = "reactions" => t.value[p] = msgs[m].reactions[p]
        BY <2>1, <2>2, <3>3 DEF Holding
      <4>3. t.field = "stars" => (p \in t.value <=> p \in msgs[m].stars)
        BY <2>1, <2>2, <3>3 DEF Holding
      <4> QED BY <2>8, <2>9, <2>10, <3>1, <3>3, <4>1, <4>2, <4>3
    <3>4. CASE m = t.id /\ p = t.by
      BY <2>8, <2>9, <2>10, <2>11, <3>1, <3>4
    <3> QED BY <3>2, <3>3, <3>4
  <2>13. MarksTypeOK'
    BY <1>1, <1>3, <1>4, <2>10, <2>11 DEF MarksTypeOK, Marks
  <2>14. \A m \in Ids : /\ msgs'[m].origin = msgs[m].origin
                        /\ msgs[m].version <= msgs'[m].version
                        /\ msgs'[m].version <= asked
                        /\ msgs'[m].version = msgs[m].version =>
                             msgs'[m].reactions = msgs[m].reactions /\ msgs'[m].stars = msgs[m].stars
    <3> SUFFICES ASSUME NEW m \in Ids
                 PROVE  /\ msgs'[m].origin = msgs[m].origin
                        /\ msgs[m].version <= msgs'[m].version
                        /\ msgs'[m].version <= asked
                        /\ msgs'[m].version = msgs[m].version =>
                             msgs'[m].reactions = msgs[m].reactions /\ msgs'[m].stars = msgs[m].stars
      OBVIOUS
    <3>1. CASE m # t.id
      <4>1. msgs[m].version \in Nat /\ msgs[m].version <= asked
        BY OfMessages DEF MarksInv
      <4> QED BY <2>10, <3>1, <4>1
    <3>2. CASE m = t.id
      <4>1. ~t.checked => t.field \notin {"reactions", "stars"}
        BY <2>1 DEF Holding
      <4> QED BY <2>4, <2>8, <2>9, <2>10, <3>2, <4>1
    <3> QED BY <3>1, <3>2
  <2>15. \A g \in Requests : Carried(req[g])'
    <3>1. asked <= asked'
      BY <1>1, <1>3
    <3>2. \A c : Carried(c) => Carried(c)'
      BY <2>10, <2>13, <2>14, <3>1, CarriedOn
    <3>3. Carried(Idle)
      BY DEF Carried, Idle
    <3>4. \A g \in Requests : Carried(req[g])
      BY DEF MarksInv
    <3> QED BY <1>4, <3>2, <3>3, <3>4
  <2>16. ForwardsNameTheFirst'
    <3>1. \A m \in Ids : msgs[m].origin # 0 => msgs[m].origin \in Ids
      BY OfMessages DEF MarksInv, ForwardsNameTheFirst
    <3> QED BY <2>10, <2>14, <3>1 DEF MarksInv, ForwardsNameTheFirst
  <2>17. \A m \in Ids' : msgs'[m].version <= asked'
    BY <1>3, <2>10, <2>14
  <2>18. Unmarked'
    <3>1. \A m \in (1..MaxMsgs) \ Ids, p \in People : put'[m][p] = put[m][p]
      BY <2>1, <2>11
    <3> QED BY <2>10, <3>1 DEF MarksInv, Unmarked
  <2> QED BY <1>4, <2>12, <2>13, <2>15, <2>16, <2>17, <2>18 DEF MarksInv
<1> QED BY <1>5, <1>6

\* A forward adds one message, which nobody has marked, and whose origin is a message
\* that is no forward.
LEMMA ForwardStep ==
  ASSUME MarksParameters, MarksInv, NEW h \in Requests, ForwardNext(h)
  PROVE  MarksInv'
<1>1. /\ MarksTypeOK /\ asked \in 0..MaxAsks /\ MaxAsks \in Nat /\ MaxMsgs \in Nat
      /\ roster \in [Chats -> SUBSET People] /\ barred \in BOOLEAN
      /\ req = [g \in Requests |-> req[g]]
      /\ Ids = 1..Len(msgs) /\ Len(msgs) \in 0..MaxMsgs /\ msgs \in Seq(Message)
  BY OfMessages DEF MarksInv, MarksTypeOK, MarksParameters
<1>2. PICK t : t = req[h]
  OBVIOUS
<1>3. PICK rest : rest = IF Len(t.left) = 1 THEN Idle ELSE [t EXCEPT !.left = Tail(@)]
  OBVIOUS
<1>4. /\ t.pc = "forward" /\ Forwarding(t) /\ UNCHANGED <<roster, barred, asked, put>>
      /\ Head(t.left) \in Chats
  BY <1>2 DEF ForwardNext, MarksInv, Carried, Forwarding
<1>5. /\ Carried(rest) /\ rest.pc \in {"idle", "forward"}
      /\ Carried(Idle) /\ Idle.pc = "idle"
  <2>1. Len(t.left) # 1 => Tail(t.left) \in Seq(Chats) /\ Tail(t.left) # << >>
    <3>1. PICK left \in Seq(Chats) : left = t.left
      BY <1>4 DEF Forwarding
    <3>2. left # << >> /\ Len(left) \in Nat /\ Len(left) # 0
      BY <1>4, <3>1 DEF Forwarding
    <3>3. Len(left) # 1 => Tail(left) \in Seq(Chats) /\ Len(Tail(left)) # 0
      BY <3>2
    <3> QED BY <3>1, <3>3
  <2>2. CASE Len(t.left) = 1
    BY <1>3, <2>2 DEF Carried, Idle
  <2>3. CASE Len(t.left) # 1
    BY <1>3, <1>4, <2>1, <2>3 DEF Carried, Idle, Forwarding
  <2> QED BY <2>2, <2>3 DEF Carried, Idle
<1>6. ASSUME NEW next \in {rest, Idle}, Goto(h, next)
      PROVE  /\ req' = [g \in Requests |-> req'[g]]
             /\ \A g \in Requests : req'[g] = req[g] \/ req'[g] = next
             /\ \A g \in Requests : req'[g].pc \in {"idle", "save", "forward"}
  BY <1>1, <1>5, <1>6 DEF Goto, MarksInv, MarksTypeOK
<1>7. ASSUME NEW next \in {rest, Idle}, Goto(h, next), UNCHANGED msgs PROVE MarksInv'
  <2>1. Carried(next) => Carried(next)'
    BY <1>4, <1>7 DEF Carried, Saving, Forwarding, Holding, Fresh, Ids
  <2> QED BY <1>1, <1>4, <1>5, <1>6, <1>7, <2>1, Takes
<1>8. ASSUME NEW msg,
             msg = [Sent(Head(t.left), t.by, t.source.media, Origin(t)) EXCEPT
                      !.files = t.source.files, !.words = t.source.words],
             Len(msgs) < MaxMsgs, msgs' = Append(msgs, msg), Goto(h, rest)
      PROVE  MarksInv'
  <2>1. /\ Origin(t) \in 0..MaxMsgs /\ Origin(t) \in Ids /\ msgs[Origin(t)].origin = 0
        /\ t.source.media \in BOOLEAN /\ t.source.files \in BOOLEAN /\ t.source.words \in BOOLEAN
    <3>1. /\ t.id \in Ids /\ t.source \in Message /\ t.source.origin = msgs[t.id].origin
      BY <1>4 DEF Forwarding
    <3>2. /\ t.source.media \in BOOLEAN /\ t.source.files \in BOOLEAN /\ t.source.words \in BOOLEAN
          /\ t.source.origin \in 0..MaxMsgs
      BY <3>1 DEF Message
    <3>3. t.source.origin # 0 => t.source.origin < t.id /\ msgs[t.source.origin].origin = 0
      BY <3>1 DEF MarksInv, ForwardsNameTheFirst
    <3>4. t.id \in 1..Len(msgs)
      BY <1>1, <3>1
    <3>5. CASE t.source.origin # 0
      BY <1>1, <3>2, <3>3, <3>4, <3>5 DEF Origin
    <3>6. CASE t.source.origin = 0
      <4>1. Origin(t) = t.id /\ t.id \in Ids /\ msgs[t.id].origin = 0 /\ t.id \in 0..MaxMsgs
        BY <1>1, <3>1, <3>4, <3>6 DEF Origin
      <4> QED BY <3>2, <4>1
    <3> QED BY <3>5, <3>6
  <2>2. PICK sent : sent = Sent(Head(t.left), t.by, t.source.media, Origin(t))
    OBVIOUS
  <2>3. /\ sent \in Message /\ sent.version = 0 /\ sent.origin = Origin(t) /\ sent.stars = {}
        /\ sent.reactions = [q \in People |-> NoMark]
    BY <1>4, <2>1, <2>2, SentIsMessage DEF Forwarding
  <2>4. /\ msg \in Message /\ msg.version = 0 /\ msg.origin = Origin(t) /\ msg.stars = {}
        /\ msg.reactions = [q \in People |-> NoMark]
    BY <1>8, <2>1, <2>2, <2>3 DEF Message
  <2>5. /\ msgs' \in Seq(Message) /\ Len(msgs') = Len(msgs) + 1
        /\ Ids' = Ids \cup {Len(msgs) + 1} /\ Len(msgs) + 1 \notin Ids
        /\ msgs'[Len(msgs) + 1] = msg /\ \A m \in Ids : msgs'[m] = msgs[m]
    <3>1. Append(msgs, msg) \in Seq(Message)
      BY <1>1, <2>4
    <3>2. DOMAIN msgs' = 1..(Len(msgs) + 1) /\ Len(msgs') = Len(msgs) + 1
      BY <1>1, <1>8, <2>4
    <3> QED BY <1>1, <1>8, <2>4, <3>1, <3>2 DEF Ids
  <2>6. MarksTypeOK'
    BY <1>1, <1>4, <1>6, <1>8, <2>5 DEF MarksTypeOK
  <2>7. \A g \in Requests : Carried(req[g])'
    <3>1. asked <= asked'
      BY <1>1, <1>4
    <3>2. \A c : Carried(c) => Carried(c)'
      BY <2>5, <2>6, <3>1, OfMessages, CarriedOn DEF MarksInv
    <3>3. \A g \in Requests : Carried(req[g])
      BY DEF MarksInv
    <3> QED BY <1>5, <1>6, <1>8, <3>2, <3>3
  <2>8. MarksAreTheirs' /\ Unmarked'
    <3>1. Len(msgs) + 1 \in (1..MaxMsgs) \ Ids
      BY <1>1, <1>8, <2>5
    <3>2. put' = put /\ MarksAreTheirs /\ Unmarked
      BY <1>4 DEF MarksInv
    <3>3. MarksAreTheirs'
      BY <2>4, <2>5, <3>1, <3>2 DEF MarksAreTheirs, Unmarked
    <3>4. Unmarked'
      BY <2>5, <3>2 DEF Unmarked
    <3> QED BY <3>3, <3>4
  <2>9. ForwardsNameTheFirst'
    <3>1. \A m \in Ids : msgs[m].origin # 0 => msgs[m].origin \in Ids
      BY OfMessages DEF MarksInv, ForwardsNameTheFirst
    <3>2. ForwardsNameTheFirst
      BY DEF MarksInv
    <3>3. \A m \in Ids : msgs'[m].origin # 0 =>
            msgs'[m].origin < m /\ msgs'[msgs'[m].origin].origin = 0
      BY <2>5, <3>1, <3>2 DEF ForwardsNameTheFirst
    <3>4. msg.origin < Len(msgs) + 1 /\ msgs'[msg.origin].origin = 0
      BY <1>1, <2>1, <2>4, <2>5
    <3> QED BY <2>5, <3>3, <3>4 DEF ForwardsNameTheFirst
  <2>10. \A m \in Ids' : msgs'[m].version <= asked'
    BY <1>1, <1>4, <2>4, <2>5 DEF MarksInv
  <2> QED BY <1>6, <1>8, <2>6, <2>7, <2>8, <2>9, <2>10 DEF MarksInv
<1> QED BY <1>2, <1>3, <1>7, <1>8 DEF ForwardNext

LEMMA MarksStay == ASSUME MarksParameters, MarksInv, [MarksNext]_vars PROVE MarksInv'
<1>1. CASE MarksNext
  <2>1. ASSUME NEW h \in Requests, NEW p \in People, NEW m \in Ids,
               \/ \E e \in Emojis : ReadForReaction(h, p, m, e)
               \/ ReadForStar(h, p, m) \/ ReadForPin(h, p, m) \/ ReadForWipe(h, p, m)
               \/ \E chats \in Destinations : ReadForForward(h, p, m, chats)
        PROVE  MarksInv'
    BY <2>1, ReadingSteps
  <2>2. ASSUME NEW h \in Requests, Save(h) \/ ForwardNext(h) PROVE MarksInv'
    BY <2>2, SaveStep, ForwardStep
  <2>3. ASSUME NEW p \in People,
               HideAllFor(p) \/ LeaveGroup(p) \/ \E m \in 1..MaxMsgs : DeleteForMe(p, m)
        PROVE  MarksInv'
    BY <2>3, HidingSteps, QuietSteps
  <2>4. ASSUME SetBlocked PROVE MarksInv'
    BY <2>4, QuietSteps
  <2> QED BY <1>1, <2>1, <2>2, <2>3, <2>4 DEF MarksNext
<1>2. CASE UNCHANGED vars
  BY <1>2 DEF vars, MarksInv, MarksTypeOK, Unmarked, MarksAreTheirs, ForwardsNameTheFirst, Ids,
              Carried, Saving, Forwarding, Holding, Fresh
<1> QED BY <1>1, <1>2

THEOREM MarksInvariance == MarksParameters => (MarksSpec => []MarksInv)
<1> SUFFICES ASSUME MarksParameters PROVE MarksSpec => []MarksInv
  OBVIOUS
<1>1. MarksInit => MarksInv
  BY MarksBegin
<1>2. MarksInv /\ [MarksNext]_vars => MarksInv'
  BY MarksStay
<1> QED BY <1>1, <1>2, PTL DEF MarksSpec

\* However saves cross, everybody's reaction and star are what they last saved.
THEOREM MarksRemainTheirs == MarksParameters => (MarksSpec => [](MarksTypeOK /\ MarksAreTheirs))
<1> SUFFICES ASSUME MarksParameters PROVE MarksSpec => [](MarksTypeOK /\ MarksAreTheirs)
  OBVIOUS
<1>1. MarksInv => MarksTypeOK /\ MarksAreTheirs
  BY DEF MarksInv
<1> QED BY <1>1, MarksInvariance, PTL

\* A forward, and a forward of it, name the message that was written.
THEOREM FirstIsNamed == MarksParameters => (MarksSpec => []ForwardsNameTheFirst)
<1> SUFFICES ASSUME MarksParameters PROVE MarksSpec => []ForwardsNameTheFirst
  OBVIOUS
<1>1. MarksInv => ForwardsNameTheFirst
  BY DEF MarksInv
<1> QED BY <1>1, MarksInvariance, PTL

\* Searches, stars and pins all ask what the thread asks, whatever the messages are.
LEMMA ViewsAgree == ViewsLeadToThread
BY DEF ViewsLeadToThread, Search, Starred, Pinned, Thread, MessageDTO
=============================================================================
