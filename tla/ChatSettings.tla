---------------------------- MODULE ChatSettings ----------------------------
(***************************************************************************)
(* What people set for themselves in the chat, and what they and others    *)
(* then see: blocks, last seen, read receipts; mute, archive, pin; the     *)
(* list of chats, the badge of the app's icon and the presence of others   *)
(* (src/src/mongo/chat/chat.service.ts, chat.repository.ts and             *)
(* chat.router.ts).                                                        *)
(*                                                                         *)
(* The settings of a person are one document, those of a person in a chat  *)
(* are in their row of the conversation; each is written by one update.    *)
(* A message is stored and counted in one step here, and read in one step: *)
(* ChatMessages takes those apart.                                         *)
(***************************************************************************)
EXTENDS Naturals, FiniteSets

CONSTANTS
  People,       \* users, who share both chats
  Direct,       \* a chat of two
  Group,        \* a group
  Requests,     \* requests in progress at once
  MaxTime,      \* bound on the clock, in hours
  MaxAsks       \* bound on requests

VARIABLES
  clock,      \* hours, for mutes that run out
  settings,   \* by person: receipts, last seen, whom they block
  row,        \* by chat and person: unread, mute, archived, pinned, deleted
  last,       \* by chat: who sent the last message, and its tick
  send,       \* messages that were let through and are not stored yet
  asked,      \* requests so far
  wish,       \* history: by chat and person, until when they last asked to be left alone
  hushed,     \* history: chats whose last message was read with receipts off
  slipped     \* history: whether a message passed a block that stood when it was asked for

vars == <<clock, settings, row, last, send, asked, wish, hushed, slipped>>

Chats  == {Direct, Group}
Idle   == [pc |-> "idle"]
NoOne  == "nobody"
Never  == 0            \* a mute that is off has run out
Always == MaxTime + 2  \* a mute that does not run out
Unset  == Always       \* mutedUntil of such a mute

\* Privacy and blocks are on the account, not on a chat.
ChatSettingsDoc == [receipts : BOOLEAN, lastSeen : {"everyone", "nobody"}, blocked : SUBSET People]

SettingsTypeOK ==
  /\ clock \in 1..MaxTime
  /\ settings \in [People -> ChatSettingsDoc]
  /\ row \in [Chats -> [People -> [unread : 0..MaxAsks, muted : BOOLEAN, until : 1..Always,
                                   archived : BOOLEAN, pinned : BOOLEAN, hidden : BOOLEAN]]]
  /\ last \in [Chats -> [by : People \cup {NoOne}, tick : {"sent", "read"}]]
  /\ \A h \in Requests : send[h].pc \in {"idle", "post"}
  /\ asked \in 0..MaxAsks
  /\ wish \in [Chats -> [People -> Never..Always]]
  /\ hushed \subseteq Chats
  /\ slipped \in BOOLEAN

\* Nobody has settings of their own yet: the defaults stand for them.
SettingsInit ==
  /\ clock = 1
  /\ settings = [p \in People |-> [receipts |-> TRUE, lastSeen |-> "everyone", blocked |-> {}]]
  /\ row = [c \in Chats |-> [p \in People |->
              [unread |-> 0, muted |-> FALSE, until |-> Unset,
               archived |-> FALSE, pinned |-> FALSE, hidden |-> FALSE]]]
  /\ last = [c \in Chats |-> [by |-> NoOne, tick |-> "sent"]]
  /\ send = [h \in Requests |-> Idle]
  /\ asked = 0
  /\ wish = [c \in Chats |-> [p \in People |-> Never]]
  /\ hushed = {}
  /\ slipped = FALSE

Ask == asked < MaxAsks /\ asked' = asked + 1

\* An hour passes.
Tick ==
  /\ clock < MaxTime
  /\ clock' = clock + 1
  /\ UNCHANGED <<settings, row, last, send, asked, wish, hushed, slipped>>

-----------------------------------------------------------------------------
(* Privacy and blocks. *)

\* A patch changes what it names.
UpdatePrivacy(p, receipts, lastSeen) ==
  /\ Ask
  /\ settings' = [settings EXCEPT ![p].receipts = receipts, ![p].lastSeen = lastSeen]
  /\ UNCHANGED <<clock, row, last, send, wish, hushed, slipped>>

\* Somebody whose message was let through before a block has it stored after.
SetBlocked(p, q, on) ==
  /\ Ask
  /\ p # q
  /\ settings' = [settings EXCEPT ![p].blocked = IF on THEN @ \cup {q} ELSE @ \ {q}]
  /\ send' = [h \in Requests |->
       IF send[h] # Idle /\ on THEN [send[h] EXCEPT !.crossed = TRUE] ELSE send[h]]
  /\ UNCHANGED <<clock, row, last, wish, hushed, slipped>>

\* Whichever side blocked the other.
IsBlockedBetween(p, q) == q \in settings[p].blocked \/ p \in settings[q].blocked

-----------------------------------------------------------------------------
(* Messages, as far as the settings of a chat are concerned. *)

ReadForSend(h, p, c) ==
  /\ send[h] = Idle /\ Ask
  /\ c = Direct => \A q \in People \ {p} : ~IsBlockedBetween(p, q)
  /\ send' = [send EXCEPT ![h] = [pc |-> "post", by |-> p, chat |-> c, crossed |-> FALSE]]
  /\ UNCHANGED <<clock, settings, row, last, wish, hushed, slipped>>

\* The message is newer than any deletion of the chat: it brings the chat back.
Post(h) ==
  LET t == send[h]
      c == t.chat
      barred == \E q \in People \ {t.by} :
                  q \in settings[t.by].blocked \/ t.by \in settings[q].blocked
  IN
  /\ t.pc = "post"
  /\ last' = [last EXCEPT ![c] = [by |-> t.by, tick |-> "sent"]]
  /\ row' = [row EXCEPT ![c] = [p \in People |->
       [row[c][p] EXCEPT !.unread = IF p = t.by THEN @ ELSE @ + 1, !.hidden = FALSE]]]
  /\ hushed' = hushed \ {c}
  /\ slipped' = (slipped \/ (c = Direct /\ barred /\ ~t.crossed))
  /\ send' = [send EXCEPT ![h] = Idle]
  /\ UNCHANGED <<clock, settings, asked, wish>>

\* The tick is stored for everybody to see; with receipts off only the event that would
\* show it at once is left out, and in a group not even that.
MarkRead(p, c) ==
  /\ Ask
  /\ row' = [row EXCEPT ![c][p].unread = 0]
  /\ last' = IF last[c].by \in {p, NoOne} THEN last ELSE [last EXCEPT ![c].tick = "read"]
  /\ hushed' = IF c = Direct /\ last'[c] # last[c] /\ ~settings[p].receipts
               THEN hushed \cup {c} ELSE hushed
  /\ UNCHANGED <<clock, settings, send, wish, slipped>>

-----------------------------------------------------------------------------
(* The settings of a chat. *)

\* Muted without hours is for good; unmuting clears the hour.
MutedUntil(r, on, hours) ==
  [r EXCEPT !.muted = on, !.until = IF on /\ hours > 0 THEN clock + hours ELSE Unset]

SetMute(p, c, on, hours) ==
  /\ Ask
  /\ row' = [row EXCEPT ![c][p] = MutedUntil(@, on, hours)]
  /\ wish' = [wish EXCEPT ![c][p] = CASE ~on -> Never
                                      [] on /\ hours = 0 -> Always
                                      [] OTHER -> clock + hours]
  /\ UNCHANGED <<clock, settings, last, send, hushed, slipped>>

\* Archiving and pinning leave the mute alone.
SetConversationSettings(p, c, archived, pinned) ==
  /\ Ask
  /\ row' = [row EXCEPT ![c][p].archived = archived, ![c][p].pinned = pinned]
  /\ UNCHANGED <<clock, settings, last, send, wish, hushed, slipped>>

\* Unread, pin and archive go with the chat, mute stays.
Cleared(r) ==
  [r EXCEPT !.unread = 0, !.pinned = FALSE, !.archived = FALSE, !.hidden = TRUE]

DeleteChat(p) ==
  /\ Ask
  /\ row' = [row EXCEPT ![Direct][p] = Cleared(@)]
  /\ UNCHANGED <<clock, settings, last, send, wish, hushed, slipped>>

-----------------------------------------------------------------------------
(* What people see. *)

List(p) == {c \in Chats : ~row[c][p].hidden}

\* A mute that has run out is shown as off.  The row of a direct chat says whether the other
\* is online and when they were last seen, whatever they have set and whoever is blocked.
ConvDTO(c, p) ==
  [unread   |-> row[c][p].unread,
   muted    |-> row[c][p].muted /\ row[c][p].until > clock,
   tick     |-> IF row[c][p].hidden \/ last[c].by = NoOne THEN "none" ELSE last[c].tick,
   online   |-> IF c = Direct THEN "as it is" ELSE "none",
   lastSeen |-> c = Direct]

\* The icon counts chats by the mute that is stored, whether or not it has run out.
UnreadChats(p) == {c \in Chats : row[c][p].unread > 0 /\ ~row[c][p].muted}

\* Last seen is shared with oneself, and with those it is not kept from.
Presence(viewer, p) ==
  LET blocked == p # viewer /\ IsBlockedBetween(viewer, p) IN
  [status   |-> IF blocked THEN "offline" ELSE "as it is",
   lastSeen |-> p = viewer \/ (settings[p].lastSeen = "everyone" /\ ~blocked)]

-----------------------------------------------------------------------------
SettingsNext ==
  \/ Tick
  \/ \E p \in People :
       \/ \E receipts \in BOOLEAN, lastSeen \in {"everyone", "nobody"} :
            UpdatePrivacy(p, receipts, lastSeen)
       \/ \E q \in People, on \in BOOLEAN : SetBlocked(p, q, on)
       \/ \E h \in Requests, c \in Chats : ReadForSend(h, p, c)
       \/ \E c \in Chats :
            \/ MarkRead(p, c)
            \/ \E on \in BOOLEAN, hours \in {0, 1} : SetMute(p, c, on, hours)
            \/ \E archived, pinned \in BOOLEAN : SetConversationSettings(p, c, archived, pinned)
       \/ DeleteChat(p)
  \/ \E h \in Requests : Post(h)

SettingsSpec == SettingsInit /\ [][SettingsNext]_vars

-----------------------------------------------------------------------------
(* Properties. *)

\* Between two people one of whom has blocked the other no message is stored, unless the
\* block came between the check and the store.
BlockedIsSilentUnlessCrossed == ~slipped

\* A chat is shown as muted as long as was last asked, whatever else was set since.
MutedAsAsked ==
  \A c \in Chats, p \in People : ConvDTO(c, p).muted <=> wish[c][p] > clock

\* The icon counts the chats that the list shows with something unread and not muted, but
\* for those whose mute has run out; it counts no chat that is not in the list.
BadgeIsTheListUnlessLapsed ==
  \A p \in People :
    LET shown  == {c \in List(p) : ConvDTO(c, p).unread > 0 /\ ~ConvDTO(c, p).muted}
        lapsed == {c \in Chats : row[c][p].muted /\ row[c][p].until <= clock}
    IN /\ UnreadChats(p) \subseteq shown
       /\ shown \ UnreadChats(p) \subseteq lapsed

\* The ways by which somebody learns whether another is online, and when they were last seen:
\* by asking for it, or from the chat they share.
Ways == {"presence", "list"}
SeesOnline(viewer, p) ==
  {w \in Ways : IF w = "presence" THEN Presence(viewer, p).status # "offline"
                ELSE Direct \in List(viewer) /\ ConvDTO(Direct, viewer).online # "none"}
SeesLastSeen(viewer, p) ==
  {w \in Ways : IF w = "presence" THEN Presence(viewer, p).lastSeen
                ELSE Direct \in List(viewer) /\ ConvDTO(Direct, viewer).lastSeen}

\* Where presence is asked for, a block hides two people from one another, whichever of them
\* made it, and last seen is kept from everybody by whoever keeps it to themselves.  The list
\* of chats asks for neither (nor do the broadcasts of Presence): that is how it is still told.
HiddenFromOthersUnlessListed ==
  \A viewer, p \in People :
    LET blocked == IsBlockedBetween(viewer, p) IN
    viewer # p =>
      /\ blocked => SeesOnline(viewer, p) \subseteq {"list"}
      /\ blocked \/ settings[p].lastSeen = "nobody" => SeesLastSeen(viewer, p) \subseteq {"list"}

\* Who has read receipts off sends none: a message of a direct chat they read is not shown
\* to its sender as read.
ReceiptsOffSendsNone ==
  \A c \in hushed : c \in List(last[c].by) => ConvDTO(c, last[c].by).tick # "read"
=============================================================================
