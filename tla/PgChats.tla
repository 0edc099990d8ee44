------------------------------- MODULE PgChats -------------------------------
(***************************************************************************)
(* One chat of the Postgres back end (src/src/modules/chats): a message is *)
(* created, the chat's preview moved and the others' counters raised, in   *)
(* three calls; reading sets the reader's counter to zero.                 *)
(***************************************************************************)
EXTENDS PgRequests

CONSTANTS
  Users, Members,   \* people, and those with a row in chat_participants
  MaxSent           \* bound: messages

VARIABLES
  sent,       \* the messages table: senders, in the order of createdAt
  preview,    \* the message the chat shows and is sorted by
  unread,     \* chat_participants: [Users -> Nat], of those with a row
  rows,       \* who has a row
  readTo,     \* history: the last message when each last read
  crossed,    \* history: who read while a message was on its way to their counter, or joined
  passed,     \* history: was the preview moved back by an earlier message?
  shown       \* messages that were emitted to the room

chatting == <<sent, preview, unread, rows, readTo, crossed, passed, shown>>

ChatsInit ==
  /\ AsksInit
  /\ sent = <<>> /\ preview = 0
  /\ unread = [u \in Users |-> 0] /\ rows = Members
  /\ readTo = [u \in Users |-> 0] /\ crossed = {} /\ passed = FALSE /\ shown = {}

postMessage(r, u) ==
  /\ Ask(r, [pc |-> "create", by |-> u, id |-> 0])
  /\ UNCHANGED chatting

CreateMessage(r) ==
  /\ req[r].pc = "create" /\ Len(sent) < MaxSent
  /\ sent' = Append(sent, req[r].by)
  /\ WriteAnd(r, [pc |-> "bump", id |-> Len(sent) + 1])
  /\ UNCHANGED <<preview, unread, rows, readTo, crossed, passed, shown>>

\* Whatever is shown by now.
BumpChat(r) ==
  /\ req[r].pc = "bump"
  /\ preview' = req[r].id
  /\ passed' = (req[r].id < preview \/ (passed /\ req[r].id < Len(sent)))
  /\ Then(r, [pc |-> "count"])
  /\ UNCHANGED <<sent, unread, rows, readTo, crossed, shown>>

\* As CountUnread, but the sender's own counter is raised too.
CountEverybody(r) ==
  /\ req[r].pc = "count"
  /\ unread' = [u \in Users |-> IF u \in rows THEN unread[u] + 1 ELSE unread[u]]
  /\ shown' = shown \cup {req[r].id}
  /\ Then(r, [pc |-> "audit"])
  /\ UNCHANGED <<sent, preview, rows, readTo, crossed, passed>>

\* Raises those that are there, and tells the room.
CountUnread(r) ==
  /\ req[r].pc = "count"
  /\ unread' = [u \in Users |-> IF u \in rows \ {req[r].by} THEN unread[u] + 1 ELSE unread[u]]
  /\ shown' = shown \cup {req[r].id}
  /\ Then(r, [pc |-> "audit"])
  /\ UNCHANGED <<sent, preview, rows, readTo, crossed, passed>>

\* Messages that are in the table and not yet in the counters.
OnTheWay == {r \in Requests : req[r].pc \in {"bump", "count"}}

\* A reader without a row gets one; nothing goes to the audit log.
markRead(u) ==
  /\ QuietRequest
  /\ unread' = [unread EXCEPT ![u] = 0]
  /\ rows' = rows \cup {u}
  /\ readTo' = [readTo EXCEPT ![u] = Len(sent)]
  /\ crossed' = IF \E r \in OnTheWay : req[r].by # u THEN crossed \cup {u} ELSE crossed \ {u}
  /\ UNCHANGED <<sent, preview, passed, shown>>

Audit(r) == writeAudit(r, TRUE) /\ UNCHANGED chatting

\* A request that dies between the message and the counters leaves them short.
DropRequest(r) ==
  /\ Die(r)
  /\ crossed' = IF r \in OnTheWay THEN crossed \cup (Users \ {req[r].by}) ELSE crossed
  /\ passed' = (passed \/ req[r].pc = "bump")
  /\ UNCHANGED <<sent, preview, unread, rows, readTo, shown>>

ChatsNext ==
  \/ \E r \in Requests :
       \/ \E u \in Users : postMessage(r, u)
       \/ CreateMessage(r) \/ BumpChat(r) \/ CountUnread(r) \/ Audit(r) \/ DropRequest(r)
  \/ \E u \in Users : markRead(u)

\* What a person is shown of the chat.
list(u) == [preview |-> preview, unread |-> IF u \in rows THEN unread[u] ELSE 0]

-----------------------------------------------------------------------------
ChatsTypeOK ==
  /\ AsksTypeOK
  /\ sent \in Seq(Users) /\ Len(sent) <= MaxSent /\ preview \in 0..MaxSent
  /\ unread \in [Users -> 0..MaxSent] /\ rows \subseteq Users
  /\ readTo \in [Users -> 0..MaxSent] /\ crossed \subseteq Users
  /\ passed \in BOOLEAN /\ shown \subseteq 1..MaxSent

\* A counter is the messages of others since its reader last read, but for those on
\* their way to it, unless its reader read while one was on its way, or one died there
\* (chats.service.ts:75).
BadgeCountsUnreadUnlessCrossed ==
  \A u \in rows \ crossed :
    list(u).unread + Cardinality({r \in OnTheWay : req[r].by # u})
      = Cardinality({i \in (readTo[u] + 1)..Len(sent) : sent[i] # u})

\* With nobody posting, the chat shows its newest message, unless an earlier one moved it
\* back, or one died before it moved it (chats.service.ts:74).
PreviewIsNewestUnlessPassed ==
  About({"bump"}) = {} /\ ~passed => preview = Len(sent)
=============================================================================
