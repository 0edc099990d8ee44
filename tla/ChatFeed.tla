------------------------------ MODULE ChatFeed ------------------------------
(***************************************************************************)
(* The catch-up feed of the chat (changedSince in                          *)
(* src/src/mongo/chat/chat.repository.ts, syncSince in chat.service.ts).   *)
(*                                                                         *)
(* A device asks for everything that changed after its watermark, a pair   *)
(* of updatedAt and id, and moves the watermark to the last row of the     *)
(* page.  updatedAt is stamped before the write is visible, and one        *)
(* receipt update stamps every message it touches alike.                   *)
(***************************************************************************)
EXTENDS Integers, FiniteSets, FiniteSetsExt

CONSTANTS
  MaxId,      \* messages have ids 1..MaxId
  MaxStamp,   \* bound on the clock of updatedAt
  MaxEdits,   \* bound on the changes of one message
  Writers,    \* writes under way at once
  Limits,     \* page lengths a device may ask for
  Cap         \* the most rows a page has, whatever is asked

VARIABLES
  now,        \* the clock of updatedAt, in milliseconds
  docs,       \* the messages: version and updatedAt; version 0 is not there yet
  writes,     \* what each writer has stamped and not written
  mark,       \* the device's watermark: updatedAt and id of the last row it got
  have,       \* the version of every message that the device has
  more,       \* whether the device pages on
  late        \* history: changes that came to light behind the watermark

feedVars == <<now, docs, writes, mark, have, more, late>>

Ids == 1..MaxId

FeedTypeOK ==
  /\ now \in 1..MaxStamp
  /\ docs \in [Ids -> [version : 0..MaxEdits, at : 0..MaxStamp]]
  /\ writes \in [Writers -> (SUBSET Ids) \X (0..MaxStamp)]
  /\ mark \in [at : 0..MaxStamp, id : 0..MaxId]
  /\ have \in [Ids -> 0..MaxEdits]
  /\ more \in BOOLEAN
  /\ late \subseteq Ids

FeedInit ==
  /\ now = 1
  /\ docs = [m \in Ids |-> [version |-> 0, at |-> 0]]
  /\ writes = [w \in Writers |-> <<{}, 0>>]
  /\ mark = [at |-> 0, id |-> 0]
  /\ have = [m \in Ids |-> 0]
  /\ more = TRUE
  /\ late = {}

Tick ==
  /\ now < MaxStamp
  /\ now' = now + 1
  /\ UNCHANGED <<docs, writes, mark, have, more, late>>

\* A new message, an edit, a deletion, a reaction, or the ticks of several messages.
Stamp(w, ids) ==
  /\ writes[w][1] = {}
  /\ ids # {}
  /\ \A m \in ids : docs[m].version < MaxEdits
  /\ writes' = [writes EXCEPT ![w] = <<ids, now>>]
  /\ UNCHANGED <<now, docs, mark, have, more, late>>

\* The order of the feed: by instant, and by id within an instant.
ComesAfter(at, id, at2, id2) == at > at2 \/ (at = at2 /\ id > id2)
IsAfter(m, at, id) == ComesAfter(docs[m].at, m, at, id)

Land(w) ==
  LET ids == {m \in writes[w][1] : docs[m].version < MaxEdits}
      at  == writes[w][2]
  IN
  /\ writes[w][1] # {}
  /\ docs' = [m \in Ids |-> IF m \in ids THEN [version |-> docs[m].version + 1, at |-> at] ELSE docs[m]]
  /\ writes' = [writes EXCEPT ![w] = <<{}, 0>>]
  /\ late' = late \cup {m \in ids : ~ComesAfter(at, m, mark.at, mark.id)}
  /\ UNCHANGED <<now, mark, have, more>>

-----------------------------------------------------------------------------
(* Paging. *)

\* Regression: the watermark is updatedAt alone.
ChangedByTime == {m \in Ids : docs[m].version > 0 /\ docs[m].at > mark.at}

\* What has changed in the person's conversations, all of which the model looks at; the code looks
\* at the 200 latest (listForUser).
Changed == {m \in Ids : docs[m].version > 0 /\ IsAfter(m, mark.at, mark.id)}

\* The first rows in the order of updatedAt and id.
Before(m, n) == IsAfter(n, docs[m].at, m)
Page(rows, limit) == {m \in rows : Cardinality({n \in rows : Before(n, m)}) < limit}

Clamp(limit) == IF limit > Cap THEN Cap ELSE IF limit < 1 THEN 1 ELSE limit

\* Regression: the watermark is taken from the clock.
SyncSinceClock(limit) ==
  LET page == Page(Changed, Clamp(limit)) IN
  /\ more
  /\ have' = [m \in Ids |-> IF m \in page THEN docs[m].version ELSE have[m]]
  /\ mark' = [at |-> now, id |-> MaxId]
  /\ more' = (Cardinality(page) >= limit)
  /\ UNCHANGED <<now, docs, writes, late>>

\* The page length a device asks for is capped for the query and not for telling
\* whether there is more: a device that asks for more than the cap stops early, and
\* gets the rest when it next connects.
SyncSince(limit) ==
  LET page == Page(Changed, Clamp(limit)) IN
  /\ more
  /\ have' = [m \in Ids |-> IF m \in page THEN docs[m].version ELSE have[m]]
  /\ \/ page = {} /\ UNCHANGED mark
     \/ \E last \in page :
          /\ \A n \in page : n = last \/ Before(n, last)
          /\ mark' = [at |-> docs[last].at, id |-> last]
  /\ more' = (Cardinality(page) >= limit)
  /\ UNCHANGED <<now, docs, writes, late>>

\* The device connects again.
Reconnect ==
  /\ ~more
  /\ more' = TRUE
  /\ UNCHANGED <<now, docs, writes, mark, have, late>>

FeedNext ==
  \/ Tick
  \/ \E w \in Writers : (\E ids \in SUBSET Ids : Stamp(w, ids)) \/ Land(w)
  \/ \E limit \in Limits : SyncSince(limit)
  \/ Reconnect

FeedSpec == FeedInit /\ [][FeedNext]_feedVars

\* A device that is connected keeps asking, for pages of at least one message, and
\* comes back when it is not.
FairFeedSpec ==
  FeedSpec /\ WF_feedVars(\E limit \in Limits : SyncSince(limit)) /\ WF_feedVars(Reconnect)

-----------------------------------------------------------------------------
(* Properties. *)

\* Nothing is left behind: what the device does not have as it is now, it is still
\* to be sent, unless the change was stamped before the watermark and written after.
FeedSkipsNothingUnlessLate ==
  \A m \in Ids \ late : have[m] # docs[m].version => m \in Changed

\* Nothing is sent twice: every row of a page has changed since the device got it.
FeedRepeatsNothing ==
  [][\A limit \in Limits : SyncSince(limit) =>
       \A m \in Page(Changed, Clamp(limit)) : have[m] # docs[m].version]_feedVars

\* A device that keeps asking comes to have every change, again and again, but for those
\* that came too late.
FeedCatchesUp ==
  []<>(\A m \in Ids : docs[m].version > 0 => have[m] = docs[m].version \/ m \in late)
=============================================================================
