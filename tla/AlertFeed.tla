----------------------------- MODULE AlertFeed -----------------------------
(***************************************************************************)
(* Reports that the ERP and the CRM post, and the files they carry.        *)
(*                                                                         *)
(* alertsIngest.router /ingest turns a post into an event of an alert      *)
(* channel (alert.service.record); /chat, /chat/media and /chat/bundle     *)
(* turn one into a message of a branch's group chat (reportChat.service),  *)
(* the group being found by name among groups that may share it.  A post   *)
(* has an idempotency key; the emitter posts again whenever it likes, so   *)
(* attempts with one key follow each other, overlap, or meet a restart.    *)
(* alert.sweep removes the stored files of events about to expire.         *)
(*                                                                         *)
(* Any call of an attempt or of the sweep may fail.  An attempt's files    *)
(* are one of the model, named by the attempt.  The groups of the module   *)
(* are those the branch's name matches.                                    *)
(***************************************************************************)
EXTENDS Naturals, FiniteSets

CONSTANTS
    Attempts,      \* posts that may be received
    Keys,          \* idempotency keys
    Rooms,         \* groups whose squashed name is the branch's
    None,          \* no file, no room
    MaxRestarts    \* bound: restarts of the server

VARIABLES
    events,     \* set of alert_events of one channel
    messages,   \* set of messages of the groups
    files,      \* stored files
    busiest,    \* the room with the latest lastActivityAt
    found,      \* groupCache: the room found before, or None
    attempt,    \* [Attempts -> state of the post's handler]
    reaping,    \* sweepExpiredAttachments: events it has yet to visit
    pushed,     \* [Keys -> times an event was announced], at most 2
    restarts,   \* restarts so far
    lost,       \* history: files nobody is expected to refer to any more
    racing,     \* history: keys whose attempts overlapped
    moved,      \* history: keys whose attempts were led to different rooms
    cut         \* history: files a sweep deleted and left an event linked to

feedVars == <<events, messages, files, busiest, found, attempt, reaping,
              pushed, restarts, lost, racing, moved, cut>>

Routes == {"ingest", "post", "media"}
Waiting == [phase |-> "waiting"]
Done == [phase |-> "done"]

Busy(a) == attempt[a].phase \notin {"waiting", "done"}

\* The attempts at work under key k.
Under(k) == {a \in Attempts : Busy(a) /\ attempt[a].key = k}

----------------------------------------------------------------------------
FeedInit ==
    /\ events = {} /\ messages = {} /\ files = {}
    /\ busiest \in Rooms
    /\ found = None
    /\ attempt = [a \in Attempts |-> Waiting]
    /\ reaping = {}
    /\ pushed = [k \in Keys |-> 0]
    /\ restarts = 0
    /\ lost = {} /\ racing = {} /\ moved = {} /\ cut = {}

\* Attempt a ends; its file, when nothing refers to it, stays behind.
Finish(a) == attempt' = [attempt EXCEPT ![a] = Done]

(* A post is received.  Every key is used with one route and, with or      *)
(* without a file, the same content.                                       *)
Receive(a, k, route, file) ==
    /\ attempt[a] = Waiting
    /\ route = "media" => file
    /\ \A o \in Under(k) : attempt[o].route = route /\ attempt[o].file = file
    /\ \A ev \in events : ev.key = k => route = "ingest"
    /\ \A m \in messages : m.key = k => route # "ingest"
    /\ attempt' = [attempt EXCEPT ![a] =
           [phase |-> IF route = "ingest" THEN "look" ELSE "resolve",
            key |-> k, route |-> route, file |-> file, room |-> None, stored |-> None]]
    /\ racing' = IF Under(k) # {} THEN racing \cup {k} ELSE racing
    /\ UNCHANGED <<events, messages, files, busiest, found, reaping, pushed,
                   restarts, lost, moved, cut>>

----------------------------------------------------------------------------
(* POST /ingest.                                                           *)

Recorded(k) == \E ev \in events : ev.key = k

\* hasEvent forgotten: the file is stored before the repeat is noticed.
HasEventSkipped(a) ==
    /\ attempt[a].phase = "look"
    /\ attempt' = [attempt EXCEPT ![a].phase = IF attempt[a].file THEN "save" ELSE "record"]
    /\ UNCHANGED <<events, messages, files, busiest, found, reaping, pushed,
                   restarts, lost, racing, moved, cut>>

(* The early answer to a repeat, before a file is stored.                  *)
HasEvent(a) ==
    /\ attempt[a].phase = "look"
    /\ IF Recorded(attempt[a].key) THEN Finish(a)
       ELSE attempt' = [attempt EXCEPT ![a].phase =
                          IF attempt[a].file THEN "save" ELSE "record"]
    /\ UNCHANGED <<events, messages, files, busiest, found, reaping, pushed,
                   restarts, lost, racing, moved, cut>>

(* storage.save: under the private prefix, or the public one; when both    *)
(* fail the request fails, and may leave a file behind: an earlier one of  *)
(* the bundle, or one that was stored with the answer lost.                *)
SaveFile(a) ==
    /\ attempt[a].phase = "save"
    /\ \/ /\ files' = files \cup {a}
          /\ attempt' = [attempt EXCEPT ![a].stored = a,
                ![a].phase = IF attempt[a].route = "ingest" THEN "record" ELSE "deliver"]
          /\ UNCHANGED lost
       \/ Finish(a) /\ UNCHANGED <<files, lost>>
       \/ Finish(a) /\ files' = files \cup {a} /\ lost' = lost \cup {a}
    /\ UNCHANGED <<events, messages, busiest, found, reaping, pushed, restarts,
                   racing, moved, cut>>

(* A look-up, an upsert or an insert fails, or the group of the cache is   *)
(* deleted by now: the error goes to the emitter, the file stays.          *)
FailAttempt(a) ==
    /\ Busy(a)
    /\ Finish(a)
    /\ lost' = lost \cup ({attempt[a].stored} \ {None})
    /\ UNCHANGED <<events, messages, files, busiest, found, reaping, pushed,
                   restarts, racing, moved, cut>>

\* The event recorded with a plain insert.
RecordInsert(a) ==
    /\ attempt[a].phase = "record"
    /\ LET k == attempt[a].key IN
       /\ events' = events \cup {[key |-> k, file |-> attempt[a].stored, age |-> "kept"]}
       /\ pushed' = [pushed EXCEPT ![k] = IF @ < 2 THEN @ + 1 ELSE @]
    /\ Finish(a)
    /\ UNCHANGED <<messages, files, busiest, found, reaping, restarts, lost,
                   racing, moved, cut>>

(* alert.service.record: an upsert under the unique (channel, key) index;  *)
(* the one that inserts announces the event, unless its answer is lost;    *)
(* the others are duplicates.                                              *)
Record(a) ==
    /\ attempt[a].phase = "record"
    /\ LET k == attempt[a].key IN
       IF Recorded(k)
       THEN /\ lost' = IF k \in racing THEN lost \cup ({attempt[a].stored} \ {None}) ELSE lost
            /\ UNCHANGED <<events, pushed>>
       ELSE /\ UNCHANGED lost
            /\ events' = events \cup
                  {[key |-> k, file |-> attempt[a].stored, age |-> "kept"]}
            /\ pushed' \in {pushed, [pushed EXCEPT ![k] = IF @ < 2 THEN @ + 1 ELSE @]}
    /\ Finish(a)
    /\ UNCHANGED <<messages, files, busiest, found, reaping, restarts, racing, moved, cut>>

----------------------------------------------------------------------------
(* POST /chat, /chat/media, /chat/bundle.                                  *)

Posted(k, r) == \E m \in messages : m.key = k /\ m.room = r

(* findBranchReportGroup: the room found within the last ten minutes, else *)
(* the one used last among those of the name.  postMedia and postBundle    *)
(* then look for the key before they store a file; post does not.          *)
Resolve(a) ==
    /\ attempt[a].phase = "resolve"
    /\ found' = IF found # None THEN found ELSE busiest
    /\ LET k == attempt[a].key
       IN  /\ attempt' = [attempt EXCEPT ![a].room = found',
                ![a].phase = IF attempt[a].route = "media" THEN "find"
                             ELSE IF attempt[a].file THEN "save" ELSE "deliver"]
           /\ moved' = IF \/ \E m \in messages : m.key = k /\ m.room # found'
                          \/ \E o \in Under(k) \ {a} : attempt[o].room \notin {None, found'}
                       THEN moved \cup {k} ELSE moved
    /\ UNCHANGED <<events, messages, files, busiest, reaping, pushed, restarts,
                   lost, racing, cut>>

(* findServiceMessageId.                                                   *)
FindServiceMessage(a) ==
    /\ attempt[a].phase = "find"
    /\ IF Posted(attempt[a].key, attempt[a].room) THEN Finish(a)
       ELSE attempt' = [attempt EXCEPT ![a].phase = "save"]
    /\ UNCHANGED <<events, messages, files, busiest, found, reaping, pushed,
                   restarts, lost, racing, moved, cut>>

\* The look-up of the key forgotten.
DeliverAnyway(a) ==
    /\ attempt[a].phase = "deliver"
    /\ attempt' = [attempt EXCEPT ![a].phase = "create"]
    /\ UNCHANGED <<events, messages, files, busiest, found, reaping, pushed,
                   restarts, lost, racing, moved, cut>>

(* postServiceMessage looks the key up in the conversation ...             *)
Deliver(a) ==
    /\ attempt[a].phase = "deliver"
    /\ IF Posted(attempt[a].key, attempt[a].room)
       THEN /\ Finish(a)
            /\ lost' = IF attempt[a].route = "post" \/ attempt[a].key \in racing
                       THEN lost \cup ({attempt[a].stored} \ {None}) ELSE lost
       ELSE /\ attempt' = [attempt EXCEPT ![a].phase = "create"]
            /\ UNCHANGED lost
    /\ UNCHANGED <<events, messages, files, busiest, found, reaping, pushed,
                   restarts, racing, moved, cut>>

(* ... and creates the message; the preview makes the room the latest,     *)
(* unless it fails.                                                        *)
CreateMessage(a) ==
    /\ attempt[a].phase = "create"
    /\ messages' = messages \cup
          {[key |-> attempt[a].key, room |-> attempt[a].room, by |-> a,
            file |-> attempt[a].stored]}
    /\ busiest' \in {busiest, attempt[a].room}
    /\ Finish(a)
    /\ UNCHANGED <<events, files, found, reaping, pushed, restarts, lost, racing, moved, cut>>

(* A message disappears, or goes with its group; its file stays.           *)
MessageGoes(m) ==
    /\ m \in messages
    /\ messages' = messages \ {m}
    /\ lost' = lost \cup ({m.file} \ {None})
    /\ UNCHANGED <<events, files, busiest, found, attempt, reaping, pushed,
                   restarts, racing, moved, cut>>

(* People write in another room of that name.                              *)
Write(r) ==
    /\ r # busiest
    /\ busiest' = r
    /\ UNCHANGED <<events, messages, files, found, attempt, reaping, pushed,
                   restarts, lost, racing, moved, cut>>

CacheExpires ==
    /\ found # None
    /\ found' = None
    /\ UNCHANGED <<events, messages, files, busiest, attempt, reaping, pushed,
                   restarts, lost, racing, moved, cut>>

----------------------------------------------------------------------------
(* Expiry.                                                                 *)

(* Less than a day is left of the event's ninety.                          *)
Age(ev) ==
    /\ ev \in events /\ ev.age = "kept"
    /\ events' = (events \ {ev}) \cup {[ev EXCEPT !.age = "due"]}
    /\ UNCHANGED <<messages, files, busiest, found, attempt, reaping, pushed,
                   restarts, lost, racing, moved, cut>>

(* The sweep lists the events about to expire that still have a file ...   *)
StartSweep ==
    /\ reaping = {}
    /\ reaping' = {ev \in events : ev.age = "due" /\ ev.file # None}
    /\ reaping' # {}
    /\ UNCHANGED <<events, messages, files, busiest, found, attempt, pushed,
                   restarts, lost, racing, moved, cut>>

(* ... and for each deletes the file; the storage swallows a failure, and  *)
(* the event loses its key all the same.                                   *)
DeleteFile(ev) ==
    /\ ev \in reaping /\ ev.file \in files
    /\ \/ files' = files \ {ev.file} /\ UNCHANGED lost
       \/ lost' = lost \cup {ev.file} /\ UNCHANGED files
    /\ UNCHANGED <<events, messages, busiest, found, attempt, reaping, pushed,
                   restarts, racing, moved, cut>>

\* The event passed over once its file is deleted.
UnsetForgotten(ev) ==
    /\ ev \in reaping /\ (ev.file \notin files \/ ev.file \in lost)
    /\ reaping' = reaping \ {ev}
    /\ UNCHANGED <<events, messages, files, busiest, found, attempt, pushed,
                   restarts, lost, racing, moved, cut>>

(* Either call fails: the event is passed over, linked as it is.           *)
ReapFails(ev) ==
    /\ ev \in reaping
    /\ reaping' = reaping \ {ev}
    /\ cut' = cut \cup ({ev.file} \ files)
    /\ UNCHANGED <<events, messages, files, busiest, found, attempt, pushed,
                   restarts, lost, racing, moved>>

UnsetAttachment(ev) ==
    /\ ev \in reaping /\ (ev.file \notin files \/ ev.file \in lost)
    /\ events' = {IF e = ev THEN [e EXCEPT !.file = None] ELSE e : e \in events}
    /\ reaping' = reaping \ {ev}
    /\ UNCHANGED <<messages, files, busiest, found, attempt, pushed, restarts,
                   lost, racing, moved, cut>>

(* MongoDB removes the expired event.  A day and four sweeps have passed   *)
(* since it was due; if all of them failed or the server was down, its     *)
(* file is left for good.                                                  *)
Expire(ev) ==
    /\ ev \in events /\ ev.age = "due"
    /\ ev \notin reaping
    /\ events' = events \ {ev}
    /\ lost' = lost \cup ({ev.file} \ {None})
    /\ UNCHANGED <<messages, files, busiest, found, attempt, reaping, pushed,
                   restarts, racing, moved, cut>>

(* The process dies: requests in flight, the sweep and the cache with it.  *)
Restart ==
    /\ restarts < MaxRestarts
    /\ restarts' = restarts + 1
    /\ attempt' = [a \in Attempts |-> IF Busy(a) THEN Done ELSE attempt[a]]
    /\ reaping' = {} /\ found' = None
    /\ cut' = cut \cup ({ev.file : ev \in reaping} \ files)
    /\ lost' = lost \cup {a \in files : Busy(a)}
    /\ UNCHANGED <<events, messages, files, busiest, pushed, racing, moved>>

----------------------------------------------------------------------------
FeedNext ==
    \/ \E a \in Attempts :
          \/ \E k \in Keys, route \in Routes, file \in BOOLEAN : Receive(a, k, route, file)
          \/ HasEvent(a)
          \/ SaveFile(a) \/ FailAttempt(a)
          \/ Record(a)
          \/ Resolve(a)
          \/ FindServiceMessage(a)
          \/ Deliver(a)
          \/ CreateMessage(a)
    \/ \E m \in messages : MessageGoes(m)
    \/ \E r \in Rooms : Write(r)
    \/ CacheExpires
    \/ \E ev \in events :
          Age(ev) \/ DeleteFile(ev) \/ UnsetAttachment(ev) \/ ReapFails(ev) \/ Expire(ev)
    \/ StartSweep
    \/ Restart

FeedSpec == FeedInit /\ [][FeedNext]_feedVars

----------------------------------------------------------------------------
\* Type invariant.
FeedTypeOK ==
    /\ events \subseteq [key : Keys, file : Attempts \cup {None}, age : {"kept", "due"}]
    /\ messages \subseteq [key : Keys, room : Rooms, by : Attempts, file : Attempts \cup {None}]
    /\ files \subseteq Attempts /\ lost \subseteq Attempts
    /\ busiest \in Rooms /\ found \in Rooms \cup {None}
    /\ \A a \in Attempts : attempt[a].phase \in
          {"waiting", "done", "look", "save", "record", "resolve", "find", "deliver", "create"}
    /\ reaping \subseteq events
    /\ pushed \in [Keys -> 0..2]
    /\ racing \subseteq Keys /\ moved \subseteq Keys /\ cut \subseteq Attempts

\* A retried post lands once: one event under its key (whatever
\* overlaps), and one message, unless attempts overlapped or the room found for
\* the branch changed between them (two groups of one name, the later used).
LandsOnceUnlessMoved ==
    /\ \A e, f \in events : e.key = f.key => e = f
    /\ \A m, n \in messages : m.key = n.key /\ m.key \notin racing \cup moved => m = n

\* Every stored file is referred to by an event or a message, or its request
\* or sweep is still at work, except where the code leaves one behind: a repeat
\* of /chat that carries a file, attempts that overlapped, a restart, a request
\* that failed once it had stored one, a delete the storage swallowed, an event
\* that every sweep of its last day missed, and a message that is gone.
FilesAreReferredToUnlessCut ==
    \A a \in files \ lost :
        \/ \E ev \in events : ev.file = a
        \/ \E m \in messages : m.file = a
        \/ Busy(a)

\* No event offers a file that is gone, but for the moment between the two
\* steps of the sweep, and a restart or a failing update that falls into it.
LinksOpenUnlessSwept ==
    \A ev \in events : ev.file # None =>
        ev.file \in files \/ ev \in reaping \/ ev.file \in cut
=============================================================================
