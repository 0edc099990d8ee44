------------------------------ MODULE Presence ------------------------------
(***************************************************************************)
(* Who is online and when they were last seen (src/src/mongo/chat/         *)
(* chat.events.ts, chat.socket.ts, presence.model.ts).                     *)
(*                                                                         *)
(* Connections are counted in memory; a hidden tab keeps its connection    *)
(* and leaves the count.  Last seen is in memory, and written behind to    *)
(* the database by writes nobody waits for, which land in any order, fail, *)
(* or die with the process.  A heartbeat stamps everybody online.          *)
(***************************************************************************)
EXTENDS Naturals, FiniteSets

CONSTANTS
  People, Sockets,
  MaxTime,    \* bound: instants are 1..MaxTime
  Interval,   \* the heartbeat's interval
  MaxFaults   \* bound: failed writes and crashes

VARIABLES
  clock,
  socket,     \* a connection's user and whether it counts
  onlineCounts,
  lastSeenAt, \* last seen, in memory
  stored,     \* user_presence
  writes,     \* stamps on their way to it
  beat,       \* when the heartbeat last fired
  busy,       \* people in a call (Calls)
  told,       \* the status last broadcast, or fetched on reconnecting
  seen,       \* history: when a person was last online in truth
  lost,       \* history: people with a stamp that failed, died or was overtaken
  mishaps     \* bound: faults so far

presenceVars == <<clock, socket, onlineCounts, lastSeenAt, stored, writes, beat, busy, told, seen, lost, mishaps>>

Never  == 0
Nobody == "nobody"
Gone   == [user |-> Nobody, pc |-> "none"]

PresenceTypeOK ==
  /\ clock \in 1..MaxTime
  /\ socket \in [Sockets -> [user : People \cup {Nobody}, pc : {"none", "here", "away"}]]
  /\ onlineCounts \in [People -> Nat]
  /\ lastSeenAt \in [People -> 0..MaxTime] /\ stored \in [People -> 0..MaxTime]
  /\ writes \subseteq [user : People, at : 1..MaxTime]
  /\ beat \in 0..MaxTime /\ busy \subseteq People
  /\ told \in [People -> {"in_call", "online", "offline"}]
  /\ seen \in [People -> 0..MaxTime] /\ lost \subseteq People /\ mishaps \in 0..MaxFaults

PresenceInit ==
  /\ clock = 1 /\ beat = 1 /\ mishaps = 0
  /\ socket = [s \in Sockets |-> Gone]
  /\ onlineCounts = [p \in People |-> 0]
  /\ lastSeenAt = [p \in People |-> Never] /\ stored = [p \in People |-> Never]
  /\ seen = [p \in People |-> Never]
  /\ told = [p \in People |-> "offline"]
  /\ writes = {} /\ busy = {} /\ lost = {}

isOnline(p) == onlineCounts[p] > 0

\* In a call wins over online, online over offline.
presenceStatusOf(p, counts, calls) ==
  IF p \in calls THEN "in_call" ELSE IF counts[p] > 0 THEN "online" ELSE "offline"

broadcastPresence(p, counts, calls) == told' = [told EXCEPT ![p] = presenceStatusOf(p, counts, calls)]

\* The first connection that counts is announced; each one stamps.
markOnline(p) ==
  LET counts == [onlineCounts EXCEPT ![p] = @ + 1]
  IN /\ onlineCounts' = counts
     /\ writes' = writes \cup {[user |-> p, at |-> clock]}
     /\ seen' = [seen EXCEPT ![p] = clock]
     /\ IF isOnline(p) THEN UNCHANGED told ELSE broadcastPresence(p, counts, busy)
     /\ UNCHANGED lastSeenAt

\* The last one to leave stamps and is announced.
markOffline(p) ==
  LET counts == [onlineCounts EXCEPT ![p] = IF @ > 0 THEN @ - 1 ELSE 0]
  IN /\ onlineCounts' = counts
     /\ IF counts[p] = 0
        THEN /\ lastSeenAt' = [lastSeenAt EXCEPT ![p] = clock]
             /\ writes' = writes \cup {[user |-> p, at |-> clock]}
             /\ broadcastPresence(p, counts, busy)
        ELSE UNCHANGED <<lastSeenAt, writes, told>>
     /\ UNCHANGED seen

-----------------------------------------------------------------------------
Connect(s, p) ==
  /\ socket[s] = Gone
  /\ socket' = [socket EXCEPT ![s] = [user |-> p, pc |-> "here"]]
  /\ markOnline(p)
  /\ UNCHANGED <<clock, stored, beat, busy, lost, mishaps>>

\* A soft away keeps the connection and leaves the count.
GoAway(s) ==
  /\ socket[s].pc = "here"
  /\ socket' = [socket EXCEPT ![s].pc = "away"]
  /\ markOffline(socket[s].user)
  /\ UNCHANGED <<clock, stored, beat, busy, lost, mishaps>>

ComeBack(s) ==
  /\ socket[s].pc = "away"
  /\ socket' = [socket EXCEPT ![s].pc = "here"]
  /\ markOnline(socket[s].user)
  /\ UNCHANGED <<clock, stored, beat, busy, lost, mishaps>>

\* As Disconnect, for a connection that forgot it had left the count.
DisconnectTwice(s) ==
  /\ socket[s].pc # "none"
  /\ socket' = [socket EXCEPT ![s] = Gone]
  /\ markOffline(socket[s].user)
  /\ UNCHANGED <<clock, stored, beat, busy, lost, mishaps>>

\* A connection that is away has left the count already.
Disconnect(s) ==
  /\ socket[s].pc # "none"
  /\ socket' = [socket EXCEPT ![s] = Gone]
  /\ IF socket[s].pc = "here" THEN markOffline(socket[s].user)
     ELSE UNCHANGED <<onlineCounts, lastSeenAt, writes, told, seen>>
  /\ UNCHANGED <<clock, stored, beat, busy, lost, mishaps>>

\* The call service flags a person and broadcasts.
setInCall(p) ==
  LET calls == IF p \in busy THEN busy \ {p} ELSE busy \cup {p}
  IN /\ busy' = calls
     /\ broadcastPresence(p, onlineCounts, calls)
     /\ UNCHANGED <<clock, socket, onlineCounts, lastSeenAt, stored, writes, beat, seen, lost, mishaps>>

Heartbeat ==
  /\ clock - beat >= Interval
  /\ beat' = clock
  /\ writes' = writes \cup {[user |-> p, at |-> clock] : p \in {q \in People : isOnline(q)}}
  /\ UNCHANGED <<clock, socket, onlineCounts, lastSeenAt, stored, busy, told, seen, lost, mishaps>>

\* A stamp overwrites whatever is there.
persistLastSeen(w) ==
  /\ writes' = writes \ {w}
  /\ stored' = [stored EXCEPT ![w.user] = w.at]
  /\ lost' = IF w.at < stored[w.user] THEN lost \cup {w.user} ELSE lost
  /\ UNCHANGED <<clock, socket, onlineCounts, lastSeenAt, beat, busy, told, seen, mishaps>>

LoseStamp(w) ==
  /\ mishaps < MaxFaults /\ mishaps' = mishaps + 1
  /\ writes' = writes \ {w} /\ lost' = lost \cup {w.user}
  /\ UNCHANGED <<clock, socket, onlineCounts, lastSeenAt, stored, beat, busy, told, seen>>

\* The process dies, or is told to stop, which closes the database before the connections;
\* it serves again once the stamps are read back.
Restart ==
  /\ mishaps < MaxFaults /\ mishaps' = mishaps + 1
  /\ socket' = [s \in Sockets |-> Gone]
  /\ onlineCounts' = [p \in People |-> 0]
  /\ busy' = {} /\ told' = [p \in People |-> "offline"]
  /\ lastSeenAt' = stored
  /\ writes' = {} /\ lost' = lost \cup {w.user : w \in writes}
  /\ beat' = clock
  /\ UNCHANGED <<clock, stored, seen>>

\* Time waits for the heartbeat's timer.
Later ==
  /\ clock < MaxTime /\ clock - beat < Interval
  /\ clock' = clock + 1
  /\ seen' = [p \in People |-> IF isOnline(p) THEN clock' ELSE seen[p]]
  /\ UNCHANGED <<socket, onlineCounts, lastSeenAt, stored, writes, beat, busy, told, lost, mishaps>>

PresenceNext ==
  \/ \E s \in Sockets : GoAway(s) \/ ComeBack(s) \/ Disconnect(s) \/ \E p \in People : Connect(s, p)
  \/ \E p \in People : setInCall(p)
  \/ \E w \in writes : persistLastSeen(w) \/ LoseStamp(w)
  \/ Heartbeat \/ Restart \/ Later

-----------------------------------------------------------------------------
\* The count is the number of connections that are not away, however they came and went
\* (chat.socket.ts:76): it never drifts, so nobody is left online or offline for good.
CountsAreConnections ==
  \A p \in People : onlineCounts[p] = Cardinality({s \in Sockets : socket[s] = [user |-> p, pc |-> "here"]})

\* What everybody was last told of a person is how that person is (chat.events.ts:102).
ToldIsStatus == \A p \in People : told[p] = presenceStatusOf(p, onlineCounts, busy)

\* Whoever is offline was last seen when they truly were, within one heartbeat even after a
\* crash, unless a stamp of theirs was lost or overtaken (chat.events.ts:47, main.ts:66).
LastSeenWithinABeatUnlessLost ==
  \A p \in People \ lost :
    ~isOnline(p) => /\ lastSeenAt[p] + Interval >= seen[p]
                    /\ lastSeenAt[p] <= seen[p]
=============================================================================
