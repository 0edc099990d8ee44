------------------------------- MODULE Calls -------------------------------
(***************************************************************************)
(* Voice and video calls: initiate, accept, reject, end and the ring       *)
(* timeout, as src/src/mongo/calls/call.service.ts runs them against the   *)
(* active_calls and call_logs collections.                                 *)
(*                                                                         *)
(* Each HTTP handler, and each ring timer that fires, is a small program   *)
(* of database calls; whatever lies between two awaits is one action and   *)
(* other handlers run in between.  Ring timers and the in-call flags live  *)
(* in the process's memory and die with it; MongoDB drops an active call   *)
(* on its own once expiresAt has passed.                                   *)
(*                                                                         *)
(* There is no clock.  A handler may take as long as it likes between two  *)
(* steps, so a ring timeout or an expiresAt may have passed at any moment  *)
(* after it was set.                                                       *)
(***************************************************************************)
EXTENDS Naturals, Sequences, FiniteSets

CONSTANTS
  Users,     \* CRM user ids
  Calls,     \* call ids: how many calls a behaviour may place
  Handlers,  \* handlers and fired timers that may be in flight at once
  MaxFaults  \* bound on failed database calls and process crashes

VARIABLES
  active,    \* active_calls; what became of a document that is gone is history
  logs,      \* call_logs, by call
  timer,     \* the calls in ringTimers
  inCall,    \* the users presence shows as in a call
  handlers,  \* what each handler in flight is about to do
  trouble,   \* history: whether handlers overlapped on a call, or worse, a fault struck
  faults     \* faults so far

vars == <<active, logs, timer, inCall, handlers, trouble, faults>>

NoCall == [state |-> "none"]
Idle   == [pc |-> "idle"]

Live == {"ringing", "accepted"}

Call == {a \in [state : Live \cup {"removed", "expired"}, caller : Users, receiver : Users] :
           a.caller # a.receiver}

\* A call_logs row: how it ended, and whether it has an acceptedAt.
Log == [status : {"completed", "missed", "rejected"}, answered : BOOLEAN]

Initiating == [pc : {"check"}, call : Calls, user : Users, peer : Users, free : SUBSET Users]
Ringing    == [pc : {"ring"}, call : Calls]
Answering  == [pc : {"answer"}, call : Calls]
Finalizing == [pc : {"insert"}, op : {"reject", "end", "missed"}, call : Calls, log : Log]
              \cup [pc : {"remove"}, op : {"reject", "end", "missed"}, call : Calls]
HangingUp  == [pc : {"hangup"}, call : Calls]

TypeOK ==
  /\ active \in [Calls -> {NoCall} \cup Call]
  /\ logs \in [Calls -> Seq(Log)]
  /\ timer \subseteq Calls
  /\ inCall \subseteq Users
  /\ handlers \in [Handlers ->
       {Idle} \cup Initiating \cup Ringing \cup Answering \cup Finalizing \cup HangingUp]
  /\ trouble \in [Calls -> {"none", "race", "fault"}]
  /\ faults \in 0..MaxFaults

Init ==
  /\ active = [c \in Calls |-> NoCall]
  /\ logs = [c \in Calls |-> <<>>]
  /\ timer = {}
  /\ inCall = {}
  /\ handlers = [h \in Handlers |-> Idle]
  /\ trouble = [c \in Calls |-> "none"]
  /\ faults = 0

IsLive(c)   == active[c].state \in Live
Parties(c)  == {active[c].caller, active[c].receiver}
WorksOn(h, c) == handlers[h].pc \notin {"idle", "check"} /\ handlers[h].call = c

\* A handler moves on to what it does next.
Goto(h, next) == handlers' = [handlers EXCEPT ![h] = next]

\* An idle handler takes up call c.
Take(h, c, next) ==
  /\ handlers[h] = Idle
  /\ Goto(h, next)
  /\ trouble' = [trouble EXCEPT ![c] =
       IF @ = "none" /\ \E g \in Handlers : WorksOn(g, c) THEN "race" ELSE @]

-----------------------------------------------------------------------------
(* Placing a call. *)

\* Bound: a behaviour has one initiate in flight, or one call, per call id.
Initiate(h, c, u, v) ==
  /\ handlers[h] = Idle
  /\ active[c] = NoCall
  /\ \A g \in Handlers : handlers[g] # Idle => handlers[g].call # c
  /\ u # v
  /\ Goto(h, [pc |-> "check", call |-> c, user |-> u, peer |-> v, free |-> {}])
  /\ UNCHANGED <<active, logs, timer, inCall, trouble, faults>>

ActiveForUser(u) == \E c \in Calls : IsLive(c) /\ u \in Parties(c)

\* One of the two reads made in parallel: 409 if it finds a call, else a note
\* that this side is free.
CheckBusy(h, u) ==
  LET w == handlers[h] IN
  /\ w.pc = "check"
  /\ u \in {w.user, w.peer} \ w.free
  /\ Goto(h, IF ActiveForUser(u) THEN Idle ELSE [w EXCEPT !.free = @ \cup {u}])
  /\ UNCHANGED <<active, logs, timer, inCall, trouble, faults>>

\* Both sides were free when they were looked at: the document is created.
Ring(h) ==
  LET w == handlers[h] IN
  /\ w.pc = "check"
  /\ w.free = {w.user, w.peer}
  /\ active' = [active EXCEPT ![w.call] =
       [state |-> "ringing", caller |-> w.user, receiver |-> w.peer]]
  /\ Goto(h, [pc |-> "ring", call |-> w.call])
  /\ UNCHANGED <<logs, timer, inCall, trouble, faults>>

\* After the awaits on device look-ups and pushes.
ArmTimer(h) ==
  /\ handlers[h].pc = "ring"
  /\ timer' = timer \cup {handlers[h].call}
  /\ Goto(h, Idle)
  /\ UNCHANGED <<active, logs, inCall, trouble, faults>>

-----------------------------------------------------------------------------
(* Answering. *)

ReadForAccept(h, c, u) ==
  /\ active[c].state = "ringing"
  /\ u = active[c].receiver
  /\ timer' = timer \ {c}
  /\ Take(h, c, [pc |-> "answer", call |-> c])
  /\ UNCHANGED <<active, logs, inCall, faults>>

\* Regression: the update upserts.
AnswerUpserts(h) ==
  LET c == handlers[h].call IN
  /\ handlers[h].pc = "answer"
  /\ active' = [active EXCEPT ![c].state = "accepted"]
  /\ inCall' = inCall \cup Parties(c)
  /\ Goto(h, Idle)
  /\ UNCHANGED <<logs, timer, trouble, faults>>

\* The update names the call id only; it matches nothing if the document is gone.
Answer(h) ==
  LET c == handlers[h].call IN
  /\ handlers[h].pc = "answer"
  /\ active' = IF IsLive(c) THEN [active EXCEPT ![c].state = "accepted"] ELSE active
  /\ inCall' = inCall \cup Parties(c)
  /\ Goto(h, Idle)
  /\ UNCHANGED <<logs, timer, trouble, faults>>

-----------------------------------------------------------------------------
(* Ending.  All three ways insert the log row first and then remove the    *)
(* active call, with what they read before.                                *)

Finish(h, c, op, status) ==
  Take(h, c, [pc |-> "insert", op |-> op, call |-> c,
              log |-> [status |-> status, answered |-> active[c].state = "accepted"]])

\* Declining does not ask whether the call still rings.
ReadForReject(h, c, u) ==
  /\ IsLive(c)
  /\ u = active[c].receiver
  /\ timer' = timer \ {c}
  /\ Finish(h, c, "reject", "rejected")
  /\ UNCHANGED <<active, logs, inCall, faults>>

\* Without an active call, end() answers "completed" and changes nothing.
ReadForEnd(h, c, u) ==
  /\ IsLive(c)
  /\ u \in Parties(c)
  /\ timer' = timer \ {c}
  /\ Finish(h, c, "end", IF active[c].state = "accepted" THEN "completed" ELSE "missed")
  /\ UNCHANGED <<active, logs, inCall, faults>>

\* A ring timer fires: markMissed up to its read.
RingTimeout(h, c) ==
  /\ c \in timer
  /\ timer' = timer \ {c}
  /\ IF active[c].state = "ringing"
       THEN Finish(h, c, "missed", "missed")
       ELSE UNCHANGED <<handlers, trouble>>
  /\ UNCHANGED <<active, logs, inCall, faults>>

\* Regression: a failed insert is swallowed and the call dropped all the same.
InsertLogBestEffort(h) ==
  LET w == handlers[h] IN
  /\ w.pc = "insert"
  /\ \E rows \in {<<w.log>>, <<>>} : logs' = [logs EXCEPT ![w.call] = @ \o rows]
  /\ Goto(h, [pc |-> "remove", op |-> w.op, call |-> w.call])
  /\ UNCHANGED <<active, timer, inCall, trouble, faults>>

InsertLog(h) ==
  LET w == handlers[h] IN
  /\ w.pc = "insert"
  /\ logs' = [logs EXCEPT ![w.call] = Append(@, w.log)]
  /\ Goto(h, [pc |-> "remove", op |-> w.op, call |-> w.call])
  /\ UNCHANGED <<active, timer, inCall, trouble, faults>>

Remove(h) ==
  LET w == handlers[h] IN
  /\ w.pc = "remove"
  /\ active' = IF IsLive(w.call) THEN [active EXCEPT ![w.call].state = "removed"] ELSE active
  /\ Goto(h, IF w.op = "end" THEN [pc |-> "hangup", call |-> w.call] ELSE Idle)
  /\ UNCHANGED <<logs, timer, inCall, trouble, faults>>

\* Only end() takes the parties out of their in-call presence.
HangUp(h) ==
  /\ handlers[h].pc = "hangup"
  /\ inCall' = inCall \ Parties(handlers[h].call)
  /\ Goto(h, Idle)
  /\ UNCHANGED <<active, logs, timer, trouble, faults>>

-----------------------------------------------------------------------------
(* What nobody asked for.      *)

\* MongoDB's TTL monitor.  accept() does not move expiresAt.
Expire(c) ==
  /\ IsLive(c)
  /\ active' = [active EXCEPT ![c].state = "expired"]
  /\ UNCHANGED <<logs, timer, inCall, handlers, trouble, faults>>

\* The process stops and restarts.  No boot step looks at active_calls.
Restart ==
  /\ timer' = {}
  /\ inCall' = {}
  /\ handlers' = [h \in Handlers |-> Idle]
  /\ trouble' = [c \in Calls |->
       IF IsLive(c) \/ \E h \in Handlers : WorksOn(h, c)
       THEN "fault" ELSE trouble[c]]
  /\ faults' = faults + 1
  /\ UNCHANGED <<active, logs>>

Crash == faults < MaxFaults /\ Restart

\* A database call throws.  An HTTP handler answers 500; markMissed is detached
\* with nobody to catch it, and an unhandled rejection ends the process.
Fail(h) ==
  LET w == handlers[h] IN
  /\ w # Idle
  /\ faults < MaxFaults
  /\ IF w.pc \in {"insert", "remove"} /\ w.op = "missed"
       THEN Restart
       ELSE /\ w.pc # "hangup"
            /\ Goto(h, Idle)
            /\ trouble' = IF w.pc = "check" THEN trouble
                          ELSE [trouble EXCEPT ![w.call] = "fault"]
            /\ faults' = faults + 1
            /\ UNCHANGED <<active, logs, timer, inCall>>

-----------------------------------------------------------------------------
Next ==
  \/ \E h \in Handlers, c \in Calls, u, v \in Users : Initiate(h, c, u, v)
  \/ \E h \in Handlers, u \in Users : CheckBusy(h, u)
  \/ \E h \in Handlers : Ring(h)
  \/ \E h \in Handlers : ArmTimer(h)
  \/ \E h \in Handlers, c \in Calls, u \in Users :
       \/ ReadForAccept(h, c, u)
       \/ ReadForReject(h, c, u)
       \/ ReadForEnd(h, c, u)
  \/ \E h \in Handlers : Answer(h)
  \/ \E h \in Handlers, c \in Calls : RingTimeout(h, c)
  \/ \E h \in Handlers : InsertLog(h)
  \/ \E h \in Handlers : Remove(h)
  \/ \E h \in Handlers : HangUp(h)
  \/ \E c \in Calls : Expire(c)
  \/ Crash
  \/ \E h \in Handlers : Fail(h)

Spec == Init /\ [][Next]_vars

-----------------------------------------------------------------------------
(* Properties. *)

\* The log row is written before the call is dropped: whatever fails on the
\* way, a call that handlers have ended is in the history.
GoneIsLogged == \A c \in Calls : active[c].state = "removed" => logs[c] # <<>>

\* A call that rings unanswered has somebody who will stop it: its timer, or a
\* handler that is busy with it.  Only a fault leaves it to the TTL.
UnansweredIsWatched ==
  \A c \in Calls :
    active[c].state = "ringing" /\ trouble[c] # "fault" =>
      c \in timer \/ \E h \in Handlers : WorksOn(h, c)

\* A finished call has more than one row only if two handlers were busy with it
\* at once, or one of them failed half way.
OneLogUnlessTrouble ==
  \A c \in Calls : Len(logs[c]) > 1 => trouble[c] # "none"

\* Presence is not left at "in call": with nothing in flight, whoever it shows
\* in a call has an answered call that is still active, or one that met a race,
\* a fault or the TTL, or was rejected after it had been answered.
Unfinished(c) ==
  \/ active[c].state \in {"accepted", "expired"}
  \/ trouble[c] # "none"
  \/ \E i \in DOMAIN logs[c] : logs[c][i].status = "rejected" /\ logs[c][i].answered

InCallHasCause ==
  (\A h \in Handlers : handlers[h] = Idle) =>
    \A u \in inCall : \E c \in Calls :
      active[c] # NoCall /\ u \in Parties(c) /\ Unfinished(c)

\* A call only moves forward: accepting late never brings back a call that was
\* ended, and nothing makes an answered call ring again.
StaysOver(c) ==
  /\ active[c].state = "accepted" => active'[c].state # "ringing"
  /\ active[c].state \in {"removed", "expired"} => active'[c] = active[c]

NeverRevived == [][\A c \in Calls : StaysOver(c)]_vars

-----------------------------------------------------------------------------
(* What the code says of itself and does not do. *)

\* "one doc per finished call" (call_logs).
AtMostOneLog == \A c \in Calls : Len(logs[c]) <= 1

\* expiresAt is a "TTL safety-net so a crashed/abandoned call self-cleans": a
\* call that was answered, with no fault on it, is ended by its parties.
AnsweredCallsLast ==
  [][\A c \in Calls :
       active[c].state = "accepted" /\ active'[c].state = "expired" => trouble[c] = "fault"]_vars
=============================================================================
