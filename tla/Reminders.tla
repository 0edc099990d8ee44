----------------------------- MODULE Reminders -----------------------------
(***************************************************************************)
(* Reminders (src/src/mongo/reminders/reminder.service.ts) and the sweep   *)
(* that pushes them when they fall due (reminder.sweep.ts).                *)
(*                                                                         *)
(* A request reads the reminder, checks who asks, and writes later under   *)
(* no condition but the id.  The sweep lists the reminders that are due    *)
(* and, one by one from that listing, stamps each and then pushes it: the  *)
(* stamp is an awaited update that may fail, or take effect with its       *)
(* answer lost, and the process may stop between the two.                  *)
(***************************************************************************)
EXTENDS Naturals, FiniteSets

CONSTANTS
  People,     \* users
  Managers,   \* those whose access.canManage holds
  Slots,      \* reminders that may be created
  MaxTime,    \* bound on the clock
  Asks,       \* requests in progress at once
  Sweeps,     \* sweeps in progress at once
  MaxAsks     \* bound on requests

VARIABLES
  time,       \* the clock that due times are compared with
  rem,        \* the reminders
  ask,        \* what each request is about to write
  sweep,      \* what each sweep has listed and not yet handled
  stamped,    \* what each sweep has stamped and is about to push
  made,       \* requests so far
  pushed,     \* history: by reminder, whom a due push went to and for what time
  doneBy,     \* history: who completed each reminder last
  overtaken,  \* history: reminders that something was written to from an old reading
  cut         \* history: reminders whose stamp was not followed by its push

remVars == <<time, rem, ask, sweep, stamped, made, pushed, doneBy, overtaken, cut>>

NoOne  == "nobody"
NoDue  == 0
NoRem  == [state |-> "absent"]
States == {"pending", "review", "approved"}
Doc    == [state : States, forId : People, byId : People, dueAt : 0..MaxTime, notified : BOOLEAN]

\* What a request does to a reminder, and whether the reminder has changed since it
\* was read.
Idle == [op |-> "idle"]
Ask ==
  {Idle}
  \cup [op : {"reassign"}, r : Slots, to : People, stale : BOOLEAN]
  \cup [op : {"complete"}, r : Slots, who : People, self : BOOLEAN, stale : BOOLEAN]
  \cup [op : {"approve", "remove"}, r : Slots, stale : BOOLEAN]
  \cup [op : {"edit"}, r : Slots, dueAt : 0..MaxTime, rearm : BOOLEAN, stale : BOOLEAN]

\* A listed reminder: whom to push, for which time.
Listed == [r : Slots, forId : People, dueAt : 1..MaxTime, stale : BOOLEAN]

\* A push that a stamp has been set for, if a sweep has one in hand.
Nothing == [r |-> "none"]
Due     == [r : Slots, forId : People, dueAt : 1..MaxTime]

ReminderTypeOK ==
  /\ time \in 1..MaxTime
  /\ rem \in [Slots -> {NoRem} \cup Doc]
  /\ ask \in [Asks -> Ask]
  /\ sweep \in [Sweeps -> SUBSET Listed]
  /\ stamped \in [Sweeps -> {Nothing} \cup Due]
  /\ made \in 0..MaxAsks
  /\ pushed \in [Slots -> SUBSET (People \X (1..MaxTime))]
  /\ doneBy \in [Slots -> People \cup {NoOne}]
  /\ overtaken \subseteq Slots /\ cut \subseteq Slots

ReminderInit ==
  /\ time = 1
  /\ rem = [r \in Slots |-> NoRem]
  /\ ask = [a \in Asks |-> Idle]
  /\ sweep = [s \in Sweeps |-> {}]
  /\ stamped = [s \in Sweeps |-> Nothing]
  /\ made = 0
  /\ pushed = [r \in Slots |-> {}]
  /\ doneBy = [r \in Slots |-> NoOne]
  /\ overtaken = {} /\ cut = {}

Exists(r) == rem[r] # NoRem

\* After a write to r, what others have read of it is old.
Aged(r, a) ==
  ask' = [b \in Asks |-> IF b = a THEN Idle
                         ELSE IF ask[b] # Idle /\ ask[b].r = r THEN [ask[b] EXCEPT !.stale = TRUE]
                         ELSE ask[b]]
AgedListings(r) ==
  sweep' = [s \in Sweeps |-> {IF l.r = r THEN [l EXCEPT !.stale = TRUE] ELSE l : l \in sweep[s]}]

\* An update finds its reminder by id, and does nothing when it is gone.  One that takes
\* the stamp off makes room for another push.
Write(a, r, doc) ==
  /\ IF Exists(r) THEN rem' = [rem EXCEPT ![r] = doc] ELSE UNCHANGED rem
  /\ Aged(r, a)
  /\ AgedListings(r)
  /\ overtaken' = IF ask[a].stale THEN overtaken \cup {r} ELSE overtaken
  /\ cut' = IF Exists(r) /\ doc # NoRem /\ ~doc.notified THEN cut \ {r} ELSE cut
  /\ UNCHANGED <<time, stamped, made, pushed>>

-----------------------------------------------------------------------------
(* Requests. *)

\* An id that nothing refers to yet.
Unused(r) ==
  /\ ~Exists(r) /\ doneBy[r] = NoOne /\ pushed[r] = {} /\ r \notin overtaken \cup cut
  /\ \A a \in Asks : ask[a] # Idle => ask[a].r # r
  /\ \A s \in Sweeps : stamped[s].r # r /\ \A l \in sweep[s] : l.r # r

\* One reminder for every assignee; people added by a later edit get one as well.
Create(by, to, due) ==
  /\ made < MaxAsks
  /\ made' = made + 1
  /\ \E f \in [to -> Slots] :
       /\ \A p, q \in to : p # q => f[p] # f[q]
       /\ \A p \in to : Unused(f[p])
       /\ rem' = [r \in Slots |->
            IF \E p \in to : f[p] = r
            THEN [state |-> "pending", forId |-> CHOOSE p \in to : f[p] = r, byId |-> by,
                  dueAt |-> due, notified |-> FALSE]
            ELSE rem[r]]
  /\ UNCHANGED <<time, ask, sweep, stamped, pushed, doneBy, overtaken, cut>>

Starts(a, next) ==
  /\ ask[a] = Idle /\ made < MaxAsks
  /\ made' = made + 1
  /\ ask' = [ask EXCEPT ![a] = next]
  /\ UNCHANGED <<time, rem, sweep, stamped, pushed, doneBy, overtaken, cut>>

\* The reminder is read, and the person's right to do this is checked.
ReadForReassign(a, r, p, to) ==
  /\ Exists(r) /\ rem[r].forId # to /\ rem[r].byId = p
  /\ Starts(a, [op |-> "reassign", r |-> r, to |-> to, stale |-> FALSE])

ReadForComplete(a, r, p) ==
  /\ Exists(r) /\ rem[r].forId = p
  /\ Starts(a, [op |-> "complete", r |-> r, who |-> p, self |-> rem[r].byId = p, stale |-> FALSE])

ReadForApprove(a, r, p) ==
  /\ Exists(r) /\ rem[r].byId = p
  /\ Starts(a, [op |-> "approve", r |-> r, stale |-> FALSE])

\* An edit that does not touch the due time writes back the one it read.
ReadForEdit(a, r, p, rearm, due) ==
  /\ Exists(r) /\ (rem[r].byId = p \/ p \in Managers)
  /\ ~rearm => due = rem[r].dueAt
  /\ Starts(a, [op |-> "edit", r |-> r, dueAt |-> due, rearm |-> rearm, stale |-> FALSE])

ReadForRemove(a, r, p) ==
  /\ Exists(r) /\ (rem[r].byId = p \/ p \in Managers)
  /\ Starts(a, [op |-> "remove", r |-> r, stale |-> FALSE])

Reassign(a) ==
  LET t == ask[a] IN
  /\ t.op = "reassign"
  /\ Write(a, t.r, [rem[t.r] EXCEPT !.forId = t.to, !.state = "pending", !.notified = FALSE])
  /\ UNCHANGED doneBy

\* What somebody set themselves needs no review.
Complete(a) ==
  LET t == ask[a] IN
  /\ t.op = "complete"
  /\ Write(a, t.r, [rem[t.r] EXCEPT !.state = IF t.self THEN "approved" ELSE "review"])
  /\ doneBy' = [doneBy EXCEPT ![t.r] = t.who]

Approve(a) ==
  LET t == ask[a] IN
  /\ t.op = "approve"
  /\ Write(a, t.r, [rem[t.r] EXCEPT !.state = "approved"])
  /\ UNCHANGED doneBy

\* Regression: a new due time is not armed.
EditUnarmed(a) ==
  LET t == ask[a] IN
  /\ t.op = "edit"
  /\ Write(a, t.r, [rem[t.r] EXCEPT !.dueAt = t.dueAt])
  /\ UNCHANGED doneBy

Edit(a) ==
  LET t == ask[a] IN
  /\ t.op = "edit"
  /\ Write(a, t.r, [rem[t.r] EXCEPT !.dueAt = t.dueAt, !.notified = @ /\ ~t.rearm])
  /\ UNCHANGED doneBy

Remove(a) ==
  LET t == ask[a] IN
  /\ t.op = "remove"
  /\ Write(a, t.r, NoRem)
  /\ UNCHANGED doneBy

-----------------------------------------------------------------------------
(* The sweep. *)

Tick ==
  /\ time < MaxTime
  /\ time' = time + 1
  /\ UNCHANGED <<rem, ask, sweep, stamped, made, pushed, doneBy, overtaken, cut>>

DueUnnotified(r) ==
  Exists(r) /\ rem[r].state = "pending" /\ rem[r].dueAt \in 1..time /\ ~rem[r].notified

ListDue(s) ==
  /\ sweep[s] = {} /\ stamped[s] = Nothing
  /\ \E r \in Slots : DueUnnotified(r)
  /\ sweep' = [sweep EXCEPT ![s] =
       {[r |-> r, forId |-> rem[r].forId, dueAt |-> rem[r].dueAt, stale |-> FALSE] :
          r \in {x \in Slots : DueUnnotified(x)}}]
  /\ UNCHANGED <<time, rem, ask, stamped, made, pushed, doneBy, overtaken, cut>>

\* The update that sets the stamp, whatever has become of the reminder since it was
\* listed; l comes off the listing of s, and of that listing only rest is left.
Stamps(s, l, rest) ==
  /\ rem' = IF Exists(l.r) THEN [rem EXCEPT ![l.r].notified = TRUE] ELSE rem
  /\ ask' = [a \in Asks |-> IF ask[a] # Idle /\ ask[a].r = l.r
                            THEN [ask[a] EXCEPT !.stale = TRUE] ELSE ask[a]]
  /\ sweep' = [t \in Sweeps |->
       IF t = s THEN rest
       ELSE {IF k.r = l.r THEN [k EXCEPT !.stale = TRUE] ELSE k : k \in sweep[t]}]
  /\ overtaken' = IF l.stale THEN overtaken \cup {l.r} ELSE overtaken
  /\ UNCHANGED <<time, made, pushed, doneBy>>

\* Regression: the push is not recorded on the reminder.
StampOnlyInMemory(s) ==
  /\ stamped[s] = Nothing
  /\ \E l \in sweep[s] :
       /\ sweep' = [sweep EXCEPT ![s] = @ \ {l}]
       /\ stamped' = [stamped EXCEPT ![s] = [r |-> l.r, forId |-> l.forId, dueAt |-> l.dueAt]]
  /\ UNCHANGED <<time, rem, ask, made, pushed, doneBy, overtaken, cut>>

\* The stamp took effect and its answer came: what the listing says is to be pushed.
Stamp(s) ==
  /\ stamped[s] = Nothing
  /\ \E l \in sweep[s] :
       /\ Stamps(s, l, sweep[s] \ {l})
       /\ stamped' = [stamped EXCEPT ![s] = [r |-> l.r, forId |-> l.forId, dueAt |-> l.dueAt]]
  /\ UNCHANGED cut

\* The push, once the update has been answered.
PushDue(s) ==
  LET l == stamped[s] IN
  /\ l # Nothing
  /\ stamped' = [stamped EXCEPT ![s] = Nothing]
  /\ pushed' = [pushed EXCEPT ![l.r] = @ \cup {<<l.forId, l.dueAt>>}]
  /\ UNCHANGED <<time, rem, ask, sweep, made, doneBy, overtaken, cut>>

\* An update fails: the rest of the listing is left for the next sweep.
StampFails(s) ==
  /\ stamped[s] = Nothing /\ sweep[s] # {}
  /\ sweep' = [sweep EXCEPT ![s] = {}]
  /\ UNCHANGED <<time, rem, ask, stamped, made, pushed, doneBy, overtaken, cut>>

\* It took effect and its answer was lost: the sweep ends all the same, and the next one
\* does not find the reminder.
StampUnheard(s) ==
  /\ stamped[s] = Nothing
  /\ \E l \in sweep[s] :
       /\ Stamps(s, l, {})
       /\ cut' = cut \cup {l.r}
  /\ UNCHANGED stamped

\* The process stops: requests, listings and pushes in hand are gone.
Restart ==
  /\ ask' = [a \in Asks |-> Idle]
  /\ sweep' = [s \in Sweeps |-> {}]
  /\ stamped' = [s \in Sweeps |-> Nothing]
  /\ cut' = cut \cup {r \in Slots : Exists(r) /\ rem[r].notified /\ \E s \in Sweeps : stamped[s].r = r}
  /\ UNCHANGED <<time, rem, made, pushed, doneBy, overtaken>>

\* What the timer and an answered update make a sweep do.
Proceeds(s) == ListDue(s) \/ PushDue(s)

SweepStep(s) == Proceeds(s) \/ Stamp(s) \/ StampFails(s) \/ StampUnheard(s)

ReminderNext ==
  \/ \E by \in People, to \in (SUBSET People) \ {{}}, due \in 0..MaxTime : Create(by, to, due)
  \/ \E a \in Asks :
       \/ \E r \in Slots, p \in People :
            \/ \E to \in People : ReadForReassign(a, r, p, to)
            \/ ReadForComplete(a, r, p) \/ ReadForApprove(a, r, p) \/ ReadForRemove(a, r, p)
            \/ \E due \in 0..MaxTime, rearm \in BOOLEAN : ReadForEdit(a, r, p, rearm, due)
       \/ Reassign(a) \/ Complete(a) \/ Approve(a) \/ Edit(a) \/ Remove(a)
  \/ Tick \/ Restart
  \/ \E s \in Sweeps : SweepStep(s)

ReminderSpec == ReminderInit /\ [][ReminderNext]_remVars

\* A timer starts a sweep every minute, not every update fails, and an answered one is
\* followed by its push at once.
FairReminderSpec ==
  /\ ReminderSpec
  /\ \A s \in Sweeps : WF_remVars(Proceeds(s)) /\ SF_remVars(Stamp(s))

-----------------------------------------------------------------------------
(* Properties. *)

\* A push for time d that went to p, or that a sweep has in hand.
Sent(r, p, d) ==
  <<p, d>> \in pushed[r] \/ \E s \in Sweeps : stamped[s] = [r |-> r, forId |-> p, dueAt |-> d]

\* A reminder marked as pushed was pushed, or is about to be, for the time it is due and to
\* the person it is for, however edits, reassignments and sweeps follow one another, unless
\* something was written to it from an old reading, or the sweep that marked it came to its
\* end, by a restart or a lost answer, before it pushed.
NotifiedMeansPushedUnlessOvertakenOrCut ==
  \A r \in Slots \ (overtaken \cup cut) :
    Exists(r) /\ rem[r].notified => Sent(r, rem[r].forId, rem[r].dueAt)

\* What awaits review was completed by the person it is for now, unless it was
\* reassigned under their hands.
ReviewedWorkIsTheirsUnlessOvertaken ==
  \A r \in Slots \ overtaken :
    Exists(r) /\ rem[r].state = "review" => doneBy[r] = rem[r].forId

\* A reminder that is due does not stay unnoticed: there is always a later moment at which
\* it is marked, or has been put off, done or removed.
DueIsNoticed == \A r \in Slots : []<>~DueUnnotified(r)
=============================================================================
