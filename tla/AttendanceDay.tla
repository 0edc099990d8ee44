--------------------------- MODULE AttendanceDay ---------------------------
(***************************************************************************)
(* One attendance day (src/src/mongo/attendance/attendance.service.ts) and *)
(* the night sweep over it (attendance.dayclose.ts): punches, the super    *)
(* admin's corrections, the auto-close of forgotten check-outs and the     *)
(* branch's day-close report.                                              *)
(*                                                                         *)
(* Every request reads the row of the day, decides, and upserts later      *)
(* under no condition but the key.  A request that a check refuses changes *)
(* nothing and is left out: no photo, outside the fence, not the super     *)
(* admin.  A report that an admin forces posts without a key and marks     *)
(* nothing, and is left out as well.                                       *)
(***************************************************************************)
EXTENDS Naturals, FiniteSets

CONSTANTS
  Staff,        \* the staff of one branch
  Exempt,        \* people on the attendance_exempt list
  Hidden,        \* directors, who are tracked in silence
  Punches,       \* requests in progress at once
  Ticks,         \* ticks of the sweep in progress at once
  MaxTime,       \* the instants of the business day are 1..MaxTime
  CloseStamp,    \* the instant a forgotten day is closed at (the office end)
  CloseHour,     \* 10 pm in the branch
  SweepFrom,     \* when the sweep's window opens
  MaxPunches,    \* bound on requests
  MaxRestarts    \* bound on restarts of the process

VARIABLES
  hour,          \* the clock
  row,           \* the day's row of each person
  punch,         \* what each request has read and is about to write
  tick,          \* where each tick of the sweep is
  reportedTonight,  \* whether this process has attempted the report
  report,        \* the event in the HR channel
  posts,         \* how many times the report was posted
  asked,         \* requests so far
  restarts,      \* restarts so far
  firstIn,       \* history: when each person's day first opened
  byAdmin,       \* history: days whose times the super admin wrote unchecked, until they
                 \* are taken back and no request remembers them
  crossed        \* history: days something was written to from an old reading

dayVars == <<hour, row, punch, tick, reportedTonight, report, posts, asked, restarts,
             firstIn, byAdmin, crossed>>

Never   == 0
Instant == 0..MaxTime
Row     == [in : Instant, out : Instant, present : BOOLEAN, photo : BOOLEAN]
NoRow   == [in |-> Never, out |-> Never, present |-> FALSE, photo |-> FALSE]

\* isUntracked: the list excuses a person unless he is hidden.
Tracked(p) == p \in Hidden \/ p \notin Exempt

IsOpen(r)   == r.in # Never /\ r.out = Never
IsClosed(r) == r.in # Never /\ r.out # Never

NoPunch == [op |-> "none"]
Punch ==
  {NoPunch}
  \cup [op : {"in"}, who : Staff, read : Row]
  \cup [op : {"out"}, who : Staff, read : Row, out : Instant]
  \cup [op : {"times"}, who : Staff, read : Row, in : Instant, out : Instant]

\* A tick: the open days it still has to close, when it listed them, and who has punched
\* since or is not to be closed yet.
NoTick == [phase |-> "idle", todo |-> [p \in {} |-> NoRow], at |-> Never, since |-> {}, open |-> {}]

NoReport == [open |-> {}, excused |-> {}]

DayTypeOK ==
  /\ hour \in 1..MaxTime
  /\ row \in [Staff -> Row]
  /\ \A h \in Punches : punch[h] \in Punch
  /\ \A t \in Ticks :
       /\ tick[t].phase \in {"idle", "closing", "reading", "posting"}
       /\ DOMAIN tick[t].todo \subseteq Staff
       /\ tick[t].at \in Instant
       /\ tick[t].since \subseteq Staff /\ tick[t].open \subseteq Staff
  /\ reportedTonight \in BOOLEAN
  /\ report.open \subseteq Staff /\ report.excused \subseteq Staff
  /\ posts \in Nat
  /\ asked \in 0..MaxPunches /\ restarts \in 0..MaxRestarts
  /\ firstIn \in [Staff -> Instant]
  /\ byAdmin \subseteq Staff /\ crossed \subseteq Staff

DayInit ==
  /\ hour = 1
  /\ row = [p \in Staff |-> NoRow]
  /\ punch = [h \in Punches |-> NoPunch]
  /\ tick = [t \in Ticks |-> NoTick]
  /\ reportedTonight = FALSE
  /\ report = NoReport
  /\ posts = 0
  /\ asked = 0
  /\ restarts = 0
  /\ firstIn = [p \in Staff |-> Never]
  /\ byAdmin = {}
  /\ crossed = {}

PassTime ==
  /\ hour < MaxTime
  /\ hour' = hour + 1
  /\ UNCHANGED <<row, punch, tick, reportedTonight, report, posts, asked, restarts, firstIn, byAdmin, crossed>>

-----------------------------------------------------------------------------
(* The requests. *)

Begins(h, what) ==
  /\ punch[h] = NoPunch
  /\ asked < MaxPunches
  /\ asked' = asked + 1
  /\ punch' = [punch EXCEPT ![h] = what]
  /\ UNCHANGED <<hour, row, tick, reportedTonight, report, posts, restarts, firstIn, byAdmin, crossed>>

\* What a request writes, and that it wrote over something it had not read.
Writes(h, p, new) ==
  /\ row' = [row EXCEPT ![p] = new]
  /\ crossed' = IF row[p] = punch[h].read THEN crossed ELSE crossed \cup {p}
  /\ punch' = [punch EXCEPT ![h] = NoPunch]
  /\ UNCHANGED <<hour, reportedTonight, report, posts, asked, restarts>>

PunchedSince(p) ==
  tick' = [t \in Ticks |-> IF tick[t].phase = "idle" THEN tick[t]
                           ELSE [tick[t] EXCEPT !.since = @ \cup {p}]]

ReadForCheckIn(h, p) ==
  /\ Tracked(p)
  /\ ~IsOpen(row[p])
  /\ Begins(h, [op |-> "in", who |-> p, read |-> row[p]])

\* Regression: a re-entry writes its own instant as the check-in.
CheckInAfresh(h) ==
  LET p == punch[h].who IN
  /\ punch[h].op = "in"
  /\ Writes(h, p, [in |-> hour, out |-> Never, present |-> TRUE, photo |-> TRUE])
  /\ PunchedSince(p)
  /\ firstIn' = IF firstIn[p] = Never THEN [firstIn EXCEPT ![p] = hour] ELSE firstIn
  /\ UNCHANGED byAdmin

\* First-in stays, last-out wins: a re-entry reopens the day and keeps its check-in.
CheckIn(h) ==
  LET p         == punch[h].who
      reopening == IsClosed(punch[h].read)
  IN
  /\ punch[h].op = "in"
  /\ Writes(h, p, [in |-> IF reopening THEN row[p].in ELSE hour, out |-> Never,
                   present |-> TRUE, photo |-> p \notin Hidden])
  /\ PunchedSince(p)
  /\ firstIn' = IF firstIn[p] = Never THEN [firstIn EXCEPT ![p] = hour] ELSE firstIn
  /\ UNCHANGED byAdmin

\* resolveCheckOutAt: now, or the instant the fence was left when it lies after the
\* check-in and not in the future.
ResolveCheckOutAt(checkInAt) == {hour} \cup {t \in 1..hour : t > checkInAt}

ReadForCheckOut(h, p) ==
  /\ Tracked(p)
  /\ IsOpen(row[p])
  /\ \E out \in ResolveCheckOutAt(row[p].in) :
       Begins(h, [op |-> "out", who |-> p, read |-> row[p], out |-> out])

CheckOut(h) ==
  LET p == punch[h].who IN
  /\ punch[h].op = "out"
  /\ Writes(h, p, [row[p] EXCEPT !.out = punch[h].out, !.present = FALSE])
  /\ UNCHANGED <<tick, firstIn, byAdmin>>

\* resolveAdminTimes: only today may be left open, and a check-out lies after the
\* check-in.
ReadForTimes(h, p) ==
  \E in \in 1..hour, out \in 0..hour :
    /\ out = Never \/ out > in
    /\ Begins(h, [op |-> "times", who |-> p, read |-> row[p], in |-> in, out |-> out])

\* applyAdminTimes: a day that was punched keeps its evidence, and a day that was not
\* has none.
ApplyAdminTimes(h) ==
  LET p        == punch[h].who
      hadPunch == punch[h].read.in # Never
  IN
  /\ punch[h].op = "times"
  /\ Writes(h, p, [in |-> punch[h].in, out |-> punch[h].out, present |-> punch[h].out = Never,
                   photo |-> hadPunch /\ row[p].photo])
  /\ PunchedSince(p)
  /\ firstIn' = [firstIn EXCEPT ![p] = punch[h].in]
  /\ UNCHANGED byAdmin

\* A request under way may have read the day.
Held(p) == \E h \in Punches : punch[h] # NoPunch /\ punch[h].who = p

\* adminSetDay: present at given or default times, in no order that is checked, or
\* absent.  Nothing is read first.
AdminSetDay(p) ==
  /\ asked < MaxPunches
  /\ asked' = asked + 1
  /\ \E new \in [in : 1..MaxTime, out : Instant, photo : {FALSE}, present : BOOLEAN] \cup {NoRow} :
       /\ new # NoRow => new.present = (new.out = Never)
       /\ row' = [row EXCEPT ![p] = new]
       /\ firstIn' = [firstIn EXCEPT ![p] = new.in]
       /\ byAdmin' = IF new # NoRow THEN byAdmin \cup {p} ELSE IF Held(p) THEN byAdmin ELSE byAdmin \ {p}
  /\ PunchedSince(p)
  /\ UNCHANGED <<hour, punch, reportedTonight, report, posts, restarts, crossed>>

-----------------------------------------------------------------------------
(* The night sweep.  A tick closes the forgotten days, when that is switched *)
(* on, and then reports; ticks may overlap.                                  *)

StartTick(t) ==
  /\ tick[t].phase = "idle"
  /\ hour >= SweepFrom
  /\ LET due  == hour >= CloseHour
         open == {p \in Staff : IsOpen(row[p])}
     IN tick' = [tick EXCEPT ![t] =
          [phase |-> "closing", at |-> hour, since |-> {}, open |-> {},
           todo  |-> [p \in (IF due THEN open ELSE {}) |-> row[p]]]]
  /\ UNCHANGED <<hour, row, punch, reportedTonight, report, posts, asked, restarts, firstIn, byAdmin, crossed>>

ResolveAutoCloseAt(checkInAt) == IF checkInAt > CloseStamp THEN checkInAt ELSE CloseStamp

\* A listed day is closed whatever has happened to it since, unless its check-in or the
\* office end lay ahead of the tick.
AutoCloseOpenDay(t, p) ==
  /\ tick[t].phase = "closing"
  /\ p \in DOMAIN tick[t].todo
  /\ LET read  == tick[t].todo[p]
         ahead == ResolveAutoCloseAt(read.in) > tick[t].at
     IN
     /\ tick' = [tick EXCEPT ![t].todo = [q \in DOMAIN @ \ {p} |-> @[q]],
                             ![t].since = IF ahead THEN @ \cup {p} ELSE @]
     /\ IF ahead
        THEN UNCHANGED <<row, crossed>>
        ELSE /\ row' = [row EXCEPT ![p].out = ResolveAutoCloseAt(read.in), ![p].present = FALSE]
             /\ crossed' = IF row[p] = read THEN crossed ELSE crossed \cup {p}
  /\ UNCHANGED <<hour, punch, reportedTonight, report, posts, asked, restarts, firstIn, byAdmin>>

\* The attempt is remembered before it is made.
AttemptReport(t) ==
  /\ tick[t].phase = "closing"
  /\ tick[t].todo = NoTick.todo
  /\ IF hour >= CloseHour /\ ~reportedTonight
     THEN /\ reportedTonight' = TRUE
          /\ tick' = [tick EXCEPT ![t].phase = "reading"]
     ELSE /\ tick' = [tick EXCEPT ![t] = NoTick]
          /\ UNCHANGED reportedTonight
  /\ UNCHANGED <<hour, row, punch, report, posts, asked, restarts, firstIn, byAdmin, crossed>>

\* forUsersOnDay: whoever is in and not out reads "still in".
ReadRecords(t) ==
  /\ tick[t].phase = "reading"
  /\ tick' = [tick EXCEPT ![t].phase = "posting",
                          ![t].open = {p \in Staff \ (Exempt \cup Hidden) : IsOpen(row[p])}]
  /\ UNCHANGED <<hour, row, punch, reportedTonight, report, posts, asked, restarts, firstIn, byAdmin, crossed>>

Posted(t) == [open    |-> tick[t].open,
              excused |-> IF tick[t].at < CloseHour THEN Staff ELSE tick[t].since]

\* The key attendance-<branch>-<day> is unique: a second event is a duplicate.
PostReport(t) ==
  /\ tick[t].phase = "posting"
  /\ IF posts = 0 THEN report' = Posted(t) /\ posts' = 1 ELSE UNCHANGED <<report, posts>>
  /\ tick' = [tick EXCEPT ![t] = NoTick]
  /\ UNCHANGED <<hour, row, punch, reportedTonight, asked, restarts, firstIn, byAdmin, crossed>>

\* A write fails: the tick ends, and the attempt stays remembered.
TickFails(t) ==
  /\ tick[t].phase # "idle"
  /\ tick' = [tick EXCEPT ![t] = NoTick]
  /\ UNCHANGED <<hour, row, punch, reportedTonight, report, posts, asked, restarts, firstIn, byAdmin, crossed>>

Restart ==
  /\ restarts < MaxRestarts
  /\ restarts' = restarts + 1
  /\ punch' = [h \in Punches |-> NoPunch]
  /\ tick' = [t \in Ticks |-> NoTick]
  /\ reportedTonight' = FALSE
  /\ UNCHANGED <<hour, row, report, posts, asked, firstIn, byAdmin, crossed>>

DayNext ==
  \/ PassTime
  \/ \E h \in Punches :
       \/ CheckIn(h) \/ CheckOut(h) \/ ApplyAdminTimes(h)
       \/ \E p \in Staff : ReadForCheckIn(h, p) \/ ReadForCheckOut(h, p) \/ ReadForTimes(h, p)
  \/ \E p \in Staff : AdminSetDay(p)
  \/ \E t \in Ticks :
       \/ StartTick(t) \/ AttemptReport(t) \/ ReadRecords(t) \/ PostReport(t) \/ TickFails(t)
       \/ \E p \in Staff : AutoCloseOpenDay(t, p)
  \/ Restart

DaySpec == DayInit /\ [][DayNext]_dayVars

-----------------------------------------------------------------------------
(* Properties. *)

\* First-in stays: through check-outs, re-entries and auto-closes a day keeps the
\* check-in it opened with or the super admin gave it, unless requests crossed.
FirstInStaysUnlessCrossed ==
  \A p \in Staff \ crossed : firstIn[p] # Never => row[p].in = firstIn[p]

\* A row tells one story: it says "in the office" exactly while it is open, and it is
\* never out before it is in, unless requests crossed or the super admin wrote it so.
DayHoldsTogetherUnlessCrossed ==
  \A p \in Staff \ crossed :
    /\ row[p].present = IsOpen(row[p])
    /\ IsClosed(row[p]) /\ p \notin byAdmin => row[p].in <= row[p].out

\* However many ticks overlap, fail or are cut off by a restart, the night has one
\* report, and it does not call "still in" anyone whose forgotten day its own tick
\* should have closed: only who has punched since, or whose check-in or office end was
\* still ahead, unless the tick looked before 10 pm.
OneReportOfClosedDays ==
  /\ posts <= 1
  /\ report.open \subseteq report.excused
=============================================================================
