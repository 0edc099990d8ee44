--------------------------- MODULE LocationTrail ---------------------------
(***************************************************************************)
(* The work-hours location trail of one person                             *)
(* (src/src/mongo/location/location.service.ts, location.model.ts): the    *)
(* device posts batches of fixes, the server keeps those that fall inside  *)
(* the attendance day it reads, and moves a last-known marker forward.     *)
(*                                                                         *)
(* A batch is read against the day, stored and marked in separate steps,   *)
(* and may be sent again when its answer is lost.                          *)
(***************************************************************************)
EXTENDS Naturals, FiniteSets, FiniteSetsExt

CONSTANTS
  MaxTime,    \* instants are 1..MaxTime
  DayLength,  \* instants in a business day
  Before,     \* WINDOW_BEFORE_CHECK_IN
  Ahead,      \* WINDOW_FUTURE
  Batches,    \* batches in progress at once
  MaxBatch    \* fixes in a batch

VARIABLES
  clock,      \* the present instant
  day,        \* attendance by business day, as far as this service reads it
  batch,      \* what each batch holds and has read
  pings,      \* location_pings: instants stored, by business day
  last,       \* location_last: the marker's instant and day
  crossed,    \* history: days whose times changed under a batch, or after it was stored
  unmarked    \* history: the newest instant of a batch that died before the marker

trailVars == <<clock, day, batch, pings, last, crossed, unmarked>>

Instants == 1..MaxTime
DayOf(t) == ((t - 1) \div DayLength) + 1
Days     == 1..DayOf(MaxTime)
Today    == DayOf(clock)
Never    == 0
NoDay    == [in |-> Never, out |-> Never]
NoBatch  == [pc |-> "none", fixes |-> {}, day |-> 0]

\* A stored fix belongs to the day whose attendance it was read against; a person has one
\* fix per instant, and one marker.
LocationPings == [Days -> SUBSET Instants]
LocationLast  == [at : 0..MaxTime, day : 0..DayOf(MaxTime)]

TrailTypeOK ==
  /\ clock \in Instants
  /\ day \in [Days -> [in : 0..MaxTime, out : 0..MaxTime]]
  /\ batch \in [Batches -> [pc : {"none", "sent", "kept", "stored"}, fixes : SUBSET Instants, day : 0..DayOf(MaxTime)]]
  /\ pings \in LocationPings
  /\ last \in LocationLast
  /\ crossed \subseteq Days
  /\ unmarked \in 0..MaxTime

TrailInit ==
  /\ clock = 1
  /\ day = [d \in Days |-> NoDay]
  /\ batch = [b \in Batches |-> NoBatch]
  /\ pings = [d \in Days |-> {}]
  /\ last = [at |-> Never, day |-> 0]
  /\ crossed = {} /\ unmarked = Never

Tick == clock < MaxTime /\ clock' = clock + 1 /\ UNCHANGED <<day, batch, pings, last, crossed, unmarked>>

-----------------------------------------------------------------------------
(* Attendance, which this service only reads. *)

Held(d) == \E b \in Batches : batch[b].day = d

CheckIn ==
  /\ day[Today] = NoDay
  /\ day' = [day EXCEPT ![Today].in = clock]
  /\ UNCHANGED <<clock, batch, pings, last, crossed, unmarked>>

\* A batch read while the day was open keeps fixes up to the present and a little ahead.
CheckOut ==
  /\ day[Today].in # Never /\ day[Today].out = Never
  /\ day' = [day EXCEPT ![Today].out = clock]
  /\ crossed' = IF Held(Today) \/ \E t \in pings[Today] : t > clock THEN crossed \cup {Today} ELSE crossed
  /\ UNCHANGED <<clock, batch, pings, last, unmarked>>

\* An administrator moves or takes back a check-out (once in a run).
Correct(d, out) ==
  /\ d <= Today /\ day[d].in # Never /\ crossed = {}
  /\ day' = [day EXCEPT ![d].out = out]
  /\ crossed' = crossed \cup {d}
  /\ UNCHANGED <<clock, batch, pings, last, unmarked>>

-----------------------------------------------------------------------------
(* POST /location/pings. *)

\* The device's batch: fixes it has taken, its clock at most a little ahead, fresh or
\* sent again.
Send(b, fixes) ==
  /\ batch[b].pc = "none"
  /\ fixes # {} /\ Cardinality(fixes) <= MaxBatch
  /\ \A t \in fixes : t <= clock + Ahead
  /\ batch' = [batch EXCEPT ![b] = [NoBatch EXCEPT !.pc = "sent", !.fixes = fixes]]
  /\ UNCHANGED <<clock, day, pings, last, crossed, unmarked>>

\* selectPings: from a little before the check-in to the check-out, or to the present
\* and a little ahead while the day is open.
WindowEndNow(r) == clock + Ahead
WindowEnd(r) == IF r.out # Never THEN r.out ELSE clock + Ahead
SelectPings(fixes, r) == {t \in fixes : t + Before >= r.in /\ t <= WindowEnd(r)}

\* trailDayFor: nothing is kept on a day without a check-in.
Select(b) ==
  /\ batch[b].pc = "sent"
  /\ LET r    == day[Today]
         kept == IF r.in = Never THEN {} ELSE SelectPings(batch[b].fixes, r)
     IN batch' = [batch EXCEPT ![b] = IF kept = {} THEN NoBatch
                                      ELSE [pc |-> "kept", fixes |-> kept, day |-> Today]]
  /\ UNCHANGED <<clock, day, pings, last, crossed, unmarked>>

\* insertMany, unordered: an instant the person already has a ping for, on any day, is
\* skipped.
Fresh(fixes) == fixes \ UNION {pings[d] : d \in Days}
Store(b) ==
  /\ batch[b].pc = "kept"
  /\ pings' = [pings EXCEPT ![batch[b].day] = @ \cup Fresh(batch[b].fixes)]
  /\ batch' = [batch EXCEPT ![b].pc = "stored"]
  /\ UNCHANGED <<clock, day, last, crossed, unmarked>>

\* The marker only moves forward.
NewerAlways(t) == TRUE
Newer(t) == t > last.at
Mark(b) ==
  /\ batch[b].pc = "stored"
  /\ LET t == Max(batch[b].fixes)
     IN last' = IF Newer(t) THEN [at |-> t, day |-> batch[b].day] ELSE last
  /\ batch' = [batch EXCEPT ![b] = NoBatch]
  /\ UNCHANGED <<clock, day, pings, crossed, unmarked>>

\* A failed write or a restart in the middle.
Die(b) ==
  /\ batch[b].pc \in {"kept", "stored"}
  /\ unmarked' = IF batch[b].pc = "stored" THEN Max({unmarked} \cup batch[b].fixes) ELSE unmarked
  /\ batch' = [batch EXCEPT ![b] = NoBatch]
  /\ UNCHANGED <<clock, day, pings, last, crossed>>

-----------------------------------------------------------------------------
(* What the people over this one are shown; whom they may look at is TeamView's matter. *)

Open(d) == day[d].in # Never /\ day[d].out = Never

\* GET /location/live: the marker, said to be of today by the day stored with it.
Live == [tracking |-> Open(Today), at |-> last.at, today |-> last.day = Today]

\* GET /location/trail: the fixes of a day; only today's trail can be running.
Trail(d) == [tracking |-> d = Today /\ Open(d), points |-> pings[d]]

-----------------------------------------------------------------------------
TrailNext ==
  \/ Tick \/ CheckIn \/ CheckOut
  \/ \E d \in Days, out \in 0..MaxTime : Correct(d, out)
  \/ \E b \in Batches :
       \/ \E fixes \in SUBSET Instants : Send(b, fixes)
       \/ Select(b) \/ Store(b) \/ Mark(b) \/ Die(b)

TrailSpec == TrailInit /\ [][TrailNext]_trailVars

-----------------------------------------------------------------------------
(* Properties. *)

\* Only what was recorded on duty is kept: a stored fix lies between the check-in, less
\* the allowance, and the check-out of its day, unless those times changed under it.
TrailStaysOnDutyUnlessCrossed ==
  \A d \in Days \ crossed : \A t \in pings[d] :
    t + Before >= day[d].in /\ (day[d].out # Never => t <= day[d].out)

\* The roster's marker is the newest fix stored, whatever the order batches arrive in,
\* unless a batch is about to move it or died before it could.
MarkerIsNewestUnlessUnmarked ==
  \A t \in UNION {pings[d] : d \in Days} :
    \/ t <= last.at
    \/ t <= unmarked
    \/ \E b \in Batches : batch[b].pc = "stored" /\ t \in batch[b].fixes

\* The position the roster shows is a point of exactly one day's trail, whatever batches
\* overlap, are sent again after a new check-in, or die: not always of the day it is shown
\* under, since the batch that moved the marker may have found the fix stored for another.
LiveIsOnOneTrail ==
  Live.at # Never => \E d \in Days : {e \in Days : Live.at \in Trail(e).points} = {d}
=============================================================================
