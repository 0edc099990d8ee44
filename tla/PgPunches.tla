------------------------------ MODULE PgPunches ------------------------------
(***************************************************************************)
(* Punches in the Postgres back end (src/src/modules/attendance,           *)
(* src/src/domain/logic/attendance.ts).  One person: a punch reads their   *)
(* row of today, reckons the next one, and writes it; nothing keeps a day  *)
(* to one row.                                                             *)
(***************************************************************************)
EXTENDS PgRequests

CONSTANTS
  Rows, MaxDay    \* bounds: rows there may be, and the day

VARIABLES
  day,       \* the calendar day
  att,       \* the attendance_records table
  doubled,   \* history: days on which two punches had read the same row, or none
  late       \* history: days whose row was made by a check-in that began the day before

punches == <<day, att, doubled, late>>

None    == "none"
NoRow   == [pc |-> "none"]
NotYet  == [in |-> FALSE, out |-> FALSE, via |-> None]

-----------------------------------------------------------------------------
(* The punch reducers. *)

computePresence(wifiOn, inside) ==
  [present |-> wifiOn \/ inside,
   viaNow  |-> IF wifiOn THEN "Wi-Fi" ELSE IF inside THEN "Geofence" ELSE None]

\* The record that follows, none of them when there is no transition.
autoPunch(a, present, viaNow) ==
  {[a EXCEPT !.in = TRUE, !.via = IF viaNow = None THEN "Auto" ELSE viaNow] : x \in {y \in {0} : present /\ ~a.in}}
  \cup {[a EXCEPT !.out = TRUE] : x \in {y \in {0} : ~present /\ a.in /\ ~a.out}}

canFacePunch(present, a) == present /\ ~(a.in /\ a.out)

facePunch(a) ==
  IF ~a.in THEN [a EXCEPT !.in = TRUE, !.via = "Face"]
  ELSE [a EXCEPT !.out = TRUE]

-----------------------------------------------------------------------------
PunchesInit ==
  /\ AsksInit
  /\ day = 0
  /\ att = [x \in Rows |-> NoRow] /\ doubled = {} /\ late = {}

RowsOf(d) == {x \in Rows : att[x].pc = "up" /\ att[x].date = d}

\* loadToday takes any of them; Rows does not hold None.
loadToday == IF RowsOf(day) = {} THEN {None} ELSE RowsOf(day)
AttOf(x)  == IF x = None THEN NotYet ELSE [in |-> att[x].in, out |-> att[x].out, via |-> att[x].via]

Punching(d) == {r \in About({"persist"}) : req[r].day = d}

Punch(r, x, next, p) ==
  /\ Ask(r, [pc |-> "persist", day |-> day, row |-> x, next |-> next, present |-> p.present])
  /\ doubled' = IF Punching(day) # {} THEN doubled \cup {day} ELSE doubled
  /\ UNCHANGED <<day, att, late>>

checkIn(r, face, wifiOn, inside) ==
  \E x \in loadToday :
    LET a == AttOf(x)
        p == computePresence(wifiOn, inside)
    IN /\ ~a.in
       /\ IF face THEN canFacePunch(p.present, a) /\ Punch(r, x, facePunch(a), p)
          ELSE \E next \in autoPunch(a, p.present, p.viaNow) : Punch(r, x, next, p)

\* Checking out is leaving, wherever the person is; by face they have to be there.
checkOut(r, face, wifiOn, inside) ==
  \E x \in loadToday :
    LET a == AttOf(x)
        p == computePresence(wifiOn, inside)
    IN /\ a.in /\ ~a.out
       /\ IF face THEN canFacePunch(p.present, a) /\ Punch(r, x, facePunch(a), p)
          ELSE \E next \in autoPunch(a, FALSE, None) : Punch(r, x, next, p)

\* As persist, but the row is always made anew.
PersistAnew(r) ==
  LET m == req[r]
  IN /\ m.pc = "persist" /\ \E x \in Rows : att[x] = NoRow
     /\ att' = [att EXCEPT ![NewId({x \in Rows : att[x] = NoRow})] =
                  m.next @@ [pc |-> "up", date |-> day, present |-> m.present]]
     /\ late' = IF m.day # day THEN late \cup {day} ELSE late
     /\ Written(r)
     /\ UNCHANGED <<day, doubled>>

\* The row that was read, or a new one of the day it is by now.
persist(r) ==
  LET m == req[r]
      Row(d) == m.next @@ [pc |-> "up", date |-> d, present |-> m.present]
  IN /\ m.pc = "persist" /\ (m.row # None \/ \E x \in Rows : att[x] = NoRow)
     /\ IF m.row # None
        THEN att' = [att EXCEPT ![m.row] = Row(@.date)] /\ UNCHANGED late
        ELSE /\ att' = [att EXCEPT ![NewId({x \in Rows : att[x] = NoRow})] = Row(day)]
             /\ late' = IF m.day # day THEN late \cup {day} ELSE late
     /\ Written(r)
     /\ UNCHANGED <<day, doubled>>

Midnight == day < MaxDay /\ day' = day + 1
            /\ UNCHANGED <<asks, att, doubled, late>>

Audit(r)       == writeAudit(r, TRUE) /\ UNCHANGED punches
DropRequest(r) == Die(r) /\ UNCHANGED punches

PunchesNext ==
  \/ \E r \in Requests :
       \/ \E face, wifiOn, inside \in BOOLEAN : checkIn(r, face, wifiOn, inside) \/ checkOut(r, face, wifiOn, inside)
       \/ persist(r) \/ Audit(r) \/ DropRequest(r)
  \/ Midnight

\* What the person is shown of the day; with two rows, either.
me == {[in |-> AttOf(x).in, out |-> AttOf(x).out] : x \in loadToday}

-----------------------------------------------------------------------------
PunchesTypeOK ==
  /\ AsksTypeOK
  /\ day \in 0..MaxDay /\ doubled \subseteq 0..MaxDay /\ late \subseteq 0..MaxDay
  /\ \A x \in Rows : att[x].pc = "up" => att[x].via \in {"Wi-Fi", "Geofence", "Face"} /\ att[x].in

\* A person has one row a day, and is shown one answer, unless two punches had both read the day
\* before either wrote, or a check-in was carried over midnight, when its row is of a day
\* nobody looked at (attendance.service.ts:61).
OneRowPerDayUnlessCrossed ==
  /\ \A d \in 0..MaxDay : Cardinality(RowsOf(d)) > 1 => d \in doubled \cup late
  /\ Cardinality(me) > 1 => day \in doubled \cup late

\* A row is of a presence seen when it was last punched: whoever is in and not out was at the
\* office then (attendance.service.ts:88).
WhoIsInWasPresent ==
  \A x \in Rows : att[x].pc = "up" /\ ~att[x].out => att[x].present
=============================================================================
