------------------------------ MODULE MyMonth ------------------------------
(***************************************************************************)
(* One person's month as My Attendance shows it (src/src/mongo/hr/         *)
(* myMonth.service.ts, attendanceMonth.ts, leaveRules.ts, leave.service.ts)*)
(*                                                                         *)
(* Nothing is stored here: every reading is made afresh from the day       *)
(* records of the app, the day decisions of the ERP and the HR record.     *)
(* The records and decisions change between two readings; the readings     *)
(* are operators, and the properties say which changes they may follow.    *)
(*                                                                         *)
(* Days are numbered from 1, months are of one length, paid leave is       *)
(* counted in half days.                                                   *)
(***************************************************************************)
EXTENDS Integers, FiniteSets, FiniteSetsExt

CONSTANTS
  MonthLength, Months,  \* the calendar: Months months of MonthLength days
  FirstWeekday,         \* the weekday of day 1 (0 = Sunday, 6 = Saturday)
  Policy,               \* the person's week off: [days, saturdays]
  Joined, Left,         \* dates of joining and leaving, 0 when there is none
  Holiday,              \* a day's entry in the holiday list: "none", "closed", "optional"
  ShiftStart, Grace,    \* the shift's start and its grace, in the unit of a punch
  Opening,              \* the opening balance: [halves, asOf], asOf a month or 0
  Accrual,              \* half days credited in a month (5: LEAVE_ACCRUAL_PER_MONTH)
  AccrualFrom,          \* LEAVE_ACCRUAL_FROM
  LabelMonths,          \* STATE_MONTHS_MAX
  Touched,              \* bound: the days on which something is recorded or decided
  MaxChanges            \* bound: records and decisions in a run

VARIABLES
  today,     \* the present day
  record,    \* attendance by day
  decision,  \* hr_attendance_overrides by day
  changes    \* bound: changes so far

monthVars == <<today, record, decision, changes>>

Days        == 1..(Months * MonthLength)
MonthNos    == 1..Months
LateTime    == ShiftStart + Grace + 1
None        == 0
NoRecord    == [in |-> None, out |-> None, by |-> "none"]
ManualAbsent == [NoRecord EXCEPT !.by = "Manual"]
Records     ==
  {NoRecord, ManualAbsent}
    \cup {r \in [in : {ShiftStart, LateTime}, out : {None, LateTime}, by : {"app", "Auto-closed", "Manual"}] :
            r.by = "Auto-closed" => r.out # None}
DayDecisions == {"none", "weekOff", "optionalHoliday", "leave", "halfLeave", "wfh", "swapWork", "swapOff"}

monthOf(d)      == ((d - 1) \div MonthLength) + 1
DayOfMonth(d)   == ((d - 1) % MonthLength) + 1
monthDayKeys(m) == {d \in Days : monthOf(d) = m}
weekdayNo(d)    == (FirstWeekday + d - 1) % 7
IsSaturday(d)   == weekdayNo(d) = 6

saturdayOrdinal(d) == (DayOfMonth(d) + 6) \div 7

\* The person's own rule, before any decision: fixed weekdays, and Saturdays by their number.
isWeekOffDay(d) ==
  \/ weekdayNo(d) \in Policy.days
  \/ /\ IsSaturday(d)
     /\ \/ Policy.saturdays = "all"
        \/ Policy.saturdays = "odd" /\ saturdayOrdinal(d) % 2 = 1
        \/ Policy.saturdays = "even" /\ saturdayOrdinal(d) % 2 = 0

employedOn(d) == (Joined # None => d >= Joined) /\ (Left # None => d <= Left)

-----------------------------------------------------------------------------
(* One day. *)

Punched(d)      == record[d].in # None
MarkedAbsent(d) == record[d].by = "Manual" /\ ~Punched(d)
ClosedHoliday(d) == Holiday[d] = "closed"
WeekOffFlag(d)  == (isWeekOffDay(d) /\ decision[d] # "swapWork") \/ decision[d] \in {"weekOff", "swapOff"}

\* The early returns of classifyDay, in their order.
StateOf(d) ==
  IF ~employedOn(d)                             THEN "notEmployed"
  ELSE IF Punched(d)                            THEN "present"
  ELSE IF MarkedAbsent(d)                       THEN "absent"
  ELSE IF decision[d] \in {"weekOff", "swapOff"} THEN "weekOff"
  ELSE IF decision[d] = "optionalHoliday"       THEN "holiday"
  ELSE IF decision[d] \in {"leave", "halfLeave"} THEN "leave"
  ELSE IF decision[d] = "wfh"                   THEN "present"
  ELSE IF d > today                             THEN "future"
  ELSE IF ClosedHoliday(d)                      THEN "holiday"
  ELSE IF WeekOffFlag(d)                        THEN "weekOff"
  ELSE "absent"

\* No late mark on a day that is not a working day.
LateOn(d) ==
  /\ Punched(d) /\ employedOn(d)
  /\ ~ClosedHoliday(d) /\ ~WeekOffFlag(d)
  /\ record[d].in - ShiftStart > Grace

\* As firstPunchDay, with the newest punch taken for the first.
NewestPunchDay == LET punched == {d \in Days : Punched(d)} IN IF punched = {} THEN None ELSE Max(punched)

\* A blank working day is an absence only from the person's first punch on.
firstPunchDay == LET punched == {d \in Days : Punched(d)} IN IF punched = {} THEN None ELSE Min(punched)

applyNoData(d, first) ==
  IF StateOf(d) = "absent" /\ ~MarkedAbsent(d) /\ (first = None \/ d < first) THEN "noData" ELSE StateOf(d)

\* The days of a set, each with its state.
Muster(days) == LET first == firstPunchDay IN [d \in days |-> applyNoData(d, first)]

-----------------------------------------------------------------------------
(* A month, its pay days, and the labels of the history list. *)

summarizeMonth(m) ==
  LET muster   == Muster(monthDayKeys(m))
      In(s)    == {d \in DOMAIN muster : muster[d] = s}
      Count(s) == Cardinality(In(s))
      timed    == {d \in In("present") : Punched(d) /\ record[d].out # None}
  IN [calendarDays |-> Cardinality(DOMAIN muster),
      present      |-> Count("present"),
      absent       |-> Count("absent"),
      leave        |-> Count("leave"),
      workingDays  |-> Count("present") + Count("absent") + Count("leave"),
      holidays     |-> Count("holiday"),
      weekOffs     |-> Count("weekOff"),
      future       |-> Count("future"),
      notEmployed  |-> Count("notEmployed"),
      noData       |-> Count("noData"),
      halfLeaves   |-> Cardinality({d \in DOMAIN muster : decision[d] = "halfLeave"}),
      wfh          |-> Cardinality({d \in In("present") : decision[d] = "wfh" /\ ~Punched(d)}),
      swapped      |-> Cardinality({d \in DOMAIN muster : decision[d] \in {"swapWork", "swapOff"}}),
      lateMarks    |-> Cardinality({d \in In("present") : LateOn(d)}),
      stillOpen    |-> Cardinality({d \in In("present") : Punched(d) /\ record[d].out = None}),
      autoClosed   |-> Cardinality({d \in In("present") : record[d].by = "Auto-closed"}),
      workedOff    |-> Cardinality({d \in In("present") : WeekOffFlag(d) /\ Holiday[d] = "none"}),
      workedHoliday |-> Cardinality({d \in In("present") : ClosedHoliday(d)}),
      hoursTotal   |-> MapThenSumSet(LAMBDA d : record[d].out - record[d].in, timed)]

daysOf(s) ==
  LET payable == Max({0, s.calendarDays - s.absent - s.notEmployed})
  IN [payableDays |-> payable, presentDays |-> Max({0, payable - s.leave}), lopDays |-> s.absent]

\* Only the newest LabelMonths months of a range are labelled.
LabelledMonths(from, to) == {m \in monthOf(from)..monthOf(to) : m > monthOf(to) - LabelMonths}

dayStatesFor(from, to) == Muster({d \in from..to : monthOf(d) \in LabelledMonths(from, to)})

-----------------------------------------------------------------------------
(* Paid leave. *)

\* As Drawn, where a leave day costs its day worked or not.
DrawnWhole(d) ==
  CASE decision[d] = "leave"     -> 2
    [] decision[d] = "halfLeave" -> IF Punched(d) THEN 1 ELSE 2
    [] OTHER                     -> 0

\* What a day takes from the balance, in half days: a leave day worked takes nothing,
\* a half day worked takes its other half.
Drawn(d) ==
  CASE decision[d] = "leave"     -> IF Punched(d) THEN 0 ELSE 2
    [] decision[d] = "halfLeave" -> IF Punched(d) THEN 1 ELSE 2
    [] OTHER                     -> 0

\* The first month credited: the one whose first day is a month or more after joining.
leaveEligibleFrom ==
  IF Joined = None THEN None
  ELSE IF DayOfMonth(Joined) = 1 THEN monthOf(Joined) + 1 ELSE monthOf(Joined) + 2

accrualFrom == Max({AccrualFrom, leaveEligibleFrom} \cup (IF Opening.asOf = None THEN {} ELSE {Opening.asOf + 1}))

creditedMonths(m) ==
  LET last == IF Left # None /\ monthOf(Left) < m THEN monthOf(Left) ELSE m
  IN Max({0, last - accrualFrom + 1})

\* The half days that a set of days takes.
halfDaysOf(days) == Cardinality({h \in days \X {1, 2} : h[2] <= Drawn(h[1])})

takenBy(m) ==
  halfDaysOf({d \in Days : /\ Opening.asOf # None => monthOf(d) > Opening.asOf
                           /\ monthOf(d) <= m})

leaveBalance(m) == Opening.halves + creditedMonths(m) * Accrual - takenBy(m)

nextCreditOn(m) ==
  LET next == Max({m + 1, accrualFrom}) IN IF Left # None /\ next > monthOf(Left) THEN None ELSE next

-----------------------------------------------------------------------------
(* What changes between two readings. *)

MonthTypeOK ==
  /\ today \in Days
  /\ record \in [Days -> Records]
  /\ decision \in [Days -> DayDecisions]
  /\ changes \in 0..MaxChanges

MonthInit ==
  /\ today \in Touched
  /\ record = [d \in Days |-> NoRecord]
  /\ decision = [d \in Days |-> "none"]
  /\ changes = 0

Midnight ==
  /\ today + 1 \in Days
  /\ today' = today + 1
  /\ UNCHANGED <<record, decision, changes>>

\* The app's own records: punches, a closed day, an administrator's mark or an approved
\* correction, of any day up to the present.
Recorded(d, r) ==
  /\ changes < MaxChanges
  /\ d <= today /\ record[d] # r /\ r # NoRecord
  /\ record' = [record EXCEPT ![d] = r]
  /\ changes' = changes + 1
  /\ UNCHANGED <<today, decision>>

\* The ERP decides a day, or takes a decision back: swaps trade Saturdays only, one the
\* person's own rule gives them for one it does not.
Decided(d, s) ==
  /\ changes < MaxChanges
  /\ decision[d] # s
  /\ s = "swapWork" => IsSaturday(d) /\ isWeekOffDay(d)
  /\ s = "swapOff" => IsSaturday(d) /\ ~isWeekOffDay(d)
  /\ decision' = [decision EXCEPT ![d] = s]
  /\ changes' = changes + 1
  /\ UNCHANGED <<today, record>>

MonthNext ==
  \/ Midnight
  \/ \E d \in Touched : \/ \E r \in Records : Recorded(d, r)
                        \/ \E s \in DayDecisions : Decided(d, s)

-----------------------------------------------------------------------------
\* The muster and the balance, two algorithms over the same rows, charge a day of leave
\* alike: a day shown as leave costs its whole day, a half day worked costs its half, any
\* other day nothing - but for a day an administrator marked absent, which is taken from
\* the balance and lost from pay (leave.service.ts:60, attendanceMonth.ts:187).
ChargedOnceUnlessMarkedAbsent ==
  LET muster == Muster(Days)
  IN \A d \in Days :
       /\ employedOn(d) /\ ~MarkedAbsent(d)
       => Drawn(d) = CASE muster[d] = "leave"                                -> 2
                       [] muster[d] = "present" /\ decision[d] = "halfLeave" -> 1
                       [] OTHER                                              -> 0

\* The balance is the ledger: the opening figure, a credit for each month from the first to
\* the last one served, and the leave of the months after the opening (leaveRules.ts:79).
BalanceIsTheLedger ==
  \A m \in MonthNos :
    /\ m = Opening.asOf => leaveBalance(m) = Opening.halves
    /\ m + 1 \in MonthNos /\ m >= Opening.asOf =>
         leaveBalance(m + 1) - leaveBalance(m)
           = (IF m + 1 >= accrualFrom /\ (Left # None => m + 1 <= monthOf(Left)) THEN Accrual ELSE 0)
               - halfDaysOf(monthDayKeys(m + 1))

\* The days a month pays for are those worked, on leave, off or still to come, and the days
\* before the person's first punch, but for days marked absent by hand
\* (attendanceMonth.ts:213, payRules.ts:102).
PunchedBy(d) == \E e \in Days : e <= d /\ Punched(e)

BlankDaysArePaid ==
  LET s    == summarizeMonth(monthOf(today))
      lost == {d \in monthDayKeys(monthOf(today)) : employedOn(d) /\ (MarkedAbsent(d) \/ PunchedBy(d))}
  IN /\ daysOf(s).lopDays <= Cardinality(lost)
     /\ daysOf(s).payableDays = s.workingDays - s.absent + s.holidays + s.weekOffs + s.future + s.noData

\* A past day is relabelled only by something about that day, or when the person's first
\* punch passes over it: then a blank day turns from no data into an absence, or back
\* (myMonth.service.ts:25, attendanceMonth.ts:216).
KeepsLabels ==
  LET was == dayStatesFor(1, today)
      is  == dayStatesFor(1, today)'
  IN \A d \in DOMAIN was \cap DOMAIN is :
       /\ d < today
       /\ record'[d] = record[d] /\ decision'[d] = decision[d]
       => \/ is[d] = was[d]
          \/ {was[d], is[d]} = {"noData", "absent"} /\ PunchedBy(d) # PunchedBy(d)'

=============================================================================
