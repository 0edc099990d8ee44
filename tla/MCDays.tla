------------------------------- MODULE MCDays -------------------------------
(***************************************************************************)
(* Whose day is what: leave, work from home and swaps, time corrections,   *)
(* one branch's attendance day and its nightly report, the trail of a day, *)
(* the office a person punches at, the month they are shown and its pay.   *)
(* They share no state, so a behaviour follows one of them, and the others *)
(* rest as they began.                                                     *)
(***************************************************************************)
EXTENDS HrAsks, Integers, Sequences, TLC

CONSTANTS
  odd, even,                                      \* who asks for days (HrAsks)
  CorrectedDays,                                  \* TimeCorrections
  Staff, Night, MaxPunches, MaxRestarts,          \* AttendanceDay: whose day, and its instants
  MaxTime, DayLength, Before, Ahead, MaxBatch,    \* LocationTrail
  OfficeIds, MaxChanges,                          \* Offices
  Person,                                         \* MyMonth: whose month, and its calendar
  Wages,                                          \* PayMonth: the pay, the taxes and the loans
  Crew                                            \* TeamView: who works where, under whom

\* An ask is not what the record of a day without one shows.
ASSUME CorrectionConstants == "punched" \notin Asks

\* Instants of the trail, from 1, in days; how far off duty and ahead of the clock a fix may lie.
ASSUME TrailConstants ==
  /\ MaxTime \in Nat \ {0} /\ DayLength \in Nat \ {0}
  /\ Before \in Nat /\ Ahead \in Nat

\* Instants of the attendance day, from 1; none is said to come before another.
ASSUME NightConstants ==
  /\ Night.end \in Nat \ {0} /\ Night.stamp \in Nat /\ Night.report \in Nat /\ Night.from \in Nat
  /\ MaxPunches \in Nat /\ MaxRestarts \in Nat

\* Being locked to no office is not an office.
ASSUME OfficeConstants == "nowhere" \notin OfficeIds /\ MaxChanges \in Nat

\* Months and days count from 1; a month and an opening balance of 0 are none.
ASSUME PersonConstants ==
  /\ Person.monthLength \in Nat \ {0} /\ Person.months \in Nat /\ Person.changes \in Nat
  /\ Person.touched \subseteq 1..(Person.months * Person.monthLength)
  /\ Person.joined \in Nat /\ Person.left \in Nat
  /\ Person.opening.halves \in Int /\ Person.opening.asOf \in Nat
  /\ Person.accrual \in Int /\ Person.accrualFrom \in Int

\* The last band of a slab is open.
ASSUME WagesConstants ==
  /\ Wages.lastMonth \in Nat /\ Wages.calendar \in Nat /\ Wages.tds \in Nat
  /\ Wages.salary.basic \in Nat /\ Wages.salary.hra \in Nat /\ Wages.salary.other \in Nat
  /\ Wages.pt.manual \in Int
  /\ Wages.ladder \in Seq([upTo : Nat, monthly : Nat, feb : Nat])
  /\ Wages.ladder # << >> => Wages.ladder[Len(Wages.ladder)].upTo = 0

\* No loan starts before the months there are.
ASSUME LoanConstants ==
  /\ IsFiniteSet(Wages.loans)
  /\ \A l \in Wages.loans :
       /\ Wages.terms[l].principal \in Nat /\ Wages.terms[l].waived \in Nat /\ Wages.terms[l].opening \in Nat
       /\ Wages.terms[l].instalment \in Nat /\ Wages.terms[l].start \in Nat \ {0} /\ Wages.terms[l].end \in Nat

\* Slots of the team's days, from 1.
ASSUME CrewConstants == Crew.slots \in Nat \ {0} /\ Crew.punches \in Nat /\ Crew.moves \in Nat

VARIABLES
  which,                                                             \* what is followed
  times, record, deciders, rushed, overtaken,                        \* TimeCorrections
  hour, row, punch, tick, reportedTonight, report, posts, asked,     \* AttendanceDay
  restarts, firstIn, byAdmin, late,
  clock, day, batch, pings, last, crossed, unmarked,                 \* LocationTrail
  office, userOffice, workBranch, admin, changes, follows, raced, unsettled,  \* Offices
  today, shown, decision, edits,                                     \* MyMonth
  month, status, skips, taken, disturbed,                            \* PayMonth
  slot, work, exempt, rows, lines, told, summaries, attempted, reporting, view,
  punched, moves, moved, sinceView, blind, arrived                   \* TeamView

Times ==
  INSTANCE TimeCorrections WITH Days <- CorrectedDays, asks <- times, handlers <- deciders,
    hasty <- rushed

Day ==
  INSTANCE AttendanceDay WITH Exempt <- {}, Hidden <- {}, Punches <- Handlers, Ticks <- Asks,
    MaxTime <- Night.end, CloseStamp <- Night.stamp, CloseHour <- Night.report,
    SweepFrom <- Night.from, crossed <- late

Trail ==
  INSTANCE LocationTrail WITH Batches <- Handlers

Places ==
  INSTANCE Offices WITH Directors <- {}, CompanyWide <- {}, Branches <- {"BOM", "NBO"},
    BranchIds <- [p \in Staff |-> {"BOM"}], Admins <- Handlers, crossed <- unsettled

Month ==
  INSTANCE MyMonth WITH MonthLength <- Person.monthLength, Months <- Person.months,
    FirstWeekday <- Person.firstWeekday, Policy <- Person.policy, Joined <- Person.joined, Left <- Person.left,
    Holiday <- Person.holiday, ShiftStart <- Person.shiftStart, Grace <- Person.grace,
    Opening <- Person.opening, Accrual <- Person.accrual, AccrualFrom <- Person.accrualFrom,
    LabelMonths <- Person.labelMonths, Touched <- Person.touched,
    MaxChanges <- Person.changes, record <- shown, changes <- edits

Pay ==
  INSTANCE PayMonth WITH LastMonth <- Wages.lastMonth, FebruaryMonth <- Wages.february,
    Calendar <- Wages.calendar, Tds <- Wages.tds, Salary <- Wages.salary, Pt <- Wages.pt,
    Ladder <- Wages.ladder, Loans <- Wages.loans, Terms <- Wages.terms

Team ==
  INSTANCE TeamView WITH Staff <- Crew.staff, Level <- Crew.level, Hidden <- Crew.hidden,
    CrmBranches <- Crew.crm, Branches <- Crew.branches, Code <- Crew.code, City <- Crew.city,
    Channels <- Crew.channels, Behind <- Crew.behind, Wfh <- Crew.wfh, MaxTime <- Crew.slots,
    MaxPunches <- Crew.punches, MaxMoves <- Crew.moves, tick <- reporting

timeVars   == <<times, record, deciders, rushed, overtaken>>
dayVars    == <<hour, row, punch, tick, reportedTonight, report, posts, asked,
                restarts, firstIn, byAdmin, late>>
trailVars  == <<clock, day, batch, pings, last, crossed, unmarked>>
officeVars == <<office, userOffice, workBranch, admin, changes, follows, raced, unsettled>>
monthVars  == <<today, shown, decision, edits>>
payVars    == <<month, status, skips, taken, disturbed>>
teamVars   == <<slot, work, exempt, rows, lines, told, summaries, attempted, reporting, view,
                punched, moves, moved, sinceView, blind, arrived>>

\* Only where corrections are followed are there any to begin with.
DaysInit ==
  /\ which \in {"asks", "times", "day", "trail", "offices", "month", "pay", "team"}
  /\ Init
  /\ Times!Init
  /\ which # "times" => times = [a \in Asks |-> Times!NoAsk]
  /\ Day!DayInit
  /\ Trail!TrailInit
  /\ Places!OfficesInit
  /\ Month!MonthInit
  /\ which # "month" => today = CHOOSE d \in Person.touched : TRUE
  /\ Pay!PayInit
  /\ Team!TeamInit
  /\ work \in Crew.starts
  /\ which # "team" => work = [p \in Crew.staff |-> "none"]

\* Bounds.  Leave of two people never clashes: who asks for days is odd.  Two fixes are
\* stored, and once a batch has died unmarked batches come one at a time.  Requests, restarts
\* and ticks at once are three together.
AsksBound ==
  /\ \A a \in Asks : IsDayAsk(a) => asks[a].user = odd
  /\ \A h \in Handlers : handlers[h].pc = "file" => handlers[h].ask.user = odd

TrailBound ==
  /\ Cardinality(UNION {pings[d] : d \in Trail!Days}) <= 2
  /\ unmarked # Trail!Never => Cardinality({b \in Handlers : batch[b].pc # "none"}) <= 1

DayBound == asked + restarts + Cardinality({t \in Asks : tick[t].phase # "idle"}) <= 3

DaysNext ==
  \/ which = "asks" /\ Next /\ AsksBound'
     /\ UNCHANGED <<which, timeVars, dayVars, trailVars, officeVars, monthVars, payVars, teamVars>>
  \/ which = "times" /\ Times!Next
     /\ UNCHANGED <<which, vars, dayVars, trailVars, officeVars, monthVars, payVars, teamVars>>
  \/ which = "day" /\ Day!DayNext /\ DayBound'
     /\ UNCHANGED <<which, vars, timeVars, trailVars, officeVars, monthVars, payVars, teamVars>>
  \/ which = "trail" /\ Trail!TrailNext /\ TrailBound'
     /\ UNCHANGED <<which, vars, timeVars, dayVars, officeVars, monthVars, payVars, teamVars>>
  \/ which = "offices" /\ Places!OfficesNext
     /\ UNCHANGED <<which, vars, timeVars, dayVars, trailVars, monthVars, payVars, teamVars>>
  \/ which = "month" /\ Month!MonthNext
     /\ UNCHANGED <<which, vars, timeVars, dayVars, trailVars, officeVars, payVars, teamVars>>
  \/ which = "pay" /\ Pay!PayNext
     /\ UNCHANGED <<which, vars, timeVars, dayVars, trailVars, officeVars, monthVars, teamVars>>
  \/ which = "team" /\ Team!TeamNext
     /\ UNCHANGED <<which, vars, timeVars, dayVars, trailVars, officeVars, monthVars, payVars>>

DaysSpec ==
  DaysInit /\ [][DaysNext]_<<which, vars, timeVars, dayVars, trailVars, officeVars, monthVars, payVars, teamVars>>

MCOffByRule == [u \in Users |-> IF u = odd THEN {1} ELSE {2}]
MCNight     == [end |-> 3, stamp |-> 1, report |-> 2, from |-> 1]
MCPerson    ==
  [monthLength |-> 8, months |-> 2, policy |-> [days |-> {0}, saturdays |-> "odd"],
   joined |-> 0, left |-> 14, holiday |-> [d \in 1..16 |-> IF d = 4 THEN "closed" ELSE "none"],
   opening |-> [halves |-> 3, asOf |-> 1], touched |-> {8, 11}, changes |-> 2, firstWeekday |-> 6,
   shiftStart |-> 1, grace |-> 0, accrual |-> 5, accrualFrom |-> 1, labelMonths |-> 24]
\* Two loans, one of them with an end and one partly repaid and waived.
MCWages     ==
  [lastMonth |-> 3, february |-> 2, calendar |-> 3, tds |-> 1,
   salary |-> [basic |-> 7, hra |-> 3, other |-> 3], pt |-> [mode |-> "auto", manual |-> 0],
   ladder |-> << [upTo |-> 5, monthly |-> 0, feb |-> 0], [upTo |-> 0, monthly |-> 2, feb |-> 3] >>,
   loans |-> {"loan", "advance"},
   terms |-> [loan |-> [principal |-> 8, waived |-> 1, instalment |-> 3, opening |-> 1, start |-> 1, end |-> 0],
              advance |-> [principal |-> 6, waived |-> 0, instalment |-> 4, opening |-> 0, start |-> 2, end |-> 2]]]
\* An employee of Nairobi, who may be working in Mumbai; a branch manager of both; a director.
MCCrew      ==
  [staff |-> {"kim", "mgr", "dir"}, level |-> [kim |-> 5, mgr |-> 3, dir |-> 1], hidden |-> {"dir"},
   crm |-> [kim |-> <<"nbo">>, mgr |-> <<"mum", "nbo">>, dir |-> << >>],
   branches |-> {"mum", "nbo"}, code |-> [mum |-> "MUM", nbo |-> "NBO"],
   city |-> [mum |-> "mumbai", nbo |-> "nairobi"], channels |-> {"BOM", "NBO"}, behind |-> {"NBO"},
   wfh |-> {<<"mgr", 0>>}, slots |-> 4, punches |-> 1, moves |-> 1,
   starts |-> {[kim |-> b, mgr |-> "none", dir |-> "none"] : b \in {"none", "mum"}}]
MCSymmetry  == Permutations(Asks) \cup Permutations(Handlers)

-----------------------------------------------------------------------------
\* One correction waits for a day, signed in order, the queue says truly on whom, and the
\* record shows approved ones only, unless something overtook them.
CorrectionsHold ==
  which = "times" =>
    /\ Times!TypeOK
    /\ Times!OneWaitingUnlessRace
    /\ Times!RecordUnlessOvertaken
    /\ Times!ApprovedReachesRecord
    /\ Times!SignedInOrderUnlessOvertaken
    /\ Times!QueueNamesNextLevel

\* The first punch of a day stays, what its row says fits together, and the nightly
\* report is posted once, of days that are closed.
DayHolds ==
  which = "day" =>
    /\ Day!DayTypeOK
    /\ Day!FirstInStaysUnlessCrossed
    /\ Day!DayHoldsTogetherUnlessCrossed
    /\ Day!OneReportOfClosedDays

\* A trail stays within the hours on duty, its marker is its newest ping and on it; a branch has
\* one default office, and a working branch wins over an office elsewhere.
PlacesHold ==
  /\ which = "trail" =>
       /\ Trail!TrailTypeOK
       /\ Trail!TrailStaysOnDutyUnlessCrossed
       /\ Trail!MarkerIsNewestUnlessUnmarked
       /\ Trail!LiveIsOnOneTrail
  /\ which = "offices" =>
       /\ Places!OfficesTypeOK
       /\ Places!OneDefaultUnlessRaced
       /\ Places!WorkBranchWinsUnlessCrossed

\* Lines and summaries of one person are in one channel and agree, and a team view
\* shows whom its viewer oversees.
TeamHolds ==
  which = "team" =>
    /\ Team!TeamTypeOK
    /\ Team!OneChannelUnlessMoved
    /\ Team!OneSummaryEachUnlessMoved
    /\ Team!WhoCameIsNotAbsent
    /\ Team!HomeIsNotAbsentUnlessBlind
    /\ Team!ViewIsOfOverseenUnlessMoved

\* A leave day is charged once, the balance is the ledger and blank days are paid; a
\* loan's schedule agrees with the payslips, and a payslip foots.
MonthAndPayHold ==
  /\ which = "month" => /\ Month!MonthTypeOK
                        /\ Month!ChargedOnceUnlessMarkedAbsent
                        /\ Month!BalanceIsTheLedger
                        /\ Month!BlankDaysArePaid
  /\ which = "pay" => /\ Pay!PayTypeOK
                      /\ Pay!ScheduleFollowsPayslipsUnlessDisturbed
                      /\ Pay!NeverOverRecovered
                      /\ Pay!SlipFoots

\* A past day keeps its label but for what concerns that day or the first punch.
PastKeepsItsLabels == [][which = "month" => Month!KeepsLabels]_<<which, monthVars>>
=============================================================================
