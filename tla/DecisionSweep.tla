--------------------------- MODULE DecisionSweep ---------------------------
(***************************************************************************)
(* Telling people what became of their HR asks                             *)
(* (src/src/mongo/hr/leaveDecision.sweep.ts).                              *)
(*                                                                         *)
(* A sweep loads a cursor, reads the rows decided after it, alerts the     *)
(* people concerned one at a time and saves the cursor.  A timer starts    *)
(* one every minute, a decision made in the app starts another, and        *)
(* nothing keeps two from running at once.  A row's decidedAt is taken     *)
(* before it is written, so a row may become visible after a sweep that    *)
(* looked past its time.                                                   *)
(***************************************************************************)
EXTENDS Naturals, FiniteSets

CONSTANTS
  Rows,       \* rows of hr_leave_applications that get decided
  MaxTime,    \* bound on the clock of decidedAt
  Limit,      \* rows a sweep reads at most
  Sweeps,     \* sweeps that may run at once
  MaxFaults   \* bound on restarts and failed database calls

ASSUME SweepConstants == MaxTime \in Nat \ {0} /\ Limit \in Nat \ {0} /\ MaxFaults \in Nat

VARIABLES
  clock,      \* milliseconds, as decidedAt tells them apart
  rows,       \* what became of each row
  cursor,     \* hr_sweep_state: one row, or none before the first save
  sweeps,     \* what each sweep is about to do
  told,       \* by row and person, what became of the alert
  passed,     \* history: rows that a sweep has looked past without reading them
  disturbed,  \* history: whether two sweeps have overlapped or one was cut short
  faults      \* faults so far

vars == <<clock, rows, cursor, sweeps, told, passed, disturbed, faults>>

Times    == 0..MaxTime
NoRow    == [state |-> "open"]
Idle     == [pc |-> "idle"]

\* How a row ended and who is concerned: a decision that only the applicant hears
\* of (on leave, work from home or times, or a swap the partner declined), HR's
\* decision on a swap, or a withdrawal.
Outcomes == {"decided", "swapDecided", "cancelled"}
Concerned   == {"applicant", "partner"}

Row == [state : {"stamped", "landed"}, stamp : Times, outcome : Outcomes]

Alert == Rows \X Concerned

\* An alert that only ever failed is lost; one recorded again is not counted on.
Fates == {"none", "lost", "once", "again"}

Sweep ==
  [pc : {"read"}, since : Times]
  \cup [pc : {"tell"}, since : Times, latest : Times, left : SUBSET Alert]

TypeOK ==
  /\ clock \in Times
  /\ rows \in [Rows -> {NoRow} \cup Row]
  /\ cursor \in {{}} \cup {{t} : t \in Times}
  /\ sweeps \in [Sweeps -> {Idle} \cup Sweep]
  /\ told \in [Alert -> Fates]
  /\ passed \subseteq Rows
  /\ disturbed \in BOOLEAN
  /\ faults \in 0..MaxFaults

Init ==
  /\ clock = 1
  /\ rows = [r \in Rows |-> NoRow]
  /\ cursor = {}
  /\ sweeps = [s \in Sweeps |-> Idle]
  /\ told = [a \in Alert |-> "none"]
  /\ passed = {}
  /\ disturbed = FALSE
  /\ faults = 0

Landed(r) == rows[r].state = "landed"
Goto(s, next) == sweeps' = [sweeps EXCEPT ![s] = next]

-----------------------------------------------------------------------------
(* Decisions, made in the app or on the ERP. *)

Tick ==
  /\ clock < MaxTime
  /\ clock' = clock + 1
  /\ UNCHANGED <<rows, cursor, sweeps, told, passed, disturbed, faults>>

\* decidedAt is taken ...
Stamp(r, outcome) ==
  /\ rows[r] = NoRow
  /\ rows' = [rows EXCEPT ![r] = [state |-> "stamped", stamp |-> clock, outcome |-> outcome]]
  /\ UNCHANGED <<clock, cursor, sweeps, told, passed, disturbed, faults>>

\* What a sweep, or the cursor one has left, no longer asks for.
LookedPast(stamp) ==
  \/ \E t \in cursor : stamp <= t
  \/ \E s \in Sweeps :
       \/ sweeps[s].pc = "read" /\ stamp <= sweeps[s].since
       \/ sweeps[s].pc = "tell" /\ stamp <= sweeps[s].latest

\* ... and the row is written some awaits later.
Land(r) ==
  /\ rows[r].state = "stamped"
  /\ rows' = [rows EXCEPT ![r].state = "landed"]
  /\ passed' = IF LookedPast(rows[r].stamp) THEN passed \cup {r} ELSE passed
  /\ UNCHANGED <<clock, cursor, sweeps, told, disturbed, faults>>

-----------------------------------------------------------------------------
(* One sweep. *)

\* Without a saved cursor a sweep looks a day back: the model's whole history.
Since == IF cursor = {} THEN 0 ELSE CHOOSE t \in cursor : TRUE

LoadCursor(s) ==
  /\ sweeps[s] = Idle
  /\ Goto(s, [pc |-> "read", since |-> Since])
  /\ disturbed' = (disturbed \/ \E t \in Sweeps : sweeps[t] # Idle)
  /\ UNCHANGED <<clock, rows, cursor, told, passed, faults>>

\* Regression: the cursor's own row is read again.
DecidedSinceInclusive(since) ==
  {r \in Rows : Landed(r) /\ rows[r].outcome # "cancelled" /\ rows[r].stamp >= since}

\* Regression: the query is for leave only, as the leave trail's is.
DecidedSinceLeaveOnly(since) ==
  {r \in Rows : Landed(r) /\ rows[r].outcome = "decided" /\ rows[r].stamp > since}

DecidedSince(since) ==
  {r \in Rows : Landed(r) /\ rows[r].outcome # "cancelled" /\ rows[r].stamp > since}

\* The first rows in the order of decidedAt; rows of one millisecond come in any.
FirstRows(found) ==
  {batch \in SUBSET found :
     /\ Cardinality(batch) = IF Cardinality(found) < Limit THEN Cardinality(found) ELSE Limit
     /\ \A r \in batch, q \in found \ batch : rows[r].stamp <= rows[q].stamp}

\* decisionAlerts: the applicant, and a swap's partner unless they declined it.
Alerts(r) ==
  {<<r, p>> : p \in IF rows[r].outcome = "swapDecided" THEN Concerned ELSE {"applicant"}}

ReadRows(s) ==
  /\ sweeps[s].pc = "read"
  /\ LET since == sweeps[s].since
         found == DecidedSince(since)
     IN \/ found = {} /\ Goto(s, Idle) /\ UNCHANGED passed
        \/ \E batch \in FirstRows(found) : \E last \in batch :
             LET latest == rows[last].stamp IN
             /\ \A r \in batch : rows[r].stamp <= latest
             /\ Goto(s, [pc |-> "tell", since |-> since, latest |-> latest,
                         left |-> UNION {Alerts(r) : r \in batch}])
             /\ passed' = passed \cup {r \in found \ batch : rows[r].stamp <= latest}
  /\ UNCHANGED <<clock, rows, cursor, told, disturbed, faults>>

\* In the order of the rows, and of one row the applicant first.
NoLater(a, b) ==
  /\ rows[a[1]].stamp <= rows[b[1]].stamp
  /\ a[1] = b[1] /\ a # b => a[2] = "applicant"

\* Recorded, or failed, logged and not tried again.
Tell(s) ==
  LET w == sweeps[s] IN
  /\ w.pc = "tell"
  /\ \E a \in w.left :
       /\ \A b \in w.left : NoLater(a, b)
       /\ Goto(s, [w EXCEPT !.left = @ \ {a}])
       /\ \/ told' = [told EXCEPT ![a] = IF @ \in {"none", "lost"} THEN "once" ELSE "again"]
          \/ told' = [told EXCEPT ![a] = IF @ = "none" THEN "lost" ELSE @]
  /\ UNCHANGED <<clock, rows, cursor, passed, disturbed, faults>>

\* Regression: the cursor is saved before the alerts are recorded.
SaveCursorFirst(s) ==
  LET w == sweeps[s] IN
  /\ w.pc = "tell"
  /\ IF w.left = {} THEN Goto(s, Idle) /\ UNCHANGED cursor
     ELSE cursor' = {w.latest} /\ UNCHANGED sweeps
  /\ UNCHANGED <<clock, rows, told, passed, disturbed, faults>>

\* The write does not ask whether another sweep has moved the cursor further.
SaveCursor(s) ==
  LET w == sweeps[s] IN
  /\ w.pc = "tell"
  /\ w.left = {}
  /\ cursor' = {w.latest}
  /\ Goto(s, Idle)
  /\ UNCHANGED <<clock, rows, told, passed, disturbed, faults>>

\* The process restarts; the cursor is in the database.
Crash ==
  /\ faults < MaxFaults
  /\ faults' = faults + 1
  /\ sweeps' = [s \in Sweeps |-> Idle]
  /\ disturbed' = (disturbed \/ \E s \in Sweeps : sweeps[s] # Idle)
  /\ UNCHANGED <<clock, rows, cursor, told, passed>>

\* Loading, reading or saving throws: whoever started the sweep swallows it.
Abort(s) ==
  /\ faults < MaxFaults
  /\ sweeps[s] # Idle
  /\ sweeps[s].pc = "tell" => sweeps[s].left = {}
  /\ faults' = faults + 1
  /\ Goto(s, Idle)
  /\ disturbed' = TRUE
  /\ UNCHANGED <<clock, rows, cursor, told, passed>>

-----------------------------------------------------------------------------
Run(s) == LoadCursor(s) \/ ReadRows(s) \/ Tell(s) \/ SaveCursor(s)

Next ==
  \/ Tick
  \/ \E r \in Rows, outcome \in Outcomes : Stamp(r, outcome)
  \/ \E r \in Rows : Land(r)
  \/ \E s \in Sweeps : Run(s)
  \/ Crash
  \/ \E s \in Sweeps : Abort(s)

Spec == Init /\ [][Next]_vars

\* The timer keeps starting sweeps, and a sweep that runs comes to its end.
FairSpec == Spec /\ \A s \in Sweeps : WF_vars(Run(s))

-----------------------------------------------------------------------------
(* Properties. *)

\* Whom a row concerns, once it is decided.
Hears(r) ==
  IF Landed(r) /\ rows[r].outcome # "cancelled" THEN Alerts(r) ELSE {}

\* Only people concerned by a decision hear of it, once it is on the row:
\* nobody of a withdrawal, a partner not of the swap they declined themselves.
OnlyOfDecisions ==
  \A a \in Alert : told[a] # "none" => a \in Hears(a[1])

\* Nobody is told twice, unless two sweeps have overlapped or a restart has cut
\* one short.
ToldOnceUnlessDisturbed == \A a \in Alert : told[a] = "again" => disturbed

\* The cursor never leaves anybody behind: once it is at or past a decision,
\* whoever it concerns was told or their alert failed, unless the row came to
\* light too late, or was cut off by the limit among rows of its own millisecond.
CursorLeavesNobody ==
  \A t \in cursor : \A r \in Rows \ passed :
    Landed(r) /\ rows[r].stamp <= t =>
      \A a \in Hears(r) : told[a] # "none"

\* Everybody hears in the end: however sweeps overlap and move the cursor back, there
\* comes a time again when every decision that was not looked past is told, or its
\* alert failed.
EverybodyHears ==
  []<>(\A r \in Rows : Landed(r) => r \in passed \/ \A a \in Hears(r) : told[a] # "none")
=============================================================================
