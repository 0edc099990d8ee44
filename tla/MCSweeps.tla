------------------------------ MODULE MCSweeps ------------------------------
(***************************************************************************)
(* What goes looking for news on a clock of its own: the sweep that tells  *)
(* people what became of their asks, the one that pushes reminders when    *)
(* they fall due, and the feed a device catches up from.  They share no    *)
(* state, so a behaviour follows one of them, and the others rest as they  *)
(* began.  What they keep is proved for any rows, limits, people,          *)
(* reminders, pages and number of sweeps at once.                          *)
(***************************************************************************)
EXTENDS DecisionSweep, FiniteSetTheorems, TLAPS

CONSTANTS
  People, Managers, Slots, Asks, MaxAsks,                    \* Reminders
  MaxId, MaxStamp, MaxEdits, Writers, Limits, Cap    \* ChatFeed

ASSUME ReminderConstants == MaxAsks \in Nat

ASSUME FeedConstants ==
  /\ MaxId \in Nat /\ MaxStamp \in Nat \ {0} /\ MaxEdits \in Nat
  /\ Limits \subseteq Nat /\ Cap \in Nat \ {0}

VARIABLES
  which,                                                     \* what is followed
  time, rem, ask, sweep, stamped, made, pushed, doneBy,      \* Reminders
  overtaken, cut,
  now, docs, writes, mark, have, more, late                  \* ChatFeed

Reminding == INSTANCE Reminders
Feed      == INSTANCE ChatFeed

reminders == <<time, rem, ask, sweep, stamped, made, pushed, doneBy, overtaken, cut>>
feed      == <<now, docs, writes, mark, have, more, late>>
all       == <<which, vars, reminders, feed>>

OfDecisions(A) == which = "decisions" /\ A /\ UNCHANGED <<which, reminders, feed>>
OfReminders(A) == which = "reminders" /\ A /\ UNCHANGED <<which, vars, feed>>
OfFeed(A)      == which = "feed" /\ A /\ UNCHANGED <<which, vars, reminders>>

SweepsInit ==
  /\ which \in {"decisions", "reminders", "feed"}
  /\ Init /\ Reminding!ReminderInit /\ Feed!FeedInit

SweepsNext ==
  OfDecisions(Next) \/ OfReminders(Reminding!ReminderNext) \/ OfFeed(Feed!FeedNext)

\* The fairness of FairSpec, FairReminderSpec and FairFeedSpec, each for the behaviours
\* that follow its component.
SweepsSpec ==
  /\ SweepsInit /\ [][SweepsNext]_all
  /\ \A s \in Sweeps :
       /\ WF_all(OfDecisions(Run(s)) \/ OfReminders(Reminding!Proceeds(s)))
       /\ SF_all(OfReminders(Reminding!Stamp(s)))
  /\ WF_all(OfFeed(\E limit \in Limits : Feed!SyncSince(limit)))
  /\ WF_all(OfFeed(Feed!Reconnect))

-----------------------------------------------------------------------------
\* Reminders are well formed; one marked as pushed was pushed for its time and to its person, or is about
\* to be, unless it was overtaken or the push was cut off, and what awaits review was completed by the
\* person it is for, unless it was overtaken.
RemindersHold ==
  /\ Reminding!ReminderTypeOK
  /\ Reminding!NotifiedMeansPushedUnlessOvertakenOrCut
  /\ Reminding!ReviewedWorkIsTheirsUnlessOvertaken

\* A reminder that is due does not stay unnoticed.
DueIsNoticed == Reminding!DueIsNoticed

\* The feed leaves no change behind, unless it came to light behind the watermark.
FeedSkipsNothingUnlessLate == Feed!FeedTypeOK /\ Feed!FeedSkipsNothingUnlessLate

\* A device that keeps asking comes to have every change, but for those that came too late.
FeedCatchesUp == Feed!FeedCatchesUp

-----------------------------------------------------------------------------
(* The HR decision sweep: types. *)

\* What a row can be, and what a sweep at each point carries.
LEMMA RowKinds ==
  ASSUME TypeOK, NEW r \in Rows
  PROVE  /\ rows[r] = NoRow \/ rows[r] \in Row
         /\ rows[r] = NoRow => rows[r].state = "open"
         /\ rows[r].state = "landed" => rows[r] \in Row
         /\ rows[r].state = "stamped" => rows[r] \in Row
         /\ rows[r] \in Row => rows[r].stamp \in Nat /\ rows[r].stamp \in Times
BY SweepConstants DEF TypeOK, NoRow, Row, Times

LEMMA SweepKinds ==
  ASSUME TypeOK, NEW s \in Sweeps
  PROVE  /\ sweeps[s] = Idle \/ sweeps[s].pc = "read" \/ sweeps[s].pc = "tell"
         /\ sweeps[s] = Idle => sweeps[s].pc = "idle"
         /\ sweeps[s].pc = "read" =>
              sweeps[s] \in [pc : {"read"}, since : Times] /\ sweeps[s].since \in Nat
         /\ sweeps[s].pc = "tell" =>
              /\ sweeps[s] \in [pc : {"tell"}, since : Times, latest : Times, left : SUBSET Alert]
              /\ sweeps[s].latest \in Nat
BY SweepConstants DEF TypeOK, Idle, Sweep, Times

\* The cursor is one time or none, and Since is that time.
LEMMA CursorKinds ==
  ASSUME TypeOK
  PROVE  /\ cursor = {} \/ \E t \in Times : cursor = {t}
         /\ Since \in Times
         /\ \A t \in cursor : t = Since /\ t \in Nat
BY SweepConstants DEF TypeOK, Since, Times

\* Alerts are of the row they are about.
LEMMA AlertsOfRow ==
  ASSUME NEW r \in Rows, NEW a \in Alerts(r)
  PROVE  a \in Alert /\ a[1] = r
BY DEF Alerts, Alert, Concerned

LEMMA AlertIsOfARow == \A a \in Alert : a[1] \in Rows
BY DEF Alert

\* A sweep that moves on leaves the other sweeps where they are.
LEMMA GotoOther ==
  ASSUME TypeOK, NEW s \in Sweeps, NEW next, Goto(s, next)
  PROVE  /\ sweeps'[s] = next
         /\ \A t \in Sweeps \ {s} : sweeps'[t] = sweeps[t]
         /\ DOMAIN sweeps' = Sweeps
         /\ sweeps' = [t \in Sweeps |-> IF t = s THEN next ELSE sweeps[t]]
BY DEF TypeOK, Goto

LEMMA GotoType ==
  ASSUME TypeOK, NEW s \in Sweeps, NEW next \in {Idle} \cup Sweep, Goto(s, next)
  PROVE  sweeps' \in [Sweeps -> {Idle} \cup Sweep]
BY DEF TypeOK, Goto

LEMMA SweepTypes ==
  ASSUME TypeOK, [Next]_vars
  PROVE  TypeOK'
<1> USE SweepConstants DEF TypeOK
<1>1. CASE Tick
  BY <1>1 DEF Tick, Times
<1>2. ASSUME NEW r \in Rows, NEW outcome \in Outcomes, Stamp(r, outcome)
      PROVE  TypeOK'
  <2>1. [state |-> "stamped", stamp |-> clock, outcome |-> outcome] \in Row
    BY <1>2 DEF Row
  <2> QED BY <1>2, <2>1 DEF Stamp
<1>3. ASSUME NEW r \in Rows, Land(r)
      PROVE  TypeOK'
  <2>1. [rows[r] EXCEPT !.state = "landed"] \in Row
    BY <1>3, RowKinds DEF Land, Row
  <2>2. rows' \in [Rows -> {NoRow} \cup Row]
    BY <1>3, <2>1 DEF Land
  <2> QED BY <1>3, <2>2 DEF Land
<1>4. ASSUME NEW s \in Sweeps, LoadCursor(s)
      PROVE  TypeOK'
  <2>1. [pc |-> "read", since |-> Since] \in Sweep
    BY CursorKinds DEF Sweep
  <2>2. sweeps' \in [Sweeps -> {Idle} \cup Sweep]
    BY <1>4, <2>1, GotoType DEF LoadCursor
  <2> QED BY <1>4, <2>2 DEF LoadCursor
<1>5. ASSUME NEW s \in Sweeps, ReadRows(s)
      PROVE  TypeOK'
  <2>1. CASE Goto(s, Idle) /\ UNCHANGED passed
    BY <1>5, <2>1, GotoType DEF ReadRows
  <2>2. ASSUME NEW batch \in FirstRows(DecidedSince(sweeps[s].since)), NEW last \in batch,
               Goto(s, [pc |-> "tell", since |-> sweeps[s].since, latest |-> rows[last].stamp,
                        left |-> UNION {Alerts(r) : r \in batch}]),
               passed' = passed \cup {r \in DecidedSince(sweeps[s].since) \ batch :
                                        rows[r].stamp <= rows[last].stamp}
        PROVE  TypeOK'
    <3>1. batch \subseteq Rows /\ Landed(last)
      BY <2>2 DEF FirstRows, DecidedSince
    <3>2. UNION {Alerts(r) : r \in batch} \subseteq Alert
      BY <3>1, AlertsOfRow
    <3>3. rows[last].stamp \in Times
      BY <2>2, <3>1, RowKinds DEF Landed
    <3>4. sweeps[s].since \in Times
      BY <1>5, SweepKinds DEF ReadRows
    <3>5. [pc |-> "tell", since |-> sweeps[s].since, latest |-> rows[last].stamp,
           left |-> UNION {Alerts(r) : r \in batch}] \in Sweep
      BY <3>2, <3>3, <3>4 DEF Sweep
    <3>6. sweeps' \in [Sweeps -> {Idle} \cup Sweep]
      BY <2>2, <3>5, GotoType
    <3>7. passed' \subseteq Rows
      BY <2>2 DEF DecidedSince
    <3> QED BY <1>5, <3>6, <3>7 DEF ReadRows
  <2> QED BY <1>5, <2>1, <2>2 DEF ReadRows
<1>6. ASSUME NEW s \in Sweeps, Tell(s)
      PROVE  TypeOK'
  <2>1. PICK a \in sweeps[s].left :
          /\ Goto(s, [sweeps[s] EXCEPT !.left = @ \ {a}])
          /\ \/ told' = [told EXCEPT ![a] = IF @ \in {"none", "lost"} THEN "once" ELSE "again"]
             \/ told' = [told EXCEPT ![a] = IF @ = "none" THEN "lost" ELSE @]
    BY <1>6 DEF Tell
  <2>2. [sweeps[s] EXCEPT !.left = @ \ {a}] \in Sweep
    BY <1>6, SweepKinds DEF Tell, Sweep
  <2>3. sweeps' \in [Sweeps -> {Idle} \cup Sweep]
    BY <2>1, <2>2, GotoType
  <2>4. told' \in [Alert -> Fates]
    BY <2>1 DEF Fates
  <2> QED BY <1>6, <2>3, <2>4 DEF Tell
<1>7. ASSUME NEW s \in Sweeps, SaveCursor(s)
      PROVE  TypeOK'
  <2>1. sweeps' \in [Sweeps -> {Idle} \cup Sweep]
    BY <1>7, GotoType DEF SaveCursor
  <2>2. sweeps[s].latest \in Times
    BY <1>7, SweepKinds DEF SaveCursor
  <2> QED BY <1>7, <2>1, <2>2 DEF SaveCursor
<1>8. CASE Crash
  BY <1>8 DEF Crash
<1>9. ASSUME NEW s \in Sweeps, Abort(s)
      PROVE  TypeOK'
  <2>1. sweeps' \in [Sweeps -> {Idle} \cup Sweep]
    BY <1>9, GotoType DEF Abort
  <2> QED BY <1>9, <2>1 DEF Abort
<1>10. CASE UNCHANGED vars
  BY <1>10 DEF vars
<1> QED BY <1>1, <1>2, <1>3, <1>4, <1>5, <1>6, <1>7, <1>8, <1>9, <1>10 DEF Next, Run
LEMMA SweepTypesStart == Init => TypeOK
<1> SUFFICES ASSUME Init PROVE TypeOK
  OBVIOUS
<1>1. clock \in Times /\ faults \in 0..MaxFaults
  BY SweepConstants DEF Init, Times
<1>2. cursor \in {{}} \cup {{t} : t \in Times}
  BY DEF Init
<1>3. /\ rows \in [Rows -> {NoRow} \cup Row] /\ sweeps \in [Sweeps -> {Idle} \cup Sweep]
      /\ told \in [Alert -> Fates] /\ passed \subseteq Rows /\ disturbed \in BOOLEAN
  BY DEF Init, Fates
<1> QED BY <1>1, <1>2, <1>3 DEF TypeOK

\* The rows and alerts of a behaviour are well typed at every step (DecisionSweep).
THEOREM TypeCorrect == Spec => []TypeOK
<1>1. Init => TypeOK
  BY SweepTypesStart
<1>2. TypeOK /\ [Next]_vars => TypeOK'
  BY SweepTypes
<1> QED BY <1>1, <1>2, PTL DEF Spec

-----------------------------------------------------------------------------
(* What the sweep keeps. *)

\* Decisions are stamped after the beginning of time, where a sweep without a cursor
\* looks from.
StampedLater ==
  /\ clock # 0
  /\ \A r \in Rows : rows[r] # NoRow => rows[r].stamp # 0

\* What a sweep has yet to tell is of decisions it has read, no later than its latest.
LeftIsConcerned ==
  \A s \in Sweeps : sweeps[s].pc = "tell" =>
    \A a \in sweeps[s].left : a \in Hears(a[1]) /\ rows[a[1]].stamp <= sweeps[s].latest

\* Once a cursor, or what a sweep started from, is at or past a decision, those it concerns
\* have heard; once a sweep has read past it, they have heard or are about to.
BehindIsTold ==
  \A r \in Rows \ passed : \A a \in Hears(r) :
    /\ \A t \in cursor : rows[r].stamp <= t => told[a] # "none"
    /\ \A s \in Sweeps :
         /\ sweeps[s].pc = "read" /\ rows[r].stamp <= sweeps[s].since => told[a] # "none"
         /\ sweeps[s].pc = "tell" /\ rows[r].stamp <= sweeps[s].latest =>
              told[a] # "none" \/ a \in sweeps[s].left

\* As long as nothing has disturbed the sweeps, one runs at a time, from the cursor
\* forward, with alerts nobody has had yet.
OneSweepAhead ==
  \A s \in Sweeps :
    /\ sweeps[s] # Idle => \A t \in Sweeps : sweeps[t] # Idle => s = t
    /\ sweeps[s].pc = "read" => sweeps[s].since = Since
    /\ sweeps[s].pc = "tell" =>
         /\ \A t \in cursor : t <= sweeps[s].latest
         /\ \A a \in sweeps[s].left : told[a] = "none"

\* And whoever was told stands behind the cursor, or behind the sweep that told them.
ToldIsBehind ==
  \A a \in Alert : told[a] # "none" =>
    \/ \E t \in cursor : rows[a[1]].stamp <= t
    \/ \E s \in Sweeps : /\ sweeps[s].pc = "tell"
                        /\ rows[a[1]].stamp <= sweeps[s].latest
                        /\ a \notin sweeps[s].left

Undisturbed == ~disturbed => OneSweepAhead /\ ToldIsBehind

SweepInv ==
  /\ TypeOK
  /\ StampedLater
  /\ LeftIsConcerned
  /\ OnlyOfDecisions
  /\ BehindIsTold
  /\ Undisturbed
  /\ ToldOnceUnlessDisturbed
\* A decision that is on its row stays there as it is, and concerns whom it concerned.
LEMMA LandedStays ==
  ASSUME TypeOK, [Next]_vars, NEW r \in Rows, Landed(r)
  PROVE  rows'[r] = rows[r] /\ Hears(r)' = Hears(r)
<1>1. rows'[r] = rows[r]
  BY RowKinds DEF Next, Run, vars, Tick, Stamp, Land, LoadCursor, ReadRows, Tell, SaveCursor, Crash,
     Abort, Landed, TypeOK, NoRow
<1> QED BY <1>1 DEF Hears, Landed, Alerts

\* Only the landing of a row makes anybody concerned.
LEMMA HearsOfLanded ==
  ASSUME NEW r \in Rows, NEW a \in Hears(r)
  PROVE  Landed(r) /\ a \in Alert /\ a[1] = r /\ a \in Alerts(r) /\ rows[r].outcome # "cancelled"
BY AlertsOfRow DEF Hears

LEMMA SweepInvStart == Init => SweepInv
<1> SUFFICES ASSUME Init PROVE SweepInv
  OBVIOUS
<1>1. TypeOK
  BY SweepTypesStart
<1>2. \A r \in Rows : rows[r] = NoRow /\ ~Landed(r) /\ Hears(r) = {}
  BY DEF Init, Landed, NoRow, Hears
<1>3. \A s \in Sweeps : sweeps[s] = Idle /\ sweeps[s].pc = "idle"
  BY DEF Init, Idle
<1>4. \A a \in Alert : told[a] = "none"
  BY DEF Init
<1> QED BY <1>1, <1>2, <1>3, <1>4, SweepConstants DEF Init, SweepInv, StampedLater, LeftIsConcerned,
        OnlyOfDecisions, BehindIsTold, Undisturbed, OneSweepAhead, ToldIsBehind, ToldOnceUnlessDisturbed

\* Time passes.
LEMMA SweepInvTick == ASSUME SweepInv, Tick PROVE SweepInv'
<1>1. TypeOK'
  BY SweepTypes DEF SweepInv, Next
<1>2. \A r \in Rows : Hears(r)' = Hears(r)
  BY DEF Tick, Hears, Landed, Alerts
<1>3. StampedLater'
  BY SweepConstants DEF Tick, SweepInv, StampedLater, TypeOK, Times
<1>4. LeftIsConcerned' /\ OnlyOfDecisions'
  BY <1>2, AlertIsOfARow, SweepKinds DEF Tick, SweepInv, LeftIsConcerned, OnlyOfDecisions
<1>6. BehindIsTold'
  BY <1>2 DEF Tick, SweepInv, BehindIsTold
<1>5. Undisturbed' /\ ToldOnceUnlessDisturbed'
  BY DEF Tick, SweepInv, Undisturbed, OneSweepAhead, ToldIsBehind, ToldOnceUnlessDisturbed, Since
<1> QED BY <1>1, <1>3, <1>4, <1>6, <1>5 DEF SweepInv

\* A decision is made.
LEMMA SweepInvStamp ==
  ASSUME SweepInv, NEW r \in Rows, NEW outcome \in Outcomes, Stamp(r, outcome)
  PROVE  SweepInv'
<1> USE DEF SweepInv
<1>1. TypeOK'
  BY SweepTypes DEF Next
<1>2. \A q \in Rows : Hears(q)' = Hears(q) /\ (Landed(q) => q # r /\ rows'[q] = rows[q])
  <2>1. rows'[r].state = "stamped" /\ rows[r].state = "open"
    BY DEF Stamp, TypeOK, NoRow
  <2>2. \A q \in Rows \ {r} : rows'[q] = rows[q]
    BY DEF Stamp, TypeOK
  <2> QED BY <2>1, <2>2 DEF Hears, Landed, Alerts
<1>3. StampedLater'
  BY DEF Stamp, StampedLater, TypeOK
<1>4. LeftIsConcerned' /\ OnlyOfDecisions'
  BY <1>2, HearsOfLanded, AlertIsOfARow, SweepKinds DEF Stamp, LeftIsConcerned, OnlyOfDecisions
<1>5. BehindIsTold'
  BY <1>2, HearsOfLanded DEF Stamp, BehindIsTold
<1>6. OneSweepAhead => OneSweepAhead'
  BY DEF Stamp, OneSweepAhead, Since
<1>7. ToldIsBehind => ToldIsBehind'
  BY <1>2, HearsOfLanded, AlertIsOfARow DEF Stamp, ToldIsBehind, OnlyOfDecisions
<1>8. Undisturbed' /\ ToldOnceUnlessDisturbed'
  BY <1>6, <1>7 DEF Stamp, Undisturbed, ToldOnceUnlessDisturbed
<1> QED BY <1>1, <1>3, <1>4, <1>5, <1>8

\* A decision comes to be on its row: a sweep or cursor beyond it has looked past it.
LEMMA SweepInvLand ==
  ASSUME SweepInv, NEW r \in Rows, Land(r)
  PROVE  SweepInv'
<1> USE DEF SweepInv
<1>1. TypeOK'
  BY SweepTypes DEF Next
<1>2. \A q \in Rows \ {r} : rows'[q] = rows[q] /\ Hears(q)' = Hears(q)
  BY DEF Land, TypeOK, Hears, Landed, Alerts
<1>3. /\ rows'[r].stamp = rows[r].stamp
      /\ ~Landed(r) /\ Hears(r) = {} /\ rows[r] # NoRow
  BY RowKinds DEF Land, Landed, Hears, TypeOK, Row, NoRow
<1>4. StampedLater'
  BY <1>2, <1>3 DEF Land, StampedLater
<1>5. LeftIsConcerned' /\ OnlyOfDecisions'
  BY <1>2, <1>3, AlertIsOfARow, SweepKinds DEF Land, LeftIsConcerned, OnlyOfDecisions
<1>6. BehindIsTold'
  <2> SUFFICES ASSUME NEW q \in Rows \ passed', NEW a \in Hears(q)'
               PROVE  (BehindIsTold!(q)!(a))'
    BY DEF BehindIsTold
  <2>1. CASE q = r
    BY <1>3, <2>1, SweepKinds, CursorKinds DEF Land, LookedPast
  <2>2. CASE q # r
    BY <1>2, <2>2 DEF Land, BehindIsTold
  <2> QED BY <2>1, <2>2
<1>7. OneSweepAhead => OneSweepAhead'
  BY DEF Land, OneSweepAhead, Since
<1>8. ToldIsBehind => ToldIsBehind'
  BY <1>2, <1>3, AlertIsOfARow DEF Land, ToldIsBehind
<1>9. Undisturbed' /\ ToldOnceUnlessDisturbed'
  BY <1>7, <1>8 DEF Land, Undisturbed, ToldOnceUnlessDisturbed
<1> QED BY <1>1, <1>4, <1>5, <1>6, <1>9
\* A sweep starts, from where the cursor stands.
LEMMA SweepInvLoadCursor ==
  ASSUME SweepInv, NEW s \in Sweeps, LoadCursor(s)
  PROVE  SweepInv'
<1> USE DEF SweepInv
<1>1. TypeOK'
  BY SweepTypes DEF Next, Run
<1>2. /\ \A r \in Rows : Hears(r)' = Hears(r)
      /\ sweeps'[s].pc = "read" /\ sweeps'[s].since = Since
      /\ \A t \in Sweeps \ {s} : sweeps'[t] = sweeps[t]
      /\ Since' = Since
  <2>1. /\ sweeps'[s] = [pc |-> "read", since |-> Since]
        /\ \A t \in Sweeps \ {s} : sweeps'[t] = sweeps[t]
    BY GotoOther DEF LoadCursor
  <2>2. Since' = Since /\ \A r \in Rows : Hears(r)' = Hears(r)
    BY DEF LoadCursor, Hears, Landed, Alerts, Since
  <2> QED BY <2>1, <2>2
<1>3. StampedLater' /\ ToldOnceUnlessDisturbed'
  BY DEF LoadCursor, StampedLater, ToldOnceUnlessDisturbed
<1>4. LeftIsConcerned' /\ OnlyOfDecisions'
  BY <1>2, AlertIsOfARow, SweepKinds DEF LoadCursor, LeftIsConcerned, OnlyOfDecisions
<1>5. BehindIsTold'
  <2> SUFFICES ASSUME NEW r \in Rows \ passed, NEW a \in Hears(r)
               PROVE  (BehindIsTold!(r)!(a))'
    BY <1>2 DEF BehindIsTold, LoadCursor
  <2>1. rows[r].stamp <= Since => told[a] # "none"
    <3>1. CASE cursor = {}
      <4>1. Since = 0 /\ rows[r].stamp \in Nat /\ rows[r].stamp # 0
        BY <3>1, RowKinds, HearsOfLanded DEF Since, StampedLater, Landed
      <4> QED BY <4>1
    <3>2. CASE \E t \in Times : cursor = {t}
      BY <3>2, CursorKinds DEF BehindIsTold
    <3> QED BY <3>1, <3>2, CursorKinds
  <2> QED BY <1>2, <2>1 DEF LoadCursor, BehindIsTold
<1>6. Undisturbed'
  <2> SUFFICES ASSUME ~disturbed' PROVE OneSweepAhead' /\ ToldIsBehind'
    BY DEF Undisturbed
  <2>1. OneSweepAhead /\ ToldIsBehind /\ \A t \in Sweeps : sweeps[t] = Idle
    BY DEF LoadCursor, Undisturbed
  <2>2. OneSweepAhead'
    BY <1>2, <2>1, SweepKinds DEF OneSweepAhead, Idle
  <2>3. ToldIsBehind'
    BY <1>2, <2>1, SweepKinds DEF LoadCursor, ToldIsBehind, Idle
  <2> QED BY <2>2, <2>3
<1> QED BY <1>1, <1>3, <1>4, <1>5, <1>6

\* A sweep saves how far it came.
LEMMA SweepInvSaveCursor ==
  ASSUME SweepInv, NEW s \in Sweeps, SaveCursor(s)
  PROVE  SweepInv'
<1> USE DEF SweepInv
<1>1. TypeOK'
  BY SweepTypes DEF Next, Run
<1>2. /\ \A r \in Rows : Hears(r)' = Hears(r)
      /\ sweeps'[s] = Idle /\ Idle.pc = "idle"
      /\ \A t \in Sweeps \ {s} : sweeps'[t] = sweeps[t]
      /\ sweeps[s].pc = "tell" /\ sweeps[s].left = {} /\ cursor' = {sweeps[s].latest}
  BY GotoOther DEF SaveCursor, Hears, Landed, Alerts, Idle
<1>3. StampedLater' /\ ToldOnceUnlessDisturbed'
  BY DEF SaveCursor, StampedLater, ToldOnceUnlessDisturbed
<1>4. LeftIsConcerned' /\ OnlyOfDecisions'
  BY <1>2, AlertIsOfARow, SweepKinds DEF SaveCursor, LeftIsConcerned, OnlyOfDecisions
<1>5. BehindIsTold'
  <2> SUFFICES ASSUME NEW r \in Rows \ passed, NEW a \in Hears(r)
               PROVE  (BehindIsTold!(r)!(a))'
    BY <1>2 DEF BehindIsTold, SaveCursor
  <2> QED BY <1>2 DEF SaveCursor, BehindIsTold
<1>6. Undisturbed'
  <2> SUFFICES ASSUME ~disturbed' PROVE OneSweepAhead' /\ ToldIsBehind'
    BY DEF Undisturbed
  <2>1. OneSweepAhead /\ ToldIsBehind
    BY DEF SaveCursor, Undisturbed
  <2>2. \A t \in Sweeps : sweeps'[t] = Idle
    BY <1>2, <2>1 DEF OneSweepAhead, Idle
  <2>3. OneSweepAhead'
    BY <1>2, <2>2 DEF OneSweepAhead
  <2>4. ToldIsBehind'
    <3> SUFFICES ASSUME NEW a \in Alert, told[a] # "none"
                 PROVE  rows[a[1]].stamp <= sweeps[s].latest
      BY <1>2 DEF SaveCursor, ToldIsBehind
    <3>1. CASE \E t \in cursor : rows[a[1]].stamp <= t
      <4>1. PICK t \in cursor : rows[a[1]].stamp <= t
        BY <3>1
      <4>2. t <= sweeps[s].latest /\ t \in Nat /\ sweeps[s].latest \in Nat
        BY <1>2, <2>1, CursorKinds, SweepKinds DEF OneSweepAhead
      <4>3. rows[a[1]].stamp \in Nat
        BY AlertIsOfARow, RowKinds, HearsOfLanded DEF OnlyOfDecisions, Landed
      <4> QED BY <4>1, <4>2, <4>3
    <3>2. CASE \E t \in Sweeps : sweeps[t].pc = "tell" /\ rows[a[1]].stamp <= sweeps[t].latest
      BY <1>2, <2>1, <3>2 DEF OneSweepAhead, Idle
    <3> QED BY <2>1, <3>1, <3>2 DEF ToldIsBehind
  <2> QED BY <2>3, <2>4
<1> QED BY <1>1, <1>3, <1>4, <1>5, <1>6

\* Sweeps are cut short, by a restart or a failed call.
LEMMA SweepInvCut ==
  ASSUME SweepInv, Crash \/ \E s \in Sweeps : Abort(s)
  PROVE  SweepInv'
<1> USE DEF SweepInv
<1>1. TypeOK'
  BY SweepTypes DEF Next
<1>2. /\ \A t \in Sweeps : sweeps'[t] = Idle \/ sweeps'[t] = sweeps[t]
      /\ Idle.pc = "idle"
      /\ ~disturbed' => ~disturbed /\ \A t \in Sweeps : sweeps[t] = Idle /\ sweeps'[t] = Idle
      /\ UNCHANGED <<clock, rows, cursor, told, passed>>
  <2>1. CASE Crash
    BY <2>1 DEF Crash, TypeOK, Idle
  <2>2. ASSUME NEW s \in Sweeps, Abort(s) PROVE <1>2!1 /\ <1>2!2 /\ <1>2!3 /\ <1>2!4
    BY <2>2, GotoOther DEF Abort, Idle
  <2> QED BY <2>1, <2>2
<1>3. /\ \A r \in Rows : Hears(r)' = Hears(r)
      /\ Since' = Since
  BY <1>2 DEF Hears, Landed, Alerts, Since
<1>4. StampedLater' /\ ToldOnceUnlessDisturbed'
  <2>1. disturbed => disturbed'
    BY DEF Crash, Abort
  <2> QED BY <1>2, <2>1 DEF StampedLater, ToldOnceUnlessDisturbed
<1>5. LeftIsConcerned' /\ OnlyOfDecisions'
  BY <1>2, <1>3, AlertIsOfARow, SweepKinds DEF LeftIsConcerned, OnlyOfDecisions
<1>6. BehindIsTold'
  BY <1>2, <1>3 DEF BehindIsTold
<1>7. Undisturbed'
  <2> SUFFICES ASSUME ~disturbed' PROVE OneSweepAhead' /\ ToldIsBehind'
    BY DEF Undisturbed
  <2>1. sweeps' = sweeps
    BY <1>2, <1>1 DEF TypeOK
  <2> QED BY <1>2, <1>3, <2>1 DEF Undisturbed, OneSweepAhead, ToldIsBehind
<1> QED BY <1>1, <1>4, <1>5, <1>6, <1>7
\* A sweep reads the decisions made since it last looked, and what it leaves out of those
\* it has looked past.
LEMMA SweepInvReadRows ==
  ASSUME SweepInv, NEW s \in Sweeps, ReadRows(s)
  PROVE  SweepInv'
<1> USE DEF SweepInv
<1> DEFINE decided == DecidedSince(sweeps[s].since)
<1>1. TypeOK'
  BY SweepTypes DEF Next, Run
<1>2. /\ UNCHANGED <<clock, rows, cursor, told, disturbed>>
      /\ \A r \in Rows : Hears(r)' = Hears(r)
      /\ sweeps[s].pc = "read"
      /\ Since' = Since
  BY DEF ReadRows, Hears, Landed, Alerts, Since
<1>3. StampedLater' /\ OnlyOfDecisions' /\ ToldOnceUnlessDisturbed'
  BY <1>2, AlertIsOfARow DEF StampedLater, OnlyOfDecisions, ToldOnceUnlessDisturbed
<1>4. CASE decided = {} /\ Goto(s, Idle) /\ UNCHANGED passed
  <2>1. /\ sweeps'[s] = Idle /\ Idle.pc = "idle"
        /\ \A t \in Sweeps \ {s} : sweeps'[t] = sweeps[t]
    BY <1>4, GotoOther DEF Idle
  <2>2. LeftIsConcerned'
    BY <1>2, <2>1, AlertIsOfARow, SweepKinds DEF LeftIsConcerned
  <2>3. BehindIsTold'
    BY <1>2, <1>4, <2>1 DEF BehindIsTold
  <2>4. OneSweepAhead => OneSweepAhead'
    BY <1>2, <2>1 DEF OneSweepAhead
  <2>5. ToldIsBehind => ToldIsBehind'
    BY <1>2, <2>1 DEF ToldIsBehind
  <2> QED BY <1>1, <1>2, <1>3, <2>2, <2>3, <2>4, <2>5 DEF Undisturbed
<1>5. ASSUME NEW batch \in FirstRows(decided), NEW last \in batch,
             \A r \in batch : rows[r].stamp <= rows[last].stamp,
             Goto(s, [pc |-> "tell", since |-> sweeps[s].since, latest |-> rows[last].stamp,
                      left |-> UNION {Alerts(r) : r \in batch}]),
             passed' = passed \cup {r \in decided \ batch : rows[r].stamp <= rows[last].stamp}
      PROVE  SweepInv'
  <2> DEFINE w == sweeps'[s]
  <2>1. /\ w = [pc |-> "tell", since |-> sweeps[s].since, latest |-> rows[last].stamp,
                 left |-> UNION {Alerts(r) : r \in batch}]
        /\ \A t \in Sweeps \ {s} : sweeps'[t] = sweeps[t]
    BY <1>5, GotoOther
  <2>2. w.pc = "tell" /\ w.latest = rows[last].stamp /\ w.left = UNION {Alerts(r) : r \in batch}
    BY <2>1
  <2>3. /\ batch \subseteq decided /\ decided \subseteq Rows
        /\ \A r \in decided : /\ Landed(r) /\ Hears(r) = Alerts(r)
                          /\ sweeps[s].since < rows[r].stamp
                          /\ rows[r].stamp \in Nat
    BY RowKinds DEF FirstRows, DecidedSince, Hears, Landed
  <2>4. \A a \in w.left : /\ a[1] \in batch /\ a \in Hears(a[1]) /\ a \in Alert
    BY <2>2, <2>3, AlertsOfRow
  <2> HIDE DEF w
  <2>5. LeftIsConcerned'
    <3> SUFFICES ASSUME NEW t \in Sweeps, sweeps'[t].pc = "tell", NEW a \in sweeps'[t].left
                 PROVE  a \in Hears(a[1])' /\ rows[a[1]].stamp <= sweeps'[t].latest
      BY <1>2 DEF LeftIsConcerned
    <3>1. CASE t = s
      BY <1>2, <1>5, <2>2, <2>3, <2>4, <3>1 DEF w
    <3>2. CASE t # s
      BY <1>2, <2>1, <3>2, AlertIsOfARow, SweepKinds DEF LeftIsConcerned
    <3> QED BY <3>1, <3>2
  <2>6. BehindIsTold'
    <3> SUFFICES ASSUME NEW r \in Rows \ passed', NEW a \in Hears(r)
                 PROVE  (BehindIsTold!(r)!(a))'
      BY <1>2 DEF BehindIsTold
    <3>1. r \notin passed
      BY <1>5
    <3>2. ASSUME rows[r].stamp <= w.latest, told[a] = "none" PROVE a \in w.left
      <4>1. ~(rows[r].stamp <= sweeps[s].since)
        BY <1>2, <3>1, <3>2 DEF BehindIsTold
      <4>2. r \in decided
        BY <4>1, HearsOfLanded, RowKinds, SweepKinds, <1>2 DEF DecidedSince, Landed
      <4>3. r \in batch
        BY <1>5, <2>2, <3>2, <4>2
      <4> QED BY <2>2, <4>3, HearsOfLanded
    <3>3. (BehindIsTold!(r)!(a)!2!(s))'
      BY <1>2, <2>2, <3>2 DEF w
    <3> QED BY <1>2, <2>1, <3>1, <3>3 DEF BehindIsTold
  <2>7. Undisturbed'
    <3> SUFFICES ASSUME ~disturbed PROVE OneSweepAhead' /\ ToldIsBehind'
      BY <1>2 DEF Undisturbed
    <3>1. OneSweepAhead /\ ToldIsBehind
      BY DEF Undisturbed
    <3>2. sweeps[s] # Idle /\ \A t \in Sweeps \ {s} : sweeps[t] = Idle /\ sweeps'[t] = Idle
      BY <1>2, <2>1, <3>1 DEF OneSweepAhead, Idle
    <3>3. \A a \in w.left : told[a] = "none"
      <4> SUFFICES ASSUME NEW a \in w.left, told[a] # "none" PROVE FALSE
        OBVIOUS
      <4>1. PICK t \in cursor : rows[a[1]].stamp <= t
        BY <1>2, <2>4, <3>1, <3>2 DEF ToldIsBehind, Idle
      <4>2. t = sweeps[s].since /\ t \in Nat
        BY <1>2, <3>1, <4>1, CursorKinds DEF OneSweepAhead
      <4> QED BY <2>3, <2>4, <4>1, <4>2
    <3>4. \A t \in cursor : t <= w.latest
      BY <1>2, <2>2, <2>3, <3>1, CursorKinds DEF OneSweepAhead
    <3>5. OneSweepAhead'
      BY <1>2, <2>2, <3>2, <3>3, <3>4 DEF OneSweepAhead, Idle, w
    <3>6. ToldIsBehind'
      BY <1>2, <3>1, <3>2 DEF ToldIsBehind, Idle
    <3> QED BY <3>5, <3>6
  <2> QED BY <1>1, <1>3, <2>5, <2>6, <2>7
<1> QED BY <1>4, <1>5 DEF ReadRows

\* A sweep tells the next of those it has left, or fails to.
LEMMA SweepInvTell ==
  ASSUME SweepInv, NEW s \in Sweeps, Tell(s)
  PROVE  SweepInv'
<1> USE DEF SweepInv
<1>1. TypeOK'
  BY SweepTypes DEF Next, Run
<1>2. PICK a \in sweeps[s].left :
        /\ Goto(s, [sweeps[s] EXCEPT !.left = @ \ {a}])
        /\ \/ told' = [told EXCEPT ![a] = IF @ \in {"none", "lost"} THEN "once" ELSE "again"]
           \/ told' = [told EXCEPT ![a] = IF @ = "none" THEN "lost" ELSE @]
  BY DEF Tell
<1>3. /\ UNCHANGED <<clock, rows, cursor, passed, disturbed>>
      /\ \A r \in Rows : Hears(r)' = Hears(r)
      /\ Since' = Since
      /\ sweeps[s].pc = "tell" /\ a \in Alert
  BY SweepKinds DEF Tell, Hears, Landed, Alerts, Since
<1>4. /\ sweeps'[s].pc = "tell" /\ sweeps'[s].latest = sweeps[s].latest
      /\ sweeps'[s].left = sweeps[s].left \ {a}
  BY <1>2, <1>3, GotoOther, SweepKinds
<1>5. \A t \in Sweeps \ {s} : sweeps'[t] = sweeps[t]
  BY <1>2, GotoOther
<1>6. /\ told'[a] # "none"
      /\ told'[a] = "again" => told[a] # "none"
      /\ \A b \in Alert \ {a} : told'[b] = told[b]
  BY <1>2, <1>3 DEF TypeOK, Fates
<1>7. StampedLater'
  BY <1>3 DEF StampedLater
<1>8. LeftIsConcerned'
  BY <1>3, <1>4, <1>5, AlertIsOfARow, SweepKinds DEF LeftIsConcerned
<1>9. OnlyOfDecisions'
  BY <1>3, <1>6, AlertIsOfARow DEF OnlyOfDecisions, LeftIsConcerned
<1>10. BehindIsTold'
  <2> SUFFICES ASSUME NEW r \in Rows \ passed, NEW b \in Hears(r)
               PROVE  (BehindIsTold!(r)!(b))'
    BY <1>3 DEF BehindIsTold
  <2>1. told[b] # "none" => told'[b] # "none"
    BY <1>6, HearsOfLanded
  <2>2. (BehindIsTold!(r)!(b)!2!(s))'
    BY <1>3, <1>4, <1>6, <2>1 DEF BehindIsTold
  <2> QED BY <1>3, <1>5, <2>1, <2>2 DEF BehindIsTold
<1>11. Undisturbed'
  <2> SUFFICES ASSUME ~disturbed PROVE OneSweepAhead' /\ ToldIsBehind'
    BY <1>3 DEF Undisturbed
  <2>1. OneSweepAhead /\ ToldIsBehind
    BY DEF Undisturbed
  <2>2. \A t \in Sweeps \ {s} : sweeps[t] = Idle /\ sweeps'[t] = Idle
    BY <1>3, <1>5, <2>1 DEF OneSweepAhead, Idle
  <2>3. OneSweepAhead'
    BY <1>3, <1>4, <1>6, <2>1, <2>2, SweepKinds DEF OneSweepAhead, Idle
  <2>4. ToldIsBehind'
    <3> SUFFICES ASSUME NEW b \in Alert, told'[b] # "none"
                 PROVE  \/ \E t \in cursor : rows[b[1]].stamp <= t
                        \/ rows[b[1]].stamp <= sweeps'[s].latest /\ b \notin sweeps'[s].left
      BY <1>3, <1>4 DEF ToldIsBehind
    <3>1. CASE b = a
      BY <1>3, <1>4, <3>1 DEF LeftIsConcerned
    <3>2. CASE b # a
      BY <1>3, <1>4, <1>6, <2>1, <2>2, <3>2 DEF ToldIsBehind, Idle
    <3> QED BY <3>1, <3>2
  <2> QED BY <2>3, <2>4
<1>12. ToldOnceUnlessDisturbed'
  BY <1>3, <1>6 DEF ToldOnceUnlessDisturbed, Undisturbed, OneSweepAhead
<1> QED BY <1>1, <1>7, <1>8, <1>9, <1>10, <1>11, <1>12

LEMMA SweepInvStep == SweepInv /\ [Next]_vars => SweepInv'
<1>1. ASSUME SweepInv, UNCHANGED vars PROVE SweepInv'
  BY <1>1 DEF vars, SweepInv, TypeOK, StampedLater, LeftIsConcerned, OnlyOfDecisions, BehindIsTold,
     Undisturbed, OneSweepAhead, ToldIsBehind, ToldOnceUnlessDisturbed, Hears, Landed, Alerts, Since
<1> QED BY <1>1, SweepInvTick, SweepInvStamp, SweepInvLand, SweepInvLoadCursor, SweepInvReadRows,
        SweepInvTell, SweepInvSaveCursor, SweepInvCut DEF Next, Run

\* Who hears of a decision once its row is behind the cursor follows from the invariant.
LEMMA SweepInvImplies == SweepInv => CursorLeavesNobody
<1> SUFFICES ASSUME SweepInv, NEW t \in cursor, NEW r \in Rows \ passed, rows[r].stamp <= t,
                    NEW a \in Hears(r)
             PROVE  told[a] # "none"
  BY DEF CursorLeavesNobody
<1> QED BY DEF SweepInv, BehindIsTold

LEMMA SweepInvAlways == Spec => []SweepInv
BY SweepInvStart, SweepInvStep, PTL DEF Spec

\* Nobody hears of what is not decided, of a withdrawal, or of what is not theirs, at any
\* moment of any sweep (decisionAlerts and the query of sweepLeaveDecisions).
THEOREM OnlyTheConcernedHear == Spec => []OnlyOfDecisions
<1>1. SweepInv => OnlyOfDecisions
  BY DEF SweepInv
<1> QED BY <1>1, SweepInvAlways, PTL

\* Nobody hears twice unless two sweeps have overlapped or one was cut short, however many
\* rows share an instant and however late they come to light (sweepLeaveDecisions).
THEOREM NobodyHearsTwice == Spec => []ToldOnceUnlessDisturbed
<1>1. SweepInv => ToldOnceUnlessDisturbed
  BY DEF SweepInv
<1> QED BY <1>1, SweepInvAlways, PTL

\* The cursor leaves nobody behind whose row was not looked past, even when sweeps overlap
\* and move it back and forth, restart or fail (loadCursor and saveCursor).
THEOREM NobodyIsLeftBehind == Spec => []CursorLeavesNobody
BY SweepInvAlways, SweepInvImplies, PTL

-----------------------------------------------------------------------------
(* Reminders. *)

RemTypeOK == Reminding!ReminderTypeOK

\* What a request read of its reminder, unless it was written to since.
ReadingsHold ==
  \A a \in Asks : ask[a] # Reminding!Idle /\ ~ask[a].stale =>
    /\ Reminding!Exists(ask[a].r)
    /\ ask[a].op = "complete" => rem[ask[a].r].forId = ask[a].who
    /\ ask[a].op = "edit" /\ ~ask[a].rearm => rem[ask[a].r].dueAt = ask[a].dueAt

\* What a sweep listed of each reminder, unless it was written to since.
ListingsHold ==
  \A s \in Sweeps : \A l \in sweep[s] : ~l.stale =>
    /\ Reminding!Exists(l.r)
    /\ rem[l.r].forId = l.forId /\ rem[l.r].dueAt = l.dueAt

ReminderInv ==
  /\ RemTypeOK
  /\ ReadingsHold
  /\ ListingsHold
  /\ Reminding!NotifiedMeansPushedUnlessOvertakenOrCut
  /\ Reminding!ReviewedWorkIsTheirsUnlessOvertaken

\* What a request at each point carries.
LEMMA AskKinds ==
  ASSUME RemTypeOK, NEW a \in Asks
  PROVE  /\ ask[a] # Reminding!Idle => ask[a].r \in Slots /\ ask[a].stale \in BOOLEAN
         /\ ask[a] = Reminding!Idle => ask[a].op = "idle"
         /\ ask[a].op = "reassign" => ask[a].to \in People
         /\ ask[a].op = "complete" => ask[a].who \in People
         /\ ask[a].op = "edit" => ask[a].dueAt \in 0..MaxTime /\ ask[a].rearm \in BOOLEAN
         /\ ask[a] # Reminding!Idle =>
              LET b == [ask[a] EXCEPT !.stale = TRUE] IN
              b \in Reminding!Ask /\ b # Reminding!Idle /\ b.r = ask[a].r /\ b.stale
<1>1. ask[a] \in Reminding!Ask
  BY DEF RemTypeOK, Reminding!ReminderTypeOK
<1>2. CASE ask[a] = Reminding!Idle
  BY <1>2 DEF Reminding!Idle
<1>3. CASE ask[a] \in [op : {"reassign"}, r : Slots, to : People, stale : BOOLEAN]
  <2>1. [ask[a] EXCEPT !.stale = TRUE] \in [op : {"reassign"}, r : Slots, to : People, stale : BOOLEAN]
    BY <1>3
  <2> QED BY <1>3, <2>1 DEF Reminding!Ask, Reminding!Idle
<1>4. CASE ask[a] \in [op : {"complete"}, r : Slots, who : People, self : BOOLEAN, stale : BOOLEAN]
  <2>1. [ask[a] EXCEPT !.stale = TRUE] \in
          [op : {"complete"}, r : Slots, who : People, self : BOOLEAN, stale : BOOLEAN]
    BY <1>4
  <2> QED BY <1>4, <2>1 DEF Reminding!Ask, Reminding!Idle
<1>6. CASE ask[a] \in [op : {"approve", "remove"}, r : Slots, stale : BOOLEAN]
  <2>1. [ask[a] EXCEPT !.stale = TRUE] \in [op : {"approve", "remove"}, r : Slots, stale : BOOLEAN]
    BY <1>6
  <2> QED BY <1>6, <2>1 DEF Reminding!Ask, Reminding!Idle
<1>5. CASE ask[a] \in [op : {"edit"}, r : Slots, dueAt : 0..MaxTime, rearm : BOOLEAN, stale : BOOLEAN]
  <2>1. [ask[a] EXCEPT !.stale = TRUE] \in
          [op : {"edit"}, r : Slots, dueAt : 0..MaxTime, rearm : BOOLEAN, stale : BOOLEAN]
    BY <1>5
  <2> QED BY <1>5, <2>1 DEF Reminding!Ask, Reminding!Idle
<1> QED BY <1>1, <1>2, <1>3, <1>4, <1>5, <1>6 DEF Reminding!Ask

\* What a reminder is, and what it becomes.
LEMMA DocKinds ==
  ASSUME RemTypeOK, NEW r \in Slots
  PROVE  /\ Reminding!Exists(r) => rem[r] \in Reminding!Doc
         /\ ~Reminding!Exists(r) => rem[r] = Reminding!NoRem
         /\ rem[r] = Reminding!NoRem => rem[r].state = "absent"
BY DEF RemTypeOK, Reminding!ReminderTypeOK, Reminding!Exists, Reminding!NoRem

\* A write to a reminder: what is written where, and what grows old with it.
LEMMA WriteEffects ==
  ASSUME RemTypeOK, NEW a \in Asks, ask[a] # Reminding!Idle,
         NEW doc, Reminding!Exists(ask[a].r) => doc \in {Reminding!NoRem} \cup Reminding!Doc,
         Reminding!Write(a, ask[a].r, doc)
  PROVE  /\ rem' \in [Slots -> {Reminding!NoRem} \cup Reminding!Doc]
         /\ ask' \in [Asks -> Reminding!Ask]
         /\ sweep' \in [Sweeps -> SUBSET Reminding!Listed]
         /\ overtaken' \subseteq Slots
         /\ \A q \in Slots \ {ask[a].r} : rem'[q] = rem[q]
         /\ Reminding!Exists(ask[a].r) => rem'[ask[a].r] = doc
         /\ ~Reminding!Exists(ask[a].r) => rem' = rem
         /\ \A b \in Asks : ask'[b] # Reminding!Idle /\ ~ask'[b].stale =>
              ask[b] # Reminding!Idle /\ ask'[b] = ask[b] /\ ask[b].r # ask[a].r
         /\ \A s \in Sweeps : \A l \in sweep'[s] : ~l.stale => l \in sweep[s] /\ l.r # ask[a].r
         /\ overtaken \subseteq overtaken'
         /\ ask[a].stale => ask[a].r \in overtaken'
         /\ cut' \subseteq Slots
         /\ \A q \in Slots \ {ask[a].r} : q \in cut => q \in cut'
         /\ Reminding!Exists(ask[a].r) /\ doc # Reminding!NoRem /\ doc.notified => cut' = cut
         /\ UNCHANGED <<time, stamped, made, pushed>>
<1> USE DEF RemTypeOK, Reminding!ReminderTypeOK
<1> DEFINE r == ask[a].r
<1>1. r \in Slots
  BY AskKinds
<1>2. /\ rem' \in [Slots -> {Reminding!NoRem} \cup Reminding!Doc]
      /\ \A q \in Slots \ {r} : rem'[q] = rem[q]
      /\ Reminding!Exists(r) => rem'[r] = doc
      /\ ~Reminding!Exists(r) => rem' = rem
  BY <1>1 DEF Reminding!Write
<1>3. \A b \in Asks :
        /\ ask'[b] \in Reminding!Ask
        /\ ask'[b] # Reminding!Idle /\ ~ask'[b].stale =>
             ask[b] # Reminding!Idle /\ ask'[b] = ask[b] /\ ask[b].r # r
  <2> SUFFICES ASSUME NEW b \in Asks PROVE <1>3!(b)
    OBVIOUS
  <2>1. ask'[b] = IF b = a THEN Reminding!Idle
                  ELSE IF ask[b] # Reminding!Idle /\ ask[b].r = r THEN [ask[b] EXCEPT !.stale = TRUE]
                  ELSE ask[b]
    BY DEF Reminding!Write, Reminding!Aged
  <2>2. Reminding!Idle \in Reminding!Ask /\ ask[b] \in Reminding!Ask
    BY DEF Reminding!Ask
  <2> QED BY <2>1, <2>2, AskKinds
<1>4. ask' \in [Asks -> Reminding!Ask]
  BY <1>3 DEF Reminding!Write, Reminding!Aged
<1>5. \A s \in Sweeps :
        /\ sweep'[s] \subseteq Reminding!Listed
        /\ \A l \in sweep'[s] : ~l.stale => l \in sweep[s] /\ l.r # r
  <2> SUFFICES ASSUME NEW s \in Sweeps, NEW l \in sweep'[s]
               PROVE  /\ l \in Reminding!Listed
                      /\ ~l.stale => l \in sweep[s] /\ l.r # r
    OBVIOUS
  <2>1. PICK k \in sweep[s] : l = IF k.r = r THEN [k EXCEPT !.stale = TRUE] ELSE k
    BY DEF Reminding!Write, Reminding!AgedListings
  <2>2. k \in Reminding!Listed
    OBVIOUS
  <2> QED BY <2>1, <2>2 DEF Reminding!Listed
<1>6. sweep' \in [Sweeps -> SUBSET Reminding!Listed]
  BY <1>5 DEF Reminding!Write, Reminding!AgedListings
<1>7. /\ overtaken' \subseteq Slots /\ overtaken \subseteq overtaken'
      /\ ask[a].stale => r \in overtaken'
      /\ cut' \subseteq Slots
      /\ \A q \in Slots \ {r} : q \in cut => q \in cut'
      /\ Reminding!Exists(r) /\ doc # Reminding!NoRem /\ doc.notified => cut' = cut
      /\ UNCHANGED <<time, stamped, made, pushed>>
  BY <1>1 DEF Reminding!Write
<1> QED BY <1>2, <1>3, <1>4, <1>5, <1>6, <1>7
\* A request that writes to its reminder keeps the invariant, when what it writes is right
\* for a reminder that it still knows.
LEMMA ReminderInvWrite ==
  ASSUME ReminderInv, NEW a \in Asks, ask[a] # Reminding!Idle,
         NEW doc, Reminding!Exists(ask[a].r) => doc \in {Reminding!NoRem} \cup Reminding!Doc,
         Reminding!Write(a, ask[a].r, doc),
         \/ doneBy' = doneBy
         \/ /\ ask[a].op = "complete"
            /\ doneBy' = [doneBy EXCEPT ![ask[a].r] = ask[a].who],
         doc # Reminding!NoRem /\ ask[a].r \notin overtaken' /\ Reminding!Exists(ask[a].r) =>
           /\ doc.notified /\ ask[a].r \notin cut => Reminding!Sent(ask[a].r, doc.forId, doc.dueAt)
           /\ doc.state = "review" => doneBy'[ask[a].r] = doc.forId
  PROVE  ReminderInv'
<1> USE DEF ReminderInv
<1> DEFINE r == ask[a].r
<1>1. r \in Slots /\ (ask[a].op = "complete" => ask[a].who \in People)
  BY AskKinds
<1>2. doneBy' \in [Slots -> People \cup {Reminding!NoOne}] /\ \A q \in Slots \ {r} : doneBy'[q] = doneBy[q]
  BY <1>1 DEF RemTypeOK, Reminding!ReminderTypeOK
<1>3. RemTypeOK'
  BY <1>2, WriteEffects DEF RemTypeOK, Reminding!ReminderTypeOK
<1>4. ReadingsHold'
  <2> SUFFICES ASSUME NEW b \in Asks, ask'[b] # Reminding!Idle, ~ask'[b].stale
               PROVE  ReadingsHold!(b)!2'
    BY DEF ReadingsHold
  <2>1. ask[b] # Reminding!Idle /\ ask'[b] = ask[b] /\ ask[b].r # r /\ ask[b].r \in Slots
    BY WriteEffects, AskKinds
  <2>2. rem'[ask[b].r] = rem[ask[b].r]
    BY <2>1, WriteEffects
  <2> QED BY <2>1, <2>2 DEF ReadingsHold, Reminding!Exists
<1>5. ListingsHold'
  <2> SUFFICES ASSUME NEW s \in Sweeps, NEW l \in sweep'[s], ~l.stale
               PROVE  ListingsHold!(s)!(l)!2'
    BY DEF ListingsHold
  <2>1. l \in sweep[s] /\ l.r # r
    BY WriteEffects
  <2>2. l.r \in Slots
    BY <2>1 DEF RemTypeOK, Reminding!ReminderTypeOK, Reminding!Listed
  <2>3. rem'[l.r] = rem[l.r]
    BY <2>1, <2>2, WriteEffects
  <2> QED BY <2>1, <2>3 DEF ListingsHold, Reminding!Exists
<1>6. ASSUME NEW q \in Slots \ overtaken', Reminding!Exists(q)'
      PROVE  /\ rem'[q].notified /\ q \notin cut' => Reminding!Sent(q, rem'[q].forId, rem'[q].dueAt)
             /\ rem'[q].state = "review" => doneBy'[q] = rem'[q].forId
  <2>1. CASE q # r
    <3>1. rem'[q] = rem[q] /\ doneBy'[q] = doneBy[q] /\ q \notin overtaken /\ (q \in cut => q \in cut')
      BY <1>2, <1>6, <2>1, WriteEffects
    <3> QED BY <1>6, <3>1 DEF Reminding!NotifiedMeansPushedUnlessOvertakenOrCut,
            Reminding!ReviewedWorkIsTheirsUnlessOvertaken, Reminding!Exists
  <2>2. CASE q = r /\ Reminding!Exists(r)
    <3>1. rem'[r] = doc /\ doc # Reminding!NoRem
      BY <1>6, <2>2, WriteEffects DEF Reminding!Exists
    <3>2. doc.notified => cut' = cut
      BY <2>2, <3>1, WriteEffects
    <3> QED BY <1>6, <2>2, <3>1, <3>2
  <2>3. CASE q = r /\ ~Reminding!Exists(r)
    BY <1>6, <2>3, WriteEffects DEF Reminding!Exists
  <2> QED BY <2>1, <2>2, <2>3
<1>7. \A q \in Slots, p \in People : \A d : Reminding!Sent(q, p, d) => Reminding!Sent(q, p, d)'
  BY WriteEffects DEF Reminding!Sent
<1>8. \A q \in Slots : Reminding!Exists(q)' => rem'[q].forId \in People
  BY <1>3 DEF RemTypeOK, Reminding!ReminderTypeOK, Reminding!Exists, Reminding!Doc
<1> QED BY <1>3, <1>4, <1>5, <1>6, <1>7, <1>8 DEF Reminding!NotifiedMeansPushedUnlessOvertakenOrCut,
        Reminding!ReviewedWorkIsTheirsUnlessOvertaken

\* Reassigning, completing, approving, editing and removing.
LEMMA ReminderInvRequests ==
  ASSUME ReminderInv, NEW a \in Asks,
         \/ Reminding!Reassign(a) \/ Reminding!Complete(a) \/ Reminding!Approve(a)
         \/ Reminding!Edit(a) \/ Reminding!Remove(a)
  PROVE  ReminderInv'
<1> DEFINE t == ask[a]
           d == rem[ask[a].r]
<1>1. /\ t # Reminding!Idle /\ t.r \in Slots
      /\ t.r \notin overtaken' =>
           /\ Reminding!Exists(t.r)
           /\ t.op = "complete" => d.forId = t.who
           /\ t.op = "edit" /\ ~t.rearm => d.dueAt = t.dueAt
           /\ d.notified /\ t.r \notin cut => Reminding!Sent(t.r, d.forId, d.dueAt)
           /\ d.state = "review" => doneBy[t.r] = d.forId
  <2>1. t # Reminding!Idle /\ t.r \in Slots /\ t.stale \in BOOLEAN
    BY AskKinds DEF ReminderInv, Reminding!Reassign, Reminding!Complete, Reminding!Approve, Reminding!Edit,
       Reminding!Remove
  <2>2. t.r \notin overtaken' => t.r \notin overtaken /\ ~t.stale
    BY <2>1 DEF Reminding!Write, Reminding!Reassign, Reminding!Complete, Reminding!Approve, Reminding!Edit,
       Reminding!Remove
  <2> QED BY <2>1, <2>2 DEF ReminderInv, ReadingsHold, Reminding!NotifiedMeansPushedUnlessOvertakenOrCut,
          Reminding!ReviewedWorkIsTheirsUnlessOvertaken
<1>2. Reminding!Exists(t.r) => d \in Reminding!Doc
  BY <1>1, DocKinds DEF ReminderInv
<1>3. CASE Reminding!Reassign(a)
  <2> DEFINE doc == [d EXCEPT !.forId = t.to, !.state = "pending", !.notified = FALSE]
  <2>1. t.to \in People
    BY <1>3, AskKinds DEF ReminderInv, Reminding!Reassign
  <2>2. Reminding!Exists(t.r) => doc \in Reminding!Doc /\ ~doc.notified /\ doc.state = "pending"
    BY <1>2, <2>1 DEF Reminding!Doc, Reminding!States
  <2> QED BY <1>1, <1>3, <2>2, ReminderInvWrite DEF Reminding!Reassign
<1>4. CASE Reminding!Complete(a)
  <2> DEFINE doc == [d EXCEPT !.state = IF t.self THEN "approved" ELSE "review"]
  <2>1. Reminding!Exists(t.r) => /\ doc \in Reminding!Doc
                                 /\ doc.notified = d.notified /\ doc.forId = d.forId /\ doc.dueAt = d.dueAt
    BY <1>2 DEF Reminding!Doc, Reminding!States
  <2>2. t.op = "complete" /\ doneBy' = [doneBy EXCEPT ![t.r] = t.who] /\ doneBy'[t.r] = t.who
    BY <1>1, <1>4 DEF Reminding!Complete, ReminderInv, RemTypeOK, Reminding!ReminderTypeOK
  <2>3. t.r \notin overtaken' => d.forId = t.who
    BY <1>1, <2>2
  <2> HIDE DEF doc
  <2>4. Reminding!Write(a, t.r, doc)
    BY <1>4 DEF Reminding!Complete, doc
  <2> QED BY <1>1, <2>1, <2>2, <2>3, <2>4, ReminderInvWrite
<1>5. CASE Reminding!Approve(a)
  <2> DEFINE doc == [d EXCEPT !.state = "approved"]
  <2>1. Reminding!Exists(t.r) => /\ doc \in Reminding!Doc /\ doc.state = "approved"
                                 /\ doc.notified = d.notified /\ doc.forId = d.forId /\ doc.dueAt = d.dueAt
    BY <1>2 DEF Reminding!Doc, Reminding!States
  <2>2. Reminding!Write(a, t.r, doc) /\ UNCHANGED doneBy
    BY <1>5 DEF Reminding!Approve
  <2> HIDE DEF doc
  <2> QED BY <1>1, <2>1, <2>2, ReminderInvWrite
<1>6. CASE Reminding!Edit(a)
  <2> DEFINE doc == [d EXCEPT !.dueAt = t.dueAt, !.notified = @ /\ ~t.rearm]
  <2>1. t.op = "edit" /\ t.dueAt \in 0..MaxTime /\ t.rearm \in BOOLEAN
    BY <1>6, AskKinds DEF Reminding!Edit, ReminderInv
  <2>2. Reminding!Exists(t.r) => /\ doc \in Reminding!Doc
                                 /\ doc.notified => d.notified /\ ~t.rearm
                                 /\ doc.forId = d.forId /\ doc.dueAt = t.dueAt /\ doc.state = d.state
    BY <1>2, <2>1 DEF Reminding!Doc
  <2>3. Reminding!Write(a, t.r, doc) /\ UNCHANGED doneBy
    BY <1>6 DEF Reminding!Edit
  <2> HIDE DEF doc
  <2> QED BY <1>1, <2>1, <2>2, <2>3, ReminderInvWrite
<1>7. CASE Reminding!Remove(a)
  <2>1. Reminding!Write(a, t.r, Reminding!NoRem) /\ UNCHANGED doneBy
    BY <1>7 DEF Reminding!Remove
  <2> QED BY <1>1, <2>1, ReminderInvWrite
<1> QED BY <1>3, <1>4, <1>5, <1>6, <1>7

\* Creating: nothing refers yet to the reminders that come to be.
LEMMA ReminderInvCreate ==
  ASSUME ReminderInv, NEW by \in People, NEW to \in SUBSET People, NEW due \in 0..MaxTime,
         Reminding!Create(by, to, due)
  PROVE  ReminderInv'
<1> USE DEF ReminderInv
<1>1. PICK f \in [to -> Slots] :
        /\ \A p \in to : Reminding!Unused(f[p])
        /\ rem' = [r \in Slots |->
             IF \E p \in to : f[p] = r
             THEN [state |-> "pending", forId |-> CHOOSE p \in to : f[p] = r, byId |-> by,
                   dueAt |-> due, notified |-> FALSE]
             ELSE rem[r]]
  BY DEF Reminding!Create
<1>2. /\ UNCHANGED <<time, ask, sweep, stamped, pushed, doneBy, overtaken, cut>>
      /\ made < MaxAsks /\ made' = made + 1
  BY DEF Reminding!Create
<1>3. \A r \in Slots :
        \/ rem'[r] = rem[r]
        \/ /\ ~Reminding!Exists(r) /\ rem'[r] \in Reminding!Doc
           /\ ~rem'[r].notified /\ rem'[r].state = "pending"
  <2> SUFFICES ASSUME NEW r \in Slots, NEW p \in to, f[p] = r
               PROVE  /\ ~Reminding!Exists(r) /\ rem'[r] \in Reminding!Doc
                      /\ ~rem'[r].notified /\ rem'[r].state = "pending"
    BY <1>1
  <2> DEFINE q == CHOOSE q \in to : f[q] = r
  <2>1. q \in People
    OBVIOUS
  <2>2. rem'[r] = [state |-> "pending", forId |-> q, byId |-> by, dueAt |-> due, notified |-> FALSE]
    BY <1>1
  <2> HIDE DEF q
  <2>3. ~Reminding!Exists(r)
    BY <1>1 DEF Reminding!Unused
  <2> QED BY <2>1, <2>2, <2>3 DEF Reminding!Doc, Reminding!States
<1>4. \A r \in Slots : Reminding!Exists(r) => rem'[r] = rem[r] /\ Reminding!Exists(r)'
  BY <1>3 DEF Reminding!Exists
<1>5. RemTypeOK'
  <2>1. made' \in 0..MaxAsks
    BY <1>2, ReminderConstants DEF RemTypeOK, Reminding!ReminderTypeOK
  <2>2. rem' \in [Slots -> {Reminding!NoRem} \cup Reminding!Doc]
    BY <1>1, <1>3 DEF RemTypeOK, Reminding!ReminderTypeOK
  <2> QED BY <1>2, <2>1, <2>2 DEF RemTypeOK, Reminding!ReminderTypeOK
<1>6. ReadingsHold'
  BY <1>2, <1>4, AskKinds DEF ReadingsHold
<1>7. ListingsHold'
  <2>1. \A s \in Sweeps : \A l \in sweep[s] : l.r \in Slots
    BY DEF RemTypeOK, Reminding!ReminderTypeOK, Reminding!Listed
  <2> QED BY <1>2, <1>4, <2>1 DEF ListingsHold
<1>8. /\ Reminding!NotifiedMeansPushedUnlessOvertakenOrCut'
      /\ Reminding!ReviewedWorkIsTheirsUnlessOvertaken'
  BY <1>2, <1>3 DEF Reminding!NotifiedMeansPushedUnlessOvertakenOrCut,
     Reminding!ReviewedWorkIsTheirsUnlessOvertaken, Reminding!Exists, Reminding!Sent
<1> QED BY <1>5, <1>6, <1>7, <1>8

\* Requests that read a reminder and check who asks.
LEMMA ReminderInvReads ==
  ASSUME ReminderInv, NEW a \in Asks, NEW r \in Slots, NEW p \in People,
         \/ \E to \in People : Reminding!ReadForReassign(a, r, p, to)
         \/ Reminding!ReadForComplete(a, r, p)
         \/ Reminding!ReadForApprove(a, r, p)
         \/ Reminding!ReadForRemove(a, r, p)
         \/ \E due \in 0..MaxTime, rearm \in BOOLEAN : Reminding!ReadForEdit(a, r, p, rearm, due)
  PROVE  ReminderInv'
<1> USE DEF ReminderInv
<1> DEFINE Reads(next) ==
             /\ Reminding!Starts(a, next)
             /\ Reminding!Exists(next.r)
             /\ next.op = "complete" => rem[next.r].forId = next.who
             /\ next.op = "edit" /\ ~next.rearm => rem[next.r].dueAt = next.dueAt
<1>1. PICK next \in Reminding!Ask : Reads(next)
  <2>1. ASSUME NEW to \in People, Reminding!ReadForReassign(a, r, p, to) PROVE \E next \in Reminding!Ask : Reads(next)
    <3> DEFINE n == [op |-> "reassign", r |-> r, to |-> to, stale |-> FALSE]
    <3>1. n \in Reminding!Ask
      BY DEF Reminding!Ask
    <3> QED BY <2>1, <3>1 DEF Reminding!ReadForReassign
  <2>2. CASE Reminding!ReadForComplete(a, r, p)
    <3> DEFINE n == [op |-> "complete", r |-> r, who |-> p, self |-> rem[r].byId = p, stale |-> FALSE]
    <3>1. n \in Reminding!Ask
      BY DEF Reminding!Ask
    <3> QED BY <2>2, <3>1 DEF Reminding!ReadForComplete
  <2>3. CASE Reminding!ReadForApprove(a, r, p)
    <3> DEFINE n == [op |-> "approve", r |-> r, stale |-> FALSE]
    <3>1. n \in Reminding!Ask
      BY DEF Reminding!Ask
    <3> QED BY <2>3, <3>1 DEF Reminding!ReadForApprove
  <2>4. CASE Reminding!ReadForRemove(a, r, p)
    <3> DEFINE n == [op |-> "remove", r |-> r, stale |-> FALSE]
    <3>1. n \in Reminding!Ask
      BY DEF Reminding!Ask
    <3> QED BY <2>4, <3>1 DEF Reminding!ReadForRemove
  <2>5. ASSUME NEW due \in 0..MaxTime, NEW rearm \in BOOLEAN, Reminding!ReadForEdit(a, r, p, rearm, due)
        PROVE  \E next \in Reminding!Ask : Reads(next)
    <3> DEFINE n == [op |-> "edit", r |-> r, dueAt |-> due, rearm |-> rearm, stale |-> FALSE]
    <3>1. n \in Reminding!Ask
      BY DEF Reminding!Ask
    <3> QED BY <2>5, <3>1 DEF Reminding!ReadForEdit
  <2> QED BY <2>1, <2>2, <2>3, <2>4, <2>5
<1>2. /\ UNCHANGED <<time, rem, sweep, stamped, pushed, doneBy, overtaken, cut>>
      /\ ask' = [ask EXCEPT ![a] = next]
      /\ made < MaxAsks /\ made' = made + 1
  BY <1>1 DEF Reminding!Starts
<1>3. RemTypeOK'
  <2>1. made' \in 0..MaxAsks /\ ask' \in [Asks -> Reminding!Ask]
    BY <1>2, ReminderConstants DEF RemTypeOK, Reminding!ReminderTypeOK
  <2> QED BY <1>2, <2>1 DEF RemTypeOK, Reminding!ReminderTypeOK
<1>4. ReadingsHold'
  <2>1. \A b \in Asks : ask'[b] = IF b = a THEN next ELSE ask[b]
    BY <1>2 DEF RemTypeOK, Reminding!ReminderTypeOK
  <2> QED BY <1>1, <1>2, <2>1 DEF ReadingsHold, Reminding!Exists
<1>5. /\ ListingsHold'
      /\ Reminding!NotifiedMeansPushedUnlessOvertakenOrCut'
      /\ Reminding!ReviewedWorkIsTheirsUnlessOvertaken'
  BY <1>2 DEF ListingsHold, Reminding!NotifiedMeansPushedUnlessOvertakenOrCut,
     Reminding!ReviewedWorkIsTheirsUnlessOvertaken, Reminding!Exists, Reminding!Sent
<1> QED BY <1>3, <1>4, <1>5
\* A sweep lists what is due.
LEMMA ReminderInvListDue ==
  ASSUME ReminderInv, NEW s \in Sweeps, Reminding!ListDue(s)
  PROVE  ReminderInv'
<1> USE DEF ReminderInv
<1> DEFINE list == {[r |-> r, forId |-> rem[r].forId, dueAt |-> rem[r].dueAt, stale |-> FALSE] :
                      r \in {x \in Slots : Reminding!DueUnnotified(x)}}
<1>1. /\ sweep' = [sweep EXCEPT ![s] = list]
      /\ UNCHANGED <<time, rem, ask, stamped, made, pushed, doneBy, overtaken, cut>>
  BY DEF Reminding!ListDue
<1>2. \A l \in list : /\ l \in Reminding!Listed
                      /\ Reminding!Exists(l.r) /\ rem[l.r].forId = l.forId /\ rem[l.r].dueAt = l.dueAt
  <2> SUFFICES ASSUME NEW r \in Slots, Reminding!DueUnnotified(r),
                      NEW l, l = [r |-> r, forId |-> rem[r].forId, dueAt |-> rem[r].dueAt, stale |-> FALSE]
               PROVE  <1>2!(l)
    OBVIOUS
  <2>1. Reminding!Exists(r) /\ rem[r].dueAt \in 1..time /\ rem[r] \in Reminding!Doc
    BY DocKinds DEF Reminding!DueUnnotified
  <2>2. rem[r].forId \in People /\ rem[r].dueAt \in 1..MaxTime
    BY <2>1, SweepConstants DEF RemTypeOK, Reminding!ReminderTypeOK, Reminding!Doc
  <2> QED BY <2>1, <2>2 DEF Reminding!Listed
<1> HIDE DEF list
<1>3. RemTypeOK' /\ ListingsHold'
  BY <1>1, <1>2 DEF RemTypeOK, Reminding!ReminderTypeOK, ListingsHold, Reminding!Exists
<1>4. /\ ReadingsHold'
      /\ Reminding!NotifiedMeansPushedUnlessOvertakenOrCut'
      /\ Reminding!ReviewedWorkIsTheirsUnlessOvertaken'
  BY <1>1 DEF ReadingsHold, Reminding!NotifiedMeansPushedUnlessOvertakenOrCut,
     Reminding!ReviewedWorkIsTheirsUnlessOvertaken, Reminding!Exists, Reminding!Sent
<1> QED BY <1>3, <1>4

\* The update that stamps a reminder a sweep has listed: what becomes of the reminder, and
\* of what others have read and listed.
LEMMA StampEffects ==
  ASSUME ReminderInv, NEW s \in Sweeps, NEW l \in sweep[s],
         NEW rest \in SUBSET sweep[s], Reminding!Stamps(s, l, rest)
  PROVE  /\ l \in Reminding!Listed /\ l.r \in Slots
         /\ rem' \in [Slots -> {Reminding!NoRem} \cup Reminding!Doc]
         /\ ask' \in [Asks -> Reminding!Ask]
         /\ sweep' \in [Sweeps -> SUBSET Reminding!Listed]
         /\ \A r \in Slots : /\ Reminding!Exists(r)' <=> Reminding!Exists(r)
                             /\ Reminding!Exists(r) =>
                                  /\ rem'[r].forId = rem[r].forId /\ rem'[r].dueAt = rem[r].dueAt
                                  /\ rem'[r].state = rem[r].state
                                  /\ r # l.r => rem'[r] = rem[r]
         /\ ReadingsHold' /\ ListingsHold'
         /\ Reminding!ReviewedWorkIsTheirsUnlessOvertaken'
         /\ l.r \notin overtaken' /\ Reminding!Exists(l.r) =>
              rem[l.r].forId = l.forId /\ rem[l.r].dueAt = l.dueAt
<1> USE DEF ReminderInv
<1>1. /\ rem' = IF Reminding!Exists(l.r) THEN [rem EXCEPT ![l.r].notified = TRUE] ELSE rem
      /\ ask' = [a \in Asks |-> IF ask[a] # Reminding!Idle /\ ask[a].r = l.r
                                THEN [ask[a] EXCEPT !.stale = TRUE] ELSE ask[a]]
      /\ sweep' = [t \in Sweeps |->
           IF t = s THEN rest
           ELSE {IF k.r = l.r THEN [k EXCEPT !.stale = TRUE] ELSE k : k \in sweep[t]}]
      /\ overtaken' = IF l.stale THEN overtaken \cup {l.r} ELSE overtaken
      /\ UNCHANGED doneBy
  BY DEF Reminding!Stamps
<1>3. l \in Reminding!Listed /\ l.r \in Slots
  BY DEF RemTypeOK, Reminding!ReminderTypeOK, Reminding!Listed
<1>4. \A r \in Slots :
        /\ (rem'[r] = Reminding!NoRem) <=> (rem[r] = Reminding!NoRem)
        /\ rem'[r] \in {Reminding!NoRem} \cup Reminding!Doc
        /\ rem[r] # Reminding!NoRem =>
             /\ rem'[r].forId = rem[r].forId /\ rem'[r].dueAt = rem[r].dueAt
             /\ rem'[r].state = rem[r].state
             /\ r # l.r => rem'[r] = rem[r]
  <2> SUFFICES ASSUME NEW r \in Slots PROVE <1>4!(r)
    OBVIOUS
  <2>1. CASE ~Reminding!Exists(l.r) \/ r # l.r
    <3>1. rem'[r] = rem[r]
      BY <1>1, <1>3, <2>1 DEF RemTypeOK, Reminding!ReminderTypeOK
    <3> QED BY <3>1 DEF Reminding!Exists, RemTypeOK, Reminding!ReminderTypeOK
  <2>2. CASE Reminding!Exists(l.r) /\ r = l.r
    <3>1. rem'[r] = [rem[r] EXCEPT !.notified = TRUE] /\ rem[r] \in Reminding!Doc
      BY <1>1, <1>3, <2>2, DocKinds DEF RemTypeOK, Reminding!ReminderTypeOK
    <3>2. /\ rem'[r] \in Reminding!Doc /\ rem'[r].forId = rem[r].forId /\ rem'[r].dueAt = rem[r].dueAt
          /\ rem'[r].state = rem[r].state /\ rem'[r].state \in {"pending", "review", "approved"}
      BY <3>1 DEF Reminding!Doc, Reminding!States
    <3>3. rem'[r] # Reminding!NoRem
      BY <3>2 DEF Reminding!NoRem
    <3> QED BY <2>2, <3>2, <3>3 DEF Reminding!Exists
  <2> QED BY <2>1, <2>2
<1>5. \A a \in Asks :
        /\ ask'[a] \in Reminding!Ask
        /\ ask'[a] # Reminding!Idle /\ ~ask'[a].stale => ask'[a] = ask[a]
  <2> SUFFICES ASSUME NEW a \in Asks PROVE <1>5!(a)
    OBVIOUS
  <2>1. ask'[a] = IF ask[a] # Reminding!Idle /\ ask[a].r = l.r THEN [ask[a] EXCEPT !.stale = TRUE] ELSE ask[a]
    BY <1>1
  <2> QED BY <2>1, AskKinds DEF RemTypeOK, Reminding!ReminderTypeOK
<1>6. \A t \in Sweeps : \A k \in sweep'[t] :
        k \in Reminding!Listed /\ (~k.stale => k \in sweep[t])
  <2> SUFFICES ASSUME NEW t \in Sweeps, NEW k \in sweep'[t]
               PROVE  k \in Reminding!Listed /\ (~k.stale => k \in sweep[t])
    OBVIOUS
  <2>1. CASE t = s
    BY <1>1, <2>1 DEF RemTypeOK, Reminding!ReminderTypeOK
  <2>2. CASE t # s
    <3>1. PICK j \in sweep[t] : k = IF j.r = l.r THEN [j EXCEPT !.stale = TRUE] ELSE j
      BY <1>1, <2>2
    <3>2. j \in Reminding!Listed
      BY DEF RemTypeOK, Reminding!ReminderTypeOK
    <3> QED BY <3>1, <3>2 DEF Reminding!Listed
  <2> QED BY <2>1, <2>2
<1>7. /\ rem' \in [Slots -> {Reminding!NoRem} \cup Reminding!Doc]
      /\ ask' \in [Asks -> Reminding!Ask]
      /\ sweep' \in [Sweeps -> SUBSET Reminding!Listed]
  <2>1. rem' \in [Slots -> {Reminding!NoRem} \cup Reminding!Doc]
    BY <1>1, <1>4 DEF RemTypeOK, Reminding!ReminderTypeOK
  <2>2. ask' \in [Asks -> Reminding!Ask]
    BY <1>1, <1>5
  <2>3. sweep' \in [Sweeps -> SUBSET Reminding!Listed]
    BY <1>1, <1>6
  <2> QED BY <2>1, <2>2, <2>3
<1>8. ReadingsHold'
  <2> SUFFICES ASSUME NEW a \in Asks, ask'[a] # Reminding!Idle, ~ask'[a].stale
               PROVE  ReadingsHold!(a)!2'
    BY DEF ReadingsHold
  <2>1. ask'[a] = ask[a] /\ ask[a].r \in Slots
    BY <1>5, AskKinds
  <2> QED BY <1>4, <2>1 DEF ReadingsHold, Reminding!Exists
<1>9. ListingsHold'
  <2> SUFFICES ASSUME NEW t \in Sweeps, NEW k \in sweep'[t], ~k.stale
               PROVE  ListingsHold!(t)!(k)!2'
    BY DEF ListingsHold
  <2>1. k \in sweep[t] /\ k.r \in Slots
    BY <1>6 DEF Reminding!Listed
  <2> QED BY <1>4, <2>1 DEF ListingsHold, Reminding!Exists
<1>10. l.r \notin overtaken' /\ Reminding!Exists(l.r) =>
         rem[l.r].forId = l.forId /\ rem[l.r].dueAt = l.dueAt
  BY <1>1 DEF ListingsHold
<1>11. Reminding!ReviewedWorkIsTheirsUnlessOvertaken'
  BY <1>1, <1>4 DEF Reminding!ReviewedWorkIsTheirsUnlessOvertaken, Reminding!Exists
<1> QED BY <1>3, <1>4, <1>7, <1>8, <1>9, <1>10, <1>11 DEF Reminding!Exists

\* A sweep stamps a reminder and has its push in hand, or does not hear of the stamp.
LEMMA ReminderInvStamp ==
  ASSUME ReminderInv, NEW s \in Sweeps, Reminding!Stamp(s) \/ Reminding!StampUnheard(s)
  PROVE  ReminderInv'
<1> USE DEF ReminderInv
<1>1. PICK l \in sweep[s], rest \in SUBSET sweep[s] :
        /\ Reminding!Stamps(s, l, rest) /\ stamped[s] = Reminding!Nothing
        /\ \/ /\ stamped' = [stamped EXCEPT ![s] = [r |-> l.r, forId |-> l.forId, dueAt |-> l.dueAt]]
              /\ cut' = cut
           \/ stamped' = stamped /\ cut' = cut \cup {l.r}
  <2>1. CASE Reminding!Stamp(s)
    <3>1. PICK l \in sweep[s] :
            /\ Reminding!Stamps(s, l, sweep[s] \ {l}) /\ stamped[s] = Reminding!Nothing
            /\ stamped' = [stamped EXCEPT ![s] = [r |-> l.r, forId |-> l.forId, dueAt |-> l.dueAt]]
            /\ cut' = cut
      BY <2>1 DEF Reminding!Stamp
    <3>2. sweep[s] \ {l} \in SUBSET sweep[s]
      OBVIOUS
    <3> QED BY <3>1, <3>2
  <2>2. CASE Reminding!StampUnheard(s)
    <3>1. PICK l \in sweep[s] :
            /\ Reminding!Stamps(s, l, {}) /\ stamped[s] = Reminding!Nothing
            /\ stamped' = stamped /\ cut' = cut \cup {l.r}
      BY <2>2 DEF Reminding!StampUnheard
    <3>2. {} \in SUBSET sweep[s]
      OBVIOUS
    <3> QED BY <3>1, <3>2
  <2> QED BY <2>1, <2>2
<1>2. /\ UNCHANGED <<time, made, pushed, doneBy>>
      /\ overtaken \subseteq overtaken' /\ overtaken' \subseteq overtaken \cup {l.r}
  BY <1>1 DEF Reminding!Stamps
<1>3. [r |-> l.r, forId |-> l.forId, dueAt |-> l.dueAt] \in Reminding!Due
  BY <1>1, StampEffects DEF Reminding!Listed, Reminding!Due
<1>4. RemTypeOK'
  <2>1. stamped' \in [Sweeps -> {Reminding!Nothing} \cup Reminding!Due] /\ cut' \subseteq Slots
    BY <1>1, <1>3, StampEffects DEF RemTypeOK, Reminding!ReminderTypeOK
  <2>2. overtaken' \subseteq Slots
    BY <1>1, <1>2, StampEffects DEF RemTypeOK, Reminding!ReminderTypeOK
  <2> QED BY <1>1, <1>2, <2>1, <2>2, StampEffects DEF RemTypeOK, Reminding!ReminderTypeOK
<1>5. \A q \in Slots, p \in People : \A d : Reminding!Sent(q, p, d) => Reminding!Sent(q, p, d)'
  <2> SUFFICES ASSUME NEW q \in Slots, NEW d, NEW p \in People, Reminding!Sent(q, p, d)
               PROVE  Reminding!Sent(q, p, d)'
    OBVIOUS
  <2>1. CASE <<p, d>> \in pushed[q]
    BY <1>2, <2>1 DEF Reminding!Sent
  <2>2. ASSUME NEW t \in Sweeps, stamped[t] = [r |-> q, forId |-> p, dueAt |-> d]
        PROVE  stamped'[t] = stamped[t]
    <3>1. t # s
      BY <1>1, <2>2 DEF Reminding!Nothing
    <3> QED BY <1>1, <3>1 DEF RemTypeOK, Reminding!ReminderTypeOK
  <2> QED BY <2>1, <2>2 DEF Reminding!Sent
<1>6. Reminding!NotifiedMeansPushedUnlessOvertakenOrCut'
  <2> SUFFICES ASSUME NEW q \in Slots, q \notin overtaken', q \notin cut', Reminding!Exists(q), rem'[q].notified
               PROVE  Reminding!Sent(q, rem[q].forId, rem[q].dueAt)'
    BY <1>1, StampEffects DEF Reminding!NotifiedMeansPushedUnlessOvertakenOrCut, Reminding!Sent
  <2>1. CASE q = l.r
    <3>1. rem[q].forId = l.forId /\ rem[q].dueAt = l.dueAt
      BY <1>1, <2>1, StampEffects
    <3>2. stamped'[s] = [r |-> q, forId |-> rem[q].forId, dueAt |-> rem[q].dueAt]
      BY <1>1, <2>1, <3>1 DEF RemTypeOK, Reminding!ReminderTypeOK
    <3>3. rem'[q].forId = rem[q].forId /\ rem'[q].dueAt = rem[q].dueAt
      BY <1>1, StampEffects
    <3> QED BY <3>2, <3>3 DEF Reminding!Sent
  <2>2. CASE q # l.r
    <3>1. rem'[q] = rem[q] /\ q \notin overtaken /\ q \notin cut
      BY <1>1, <1>2, <2>2, StampEffects
    <3>2. rem[q].forId \in People
      BY DocKinds DEF Reminding!Doc
    <3> QED BY <1>5, <3>1, <3>2 DEF Reminding!NotifiedMeansPushedUnlessOvertakenOrCut
  <2> QED BY <2>1, <2>2
<1> QED BY <1>1, <1>4, <1>6, StampEffects

\* A sweep pushes what it has stamped.
LEMMA ReminderInvPush ==
  ASSUME ReminderInv, NEW s \in Sweeps, Reminding!PushDue(s)
  PROVE  ReminderInv'
<1> USE DEF ReminderInv
<1> DEFINE l == stamped[s]
<1>1. /\ l # Reminding!Nothing
      /\ stamped' = [stamped EXCEPT ![s] = Reminding!Nothing]
      /\ pushed' = [pushed EXCEPT ![l.r] = @ \cup {<<l.forId, l.dueAt>>}]
      /\ UNCHANGED <<time, rem, ask, sweep, made, doneBy, overtaken, cut>>
  BY DEF Reminding!PushDue
<1>2. l.r \in Slots /\ <<l.forId, l.dueAt>> \in People \X (1..MaxTime)
  BY <1>1 DEF RemTypeOK, Reminding!ReminderTypeOK, Reminding!Due
<1>3. RemTypeOK'
  <2>1. pushed' \in [Slots -> SUBSET (People \X (1..MaxTime))]
    BY <1>1, <1>2 DEF RemTypeOK, Reminding!ReminderTypeOK
  <2>2. stamped' \in [Sweeps -> {Reminding!Nothing} \cup Reminding!Due]
    BY <1>1 DEF RemTypeOK, Reminding!ReminderTypeOK
  <2> QED BY <1>1, <2>1, <2>2 DEF RemTypeOK, Reminding!ReminderTypeOK
<1>4. \A q \in Slots, p \in People : \A d : Reminding!Sent(q, p, d) => Reminding!Sent(q, p, d)'
  <2> SUFFICES ASSUME NEW q \in Slots, NEW d, NEW p \in People, Reminding!Sent(q, p, d)
               PROVE  Reminding!Sent(q, p, d)'
    OBVIOUS
  <2>1. CASE <<p, d>> \in pushed[q]
    BY <1>1, <1>2, <2>1 DEF Reminding!Sent, RemTypeOK, Reminding!ReminderTypeOK
  <2>2. ASSUME NEW t \in Sweeps, stamped[t] = [r |-> q, forId |-> p, dueAt |-> d]
        PROVE  stamped'[t] = stamped[t] \/ <<p, d>> \in pushed'[q]
    <3>1. CASE t = s
      BY <1>1, <1>2, <2>2, <3>1 DEF RemTypeOK, Reminding!ReminderTypeOK
    <3>2. CASE t # s
      BY <1>1, <3>2 DEF RemTypeOK, Reminding!ReminderTypeOK
    <3> QED BY <3>1, <3>2
  <2> QED BY <2>1, <2>2 DEF Reminding!Sent
<1>5. \A q \in Slots : Reminding!Exists(q) => rem[q].forId \in People
  BY DocKinds DEF Reminding!Doc
<1>6. Reminding!NotifiedMeansPushedUnlessOvertakenOrCut'
  BY <1>1, <1>4, <1>5 DEF Reminding!NotifiedMeansPushedUnlessOvertakenOrCut, Reminding!Exists
<1>7. ReadingsHold' /\ ListingsHold' /\ Reminding!ReviewedWorkIsTheirsUnlessOvertaken'
  BY <1>1 DEF ReadingsHold, ListingsHold, Reminding!ReviewedWorkIsTheirsUnlessOvertaken, Reminding!Exists
<1> QED BY <1>3, <1>6, <1>7

\* A sweep ends early, or all requests and sweeps do.
LEMMA ReminderInvFaults ==
  ASSUME ReminderInv, (\E s \in Sweeps : Reminding!StampFails(s)) \/ Reminding!Restart
  PROVE  ReminderInv'
<1> USE DEF ReminderInv
<1>1. ASSUME NEW s \in Sweeps, Reminding!StampFails(s) PROVE ReminderInv'
  <2>1. /\ sweep' = [sweep EXCEPT ![s] = {}]
        /\ UNCHANGED <<time, rem, ask, stamped, made, pushed, doneBy, overtaken, cut>>
    BY <1>1 DEF Reminding!StampFails
  <2>2. RemTypeOK' /\ ListingsHold'
    BY <2>1 DEF RemTypeOK, Reminding!ReminderTypeOK, ListingsHold, Reminding!Exists
  <2>3. ReadingsHold' /\ Reminding!NotifiedMeansPushedUnlessOvertakenOrCut'
        /\ Reminding!ReviewedWorkIsTheirsUnlessOvertaken'
    BY <2>1 DEF ReadingsHold, Reminding!NotifiedMeansPushedUnlessOvertakenOrCut,
       Reminding!ReviewedWorkIsTheirsUnlessOvertaken, Reminding!Exists, Reminding!Sent
  <2> QED BY <2>2, <2>3
<1>2. CASE Reminding!Restart
  <2>1. /\ ask' = [a \in Asks |-> Reminding!Idle]
        /\ sweep' = [s \in Sweeps |-> {}]
        /\ stamped' = [s \in Sweeps |-> Reminding!Nothing]
        /\ cut' = cut \cup {r \in Slots : /\ Reminding!Exists(r) /\ rem[r].notified
                                         /\ \E s \in Sweeps : stamped[s].r = r}
        /\ UNCHANGED <<time, rem, made, pushed, doneBy, overtaken>>
    BY <1>2 DEF Reminding!Restart
  <2>2. Reminding!Idle \in Reminding!Ask
    BY DEF Reminding!Ask
  <2>3. RemTypeOK'
    BY <2>1, <2>2 DEF RemTypeOK, Reminding!ReminderTypeOK
  <2>4. ReadingsHold' /\ ListingsHold' /\ Reminding!ReviewedWorkIsTheirsUnlessOvertaken'
    BY <2>1 DEF ReadingsHold, ListingsHold, Reminding!ReviewedWorkIsTheirsUnlessOvertaken, Reminding!Exists
  <2>5. Reminding!NotifiedMeansPushedUnlessOvertakenOrCut'
    <3> SUFFICES ASSUME NEW q \in Slots, q \notin overtaken, q \notin cut', Reminding!Exists(q), rem[q].notified
                 PROVE  <<rem[q].forId, rem[q].dueAt>> \in pushed[q]
      BY <2>1 DEF Reminding!NotifiedMeansPushedUnlessOvertakenOrCut, Reminding!Exists, Reminding!Sent
    <3>1. q \notin cut /\ \A s \in Sweeps : stamped[s].r # q
      BY <2>1
    <3>2. Reminding!Sent(q, rem[q].forId, rem[q].dueAt)
      BY <3>1 DEF Reminding!NotifiedMeansPushedUnlessOvertakenOrCut
    <3> QED BY <3>1, <3>2 DEF Reminding!Sent
  <2> QED BY <2>3, <2>4, <2>5
<1> QED BY <1>1, <1>2

LEMMA ReminderInvStart == Reminding!ReminderInit => ReminderInv
<1> SUFFICES ASSUME Reminding!ReminderInit PROVE ReminderInv
  OBVIOUS
<1> USE DEF Reminding!ReminderInit
<1>1. RemTypeOK
  <2>1. Reminding!Idle \in Reminding!Ask
    BY DEF Reminding!Ask
  <2>2. time \in 1..MaxTime /\ made \in 0..MaxAsks
    BY SweepConstants, ReminderConstants
  <2> QED BY <2>1, <2>2 DEF RemTypeOK, Reminding!ReminderTypeOK
<1>2. \A r \in Slots : ~Reminding!Exists(r)
  BY DEF Reminding!Exists
<1> QED BY <1>1, <1>2 DEF ReminderInv, ReadingsHold, ListingsHold,
        Reminding!NotifiedMeansPushedUnlessOvertakenOrCut, Reminding!ReviewedWorkIsTheirsUnlessOvertaken

LEMMA ReminderInvStep == ReminderInv /\ [Reminding!ReminderNext]_reminders => ReminderInv'
<1> SUFFICES ASSUME ReminderInv, [Reminding!ReminderNext]_reminders PROVE ReminderInv'
  OBVIOUS
<1>1. CASE Reminding!Tick
  BY <1>1, SweepConstants DEF Reminding!Tick, ReminderInv, RemTypeOK, Reminding!ReminderTypeOK, ReadingsHold,
     ListingsHold, Reminding!NotifiedMeansPushedUnlessOvertakenOrCut,
     Reminding!ReviewedWorkIsTheirsUnlessOvertaken, Reminding!Exists, Reminding!Sent
<1>3. CASE UNCHANGED reminders
  BY <1>3 DEF reminders, ReminderInv, RemTypeOK, Reminding!ReminderTypeOK, ReadingsHold,
     ListingsHold, Reminding!NotifiedMeansPushedUnlessOvertakenOrCut,
     Reminding!ReviewedWorkIsTheirsUnlessOvertaken, Reminding!Exists, Reminding!Sent
<1> QED BY <1>1, <1>3, ReminderInvCreate, ReminderInvReads, ReminderInvRequests, ReminderInvListDue,
        ReminderInvStamp, ReminderInvPush, ReminderInvFaults DEF Reminding!ReminderNext, Reminding!SweepStep,
        Reminding!Proceeds

\* However requests, edits and sweeps of reminders cross, updates fail and the process stops,
\* a reminder marked as pushed was pushed for its time and to its person, or is about to be,
\* unless it was written to from an old reading or the sweep ended between its stamp and its
\* push; and what awaits review was done by the person it is for, unless it was written to
\* from an old reading (reminder.service.ts and reminder.sweep.ts).
THEOREM RemindersKeepTheirWord == SweepsSpec => []RemindersHold
<1>1. SweepsInit => ReminderInv
  BY ReminderInvStart DEF SweepsInit
<1>2. ReminderInv /\ [SweepsNext]_all => ReminderInv'
  <2> SUFFICES ASSUME [SweepsNext]_all PROVE [Reminding!ReminderNext]_reminders
    BY ReminderInvStep
  <2> QED BY DEF SweepsNext, OfDecisions, OfReminders, OfFeed, all, reminders
<1>3. ReminderInv => RemindersHold
  BY DEF ReminderInv, RemTypeOK, RemindersHold
<1> QED BY <1>1, <1>2, <1>3, PTL DEF SweepsSpec

-----------------------------------------------------------------------------
(* The catch-up feed. *)

\* A device has no version that is not there, and nothing it has as it is now is still to
\* be sent to it.
ChangedIsNews ==
  \A m \in Feed!Ids :
    /\ have[m] <= docs[m].version
    /\ m \in Feed!Changed => have[m] # docs[m].version

FeedInv == Feed!FeedTypeOK /\ Feed!FeedSkipsNothingUnlessLate /\ ChangedIsNews

\* The messages of the feed are numbers, in order of their instants.
LEMMA DocsAreNumbers ==
  ASSUME Feed!FeedTypeOK, NEW m \in Feed!Ids
  PROVE  /\ m \in Nat /\ docs[m].at \in Nat /\ docs[m].version \in Nat /\ docs[m].version <= MaxEdits
         /\ have[m] \in Nat /\ mark.at \in Nat /\ mark.id \in Nat
BY FeedConstants DEF Feed!FeedTypeOK, Feed!Ids

\* The feed counts as everybody does.
LEMMA SameCardinality == \A S : Feed!Cardinality(S) = Cardinality(S)
BY Zenon DEF Cardinality, Feed!Cardinality

\* What a page leaves out comes after everything in it (changedSince sorts and limits).
LEMMA PageIsFirst ==
  ASSUME Feed!FeedTypeOK, NEW rs \in SUBSET Feed!Ids, NEW n \in Nat,
         NEW last \in Feed!Page(rs, n), NEW m \in rs \ Feed!Page(rs, n)
  PROVE  Feed!Before(last, m)
<1> DEFINE Ahead(x) == {k \in rs : Feed!Before(k, x)}
<1>1. last \in rs /\ Cardinality(Ahead(last)) < n /\ ~(Cardinality(Ahead(m)) < n)
  <2>1. Feed!Page(rs, n) = {x \in rs : Cardinality(Ahead(x)) < n}
    BY Zenon, SameCardinality DEF Feed!Page
  <2> HIDE DEF Ahead
  <2> QED BY <2>1
<1>2. SUFFICES ASSUME ~Feed!Before(last, m) PROVE FALSE
  OBVIOUS
<1>3. Feed!Before(m, last)
  BY <1>1, <1>2, DocsAreNumbers DEF Feed!Before, Feed!IsAfter, Feed!ComesAfter
<1>4. Ahead(m) \subseteq Ahead(last)
  BY <1>1, <1>3, DocsAreNumbers DEF Feed!Before, Feed!IsAfter, Feed!ComesAfter
<1>5. IsFiniteSet(Ahead(last))
  <2>1. IsFiniteSet(Feed!Ids)
    BY FS_Interval, FeedConstants DEF Feed!Ids
  <2> QED BY <2>1, FS_Subset
<1>6. /\ Cardinality(Ahead(m)) <= Cardinality(Ahead(last))
      /\ Cardinality(Ahead(m)) \in Nat /\ Cardinality(Ahead(last)) \in Nat
  BY <1>4, <1>5, FS_Subset, FS_CardinalityType
<1> QED BY <1>1, <1>6

LEMMA FeedInvStart == Feed!FeedInit => FeedInv
<1> SUFFICES ASSUME Feed!FeedInit PROVE FeedInv
  OBVIOUS
<1> USE FeedConstants DEF Feed!FeedInit
<1>1. Feed!FeedTypeOK
  BY DEF Feed!FeedTypeOK
<1>2. \A m \in Feed!Ids : docs[m].version = 0 /\ have[m] = 0
  OBVIOUS
<1> QED BY <1>1, <1>2 DEF FeedInv, Feed!FeedSkipsNothingUnlessLate, ChangedIsNews, Feed!Changed

\* A write comes to light: behind the watermark it is late, ahead of it still to be sent.
LEMMA FeedInvLand ==
  ASSUME FeedInv, NEW w \in Writers, Feed!Land(w)
  PROVE  FeedInv'
<1> USE FeedConstants DEF FeedInv
<1> DEFINE ids == {m \in writes[w][1] : docs[m].version < MaxEdits}
           moment == writes[w][2]
<1>1. /\ docs' = [m \in Feed!Ids |->
               IF m \in ids THEN [version |-> docs[m].version + 1, at |-> moment] ELSE docs[m]]
      /\ writes' = [writes EXCEPT ![w] = <<{}, 0>>]
      /\ late' = late \cup {m \in ids : ~Feed!ComesAfter(moment, m, mark.at, mark.id)}
      /\ UNCHANGED <<now, mark, have, more>>
  BY DEF Feed!Land
<1>2. ids \subseteq Feed!Ids /\ moment \in 0..MaxStamp
  BY DEF Feed!FeedTypeOK
<1>3. \A m \in Feed!Ids :
        /\ m \in ids => docs'[m].version = docs[m].version + 1 /\ docs'[m].at = moment
        /\ m \notin ids => docs'[m] = docs[m]
        /\ docs'[m] \in [version : 0..MaxEdits, at : 0..MaxStamp]
  BY <1>1, <1>2, DocsAreNumbers DEF Feed!FeedTypeOK
<1> HIDE DEF ids, moment
<1>4. Feed!FeedTypeOK'
  BY <1>1, <1>2, <1>3 DEF Feed!FeedTypeOK
<1>5. Feed!FeedSkipsNothingUnlessLate'
  <2> SUFFICES ASSUME NEW m \in Feed!Ids, m \notin late', have[m] # docs'[m].version
               PROVE  docs'[m].version > 0 /\ Feed!ComesAfter(docs'[m].at, m, mark.at, mark.id)
    BY <1>1 DEF Feed!FeedSkipsNothingUnlessLate, Feed!Changed, Feed!IsAfter
  <2>1. CASE m \in ids
    BY <1>1, <1>3, <2>1, DocsAreNumbers
  <2>2. CASE m \notin ids
    BY <1>1, <1>3, <2>2 DEF Feed!FeedSkipsNothingUnlessLate, Feed!Changed, Feed!IsAfter
  <2> QED BY <2>1, <2>2
<1>6. ChangedIsNews'
  <2> SUFFICES ASSUME NEW m \in Feed!Ids
               PROVE  /\ have[m] <= docs'[m].version
                      /\ /\ docs'[m].version > 0
                         /\ Feed!ComesAfter(docs'[m].at, m, mark.at, mark.id)
                         => have[m] # docs'[m].version
    BY <1>1 DEF ChangedIsNews, Feed!Changed, Feed!IsAfter
  <2>1. CASE m \in ids
    BY <1>3, <2>1, DocsAreNumbers DEF ChangedIsNews
  <2>2. CASE m \notin ids
    BY <1>3, <2>2 DEF ChangedIsNews, Feed!Changed, Feed!IsAfter
  <2> QED BY <2>1, <2>2
<1> QED BY <1>4, <1>5, <1>6

\* A device gets a page and moves its watermark to the last row.
LEMMA FeedInvSync ==
  ASSUME FeedInv, NEW limit \in Limits, Feed!SyncSince(limit)
  PROVE  FeedInv'
<1> USE FeedConstants DEF FeedInv
<1> DEFINE page == Feed!Page(Feed!Changed, Feed!Clamp(limit))
<1>1. /\ have' = [m \in Feed!Ids |-> IF m \in page THEN docs[m].version ELSE have[m]]
      /\ more' \in BOOLEAN
      /\ UNCHANGED <<now, docs, writes, late>>
      /\ \/ page = {} /\ UNCHANGED mark
         \/ \E last \in page : /\ \A n \in page : n = last \/ Feed!Before(n, last)
                              /\ mark' = [at |-> docs[last].at, id |-> last]
  BY DEF Feed!SyncSince
<1>2. /\ Feed!Changed \subseteq Feed!Ids /\ page \subseteq Feed!Changed
      /\ Feed!Clamp(limit) \in Nat
  BY DEF Feed!Changed, Feed!Page, Feed!Clamp
<1>3. \A m \in page : docs[m].version > 0
  BY <1>2 DEF Feed!Changed
<1>4. \A last \in page, m \in Feed!Changed \ page : Feed!Before(last, m)
  BY <1>2, PageIsFirst
<1> HIDE DEF page
<1>5. Feed!FeedTypeOK'
  <2>1. have' \in [Feed!Ids -> 0..MaxEdits]
    BY <1>1 DEF Feed!FeedTypeOK
  <2>2. mark' \in [at : 0..MaxStamp, id : 0..MaxId]
    BY <1>1, <1>2 DEF Feed!FeedTypeOK, Feed!Ids
  <2> QED BY <1>1, <2>1, <2>2 DEF Feed!FeedTypeOK
<1>6. Feed!FeedSkipsNothingUnlessLate'
  <2> SUFFICES ASSUME NEW m \in Feed!Ids, m \notin late, have'[m] # docs[m].version
               PROVE  docs[m].version > 0 /\ Feed!ComesAfter(docs[m].at, m, mark'.at, mark'.id)
    BY <1>1 DEF Feed!FeedSkipsNothingUnlessLate, Feed!Changed, Feed!IsAfter
  <2>1. m \notin page /\ m \in Feed!Changed
    BY <1>1 DEF Feed!FeedSkipsNothingUnlessLate
  <2>2. docs[m].version > 0 /\ Feed!ComesAfter(docs[m].at, m, mark.at, mark.id)
    BY <2>1 DEF Feed!Changed, Feed!IsAfter
  <2>3. ASSUME NEW last \in page, mark' = [at |-> docs[last].at, id |-> last]
        PROVE  Feed!ComesAfter(docs[m].at, m, mark'.at, mark'.id)
    BY <1>4, <2>1, <2>3 DEF Feed!Before, Feed!IsAfter
  <2> QED BY <1>1, <2>2, <2>3
<1>7. ChangedIsNews'
  <2> SUFFICES ASSUME NEW m \in Feed!Ids
               PROVE  /\ have'[m] <= docs[m].version
                      /\ /\ docs[m].version > 0
                         /\ Feed!ComesAfter(docs[m].at, m, mark'.at, mark'.id)
                         => have'[m] # docs[m].version
    BY <1>1 DEF ChangedIsNews, Feed!Changed, Feed!IsAfter
  <2>1. CASE m \notin page
    <3>1. have'[m] = have[m]
      BY <1>1, <2>1
    <3>2. ASSUME docs[m].version > 0, Feed!ComesAfter(docs[m].at, m, mark'.at, mark'.id), m \notin Feed!Changed
          PROVE  FALSE
      <4>1. ~Feed!ComesAfter(docs[m].at, m, mark.at, mark.id)
        BY <3>2 DEF Feed!Changed, Feed!IsAfter
      <4>2. PICK last \in page : mark' = [at |-> docs[last].at, id |-> last]
        BY <1>1, <3>2, <4>1
      <4>3. Feed!ComesAfter(docs[last].at, last, mark.at, mark.id) /\ last \in Feed!Ids
        BY <1>2 DEF Feed!Changed, Feed!IsAfter
      <4>4. Feed!ComesAfter(docs[m].at, m, docs[last].at, last)
        BY <3>2, <4>2
      <4> QED BY <4>1, <4>3, <4>4, DocsAreNumbers DEF Feed!ComesAfter
    <3> QED BY <3>1, <3>2 DEF ChangedIsNews
  <2>2. CASE m \in page
    <3>1. PICK last \in page : /\ m = last \/ Feed!Before(m, last)
                              /\ mark' = [at |-> docs[last].at, id |-> last]
      BY <1>1, <2>2
    <3>2. ~Feed!ComesAfter(docs[m].at, m, docs[last].at, last)
      BY <1>2, <3>1, DocsAreNumbers DEF Feed!Before, Feed!IsAfter, Feed!ComesAfter
    <3>3. have'[m] = docs[m].version
      BY <1>1, <2>2
    <3> QED BY <3>1, <3>2, <3>3, DocsAreNumbers
  <2> QED BY <2>1, <2>2
<1> QED BY <1>5, <1>6, <1>7

LEMMA FeedInvStep == FeedInv /\ [Feed!FeedNext]_feed => FeedInv'
<1> SUFFICES ASSUME FeedInv, [Feed!FeedNext]_feed PROVE FeedInv'
  OBVIOUS
<1> USE FeedConstants DEF FeedInv
<1>1. CASE Feed!Tick
  <2>1. Feed!FeedTypeOK'
    BY <1>1 DEF Feed!Tick, Feed!FeedTypeOK
  <2> QED BY <1>1, <2>1 DEF Feed!Tick, Feed!FeedSkipsNothingUnlessLate, ChangedIsNews, Feed!Changed, Feed!IsAfter
<1>2. ASSUME NEW w \in Writers, NEW ids \in SUBSET Feed!Ids, Feed!Stamp(w, ids) PROVE FeedInv'
  <2>1. Feed!FeedTypeOK'
    BY <1>2 DEF Feed!Stamp, Feed!FeedTypeOK
  <2> QED BY <1>2, <2>1 DEF Feed!Stamp, Feed!FeedSkipsNothingUnlessLate, ChangedIsNews, Feed!Changed, Feed!IsAfter
<1>3. CASE Feed!Reconnect \/ UNCHANGED feed
  <2>1. Feed!FeedTypeOK'
    BY <1>3 DEF Feed!Reconnect, feed, Feed!FeedTypeOK
  <2> QED BY <1>3, <2>1 DEF Feed!Reconnect, feed, Feed!FeedSkipsNothingUnlessLate, ChangedIsNews, Feed!Changed, Feed!IsAfter
<1> QED BY <1>1, <1>2, <1>3, FeedInvLand, FeedInvSync DEF Feed!FeedNext

LEMMA FeedInvAlways == SweepsSpec => []FeedInv
<1>1. SweepsInit => FeedInv
  BY FeedInvStart DEF SweepsInit
<1>2. FeedInv /\ [SweepsNext]_all => FeedInv'
  <2> SUFFICES ASSUME [SweepsNext]_all PROVE [Feed!FeedNext]_feed
    BY FeedInvStep
  <2> QED BY DEF SweepsNext, OfDecisions, OfReminders, OfFeed, all, feed
<1> QED BY <1>1, <1>2, PTL DEF SweepsSpec

\* However writes come to light and pages are cut, whatever a device does not have as it is
\* is still ahead of its watermark, unless it came to light behind it (changedSince and
\* syncSince).
THEOREM FeedLeavesNothingBehind == SweepsSpec => []FeedSkipsNothingUnlessLate
<1>1. FeedInv => FeedSkipsNothingUnlessLate
  BY DEF FeedInv, FeedSkipsNothingUnlessLate
<1> QED BY <1>1, FeedInvAlways, PTL

\* And no page brings what the device already has: the watermark's own row, and rows of
\* its instant that were sent, do not come again.
THEOREM FeedRepeatsNothing == SweepsSpec => Feed!FeedRepeatsNothing
<1> DEFINE Fresh == \A limit \in Limits : Feed!SyncSince(limit) =>
                     \A m \in Feed!Page(Feed!Changed, Feed!Clamp(limit)) : have[m] # docs[m].version
<1>1. FeedInv => [Fresh]_feed
  <2>1. \A limit \in Limits : Feed!Page(Feed!Changed, Feed!Clamp(limit)) \subseteq Feed!Changed /\ Feed!Changed \subseteq Feed!Ids
    BY DEF Feed!Page, Feed!Changed
  <2> QED BY <2>1 DEF FeedInv, ChangedIsNews
<1>2. SweepsSpec => [][Fresh]_feed
  BY <1>1, FeedInvAlways, PTL
<1> QED BY <1>2 DEF Feed!FeedRepeatsNothing, Feed!feedVars, feed
=============================================================================
