------------------------------- MODULE HrAsks -------------------------------
(***************************************************************************)
(* Asking for leave, work from home and Saturday swaps: the rows of        *)
(* hr_leave_applications this backend files, answers and withdraws         *)
(* (src/src/mongo/hr) and the ERP, which shares the collection, decides.   *)
(*                                                                         *)
(* Filing reads what is open and inserts some awaits later; accepting a    *)
(* swap reads what is decided and writes some awaits later.  The writes    *)
(* that only ask for a pending row are single conditional updates.         *)
(* What HR's own system does is external: a guess from how this backend    *)
(* reads its rows.                                                         *)
(***************************************************************************)
EXTENDS Naturals, FiniteSets

CONSTANTS
  Users,      \* CRM user ids with an HR record
  LastDay,    \* the calendar is the days 1..LastDay
  Saturdays,  \* the days of it that a swap may trade
  OffByRule,  \* the Saturdays each user's week-off rule gives them
  Asks,       \* row ids: how many asks a behaviour may file
  Handlers    \* HTTP handlers that may be between their read and their write

Days == 1..LastDay

ASSUME AskConstants ==
  /\ LastDay \in Nat
  /\ Saturdays \subseteq Days
  /\ OffByRule \in [Users -> SUBSET Saturdays]

VARIABLES
  asks,      \* hr_leave_applications
  decided,   \* hr_attendance_overrides: the person-days HR has decided
  handlers,  \* what each handler in flight is about to write
  hasty      \* history: day asks filed on a reading another ask had overtaken

vars == <<asks, decided, handlers, hasty>>

NoAsk == [kind |-> "none"]
Idle  == [pc |-> "idle"]

Spans    == {f..t : f, t \in Days} \ {{}}
Statuses == {"pending", "approved", "rejected", "cancelled"}

DayAsk ==
  [kind : {"day"}, user : Users, days : Spans, source : {"self", "sheet"},
   status : Statuses, marked : SUBSET Days]

SwapAsk ==
  {s \in [kind : {"swap"}, user : Users, partner : Users, work : Saturdays, off : Saturdays,
          status : Statuses, answer : {"pending", "accepted", "declined"}] :
     s.user # s.partner /\ s.work # s.off}

\* Once its check has passed, a handler is committed to what it will insert or write.
Filing    == [pc : {"file"}, ask : {f \in DayAsk : f.status = "pending" /\ f.marked = {}},
              overtaken : BOOLEAN]
Swapping  == [pc : {"swap"}, ask : {s \in SwapAsk : s.status = "pending" /\ s.answer = "pending"}]
Accepting == [pc : {"accept"}, id : Asks]

TypeOK ==
  /\ asks \in [Asks -> {NoAsk} \cup DayAsk \cup SwapAsk]
  /\ decided \subseteq Users \X Days
  /\ handlers \in [Handlers -> {Idle} \cup Filing \cup Swapping \cup Accepting]
  /\ hasty \subseteq Asks

Init ==
  /\ asks = [a \in Asks |-> NoAsk]
  /\ decided = {}
  /\ handlers = [h \in Handlers |-> Idle]
  /\ hasty = {}

Goto(h, next) == handlers' = [handlers EXCEPT ![h] = next]

IsDayAsk(a)  == asks[a].kind = "day"
IsSwap(a)    == asks[a].kind = "swap"
IsPending(a) == asks[a] # NoAsk /\ asks[a].status = "pending"
IsOpen(a)    == asks[a] # NoAsk /\ asks[a].status \in {"pending", "approved"}

-----------------------------------------------------------------------------
(* Leave and work from home: they clash with each other and differ only in  *)
(* their kind, which nothing here reads.                                   *)

\* The days an open ask keeps from others: its span while it waits, then only
\* the days that were marked.
Claimed(ask) == IF ask.status = "pending" THEN ask.days
                ELSE IF ask.status = "approved" THEN ask.marked ELSE {}

\* Regression: an approved ask no longer blocks anything.
LeaveClashPendingOnly(u, days) ==
  \E a \in Asks : IsDayAsk(a) /\ IsPending(a) /\ asks[a].user = u /\ asks[a].days \cap days # {}

LeaveClash(u, days) ==
  \E a \in Asks : IsDayAsk(a) /\ asks[a].user = u /\ Claimed(asks[a]) \cap days # {}

NewDayAsk(u, days, source) ==
  [kind |-> "day", user |-> u, days |-> days, source |-> source,
   status |-> "pending", marked |-> {}]

\* applyLeave and wfh's apply, up to the overlap check; 409 on a clash.
ReadForApply(h, u, days) ==
  /\ handlers[h] = Idle
  /\ ~LeaveClash(u, days)
  /\ Goto(h, [pc |-> "file", ask |-> NewDayAsk(u, days, "self"), overtaken |-> FALSE])
  /\ UNCHANGED <<asks, decided, hasty>>

\* A row for u has come in: whoever checked before it did is overtaken.
Overtake(u, next) ==
  handlers' = [g \in Handlers |->
    IF next[g].pc = "file" /\ next[g].ask.user = u THEN [next[g] EXCEPT !.overtaken = TRUE]
    ELSE next[g]]

InsertDayAsk(h, a) ==
  LET w == handlers[h] IN
  /\ w.pc = "file"
  /\ asks[a] = NoAsk
  /\ asks' = [asks EXCEPT ![a] = w.ask]
  /\ hasty' = IF w.overtaken THEN hasty \cup {a} ELSE hasty
  /\ Overtake(w.ask.user, [handlers EXCEPT ![h] = Idle])
  /\ UNCHANGED decided

-----------------------------------------------------------------------------
(* Saturday swaps. *)

People(s)    == {s.user, s.partner}
Traded(s)    == {s.work, s.off}
Conflict(s, t) == People(s) \cap People(t) # {} /\ Traded(s) \cap Traded(t) # {}

NewSwap(u, v, work, off) ==
  [kind |-> "swap", user |-> u, partner |-> v, work |-> work, off |-> off,
   status |-> "pending", answer |-> "pending"]

\* What swapProblem asks of the two week-off rules.
FitsRules(s) ==
  /\ s.work \in OffByRule[s.user]    /\ s.off \notin OffByRule[s.user]
  /\ s.off  \in OffByRule[s.partner] /\ s.work \notin OffByRule[s.partner]

\* Nothing is decided for either person on either Saturday, and no other open
\* swap touches them.  (Two queries made at once, taken as one reading.)
Undecided(s, except) ==
  /\ decided \cap (People(s) \X Traded(s)) = {}
  /\ \A a \in Asks \ except : IsSwap(a) /\ IsOpen(a) => ~Conflict(s, asks[a])

ReadForSwap(h, u, v, work, off) ==
  LET s == NewSwap(u, v, work, off) IN
  /\ handlers[h] = Idle
  /\ u # v
  /\ work # off
  /\ FitsRules(s)
  /\ Undecided(s, {})
  /\ Goto(h, [pc |-> "swap", ask |-> s])
  /\ UNCHANGED <<asks, decided, hasty>>

InsertSwap(h, a) ==
  /\ handlers[h].pc = "swap"
  /\ asks[a] = NoAsk
  /\ asks' = [asks EXCEPT ![a] = handlers[h].ask]
  /\ Goto(h, Idle)
  /\ UNCHANGED <<decided, hasty>>

\* Regression: what was decided since the swap was asked is not looked at.
ReadForAcceptUnchecked(h, a) ==
  /\ handlers[h] = Idle
  /\ IsSwap(a) /\ IsPending(a) /\ asks[a].answer = "pending"
  /\ Goto(h, [pc |-> "accept", id |-> a])
  /\ UNCHANGED <<asks, decided, hasty>>

\* The partner accepts: the row is read, then the Saturdays are checked again.
\* The row's state is asserted by the write, so the two reads are one step.
ReadForAccept(h, a) ==
  /\ handlers[h] = Idle
  /\ IsSwap(a) /\ IsPending(a) /\ asks[a].answer = "pending"
  /\ Undecided(asks[a], {a})
  /\ Goto(h, [pc |-> "accept", id |-> a])
  /\ UNCHANGED <<asks, decided, hasty>>

\* answerSwap's filter.
Unanswered(a) == IsSwap(a) /\ IsPending(a) /\ asks[a].answer = "pending"

\* Regression: the update names the row only.
AcceptById(h) ==
  LET a == handlers[h].id IN
  /\ handlers[h].pc = "accept"
  /\ asks' = [asks EXCEPT ![a].answer = "accepted"]
  /\ Goto(h, Idle)
  /\ UNCHANGED <<decided, hasty>>

\* 409 if it was withdrawn or answered meanwhile.
Accept(h) ==
  LET a == handlers[h].id IN
  /\ handlers[h].pc = "accept"
  /\ asks' = IF Unanswered(a) THEN [asks EXCEPT ![a].answer = "accepted"] ELSE asks
  /\ Goto(h, Idle)
  /\ UNCHANGED <<decided, hasty>>

\* Regression: the row's status is given the answer's value, which no queue reads.
DeclineMirrored(a) ==
  /\ Unanswered(a)
  /\ asks' = [asks EXCEPT ![a].answer = "declined", ![a].status = "declined"]
  /\ UNCHANGED <<decided, handlers, hasty>>

\* Declining reads nothing that its filter does not assert.
Decline(a) ==
  /\ Unanswered(a)
  /\ asks' = [asks EXCEPT ![a].answer = "declined", ![a].status = "rejected"]
  /\ UNCHANGED <<decided, handlers, hasty>>

-----------------------------------------------------------------------------
\* Withdrawing: the person's own row, pending, and not one HR raised.
Cancel(a) ==
  /\ IsPending(a)
  /\ IsDayAsk(a) => asks[a].source = "self"
  /\ asks' = [asks EXCEPT ![a].status = "cancelled"]
  /\ UNCHANGED <<decided, handlers, hasty>>

\* The process restarts.
Crash ==
  /\ handlers' = [h \in Handlers |-> Idle]
  /\ UNCHANGED <<asks, decided, hasty>>

-----------------------------------------------------------------------------
(* The ERP. *)

ErpFile(a, u, days) ==
  /\ asks[a] = NoAsk
  /\ ~LeaveClash(u, days)
  /\ asks' = [asks EXCEPT ![a] = NewDayAsk(u, days, "sheet")]
  /\ Overtake(u, handlers)
  /\ UNCHANGED <<decided, hasty>>

\* The last signature marks days of the span; those it skips stay free.
ErpApproveDays(a, marked) ==
  /\ IsDayAsk(a) /\ IsPending(a)
  /\ marked \subseteq asks[a].days
  /\ asks' = [asks EXCEPT ![a].status = "approved", ![a].marked = marked]
  /\ decided' = decided \cup ({asks[a].user} \X marked)
  /\ UNCHANGED <<handlers, hasty>>

\* "The ERP checks it again": nothing is decided on the four person-days.
ErpApproveSwap(a) ==
  LET cells == People(asks[a]) \X Traded(asks[a]) IN
  /\ IsSwap(a) /\ IsPending(a) /\ asks[a].answer = "accepted"
  /\ decided \cap cells = {}
  /\ asks' = [asks EXCEPT ![a].status = "approved"]
  /\ decided' = decided \cup cells
  /\ UNCHANGED <<handlers, hasty>>

ErpReject(a) ==
  /\ IsPending(a)
  /\ asks' = [asks EXCEPT ![a].status = "rejected"]
  /\ UNCHANGED <<decided, handlers, hasty>>

\* A leave day is removed again.
ErpUnmark(a, d) ==
  /\ IsDayAsk(a)
  /\ d \in asks[a].marked
  /\ asks' = [asks EXCEPT ![a].marked = @ \ {d}]
  /\ decided' = decided \ {<<asks[a].user, d>>}
  /\ UNCHANGED <<handlers, hasty>>

-----------------------------------------------------------------------------
Next ==
  \/ \E h \in Handlers, u \in Users, days \in Spans : ReadForApply(h, u, days)
  \/ \E h \in Handlers, a \in Asks :
       \/ InsertDayAsk(h, a)
       \/ InsertSwap(h, a)
       \/ ReadForAccept(h, a)
  \/ \E h \in Handlers, u, v \in Users, work, off \in Saturdays : ReadForSwap(h, u, v, work, off)
  \/ \E h \in Handlers : Accept(h)
  \/ \E a \in Asks : Decline(a)
  \/ \E a \in Asks : Cancel(a)
  \/ \E a \in Asks, u \in Users, days \in Spans : ErpFile(a, u, days)
  \/ \E a \in Asks, marked \in SUBSET Days : ErpApproveDays(a, marked)
  \/ \E a \in Asks : ErpApproveSwap(a)
  \/ \E a \in Asks : ErpReject(a)
  \/ \E a \in Asks, d \in Days : ErpUnmark(a, d)
  \/ Crash

Spec == Init /\ [][Next]_vars

-----------------------------------------------------------------------------
(* Properties. *)

\* One ask per day: two open asks of one person claim different days, unless
\* one of them was filed on a reading that the other had overtaken.
OneAskPerDayUnlessRace ==
  \A a, b \in Asks :
    a # b /\ IsDayAsk(a) /\ IsDayAsk(b) /\ asks[a].user = asks[b].user
      /\ Claimed(asks[a]) \cap Claimed(asks[b]) # {} =>
    a \in hasty \/ b \in hasty

\* A Saturday is agreed away once.  Two swaps asked at the same moment may both
\* be filed for it, but of two open swaps that share a person and a Saturday at
\* most one is ever accepted, in whatever order requests and answers interleave.
Agreed(a) == IsSwap(a) /\ IsOpen(a) /\ asks[a].answer = "accepted"

OneAgreementPerSaturday ==
  \A a, b \in Asks : a # b /\ Agreed(a) /\ Agreed(b) => ~Conflict(asks[a], asks[b])

\* What is decided stands: a row that is no longer pending changes only by HR
\* taking a marked day back, and a partner's answer is given once.
Stands(a) ==
  /\ asks[a] # NoAsk /\ ~IsPending(a) =>
       /\ asks'[a].status = asks[a].status
       /\ IsSwap(a) => asks'[a] = asks[a]
       /\ IsDayAsk(a) => asks'[a].marked \subseteq asks[a].marked
  /\ IsSwap(a) /\ asks[a].answer # "pending" => asks'[a].answer = asks[a].answer

DecisionsStand == [][\A a \in Asks : Stands(a)]_vars
=============================================================================
