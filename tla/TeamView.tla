------------------------------ MODULE TeamView ------------------------------
(***************************************************************************)
(* Who is told of whose attendance: the live line of a punch and the       *)
(* night's summary in a branch's HR channel, the team view and the history *)
(* (src/src/mongo/attendance/attendance.service.ts, attendanceBranch.ts,   *)
(* punchMessage.ts).                                                       *)
(*                                                                         *)
(* A row belongs to a day of the business's clock, a line and a summary to *)
(* a day of the branch's.  A day has four slots, the last of them from     *)
(* 10 pm; a branch that is behind the business's clock is so by a slot.    *)
(* One tenant; what a single row goes through is AttendanceDay's subject.  *)
(***************************************************************************)
EXTENDS Naturals, FiniteSets, Sequences

CONSTANTS
  Staff,
  Level,         \* of each one's role: 1 super admin, 2 company manager, 3 branch manager, 4, 5
  Hidden,        \* directors, whose attendance is recorded in silence
  CrmBranches,   \* branch_ids of each one, a sequence
  Branches, Code, City,   \* branch rows, with the code and the city they carry
  Channels,      \* the codes with an HR channel
  Behind,        \* the codes whose clock is a slot behind
  Wfh,           \* <<person, day>> with an approved work from home
  MaxTime,       \* bound: the last slot
  MaxPunches, MaxMoves   \* bounds

VARIABLES
  slot,          \* the clock
  work,          \* user_work_branches
  exempt,        \* attendance_exempt
  rows,          \* what each one's row of each day says: "none", "in", "out"
  lines,         \* punches whose line is on its way
  told,          \* the lines in the channels
  summaries,     \* the summaries: [code, day, listed, absent], with who had come
  attempted,     \* reportedTonight, of this process
  tick,          \* the report under way: its buckets and the codes that are left
  view,          \* the team view under way
  punched, moves,   \* so far
  moved,         \* history: people who were moved or (un)exempted
  sinceView,     \* history: those of them since the view began
  blind,         \* history: codes whose report could not read who works from home
  arrived        \* history: <<person, day>> with a check-in before the business's midnight

teamVars == <<slot, work, exempt, rows, lines, told, summaries, attempted, tick, view, punched,
              moves, moved, sinceView, blind, arrived>>

None  == "none"
Days  == 0..(MaxTime \div 4)
Codes == {Code[b] : b \in Branches} \cup {"BOM"}

-----------------------------------------------------------------------------
(* Days and branches. *)

todayKey == slot \div 4

\* A clock that is behind is so by one slot; the first day has begun everywhere.
LocalSlot(code, at) == IF code \in Behind THEN at - 1 ELSE at
dayKeyIn(code, at)  == LocalSlot(code, at) \div 4
autoCloseDue(code, day) == LocalSlot(code, slot) >= 4 * day + 3

\* The old code of Mumbai is Mumbai's, and a branch without a code has its city's.
attendanceBranchCode(b) ==
  CASE b = None -> ""
    [] b # None /\ Code[b] = "MUM" -> "BOM"
    [] b # None /\ Code[b] \notin {"MUM", ""} -> Code[b]
    [] OTHER -> IF City[b] = "mumbai" THEN "BOM" ELSE ""

\* The working branch, and else the first one of the CRM.
WorkBranch(p) ==
  IF work[p] # None THEN work[p]
  ELSE IF CrmBranches[p] # << >> THEN Head(CrmBranches[p]) ELSE None

Tracked(p) == p \in Hidden \/ p \notin exempt

-----------------------------------------------------------------------------
(* The views. *)

canManage(v)   == Level[v] <= 2
OwnBranches(v) == {CrmBranches[v][i] : i \in DOMAIN CrmBranches[v]}

\* teamScope: the branches whose people v oversees.
teamScope(v) ==
  CASE canManage(v) -> [seesTeam |-> TRUE, branchIds |-> Branches \cup {None}]
    [] ~canManage(v) /\ Level[v] <= 3 /\ OwnBranches(v) # {} -> [seesTeam |-> TRUE, branchIds |-> OwnBranches(v)]
    [] OTHER -> [seesTeam |-> FALSE, branchIds |-> Branches \cup {None}]

\* The list without those who are not tracked; the hidden are for the super admin.
Listed(v) ==
  {p \in IF teamScope(v).seesTeam THEN Staff ELSE {v} :
     IF p \in Hidden THEN Level[v] = 1 ELSE p \notin exempt}

Present(p, d) == rows[p][d] \in {"in", "out"}

\* history: the days listed to a person or, in full, to a manager, and those he was present on.
History(p, full) ==
  LET recorded == {d \in Days : rows[p][d] # "none"}
  IN {d \in 0..todayKey : full \/ \E first \in recorded : first <= d}
PresentDays(p, full) == {d \in History(p, full) : Present(p, d)}

-----------------------------------------------------------------------------
NoTick == [codes |-> {}, of |-> [p \in {} |-> ""]]
NoView == [by |-> None]

TeamInit ==
  /\ slot = 1
  /\ work \in [Staff -> {None} \cup Branches]
  /\ exempt = {}
  /\ rows = [p \in Staff |-> [d \in Days |-> "none"]]
  /\ lines = {} /\ told = {} /\ summaries = {} /\ attempted = {}
  /\ tick = NoTick /\ view = NoView
  /\ punched = 0 /\ moves = 0
  /\ moved = {} /\ sinceView = {} /\ blind = {} /\ arrived = {}

PassTime ==
  /\ slot < MaxTime /\ slot' = slot + 1
  /\ UNCHANGED <<work, exempt, rows, lines, told, summaries, attempted, tick, view, punched,
                 moves, moved, sinceView, blind, arrived>>

\* checkIn, checkOut; the gate of office and photo has let it through.
Punch(p, action) ==
  /\ punched < MaxPunches /\ Tracked(p)
  /\ (action = "out") = (rows[p][todayKey] = "in")
  /\ rows' = [rows EXCEPT ![p][todayKey] = action]
  /\ punched' = punched + 1
  /\ arrived' = IF action = "in" /\ dayKeyIn(attendanceBranchCode(WorkBranch(p)), slot) = todayKey
                THEN arrived \cup {<<p, todayKey>>} ELSE arrived
  /\ lines' = IF p \in Hidden THEN lines ELSE lines \cup {[who |-> p, action |-> action, at |-> slot]}
  /\ UNCHANGED <<slot, work, exempt, told, summaries, attempted, tick, view, moves, moved, sinceView, blind>>

\* As PunchBranch, but the first branch of the CRM for everybody.
PunchBranchOfCrm(p) == IF CrmBranches[p] # << >> THEN Head(CrmBranches[p]) ELSE None
PunchBranch(p) == WorkBranch(p)

\* postPunchToHrChannel, whenever it comes to it; it may fail, and its key keeps it to one.
PostPunch(l) ==
  /\ l \in lines /\ lines' = lines \ {l}
  /\ LET code == attendanceBranchCode(PunchBranch(l.who))
         line == [code |-> code, day |-> dayKeyIn(code, l.at), who |-> l.who, action |-> l.action]
     IN told' \in {told} \cup IF code \in Channels THEN {told \cup {line}} ELSE {}
  /\ UNCHANGED <<slot, work, exempt, rows, summaries, attempted, tick, view, punched, moves,
                 moved, sinceView, blind, arrived>>

Moves(p) ==
  /\ moves < MaxMoves /\ moves' = moves + 1
  /\ moved' = moved \cup {p}
  /\ sinceView' = IF view = NoView THEN {} ELSE sinceView \cup {p}
  /\ UNCHANGED <<slot, rows, lines, told, summaries, attempted, tick, view, punched, blind, arrived>>

assignUserWorkBranch(p, b) ==
  /\ b # work[p] /\ work' = [work EXCEPT ![p] = b] /\ Moves(p) /\ UNCHANGED exempt

setExempt(p) ==
  /\ exempt' = IF p \in exempt THEN exempt \ {p} ELSE exempt \cup {p}
  /\ Moves(p) /\ UNCHANGED work

-----------------------------------------------------------------------------
(* The night's report: the directory is read once, and each branch's records when its turn comes. *)

\* The people of each code; whoever has none belongs to no report.
Buckets == [p \in {q \in Staff \ (exempt \cup Hidden) : attendanceBranchCode(WorkBranch(q)) # ""}
              |-> attendanceBranchCode(WorkBranch(p))]

\* The branch's own day.
ReportedDay(c) == dayKeyIn(c, slot)

\* Only where the branch's own night has come, and no attempt was made.
Due == {c \in Codes : autoCloseDue(c, ReportedDay(c)) /\ <<c, ReportedDay(c)>> \notin attempted}

StartReport ==
  /\ view = NoView /\ tick = NoTick /\ slot % 4 \in {0, 3} /\ Due # {}
  /\ tick' = [codes |-> {Buckets[p] : p \in DOMAIN Buckets} \cap Due, of |-> Buckets]
  /\ UNCHANGED <<slot, work, exempt, rows, lines, told, summaries, attempted, view, punched, moves, moved, sinceView, blind, arrived>>

\* A branch's summary; a second one of the day is a duplicate, and a failed one is not tried again.
dayCloseReport(c) ==
  LET day    == ReportedDay(c)
      people == {p \in DOMAIN tick.of : tick.of[p] = c}
      here   == {p \in people : Present(p, day)}
  IN /\ c \in tick.codes
     /\ tick' = IF tick.codes = {c} THEN NoTick ELSE [tick EXCEPT !.codes = @ \ {c}]
     /\ attempted' = attempted \cup {<<c, day>>}
     /\ \E read \in {TRUE, \A p \in people : <<p, day>> \notin Wfh} :
          LET home == IF read THEN {p \in people : <<p, day>> \in Wfh} ELSE {}
              made == [code |-> c, day |-> day, listed |-> people,
                       absent |-> people \ (here \cup home),
                       came |-> {p \in people : <<p, day>> \in arrived}]
              old  == {s \in summaries : s.code = c /\ s.day = day}
          IN /\ summaries' \in {summaries} \cup
                               IF c \in Channels /\ old = {} THEN {summaries \cup {made}} ELSE {}
             /\ blind' = IF read THEN blind ELSE blind \cup {c}
  /\ UNCHANGED <<slot, work, exempt, rows, lines, told, view, punched, moves, moved, sinceView, arrived>>

Restart ==
  /\ tick # NoTick \/ lines # {} \/ view # NoView
  /\ tick' = NoTick /\ lines' = {} /\ view' = NoView /\ attempted' = {} /\ sinceView' = {}
  /\ UNCHANGED <<slot, work, exempt, rows, told, summaries, punched, moves, moved, blind, arrived>>

-----------------------------------------------------------------------------
(* A team view: who is listed is read first, then where they work, and last the day's records. *)

\* It reads nothing that a line or a report writes, so that it is followed without them.
OpenTeam(v, d) ==
  /\ lines = {} /\ told = {} /\ tick = NoTick /\ summaries = {} /\ attempted = {}
  /\ view = NoView /\ d <= todayKey
  /\ view' = [by |-> v, day |-> d, people |-> Listed(v), placed |-> FALSE]
  /\ sinceView' = {}
  /\ UNCHANGED <<slot, work, exempt, rows, lines, told, summaries, attempted, tick, punched, moves,
                 moved, blind, arrived>>

\* A branch manager's is narrowed to the people who work in those branches, and himself.
PlaceTeam ==
  /\ view # NoView /\ ~view.placed
  /\ view' = [view EXCEPT !.placed = TRUE,
                !.people = {p \in @ : WorkBranch(p) \in teamScope(view.by).branchIds \/ p = view.by}]
  /\ UNCHANGED <<slot, work, exempt, rows, lines, told, summaries, attempted, tick, punched, moves, moved, sinceView, blind, arrived>>

\* The records are read and the view is answered.
AnswerTeam ==
  /\ view # NoView /\ view.placed /\ view' = NoView /\ sinceView' = {}
  /\ UNCHANGED <<slot, work, exempt, rows, lines, told, summaries, attempted, tick, punched, moves,
                 moved, blind, arrived>>

TeamNext ==
  \/ PassTime \/ StartReport \/ Restart \/ PlaceTeam \/ AnswerTeam
  \/ \E p \in Staff :
       \/ \E action \in {"in", "out"} : Punch(p, action)
       \/ \E b \in Branches \cup {None} : assignUserWorkBranch(p, b)
       \/ setExempt(p)
       \/ \E d \in Days : OpenTeam(p, d)
  \/ \E l \in lines : PostPunch(l)
  \/ \E c \in Codes : dayCloseReport(c)

-----------------------------------------------------------------------------
TeamTypeOK ==
  /\ slot \in 0..MaxTime
  /\ work \in [Staff -> {None} \cup Branches] /\ exempt \subseteq Staff
  /\ rows \in [Staff -> [Days -> {"none", "in", "out"}]]
  /\ {l.who : l \in lines \cup told} \subseteq Staff
  /\ attempted \subseteq Codes \X Days
  /\ moved \cup sinceView \subseteq Staff

\* A person's live line and their line in that night's summary are in one channel,
\* unless they were moved: the claim of attendance.service.ts:372.
OneChannelUnlessMoved ==
  \A l \in told, s \in summaries :
    l.day = s.day /\ l.who \in s.listed => l.code = s.code \/ l.who \in moved

\* A day has one summary in each branch and a person is in one of them, unless moved; and
\* nobody hidden is in a line or a summary.
OneSummaryEachUnlessMoved ==
  /\ \A s, t \in summaries :
       s # t /\ s.day = t.day => s.code # t.code /\ s.listed \cap t.listed \subseteq moved
  /\ \A l \in told : l.who \notin Hidden
  /\ \A s \in summaries : s.listed \cap Hidden = {}

\* Whoever has checked in by the summary of the branch's day is not absent in it, unless the
\* branch was at that day when the business had the next one already.
WhoCameIsNotAbsent == \A s \in summaries : s.absent \cap s.came = {}

\* Nobody who works from home is absent, unless the overrides could not be read.
HomeIsNotAbsentUnlessBlind ==
  \A s \in summaries : \A p \in s.absent : <<p, s.day>> \in Wfh => s.code \in blind

\* A team view has the people its viewer oversees, all of them that are tracked, and the
\* hidden for nobody but the super admin; and whoever it says was present is so in their history.
ViewIsOfOverseenUnlessMoved ==
  view # NoView =>
    LET v == view.by
        mine == {p \in Staff : p = v \/ (teamScope(v).seesTeam /\ WorkBranch(p) \in teamScope(v).branchIds)}
    IN /\ view.people \cap Hidden # {} => Level[v] = 1
       /\ mine \ (exempt \cup Hidden \cup sinceView) \subseteq view.people
       /\ view.placed => view.people \subseteq mine \cup sinceView
       /\ \A p \in view.people : Present(p, view.day) =>
            \A full \in BOOLEAN : view.day \in PresentDays(p, full)
=============================================================================
