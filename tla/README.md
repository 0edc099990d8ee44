# TLA+ verification of the KBiz 360 app back end

The back end (`src/src/mongo`, started by `src/src/mongo/main.ts`) is one Node process in front of
MongoDB.  HTTP handlers, socket handlers and timers run interleaved: every `await` lets another one in.
Two databases are involved: the app's own, and the CRM/ERP's, which the ERP writes at the same time.
There are no transactions; what protects a document is the filter of a single `updateOne` or
`findOneAndUpdate`, a unique index, a document version, or nothing.  That is what these models are about:
what is read before an `await` and relied on after it, what two handlers do to one document, and what a
crash, a lost signal or an expiry leaves behind.

Line numbers below refer to `src/`.  `PROJECT.json` maps each definition to the lines it stands for, lists
the hazards of the code with the properties that watch them, and names the theorems.

1. [The parts of the system](#the-parts-of-the-system)
2. [How the models are made](#how-the-models-are-made)
3. [Modules](#modules) and what their state and actions stand for
4. [Runs](#runs), their bounds and fairness
5. [What the violated runs say about the code](#what-the-violated-runs-say-about-the-code)
6. [Proofs](#proofs), and what is only model-checked
7. [What is not modelled](#what-is-not-modelled), and the plan

## The parts of the system

| part | state it keeps | operations | what is hard | what makes it correct |
|---|---|---|---|---|
| Approvals (`mongo/approvals`) | `approval_requests`: a chain of levels, each with its approvers' slots | create (own levels, or the earlier role picks), decide, cancel, list | plan against a read, write under a filter; two approvers of one level; withdrawal against decision; announcements nobody waits for | no level passed without its quorum; never stranded; a finished request is closed and stays; people hear of it when it reaches them and not before |
| Calls (`mongo/calls`) | `active_calls`, `call_logs`, ring timers and in-call flags in memory | initiate, accept, reject, end, ring timeout, TTL | timer against answer, end against end, insert-then-remove, restart, a TTL nobody extends | every ended call is in the history, once; a ringing call is watched; a dead call stays dead; presence is not stuck |
| HR asks (`mongo/hr`) | rows of `hr_leave_applications`, shared with the ERP, which decides them | apply for leave, work from home, time correction, Saturday swap; cancel; partner's answer; owner's decision | two writers that share no lock; check-then-insert; the day is written before the row is decided | one ask per day, one swap per Saturday, no record change without approval |
| HR decision sweep | a cursor in `hr_sweep_state` | every minute, and at once after a decision in the app | overlapping sweeps, cursor against late commits, failed alerts | everybody is told, once |
| Attendance (`mongo/attendance`) | one record per user and day, offices, day-close reports | check in and out, admin set day, auto-close, offices, team view, history | read-then-upsert from several devices and the minute sweep; several clocks | a punch is never lost or undone by a sweep; one report a night; lines and summaries agree |
| Location (`mongo/location`) | fixes of a day, a last-known marker | ingest, list | batches against a day that changes; resent and reordered batches | only fixes from working hours; the marker is the newest |
| Month, leave, pay (`mongo/hr`) | none of its own | readings over records, decisions and the HR record | two algorithms over the same rows; boundaries of months | charged once; the balance is the ledger; a payslip foots |
| Chat messages (`mongo/chat`) | conversations with unread counters and previews, messages with receipts | send, edit, delete, react, star, pin, forward, mark delivered and read, delete chat | idempotent sends, aggregates from stale reads, counters next to messages, document versions | a tick claims no receipt that was not given; unread matches messages; what is deleted stays gone |
| Chat groups | participants, twice | create, add, remove, promote, rename, delete | a roster read before it is written; posts into a group being deleted | one row each; nothing outlives the group |
| Catch-up feed | none; the device's watermark | `syncSince` | stamps older than their visibility; page boundaries | no change is skipped |
| Settings, presence, statuses (`mongo/chat`) | blocks, mutes, connection counts, away and in-call flags, last seen, stories | set, connect, disconnect, post, view | counts per socket, flags that outlive their cause, write-behind stamps, audiences kept with a story | online exactly while connected; seen by those it is meant for; the badge is the list |
| Reminders (`mongo/reminders`) | a reminder with state, due time and mark | create for many, complete, approve, reassign, edit, due sweep | read-then-update from two people, overlapping sweeps | a due push fires for its time and person; work is signed off as it was done |
| Alerts (`mongo/alerts`) | alert events with a dedupe key, grants, files | ingest from ERP and CRM, record, push, sweep of attachments | repeats of a post, stale audiences, half-done clean-ups | one event per key; pushed to exactly those who may open it |
| Sessions and app access (`mongo/auth.ts`, `appAccess.ts`) | refresh tokens, the switch, its cache | login, refresh, logout, switch off | rotation with a grace period, a request past the gate | nobody loses their session, nobody keeps one |
| Directory (`mongo/directory.service.ts`) | businesses, branches, members, departments | create, grant, delete | checks and writes of several admins | nothing names what is gone |
| Email (`email`) | accounts with a poll mark, smart folders | polling round, folder create, edit, drop | overlapping rounds, three stores written in turn | each mail announced, once; a rule for each folder |
| Push (`push`, `chat.push.ts`) | device tokens | register, ring, cancel, push | tokens that move while a sender works | rung once, and stopped |
| Prisma back end (`src/src/modules`, `queue`) | PostgreSQL | accounts, punches, reminders, chats, notifications | as above, without filters on the writes | as above |
| ERP proxy, boot migrations | none | forwarding, one-off conversion | -- | -- |

They interact by shared documents (the HR sweep reads what the asks and the ERP write; a time correction
writes an attendance day), by calls (every service records alerts and sends pushes), by socket signals
(bare ids; the client refetches through a filtered read) and by presence flags (calls set them, chat
broadcasts them).

## How the models are made

* A handler is a small program whose steps are what lies between two of its awaits.  What it has read and
  still relies on is a field of its record (`handlers[h]`, `req[h]`, `sweep[s]` ...); everything else may
  run in between.
* A refused request changes nothing and is left out, unless the refusal comes after a write.
* Texts, names, files and dates appear only as far as a property tells them apart.
* A `Crash` or `Restart` forgets the handlers and what is kept in memory, and no document.  A failed
  database call (`Fail`, `Abort`, `CutShort`, `DropRequest`) ends a handler between two of its steps.
* Properties that hold only while requests do not cross say so in their names (`...UnlessRaced`,
  `...UnlessCrossed`, `...UnlessOvertaken`).  The exception is a history variable which records that
  crossing, for the document or person it struck, and not that something went wrong at some time.  So such
  a property says: *this is the only way in which it can go wrong*.
* What the ERP, Outlook, Apple, Google and the phones do is external and modelled from what this code reads
  of it.

## Modules

### Approvals: `ApprovalChain`, `Approvals`, `ApprovalLifecycle`, `ApprovalSignals`

`ApprovalChain` is `approval.chain.ts`: building a chain (both request forms, and what the form suggests),
planning a decision or a withdrawal, whom a request has reached.  In `Approvals`, `docs[r]` is the stored
document: status, number of levels `n`, `current` (the code's index plus one), and per level its mode, its
status and one mark per user (`"none"` for people not on it).  `handlers[h]` is an HTTP handler that has read
(`before`) and not yet written.  `ReadForDecision` is `decide()` up to its second await, with the refusals of
`planDecision` as its guard; `WriteDecision` is the `findOneAndUpdate`, with the filter as `Unmoved` and the
`$set` as `DecisionSet`, computed from `before` and applied to whatever is stored now; `Stale` is the 409.
`ReadForCancel` and `WriteCancel` do the same for the withdrawal, whose filter is weaker.  A request is raised
in one step: its document is invisible before the insert.  Who can act (`CanAct`), ranks and branches are
constants: a person who loses App Access after being put on a chain is not modelled (the request then waits
until it is withdrawn).

`ApprovalLifecycle` is the promise: every decision is one atomic step, levels are left in order, one rejection
ends it.  `Approvals` implements it (`ImplementsLifecycle`, checked by `approvals_core` and proved).

`ApprovalSignals` gives every write the announcement it leaves behind: `Emit` is the synchronous part,
`Tell` what follows the look-up of names, `TellFails` and `SigCrash` lose it.  `desk[r]` is the set of
users whose client shows the request as theirs to decide; it changes only when a client refetches
(`Fetch`), because of a signal or on its own.  The clients are not in this repository; all that is assumed
is that they refetch on a signal.  The module also has the reads: lists and counts are filters over the
stored levels, the card and the single read look at `currentLevel` and the slots; `ShownIsTrue` says they
agree, and that once every signal is through, the desks show exactly whose turn it is.

### Calls

Each handler is a small program: `Initiate`, two `CheckBusy` reads in either order, `Ring` (the insert),
`ArmTimer`; `ReadForAccept`, `Answer`; `ReadForReject` / `ReadForEnd` / `RingTimeout`, `InsertLog`,
`Remove`, and `HangUp` for `end()` only.  `active[c]` keeps what became of a removed or expired document as
history.  There is no clock: the ring timer may fire, and the TTL may expire a document, at any moment
after it was set, because a handler may take arbitrarily long between two awaits.  `Fail` is a rejected
database call: a 500 in a handler, and the end of the process in the detached `markMissed`.  `trouble[c]`
is history: whether two handlers overlapped on the call or, worse, a fault struck it.

### HR: `HrAsks`, `TimeCorrections`, `DecisionSweep`, `MyMonth`, `PayMonth`

`HrAsks` keeps `hr_leave_applications` as `asks`, one record per row that exists, and the person-days HR has
decided as `decided`.  `ReadForApply` is `applyLeave` and work-from-home's `apply` up to the 409,
`InsertDayAsk` the insert; `ReadForSwap` and `InsertSwap` the swap request; `ReadForAccept` the partner's
acceptance up to its re-check, `Accept` the conditional `answerSwap`.  `Decline` and `Cancel` are one step:
nothing they read is relied on that their filter does not assert.  Leave and work from home differ in nothing
the rules look at, so both are asks of kind `day`.  The ERP shares no lock with this process; its saves are
single steps (it uses optimistic concurrency, which `__v` is there for).  `hasty` is history: the asks filed
although a row for the same person had come in since their check.

`TimeCorrections` keeps the rows of kind `time` with chain and signatures, and per day whose times the
attendance record shows.  An approval is three steps, as in `decide()`: `ReadForApprove` works the signatures
out, `ApplyAdminTimes` writes the record or refuses, `DecideApprove` writes the row if it still waits.  Three
chains occur: the standing one of older rows (FM, Director, Owner), the one filed today (Director, FM) and the
Director's own (Owner, FM).  `overtaken` is history: the asks that changed, or met a restart, while a decision
on them was between two of its awaits.  What the queues show of a row is an operator (`ToRegularizationDto`,
`PendingForAdmin`), and `QueueNamesNextLevel` says that it names the level that may sign next.

`DecisionSweep` has a clock, decided rows, the cursor and any number of sweeps.  A decision is `Stamp` (its
time is taken) and `Land` (it becomes visible), because `decide()` takes `decidedAt` awaits before the write.
A sweep is `LoadCursor`, `ReadRows`, one `Tell` per person, `SaveCursor`; nothing excludes a second one.
`Abort` is a failed look-up or save; a failed alert is an outcome of `Tell`.  `passed` is history: the rows a
sweep looked past before they were visible, or that the limit cut off within one millisecond.

`MyMonth` stores nothing: it lets day records and decisions change, and reckons the month anew, as
`attendanceMonth.ts`, `leaveRules.ts` and `leave.service.ts` do; the muster and the leave balance are two
readings of the same rows.  `PayMonth` walks `payRules.ts` month by month: professional tax, loans, earnings
and the payslip (`myPayslip` is kept in the code as a reference and no longer served).

### Attendance: `AttendanceDay`, `Offices`, `TeamView`, `LocationTrail`

`AttendanceDay` is one branch's day: `punch[h]` a check-in, a check-out or an administrator's times that has
read the row and not yet upserted it, `tick[t]` a run of the closing tick, one a minute (auto-close, then
the report), with the hour it looked at, the super admin's `AdminSetDay`, restarts.  Three histories: `crossed`
names the days something was written to from an old reading, `byAdmin` those whose times `AdminSetDay` wrote,
which it does in no order that is checked, and `since` of a tick whom it may rightly call "still in" (who
punched while it ran, or whose check-in or office end lay ahead, which `attendance.service.ts:950` passes
over).  Auto-close is off unless `ATTENDANCE_AUTOCLOSE` is set (`attendance.dayclose.ts:15`);
the model has it on, which is when it can meet a punch.  `geofenceExitStillInside` is used by its tests only.  `Offices` has the offices with
their default, the working branch and the gate of a punch.  `TeamView` has the live lines, the night's
summaries, the team view and the history over two clocks (the business's and the branch's), with people
moved between branches meanwhile.  `LocationTrail` has `Select`, `Store` and `Mark` of a batch apart; the live map and the trail of a day are
the operators `Live` and `Trail`, and `LiveIsOnOneTrail` says that the marker a manager sees is on exactly
one of them.

### Chat: `ChatMessages`, `MessageMarks`, `ChatSettings`, `ChatGroups`, `ChatFeed`, `Statuses`, `Presence`

`ChatMessages` is one conversation: `msgs` in order of arrival, with who has received, read or hidden each;
`conv` with counters, preview and cleared marks; `tasks[h]` a request between two of its awaits.  Sends,
service posts, receipts with the aggregate that turns them into ticks (`ReadForAggregates`,
`WriteAggregates`), edits, both deletions, delete chat, disappearing messages and failures
(`CutShort`) are actions; `races` records which crossings happened to which message or person.

`MessageMarks` has reactions, stars, pins, deletions and forwards as load, change, save; a save that
replaces an array asks for the `__v` it read (`Save`).  The thread, pinned, starred and search views are
operators, and `ViewsLeadToThread` says they never show what the thread hides.  A forward goes to its
destinations one after another and stops at the first refusal; forwarding a deleted media message sends
an empty card, as the code does.

`ChatSettings` has blocks, last seen, receipts, mute, archive, pin, the list, the badge, and the gate of
a send; its clock lets mutes run out.  A direct row of the list shows online and last seen whatever the
privacy settings say (`ConvDTO`, after `chat.service.ts:288`), while the presence route asks for blocks and
last seen (`Presence`).  `HiddenFromOthersUnlessListed` says so: the list is the only way it is told.
`ChatGroups` has the roster as it is kept twice, the requests that read it and write it later, posts, and
the one direct chat of two people.  `ChatFeed` has `syncSince` with its compound cursor.  `Statuses` posts
in three readings (peers, whom they block, who blocks them) and one write.  `Presence` has the counts,
soft-away, the broadcast, the write-behind of last seen, the heartbeat and restarts.

### Reminders, alerts, sessions, directory, email, push

`Reminders`: `ask[a]` a request that has read, `sweep[s]` a due sweep with its listing.  One by one, a listed
reminder is stamped (`Stamp`, an awaited update) and then pushed (`PushDue`); in between it is in `stamped`.
The update may fail (`StampFails`) or take effect with its answer lost (`StampUnheard`), and the process may
restart; `cut` is history, the reminders whose stamp no push followed.  The stamp is what keeps the next sweep
away (`reminder.service.ts:273`), so these are never pushed.  `AlertAccess`: the feed's and the push's audience
along their two separate paths, the cache of a minute, the two requests that write grants, the inbox and what
tapping a push opens (`Opens`).  The inbox is what its filter admits (`Admitted`) less what newer events have
pushed off (`Bury`): it takes the newest fifty of a channel (`alert.service.ts:36,176`).  The model does not
count the events of others, so any event may be pushed off at any time.  `AlertFeed`: attempts of one key that
overlap or are repeated, rooms found by name, files stored before the key is looked up, the attachment sweep.
Any call may fail, after a file was stored (`FailAttempt`; `SaveFile` for the earlier files of a bundle) or
after one was deleted (`ReapFails`), and a message may go and leave its file (`MessageGoes`).  `Sessions`:
tokens with rotation and grace, a device that may be killed before it stores an answer, the switch with its
cache.  `Directory`: businesses, branches and grants, each read, check and write apart.  `MailPoll`: rounds
that may overlap.  `SmartFolders`: the app's document, the folder in Outlook and its rule, written in turn.
`Push`: the readings of tokens, the rings and cancellations of a call over Apple and Firebase, and a
message's push over Firebase or else Expo.  Builds may lack Firebase (`firebase`), and the keys of a transport
or Expo's switch may be missing (`keys`).  A message falls back to Expo only when no phone of the person took
it over Firebase, so a phone that has Expo only is left out beside one that has both (`LeftToFirebase`).  An older iPhone is passed over when another phone of the person has a VoIP token, although
`call.service.ts:105-107` says that choosing by token avoids a silent miss; `LeftOutOnlyIfShadowed` states
the exception.

### The earlier back end: `PgRequests`, `PgAccounts`, `PgPunches`, `PgReminders`, `PgChats`, `PgNotices`

The Postgres API is superseded and the Dockerfile does not start it; its push worker is started by its tests
only.  `PgRequests` is what every handler has in common: it reads, checks, writes and appends to the audit
log, each call on its own.  Marking read and notifying append no row (`QuietRequest`, `WriteQuiet`; the history
`quiet` has them), so `EveryMutationIsAuditedUnlessCut` is stated of accounts, punches and reminders only and
chats and notifications have `AuditFollowsUnlessCutOrQuiet`.  The others are the users with their access filters and refresh tokens, punches,
reminders, a chat, and notifications with their queue.

## Runs

Four of the runs put several components into one behaviour.  Components that share no state are not
interleaved there: `which` (`part` in `workspace`) says which one a behaviour follows, the others rest as
they began, and a property of a component is conditional on it.  So one run costs the sum of its components and not their product, and
loses nothing, since there is nothing between them to interleave.

| run | follows | shows |
|---|---|---|
| `approvals_core` | one request | `TypeOK`, `SomebodyCanAct`, `ApprovedHasQuorum`, `FinalIsClosed`, `HistoryStands`, and that reads and conditional writes implement `ApprovalLifecycle` (`ImplementsLifecycle`) |
| `approvals_signals` | one request with its announcements | `NobodyToldEarly`, `ShownIsTrue` |
| `conversations` | messages, a group, one call with two faults, two calls without, presence, statuses, marks, settings; accounts, punches, reminders, a chat and notifications of the Postgres back end | `MessagesHold`, `TicksHold`, `DeletedIsGone`, `GroupsHold`, `CallsHold`, `PresenceHolds`, `StoriesHold`, `OldBackEndHolds`, `AppearsOnlyToPeers`, `NeverRevived` |
| `days` | asks and swaps, time corrections, an attendance day, a trail, offices, a month, its pay, the team view | `TypeOK`, `OneAskPerDayUnlessRace`, `OneAgreementPerSaturday`, `CorrectionsHold`, `DayHolds`, `PlacesHold`, `TeamHolds`, `MonthAndPayHold`, `DecisionsStand`, `PastKeepsItsLabels` |
| `workspace` | alert grants, posted alerts, sessions, the mailbox, smart folders, the directory, phones | `AlertsHold`, `SessionsHold`, `MailboxHolds`, `DirectoryHolds`, `PushHolds` |
| `sweeps` | the decision sweep, reminders with their sweep, the catch-up feed | `ToldOnceUnlessDisturbed`, `CursorLeavesNobody`, `RemindersHold`, `FeedSkipsNothingUnlessLate`, and the liveness properties `EverybodyHears`, `FeedCatchesUp`, `DueIsNoticed` |
| `approvals_withdraw` | as `approvals_core` | **violated**: `WithdrawalKeepsDecisions` |
| `calls_logs` | one call, no fault | **violated**: `AtMostOneLog` |
| `calls_expire` | one call, no fault | **violated**: `AnsweredCallsLast` |
| `time_record` | one day, one correction, one handler | **violated**: `RecordNeedsApproval` |
| `chat_ticks` | one message, two handlers, no fault | **violated**: `TicksOnlyRise` |
| `chat_receipts` | a direct chat with settings | **violated**: `ReceiptsOffSendsNone` |

The names ending in *Hold* are conjunctions of the components' own invariants; the modules state each of
them with the code it is about.

### Bounds

Two requests in flight (`Handlers`, `Requests`, `Admins`, `Rounds` ... `= {h1, h2}`) are what a race needs,
and the proofs hold for any number.  The rest:

* *Approvals*: four people of ranks 1, 3, 3 and 5, in two branches.  `approvals_core` has up to three levels
  (a first, a middle and a last) with up to three approvers, so that two decide while one waits;
  `approvals_signals` two levels, of up to two, and one person who cannot act.  Requests share no state, so
  one shows what any does.
* *Asks*: `odd` and `even`, whose week-off rules alternate, two days that are the two Saturdays, two asks.
  `AsksBound`: who asks for days is `odd`, for leave of two people never clashes.
* *Corrections*: one day, for days share nothing; two asks; all three chains.
* *Attendance day*: one person, two requests and two ticks at once, three instants: the first is the office
  end, the second the closing hour, the third is after it; two requests and one restart in all, and
  `DayBound`: requests made, restarts and ticks at work are three together.  *Trail*: three instants in days of two, fixes one at a
  time; `TrailBound`: two are stored, and once a batch has died unmarked batches come one at a time.
  *Offices*: two branches, two offices, four changes.  *Team view*: an employee, a manager and a director
  over two branches, of which one is behind; one punch (`MaxPunches`), a move.
* *Month*: two months of eight days with a holiday, a week-off and alternate Saturdays; days 8 and 11
  (`Touched`), one in each part, change, twice.  *Pay*: three months, a loan with an opening figure and a
  waiver, and an advance that ends.
* *Messages*: two people and a service, one client id, two messages, three requests and one failure.
  `MessagesBound`: the first message is not `bob`'s, who is like `ann` until then.  *Marks*: a first message
  and two forwards.  *Groups*: a creator, an administrator who may add and rename, a third.
* *Calls*: `CallBound` and `CallsBound` say who places which call first (the two are alike until then), and
  that of two calls the history holds each once; with one call and two faults it may hold more.
* *Statuses*: one status, four requests.  *Presence*: one person, two sockets, four instants, a heartbeat of
  two.  *Settings*: a direct chat and a group, one message under way, two instants.
* *Postgres*: a boss, a person and a new one, two businesses, three tokens, and two patches, one of which
  moves the e-mail address while the other moves the business; one day; one reminder; two messages; one
  notification with one stall; four requests in each of the last two, so that quiet ones meet others.
* *Alerts*: one person over two rows of one branch spelt in two ways, three channels, one change; one key,
  three attempts, two rooms, one restart.  *Sessions*: two devices, three tokens, one switch; a
  token's `Life` is two instants and `Grace` one, so that a rotation brings its end forward;
  `SigningBound`: where a third token is issued the switch and the clock are not both used.  *Mail*: two
  mails, one wanted by a folder, a page of one.  *Folders*: one, with two rules.  *Directory*: one person
  besides the administrators, two businesses, two branches, three requests.  *Phones*: Android, an iPhone
  with CallKit and an older one; Firebase on all, on the newest only, or on none; `PushingBound`: something changes or fails on one, or on all.
* *Sweeps*: two rows, two instants and a limit of one row, so that every batch is full and what it cuts off
  is reached; two sweeps, one fault.  *Reminders*: one, with three requests.  *Feed*: two messages with two
  changes each, two instants, pages clamped to one.

Symmetry (over handlers, ids of asks, rooms) is used only with safety properties, and never over what a
`CHOOSE` or an order looks at.  `approvals_core` and `approvals_signals` check for deadlock.  The others set
`CHECK_DEADLOCK FALSE`: once every id, request and instant of a bound is used up and nothing is open, nothing
is left to do.

### Fairness

Liveness is checked in `sweeps` only, under `SweepsSpec`:

* weak fairness of each decision sweep's own steps (`Run`): `setInterval` starts one every minute whatever
  became of the last, and one that runs awaits only database calls, which answer or fail (`MaxFaults` times);
* weak fairness of what a timer and an answered update make a reminder sweep do (`Proceeds`: `ListDue`, and
  the push after a stamp), and strong fairness of `Stamp`: a failing update or a restart ends a sweep and the
  next tick lists anew, so the step is open again and again and not continuously, and it is assumed that the
  database does not fail every time;
* weak fairness of a device's `SyncSince` and `Reconnect`: whoever keeps the app open asks again.

Nothing is assumed of people, of the ERP or of decisions: a row that never lands promises nothing.

## What the violated runs say about the code

* `approvals_withdraw`.  `cancel()` (`approval.service.ts:501-510`) computes its `$set` from the document it
  read and asserts only `status: 'pending'`.  An approval recorded in between is overwritten with `skipped`;
  that person loses sight of the request, which `APPROVALS_API.md:35` and `approval.chain.ts:261-265` rule
  out.  The same stale document chooses the audience of the signal, so somebody the request has just come to
  is not told it is gone; `ShownIsTrue` excuses that case by name.
* `calls_logs`.  Two handlers that read the active call before either removed it both insert a history row
  (`call.service.ts:184-204`), against "one doc per finished call" (`call.models.ts:42`).
* `calls_expire`.  `expiresAt` is set when the call starts ringing (`call.service.ts:92`) and `accept()` does
  not move it, so the TTL index, meant for "a crashed/abandoned call", drops an answered one.
* `time_record`.  `decide()` writes the day's record (`regularization.service.ts:225`) before the update that
  asks whether the row still waits (`:231`).  If the row is withdrawn or rejected in between (here a second Super
  Admin rejects it), the approving one gets a 409, and the record shows times nobody approved, against "nothing changes on the record until someone approves"
  (`:91`).  `RecordUnlessOvertaken`, which holds, says that this is the only way.
* `chat_ticks`.  `applyAggregates` (`chat.repository.ts:126`) reckons ticks from a reading and writes them
  unconditionally; of two that cross, the older may come last and take a tick from read back to delivered,
  against the comment at `:100` ("MONOTONIC").
* `chat_receipts`.  `markRead()` (`chat.service.ts:670`) holds back the event of a person whose receipts are
  off, but stores the tick, which the sender's list, thread and feed show, against `chat.models.ts:237`
  ("you send none").

More disagreements showed while modelling and have no run of their own; the model has the code's behaviour,
and the property that touches it names it as an exception:

* The list of chats carries online and last seen whatever the privacy settings say (`chat.service.ts:288`),
  against `chat.router.ts:38-40`; `HiddenFromOthersUnlessListed`.
* A message's fallback to Expo is decided for the person (`chat.push.ts:98-120`), against "for devices that
  never registered an FCM token" (`chat.push.ts:9-10`): such a phone gets nothing beside one that took the
  message over Firebase; `PushedUnlessSilencedOrLeftToFirebase`.
* A reminder whose sweep ends between stamp and push is marked as pushed and never is
  (`reminder.service.ts:273-275`); `NotifiedMeansPushedUnlessOvertakenOrCut`.
* When the update after a deleted attachment fails, the event keeps a dead link (`alert.sweep.ts:22-29`);
  `LinksOpenUnlessSwept`.
* Of the Postgres back end, `chats.service.ts:60` and `notifications.service.ts:32,39,45` write without an audit
  row, against "Every mutation" (`common/audit.ts:4`); `AuditFollowsUnlessCutOrQuiet`.
* The busy check of a call (`call.service.ts:80-88`) and its insert are separate, so two people who call each
  other at once both get through; no line of the code says otherwise.

"Pushed" means throughout: handed to the transport.  No sender waits for it, and what Apple, Google or Expo do
with it afterwards is theirs.

## Proofs

Every theorem below is checked by TLAPS for every value of the constants, under the assumptions named with
it.  A safety invariant of these modules is hardly ever inductive: what it says of the documents depends on
what the handlers in flight still know of them.  So each proof has the same shape: an inductive invariant,
which adds *what a handler between its read and its write may still rely on*; a lemma for each kind of step
that says what the step leaves alone; one step per action; and the property read off.  TLC checked
the properties first, and of the inductive invariants those whose runs it can finish with them.

| module | theorem | states |
|---|---|---|
| `ApprovalsProofs` (`ChainConstants`) | `TypeCorrect`, `NeverStranded`, `NoLevelWithoutQuorum`, `NothingLeftOpen`, `HistoryKept` | `TypeOK`, `SomebodyCanAct`, `ApprovedHasQuorum`, `FinalIsClosed`, `HistoryStands` |
| | `RefinesLifecycle` | `ImplementsLifecycle`: `Approvals` implements `ApprovalLifecycle` |
| | `SignalsInvariance`, `ToldOnlyInTime`, `ShownAndToldTruly`, `SuggestionsWork` | `SigInv`, `NobodyToldEarly`, `ShownIsTrue`, and that what the form suggests is accepted |
| `DaysProofs` (`AskConstants`) | `TypeCorrect`, `AgreedOnce`, `AskedOnce`, `DecisionsKept` | `TypeOK`, `OneAgreementPerSaturday`, `OneAskPerDayUnlessRace`, `DecisionsStand` |
| (`CorrectionConstants`, `TrailConstants`, `OfficeConstants`, `NightConstants`, `CrewConstants`) | `CorrectionsKeepTheirWord`, `PlacesKeepTheirWord`, `DayKeepsItsWord`, `TeamKeepsItsWord` | `CorrectionsHold`, `PlacesHold`, `DayHolds`, `TeamHolds` |
| (`PersonConstants`, `WagesConstants`, `LoanConstants`) | `MonthAndPayKeepTheirWord`, `PastKeepsItsWord` | `MonthAndPayHold`, `PastKeepsItsLabels` |
| `MCSweeps` (`SweepConstants`, `ReminderConstants`, `FeedConstants`) | `NobodyHearsTwice`, `NobodyIsLeftBehind`, `OnlyTheConcernedHear` | `ToldOnceUnlessDisturbed`, `CursorLeavesNobody`, `OnlyOfDecisions` |
| | `RemindersKeepTheirWord`, `FeedLeavesNothingBehind`, `FeedRepeatsNothing` | `RemindersHold`, `FeedSkipsNothingUnlessLate`, and that no page repeats |
| `CallsProofs` | `Invariance`, `RemovedIsLogged`, `RingingIsWatched`, `SecondRowMeansTrouble`, `FlagHasCause`, `OverIsOver` | `IInv`, `GoneIsLogged`, `UnansweredIsWatched`, `OneLogUnlessTrouble`, `InCallHasCause`, `StaysOver` |
| `ChatProofs` (`ChatConstants`) | `Invariance`, `TypeCorrect`, `SentOnceOrRaced`, `TicksAreEarned`, `TicksCatchUp`, `BadgeCovers`, `HiddenIsSilent`, `DeletedIsForgotten` | `IInv` and the seven invariants of `ChatMessages` |
| `MessageMarks` (`MarksParameters`) | `MarksRemainTheirs`, `FirstIsNamed` | `MarksAreTheirs`, `ForwardsNameTheFirst` |
| `MCConversations` (`ViewConstants`, for the statuses) | `CallsKeepTheirWord`, `CallsStayOver`, `ConversationTicks`, `ConversationMessages`, `ConversationForgets`, `ConversationStories`, `ConversationPeers` | `CallsHold`, `NeverRevived`, `TicksHold`, `MessagesHold`, `DeletedIsGone`, `StoriesHold`, `AppearsOnlyToPeers` |
| (`GroupConstants`, `PresenceConstants`, `SettingsConstants`) | `ConversationGroups`, `ConversationPresence` | `GroupsHold`, `PresenceHolds` |
| `WorkspaceProofs` (`SessionConstants`, `DirectoryConstants`, `MailConstants`, `FolderConstants`) | `SessionsKeepTheirWord`, `PlacesStayInOrder`, `MailboxKeepsItsWord` | `SessionsHold`, `DirectoryHolds`, `MailboxHolds` |
| (`PushConstants`, `AccessConstants`, `PostConstants`) | `PhonesKeepTheirWord`, `AlertsKeepTheirWord` | `PushHolds`, `AlertsHold` |

### Approvals

`IInv` adds two things.  `Shape` says what a stored chain looks like at each status: before `current`
everything is approved with its quorum, at `current` the slots are pending or (mode `all`) approved and
somebody is pending, after it all is waiting.  `Behind` relates what a handler holds to what is stored now:
the people and levels are the same (`SameChain`), and whatever is open now was open when it was read
(`Shrunk`).  The argument for a decision is `SamePlan`: under the filter `Unmoved`, the plan made from the
old reading is the plan the stored document would give, so it is enough that a plan is safe on the document
it was made from (`RejectIsSafe`, `ApproveSlotIsSafe`, `CloseLevelIsSafe`).  A withdrawal has no such
filter, and there `Shrunk` does the work: it skips everything that was open in the old document, which
covers everything open in the new one (`CancelIsSafe`).  `SafeWrite`, `SafeInsert` and `SafeRead` lift this
from one document to the state.

The refinement needs that nobody is on two levels of a chain (`AllApart`), which both ways of building one
see to.  Then `StepKinds` says what each step does to the documents, and `StepRefines` maps each to a step
of `ApprovalLifecycle` or to a stutter.

The signals' invariant `SigInv` has `IInv` and: levels that a request has not come to are untouched, and
nobody is on two levels or on a chain of their own (`Ordered`); what a handler in flight read was pending,
and the request has not gone back since (`ReadOnce`); nothing is said of a request that is not there
(`QuietBefore`) nor waited for where nothing follows (`NoSecondHalf`); whoever is told, or about to be, was
reached (`ToldInTime`); a desk differs from the turns only while a signal about it is on its way or was lost
(`DeskFollows`); and the outcome that was pushed, or is about to be, is the one the request has
(`OutcomeFollows`).

### HR asks

`OneAgreementPerSaturday` says nothing of a partner whose check has passed.  `AgreementInv` counts such a
partner as committed (`OneCommitment`).  A step either commits nobody new (`NoNewCommitment`, used for every
action but one) or is `ReadForAccept`, whose check excludes every other open swap of those people and
Saturdays.  `OneAskPerDayUnlessRace` needs `ReadingsHold`: unless it was overtaken, a handler about to insert
still has a reading that holds.  Steps then either take claims away (`FewerClaims`) or add one row
(`OneMoreClaim`).  `DecisionsKept` needs types only: every write of a row asks for `pending`.

### Time corrections, trail, offices and attendance day

`MCDays` takes instances of these modules, and `DaysProofs` proves about `DaysSpec` what its run checks, for
any days, people, instants, offices and handlers: the constants of `MCDays` are those of the instances, and
its named assumptions say no more than that bounds are numbers and that the marks for "no office" and "no
correction" are none.

*Corrections* (`CorrectionsInv`): a pending row is signed in order and has a level left (`PendingInOrder`,
`SteadyInOrder` for decided rows that nothing overtook); who is about to file found nothing waiting
(`FilingIsFresh`); what a decision read of the row is still so unless it was overtaken (`DecisionsKnow`);
a record shows what is approved, or is being approved (`RecordIsDecided`).  `FirstSigned`,
`SigningKeepsOrder` and `SignedInTurn` are the lemmas on chains: the signed levels are the first ones, so
the turn is the next, and adding a reading's signatures keeps that.  Steps file (`FilingKeeps`), close
(`ClosingKeeps`) or sign (`SigningKeeps`).

*Trail* (`TrailInv`): what a batch kept was on duty by the day it read (`BatchesAreOnDuty`), nothing is
stored of a day nobody came in on (`BlankDaysAreEmpty`), a fix is stored once (`StoredOnce`), and what a batch
stored, and the marker shows, is there (`StoredIsThere`).  `BatchKeeps` and `TimesKeep` separate the steps
that move batches from those that change times; `GreatestIs`, by well-founded induction from the library,
gives the newest fix.

*Offices* (`OfficesInv`): where no two requests met, at most one is about to set a branch's default, which
has none meanwhile (`OneIsDefault`); people are locked to offices that exist (`LocksAreReal`); nobody sent to
a branch is locked elsewhere (`SentAreNotElsewhere`).  `DefaultsKeep`, `SentKeep` and `AtMostOne` carry these
over the steps.

*Attendance day* (`DayInv`): what a request remembers fits what it is about to do, and its instants are in
order unless the super admin wrote the day (`ReadsFit`); a row that nothing crossed fits, with its check-in
the one the day opened with and none that lies ahead (`RowsFit`); a tick that looked after 10 pm knows of
every open day that it is on its list or excused (`TicksAreGood`).  `RowKeeps` is the step that writes a day,
`TickKeeps` one of the sweep that writes none.  The attempt to prove it corrected the model twice, each time
with a counterexample from TLC beyond the old bounds.  A check-in the super admin sets ahead of the clock
leaves the day open at a tick after 10 pm (`attendance.service.ts:950` passes it over) and "still in" in its
report, so `since` now names it, and the run has an instant after 10 pm.  And a day that
the super admin wrote, took back and wrote alike is not seen to have changed by a check-out that remembers
it, so `byAdmin` now keeps a day while a request may remember it (`Held`).

*Team* (`TeamInv`): a line in a channel, a report under way and a summary have a person at the branch they
work in, unless they were moved since (`LinesFit`, `ReportFits`, `SummariesFit`); whoever came has a row of
that day (`ArrivedArePresent`), so that a report that looks for rows does not count them absent; and a view
has whom its viewer oversees, but for those moved since it was opened (`ViewFits`).  The proof needs no
exception for the moved where the property had one: nobody who came is absent in a summary.

*Month and pay* (`MonthAndPayInv`).  Of the month the invariant is its types; the work is in what is reckoned
from them.  Each day of a month counts in one state (`EachDayOnce`), so the days paid for are those that are not
absent (`DaysArePaid`).  A leave takes half days, and those up
to the next month are those up to this one and those of the next (`HalvesAdd`); a month is credited when its
first day comes (`Credited`); so the balance is the ledger.  Who has punched before a day is the same question
as whether the first punch lies before it (`FirstPunch`), and a change to another day answers it otherwise only
if it moves the first punch over the day (`PastStates`): hence `PastKeepsItsWord`.  Of the pay, the invariant
says of a loan that nothing disturbed what is open of it: what was lent but for what the slips took
(`ScheduleKept`).  An instalment falls due or its month is skipped (`InstalmentsGo`); rounding never
lets a longer month earn less (`ShareGrows`); and what the loans of a month are due is a natural number
(`SumIsNatural`), which is an induction over a fold, made without the library's induction theorems: a least
size at which the sum fails would have a smaller one.  To reason about them, the half days of a set of days
are now counted as the pairs that a leave takes, `halfDaysOf`, and the three heads of a salary are written out,
as `payRules.ts:52` and `payRules.ts:118` write them.

### Sweeps

`SweepInv`: a row's time is past (`StampedLater`), a sweep carries alerts for those concerned only
(`LeftIsConcerned`), what lies behind the cursor was told, or is about to be by a sweep that is up to it, or
is in `passed` (`BehindIsTold`), and, as long as no two sweeps overlapped and none was cut short, one sweep
is ahead of the cursor and all that was told is behind it (`Undisturbed`).  Trying to prove this one showed
that the history was wrong: `passed` counted a row as looked past only by sweeps that had finished reading,
while a sweep that holds a cursor and has yet to read looks past whatever lands behind that cursor; TLC
found the counterexample, and `LookedPast` now counts both.  `ReminderInv` says that what a request read and
what a sweep listed is still so unless it is marked as stale (`ReadingsHold`, `ListingsHold`), and counts a push
that a sweep has in hand between stamp and push as sent (`Sent`), so that only what ends a sweep there can break
the promise, and that is `cut`.  `FeedInv`
says that whatever is after the watermark is news to the device (`ChangedIsNews`), and `PageIsFirst` that
what a page leaves out comes after everything in it.

### Calls

None of the handlers' writes asks what the others have done, so `IInv` has two layers.  Of a call, whatever
overlaps: nothing is known of it before it is placed (`Fresh`), it is removed after it was logged
(`Logged`), a ringing one is watched unless a fault struck it (`Watched`).  As long as no two handlers have
overlapped on it (`Undisturbed`): the handler at work is alone (`Alone`), no row is there before it writes
one (`LoggedOnce`), and what it read of the answer is still true (`KnowsAnswer`).  `Placing`, `Written` and
`HasCause` tie the handlers' program counters and the in-call flags to the calls.

### Chat

`ChatProofs`' `IInv` has: bounds on what is set aside for requests that are about to insert or count
(`Counted`); what each request still finds of the message it is about (`KeptInv`); of a client id one message is
stored or one request is about to store it (`SentInv`); a tick and a tick about to be written claim given
receipts only, and a receipt that no tick shows has somebody who works on it (`TicksInv`); a counter covers
what is unread and counted already, and whoever is about to reset it has dealt with all of that
(`BadgeInv`); what is about to be counted was said after the chat was cleared (`ListInv`); a deleted
message has no text, and the preview that shows it is about to be rewritten (`WordsInv`).  Each `...Unless...`
has its history variable in the invariant, and the proof shows that nothing but the named crossing sets it.

`MessageMarks`: a save that is under way carries what its load gave it, and if the version is still the one
it read, so is every array (`Carried` with `Saving`, `Fresh` and `Holding`); a forward carries the name of a
message that is written (`Forwarding`); versions never exceed the requests made.  The lemma `ViewsAgree`
needs no invariant: pins, stars and searches lead to the thread whatever is stored.

`MCConversations` brings these to the instances its run follows: `FollowedSteps` says that each step is a
step of the component followed or leaves it alone, and the modules' theorems do the rest.  So those of the
run's properties are proved for the run's instance, and the components' theorems for any.  Of statuses the
proof is in `MCConversations` itself, for any people, statuses and requests (`StatusInv`): what a post has
gathered so far is what it would gather now, unless something changed meanwhile (`StatusReading`); a view
under way is by somebody the status was meant for, who is no viewer yet (`StatusViewing`); two requests that
add one viewer have raced (`RequestsApart`); and nobody has seen what is not up (`StatusShown`).

Three more are proved there for any values of their constants, which `MCConversations` declares.  *Groups*
(`GroupInv`): who is about to be added is not on the roster and is added by one request, or is in
`mixed.added` (`AddingFresh`); between the two deletions of a group nothing is posted, and afterwards nobody
is left to post, unless somebody was about to (`GroupEnds`); each request in flight posts once at most
(`GroupCounts`).  *Presence* (`PresenceInv`): a count is the number of sockets that are here (`CountsHere`); a
stamp of last seen is stored or on its way until it is lost (`StampKept`), and is at most a heartbeat behind
(`SeenInTime`).  *Settings* (`SettingsInv`): nobody blocks the sender of a message that was let through unless
they did meanwhile (`LetThrough`); a row has the mute that was asked for last, what is hidden has nothing
unread, and what is unread or on its way was asked for (`RowKept`).

### Workspace

`WorkspaceProofs` proves about `WorkspaceSpec` all that its run checks, for any devices, businesses, branches,
channels, mails, folders, phones, posts and requests: as in `MCDays`, the constants of `MCWorkspace` are those
of its instances, and its named assumptions say that bounds are numbers, that what stands for "none" is
nobody's name, that no channel is both of a branch and of the company, and that calls as VoIP pushes are for
iPhones.

*Sessions* (`SessInv`): tokens are numbered as they are issued and a device holds its own (`TokensInOrder`);
no two devices hold one unless it is being refreshed twice (`OneHolder`); a token that is refreshed one at a
time ends with its life or with the grace period after its first rotation, and whoever refreshes it has read
which (`EndsAsItShould`); what is held is live until access is switched (`HeldIsLive`); after that what
passes had passed before, or was let through by an answer cached earlier (`OffIsOff`).

*Directory* (`DirInv`): a branch, and a request about to make one, has a business that is there or was
deleted meanwhile, and a request about to delete a business has found no other (`Homes`); who is on a branch
that is on its way out joined it after the clean-up passed them (`JoinedLate`); a name that is given twice
was given at once (`NamesAtOnce`).

*Mailbox* (`MailInv`): nothing is later than now and a round asked from a stamp that was (`InTime`); a round
has found what has arrived, and has announced it before it stamps (`FoundArrived`, `ToldAlready`); what is in
reach of no later round is announced or about to be (`Noticed`); and what has been announced lies behind the
stamp, or its round is about to move it, so that no other round finds it (`Once`).

*Smart folders* (`FolderInv`): whoever names a rule names one of its own folder (`OwnRules`); one request at a
time holds a folder, or it is tangled (`HeldOnce`); and at each step of the request that holds it, the rules
into it are those the step needs (`FollowsFolders`: `AtWork` while held, `Settled` otherwise).

*Phones* (`PushInv`): a phone nothing happened to keeps its tokens (`Steady`); a ring is on the way only where
it was asked for and over one transport (`AskedFor`, `AimedOnly`, `ExpoAlone`); a phone a sender is to ring
has rung or is on its list (`RungOrLeft`); what rings will be found by a cancellation (`ToBeCancelled`); a
message is from somebody heard, over one transport, and on every list it has not left delivered (`Heard`,
`OneTransport`, `Delivered`).  `ExpoInv` has the fallback: whoever counts a message as sent has a phone that took
it over Firebase (`FirebaseFirst`), and one that is through has come over Expo unless that is so or Expo is off
(`OverExpo`).

*Alerts*, the audience (`AccessInv`): what the cache holds of a person whose row did not change is what the
row says (`CacheTells`), so a push aimed by it is for those entitled (`AimedWell`); of two requests that
grant one person something, both are named (`Alone`), and otherwise what one is about to store is what was
asked for (`AsksFor`).  The posts (`PostInv`): a file is its attempt's until something refers to it (`OwnFile`,
`FileOfOne`); an event is one of its key (`OneEvent`, by the filter of the upsert); attempts that overlap are
named (`Unmet`), and one nobody overlapped is still right in what it looked up (`NoEventYet`,
`NoMessageYet`, `SameRoom`); and a call that fails leaves only what its attempt had stored (`lost`) or its sweep
deleted (`cut`).

The attempt corrected `AlertFeed`: what follows the choice of a room was a `CASE` with arms that overlap, of
which TLA+ takes either, and is now the order in which `postMedia` and `post` go on.  TLC had taken the first
arm, as the code does.  And `SUBSET S \ {{}}`, which TLC and TLAPS read differently, is now
`(SUBSET S) \ {{}}` in `SmartFolders` and `Reminders`: the set without the empty one, which the code refuses.

### What stays with TLC

* Out of the prover's reach: liveness under fairness (`EverybodyHears`, `FeedCatchesUp`, `DueIsNoticed`),
  `ENABLED`, and what a recursive definition computes for every input.  The theorems avoid such
  definitions, but for the one sum that `SumIsNatural` is about.
* Not proved: `OldBackEndHolds`.
* What the violated runs show is not provable for the plain reason that it is false.

## What is not modelled

* The approvals' boot migration and the time corrections' migration: one-off conversions before the server
  listens.  The documents they make have the shape that `CreateByRole` and `request()` make.
* The ERP proxy and the branches it lists: stateless forwarding.
* Of the attendance day: the QR and geofence clients, photos and the wording of lines.  Of chat: mentions,
  replies, link previews and the storage of attachments; and of the catch-up feed the limit of 200 conversations
  (`chat.repository.ts:12`, `chat.service.ts:393`): whoever is in more catches up on the 200 latest only.  Of the directory: profile fields, avatars,
  passwords and role permissions, which are single writes.  Of e-mail: the message proxy, attachments and
  token exchange, which keep no state here.  Of push: the key files and the JWT.  Of the Postgres back end:
  uploads, health routes, the seed and the reference data.
* Media relaying and TURN credentials of calls; rate limits; validation of fields, except where a property
  is about it.

## Plan

1. A theorem of `OldBackEndHolds`, for the five modules of the Prisma back end.
2. The limit of 200 conversations in `ChatFeed`.
3. Reads that have no model yet: the lists of `hr.repo.ts`.
