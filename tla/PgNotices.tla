------------------------------ MODULE PgNotices ------------------------------
(***************************************************************************)
(* Notifications of the Postgres back end and the queue that pushes them   *)
(* (src/src/modules/notifications, src/src/queue/push.ts).                 *)
(*                                                                         *)
(* A notification is a row and then a job.  The worker reads the person's  *)
(* devices when it takes the job, sends, and records the delivery; the     *)
(* queue hands a job out again when its worker died over it.               *)
(***************************************************************************)
EXTENDS PgRequests

CONSTANTS
  Users, Phones,    \* people and push tokens
  Notes,            \* bound: notifications
  MaxStalls         \* how often the queue hands a job out again

VARIABLES
  owner,     \* the devices table: [Phones -> user, or None], unique by token
  moves,     \* history: tokens that changed hands since a job read them
  note,      \* the notifications table
  job,       \* the queue: [Notes -> state of its job]
  heard,     \* how often each phone was sent each notification
  dry        \* is EXPO_PUSH_ENABLED unset?

notices == <<owner, moves, note, job, heard, dry>>

None    == "none"
NoNote  == [pc |-> "none"]
NoJob   == [pc |-> "none", to |-> {}, stalls |-> 0]

NoticesInit ==
  /\ AsksInit
  /\ owner = [p \in Phones |-> None] /\ moves = {}
  /\ note = [n \in Notes |-> NoNote] /\ job = [n \in Notes |-> NoJob]
  /\ heard = [n \in Notes |-> [p \in Phones |-> 0]]
  /\ dry \in BOOLEAN

DevicesOf(u) == {p \in Phones : owner[p] = u}

\* Registering again moves the token to this user.
registerDevice(r, u, p) ==
  /\ req[r] = Idle /\ asked < MaxAsks
  /\ owner' = [owner EXCEPT ![p] = u]
  /\ moves' = moves \cup {<<n, p>> : n \in {x \in Notes : p \in job[x].to /\ note[x].of # u}}
  /\ asked' = asked + 1 /\ wrote' = wrote \cup {asked'}
  /\ req' = [req EXCEPT ![r] = [pc |-> "audit", n |-> asked']]
  /\ UNCHANGED <<audit, cut, quiet, note, job, heard, dry>>

\* The rest appends nothing to the audit log: neither notify ...
notify(r, u) ==
  /\ Ask(r, [pc |-> "insert", of |-> u, id |-> None])
  /\ UNCHANGED notices

InsertNote(r) ==
  /\ req[r].pc = "insert"
  /\ \E n \in Notes :
       /\ note[n] = NoNote
       /\ note' = [note EXCEPT ![n] = [pc |-> "up", of |-> req[r].of, read |-> FALSE]]
       /\ WriteQuiet(r, [pc |-> "enqueue", id |-> n])
  /\ UNCHANGED <<owner, moves, job, heard, dry>>

\* Redis may be away: the row stays, without a push.
enqueuePush(r) ==
  /\ req[r].pc = "enqueue"
  /\ \E up \in BOOLEAN :
       job' = [job EXCEPT ![req[r].id].pc = IF up THEN "waiting" ELSE "lost"]
  /\ Answer(r)
  /\ UNCHANGED <<owner, moves, note, heard, dry>>

\* As TakeJob, for whoever has a phone.
TakeForAll(n) ==
  /\ job[n].pc = "waiting"
  /\ job' = [job EXCEPT ![n].pc = "taken", ![n].to = {p \in Phones : owner[p] # None}]
  /\ UNCHANGED <<asks, owner, moves, note, heard, dry>>

\* deliver reads the devices ...
TakeJob(n) ==
  /\ job[n].pc = "waiting"
  /\ job' = [job EXCEPT ![n].pc = "taken", ![n].to = DevicesOf(note[n].of)]
  /\ UNCHANGED <<asks, owner, moves, note, heard, dry>>

\* ... sends to them, a failure is only logged ...
sendToExpo(n) ==
  /\ job[n].pc = "taken"
  /\ \E ok \in BOOLEAN :
       heard' = IF dry \/ ~ok THEN heard
                ELSE [heard EXCEPT ![n] = [p \in Phones |-> @[p] + (IF p \in job[n].to THEN 1 ELSE 0)]]
  /\ job' = [job EXCEPT ![n].pc = "sent"]
  /\ UNCHANGED <<asks, owner, moves, note, dry>>

\* ... and records the delivery.
Delivered(n) ==
  /\ job[n].pc = "sent"
  /\ job' = [job EXCEPT ![n].pc = "delivered", ![n].to = {}]
  /\ UNCHANGED <<asks, owner, moves, note, heard, dry>>

\* The worker dies: the job is handed out again, or given up.
Stall(n) ==
  /\ job[n].pc \in {"taken", "sent"}
  /\ job' = [job EXCEPT ![n] = IF job[n].stalls < MaxStalls
                               THEN [pc |-> "waiting", to |-> {}, stalls |-> @.stalls + 1]
                               ELSE [@ EXCEPT !.pc = "failed", !.to = {}]]
  /\ UNCHANGED <<asks, owner, moves, note, heard, dry>>

\* ... nor reading: one of one's own, or all of them.
markRead(n, u) ==
  /\ QuietRequest
  /\ note[n].pc = "up" /\ note[n].of = u
  /\ note' = [note EXCEPT ![n].read = TRUE]
  /\ UNCHANGED <<owner, moves, job, heard, dry>>

markAllRead(u) ==
  /\ QuietRequest
  /\ \E n \in Notes : note[n].pc = "up" /\ note[n].of = u /\ ~note[n].read
  /\ note' = [n \in Notes |-> IF note[n].pc = "up" /\ note[n].of = u
                              THEN [note[n] EXCEPT !.read = TRUE] ELSE note[n]]
  /\ UNCHANGED <<owner, moves, job, heard, dry>>

Audit(r)       == writeAudit(r, TRUE) /\ UNCHANGED notices
DropRequest(r) == Die(r) /\ UNCHANGED notices

NoticesNext ==
  \/ \E r \in Requests :
       \/ \E u \in Users : notify(r, u) \/ \E p \in Phones : registerDevice(r, u, p)
       \/ InsertNote(r) \/ enqueuePush(r) \/ Audit(r) \/ DropRequest(r)
  \/ \E n \in Notes : \/ TakeJob(n) \/ sendToExpo(n) \/ Delivered(n) \/ Stall(n)
                      \/ \E u \in Users : markRead(n, u)
  \/ \E u \in Users : markAllRead(u)

-----------------------------------------------------------------------------
NoticesTypeOK ==
  /\ AsksTypeOK
  /\ owner \in [Phones -> Users \cup {None}] /\ moves \subseteq Notes \X Phones
  /\ \A n \in Notes : note[n].pc \in {"none", "up"} /\ job[n].to \subseteq Phones
  /\ heard \in [Notes -> [Phones -> 0..(MaxStalls + 1)]]
  /\ dry \in BOOLEAN

\* A phone about to be sent a notification is one of the person's it is for, unless it
\* changed hands since the worker read the devices (queue/push.ts:61).
PushGoesToOwnerUnlessMoved ==
  \A n \in Notes : job[n].pc = "taken" =>
    \A p \in job[n].to : owner[p] = note[n].of \/ <<n, p>> \in moves

\* A phone hears a notification once and only of a row that is there; twice only when the
\* worker died over it, and never in a dry run (queue/push.ts:64).
HeardOnceUnlessStalled ==
  \A n \in Notes, p \in Phones :
    /\ heard[n][p] > 0 => note[n].pc = "up" /\ ~dry
    /\ heard[n][p] <= 1 + job[n].stalls
=============================================================================
