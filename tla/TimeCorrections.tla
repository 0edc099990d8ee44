-------------------------- MODULE TimeCorrections --------------------------
(***************************************************************************)
(* Time corrections: asking, withdrawing and deciding in this backend      *)
(* (src/src/mongo/hr/regularization.service.ts) against the same rows'     *)
(* signatures on the ERP, and against the attendance record that an        *)
(* approval rewrites.                                                      *)
(*                                                                         *)
(* An approval in the app is three awaits: the row is read and the         *)
(* signatures worked out, the day's record is written, the row is written  *)
(* if it is still pending.  The ERP saves with optimistic concurrency, so  *)
(* what it does is one step; it is external.                               *)
(***************************************************************************)
EXTENDS Naturals, Sequences, FiniteSets, SequencesExt

CONSTANTS
  Days,     \* the person-days that can be corrected
  Asks,     \* row ids: how many asks a behaviour may see
  Handlers  \* HTTP handlers that may be between two of their awaits

VARIABLES
  asks,      \* hr_leave_applications of kind 'time'
  record,    \* whose times each day's attendance record carries
  handlers,  \* what each handler in flight is about to write
  hasty,     \* history: asks filed on a reading another ask had overtaken
  overtaken  \* history: asks that changed, or a restart hit, while a decision was on its way

vars == <<asks, record, handlers, hasty, overtaken>>

NoAsk == [status |-> "none"]
Idle  == [pc |-> "idle"]

-----------------------------------------------------------------------------
(* The signature chain. *)

LEAVE_CHAIN        == <<"FM", "Director", "Owner">>
HR_ASK_CHAIN       == <<"Director", "FM">>
HR_ASK_OWNER_CHAIN == <<"Owner", "FM">>

Chains == {LEAVE_CHAIN, HR_ASK_CHAIN, HR_ASK_OWNER_CHAIN}
Roles  == {"FM", "Director", "Owner"}

FreshChain(director) == IF director THEN HR_ASK_OWNER_CHAIN ELSE HR_ASK_CHAIN

OwnerSigns(ask) == "Owner" \in ToSet(ask.chain)

SignedRoles(ask) == {s.role : s \in ToSet(ask.signed)}

Signature == [role : Roles, past : BOOLEAN]

Level(chain, role) == CHOOSE i \in DOMAIN chain : chain[i] = role

\* The first level that has not signed; past the end when all have.
Turn(ask) ==
  CHOOSE i \in 1..(Len(ask.chain) + 1) :
    /\ \A j \in 1..(i - 1) : ask.chain[j] \in SignedRoles(ask)
    /\ i <= Len(ask.chain) => ask.chain[i] \notin SignedRoles(ask)

MaySign(ask, role) == role \in ToSet(ask.chain) \ SignedRoles(ask)

\* The signatures of the levels from one to another, of which the last signs itself.
SignaturesFrom(ask, from, at) ==
  [i \in 1..(at - from + 1) |-> [role |-> ask.chain[from + i - 1], past |-> from + i - 1 < at]]

\* Regression: every earlier level is signed past, signed or not.
SignaturesOfAll(ask, role) == SignaturesFrom(ask, 1, Level(ask.chain, role))

\* The signatures `role` adds: the unsigned levels before its own are signed past.  None
\* after the first of them has signed (QueueNamesNextLevel), so they are a slice of the chain.
Signatures(ask, role) == SignaturesFrom(ask, Turn(ask), Level(ask.chain, role))

\* The level the row waits on.
WaitingOn(ask) == IF Turn(ask) > Len(ask.chain) THEN "nobody" ELSE ask.chain[Turn(ask)]

\* The levels that signed themselves and were not signed past.
SignedBy(ask) == {s.role : s \in {t \in ToSet(ask.signed) : ~t.past}}

-----------------------------------------------------------------------------
TimeAsk ==
  [day : Days, chain : Chains, signed : Seq(Signature),
   status : {"pending", "approved", "rejected", "cancelled"}]

Filing    == [pc : {"file"}, day : Days, director : BOOLEAN, late : BOOLEAN]
Approving == [pc : {"record", "approve"}, id : Asks, signs : Seq(Signature)]

TypeOK ==
  /\ asks \in [Asks -> {NoAsk} \cup TimeAsk]
  /\ record \in [Days -> {"punched"} \cup Asks]
  /\ handlers \in [Handlers -> {Idle} \cup Filing \cup Approving]
  /\ hasty \subseteq Asks
  /\ overtaken \subseteq Asks

NewAsk(day, chain) ==
  [day |-> day, chain |-> chain, signed |-> <<>>, status |-> "pending"]

IsPending(a) == asks[a].status = "pending"

\* The correction of a day that still waits.
PendingFor(d) == {a \in Asks : IsPending(a) /\ asks[a].day = d}

\* Rows of before 2026-11-02 may still wait on the old chain.
Init ==
  /\ asks \in {f \in [Asks -> {NoAsk} \cup {NewAsk(d, LEAVE_CHAIN) : d \in Days}] :
                 \A a, b \in Asks : a # b /\ f[a] # NoAsk /\ f[b] # NoAsk => f[a].day # f[b].day}
  /\ record = [d \in Days |-> "punched"]
  /\ handlers = [h \in Handlers |-> Idle]
  /\ hasty = {}
  /\ overtaken = {}

Goto(h, next) == handlers' = [handlers EXCEPT ![h] = next]

Deciding(h, a) == handlers[h].pc \in {"record", "approve"} /\ handlers[h].id = a

\* Row a changes under the decisions of others that are on their way.
Overtake(a, own) ==
  overtaken' = IF \E g \in Handlers \ own : Deciding(g, a) THEN overtaken \cup {a}
               ELSE overtaken

-----------------------------------------------------------------------------
(* Asking and withdrawing. *)

\* 409 if one is waiting for the day.
ReadForRequest(h, d, director) ==
  /\ handlers[h] = Idle
  /\ PendingFor(d) = {}
  /\ Goto(h, [pc |-> "file", day |-> d, director |-> director, late |-> FALSE])
  /\ UNCHANGED <<asks, record, hasty, overtaken>>

\* Once a row for day d is in, whoever checked before it was is late.
MakeLate(d) ==
  [g \in Handlers |->
    IF handlers[g].pc = "file" /\ handlers[g].day = d THEN [handlers[g] EXCEPT !.late = TRUE]
    ELSE handlers[g]]

\* The branch is told of the row afterwards, best effort, outside this module.
InsertRequest(h, a) ==
  LET w == handlers[h] IN
  /\ w.pc = "file"
  /\ asks[a] = NoAsk
  /\ asks' = [asks EXCEPT ![a] = NewAsk(w.day, FreshChain(w.director))]
  /\ hasty' = IF w.late THEN hasty \cup {a} ELSE hasty
  /\ handlers' = [MakeLate(w.day) EXCEPT ![h] = Idle]
  /\ UNCHANGED <<record, overtaken>>

Cancel(a) ==
  /\ IsPending(a)
  /\ asks' = [asks EXCEPT ![a].status = "cancelled"]
  /\ Overtake(a, {})
  /\ UNCHANGED <<record, handlers, hasty>>

-----------------------------------------------------------------------------
(* The Super Admin decides, on a row whose chain has an Owner level. *)

\* 409 if it is decided or the Owner has signed, 403 without an Owner level.
ReadForApprove(h, a) ==
  /\ handlers[h] = Idle
  /\ IsPending(a) /\ OwnerSigns(asks[a]) /\ MaySign(asks[a], "Owner")
  /\ Goto(h, [pc |-> "record", id |-> a, signs |-> Signatures(asks[a], "Owner")])
  /\ UNCHANGED <<asks, record, hasty, overtaken>>

\* The times go to the record, or are refused (a past day left open): then the
\* row stays as it is.
ApplyAdminTimes(h) ==
  LET w == handlers[h] IN
  /\ w.pc = "record"
  /\ \/ /\ record' = [record EXCEPT ![asks[w.id].day] = w.id]
        /\ Goto(h, [w EXCEPT !.pc = "approve"])
     \/ /\ Goto(h, Idle)
        /\ UNCHANGED record
  /\ UNCHANGED <<asks, hasty, overtaken>>

\* 409 if it was decided or withdrawn meanwhile.
DecideApprove(h) ==
  LET w == handlers[h] IN
  /\ w.pc = "approve"
  /\ IF IsPending(w.id)
       THEN /\ asks' = [asks EXCEPT ![w.id].status = "approved", ![w.id].signed = @ \o w.signs]
            /\ Overtake(w.id, {h})
       ELSE UNCHANGED <<asks, overtaken>>
  /\ Goto(h, Idle)
  /\ UNCHANGED <<record, hasty>>

\* Rejecting reads nothing that its filter does not assert; no chain loses its levels.
Reject(a) ==
  /\ IsPending(a) /\ OwnerSigns(asks[a])
  /\ asks' = [asks EXCEPT ![a].status = "rejected"]
  /\ Overtake(a, {})
  /\ UNCHANGED <<record, handlers, hasty>>

\* The process restarts.
Crash ==
  /\ handlers' = [h \in Handlers |-> Idle]
  /\ overtaken' = overtaken \cup {a \in Asks : \E h \in Handlers : Deciding(h, a)}
  /\ UNCHANGED <<asks, record, hasty>>

-----------------------------------------------------------------------------
(* The ERP. *)

\* Asking there: one pending ask per day is its rule too.
ErpFile(a, d, director) ==
  /\ asks[a] = NoAsk
  /\ PendingFor(d) = {}
  /\ asks' = [asks EXCEPT ![a] = NewAsk(d, FreshChain(director))]
  /\ handlers' = MakeLate(d)
  /\ UNCHANGED <<record, hasty, overtaken>>

\* A level signs, past the unsigned ones before it; the last one writes the day.
ErpSign(a, role) ==
  LET signed == asks[a].signed \o Signatures(asks[a], role)
      closes == role = Last(asks[a].chain)
  IN
  /\ IsPending(a) /\ MaySign(asks[a], role)
  /\ asks' = [asks EXCEPT ![a].signed = signed,
                          ![a].status = IF closes THEN "approved" ELSE @]
  /\ record' = IF closes THEN [record EXCEPT ![asks[a].day] = a] ELSE record
  /\ Overtake(a, {})
  /\ UNCHANGED <<handlers, hasty>>

ErpReject(a) ==
  /\ IsPending(a)
  /\ asks' = [asks EXCEPT ![a].status = "rejected"]
  /\ Overtake(a, {})
  /\ UNCHANGED <<record, handlers, hasty>>

-----------------------------------------------------------------------------
(* What the app shows. *)

\* Where the chain stands is shown while the row waits.
ToRegularizationDto(a) ==
  LET ask == asks[a] IN
  IF IsPending(a)
    THEN [id |-> a, day |-> ask.day, status |-> ask.status,
          waitingOn |-> WaitingOn(ask), signedBy |-> SignedBy(ask)]
    ELSE [id |-> a, day |-> ask.day, status |-> ask.status]

TimeCorrectionsByStatus(status) == {a \in Asks : asks[a].status = status}

\* The Super Admin's queue: everybody's rows, those filed on the ERP among them.
PendingForAdmin(status) == {ToRegularizationDto(a) : a \in TimeCorrectionsByStatus(status)}

-----------------------------------------------------------------------------
Next ==
  \/ \E h \in Handlers, d \in Days, director \in BOOLEAN : ReadForRequest(h, d, director)
  \/ \E h \in Handlers, a \in Asks : InsertRequest(h, a)
  \/ \E a \in Asks : Cancel(a)
  \/ \E h \in Handlers, a \in Asks : ReadForApprove(h, a)
  \/ \E h \in Handlers : ApplyAdminTimes(h)
  \/ \E h \in Handlers : DecideApprove(h)
  \/ \E a \in Asks : Reject(a)
  \/ Crash
  \/ \E a \in Asks, d \in Days, director \in BOOLEAN : ErpFile(a, d, director)
  \/ \E a \in Asks, role \in Roles : ErpSign(a, role)
  \/ \E a \in Asks : ErpReject(a)

Spec == Init /\ [][Next]_vars

-----------------------------------------------------------------------------
(* Properties. *)

\* One pending ask per day, unless one was filed on a reading that the other
\* had overtaken.
OneWaitingUnlessRace ==
  \A a, b \in Asks :
    a # b /\ IsPending(a) /\ IsPending(b) /\ asks[a].day = asks[b].day =>
    a \in hasty \/ b \in hasty

\* A day shows the times of an ask only if that ask was approved or is being
\* approved, or changed, or a restart came, while an approval was on its way.
RecordUnlessOvertaken ==
  \A d \in Days : \A a \in Asks :
    record[d] = a =>
      asks[a].status = "approved" \/ a \in overtaken \/ \E h \in Handlers : Deciding(h, a)

\* An approval is never ahead of the record: when an ask reads approved, its
\* day shows the times of an ask and no longer the punches.
ApprovedReachesRecord ==
  \A a \in Asks : asks[a].status = "approved" => record[asks[a].day] # "punched"

\* Nobody signs twice, and levels sign, or are signed past, in the chain's
\* order: unless the row changed while an approval in the app was on its way.
LevelOf(a, i) == Level(asks[a].chain, asks[a].signed[i].role)

SignedInOrderUnlessOvertaken ==
  \A a \in Asks \ overtaken :
    asks[a] # NoAsk =>
      \A i, j \in DOMAIN asks[a].signed : i < j => LevelOf(a, i) < LevelOf(a, j)

\* The queue says truly where a chain stands: the level a row is shown to wait on may sign
\* it, the levels before it are those that signed or were signed past, and only they are
\* shown as signed.  No pending row waits on nobody.
QueueNamesNextLevel ==
  \A row \in PendingForAdmin("pending") :
    LET ask  == asks[row.id]
        done == {ask.chain[i] : i \in 1..(Level(ask.chain, row.waitingOn) - 1)}
    IN /\ MaySign(ask, row.waitingOn)
       /\ SignedRoles(ask) = done
       /\ row.signedBy \subseteq done

\* Two decisions cannot both land, nor one on a row that was withdrawn.
DecisionsStand ==
  [][\A a \in Asks : asks[a] # NoAsk /\ ~IsPending(a) => asks'[a] = asks[a]]_vars

-----------------------------------------------------------------------------
(* What the code says of itself and does not do. *)

\* "nothing changes on the record until someone approves": with no decision on
\* its way, the record does not show an ask that was withdrawn or rejected.
RecordNeedsApproval ==
  (\A h \in Handlers : handlers[h] = Idle) =>
    \A d \in Days : \A a \in Asks : record[d] = a => asks[a].status \in {"pending", "approved"}
=============================================================================
