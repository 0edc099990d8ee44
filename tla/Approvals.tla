----------------------------- MODULE Approvals -----------------------------
(***************************************************************************)
(* The approval service's documents: requests are raised, decided and      *)
(* withdrawn by HTTP handlers that read a document, plan an update against *)
(* what they read and then write it with a conditional findOneAndUpdate.   *)
(* It follows src/src/mongo/approvals/approval.service.ts and takes the    *)
(* chain rules from ApprovalChain.  ApprovalSignals adds what the service  *)
(* tells people and what their clients show.                               *)
(*                                                                         *)
(* Everything between two awaits of a handler is one action: any other     *)
(* handler may run between the read and the write.  The process may crash  *)
(* at any point, which forgets the handlers in flight and no document.     *)
(***************************************************************************)
EXTENDS ApprovalChain

CONSTANTS
  Requests,  \* request ids: how many requests a behaviour may raise
  Handlers   \* HTTP handlers that may be in flight at once

ASSUME RequestsAreFinite == IsFiniteSet(Requests)

VARIABLES
  docs,      \* the approval_requests collection
  handlers   \* what each handler in flight holds

vars == <<docs, handlers>>

NoDoc == [status |-> "none"]
Idle  == [op |-> "idle"]

Decisions   == [op : {"decide"}, user : Users, action : {"approve", "reject"},
                req : Requests, before : Doc]
Withdrawals == [op : {"cancel"}, req : Requests, before : Doc]

TypeOK ==
  /\ docs \in [Requests -> Doc \cup {NoDoc}]
  /\ handlers \in [Handlers -> {Idle} \cup Decisions \cup Withdrawals]

Init ==
  /\ docs = [r \in Requests |-> NoDoc]
  /\ handlers = [h \in Handlers |-> Idle]

Exists(r) == docs[r].status # "none"

-----------------------------------------------------------------------------
(* Raising a request. *)

\* POST /approvals with the requester's own levels.
Create(r, u) ==
  /\ docs[r] = NoDoc
  /\ \E k \in Levels :
       \E who \in [1..k -> SUBSET Users], mode \in [1..k -> Modes] :
         /\ Acceptable(u, who)
         /\ docs' = [docs EXCEPT ![r] = NewDoc(u, k, who, mode)]
  /\ UNCHANGED handlers

\* POST /approvals with the earlier form's role picks: every step of the
\* hierarchy, one person each.
CreateByRole(r, u) ==
  LET k == Cardinality(HierarchyFor(u)) IN
  /\ docs[r] = NoDoc
  /\ k \in Levels
  /\ \E who \in RolePicks(u) :
       docs' = [docs EXCEPT ![r] = NewDoc(u, k, who, [l \in 1..k |-> "all"])]
  /\ UNCHANGED handlers

-----------------------------------------------------------------------------
(* Deciding and withdrawing: a read, then a conditional write. *)

\* decide() up to its await: find the document and plan against it.  A plan
\* that is refused (not pending, not your turn, already decided) changes nothing.
ReadForDecision(h, u, r, action) ==
  /\ handlers[h] = Idle
  /\ Exists(r)
  /\ IsTurnOf(docs[r], u)
  /\ handlers' = [handlers EXCEPT ![h] =
       [op |-> "decide", user |-> u, action |-> action, req |-> r, before |-> docs[r]]]
  /\ UNCHANGED docs

\* Regression: the slots of the level are not asserted in the write's filter.
UnmovedLevelOnly(d, before) ==
  /\ d.status = "pending"
  /\ d.current = before.current

\* The filter of the write: still pending, still on that level, and every slot
\* of the level exactly as it was read.
Unmoved(d, before) ==
  /\ d.status = "pending"
  /\ d.current = before.current
  /\ d.slot[before.current] = before.slot[before.current]

WriteDecision(h) ==
  LET w == handlers[h] IN
  /\ w.op = "decide"
  /\ Unmoved(docs[w.req], w.before)
  /\ docs' = [docs EXCEPT ![w.req] = Apply(@, DecisionSet(w.before, w.user, w.action))]
  /\ handlers' = [handlers EXCEPT ![h] = Idle]

\* cancel() up to its await.
ReadForCancel(h, r) ==
  /\ handlers[h] = Idle
  /\ Exists(r)
  /\ docs[r].status = "pending"
  /\ handlers' = [handlers EXCEPT ![h] = [op |-> "cancel", req |-> r, before |-> docs[r]]]
  /\ UNCHANGED docs

\* Regression: an unconditional write by id.
WriteCancelById(h) ==
  LET w == handlers[h] IN
  /\ w.op = "cancel"
  /\ docs' = [docs EXCEPT ![w.req] = Apply(@, CancelSet(w.before))]
  /\ handlers' = [handlers EXCEPT ![h] = Idle]

\* The withdrawal's filter asks only that the request is still pending.
WriteCancel(h) ==
  LET w == handlers[h] IN
  /\ w.op = "cancel"
  /\ docs[w.req].status = "pending"
  /\ docs' = [docs EXCEPT ![w.req] = Apply(@, CancelSet(w.before))]
  /\ handlers' = [handlers EXCEPT ![h] = Idle]

\* The filter of either write matches nothing: 409 STALE.
Stale(h) ==
  LET w == handlers[h] IN
  /\ \/ w.op = "decide" /\ ~Unmoved(docs[w.req], w.before)
     \/ w.op = "cancel" /\ docs[w.req].status # "pending"
  /\ handlers' = [handlers EXCEPT ![h] = Idle]
  /\ UNCHANGED docs

\* The process stops and restarts.
Crash ==
  /\ handlers' = [h \in Handlers |-> Idle]
  /\ UNCHANGED docs

-----------------------------------------------------------------------------
Next ==
  \/ \E r \in Requests, u \in Users : Create(r, u)
  \/ \E r \in Requests, u \in Users : CreateByRole(r, u)
  \/ \E h \in Handlers, r \in Requests, u \in Users, action \in {"approve", "reject"} :
       ReadForDecision(h, u, r, action)
  \/ \E h \in Handlers : WriteDecision(h)
  \/ \E h \in Handlers, r \in Requests : ReadForCancel(h, r)
  \/ \E h \in Handlers : WriteCancel(h)
  \/ \E h \in Handlers : Stale(h)
  \/ Crash

Spec == Init /\ [][Next]_vars

-----------------------------------------------------------------------------
(* Properties. *)

\* Optimistic writes never strand a chain: as long as a request is pending, the
\* level it sits on is open and somebody on it still has to decide, every
\* earlier level is approved and no later one has been touched.
SomebodyCanAct ==
  \A r \in Requests :
    docs[r].status = "pending" =>
      LET d == docs[r] IN
      /\ d.current <= d.n
      /\ d.level[d.current] = "pending"
      /\ \E u \in Users : d.slot[d.current][u] = "pending"
      /\ \A l \in 1..(d.current - 1) : d.level[l] = "approved"
      /\ \A l \in (d.current + 1)..d.n :
           d.level[l] = "waiting" /\ \A u \in On(d, l) : d.slot[l][u] = "waiting"

\* A level that is approved has the approvals its mode asks for, whatever
\* handlers interleaved on the way, and nobody on it is left undecided.
HasQuorum(d, l) ==
  LET approved == {u \in Users : d.slot[l][u] = "approved"} IN
  /\ IF d.mode[l] = "all" THEN approved = On(d, l) ELSE \E u \in Users : approved = {u}
  /\ \A u \in Users : d.slot[l][u] \notin Open

\* A request goes past a level only with that level's quorum, and is approved
\* only with every level's.
ApprovedHasQuorum ==
  \A r \in Requests :
    docs[r].status \in {"pending", "approved"} =>
      \A l \in 1..(docs[r].current - 1) : HasQuorum(docs[r], l)

\* A finished request has no level or slot left waiting on anybody, also when
\* the withdrawal was planned against a document others have changed since, and
\* an approved one has been through all its levels.
FinalIsClosed ==
  \A r \in Requests :
    docs[r].status \in Final =>
      /\ docs[r].status = "approved" => docs[r].current = docs[r].n + 1
      /\ \A l \in Levels :
           /\ docs[r].level[l] \notin Open
           /\ \A u \in Users : docs[r].slot[l][u] \notin Open

\* A finished request never changes again, and a decision that was recorded
\* stays as it was until the request is withdrawn.
KeepsDecisions(r) ==
  \A l \in Levels, u \in Users :
    docs[r].slot[l][u] \in Decided => docs'[r].slot[l][u] = docs[r].slot[l][u]

HistoryStands ==
  [][\A r \in Requests : Exists(r) =>
       /\ docs[r].status \in Final => docs'[r] = docs[r]
       /\ docs'[r].status # "cancelled" => KeepsDecisions(r)]_vars

\* A withdrawal skips whatever was undecided and keeps what was decided.
WithdrawalKeepsDecisions ==
  [][\A r \in Requests : Exists(r) => KeepsDecisions(r)]_vars

\* Reads and conditional writes together behave as atomic decisions.
Lifecycle == INSTANCE ApprovalLifecycle WITH
  status <- [r \in Requests |-> docs[r].status],
  at     <- [r \in Requests |-> IF Exists(r) THEN docs[r].current ELSE 0],
  chain  <- [r \in Requests |->
               IF Exists(r)
               THEN [l \in 1..docs[r].n |-> [who |-> On(docs[r], l), mode |-> docs[r].mode[l]]]
               ELSE <<>>],
  yes    <- [r \in Requests |->
               IF Exists(r)
               THEN {u \in Users : \E l \in Levels : docs[r].slot[l][u] = "approved"}
               ELSE {}]

ImplementsLifecycle == Lifecycle!Spec
=============================================================================
