-------------------------- MODULE ApprovalSignals --------------------------
(***************************************************************************)
(* What the approval service tells people, on top of Approvals: every      *)
(* write that takes effect is followed by bare-id socket signals, and a    *)
(* client that gets one refetches its list through the filtered REST       *)
(* reads.  It follows announceDecision and the emits of create and cancel  *)
(* in src/src/mongo/approvals/approval.service.ts; the clients are the     *)
(* mobile app, which is not in this repository.                            *)
(*                                                                         *)
(* What those reads show, and to whom: who may open a request, who finds   *)
(* it in which list, what its card says.  The lists and counts are         *)
(* database filters over the stored levels; the card and the single read   *)
(* look at currentLevel and the slots in memory.  They have to agree.      *)
(*                                                                         *)
(* An announcement is detached from its HTTP handler (`void`) and awaits   *)
(* the names of the people it mentions before it tells the next level, so  *)
(* it interleaves with everything, may fail there, and is lost in a crash. *)
(***************************************************************************)
EXTENDS Approvals

CONSTANT Supers    \* super admins of the tenant

VARIABLES
  news,     \* the announcement each handler has left behind
  refetch,  \* users whose client has a signal it has not acted on yet
  desk,     \* users whose client shows the request as theirs to decide
  heard,    \* outcomes that were pushed to the requester
  lossy     \* history: an announcement about the request was lost, or was
            \* addressed from a document that has moved to another level since

sigVars == <<docs, handlers, news, refetch, desk, heard, lossy>>

-----------------------------------------------------------------------------
(* What is shown of a stored request d, and to whom. *)

Scopes == {"all", "mine", "assigned", "actionable"}

Reached == {"pending", "approved", "rejected"}

\* The filter: a level of theirs has been reached, or a slot of theirs is decided.
ReachedMe(d, u) ==
  \E l \in Levels : (d.level[l] \in Reached /\ u \in On(d, l)) \/ d.slot[l][u] \in Decided

\* Regression: a level that is not reached yet counts for the list of what waits.
MyTurnAnyLevel(d, u) ==
  d.status = "pending" /\ \E l \in Levels : d.slot[l][u] \in Open

\* The filter behind the actionable list, which looks at the statuses and not at
\* currentLevel as isTurnOf does.
MyTurn(d, u) ==
  d.status = "pending" /\ \E l \in Levels : d.level[l] = "pending" /\ d.slot[l][u] = "pending"

Listed(d, u, scope) ==
  CASE scope = "mine"       -> d.requester = u
    [] scope = "assigned"   -> ReachedMe(d, u)
    [] scope = "actionable" -> MyTurn(d, u)
    [] scope = "all"        -> d.requester = u \/ ReachedMe(d, u)

\* The numbers on the chips and the badge of the tab.
CountsFor(ds, u, scope) ==
  [all        |-> Cardinality({d \in ds : Listed(d, u, scope)}),
   pending    |-> Cardinality({d \in ds : Listed(d, u, scope) /\ d.status = "pending"}),
   actionable |-> Cardinality({d \in ds : MyTurn(d, u)})]

\* GET /approvals/:id: a super admin sees any request; to everybody else one that has not
\* come to them does not exist.
VisibleDoc(d, u) == d.requester = u \/ HasReached(d, u) \/ u \in Supers

\* The card, as it is made for one viewer.
Present(d, u) ==
  LET pending == d.status = "pending"
      current == pending /\ d.current <= d.n
      mine    == {l \in Levels : d.slot[l][u] \in Decided}
  IN
  [currentLevel     |-> IF current THEN d.current ELSE 0,
   currentApprovers |-> IF current THEN {v \in Users : d.slot[d.current][v] = "pending"} ELSE {},
   approved         |-> [l \in 1..d.n |-> Cardinality({v \in Users : d.slot[l][v] = "approved"})],
   required         |-> [l \in 1..d.n |-> IF d.mode[l] = "any" THEN 1 ELSE Cardinality(On(d, l))],
   canAct           |-> IsTurnOf(d, u),
   canCancel        |-> pending /\ d.requester = u,
   myDecision       |-> IF mine = {} THEN "none"
                        ELSE d.slot[CHOOSE l \in mine : \A m \in mine : l <= m][u]]

\* The suggestion of the form: a level for every step of the role hierarchy, with the one
\* person who can be put there; left open when there are several.
SuggestedLevels(u) ==
  [l \in 1..Cardinality(HierarchyFor(u)) |->
     LET who == Candidates(u, StepRank(u, l)) IN IF Cardinality(who) = 1 THEN who ELSE {}]

-----------------------------------------------------------------------------
(* What people are told. *)

Nothing == [stage |-> "none"]

\* What the requester is pushed once the names are there: progress, or the outcome.
Outcome == {"none", "progress"} \cup Decided

Announcement ==
  [stage : {"emit"}, req : Requests, to : SUBSET Users, next : SUBSET Users, say : Outcome]
  \cup [stage : {"tell"}, req : Requests, next : SUBSET Users, say : Outcome]

SigTypeOK ==
  /\ TypeOK
  /\ news \in [Handlers -> {Nothing} \cup Announcement]
  /\ refetch \in [Requests -> SUBSET Users]
  /\ desk \in [Requests -> SUBSET Users]
  /\ heard \in [Requests -> SUBSET Decided]
  /\ lossy \in [Requests -> BOOLEAN]

SigInit ==
  /\ Init
  /\ news = [h \in Handlers |-> Nothing]
  /\ refetch = [r \in Requests |-> {}]
  /\ desk = [r \in Requests |-> {}]
  /\ heard = [r \in Requests |-> {}]
  /\ lossy = [r \in Requests |-> FALSE]

\* h leaves an announcement behind.  Bound: a handler slot is not used again
\* before its announcement is done.
Leave(h, r, to, next, say) ==
  /\ news[h] = Nothing
  /\ news' = [news EXCEPT ![h] =
       [stage |-> "emit", req |-> r, to |-> to, next |-> next, say |-> say]]
  /\ UNCHANGED <<refetch, desk, heard>>

\* A new request comes to level 1 only.
SigCreate(h, r, u) ==
  /\ handlers[h] = Idle
  /\ Create(r, u) \/ CreateByRole(r, u)
  /\ Leave(h, r, On(docs'[r], 1), {}, "none")
  /\ UNCHANGED lossy

\* A decision is announced to everybody the request has touched, less the
\* people it is about to come to; its requester is pushed what it has led to.
SigWriteDecision(h) ==
  /\ WriteDecision(h)
  /\ LET w     == handlers[h]
         next  == NextApprovers(w.before, w.user, w.action)
         after == docs'[w.req]
     IN  Leave(h, w.req, Audience(after) \ next, next,
               IF after.status \in Decided THEN after.status ELSE "progress")
  /\ UNCHANGED lossy

\* A withdrawal is announced to the audience of the document as it was read,
\* which misses a level the request has come to in between.
SigWriteCancel(h) ==
  LET w == handlers[h] IN
  /\ WriteCancel(h)
  /\ Leave(h, w.req, Audience(w.before), {}, "none")
  /\ lossy' = [lossy EXCEPT ![w.req] = @ \/ docs[w.req].current # w.before.current]

\* The actions of Approvals that announce nothing.
SigSilent ==
  /\ \/ \E h \in Handlers, r \in Requests, u \in Users, action \in {"approve", "reject"} :
          news[h] = Nothing /\ ReadForDecision(h, u, r, action)
     \/ \E h \in Handlers, r \in Requests : news[h] = Nothing /\ ReadForCancel(h, r)
     \/ \E h \in Handlers : Stale(h)
  /\ UNCHANGED <<news, refetch, desk, heard, lossy>>

Signal(r, to) == refetch' = [refetch EXCEPT ![r] = @ \cup to]

\* The synchronous part of an announcement.
Emit(h) ==
  LET e == news[h] IN
  /\ e.stage = "emit"
  /\ Signal(e.req, e.to)
  /\ news' = [news EXCEPT ![h] =
       IF e.say = "none" THEN Nothing
       ELSE [stage |-> "tell", req |-> e.req, next |-> e.next, say |-> e.say]]
  /\ UNCHANGED <<docs, handlers, desk, heard, lossy>>

\* Handed over to the push service, which may lose it; that never fails the decision.
SendToUser(r, say) == heard' = [heard EXCEPT ![r] = @ \cup ({say} \cap Decided)]

\* announceDecision after resolvePeople: the next level hears of the request, and the
\* requester of the decision.
Tell(h) ==
  /\ news[h].stage = "tell"
  /\ Signal(news[h].req, news[h].next)
  /\ SendToUser(news[h].req, news[h].say)
  /\ news' = [news EXCEPT ![h] = Nothing]
  /\ UNCHANGED <<docs, handlers, desk, lossy>>

\* resolvePeople throws: the failure is logged and the signal is gone.
TellFails(h) ==
  /\ news[h].stage = "tell"
  /\ lossy' = [lossy EXCEPT ![news[h].req] = TRUE]
  /\ news' = [news EXCEPT ![h] = Nothing]
  /\ UNCHANGED <<docs, handlers, refetch, desk, heard>>

SigCrash ==
  /\ Crash
  /\ news' = [h \in Handlers |-> Nothing]
  /\ lossy' = [r \in Requests |->
       lossy[r] \/ \E h \in Handlers : news[h] # Nothing /\ news[h].req = r]
  /\ UNCHANGED <<refetch, desk, heard>>

\* A client reads its list, because of a signal or because the user opened it.
Fetch(u, r) ==
  /\ Exists(r)
  /\ refetch' = [refetch EXCEPT ![r] = @ \ {u}]
  /\ desk' = [desk EXCEPT ![r] = IF MyTurn(docs[r], u) THEN @ \cup {u} ELSE @ \ {u}]
  /\ UNCHANGED <<docs, handlers, news, heard, lossy>>

SigNext ==
  \/ \E h \in Handlers, r \in Requests, u \in Users : SigCreate(h, r, u)
  \/ \E h \in Handlers : SigWriteDecision(h)
  \/ \E h \in Handlers : SigWriteCancel(h)
  \/ SigSilent
  \/ \E h \in Handlers : Emit(h)
  \/ \E h \in Handlers : Tell(h)
  \/ \E h \in Handlers : TellFails(h)
  \/ SigCrash
  \/ \E u \in Users, r \in Requests : Fetch(u, r)

SigSpec == SigInit /\ [][SigNext]_sigVars

-----------------------------------------------------------------------------
(* Properties.  What has to agree, for a stored request d. *)

\* Nobody learns of a request before it comes to them: no list of theirs has it, nor can
\* they open it, unless it is their own or they are super admins.
SeenOnlyWhenReached(d) ==
  \A u \in Users :
    /\ \A scope \in Scopes : Listed(d, u, scope) => VisibleDoc(d, u)
    /\ VisibleDoc(d, u) =>
         \/ u = d.requester \/ u \in Supers
         \/ \E l \in 1..d.current : u \in On(d, l)

\* The list of what waits for somebody, the button on the card and the names the others
\* see on it are the same; a card can be withdrawn or decided, never by one person; and a
\* level asks for approvals it does not have as long as it is pending.
CardAgreesWithLists(d) ==
  \A u \in Users :
    LET card == Present(d, u) IN
    /\ card.canAct <=> Listed(d, u, "actionable")
    /\ card.canAct <=> u \in card.currentApprovers
    /\ ~(card.canAct /\ card.canCancel)
    /\ card.canAct => card.myDecision = "none"
    /\ card.myDecision # "none" => Listed(d, u, "assigned")
    /\ d.status = "pending" =>
         /\ card.currentLevel # 0 /\ card.currentApprovers # {}
         /\ card.approved[d.current] < card.required[d.current]
         /\ \A l \in 1..(d.current - 1) : card.approved[l] >= card.required[l]

\* The badge counts nothing that the chips leave out.
BadgeIsAmongPending(ds) ==
  \A u \in Users : CountsFor(ds, u, "all").actionable <= CountsFor(ds, u, "all").pending

\* A suggestion that names somebody on every level is a chain the service accepts.
SuggestionsAreAccepted ==
  \A u \in Users :
    LET chain == SuggestedLevels(u) IN
    (\A l \in DOMAIN chain : chain[l] # {}) => Acceptable(u, chain)

-----------------------------------------------------------------------------
(* Properties of the documents and of what is under way. *)

Touched(d) == {d.requester} \cup UNION {On(d, l) : l \in 1..d.current \cap Levels}

\* A person on a later level hears nothing before the chain reaches that level:
\* neither a signal that was sent nor one about to be sent is for them.
NobodyToldEarly ==
  \A r \in Requests : Exists(r) =>
    /\ refetch[r] \subseteq Touched(docs[r])
    /\ \A h \in Handlers :
         LET e == news[h] IN
         e # Nothing /\ e.req = r =>
           /\ e.next \subseteq Touched(docs[r])
           /\ e.stage = "emit" => e.to \subseteq Touched(docs[r])

\* Once every signal about a request has been delivered and none was lost, the
\* clients that show it as theirs to decide are exactly those whose turn it is:
\* nobody, once it is decided or withdrawn.
Quiet(r) ==
  /\ Exists(r)
  /\ refetch[r] = {}
  /\ ~lossy[r]
  /\ \A h \in Handlers : news[h] # Nothing => news[h].req # r

DesksAgree ==
  \A r \in Requests : Quiet(r) => desk[r] = {u \in Users : IsTurnOf(docs[r], u)}

\* A requester is pushed no outcome but the one their request has, however decisions and
\* their announcements follow one another; and that one, unless it was lost.
OutcomeIsHeard ==
  \A r \in Requests : Exists(r) =>
    /\ heard[r] \subseteq {docs[r].status}
    /\ Quiet(r) /\ docs[r].status \in Decided => heard[r] # {}

\* What is shown of the requests agrees, whoever looks.  It depends on the documents
\* only, and every document is also there with nothing under way: looked at then.
ShownAgrees ==
  handlers = [h \in Handlers |-> Idle] /\ news = [h \in Handlers |-> Nothing]
    /\ refetch = [r \in Requests |-> {}] =>
  LET ds == {docs[r] : r \in {r \in Requests : Exists(r)}} IN
  /\ \A d \in ds : SeenOnlyWhenReached(d) /\ CardAgreesWithLists(d)
  /\ BadgeIsAmongPending(ds)

\* What people are shown and told agrees with the document and with one another.
ShownIsTrue == DesksAgree /\ OutcomeIsHeard /\ ShownAgrees
=============================================================================
