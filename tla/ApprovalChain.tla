--------------------------- MODULE ApprovalChain ---------------------------
(***************************************************************************)
(* The pure half of the approval workflow: what a chain of levels looks    *)
(* like, what one approve, reject or withdrawal writes into it, and who    *)
(* it has reached.  It follows src/src/mongo/approvals/approval.chain.ts.  *)
(*                                                                         *)
(* A stored chain is kept here as total functions over Levels and Users:   *)
(* "none" marks a level the request does not have and a person who is not  *)
(* on a level.  currentLevel is 1-based (the code's index plus one), so    *)
(* n + 1 is the value it takes once the last level has approved.           *)
(***************************************************************************)
EXTENDS Integers, FiniteSets

CONSTANTS
  Users,        \* CRM user ids
  CanAct,       \* the people who can act on a request: active, with App Access
  MaxLevels,    \* levels per request (APPROVAL_LIMITS.levels)
  MaxPerLevel,  \* approvers on one level (APPROVAL_LIMITS.approversPerLevel)
  RankOf,       \* CRM role rank of each user, 1 = business owner, 5 = employee
  BranchesOf    \* live branches of each user

ASSUME ChainConstants ==
  /\ IsFiniteSet(Users)
  /\ CanAct \subseteq Users
  /\ MaxLevels \in Nat \ {0}
  /\ MaxPerLevel \in Nat \ {0}
  /\ RankOf \in [Users -> 1..5]

Levels   == 1..MaxLevels
Modes    == {"all", "any"}
Statuses == {"waiting", "pending", "approved", "rejected", "skipped"}
Marks    == Statuses \cup {"none"}
Final    == {"approved", "rejected", "cancelled"}
Decided  == {"approved", "rejected"}
Open     == {"waiting", "pending"}

Doc == [requester : Users,
        status    : {"pending"} \cup Final,
        n         : Levels,
        current   : 1..(MaxLevels + 1),
        mode      : [Levels -> Modes],
        level     : [Levels -> Marks],
        slot      : [Levels -> [Users -> Marks]]]

On(d, l)    == {u \in Users : d.slot[l][u] # "none"}
EveryoneOn(d) == UNION {On(d, l) : l \in Levels}

-----------------------------------------------------------------------------
(* Building the chain. *)

Pool(u) == CanAct \ {u}

\* What planLevels accepts: who is a function from the levels asked for to the
\* people put on each of them.
Acceptable(requester, who) ==
  /\ \A l \in DOMAIN who :
       /\ who[l] # {}
       /\ Cardinality(who[l]) <= MaxPerLevel
       /\ requester \notin who[l]
       /\ who[l] \subseteq Pool(requester)
  /\ \A l, m \in DOMAIN who : l # m => who[l] \cap who[m] = {}

\* Regression: currentLevel stored one too low.
NewDocOffByOne(requester, k, who, mode) ==
  LET start(l) == IF l = 1 THEN "pending" ELSE "waiting"
  IN  [requester |-> requester,
       status    |-> "pending",
       n         |-> k,
       current   |-> 0,
       mode      |-> [l \in Levels |-> IF l <= k THEN mode[l] ELSE "all"],
       level     |-> [l \in Levels |-> IF l <= k THEN start(l) ELSE "none"],
       slot      |-> [l \in Levels |-> [u \in Users |->
                        IF l <= k /\ u \in who[l] THEN start(l) ELSE "none"]]]

\* The stored chain of k levels: level 1 and everyone on it start pending.
NewDoc(requester, k, who, mode) ==
  LET start(l) == IF l = 1 THEN "pending" ELSE "waiting"
  IN  [requester |-> requester,
       status    |-> "pending",
       n         |-> k,
       current   |-> 1,
       mode      |-> [l \in Levels |-> IF l <= k THEN mode[l] ELSE "all"],
       level     |-> [l \in Levels |-> IF l <= k THEN start(l) ELSE "none"],
       slot      |-> [l \in Levels |-> [u \in Users |->
                        IF l <= k /\ u \in who[l] THEN start(l) ELSE "none"]]]

\* The fixed role hierarchy of the earlier form: ranks 3, 2 and 1 in that order.
Candidates(requester, rank) ==
  {p \in Pool(requester) :
     /\ RankOf[p] = rank
     /\ rank = 3 => BranchesOf[p] \cap BranchesOf[requester] # {}}

HierarchyFor(requester) ==
  {rank \in 1..3 :
     /\ rank < RankOf[requester] \/ (rank = 1 /\ RankOf[requester] = 1)
     /\ Candidates(requester, rank) # {}}

\* planChain: one person for every step the hierarchy offers, in review order.
StepRank(requester, l) ==
  CHOOSE rank \in HierarchyFor(requester) :
    Cardinality({s \in HierarchyFor(requester) : s > rank}) = l - 1

RolePicks(requester) ==
  {who \in [1..Cardinality(HierarchyFor(requester)) -> {{u} : u \in CanAct}] :
     \A l \in DOMAIN who : who[l] \subseteq Candidates(requester, StepRank(requester, l))}

-----------------------------------------------------------------------------
(* Deciding.  A decision is planned against the document as it was read    *)
(* and produces a $set: the fields and array paths it names, nothing else. *)
(* Keep, and 0 for the current level, stand for a path that is not in it.  *)

Keep == "keep"

Set == [status  : {Keep} \cup Final,
        current : 0..(MaxLevels + 1),
        level   : [Levels -> {Keep} \cup Statuses],
        slot    : [Levels -> [Users -> {Keep} \cup Statuses]]]

\* Regression: anybody undecided may decide, whichever level the request is on.
IsTurnOfAnyLevel(d, u) ==
  /\ d.status = "pending"
  /\ \E l \in 1..d.n : d.slot[l][u] \in Open

IsTurnOf(d, u) ==
  /\ d.status = "pending"
  /\ d.current \in 1..d.n
  /\ d.slot[d.current][u] = "pending"

StillPending(d, u) == {v \in Users \ {u} : d.slot[d.current][v] = "pending"}

\* Regression: the level's mode is not looked at.
ClosesAtOnce(d, u) == TRUE

Closes(d, u) == d.mode[d.current] = "any" \/ StillPending(d, u) = {}

\* A reject closes the level and skips whatever is undecided from here on.
RejectSet(d, u) ==
  [status  |-> "rejected",
   current |-> 0,
   level   |-> [l \in Levels |-> IF l = d.current THEN "rejected"
                                 ELSE IF l \in d.current + 1 .. d.n THEN "skipped"
                                 ELSE Keep],
   slot    |-> [l \in Levels |-> [v \in Users |->
                  IF l = d.current /\ v = u THEN "rejected"
                  ELSE IF \/ l = d.current /\ v \in StillPending(d, u)
                          \/ l > d.current /\ v \in On(d, l)
                       THEN "skipped" ELSE Keep]]]

\* An approve that leaves its level waiting for others touches its slot only.
ApproveSlotSet(d, u) ==
  [status  |-> Keep,
   current |-> 0,
   level   |-> [l \in Levels |-> Keep],
   slot    |-> [l \in Levels |-> [v \in Users |->
                  IF l = d.current /\ v = u THEN "approved" ELSE Keep]]]

\* An approve that closes its level hands the request to the next, or ends it.
\* On a level of mode "any" the colleagues who had not decided are skipped.
CloseLevelSet(d, u) ==
  [status  |-> IF d.current = d.n THEN "approved" ELSE Keep,
   current |-> d.current + 1,
   level   |-> [l \in Levels |-> IF l = d.current THEN "approved"
                                 ELSE IF l = d.current + 1 /\ l <= d.n THEN "pending"
                                 ELSE Keep],
   slot    |-> [l \in Levels |-> [v \in Users |->
                  IF l = d.current /\ v = u THEN "approved"
                  ELSE IF l = d.current /\ v \in StillPending(d, u) THEN "skipped"
                  ELSE IF l = d.current + 1 /\ v \in On(d, l) THEN "pending"
                  ELSE Keep]]]

DecisionSet(d, u, action) ==
  IF action = "reject" THEN RejectSet(d, u)
  ELSE IF Closes(d, u) THEN CloseLevelSet(d, u)
  ELSE ApproveSlotSet(d, u)

\* Regression: the later levels, which are still waiting, are forgotten.
CancelSetCurrentOnly(d) ==
  [status  |-> "cancelled",
   current |-> 0,
   level   |-> [l \in Levels |-> IF d.level[l] = "pending" THEN "skipped" ELSE Keep],
   slot    |-> [l \in Levels |-> [v \in Users |->
                  IF d.slot[l][v] = "pending" THEN "skipped" ELSE Keep]]]

\* planCancel: every level and every slot that is still open is skipped.
CancelSet(d) ==
  [status  |-> "cancelled",
   current |-> 0,
   level   |-> [l \in Levels |-> IF d.level[l] \in Open THEN "skipped" ELSE Keep],
   slot    |-> [l \in Levels |-> [v \in Users |->
                  IF d.slot[l][v] \in Open THEN "skipped" ELSE Keep]]]

\* What the database does with a $set: it lands on the document of the moment
\* of the write, which need not be the one the plan was made from.
Put(old, new) == IF new = Keep THEN old ELSE new

Apply(d, set) ==
  [requester |-> d.requester,
   status    |-> Put(d.status, set.status),
   n         |-> d.n,
   current   |-> IF set.current = 0 THEN d.current ELSE set.current,
   mode      |-> d.mode,
   level     |-> [l \in Levels |-> Put(d.level[l], set.level[l])],
   slot      |-> [l \in Levels |-> [u \in Users |-> Put(d.slot[l][u], set.slot[l][u])]]]

-----------------------------------------------------------------------------
(* Who a request has come to. *)

HasReached(d, u) ==
  \E l \in Levels :
    /\ u \in On(d, l)
    /\ d.level[l] \in {"pending"} \cup Decided \/ d.slot[l][u] \in Decided

\* Regression: everybody on the chain is told, reached or not.
AudienceEveryone(d) == {d.requester} \cup EveryoneOn(d)

Audience(d) == {d.requester} \cup {u \in Users : HasReached(d, u)}

\* Who a closed level hands the request to: nobody unless levels remain.
NextApprovers(d, u, action) ==
  IF action = "approve" /\ Closes(d, u) /\ d.current < d.n
  THEN On(d, d.current + 1) ELSE {}
=============================================================================
