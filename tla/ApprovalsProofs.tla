-------------------------- MODULE ApprovalsProofs --------------------------
(***************************************************************************)
(* Approvals and ApprovalSignals, for any people, chains, requests and     *)
(* number of handlers in flight: type correctness and the safety of the    *)
(* optimistic writes; that reads and writes implement ApprovalLifecycle;   *)
(* and, in the second half, what people are told and shown.                *)
(*                                                                         *)
(* The inductive invariant has two parts.  Shape says what a stored chain  *)
(* looks like at each status.  Behind relates what a handler read to what  *)
(* is stored now: the chain itself is the same, and whatever is open now   *)
(* was open when it was read.  The second is what makes a withdrawal that  *)
(* was planned against an old document leave nothing open behind.          *)
(*                                                                         *)
(* With nobody on two levels of a chain (AllApart), every step maps to a   *)
(* step of ApprovalLifecycle or to none: see StepKinds and StepRefines.    *)
(*                                                                         *)
(* The invariant of the signals (SigInv) stands on it.  Ordered adds what  *)
(* the lists and cards need of a chain, and ReadOnce what a handler read;  *)
(* Coming says of somebody whose client is out of date that a signal for   *)
(* them is on its way or was lost.                                         *)
(***************************************************************************)
EXTENDS ApprovalSignals, TLAPS, FiniteSetTheorems

\* What a stored chain looks like at each status.
Shape(d) ==
  /\ \A l \in Levels : l > d.n => d.level[l] = "none" /\ \A u \in Users : d.slot[l][u] = "none"
  /\ \A l \in Levels : l <= d.n => \E u \in Users : d.slot[l][u] # "none"
  /\ d.status \in {"pending", "approved"} =>
       \A l \in Levels : l < d.current => d.level[l] = "approved" /\ HasQuorum(d, l)
  /\ d.status = "approved" => d.current = d.n + 1
  /\ d.status = "pending" =>
       /\ d.current \in Levels /\ d.current <= d.n
       /\ d.level[d.current] = "pending"
       /\ \E u \in Users : d.slot[d.current][u] = "pending"
       /\ \A u \in Users : d.slot[d.current][u] \in {"none", "pending", "approved"}
       /\ d.mode[d.current] = "any" =>
            \A u \in Users : d.slot[d.current][u] \in {"none", "pending"}
       /\ \A l \in Levels : d.current < l /\ l <= d.n =>
            d.level[l] = "waiting" /\ \A u \in Users : d.slot[l][u] \in {"none", "waiting"}
  /\ d.status \in Final =>
       \A l \in Levels : d.level[l] \notin Open /\ \A u \in Users : d.slot[l][u] \notin Open

\* The same people on the same levels.
SameChain(d, e) ==
  /\ d.n = e.n
  /\ d.mode = e.mode
  /\ d.requester = e.requester
  /\ \A l \in Levels : d.level[l] = "none" <=> e.level[l] = "none"
  /\ \A l \in Levels : \A u \in Users : d.slot[l][u] = "none" <=> e.slot[l][u] = "none"

\* What is open in d was open in the earlier e.
Shrunk(d, e) ==
  \A l \in Levels :
    /\ d.level[l] \in Open => e.level[l] \in Open
    /\ \A u \in Users : d.slot[l][u] \in Open => e.slot[l][u] \in Open

\* What a handler in flight read is the stored document or an earlier state of it.
Behind(h) ==
  handlers[h] # Idle =>
    /\ Exists(handlers[h].req)
    /\ SameChain(docs[handlers[h].req], handlers[h].before)
    /\ Shrunk(docs[handlers[h].req], handlers[h].before)
    /\ handlers[h].op = "decide" => IsTurnOf(handlers[h].before, handlers[h].user)

\* The inductive invariant.
IInv ==
  /\ TypeOK
  /\ \A r \in Requests : Exists(r) => Shape(docs[r])
  /\ \A h \in Handlers : Behind(h)

-----------------------------------------------------------------------------
(* The pure half: plans and $sets. *)

\* The levels of a chain are natural numbers and there is at least one
\* (APPROVAL_LIMITS.levels).
LEMMA LevelsAreNat == Levels \subseteq Nat /\ 1 \in Levels /\ MaxLevels \in Nat
BY ChainConstants DEF Levels

\* A $set lands path by path and keeps the document's type.
LEMMA ApplyFields ==
  ASSUME NEW d \in Doc, NEW set \in Set
  PROVE  LET e == Apply(d, set) IN
         /\ e \in Doc
         /\ e.requester = d.requester /\ e.n = d.n /\ e.mode = d.mode
         /\ e.status = Put(d.status, set.status)
         /\ e.current = IF set.current = 0 THEN d.current ELSE set.current
         /\ \A l \in Levels : e.level[l] = Put(d.level[l], set.level[l])
         /\ \A l \in Levels : \A u \in Users : e.slot[l][u] = Put(d.slot[l][u], set.slot[l][u])
<1>1. /\ \A l \in Levels : Put(d.level[l], set.level[l]) \in Marks
      /\ \A l \in Levels : \A u \in Users : Put(d.slot[l][u], set.slot[l][u]) \in Marks
  BY DEF Doc, Set, Put, Marks
<1>2. Put(d.status, set.status) \in {"pending"} \cup Final
  BY DEF Doc, Set, Put
<1>3. (IF set.current = 0 THEN d.current ELSE set.current) \in 1..(MaxLevels + 1)
  BY ChainConstants DEF Doc, Set
<1>4. Apply(d, set) \in Doc
  BY <1>1, <1>2, <1>3 DEF Doc, Apply
<1> QED BY <1>4 DEF Apply

\* What planDecision returns for somebody whose turn it is names only fields and
\* values the schema has.
LEMMA DecisionSetType ==
  ASSUME NEW d \in Doc, NEW u \in Users, NEW action \in {"approve", "reject"}, IsTurnOf(d, u)
  PROVE  DecisionSet(d, u, action) \in Set
<1>1. RejectSet(d, u) \in Set
  BY ChainConstants DEF RejectSet, Set, Doc, Statuses, Final, Levels, Keep
<1>2. ApproveSlotSet(d, u) \in Set
  BY ChainConstants DEF ApproveSlotSet, Set, Doc, Statuses, Final, Levels, Keep
<1>3. CloseLevelSet(d, u) \in Set
  BY ChainConstants DEF CloseLevelSet, Set, Doc, Statuses, Final, Levels, Keep, IsTurnOf
<1> QED BY <1>1, <1>2, <1>3 DEF DecisionSet

\* So does what planCancel returns, for any document it may have read.
LEMMA CancelSetType ==
  ASSUME NEW d \in Doc PROVE CancelSet(d) \in Set
BY ChainConstants DEF CancelSet, Set, Doc, Statuses, Final, Levels, Keep

\* planLevels builds a well-formed chain: level 1 open, the others waiting, and
\* somebody on each.
LEMMA NewDocShape ==
  ASSUME NEW u \in Users, NEW k \in Levels, NEW who \in [1..k -> SUBSET Users],
         NEW mode \in [1..k -> Modes], \A l \in 1..k : who[l] # {}
  PROVE  NewDoc(u, k, who, mode) \in Doc /\ Shape(NewDoc(u, k, who, mode))
<1> DEFINE d == NewDoc(u, k, who, mode)
<1>1. d \in Doc
  BY ChainConstants DEF NewDoc, Doc, Marks, Statuses, Levels, Modes
<1>2. /\ d.n = k /\ d.current = 1 /\ d.status = "pending"
      /\ \A l \in Levels : d.level[l] = IF l <= k THEN IF l = 1 THEN "pending" ELSE "waiting" ELSE "none"
      /\ \A l \in Levels : \A v \in Users :
           d.slot[l][v] = IF l <= k /\ v \in who[l] THEN IF l = 1 THEN "pending" ELSE "waiting"
                          ELSE "none"
  BY DEF NewDoc
<1>3. k \in Nat /\ 1 \in 1..k /\ 1..k \subseteq Levels
  BY ChainConstants DEF Levels
<1>4. \A l \in 1..k : \E v \in Users : v \in who[l]
  OBVIOUS
<1>5. \A l \in Levels : l <= k => \E v \in Users : d.slot[l][v] # "none"
  BY <1>2, <1>3, <1>4, LevelsAreNat DEF Levels
<1>6. \E v \in Users : d.slot[1][v] = "pending"
  BY <1>2, <1>3, <1>4 DEF Levels
<1> HIDE DEF d
<1>7. Shape(d)
  <2>1. \A l \in Levels : l > k => d.level[l] = "none" /\ \A v \in Users : d.slot[l][v] = "none"
    BY <1>2, <1>3, LevelsAreNat
  <2>2. /\ d.level[1] = "pending" /\ \A v \in Users : d.slot[1][v] \in {"none", "pending"}
        /\ 1 \in Levels /\ 1 <= d.n
    BY <1>2, <1>3, LevelsAreNat
  <2>3. \A l \in Levels : 1 < l /\ l <= k =>
          d.level[l] = "waiting" /\ \A v \in Users : d.slot[l][v] \in {"none", "waiting"}
    BY <1>2, <1>3, LevelsAreNat
  <2>4. \A l \in Levels : ~(l < 1)
    BY LevelsAreNat DEF Levels
  <2> QED BY <2>1, <2>2, <2>3, <2>4, <1>2, <1>5, <1>6 DEF Shape, Final
<1> QED BY <1>1, <1>7 DEF d

-----------------------------------------------------------------------------
(* What each kind of $set makes of a document. *)

\* The four ways a write is safe for the document it lands on.
Safely(d, e) == e \in Doc /\ Shape(e) /\ SameChain(e, d) /\ Shrunk(e, d)

\* A reject that lands on the document it was planned from ends it with nothing
\* left open, on the same chain.
LEMMA RejectIsSafe ==
  ASSUME NEW d \in Doc, Shape(d), NEW u \in Users, IsTurnOf(d, u)
  PROVE  Safely(d, Apply(d, RejectSet(d, u)))
<1> DEFINE set == RejectSet(d, u)
           e == Apply(d, set)
<1>1. set \in Set
  BY DecisionSetType, "reject" \in {"approve", "reject"} DEF DecisionSet
<1>2. /\ e \in Doc
      /\ e.requester = d.requester /\ e.n = d.n /\ e.mode = d.mode
      /\ e.status = "rejected" /\ e.current = d.current
  BY <1>1, ApplyFields DEF RejectSet, Put, Keep
<1>3. \A l \in Levels : e.level[l] = IF l = d.current THEN "rejected"
                                     ELSE IF l \in d.current + 1 .. d.n THEN "skipped"
                                     ELSE d.level[l]
  BY <1>1, ApplyFields DEF RejectSet, Put, Keep
<1>4. \A l \in Levels : \A v \in Users :
        e.slot[l][v] = IF l = d.current /\ v = u THEN "rejected"
                       ELSE IF \/ l = d.current /\ v \in StillPending(d, u)
                               \/ l > d.current /\ v \in On(d, l)
                            THEN "skipped" ELSE d.slot[l][v]
  BY <1>1, ApplyFields DEF RejectSet, Put, Keep
<1>5. /\ d.n \in Levels /\ d.current \in 1..d.n /\ d.status = "pending"
      /\ d.slot[d.current][u] = "pending" /\ Levels \subseteq Nat
  BY LevelsAreNat DEF IsTurnOf, Doc
<1> HIDE DEF e, set
<1>6. SameChain(e, d)
  BY <1>2, <1>3, <1>4, <1>5 DEF SameChain, StillPending, On, Shape
<1>7. Shrunk(e, d)
  BY <1>3, <1>4 DEF Shrunk, Open
<1>8. ASSUME NEW l \in Levels
      PROVE  e.level[l] \notin Open /\ \A v \in Users : e.slot[l][v] \notin Open
  <2>1. CASE l < d.current
    <3>1. d.level[l] = "approved" /\ HasQuorum(d, l)
      BY <2>1, <1>5 DEF Shape
    <3> QED BY <3>1, <2>1, <1>3, <1>4, <1>5 DEF HasQuorum, Open
  <2>2. CASE l = d.current
    BY <2>2, <1>3, <1>4, <1>5 DEF Shape, StillPending, Open
  <2>3. CASE d.current < l /\ l <= d.n
    <3>1. \A v \in Users : d.slot[l][v] \in {"none", "waiting"}
      BY <2>3, <1>5 DEF Shape
    <3> QED BY <3>1, <2>3, <1>3, <1>4, <1>5 DEF On, Open
  <2>4. CASE l > d.n
    BY <2>4, <1>3, <1>4, <1>5 DEF Shape, On, Open
  <2>5. l < d.current \/ l = d.current \/ (d.current < l /\ l <= d.n) \/ l > d.n
    BY <1>5
  <2> QED BY <2>1, <2>2, <2>3, <2>4, <2>5
<1>9. Shape(e)
  BY <1>2, <1>6, <1>8 DEF Shape, SameChain, Final
<1> QED BY <1>2, <1>6, <1>7, <1>9 DEF Safely, e, set

\* An approve that does not close its level leaves somebody on it undecided.
LEMMA ApproveSlotIsSafe ==
  ASSUME NEW d \in Doc, Shape(d), NEW u \in Users, IsTurnOf(d, u), ~Closes(d, u)
  PROVE  Safely(d, Apply(d, ApproveSlotSet(d, u)))
<1> DEFINE set == ApproveSlotSet(d, u)
           e == Apply(d, set)
<1>1. set \in Set
  BY DecisionSetType, "approve" \in {"approve", "reject"} DEF DecisionSet
<1>2. /\ e \in Doc
      /\ e.requester = d.requester /\ e.n = d.n /\ e.mode = d.mode
      /\ e.status = d.status /\ e.current = d.current
  BY <1>1, ApplyFields DEF ApproveSlotSet, Put
<1>3. \A l \in Levels : e.level[l] = d.level[l]
  BY <1>1, ApplyFields DEF ApproveSlotSet, Put
<1>4. \A l \in Levels : \A v \in Users :
        e.slot[l][v] = IF l = d.current /\ v = u THEN "approved" ELSE d.slot[l][v]
  BY <1>1, ApplyFields DEF ApproveSlotSet, Put, Keep
<1>5. /\ d.n \in Levels /\ d.current \in 1..d.n /\ d.status = "pending"
      /\ d.slot[d.current][u] = "pending" /\ Levels \subseteq Nat /\ d.current \in Levels
  BY LevelsAreNat DEF IsTurnOf, Doc, Levels
<1>6. d.mode[d.current] = "all" /\ \E v \in Users : v # u /\ d.slot[d.current][v] = "pending"
  BY <1>5 DEF Closes, StillPending, Doc, Modes
<1> HIDE DEF e, set
<1>7. SameChain(e, d)
  BY <1>2, <1>3, <1>4, <1>5 DEF SameChain
<1>8. Shrunk(e, d)
  BY <1>3, <1>4 DEF Shrunk, Open
<1>9. Shape(e)
  <2>1. ASSUME NEW l \in Levels, l < d.current
        PROVE  HasQuorum(e, l)
    <3>1. l # d.current /\ HasQuorum(d, l)
      BY <2>1, <1>5 DEF Shape
    <3>2. \A v \in Users : e.slot[l][v] = d.slot[l][v]
      BY <3>1, <1>4
    <3> QED BY <3>1, <3>2, <1>2 DEF HasQuorum, On
  <2>2. \A l \in Levels : l <= d.n => \E v \in Users : e.slot[l][v] # "none"
    BY <1>4 DEF Shape
  <2> QED BY <2>1, <2>2, <1>2, <1>3, <1>4, <1>5, <1>6 DEF Shape, Final
<1> QED BY <1>2, <1>7, <1>8, <1>9 DEF Safely, e, set

\* An approve that closes its level leaves it with its quorum, and either opens
\* the next level or ends the request as approved.
LEMMA CloseLevelIsSafe ==
  ASSUME NEW d \in Doc, Shape(d), NEW u \in Users, IsTurnOf(d, u), Closes(d, u)
  PROVE  Safely(d, Apply(d, CloseLevelSet(d, u)))
<1> DEFINE set == CloseLevelSet(d, u)
           e == Apply(d, set)
<1>1. set \in Set
  BY DecisionSetType, "approve" \in {"approve", "reject"} DEF DecisionSet
<1>5. /\ d.n \in Levels /\ d.current \in 1..d.n /\ d.status = "pending" /\ d.n \in Nat
      /\ d.slot[d.current][u] = "pending" /\ Levels \subseteq Nat /\ d.current \in Levels
  BY LevelsAreNat DEF IsTurnOf, Doc, Levels
<1>2. /\ e \in Doc
      /\ e.requester = d.requester /\ e.n = d.n /\ e.mode = d.mode
      /\ e.status = (IF d.current = d.n THEN "approved" ELSE d.status)
      /\ e.current = d.current + 1
  BY <1>1, <1>5, ApplyFields DEF CloseLevelSet, Put, Keep
<1>3. \A l \in Levels : e.level[l] = IF l = d.current THEN "approved"
                                     ELSE IF l = d.current + 1 /\ l <= d.n THEN "pending"
                                     ELSE d.level[l]
  BY <1>1, ApplyFields DEF CloseLevelSet, Put, Keep
<1>4. \A l \in Levels : \A v \in Users :
        e.slot[l][v] = IF l = d.current /\ v = u THEN "approved"
                       ELSE IF l = d.current /\ v \in StillPending(d, u) THEN "skipped"
                       ELSE IF l = d.current + 1 /\ v \in On(d, l) THEN "pending"
                       ELSE d.slot[l][v]
  BY <1>1, ApplyFields DEF CloseLevelSet, Put, Keep
<1> HIDE DEF e, set
<1>6. SameChain(e, d)
  BY <1>2, <1>3, <1>4, <1>5 DEF SameChain, StillPending, On, Shape
<1>7. Shrunk(e, d)
  BY <1>3, <1>4, <1>5 DEF Shrunk, Open, Shape, On, Levels
<1>8. HasQuorum(e, d.current)
  <2>1. \A v \in Users : d.slot[d.current][v] \in {"none", "pending", "approved"}
    BY <1>5 DEF Shape
  <2>2. \A v \in Users : e.slot[d.current][v] =
          IF v = u THEN "approved" ELSE IF d.slot[d.current][v] = "pending" THEN "skipped"
          ELSE d.slot[d.current][v]
    BY <1>4, <1>5 DEF StillPending
  <2>3. CASE d.mode[d.current] = "any"
    <3>1. \A v \in Users : d.slot[d.current][v] \in {"none", "pending"}
      BY <2>3, <1>5 DEF Shape
    <3>2. {v \in Users : e.slot[d.current][v] = "approved"} = {u}
      BY <3>1, <2>2
    <3> QED BY <3>1, <3>2, <2>2, <2>3, <1>2 DEF HasQuorum, Open
  <2>4. CASE d.mode[d.current] = "all"
    <3>1. \A v \in Users : e.slot[d.current][v] \in {"none", "approved"}
      BY <2>1, <2>2, <2>4 DEF Closes, StillPending
    <3> QED BY <3>1, <2>4, <1>2 DEF HasQuorum, Open, On
  <2> QED BY <2>3, <2>4, <1>5 DEF Doc, Modes
<1>9. ASSUME NEW l \in Levels, l < e.current
      PROVE  e.level[l] = "approved" /\ HasQuorum(e, l)
  <2>1. l <= d.current
    BY <1>2, <1>5, <1>9
  <2>2. CASE l # d.current
    <3>1. HasQuorum(d, l) /\ d.level[l] = "approved"
      BY <2>1, <2>2, <1>5 DEF Shape
    <3>2. e.level[l] = d.level[l] /\ \A v \in Users : e.slot[l][v] = d.slot[l][v]
      BY <2>1, <2>2, <1>3, <1>4, <1>5
    <3> QED BY <3>1, <3>2, <1>2 DEF HasQuorum, On
  <2> QED BY <2>2, <1>3, <1>5, <1>8
<1>10. \A l \in Levels : l > d.n => e.level[l] = "none" /\ \A v \in Users : e.slot[l][v] = "none"
  BY <1>3, <1>4, <1>5 DEF Shape, On
<1>11. \A l \in Levels : l <= d.n => \E v \in Users : e.slot[l][v] # "none"
  BY <1>6 DEF Shape, SameChain
<1>12. ASSUME d.current = d.n PROVE Shape(e)
  <2>1. ASSUME NEW l \in Levels
        PROVE  e.level[l] \notin Open /\ \A v \in Users : e.slot[l][v] \notin Open
    <3>1. CASE l < e.current
      BY <3>1, <1>9 DEF HasQuorum, Open
    <3>2. CASE l > d.n
      BY <3>2, <1>10 DEF Open
    <3> QED BY <3>1, <3>2, <1>2, <1>5, <1>12
  <2> QED BY <2>1, <1>2, <1>9, <1>10, <1>11, <1>12 DEF Shape, Final
<1>13. ASSUME d.current < d.n PROVE Shape(e)
  <2>1. d.current + 1 \in Levels /\ d.current + 1 <= d.n
    BY <1>13, <1>5, LevelsAreNat DEF Levels
  <2>2. \E v \in Users : e.slot[d.current + 1][v] = "pending"
    <3>1. PICK v \in Users : d.slot[d.current + 1][v] # "none"
      BY <2>1 DEF Shape
    <3> QED BY <3>1, <2>1, <1>4, <1>5 DEF On
  <2>3. /\ e.level[d.current + 1] = "pending"
        /\ \A v \in Users : e.slot[d.current + 1][v] \in {"none", "pending"}
    BY <2>1, <1>3, <1>4, <1>5 DEF On, Shape
  <2>4. \A l \in Levels : d.current + 1 < l /\ l <= d.n =>
          e.level[l] = "waiting" /\ \A v \in Users : e.slot[l][v] \in {"none", "waiting"}
    BY <1>3, <1>4, <1>5 DEF Shape
  <2> QED BY <2>1, <2>2, <2>3, <2>4, <1>2, <1>5, <1>9, <1>10, <1>11, <1>13 DEF Shape, Final
<1>14. Shape(e)
  BY <1>12, <1>13, <1>5
<1> QED BY <1>2, <1>6, <1>7, <1>14 DEF Safely, e, set

\* All three together: what planDecision plans is safe for the document it read.
LEMMA DecisionIsSafe ==
  ASSUME NEW d \in Doc, Shape(d), NEW u \in Users, NEW action \in {"approve", "reject"},
         IsTurnOf(d, u)
  PROVE  Safely(d, Apply(d, DecisionSet(d, u, action)))
BY RejectIsSafe, ApproveSlotIsSafe, CloseLevelIsSafe DEF DecisionSet

\* The withdrawal's $set is planned from b, an earlier reading of d, and still
\* closes everything that is open in d.
LEMMA CancelIsSafe ==
  ASSUME NEW d \in Doc, NEW b \in Doc, Shape(d), SameChain(d, b), Shrunk(d, b)
  PROVE  Safely(d, Apply(d, CancelSet(b)))
<1> DEFINE set == CancelSet(b)
           e == Apply(d, set)
<1>1. set \in Set
  BY CancelSetType
<1>2. /\ e \in Doc
      /\ e.requester = d.requester /\ e.n = d.n /\ e.mode = d.mode
      /\ e.status = "cancelled" /\ e.current = d.current
  BY <1>1, ApplyFields DEF CancelSet, Put, Keep
<1>3. \A l \in Levels : e.level[l] = IF b.level[l] \in Open THEN "skipped" ELSE d.level[l]
  BY <1>1, ApplyFields DEF CancelSet, Put, Keep
<1>4. \A l \in Levels : \A v \in Users :
        e.slot[l][v] = IF b.slot[l][v] \in Open THEN "skipped" ELSE d.slot[l][v]
  BY <1>1, ApplyFields DEF CancelSet, Put, Keep
<1> HIDE DEF e, set
<1>5. SameChain(e, d)
  BY <1>2, <1>3, <1>4 DEF SameChain, Open
<1>6. Shrunk(e, d)
  BY <1>3, <1>4 DEF Shrunk, Open
<1>7. \A l \in Levels : e.level[l] \notin Open /\ \A v \in Users : e.slot[l][v] \notin Open
  BY <1>3, <1>4 DEF Shrunk, Open
<1>8. Shape(e)
  BY <1>2, <1>5, <1>7 DEF Shape, SameChain, Final
<1> QED BY <1>2, <1>5, <1>6, <1>8 DEF Safely, e, set

-----------------------------------------------------------------------------
(* Reading ahead of writing. *)

\* A handler that has just read is level with the document it read.
LEMMA ReadIsBehind ==
  ASSUME NEW d \in Doc PROVE SameChain(d, d) /\ Shrunk(d, d)
BY DEF SameChain, Shrunk

\* A handler that was behind a document stays behind what that one becomes.
LEMMA StillBehind ==
  ASSUME NEW b \in Doc, NEW d \in Doc, NEW e \in Doc,
         SameChain(d, b), Shrunk(d, b), SameChain(e, d), Shrunk(e, d)
  PROVE  SameChain(e, b) /\ Shrunk(e, b)
BY DEF SameChain, Shrunk

\* On a document that has not moved since it was read, the plan made from the
\* reading is the plan the document itself would give.
LEMMA SamePlan ==
  ASSUME NEW d \in Doc, NEW b \in Doc, NEW u \in Users, NEW action \in {"approve", "reject"},
         SameChain(d, b), Unmoved(d, b), IsTurnOf(b, u)
  PROVE  IsTurnOf(d, u) /\ DecisionSet(b, u, action) = DecisionSet(d, u, action)
<1>1. /\ d.current = b.current /\ d.n = b.n /\ d.mode = b.mode
      /\ d.slot[d.current] = b.slot[b.current]
  BY DEF SameChain, Unmoved
<1>2. IsTurnOf(d, u)
  BY <1>1 DEF IsTurnOf, Unmoved
<1>3. StillPending(d, u) = StillPending(b, u) /\ Closes(d, u) = Closes(b, u)
  BY <1>1 DEF StillPending, Closes
<1>4. \A l \in Levels : On(d, l) = On(b, l)
  BY DEF SameChain, On
<1>5. RejectSet(d, u) = RejectSet(b, u)
  BY <1>1, <1>3, <1>4 DEF RejectSet
<1>6. ApproveSlotSet(d, u) = ApproveSlotSet(b, u)
  BY <1>1 DEF ApproveSlotSet
<1>7. CloseLevelSet(d, u) = CloseLevelSet(b, u)
  BY <1>1, <1>3, <1>4 DEF CloseLevelSet
<1> QED BY <1>2, <1>3, <1>5, <1>6, <1>7 DEF DecisionSet

\* What the type of a stored document and of a handler in flight say.
LEMMA StoredIsDoc ==
  ASSUME TypeOK, NEW r \in Requests
  PROVE  Exists(r) <=> docs[r] \in Doc
BY DEF TypeOK, Exists, Doc, NoDoc, Final

\* What the type of a handler says of the fields its operation carries.
LEMMA InFlight ==
  ASSUME TypeOK, NEW h \in Handlers
  PROVE  /\ handlers[h].op = "decide" => handlers[h] \in Decisions
         /\ handlers[h].op = "cancel" => handlers[h] \in Withdrawals
         /\ handlers[h] # Idle => handlers[h].req \in Requests /\ handlers[h].before \in Doc
BY DEF TypeOK, Idle, Decisions, Withdrawals

\* A write that is safe for the document it lands on is safe for the whole
\* state: the other handlers in flight stay behind.
LEMMA SafeWrite ==
  ASSUME IInv, NEW r \in Requests, Exists(r), NEW e, Safely(docs[r], e),
         NEW h \in Handlers,
         docs' = [docs EXCEPT ![r] = e], handlers' = [handlers EXCEPT ![h] = Idle]
  PROVE  IInv'
<1>1. docs[r] \in Doc /\ e \in Doc
  BY StoredIsDoc DEF IInv, Safely
<1>2. TypeOK'
  BY <1>1 DEF IInv, TypeOK
<1>3. \A q \in Requests : docs'[q] = IF q = r THEN e ELSE docs[q]
  BY DEF IInv, TypeOK
<1>4. \A q \in Requests : Exists(q)' => Shape(docs'[q])
  BY <1>3 DEF IInv, Safely, Exists
<1>5. \A g \in Handlers : Behind(g)'
  <2> SUFFICES ASSUME NEW g \in Handlers, handlers'[g] # Idle
               PROVE  Behind(g)'
    BY DEF Behind
  <2>1. handlers'[g] = handlers[g] /\ handlers[g] # Idle /\ Behind(g)
    BY DEF IInv, TypeOK
  <2> DEFINE q == handlers[g].req
             b == handlers[g].before
  <2>2. q \in Requests /\ b \in Doc /\ docs[q] \in Doc /\ SameChain(docs[q], b) /\ Shrunk(docs[q], b)
    BY <2>1, InFlight, StoredIsDoc DEF IInv, Behind
  <2>3. Exists(q)'
    BY <1>1, <1>2, <1>3, <2>2, StoredIsDoc DEF Exists, Doc, Final
  <2>4. SameChain(docs'[q], b) /\ Shrunk(docs'[q], b)
    <3>1. CASE q = r
      <4>1. SameChain(e, docs[r]) /\ Shrunk(e, docs[r])
        BY DEF Safely
      <4> QED BY <4>1, <3>1, <1>1, <1>3, <2>2, StillBehind
    <3>2. CASE q # r
      BY <3>2, <1>3, <2>2
    <3> QED BY <3>1, <3>2
  <2> QED BY <2>1, <2>3, <2>4 DEF Behind
<1> QED BY <1>2, <1>4, <1>5 DEF IInv

\* A new document disturbs no handler: none has read it.
LEMMA SafeInsert ==
  ASSUME IInv, NEW r \in Requests, docs[r] = NoDoc, NEW e \in Doc, Shape(e),
         docs' = [docs EXCEPT ![r] = e], handlers' = handlers
  PROVE  IInv'
<1>1. TypeOK'
  BY DEF IInv, TypeOK
<1>2. \A q \in Requests : docs'[q] = IF q = r THEN e ELSE docs[q]
  BY DEF IInv, TypeOK
<1>3. \A q \in Requests : Exists(q)' => Shape(docs'[q])
  BY <1>2 DEF IInv, Exists
<1>4. \A g \in Handlers : Behind(g)'
  <2> SUFFICES ASSUME NEW g \in Handlers, handlers[g] # Idle
               PROVE  Behind(g)'
    BY DEF Behind
  <2>1. Behind(g) /\ handlers[g].req \in Requests /\ handlers[g].req # r
    BY InFlight DEF IInv, Behind, Exists, NoDoc
  <2> QED BY <2>1, <1>2 DEF Behind, Exists
<1> QED BY <1>1, <1>3, <1>4 DEF IInv

\* A handler that starts, holding the document as it is now.
LEMMA SafeRead ==
  ASSUME IInv, NEW h \in Handlers, NEW w \in Decisions \cup Withdrawals,
         Exists(w.req), w.before = docs[w.req], w.op = "decide" => IsTurnOf(w.before, w.user),
         docs' = docs, handlers' = [handlers EXCEPT ![h] = w]
  PROVE  IInv'
<1>1. w.req \in Requests /\ w.before \in Doc
  BY DEF Decisions, Withdrawals
<1>2. TypeOK'
  BY DEF IInv, TypeOK
<1>3. \A q \in Requests : Exists(q)' => Shape(docs'[q])
  BY DEF IInv, Exists
<1>4. \A g \in Handlers : Behind(g)'
  <2> TAKE g \in Handlers
  <2>1. CASE g = h
    <3>1. handlers'[g] = w
      BY <2>1 DEF IInv, TypeOK
    <3> QED BY <3>1, <1>1, ReadIsBehind DEF Behind, Exists
  <2>2. CASE g # h
    <3>1. handlers'[g] = handlers[g] /\ Behind(g)
      BY <2>2 DEF IInv, TypeOK
    <3> QED BY <3>1 DEF Behind, Exists
  <2> QED BY <2>1, <2>2
<1> QED BY <1>2, <1>3, <1>4 DEF IInv

-----------------------------------------------------------------------------
(* The invariant holds. *)

\* Before the first request nothing is stored and nothing is in flight.
LEMMA InitIInv == Init => IInv
BY DEF Init, IInv, TypeOK, Behind, Exists, NoDoc, Idle

\* No step of any handler, and no crash, breaks the inductive invariant.
LEMMA StepIInv == IInv /\ [Next]_vars => IInv'
<1> SUFFICES ASSUME IInv, [Next]_vars PROVE IInv'
  OBVIOUS
<1>1. ASSUME NEW r \in Requests, NEW u \in Users, Create(r, u)
      PROVE  IInv'
  <2>1. PICK k \in Levels : \E who \in [1..k -> SUBSET Users], mode \in [1..k -> Modes] :
               /\ Acceptable(u, who)
               /\ docs' = [docs EXCEPT ![r] = NewDoc(u, k, who, mode)]
    BY <1>1 DEF Create
  <2>2. PICK who \in [1..k -> SUBSET Users], mode \in [1..k -> Modes] :
               /\ Acceptable(u, who)
               /\ docs' = [docs EXCEPT ![r] = NewDoc(u, k, who, mode)]
    BY <2>1
  <2>3. \A l \in 1..k : who[l] # {}
    BY <2>2 DEF Acceptable
  <2>4. NewDoc(u, k, who, mode) \in Doc /\ Shape(NewDoc(u, k, who, mode))
    BY <2>3, NewDocShape
  <2> QED BY <2>2, <2>4, <1>1, SafeInsert DEF Create
<1>2. ASSUME NEW r \in Requests, NEW u \in Users, CreateByRole(r, u)
      PROVE  IInv'
  <2> DEFINE k == Cardinality(HierarchyFor(u))
             mode == [l \in 1..k |-> "all"]
  <2>1. k \in Levels
    BY <1>2 DEF CreateByRole
  <2>2. PICK who \in RolePicks(u) : docs' = [docs EXCEPT ![r] = NewDoc(u, k, who, mode)]
    BY <1>2 DEF CreateByRole
  <2>3. who \in [1..k -> SUBSET Users] /\ \A l \in 1..k : who[l] # {}
    <3> DEFINE Ones == {{p} : p \in CanAct}
    <3>1. who \in [1..k -> Ones]
      BY <2>2 DEF RolePicks
    <3>2. ASSUME NEW S \in Ones
          PROVE  S \in SUBSET Users /\ S # {}
      <4>1. PICK p \in CanAct : S = {p}
        BY <3>2
      <4> QED BY <4>1, ChainConstants
    <3> HIDE DEF k, Ones
    <3> QED BY <3>1, <3>2
  <2>4. mode \in [1..k -> Modes]
    BY DEF Modes
  <2> HIDE DEF k, mode
  <2>5. NewDoc(u, k, who, mode) \in Doc /\ Shape(NewDoc(u, k, who, mode))
    BY <2>1, <2>3, <2>4, NewDocShape
  <2> QED BY <2>2, <2>5, <1>2, SafeInsert DEF CreateByRole
<1>3. ASSUME NEW h \in Handlers, NEW r \in Requests, NEW u \in Users,
             NEW action \in {"approve", "reject"}, ReadForDecision(h, u, r, action)
      PROVE  IInv'
  <2> DEFINE w == [op |-> "decide", user |-> u, action |-> action, req |-> r, before |-> docs[r]]
  <2>1. Exists(r) /\ docs[r] \in Doc
    BY <1>3, StoredIsDoc DEF IInv, ReadForDecision
  <2>2. w \in Decisions /\ w.req = r /\ w.before = docs[r] /\ w.user = u
    BY <2>1 DEF Decisions
  <2>3. handlers' = [handlers EXCEPT ![h] = w] /\ docs' = docs /\ IsTurnOf(docs[r], u)
    BY <1>3 DEF ReadForDecision
  <2> HIDE DEF w
  <2> QED BY <2>1, <2>2, <2>3, SafeRead
<1>4. ASSUME NEW h \in Handlers, WriteDecision(h)
      PROVE  IInv'
  <2> DEFINE w == handlers[h]
             r == w.req
             e == Apply(docs[r], DecisionSet(w.before, w.user, w.action))
  <2>1. w \in Decisions /\ w # Idle /\ Unmoved(docs[r], w.before)
    BY <1>4, InFlight DEF WriteDecision, IInv, Idle
  <2>2. /\ r \in Requests /\ w.before \in Doc /\ w.user \in Users
        /\ w.action \in {"approve", "reject"} /\ w.op = "decide"
    BY <2>1 DEF Decisions
  <2>3. Exists(r) /\ SameChain(docs[r], w.before) /\ IsTurnOf(w.before, w.user)
    BY <2>1, <2>2 DEF IInv, Behind
  <2>4. docs[r] \in Doc /\ Shape(docs[r])
    BY <2>2, <2>3, StoredIsDoc DEF IInv
  <2>5. Safely(docs[r], e)
    BY <2>1, <2>2, <2>3, <2>4, SamePlan, DecisionIsSafe
  <2>6. docs' = [docs EXCEPT ![r] = e] /\ handlers' = [handlers EXCEPT ![h] = Idle]
    BY <1>4 DEF WriteDecision
  <2> HIDE DEF e, w
  <2> QED BY <2>2, <2>3, <2>5, <2>6, SafeWrite
<1>5. ASSUME NEW h \in Handlers, NEW r \in Requests, ReadForCancel(h, r)
      PROVE  IInv'
  <2> DEFINE w == [op |-> "cancel", req |-> r, before |-> docs[r]]
  <2>1. Exists(r) /\ docs[r] \in Doc
    BY <1>5, StoredIsDoc DEF IInv, ReadForCancel
  <2>2. w \in Withdrawals /\ w.req = r /\ w.before = docs[r] /\ w.op # "decide"
    BY <2>1 DEF Withdrawals
  <2>3. handlers' = [handlers EXCEPT ![h] = w] /\ docs' = docs
    BY <1>5 DEF ReadForCancel
  <2> HIDE DEF w
  <2> QED BY <2>1, <2>2, <2>3, SafeRead
<1>6. ASSUME NEW h \in Handlers, WriteCancel(h)
      PROVE  IInv'
  <2> DEFINE w == handlers[h]
             r == w.req
             e == Apply(docs[r], CancelSet(w.before))
  <2>1. w # Idle /\ r \in Requests /\ w.before \in Doc
    BY <1>6, InFlight DEF WriteCancel, IInv, Idle
  <2>2. Exists(r) /\ SameChain(docs[r], w.before) /\ Shrunk(docs[r], w.before)
    BY <2>1 DEF IInv, Behind
  <2>3. docs[r] \in Doc /\ Shape(docs[r])
    BY <2>1, <2>2, StoredIsDoc DEF IInv
  <2>4. Safely(docs[r], e)
    BY <2>1, <2>2, <2>3, CancelIsSafe
  <2>5. docs' = [docs EXCEPT ![r] = e] /\ handlers' = [handlers EXCEPT ![h] = Idle]
    BY <1>6 DEF WriteCancel
  <2> HIDE DEF e, w
  <2> QED BY <2>1, <2>2, <2>4, <2>5, SafeWrite
<1>7. ASSUME docs' = docs, \A h \in Handlers : handlers'[h] = handlers[h] \/ handlers'[h] = Idle,
             TypeOK'
      PROVE  IInv'
  BY <1>7 DEF IInv, Behind, Exists
<1>8. ASSUME NEW h \in Handlers, Stale(h)
      PROVE  IInv'
  BY <1>7, <1>8 DEF Stale, IInv, TypeOK
<1>9. CASE Crash
  BY <1>7, <1>9 DEF Crash, IInv, TypeOK
<1>10. CASE UNCHANGED vars
  BY <1>7, <1>10 DEF vars, IInv, TypeOK
<1> QED BY <1>1, <1>2, <1>3, <1>4, <1>5, <1>6, <1>8, <1>9, <1>10 DEF Next

\* The inductive invariant holds at every moment of every behaviour: stored chains
\* are well formed, and whatever decide() or cancel() read is only behind.
THEOREM Invariance == Spec => []IInv
BY InitIInv, StepIInv, PTL DEF Spec

-----------------------------------------------------------------------------
(* What it gives. *)

\* Every document ever stored and everything a handler ever holds is well
\* formed: no index runs off the chain, no slot takes a value outside the enum
\* of approval.model.ts.
THEOREM TypeCorrect == Spec => []TypeOK
BY Invariance, PTL DEF IInv

\* decide()'s optimistic write never strands a request: as long as it is
\* pending, somebody on the level it sits on still has to decide.
THEOREM NeverStranded == Spec => []SomebodyCanAct
<1>1. IInv => SomebodyCanAct
  <2> SUFFICES ASSUME IInv, NEW r \in Requests, docs[r].status = "pending"
               PROVE  LET d == docs[r] IN
                      /\ d.current <= d.n
                      /\ d.level[d.current] = "pending"
                      /\ \E u \in Users : d.slot[d.current][u] = "pending"
                      /\ \A l \in 1..(d.current - 1) : d.level[l] = "approved"
                      /\ \A l \in (d.current + 1)..d.n :
                           d.level[l] = "waiting" /\ \A u \in On(d, l) : d.slot[l][u] = "waiting"
    BY DEF SomebodyCanAct
  <2>1. docs[r] \in Doc /\ Shape(docs[r])
    BY StoredIsDoc DEF IInv, Exists
  <2>2. docs[r].n \in Levels /\ docs[r].current \in Levels
    BY <2>1 DEF Doc, Shape
  <2>3. \A l \in 1..(docs[r].current - 1) : l \in Levels /\ l < docs[r].current
    BY <2>2, LevelsAreNat DEF Levels
  <2>4. \A l \in (docs[r].current + 1)..docs[r].n :
          l \in Levels /\ docs[r].current < l /\ l <= docs[r].n
    BY <2>2, LevelsAreNat DEF Levels
  <2> QED BY <2>1, <2>3, <2>4 DEF Shape, On
<1> QED BY <1>1, Invariance, PTL

\* However decisions interleave, a request leaves a level only with the
\* approvals planDecision's mode asks for.
THEOREM NoLevelWithoutQuorum == Spec => []ApprovedHasQuorum
<1>1. IInv => ApprovedHasQuorum
  <2> SUFFICES ASSUME IInv, NEW r \in Requests, docs[r].status \in {"pending", "approved"},
                      NEW l \in 1..(docs[r].current - 1)
               PROVE  HasQuorum(docs[r], l)
    BY DEF ApprovedHasQuorum
  <2>1. docs[r] \in Doc /\ Shape(docs[r])
    BY StoredIsDoc DEF IInv, Exists
  <2>2. l \in Levels /\ l < docs[r].current
    BY <2>1, LevelsAreNat DEF Doc, Levels
  <2> QED BY <2>1, <2>2 DEF Shape
<1> QED BY <1>1, Invariance, PTL

\* A finished request leaves nothing open, even when planCancel worked from a
\* document that decisions have changed since.
THEOREM NothingLeftOpen == Spec => []FinalIsClosed
<1>1. IInv => FinalIsClosed
  <2> SUFFICES ASSUME IInv, NEW r \in Requests, docs[r].status \in Final
               PROVE  /\ docs[r].status = "approved" => docs[r].current = docs[r].n + 1
                      /\ \A l \in Levels :
                           /\ docs[r].level[l] \notin Open
                           /\ \A u \in Users : docs[r].slot[l][u] \notin Open
    BY DEF FinalIsClosed
  <2>1. Shape(docs[r])
    BY DEF IInv, Exists, Final
  <2> QED BY <2>1 DEF Shape
<1> QED BY <1>1, Invariance, PTL

\* A decision that lands on the document it was planned from leaves every decision
\* that is already there as it is.
LEMMA DecisionKeeps ==
  ASSUME NEW d \in Doc, Shape(d), NEW u \in Users, NEW action \in {"approve", "reject"},
         IsTurnOf(d, u), NEW l \in Levels, NEW v \in Users, d.slot[l][v] \in Decided
  PROVE  Apply(d, DecisionSet(d, u, action)).slot[l][v] = d.slot[l][v]
<1> DEFINE set == DecisionSet(d, u, action)
<1>1. Apply(d, set).slot[l][v] = Put(d.slot[l][v], set.slot[l][v])
  BY DecisionSetType, ApplyFields
<1>2. d.slot[d.current][u] = "pending" /\ d.status = "pending"
  BY DEF IsTurnOf
<1>3. ~(l = d.current /\ v = u) /\ ~(l = d.current /\ v \in StillPending(d, u))
  BY <1>2 DEF StillPending, Decided
<1>4. ~(l > d.current /\ v \in On(d, l))
  <2> SUFFICES ASSUME l > d.current PROVE FALSE
    OBVIOUS
  <2>1. d.current < l
    BY LevelsAreNat DEF Doc
  <2>2. l <= d.n => d.slot[l][v] \in {"none", "waiting"}
    BY <1>2, <2>1 DEF Shape
  <2>3. l > d.n => d.slot[l][v] = "none"
    BY DEF Shape
  <2>4. l \in Nat /\ d.n \in Nat
    BY LevelsAreNat DEF Doc
  <2> QED BY <2>2, <2>3, <2>4 DEF Decided
<1>5. l = d.current + 1 => l > d.current
  BY LevelsAreNat DEF Doc
<1>6. RejectSet(d, u).slot[l][v] = Keep /\ ApproveSlotSet(d, u).slot[l][v] = Keep
  BY <1>3, <1>4 DEF RejectSet, ApproveSlotSet
<1>7. CloseLevelSet(d, u).slot[l][v] = Keep
  BY <1>3, <1>4, <1>5 DEF CloseLevelSet
<1>8. set.slot[l][v] = Keep
  BY <1>6, <1>7 DEF DecisionSet
<1> QED BY <1>1, <1>8 DEF Put

\* What HistoryStands says of one request in one step.
Stands(r) ==
  /\ docs[r].status \in Final => docs'[r] = docs[r]
  /\ docs'[r].status # "cancelled" => KeepsDecisions(r)

\* decide() and cancel() never touch a finished request, and a decision that was
\* recorded stays until the request is withdrawn.
THEOREM HistoryKept == Spec => HistoryStands
<1>1. ASSUME IInv, [Next]_vars, NEW r \in Requests, Exists(r)
      PROVE  Stands(r)
  <2>1. docs'[r] = docs[r] => Stands(r)
    BY DEF Stands, KeepsDecisions
  <2>2. ASSUME NEW q \in Requests, NEW e, docs[q] = NoDoc, docs' = [docs EXCEPT ![q] = e]
        PROVE  Stands(r)
    BY <1>1, <2>1, <2>2 DEF Exists, NoDoc, IInv, TypeOK
  <2>3. ASSUME NEW h \in Handlers, WriteDecision(h) PROVE Stands(r)
    <3> DEFINE w == handlers[h]
    <3>1. w \in Decisions /\ w # Idle /\ Unmoved(docs[w.req], w.before)
      BY <1>1, <2>3, InFlight DEF WriteDecision, IInv, Idle
    <3>2. /\ w.req \in Requests /\ w.before \in Doc /\ w.user \in Users
          /\ w.action \in {"approve", "reject"} /\ w.op = "decide"
      BY <3>1 DEF Decisions
    <3>3. CASE w.req # r
      BY <1>1, <2>1, <2>3, <3>2, <3>3 DEF WriteDecision, IInv, TypeOK
    <3>4. CASE w.req = r
      <4>1. SameChain(docs[r], w.before) /\ IsTurnOf(w.before, w.user)
        BY <1>1, <3>1, <3>2, <3>4 DEF IInv, Behind
      <4>2. docs[r] \in Doc /\ Shape(docs[r])
        BY <1>1, StoredIsDoc DEF IInv
      <4>3. /\ IsTurnOf(docs[r], w.user)
            /\ DecisionSet(w.before, w.user, w.action) = DecisionSet(docs[r], w.user, w.action)
        BY <3>1, <3>2, <3>4, <4>1, <4>2, SamePlan
      <4>4. docs'[r] = Apply(docs[r], DecisionSet(docs[r], w.user, w.action))
        BY <1>1, <2>3, <3>4, <4>3 DEF WriteDecision, IInv, TypeOK
      <4>5. KeepsDecisions(r)
        BY <3>2, <4>2, <4>3, <4>4, DecisionKeeps DEF KeepsDecisions
      <4> QED BY <4>5, <4>3 DEF Stands, IsTurnOf, Final
    <3> QED BY <3>3, <3>4
  <2>4. ASSUME NEW h \in Handlers, WriteCancel(h) PROVE Stands(r)
    <3> DEFINE w == handlers[h]
    <3>1. w.req \in Requests /\ w.before \in Doc
      BY <1>1, <2>4, InFlight DEF WriteCancel, IInv, Idle
    <3>2. CASE w.req # r
      BY <1>1, <2>1, <2>4, <3>1, <3>2 DEF WriteCancel, IInv, TypeOK
    <3>3. CASE w.req = r
      <4>1. docs[r] \in Doc /\ docs[r].status = "pending"
        BY <1>1, <2>4, <3>3, StoredIsDoc DEF WriteCancel, IInv
      <4>2. docs'[r] = Apply(docs[r], CancelSet(w.before))
        BY <1>1, <2>4, <3>3 DEF WriteCancel, IInv, TypeOK
      <4>3. docs'[r].status = "cancelled"
        <5>1. CancelSet(w.before) \in Set /\ CancelSet(w.before).status = "cancelled"
          BY <3>1, CancelSetType DEF CancelSet
        <5> QED BY <4>1, <4>2, <5>1, ApplyFields DEF Put, Keep
      <4> QED BY <4>1, <4>3 DEF Stands, Final
    <3> QED BY <3>2, <3>3
  <2>5. CASE UNCHANGED docs
    BY <2>1, <2>5
  <2>6. ASSUME NEW q \in Requests, NEW u \in Users, Create(q, u) \/ CreateByRole(q, u)
        PROVE  Stands(r)
    BY <2>2, <2>6 DEF Create, CreateByRole
  <2> QED BY <1>1, <2>3, <2>4, <2>5, <2>6
           DEF Next, vars, ReadForDecision, ReadForCancel, Stale, Crash
<1>2. IInv /\ [Next]_vars =>
        [\A r \in Requests : Exists(r) =>
          /\ docs[r].status \in Final => docs'[r] = docs[r]
          /\ docs'[r].status # "cancelled" => KeepsDecisions(r)]_vars
  BY <1>1 DEF Stands
<1> QED BY <1>2, Invariance, PTL DEF Spec, HistoryStands
-----------------------------------------------------------------------------
(* Reads and conditional writes together implement ApprovalLifecycle.      *)

\* Nobody is on two levels of a chain.
Apart(d) ==
  \A l, m \in Levels : \A u \in Users :
    d.slot[l][u] # "none" /\ d.slot[m][u] # "none" => l = m

\* Of k of the ranks 1 to 3, for every l up to k one has l - 1 of them above it.
LEMMA StepsThereAre ==
  ASSUME NEW H \in SUBSET (1..3), NEW l \in 1..Cardinality(H)
  PROVE  \E rank \in H : Cardinality({s \in H : s > rank}) = l - 1
<1>1. IsFiniteSet(1..3) /\ Cardinality(1..3) = 3
  <2>1. 1 \in Int /\ 3 \in Int /\ ~(1 > 3) /\ 3 - 1 + 1 = 3
    OBVIOUS
  <2> QED BY <2>1, FS_Interval
<1>2. /\ IsFiniteSet(H) /\ Cardinality(H) \in Nat /\ Cardinality(H) <= 3
      /\ Cardinality(H) = 3 => H = 1..3
  BY <1>1, FS_Subset, FS_CardinalityType
<1>3. H # {}
  BY <1>2, FS_EmptySet
<1>4. CASE l = 1
  <2>1. PICK rank \in H : \A s \in H : ~(s > rank)
    <3>1. \A s \in H : s = 1 \/ s = 2 \/ s = 3
      OBVIOUS
    <3>2. 3 \in H \/ (3 \notin H /\ 2 \in H) \/ (3 \notin H /\ 2 \notin H /\ 1 \in H)
      BY <3>1, <1>3
    <3> QED BY <3>1, <3>2
  <2>2. {s \in H : s > rank} = {}
    BY <2>1
  <2> QED BY <2>1, <2>2, <1>4, FS_EmptySet
<1>5. CASE l = Cardinality(H)
  <2>1. PICK rank \in H : \A s \in H : s # rank => s > rank
    <3>1. \A s \in H : s = 1 \/ s = 2 \/ s = 3
      OBVIOUS
    <3>2. 1 \in H \/ (1 \notin H /\ 2 \in H) \/ (1 \notin H /\ 2 \notin H /\ 3 \in H)
      BY <3>1, <1>3
    <3> QED BY <3>1, <3>2
  <2>2. {s \in H : s > rank} = H \ {rank}
    <3>1. ~(rank > rank)
      OBVIOUS
    <3> QED BY <2>1, <3>1
  <2>3. Cardinality(H \ {rank}) = Cardinality(H) - 1
    BY <1>2, FS_RemoveElement
  <2> QED BY <2>1, <2>2, <2>3, <1>5
<1>6. CASE l = 2 /\ Cardinality(H) = 3
  <2>1. 2 \in H /\ {s \in H : s > 2} = {3}
    BY <1>2, <1>6
  <2>2. Cardinality({3}) = 1
    BY FS_Singleton
  <2> QED BY <2>1, <2>2, <1>6
<1> QED BY <1>2, <1>4, <1>5, <1>6

\* No two steps of a hierarchy are of one rank.
LEMMA StepsDiffer ==
  ASSUME NEW u \in Users, NEW l \in 1..Cardinality(HierarchyFor(u)),
         NEW m \in 1..Cardinality(HierarchyFor(u)), StepRank(u, l) = StepRank(u, m)
  PROVE  l = m
<1> DEFINE H == HierarchyFor(u)
           Is(rank, i) == Cardinality({s \in H : s > rank}) = i - 1
<1>1. H \in SUBSET (1..3) /\ l \in 1..Cardinality(H) /\ m \in 1..Cardinality(H)
  BY DEF HierarchyFor
<1>2. (\E rank \in H : Is(rank, l)) /\ \E rank \in H : Is(rank, m)
  <2> HIDE DEF H
  <2> QED BY <1>1, StepsThereAre
<1>3. Is(StepRank(u, l), l) /\ Is(StepRank(u, m), m)
  BY <1>2 DEF StepRank
<1> QED BY <1>3

\* The earlier form's picks put nobody on two steps: a person has one rank.
LEMMA PicksAreApart ==
  ASSUME NEW u \in Users, NEW who \in RolePicks(u),
         NEW l \in DOMAIN who, NEW m \in DOMAIN who, NEW p \in who[l], p \in who[m]
  PROVE  l = m
<1>1. DOMAIN who = 1..Cardinality(HierarchyFor(u))
  BY DEF RolePicks
<1>2. p \in Candidates(u, StepRank(u, l)) /\ p \in Candidates(u, StepRank(u, m))
  BY DEF RolePicks
<1>3. StepRank(u, l) = StepRank(u, m)
  BY <1>2 DEF Candidates
<1> QED BY <1>1, <1>3, StepsDiffer

\* A chain built from levels that share nobody puts nobody on two of them.
LEMMA NewDocApart ==
  ASSUME NEW u \in Users, NEW k \in Levels, NEW who \in [1..k -> SUBSET Users],
         NEW mode \in [1..k -> Modes],
         \A l, m \in 1..k : \A p \in Users : p \in who[l] /\ p \in who[m] => l = m
  PROVE  Apart(NewDoc(u, k, who, mode))
<1>1. \A l \in Levels : \A v \in Users :
        NewDoc(u, k, who, mode).slot[l][v] =
          IF l <= k /\ v \in who[l] THEN IF l = 1 THEN "pending" ELSE "waiting" ELSE "none"
  BY DEF NewDoc
<1>2. \A l \in Levels : l <= k => l \in 1..k
  BY ChainConstants DEF Levels
<1> QED BY <1>1, <1>2 DEF Apart

\* The same chain keeps its people apart.
LEMMA ApartKept ==
  ASSUME NEW d, NEW e, SameChain(e, d), Apart(d)
  PROVE  Apart(e)
BY DEF Apart, SameChain

\* A new request r, on a well-formed chain, waiting on its first level.
Raised(r) ==
  /\ docs[r] = NoDoc
  /\ \E e \in Doc : /\ Shape(e) /\ Apart(e)
                    /\ e.status = "pending" /\ e.current = 1
                    /\ \A l \in Levels : \A u \in Users : e.slot[l][u] # "approved"
                    /\ docs' = [docs EXCEPT ![r] = e]

\* A decision of u on r, planned from the document it lands on.
DecidedBy(r, u, action) ==
  /\ Exists(r)
  /\ IsTurnOf(docs[r], u)
  /\ docs' = [docs EXCEPT ![r] = Apply(@, DecisionSet(docs[r], u, action))]

\* A withdrawal of r, planned from an earlier reading b.
WithdrawnFrom(r, b) ==
  /\ Exists(r)
  /\ docs[r].status = "pending"
  /\ SameChain(docs[r], b) /\ Shrunk(docs[r], b)
  /\ docs' = [docs EXCEPT ![r] = Apply(@, CancelSet(b))]

\* Whatever the handlers interleave, the documents see atomic steps only.
LEMMA StepKinds ==
  ASSUME IInv, [Next]_vars
  PROVE  \/ docs' = docs
         \/ \E r \in Requests : Raised(r)
         \/ \E r \in Requests, u \in Users, action \in {"approve", "reject"} :
              DecidedBy(r, u, action)
         \/ \E r \in Requests, b \in Doc : WithdrawnFrom(r, b)
<1> DEFINE Goal == \/ docs' = docs
                   \/ \E r \in Requests : Raised(r)
                   \/ \E r \in Requests, u \in Users, action \in {"approve", "reject"} :
                        DecidedBy(r, u, action)
                   \/ \E r \in Requests, b \in Doc : WithdrawnFrom(r, b)
<1>1. ASSUME NEW r \in Requests, NEW u \in Users, NEW k \in Levels,
             NEW who \in [1..k -> SUBSET Users], NEW mode \in [1..k -> Modes],
             docs[r] = NoDoc,
             \A l \in 1..k : who[l] # {},
             \A l, m \in 1..k : \A p \in Users : p \in who[l] /\ p \in who[m] => l = m,
             docs' = [docs EXCEPT ![r] = NewDoc(u, k, who, mode)]
      PROVE  Raised(r)
  <2>1. NewDoc(u, k, who, mode) \in Doc /\ Shape(NewDoc(u, k, who, mode))
    BY <1>1, NewDocShape
  <2>2. Apart(NewDoc(u, k, who, mode))
    BY <1>1, NewDocApart
  <2>3. NewDoc(u, k, who, mode).status = "pending" /\ NewDoc(u, k, who, mode).current = 1
    BY DEF NewDoc
  <2>4. \A l \in Levels : \A v \in Users : NewDoc(u, k, who, mode).slot[l][v] # "approved"
    BY DEF NewDoc
  <2> QED BY <1>1, <2>1, <2>2, <2>3, <2>4 DEF Raised
<1>2. ASSUME NEW r \in Requests, NEW u \in Users, Create(r, u) PROVE Goal
  <2>1. PICK k \in Levels : \E who \in [1..k -> SUBSET Users], mode \in [1..k -> Modes] :
               /\ Acceptable(u, who)
               /\ docs' = [docs EXCEPT ![r] = NewDoc(u, k, who, mode)]
    BY <1>2 DEF Create
  <2>2. PICK who \in [1..k -> SUBSET Users], mode \in [1..k -> Modes] :
               /\ Acceptable(u, who)
               /\ docs' = [docs EXCEPT ![r] = NewDoc(u, k, who, mode)]
    BY <2>1
  <2>3. /\ \A l \in 1..k : who[l] # {}
        /\ \A l, m \in 1..k : \A p \in Users : p \in who[l] /\ p \in who[m] => l = m
    BY <2>2 DEF Acceptable
  <2>4. Raised(r)
    BY <1>1, <1>2, <2>2, <2>3 DEF Create
  <2> QED BY <2>4
<1>3. ASSUME NEW r \in Requests, NEW u \in Users, CreateByRole(r, u) PROVE Goal
  <2> DEFINE k == Cardinality(HierarchyFor(u))
             mode == [l \in 1..k |-> "all"]
  <2>1. k \in Levels
    BY <1>3 DEF CreateByRole
  <2>2. PICK who \in RolePicks(u) : docs' = [docs EXCEPT ![r] = NewDoc(u, k, who, mode)]
    BY <1>3 DEF CreateByRole
  <2>3. who \in [1..k -> SUBSET Users] /\ \A l \in 1..k : who[l] # {}
    <3> DEFINE Ones == {{p} : p \in CanAct}
    <3>1. who \in [1..k -> Ones]
      BY <2>2 DEF RolePicks
    <3>2. ASSUME NEW S \in Ones
          PROVE  S \in SUBSET Users /\ S # {}
      <4>1. PICK p \in CanAct : S = {p}
        BY <3>2
      <4> QED BY <4>1, ChainConstants
    <3> HIDE DEF k, Ones
    <3> QED BY <3>1, <3>2
  <2>4. mode \in [1..k -> Modes]
    BY DEF Modes
  <2>5. \A l, m \in 1..k : \A p \in Users : p \in who[l] /\ p \in who[m] => l = m
    <3>1. DOMAIN who = 1..k
      BY <2>3
    <3> HIDE DEF k
    <3> QED BY <3>1, <2>2, PicksAreApart
  <2>6. docs[r] = NoDoc
    BY <1>3 DEF CreateByRole
  <2> HIDE DEF k, mode
  <2>7. Raised(r)
    BY <1>1, <2>1, <2>2, <2>3, <2>4, <2>5, <2>6
  <2> QED BY <2>7
<1>4. ASSUME NEW h \in Handlers, WriteDecision(h) PROVE Goal
  <2> DEFINE w == handlers[h]
             r == w.req
  <2>1. w \in Decisions /\ w # Idle /\ Unmoved(docs[r], w.before)
    BY <1>4, InFlight DEF WriteDecision, IInv, Idle
  <2>2. /\ r \in Requests /\ w.before \in Doc /\ w.user \in Users
        /\ w.action \in {"approve", "reject"} /\ w.op = "decide"
    BY <2>1 DEF Decisions
  <2>3. Exists(r) /\ SameChain(docs[r], w.before) /\ IsTurnOf(w.before, w.user)
    BY <2>1, <2>2 DEF IInv, Behind
  <2>4. docs[r] \in Doc
    BY <2>2, <2>3, StoredIsDoc DEF IInv
  <2>5. /\ IsTurnOf(docs[r], w.user)
        /\ DecisionSet(w.before, w.user, w.action) = DecisionSet(docs[r], w.user, w.action)
    BY <2>1, <2>2, <2>3, <2>4, SamePlan
  <2>6. docs' = [docs EXCEPT ![r] = Apply(@, DecisionSet(w.before, w.user, w.action))]
    BY <1>4 DEF WriteDecision
  <2>7. DecidedBy(r, w.user, w.action)
    BY <2>3, <2>5, <2>6 DEF DecidedBy
  <2> QED BY <2>2, <2>7
<1>5. ASSUME NEW h \in Handlers, WriteCancel(h) PROVE Goal
  <2> DEFINE w == handlers[h]
             r == w.req
  <2>1. w # Idle /\ r \in Requests /\ w.before \in Doc
    BY <1>5, InFlight DEF WriteCancel, IInv, Idle
  <2>2. Exists(r) /\ SameChain(docs[r], w.before) /\ Shrunk(docs[r], w.before)
    BY <2>1 DEF IInv, Behind
  <2>3. WithdrawnFrom(r, w.before)
    BY <1>5, <2>2 DEF WriteCancel, WithdrawnFrom
  <2> QED BY <2>1, <2>3
<1> HIDE DEF Goal
<1>6. docs' = docs => Goal
  BY DEF Goal
<1>7. Goal
  BY <1>2, <1>3, <1>4, <1>5, <1>6
     DEF Next, vars, ReadForDecision, ReadForCancel, Stale, Crash
<1> QED BY <1>7 DEF Goal

-----------------------------------------------------------------------------
(* What ApprovalLifecycle sees of one document. *)

AtOf(d) == IF d.status # "none" THEN d.current ELSE 0

ChainOf(d) ==
  IF d.status # "none"
  THEN [l \in 1..d.n |-> [who |-> On(d, l), mode |-> d.mode[l]]]
  ELSE <<>>

YesOf(d) ==
  IF d.status # "none"
  THEN {u \in Users : \E l \in Levels : d.slot[l][u] = "approved"}
  ELSE {}

\* The same chain looks the same.
LEMMA SameChainOf ==
  ASSUME NEW d \in Doc, NEW e \in Doc, SameChain(e, d)
  PROVE  ChainOf(e) = ChainOf(d)
<1>1. d.n = e.n /\ d.mode = e.mode /\ d.status # "none" /\ e.status # "none"
  BY DEF SameChain, Doc, Final
<1>2. \A l \in 1..d.n : l \in Levels
  BY ChainConstants DEF Doc, Levels
<1>3. \A l \in 1..d.n : On(e, l) = On(d, l)
  BY <1>2 DEF SameChain, On
<1> QED BY <1>1, <1>3 DEF ChainOf

\* Somebody whose turn it is is on the current level, has not approved, and the
\* levels of the request are the domain of its chain.
LEMMA TurnIsAsked ==
  ASSUME NEW d \in Doc, Shape(d), Apart(d), NEW u \in Users, IsTurnOf(d, u)
  PROVE  /\ d.current \in Nat /\ d.n \in Nat /\ d.current \in 1..d.n /\ AtOf(d) = d.current
         /\ DOMAIN ChainOf(d) = 1..d.n
         /\ ChainOf(d)[d.current] = [who |-> On(d, d.current), mode |-> d.mode[d.current]]
         /\ u \in On(d, d.current)
         /\ u \notin YesOf(d)
<1>1. /\ d.n \in Nat /\ d.current \in 1..d.n /\ d.status = "pending"
      /\ d.slot[d.current][u] = "pending" /\ d.current \in Levels /\ d.current \in Nat
  BY ChainConstants DEF IsTurnOf, Doc, Levels
<1>2. u \in On(d, d.current)
  BY <1>1 DEF On
<1>3. u \notin YesOf(d)
  BY <1>1 DEF YesOf, Apart
<1> QED BY <1>1, <1>2, <1>3 DEF AtOf, ChainOf

\* A decision's $set approves nothing but its author's slot, and that one only if
\* it is an approval.
LEMMA YesAfterDecision ==
  ASSUME NEW d \in Doc, Shape(d), NEW u \in Users, NEW action \in {"approve", "reject"},
         IsTurnOf(d, u)
  PROVE  YesOf(Apply(d, DecisionSet(d, u, action))) =
           YesOf(d) \cup (IF action = "approve" THEN {u} ELSE {})
<1> DEFINE set == DecisionSet(d, u, action)
           e == Apply(d, set)
<1>1. set \in Set /\ e \in Doc
  BY DecisionSetType, ApplyFields
<1>2. \A l \in Levels : \A v \in Users : e.slot[l][v] = Put(d.slot[l][v], set.slot[l][v])
  BY <1>1, ApplyFields
<1>3. \A l \in Levels : \A v \in Users :
        d.slot[l][v] = "approved" => e.slot[l][v] = "approved"
  BY DecisionKeeps DEF Decided
<1>4. \A l \in Levels : \A v \in Users :
        set.slot[l][v] = "approved" <=> action = "approve" /\ l = d.current /\ v = u
  <2>1. \A l \in Levels : \A v \in Users : RejectSet(d, u).slot[l][v] # "approved"
    BY DEF RejectSet, Keep
  <2>2. \A l \in Levels : \A v \in Users :
          ApproveSlotSet(d, u).slot[l][v] = "approved" <=> l = d.current /\ v = u
    BY DEF ApproveSlotSet, Keep
  <2>3. \A l \in Levels : \A v \in Users :
          CloseLevelSet(d, u).slot[l][v] = "approved" <=> l = d.current /\ v = u
    BY DEF CloseLevelSet, Keep
  <2> QED BY <2>1, <2>2, <2>3 DEF DecisionSet
<1>5. d.current \in Levels /\ d.status # "none" /\ e.status # "none"
  BY <1>1, ChainConstants DEF IsTurnOf, Doc, Levels, Final
<1> HIDE DEF e, set
<1>6. \A l \in Levels : \A v \in Users :
        e.slot[l][v] = "approved" <=>
          d.slot[l][v] = "approved" \/ (action = "approve" /\ l = d.current /\ v = u)
  BY <1>2, <1>3, <1>4 DEF Put, Keep
<1>7. YesOf(e) = YesOf(d) \cup (IF action = "approve" THEN {u} ELSE {})
  BY <1>5, <1>6 DEF YesOf
<1> QED BY <1>7 DEF e, set

\* Status and level after a decision are those the lifecycle asks for: past the
\* level when its approvals are enough, and to the end after the last.
LEMMA MovesWhenEnough ==
  ASSUME NEW d \in Doc, Shape(d), Apart(d), NEW u \in Users, IsTurnOf(d, u)
  PROVE  LET e == Apply(d, DecisionSet(d, u, "approve"))
             enough == \/ d.mode[d.current] = "any"
                       \/ On(d, d.current) \subseteq YesOf(d) \cup {u}
         IN  /\ e \in Doc /\ SameChain(e, d)
             /\ e.current = IF enough THEN d.current + 1 ELSE d.current
             /\ e.status = IF enough /\ d.current = d.n THEN "approved" ELSE "pending"
<1> DEFINE set == DecisionSet(d, u, "approve")
           e == Apply(d, set)
           enough == \/ d.mode[d.current] = "any"
                     \/ On(d, d.current) \subseteq YesOf(d) \cup {u}
<1>1. e \in Doc /\ SameChain(e, d)
  BY DecisionIsSafe DEF Safely
<1>2. set \in Set
  BY DecisionSetType
<1>3. /\ e.status = Put(d.status, set.status)
      /\ e.current = IF set.current = 0 THEN d.current ELSE set.current
  BY <1>2, ApplyFields
<1>4. /\ d.current \in Levels /\ d.current \in Nat /\ d.status = "pending"
      /\ d.slot[d.current][u] = "pending"
  BY ChainConstants DEF IsTurnOf, Doc, Levels
<1>5. \A v \in Users : d.slot[d.current][v] \in {"none", "pending", "approved"}
  BY <1>4 DEF Shape
<1>6. \A v \in On(d, d.current) : v \in YesOf(d) <=> d.slot[d.current][v] = "approved"
  BY <1>4 DEF YesOf, On, Apart
<1>7. Closes(d, u) <=> enough
  <2>1. On(d, d.current) \subseteq YesOf(d) \cup {u} <=> StillPending(d, u) = {}
    BY <1>4, <1>5, <1>6 DEF StillPending, On
  <2> QED BY <2>1 DEF Closes
<1> HIDE DEF e, enough
<1>8. set = IF enough THEN CloseLevelSet(d, u) ELSE ApproveSlotSet(d, u)
  BY <1>7 DEF DecisionSet
<1>9. /\ enough => set.current = d.current + 1
      /\ enough => set.status = IF d.current = d.n THEN "approved" ELSE Keep
      /\ ~enough => set.current = 0 /\ set.status = Keep
  BY <1>8 DEF CloseLevelSet, ApproveSlotSet
<1> HIDE DEF set
<1>10. /\ e.current = IF enough THEN d.current + 1 ELSE d.current
       /\ e.status = IF enough /\ d.current = d.n THEN "approved" ELSE "pending"
  BY <1>3, <1>4, <1>9 DEF Put, Keep
<1> QED BY <1>1, <1>10 DEF e, set, enough

\* A reject ends the request where it stands.
LEMMA RejectEnds ==
  ASSUME NEW d \in Doc, Shape(d), NEW u \in Users, IsTurnOf(d, u)
  PROVE  LET e == Apply(d, DecisionSet(d, u, "reject"))
         IN  /\ e \in Doc /\ SameChain(e, d)
             /\ e.current = d.current /\ e.status = "rejected"
<1> DEFINE e == Apply(d, DecisionSet(d, u, "reject"))
<1>1. e \in Doc /\ SameChain(e, d)
  BY DecisionIsSafe DEF Safely
<1>2. /\ DecisionSet(d, u, "reject") \in Set
      /\ DecisionSet(d, u, "reject").current = 0
      /\ DecisionSet(d, u, "reject").status = "rejected"
  BY DecisionSetType DEF DecisionSet, RejectSet
<1>3. e.current = d.current /\ e.status = "rejected"
  BY <1>2, ApplyFields DEF Put, Keep
<1> QED BY <1>1, <1>3

\* So does a withdrawal; what it overwrites of the approvals it only takes away.
LEMMA WithdrawalEnds ==
  ASSUME NEW d \in Doc, NEW b \in Doc, Shape(d), SameChain(d, b), Shrunk(d, b)
  PROVE  LET e == Apply(d, CancelSet(b))
         IN  /\ e \in Doc /\ SameChain(e, d)
             /\ e.current = d.current /\ e.status = "cancelled"
             /\ YesOf(e) \subseteq YesOf(d)
<1> DEFINE e == Apply(d, CancelSet(b))
<1>1. e \in Doc /\ SameChain(e, d)
  BY CancelIsSafe DEF Safely
<1>2. CancelSet(b) \in Set /\ CancelSet(b).current = 0 /\ CancelSet(b).status = "cancelled"
  BY CancelSetType DEF CancelSet
<1>3. e.current = d.current /\ e.status = "cancelled"
  BY <1>2, ApplyFields DEF Put, Keep
<1>4. \A l \in Levels : \A v \in Users : e.slot[l][v] = Put(d.slot[l][v], CancelSet(b).slot[l][v])
  BY <1>2, ApplyFields
<1>5. \A l \in Levels : \A v \in Users : CancelSet(b).slot[l][v] # "approved"
  BY DEF CancelSet, Keep
<1>6. d.status # "none" /\ e.status # "none"
  BY <1>1 DEF Doc, Final
<1> HIDE DEF e
<1>7. \A l \in Levels : \A v \in Users : e.slot[l][v] = "approved" => d.slot[l][v] = "approved"
  BY <1>4, <1>5 DEF Put
<1>8. YesOf(e) \subseteq YesOf(d)
  BY <1>6, <1>7 DEF YesOf
<1> QED BY <1>1, <1>3, <1>8 DEF e

-----------------------------------------------------------------------------
(* The refinement mapping. *)

StatusMap == [r \in Requests |-> docs[r].status]
AtMap     == [r \in Requests |-> AtOf(docs[r])]
ChainMap  == [r \in Requests |-> ChainOf(docs[r])]
YesMap    == [r \in Requests |-> YesOf(docs[r])]

\* It is the one Approvals names.
LEMMA MapsAre ==
  /\ StatusMap = [r \in Requests |-> docs[r].status]
  /\ AtMap = [r \in Requests |-> IF Exists(r) THEN docs[r].current ELSE 0]
  /\ ChainMap = [r \in Requests |->
                   IF Exists(r)
                   THEN [l \in 1..docs[r].n |-> [who |-> On(docs[r], l), mode |-> docs[r].mode[l]]]
                   ELSE <<>>]
  /\ YesMap = [r \in Requests |->
                 IF Exists(r)
                 THEN {u \in Users : \E l \in Levels : docs[r].slot[l][u] = "approved"}
                 ELSE {}]
BY DEF StatusMap, AtMap, ChainMap, YesMap, AtOf, ChainOf, YesOf, Exists

\* And stays so in the next state.
LEMMA MapsStay ==
  /\ StatusMap' = [r \in Requests |-> docs[r].status]'
  /\ AtMap' = [r \in Requests |-> IF Exists(r) THEN docs[r].current ELSE 0]'
  /\ ChainMap' = [r \in Requests |->
                    IF Exists(r)
                    THEN [l \in 1..docs[r].n |-> [who |-> On(docs[r], l), mode |-> docs[r].mode[l]]]
                    ELSE <<>>]'
  /\ YesMap' = [r \in Requests |->
                  IF Exists(r)
                  THEN {u \in Users : \E l \in Levels : docs[r].slot[l][u] = "approved"}
                  ELSE {}]'
BY DEF StatusMap, AtMap, ChainMap, YesMap, AtOf, ChainOf, YesOf, Exists

\* Writing one document changes the four maps at that request only.
LEMMA MapsAfter ==
  ASSUME TypeOK, NEW r \in Requests, NEW e, docs' = [docs EXCEPT ![r] = e]
  PROVE  /\ StatusMap' = [StatusMap EXCEPT ![r] = e.status]
         /\ AtMap' = [AtMap EXCEPT ![r] = AtOf(e)]
         /\ ChainMap' = [ChainMap EXCEPT ![r] = ChainOf(e)]
         /\ YesMap' = [YesMap EXCEPT ![r] = YesOf(e)]
<1>1. \A q \in Requests : docs'[q] = IF q = r THEN e ELSE docs[q]
  BY DEF TypeOK
<1>2. StatusMap' = [StatusMap EXCEPT ![r] = e.status]
  <2>1. StatusMap' = [q \in Requests |-> IF q = r THEN e.status ELSE StatusMap[q]]
    BY <1>1 DEF StatusMap
  <2> QED BY <2>1 DEF StatusMap
<1>3. AtMap' = [AtMap EXCEPT ![r] = AtOf(e)]
  <2>1. AtMap' = [q \in Requests |-> IF q = r THEN AtOf(e) ELSE AtMap[q]]
    BY <1>1 DEF AtMap
  <2> QED BY <2>1 DEF AtMap
<1>4. ChainMap' = [ChainMap EXCEPT ![r] = ChainOf(e)]
  <2>1. ChainMap' = [q \in Requests |-> IF q = r THEN ChainOf(e) ELSE ChainMap[q]]
    BY <1>1 DEF ChainMap
  <2> QED BY <2>1 DEF ChainMap
<1>5. YesMap' = [YesMap EXCEPT ![r] = YesOf(e)]
  <2>1. YesMap' = [q \in Requests |-> IF q = r THEN YesOf(e) ELSE YesMap[q]]
    BY <1>1 DEF YesMap
  <2> QED BY <2>1 DEF YesMap
<1> QED BY <1>2, <1>3, <1>4, <1>5

\* No step of the service puts anybody on two levels.
AllApart == \A r \in Requests : Exists(r) => Apart(docs[r])

LEMMA StepApart == IInv /\ AllApart /\ [Next]_vars => AllApart'
<1> SUFFICES ASSUME IInv, AllApart, [Next]_vars PROVE AllApart'
  OBVIOUS
<1>1. ASSUME NEW r \in Requests, NEW e, Apart(e), docs' = [docs EXCEPT ![r] = e]
      PROVE  AllApart'
  BY <1>1 DEF AllApart, IInv, TypeOK, Exists
<1>2. ASSUME NEW r \in Requests, Raised(r) PROVE AllApart'
  BY <1>1, <1>2 DEF Raised
<1>3. ASSUME NEW r \in Requests, Exists(r), NEW e, Safely(docs[r], e),
             docs' = [docs EXCEPT ![r] = e]
      PROVE  AllApart'
  <2>1. SameChain(e, docs[r]) /\ Apart(docs[r])
    BY <1>3 DEF Safely, AllApart
  <2>2. Apart(e)
    BY <2>1, ApartKept
  <2> QED BY <1>1, <1>3, <2>2
<1>4. ASSUME NEW r \in Requests, NEW u \in Users, NEW action \in {"approve", "reject"},
             DecidedBy(r, u, action)
      PROVE  AllApart'
  <2>1. docs[r] \in Doc /\ Shape(docs[r])
    BY <1>4, StoredIsDoc DEF DecidedBy, IInv
  <2>2. Safely(docs[r], Apply(docs[r], DecisionSet(docs[r], u, action)))
    BY <1>4, <2>1, DecisionIsSafe DEF DecidedBy
  <2> QED BY <1>3, <1>4, <2>2 DEF DecidedBy
<1>5. ASSUME NEW r \in Requests, NEW b \in Doc, WithdrawnFrom(r, b)
      PROVE  AllApart'
  <2>1. docs[r] \in Doc /\ Shape(docs[r])
    BY <1>5, StoredIsDoc DEF WithdrawnFrom, IInv
  <2>2. Safely(docs[r], Apply(docs[r], CancelSet(b)))
    BY <1>5, <2>1, CancelIsSafe DEF WithdrawnFrom
  <2> QED BY <1>3, <1>5, <2>2 DEF WithdrawnFrom
<1>6. docs' = docs => AllApart'
  BY DEF AllApart, Exists
<1> QED BY <1>2, <1>4, <1>5, <1>6, StepKinds

\* Every step of the service is a step of the lifecycle, or none.
LEMMA StepRefines ==
  ASSUME IInv, AllApart, [Next]_vars
  PROVE  [Lifecycle!Next]_(Lifecycle!vars)
<1>0. /\ TypeOK
      /\ \A r \in Requests : Exists(r) => docs[r] \in Doc /\ Shape(docs[r]) /\ Apart(docs[r])
  BY StoredIsDoc DEF IInv, AllApart
<1>1. ASSUME NEW r \in Requests, Raised(r)
      PROVE  Lifecycle!Raise(r)
  <2>1. PICK e \in Doc : /\ Shape(e) /\ Apart(e)
                         /\ e.status = "pending" /\ e.current = 1
                         /\ \A l \in Levels : \A u \in Users : e.slot[l][u] # "approved"
                         /\ docs' = [docs EXCEPT ![r] = e]
    BY <1>1 DEF Raised
  <2>2. /\ StatusMap' = [StatusMap EXCEPT ![r] = "pending"]
        /\ AtMap' = [AtMap EXCEPT ![r] = 1]
        /\ ChainMap' = [ChainMap EXCEPT ![r] = ChainOf(e)]
        /\ YesMap' = [YesMap EXCEPT ![r] = YesOf(e)]
    BY <2>1, <1>0, MapsAfter DEF AtOf
  <2>3. StatusMap[r] = "none" /\ YesMap[r] = {}
    BY <1>1 DEF Raised, StatusMap, YesMap, YesOf, NoDoc
  <2>4. YesOf(e) = {}
    BY <2>1 DEF YesOf
  <2>5. YesMap' = YesMap
    BY <2>2, <2>3, <2>4 DEF YesMap
  <2>6. /\ e.n \in 1..MaxLevels
        /\ ChainOf(e) \in [1..e.n -> [who : SUBSET Users, mode : {"all", "any"}]]
        /\ \A l \in 1..e.n : ChainOf(e)[l].who # {}
    <3>1. e.n \in Levels /\ \A l \in 1..e.n : l \in Levels /\ l <= e.n
      BY ChainConstants DEF Doc, Levels
    <3>2. \A l \in 1..e.n : On(e, l) \in SUBSET Users /\ On(e, l) # {}
      BY <2>1, <3>1 DEF On, Shape
    <3>3. \A l \in 1..e.n : e.mode[l] \in {"all", "any"}
      BY <3>1 DEF Doc, Modes
    <3> QED BY <2>1, <3>1, <3>2, <3>3 DEF ChainOf, Levels
  <2> HIDE DEF StatusMap, AtMap, ChainMap, YesMap
  <2> QED BY <2>2, <2>3, <2>5, <2>6, MapsAre, MapsStay DEF Lifecycle!Raise, Lifecycle!LevelSpec
<1>2. ASSUME NEW r \in Requests, NEW u \in Users, DecidedBy(r, u, "approve")
      PROVE  Lifecycle!Approve(r, u)
  <2> DEFINE d == docs[r]
             e == Apply(d, DecisionSet(d, u, "approve"))
             enough == \/ d.mode[d.current] = "any"
                       \/ On(d, d.current) \subseteq YesOf(d) \cup {u}
  <2>1. d \in Doc /\ Shape(d) /\ Apart(d) /\ IsTurnOf(d, u) /\ d.status = "pending"
    BY <1>0, <1>2 DEF DecidedBy, IsTurnOf
  <2>2. docs' = [docs EXCEPT ![r] = e]
    BY <1>2 DEF DecidedBy
  <2>3. /\ e \in Doc /\ SameChain(e, d)
        /\ e.current = IF enough THEN d.current + 1 ELSE d.current
        /\ e.status = IF enough /\ d.current = d.n THEN "approved" ELSE "pending"
    BY <2>1, MovesWhenEnough
  <2>4. YesOf(e) = YesOf(d) \cup {u}
    BY <2>1, YesAfterDecision
  <2>5. ChainOf(e) = ChainOf(d) /\ AtOf(e) = e.current
    BY <2>1, <2>3, SameChainOf DEF AtOf
  <2>6. /\ d.current \in Nat /\ d.n \in Nat /\ d.current \in 1..d.n /\ AtOf(d) = d.current
        /\ DOMAIN ChainOf(d) = 1..d.n
        /\ ChainOf(d)[d.current] = [who |-> On(d, d.current), mode |-> d.mode[d.current]]
        /\ u \in On(d, d.current)
        /\ u \notin YesOf(d)
    BY <2>1, TurnIsAsked
  <2>7. /\ StatusMap[r] = "pending" /\ AtMap[r] = d.current
        /\ ChainMap[r] = ChainOf(d) /\ YesMap[r] = YesOf(d)
    BY <2>1, <2>6 DEF StatusMap, AtMap, ChainMap, YesMap
  <2> HIDE DEF d, e
  <2>8. /\ StatusMap' = [StatusMap EXCEPT ![r] = e.status]
        /\ AtMap' = [AtMap EXCEPT ![r] = e.current]
        /\ ChainMap' = [ChainMap EXCEPT ![r] = ChainOf(d)]
        /\ YesMap' = [YesMap EXCEPT ![r] = YesOf(d) \cup {u}]
    <3>1. /\ StatusMap' = [StatusMap EXCEPT ![r] = e.status]
          /\ AtMap' = [AtMap EXCEPT ![r] = AtOf(e)]
          /\ ChainMap' = [ChainMap EXCEPT ![r] = ChainOf(e)]
          /\ YesMap' = [YesMap EXCEPT ![r] = YesOf(e)]
      BY <1>0, <2>2, MapsAfter
    <3> QED BY <3>1, <2>4, <2>5
  <2>9. ChainMap' = ChainMap
    BY <2>7, <2>8 DEF ChainMap
  <2>10. /\ StatusMap[r] = "pending"
         /\ u \in ChainMap[r][AtMap[r]].who \ YesMap[r]
    BY <2>6, <2>7
  <2>11. YesMap' = [YesMap EXCEPT ![r] = @ \cup {u}]
    BY <2>7, <2>8 DEF YesMap
  <2>12. enough <=> \/ ChainMap[r][AtMap[r]].mode = "any"
                    \/ ChainMap[r][AtMap[r]].who \subseteq YesMap[r] \cup {u}
    BY <2>6, <2>7
  <2>13. enough =>
           /\ AtMap' = [AtMap EXCEPT ![r] = @ + 1]
           /\ StatusMap' = [StatusMap EXCEPT ![r] =
                              IF AtMap[r] + 1 \in DOMAIN ChainMap[r] THEN "pending" ELSE "approved"]
    <3>1. d.current + 1 \in 1..d.n <=> d.current # d.n
      BY <2>6
    <3>2. enough => e.status = IF AtMap[r] + 1 \in DOMAIN ChainMap[r] THEN "pending" ELSE "approved"
      BY <3>1, <2>3, <2>6, <2>7
    <3>3. enough => e.current = AtMap[r] + 1
      BY <2>3, <2>7
    <3> QED BY <3>2, <3>3, <2>8 DEF AtMap
  <2>14. ~enough => StatusMap' = StatusMap /\ AtMap' = AtMap
    <3>1. ~enough => e.status = StatusMap[r] /\ e.current = AtMap[r]
      BY <2>3, <2>7
    <3> QED BY <3>1, <2>8 DEF StatusMap, AtMap
  <2> HIDE DEF enough
  <2> QED BY <2>9, <2>10, <2>11, <2>12, <2>13, <2>14, MapsAre, MapsStay
          DEF Lifecycle!Approve, Lifecycle!Asked, Lifecycle!Enough
<1>3. ASSUME NEW r \in Requests, NEW u \in Users, DecidedBy(r, u, "reject")
      PROVE  Lifecycle!Reject(r, u)
  <2> DEFINE d == docs[r]
             e == Apply(d, DecisionSet(d, u, "reject"))
  <2>1. d \in Doc /\ Shape(d) /\ Apart(d) /\ IsTurnOf(d, u) /\ d.status = "pending"
    BY <1>0, <1>3 DEF DecidedBy, IsTurnOf
  <2>2. docs' = [docs EXCEPT ![r] = e]
    BY <1>3 DEF DecidedBy
  <2>3. e \in Doc /\ SameChain(e, d) /\ e.current = d.current /\ e.status = "rejected"
    BY <2>1, RejectEnds
  <2>4. YesOf(e) = YesOf(d)
    BY <2>1, YesAfterDecision
  <2>5. ChainOf(e) = ChainOf(d) /\ AtOf(e) = d.current
    BY <2>1, <2>3, SameChainOf DEF AtOf
  <2>6. /\ AtOf(d) = d.current
        /\ ChainOf(d)[d.current] = [who |-> On(d, d.current), mode |-> d.mode[d.current]]
        /\ u \in On(d, d.current)
        /\ u \notin YesOf(d)
    BY <2>1, TurnIsAsked
  <2>7. /\ StatusMap[r] = "pending" /\ AtMap[r] = d.current
        /\ ChainMap[r] = ChainOf(d) /\ YesMap[r] = YesOf(d)
    BY <2>1, <2>6 DEF StatusMap, AtMap, ChainMap, YesMap
  <2> HIDE DEF d, e
  <2>8. /\ StatusMap' = [StatusMap EXCEPT ![r] = "rejected"]
        /\ AtMap' = [AtMap EXCEPT ![r] = d.current]
        /\ ChainMap' = [ChainMap EXCEPT ![r] = ChainOf(d)]
        /\ YesMap' = [YesMap EXCEPT ![r] = YesOf(d)]
    <3>1. /\ StatusMap' = [StatusMap EXCEPT ![r] = e.status]
          /\ AtMap' = [AtMap EXCEPT ![r] = AtOf(e)]
          /\ ChainMap' = [ChainMap EXCEPT ![r] = ChainOf(e)]
          /\ YesMap' = [YesMap EXCEPT ![r] = YesOf(e)]
      BY <1>0, <2>2, MapsAfter
    <3> QED BY <3>1, <2>3, <2>4, <2>5
  <2>9. AtMap' = AtMap /\ ChainMap' = ChainMap /\ YesMap' = YesMap
    BY <2>7, <2>8 DEF AtMap, ChainMap, YesMap
  <2>10. u \in ChainMap[r][AtMap[r]].who \ YesMap[r]
    BY <2>6, <2>7
  <2> QED BY <2>7, <2>8, <2>9, <2>10, MapsAre, MapsStay DEF Lifecycle!Reject, Lifecycle!Asked
<1>4. ASSUME NEW r \in Requests, NEW b \in Doc, WithdrawnFrom(r, b)
      PROVE  Lifecycle!Withdraw(r)
  <2> DEFINE d == docs[r]
             e == Apply(d, CancelSet(b))
  <2>1. /\ d \in Doc /\ Shape(d) /\ d.status = "pending"
        /\ SameChain(d, b) /\ Shrunk(d, b)
    BY <1>0, <1>4 DEF WithdrawnFrom
  <2>2. docs' = [docs EXCEPT ![r] = e]
    BY <1>4 DEF WithdrawnFrom
  <2>3. /\ e \in Doc /\ SameChain(e, d) /\ e.current = d.current /\ e.status = "cancelled"
        /\ YesOf(e) \subseteq YesOf(d)
    BY <2>1, WithdrawalEnds
  <2>4. ChainOf(e) = ChainOf(d) /\ AtOf(e) = d.current /\ AtOf(d) = d.current
    BY <2>1, <2>3, SameChainOf DEF AtOf
  <2>5. /\ StatusMap[r] = "pending" /\ AtMap[r] = d.current
        /\ ChainMap[r] = ChainOf(d) /\ YesMap[r] = YesOf(d)
    BY <2>1, <2>4 DEF StatusMap, AtMap, ChainMap, YesMap
  <2> HIDE DEF d, e
  <2>6. /\ StatusMap' = [StatusMap EXCEPT ![r] = "cancelled"]
        /\ AtMap' = [AtMap EXCEPT ![r] = d.current]
        /\ ChainMap' = [ChainMap EXCEPT ![r] = ChainOf(d)]
        /\ YesMap' = [YesMap EXCEPT ![r] = YesOf(e)]
    <3>1. /\ StatusMap' = [StatusMap EXCEPT ![r] = e.status]
          /\ AtMap' = [AtMap EXCEPT ![r] = AtOf(e)]
          /\ ChainMap' = [ChainMap EXCEPT ![r] = ChainOf(e)]
          /\ YesMap' = [YesMap EXCEPT ![r] = YesOf(e)]
      BY <1>0, <2>2, MapsAfter
    <3> QED BY <3>1, <2>3, <2>4
  <2>7. AtMap' = AtMap /\ ChainMap' = ChainMap
    BY <2>5, <2>6 DEF AtMap, ChainMap
  <2>8. \E kept \in SUBSET YesMap[r] : YesMap' = [YesMap EXCEPT ![r] = kept]
    BY <2>3, <2>5, <2>6
  <2> QED BY <2>5, <2>6, <2>7, <2>8, MapsAre, MapsStay DEF Lifecycle!Withdraw
<1>5. ASSUME docs' = docs PROVE UNCHANGED Lifecycle!vars
  <2>1. /\ StatusMap' = StatusMap /\ AtMap' = AtMap /\ ChainMap' = ChainMap
        /\ YesMap' = YesMap
    BY <1>5 DEF StatusMap, AtMap, ChainMap, YesMap
  <2> QED BY <2>1, MapsAre, MapsStay DEF Lifecycle!vars
<1>6. ASSUME NEW r \in Requests, NEW u \in Users, NEW action \in {"approve", "reject"},
             DecidedBy(r, u, action)
      PROVE  Lifecycle!Approve(r, u) \/ Lifecycle!Reject(r, u)
  BY <1>2, <1>3, <1>6
<1>7. Lifecycle!Next \/ UNCHANGED Lifecycle!vars
  BY <1>1, <1>4, <1>5, <1>6, StepKinds DEF Lifecycle!Next
<1> QED BY <1>7

\* decide() and cancel() read a document, let others write it, and write back
\* under a filter, yet for any people, chains and handlers every request goes
\* through the lifecycle's atomic steps: levels in order, each left only with
\* enough approvals, one rejection final, nothing moving after the end.
THEOREM RefinesLifecycle == Spec => ImplementsLifecycle
<1>1. Init => Lifecycle!Init /\ AllApart
  BY DEF Init, NoDoc, Exists, AllApart, Lifecycle!Init
<1>2. Spec => []AllApart
  <2>1. Init => AllApart
    BY <1>1
  <2> QED BY <2>1, StepApart, Invariance, PTL DEF Spec
<1>3. IInv /\ AllApart /\ [Next]_vars => [Lifecycle!Next]_(Lifecycle!vars)
  BY StepRefines
<1> QED BY <1>1, <1>2, <1>3, Invariance, PTL DEF Spec, ImplementsLifecycle, Lifecycle!Spec

-----------------------------------------------------------------------------
(* What people are told and shown. *)

\* Nothing has happened yet on the levels the chain has not come to.
Unreached(d) ==
  \A l \in Levels : l > d.current =>
    /\ d.level[l] \notin {"pending"} \cup Decided
    /\ \A u \in Users : d.slot[l][u] \notin Decided

\* Nobody decides on their own request, nor on two levels of one.
OwnChain(d) ==
  /\ \A l \in Levels : d.slot[l][d.requester] = "none"
  /\ \A u \in Users : \A l, m \in Levels :
       d.slot[l][u] # "none" /\ d.slot[m][u] # "none" => l = m

Ordered(d) == Unreached(d) /\ OwnChain(d)

\* What a handler in flight read was pending, and the request has not gone back since.
ReadOnce(h) ==
  handlers[h] # Idle =>
    /\ Shape(handlers[h].before)
    /\ Unreached(handlers[h].before)
    /\ handlers[h].before.status = "pending"
    /\ handlers[h].before.current <= docs[handlers[h].req].current

NewsOf(h, r) == news[h] # Nothing /\ news[h].req = r

\* Nothing is said of a request that does not exist.
QuietBefore(r) ==
  ~Exists(r) =>
    /\ refetch[r] = {} /\ desk[r] = {} /\ heard[r] = {}
    /\ \A h \in Handlers : ~NewsOf(h, r)

\* A signal that makes the client of u read r again is on its way, or was lost.
Coming(r, u) ==
  \/ u \in refetch[r]
  \/ lossy[r]
  \/ \E h \in Handlers :
       NewsOf(h, r) /\ (u \in news[h].next \/ (news[h].stage = "emit" /\ u \in news[h].to))

\* Whoever's client is out of date has a signal coming.
DeskFollows(r) ==
  \A u \in Users : (u \in desk[r] <=> IsTurnOf(docs[r], u)) \/ Coming(r, u)

\* Nobody waits for the second half of an announcement that has none.
NoSecondHalf(h) == news[h].stage = "emit" /\ news[h].say = "none" => news[h].next = {}

\* The outcome that is pushed, or about to be, is the one the request has; and that one
\* has been pushed, or is about to be, or was lost.
OutcomeFollows(r) ==
  /\ heard[r] \subseteq {docs[r].status}
  /\ \A h \in Handlers : NewsOf(h, r) /\ news[h].say \in Decided => news[h].say = docs[r].status
  /\ docs[r].status \in Decided =>
       heard[r] # {} \/ lossy[r] \/ \E h \in Handlers : NewsOf(h, r) /\ news[h].say = docs[r].status

\* What NobodyToldEarly says of one request.
ToldInTime(r) ==
  /\ refetch[r] \subseteq Touched(docs[r])
  /\ \A h \in Handlers : NewsOf(h, r) =>
       /\ news[h].next \subseteq Touched(docs[r])
       /\ news[h].stage = "emit" => news[h].to \subseteq Touched(docs[r])

\* The inductive invariant.
SigInv ==
  /\ IInv
  /\ SigTypeOK
  /\ \A r \in Requests : Exists(r) => Ordered(docs[r])
  /\ \A h \in Handlers : ReadOnce(h) /\ NoSecondHalf(h)
  /\ \A r \in Requests : QuietBefore(r)
  /\ \A r \in Requests : Exists(r) => ToldInTime(r) /\ DeskFollows(r) /\ OutcomeFollows(r)

-----------------------------------------------------------------------------
(* Chains: what a plan does to the order and the audience of a request. *)

\* Everybody a request has come to is on a level it has come to.
LEMMA AudienceIsTouched ==
  ASSUME NEW d \in Doc, Unreached(d)
  PROVE  Audience(d) \subseteq Touched(d)
<1> SUFFICES ASSUME NEW u \in Users, HasReached(d, u) PROVE u \in Touched(d)
  BY DEF Audience, Touched
<1>1. PICK l \in Levels : u \in On(d, l) /\ (d.level[l] \in {"pending"} \cup Decided
                                              \/ d.slot[l][u] \in Decided)
  BY DEF HasReached
<1>2. ~(l > d.current)
  BY <1>1 DEF Unreached
<1>3. l \in 1..d.current \cap Levels
  BY <1>2, LevelsAreNat DEF Doc, Levels
<1> QED BY <1>1, <1>3 DEF Touched

\* A chain that stays the same touches more people as it goes on.
LEMMA TouchedGrows ==
  ASSUME NEW d \in Doc, NEW e \in Doc, SameChain(e, d), d.current <= e.current
  PROVE  Touched(d) \subseteq Touched(e)
<1>1. \A l \in Levels : On(d, l) = On(e, l)
  BY DEF SameChain, On
<1>2. 1..d.current \cap Levels \subseteq 1..e.current \cap Levels
  BY DEF Doc
<1>3. d.requester = e.requester
  BY DEF SameChain
<1> QED BY <1>1, <1>2, <1>3 DEF Touched

\* Whoever's turn it is has been reached.
LEMMA TurnIsReached ==
  ASSUME NEW d \in Doc, Shape(d), NEW u \in Users, IsTurnOf(d, u)
  PROVE  HasReached(d, u)
<1>1. d.current \in Levels /\ d.level[d.current] = "pending" /\ d.slot[d.current][u] = "pending"
  BY DEF IsTurnOf, Shape
<1> QED BY <1>1 DEF HasReached, On

\* Nobody is moved along a chain, so nobody comes to be on it twice.
LEMMA OwnChainStays ==
  ASSUME NEW d \in Doc, NEW e \in Doc, SameChain(e, d), OwnChain(d)
  PROVE  OwnChain(e)
<1>1. d.requester = e.requester /\ d.requester \in Users
  BY DEF SameChain, Doc
<1> QED BY <1>1 DEF OwnChain, SameChain

\* What a decision on d leaves, e, owes to the people on it.
Announced(d, e) ==
  /\ Unreached(e)
  /\ d.current <= e.current
  /\ e.status \in {"pending"} \cup Decided
  /\ \A v \in Users : IsTurnOf(d, v) => HasReached(e, v)

\* After a reject the later levels are as untouched as before, and everybody on the
\* level that was rejected is in the audience.
LEMMA RejectIsAnnounced ==
  ASSUME NEW d \in Doc, Shape(d), NEW u \in Users, IsTurnOf(d, u)
  PROVE  Announced(d, Apply(d, RejectSet(d, u)))
<1> DEFINE e == Apply(d, RejectSet(d, u))
<1>1. RejectSet(d, u) \in Set
  BY DecisionSetType, "reject" \in {"approve", "reject"} DEF DecisionSet
<1>2. e \in Doc /\ e.status = "rejected" /\ e.current = d.current
  BY <1>1, ApplyFields DEF RejectSet, Put, Keep
<1>3. \A l \in Levels : e.level[l] = IF l = d.current THEN "rejected"
                                     ELSE IF l \in d.current + 1 .. d.n THEN "skipped"
                                     ELSE d.level[l]
  BY <1>1, ApplyFields DEF RejectSet, Put, Keep
<1>4. \A l \in Levels : \A v \in Users :
        e.slot[l][v] = IF l = d.current /\ v = u THEN "rejected"
                       ELSE IF \/ l = d.current /\ v \in StillPending(d, u)
                               \/ l > d.current /\ v \in On(d, l)
                            THEN "skipped" ELSE d.slot[l][v]
  BY <1>1, ApplyFields DEF RejectSet, Put, Keep
<1>5. /\ d.current \in Levels /\ d.n \in Levels /\ d.current \in Nat /\ d.n \in Nat
      /\ \A l \in Levels : l \in Nat
  BY LevelsAreNat DEF Shape, IsTurnOf, Doc
<1> HIDE DEF e
<1>6. Unreached(e)
  <2> SUFFICES ASSUME NEW l \in Levels, l > d.current
               PROVE  /\ e.level[l] \notin {"pending"} \cup Decided
                      /\ \A v \in Users : e.slot[l][v] \notin Decided
    BY <1>2 DEF Unreached
  <2>1. l > d.n => d.level[l] = "none" /\ \A v \in Users : d.slot[l][v] = "none"
    BY DEF Shape
  <2>2. l <= d.n => e.level[l] = "skipped"
    BY <1>3, <1>5
  <2>3. \A v \in Users : d.slot[l][v] = "none" \/ v \in On(d, l)
    BY DEF On
  <2>4. \A v \in Users : e.slot[l][v] \in {"none", "skipped"}
    BY <2>3, <1>4, <1>5
  <2>5. e.level[l] \in {"none", "skipped"}
    <3>1. l > d.n \/ l <= d.n
      BY <1>5
    <3>2. CASE l > d.n
      <4>1. l # d.current /\ l \notin d.current + 1 .. d.n
        BY <3>2, <1>5
      <4> QED BY <4>1, <3>2, <2>1, <1>3
    <3> QED BY <3>1, <3>2, <2>2
  <2> QED BY <2>4, <2>5 DEF Decided
<1>7. ASSUME NEW v \in Users, IsTurnOf(d, v) PROVE HasReached(e, v)
  <2>1. d.slot[d.current][v] = "pending"
    BY <1>7 DEF IsTurnOf
  <2>2. e.slot[d.current][v] # "none" /\ e.level[d.current] = "rejected"
    BY <2>1, <1>3, <1>4, <1>5
  <2> QED BY <2>2, <1>5 DEF HasReached, On, Decided
<1>8. d.current <= e.current /\ e.status \in {"pending"} \cup Decided
  BY <1>2, <1>5 DEF Decided
<1>9. Announced(d, e)
  BY <1>6, <1>7, <1>8 DEF Announced
<1> QED BY <1>9 DEF e

\* An approve that leaves its level open touches no other level.
LEMMA SlotIsAnnounced ==
  ASSUME NEW d \in Doc, Shape(d), Unreached(d), NEW u \in Users, IsTurnOf(d, u)
  PROVE  Announced(d, Apply(d, ApproveSlotSet(d, u)))
<1> DEFINE e == Apply(d, ApproveSlotSet(d, u))
<1>1. ApproveSlotSet(d, u) \in Set
  BY ChainConstants DEF ApproveSlotSet, Set, Doc, Statuses, Final, Levels, Keep
<1>2. e \in Doc /\ e.status = d.status /\ e.current = d.current
  BY <1>1, ApplyFields DEF ApproveSlotSet, Put
<1>3. \A l \in Levels : e.level[l] = d.level[l]
  BY <1>1, ApplyFields DEF ApproveSlotSet, Put
<1>4. \A l \in Levels : \A v \in Users :
        e.slot[l][v] = IF l = d.current /\ v = u THEN "approved" ELSE d.slot[l][v]
  BY <1>1, ApplyFields DEF ApproveSlotSet, Put, Keep
<1>5. /\ d.current \in Levels /\ d.current \in Nat /\ d.status = "pending"
      /\ d.level[d.current] = "pending"
  BY LevelsAreNat DEF Shape, IsTurnOf
<1> HIDE DEF e
<1>6. Unreached(e)
  BY <1>2, <1>3, <1>4, <1>5 DEF Unreached
<1>7. \A v \in Users : IsTurnOf(d, v) => HasReached(e, v)
  BY <1>3, <1>4, <1>5 DEF IsTurnOf, HasReached, On
<1>8. d.current <= e.current /\ e.status \in {"pending"} \cup Decided
  BY <1>2, <1>5
<1>9. Announced(d, e)
  BY <1>6, <1>7, <1>8 DEF Announced
<1> QED BY <1>9 DEF e

\* An approve that closes its level reaches the next one and none beyond.
LEMMA CloseIsAnnounced ==
  ASSUME NEW d \in Doc, Shape(d), Unreached(d), NEW u \in Users, IsTurnOf(d, u)
  PROVE  LET e == Apply(d, CloseLevelSet(d, u)) IN
         Announced(d, e) /\ e.current = d.current + 1
<1> DEFINE e == Apply(d, CloseLevelSet(d, u))
<1>1. CloseLevelSet(d, u) \in Set
  BY ChainConstants DEF CloseLevelSet, Set, Doc, Statuses, Final, Levels, Keep, IsTurnOf
<1>5. /\ d.current \in Levels /\ d.current \in Nat /\ d.n \in Levels /\ d.status = "pending"
      /\ d.current <= d.n /\ \A l \in Levels : l \in Nat
  BY LevelsAreNat DEF Shape, IsTurnOf, Doc
<1>2. /\ e \in Doc /\ e.current = d.current + 1
      /\ e.status = (IF d.current = d.n THEN "approved" ELSE d.status)
  <2>1. /\ e \in Doc
        /\ e.status = Put(d.status, CloseLevelSet(d, u).status)
        /\ e.current = IF CloseLevelSet(d, u).current = 0 THEN d.current
                       ELSE CloseLevelSet(d, u).current
    BY <1>1, ApplyFields
  <2>2. /\ CloseLevelSet(d, u).status = IF d.current = d.n THEN "approved" ELSE Keep
        /\ CloseLevelSet(d, u).current = d.current + 1
    BY DEF CloseLevelSet
  <2>3. d.current + 1 # 0
    BY <1>5
  <2> HIDE DEF e
  <2> QED BY <2>1, <2>2, <2>3 DEF Put, Keep
<1>3. \A l \in Levels : e.level[l] = IF l = d.current THEN "approved"
                                     ELSE IF l = d.current + 1 /\ l <= d.n THEN "pending"
                                     ELSE d.level[l]
  BY <1>1, ApplyFields DEF CloseLevelSet, Put, Keep
<1>4. \A l \in Levels : \A v \in Users :
        e.slot[l][v] = IF l = d.current /\ v = u THEN "approved"
                       ELSE IF l = d.current /\ v \in StillPending(d, u) THEN "skipped"
                       ELSE IF l = d.current + 1 /\ v \in On(d, l) THEN "pending"
                       ELSE d.slot[l][v]
  BY <1>1, ApplyFields DEF CloseLevelSet, Put, Keep
<1> HIDE DEF e
<1>6. Unreached(e)
  <2> SUFFICES ASSUME NEW l \in Levels, l > d.current + 1
               PROVE  /\ e.level[l] \notin {"pending"} \cup Decided
                      /\ \A v \in Users : e.slot[l][v] \notin Decided
    BY <1>2 DEF Unreached
  <2>1. e.level[l] = d.level[l] /\ \A v \in Users : e.slot[l][v] = d.slot[l][v]
    BY <1>3, <1>4, <1>5
  <2>2. l > d.current
    <3>1. l \in Nat /\ d.current \in Nat
      BY <1>5
    <3> QED BY <3>1
  <2> QED BY <2>1, <2>2 DEF Unreached
<1>7. ASSUME NEW v \in Users, IsTurnOf(d, v) PROVE HasReached(e, v)
  <2>1. d.slot[d.current][v] = "pending"
    BY <1>7 DEF IsTurnOf
  <2>2. e.slot[d.current][v] # "none" /\ e.level[d.current] = "approved"
    BY <2>1, <1>3, <1>4, <1>5
  <2> QED BY <2>2, <1>5 DEF HasReached, On, Decided
<1>8. d.current <= e.current /\ e.status \in {"pending"} \cup Decided
  BY <1>2, <1>5 DEF Decided
<1>9. Announced(d, e)
  BY <1>6, <1>7, <1>8 DEF Announced
<1> QED BY <1>2, <1>9 DEF e

\* All three together, and the people announceDecision tells next are on the level the
\* request has just come to.
LEMMA DecisionIsAnnounced ==
  ASSUME NEW d \in Doc, Shape(d), Unreached(d), NEW u \in Users,
         NEW action \in {"approve", "reject"}, IsTurnOf(d, u)
  PROVE  LET e == Apply(d, DecisionSet(d, u, action)) IN
         Announced(d, e) /\ NextApprovers(d, u, action) \subseteq Touched(e)
<1> DEFINE e == Apply(d, DecisionSet(d, u, action))
<1>1. Announced(d, e)
  BY RejectIsAnnounced, SlotIsAnnounced, CloseIsAnnounced DEF DecisionSet
<1>2. CASE action = "approve" /\ Closes(d, u) /\ d.current < d.n
  <2>1. e.current = d.current + 1
    BY <1>2, CloseIsAnnounced DEF DecisionSet
  <2>2. SameChain(e, d)
    BY DecisionIsSafe DEF Safely
  <2>3. d.current + 1 \in Levels /\ d.current + 1 \in 1..e.current
    BY <1>2, <2>1, LevelsAreNat DEF Doc, Levels
  <2>4. On(d, d.current + 1) = On(e, d.current + 1)
    BY <2>2, <2>3 DEF SameChain, On
  <2> HIDE DEF e
  <2>5. NextApprovers(d, u, action) \subseteq Touched(e)
    BY <1>2, <2>3, <2>4 DEF NextApprovers, Touched
  <2> QED BY <1>1, <2>5 DEF e
<1>3. CASE ~(action = "approve" /\ Closes(d, u) /\ d.current < d.n)
  BY <1>1, <1>3 DEF NextApprovers
<1> QED BY <1>2, <1>3

\* A withdrawal reaches nobody new; and if the request is still on the level it was read
\* on, whoever's turn it was is in the audience of the reading.
LEMMA CancelIsAnnounced ==
  ASSUME NEW d \in Doc, NEW b \in Doc, Unreached(d), SameChain(d, b), Shape(b),
         b.status = "pending"
  PROVE  LET e == Apply(d, CancelSet(b)) IN
         /\ Unreached(e) /\ e.current = d.current /\ e.status = "cancelled"
         /\ \A v \in Users : d.current = b.current /\ IsTurnOf(d, v) => HasReached(b, v)
<1> DEFINE e == Apply(d, CancelSet(b))
<1>1. CancelSet(b) \in Set
  BY CancelSetType
<1>2. e \in Doc /\ e.status = "cancelled" /\ e.current = d.current
  BY <1>1, ApplyFields DEF CancelSet, Put, Keep
<1>3. \A l \in Levels : e.level[l] = IF b.level[l] \in Open THEN "skipped" ELSE d.level[l]
  BY <1>1, ApplyFields DEF CancelSet, Put, Keep
<1>4. \A l \in Levels : \A v \in Users :
        e.slot[l][v] = IF b.slot[l][v] \in Open THEN "skipped" ELSE d.slot[l][v]
  BY <1>1, ApplyFields DEF CancelSet, Put, Keep
<1> HIDE DEF e
<1>5. Unreached(e)
  BY <1>2, <1>3, <1>4 DEF Unreached, Decided
<1>6. ASSUME NEW v \in Users, d.current = b.current, IsTurnOf(d, v) PROVE HasReached(b, v)
  <2>1. b.current \in Levels /\ b.level[b.current] = "pending" /\ d.slot[b.current][v] = "pending"
    BY <1>6 DEF IsTurnOf, Shape
  <2>2. v \in On(b, b.current)
    BY <2>1 DEF SameChain, On
  <2> QED BY <2>1, <2>2 DEF HasReached
<1> QED BY <1>2, <1>5, <1>6 DEF e

-----------------------------------------------------------------------------
(* New chains, also those of the role hierarchy. *)

\* A new chain is at its first level, and has nobody twice if the people asked for are not.
LEMMA NewDocOrdered ==
  ASSUME NEW u \in Users, NEW k \in Levels, NEW who \in [1..k -> SUBSET Users],
         NEW mode \in [1..k -> Modes],
         \A l \in 1..k : u \notin who[l],
         \A l, m \in 1..k : l # m => who[l] \cap who[m] = {}
  PROVE  Ordered(NewDoc(u, k, who, mode))
<1> DEFINE d == NewDoc(u, k, who, mode)
<1>1. /\ d.requester = u /\ d.current = 1
      /\ \A l \in Levels : d.level[l] = IF l <= k THEN IF l = 1 THEN "pending" ELSE "waiting" ELSE "none"
      /\ \A l \in Levels : \A v \in Users :
           d.slot[l][v] = IF l <= k /\ v \in who[l] THEN IF l = 1 THEN "pending" ELSE "waiting"
                          ELSE "none"
  BY DEF NewDoc
<1> HIDE DEF d
<1>2. Unreached(d)
  <2> SUFFICES ASSUME NEW l \in Levels, l > 1
               PROVE  /\ d.level[l] \notin {"pending"} \cup Decided
                      /\ \A v \in Users : d.slot[l][v] \notin Decided
    BY <1>1 DEF Unreached
  <2>1. l # 1
    BY LevelsAreNat
  <2>2. d.level[l] \in {"waiting", "none"} /\ \A v \in Users : d.slot[l][v] \in {"waiting", "none"}
    BY <1>1, <2>1
  <2> QED BY <2>2 DEF Decided
<1>3. \A l \in Levels : l <= k => l \in 1..k
  BY LevelsAreNat DEF Levels
<1>4. \A l \in Levels : d.slot[l][u] = "none"
  BY <1>1, <1>3
<1>5. ASSUME NEW v \in Users, NEW l \in Levels, NEW m \in Levels,
             d.slot[l][v] # "none", d.slot[m][v] # "none"
      PROVE  l = m
  <2>1. l \in 1..k /\ m \in 1..k /\ v \in who[l] /\ v \in who[m]
    BY <1>1, <1>3, <1>5
  <2> QED BY <2>1
<1>6. OwnChain(d)
  BY <1>1, <1>4, <1>5 DEF OwnChain
<1> QED BY <1>2, <1>6 DEF Ordered, d

\* People who are put on the steps they are candidates for make an acceptable chain.
LEMMA HierarchyIsAcceptable ==
  ASSUME NEW u \in Users, NEW k, k = Cardinality(HierarchyFor(u)),
         NEW who \in [1..k -> {{p} : p \in Users}],
         \A l \in 1..k : who[l] \subseteq Candidates(u, StepRank(u, l))
  PROVE  Acceptable(u, who)
<1>1. DOMAIN who = 1..k
  OBVIOUS
<1>2. ASSUME NEW l \in 1..k
      PROVE  /\ who[l] # {} /\ Cardinality(who[l]) <= MaxPerLevel
             /\ u \notin who[l] /\ who[l] \subseteq Pool(u)
  <2>1. PICK p \in Users : who[l] = {p}
    OBVIOUS
  <2>2. Cardinality(who[l]) = 1
    BY <2>1, FS_Singleton
  <2> QED BY <2>1, <2>2, ChainConstants DEF Candidates, Pool
<1>3. ASSUME NEW l \in 1..k, NEW m \in 1..k, l # m
      PROVE  who[l] \cap who[m] = {}
  <2> SUFFICES ASSUME NEW p, p \in who[l], p \in who[m] PROVE FALSE
    OBVIOUS
  <2>1. RankOf[p] = StepRank(u, l) /\ RankOf[p] = StepRank(u, m)
    BY DEF Candidates
  <2> QED BY <2>1, <1>3, StepsDiffer
<1> QED BY <1>1, <1>2, <1>3 DEF Acceptable

\* What the form suggests, when it has somebody for every step, is a chain planLevels
\* accepts: for any people, ranks and branches.
THEOREM SuggestionsWork == SuggestionsAreAccepted
<1> SUFFICES ASSUME NEW u \in Users, \A l \in DOMAIN SuggestedLevels(u) : SuggestedLevels(u)[l] # {}
             PROVE  Acceptable(u, SuggestedLevels(u))
  BY DEF SuggestionsAreAccepted
<1> DEFINE k == Cardinality(HierarchyFor(u))
           who == SuggestedLevels(u)
<1>1. DOMAIN who = 1..k
  BY DEF SuggestedLevels
<1>2. ASSUME NEW l \in 1..k
      PROVE  who[l] \in {{p} : p \in Users} /\ who[l] \subseteq Candidates(u, StepRank(u, l))
  <2> DEFINE C == Candidates(u, StepRank(u, l))
  <2>1. who[l] = IF Cardinality(C) = 1 THEN C ELSE {}
    BY DEF SuggestedLevels
  <2>2. who[l] # {}
    BY <1>1
  <2>3. C \subseteq Users
    BY ChainConstants DEF Candidates, Pool
  <2>4. IsFiniteSet(C)
    BY <2>3, ChainConstants, FS_Subset
  <2> HIDE DEF C
  <2>5. Cardinality(C) = 1 /\ who[l] = C
    BY <2>1, <2>2
  <2>6. PICK p : C = {p}
    BY <2>4, <2>5, FS_Singleton
  <2> QED BY <2>3, <2>5, <2>6 DEF C
<1>3. who = [l \in 1..k |-> who[l]]
  BY DEF SuggestedLevels
<1> HIDE DEF who, k
<1>4. who \in [1..k -> {{p} : p \in Users}]
  BY <1>2, <1>3
<1>5. Acceptable(u, who)
  BY <1>2, <1>4, HierarchyIsAcceptable DEF k
<1> QED BY <1>5 DEF who

\* What create() stores, whichever form it came from.
LEMMA CreatedOrdered ==
  ASSUME TypeOK, NEW r \in Requests, NEW u \in Users, Create(r, u) \/ CreateByRole(r, u)
  PROVE  /\ docs[r] = NoDoc /\ handlers' = handlers
         /\ \A q \in Requests : q # r => docs'[q] = docs[q]
         /\ docs'[r] \in Doc /\ Ordered(docs'[r])
         /\ docs'[r].status = "pending" /\ docs'[r].current = 1
<1>1. ASSUME NEW k \in Levels, NEW who \in [1..k -> SUBSET Users], NEW mode \in [1..k -> Modes],
             Acceptable(u, who), docs' = [docs EXCEPT ![r] = NewDoc(u, k, who, mode)]
      PROVE  /\ \A q \in Requests : q # r => docs'[q] = docs[q]
             /\ docs'[r] \in Doc /\ Ordered(docs'[r])
             /\ docs'[r].status = "pending" /\ docs'[r].current = 1
  <2> DEFINE d == NewDoc(u, k, who, mode)
  <2>1. DOMAIN who = 1..k
    OBVIOUS
  <2>2. /\ \A l \in 1..k : who[l] # {} /\ u \notin who[l]
        /\ \A l, m \in 1..k : l # m => who[l] \cap who[m] = {}
    BY <1>1, <2>1 DEF Acceptable
  <2>3. d \in Doc /\ Ordered(d)
    BY <2>2, NewDocShape, NewDocOrdered
  <2>4. d.status = "pending" /\ d.current = 1
    BY DEF NewDoc
  <2> HIDE DEF d
  <2>5. docs'[r] = d /\ \A q \in Requests : q # r => docs'[q] = docs[q]
    BY <1>1 DEF TypeOK, d
  <2> QED BY <2>3, <2>4, <2>5
<1>2. CASE Create(r, u)
  <2>1. PICK k \in Levels : \E who \in [1..k -> SUBSET Users], mode \in [1..k -> Modes] :
               /\ Acceptable(u, who)
               /\ docs' = [docs EXCEPT ![r] = NewDoc(u, k, who, mode)]
    BY <1>2 DEF Create
  <2> QED BY <2>1, <1>1, <1>2 DEF Create
<1>3. CASE CreateByRole(r, u)
  <2> DEFINE k == Cardinality(HierarchyFor(u))
             mode == [l \in 1..k |-> "all"]
             Ones == {{p} : p \in Users}
  <2>1. k \in Levels /\ mode \in [1..k -> Modes]
    BY <1>3 DEF CreateByRole, Modes
  <2>2. PICK who \in RolePicks(u) : docs' = [docs EXCEPT ![r] = NewDoc(u, k, who, mode)]
    BY <1>3 DEF CreateByRole
  <2>3. {{p} : p \in CanAct} \subseteq Ones /\ Ones \subseteq SUBSET Users
    BY ChainConstants
  <2>4. /\ who \in [1..k -> {{p} : p \in CanAct}]
        /\ \A l \in DOMAIN who : who[l] \subseteq Candidates(u, StepRank(u, l))
    BY <2>2 DEF RolePicks
  <2>5. k = Cardinality(HierarchyFor(u))
    OBVIOUS
  <2> HIDE DEF k, mode, Ones
  <2>6. who \in [1..k -> Ones] /\ who \in [1..k -> SUBSET Users] /\ DOMAIN who = 1..k
    BY <2>3, <2>4
  <2>7. Acceptable(u, who)
    BY <2>4, <2>5, <2>6, HierarchyIsAcceptable DEF Ones
  <2> QED BY <2>1, <2>2, <2>6, <2>7, <1>1, <1>3 DEF CreateByRole
<1> QED BY <1>2, <1>3 DEF Create, CreateByRole

-----------------------------------------------------------------------------
(* Every step keeps the invariant. *)

\* What the type of an announcement says of its fields.
LEMMA NewsFields ==
  ASSUME SigTypeOK, NEW h \in Handlers, news[h] # Nothing
  PROVE  /\ news[h] \in Announcement /\ news[h].stage \in {"emit", "tell"}
         /\ news[h].req \in Requests /\ news[h].next \in SUBSET Users /\ news[h].say \in Outcome
         /\ news[h].stage = "emit" => news[h].to \in SUBSET Users
BY DEF SigTypeOK, Announcement, Nothing

\* A write that reaches only people the request has touched by then, and is announced to
\* everybody whose turn it starts or ends.
LEMMA SafeAnnouncement ==
  ASSUME SigInv, IInv', NEW h \in Handlers, NEW r \in Requests,
         NEW to \in SUBSET Users, NEW next \in SUBSET Users, NEW say \in Outcome,
         Leave(h, r, to, next, say),
         \A q \in Requests : q # r => docs'[q] = docs[q],
         docs'[r] \in Doc, Ordered(docs'[r]),
         \A g \in Handlers : handlers'[g] = handlers[g] \/ handlers'[g] = Idle,
         lossy' \in [Requests -> BOOLEAN], \A q \in Requests : lossy[q] => lossy'[q],
         to \cup next \subseteq Touched(docs'[r]),
         say = "none" => next = {},
         Exists(r) => /\ docs[r].status = "pending" /\ docs[r].current <= docs'[r].current
                      /\ SameChain(docs'[r], docs[r]),
         \A u \in Users : IsTurnOf(docs'[r], u) \/ (Exists(r) /\ IsTurnOf(docs[r], u)) =>
                            u \in to \cup next \/ lossy'[r],
         say \in Decided => docs'[r].status = say,
         docs'[r].status \in Decided => say = docs'[r].status
  PROVE  SigInv'
<1> DEFINE e == [stage |-> "emit", req |-> r, to |-> to, next |-> next, say |-> say]
<1>1. /\ TypeOK /\ SigTypeOK /\ docs \in [Requests -> Doc \cup {NoDoc}]
      /\ news \in [Handlers -> {Nothing} \cup Announcement]
  BY DEF SigInv, SigTypeOK, TypeOK
<1>2. /\ news[h] = Nothing /\ news'[h] = e
      /\ \A g \in Handlers : g # h => news'[g] = news[g]
      /\ refetch' = refetch /\ desk' = desk /\ heard' = heard
  BY <1>1 DEF Leave
<1>3. e \in Announcement /\ e # Nothing
  BY DEF Announcement, Nothing
<1>4. SigTypeOK'
  <2>1. news' \in [Handlers -> {Nothing} \cup Announcement]
    BY <1>1, <1>3 DEF Leave
  <2> QED BY <1>2, <2>1 DEF SigInv, SigTypeOK, IInv
<1>5. \A g \in Handlers : \A q \in Requests : NewsOf(g, q) => g # h
  BY <1>2 DEF NewsOf
<1>6. \A g \in Handlers : \A q \in Requests :
        (news'[g] # Nothing /\ news'[g].req = q) <=> (NewsOf(g, q) \/ (g = h /\ q = r))
  BY <1>2, <1>3 DEF NewsOf
<1>7. e.to = to /\ e.next = next /\ e.say = say /\ e.stage = "emit" /\ e.req = r
  OBVIOUS
<1> HIDE DEF e
<1>8. Exists(r)'
  BY DEF Exists, Doc, Final
<1>9. \A q \in Requests : q # r => (Exists(q)' <=> Exists(q))
  BY DEF Exists
<1>10. \A q \in Requests : Exists(q)' => Ordered(docs'[q])
  BY <1>9 DEF SigInv
<1>11. ASSUME NEW g \in Handlers PROVE ReadOnce(g)' /\ NoSecondHalf(g)'
  <2>1. NoSecondHalf(g)'
    BY <1>2, <1>7 DEF SigInv, NoSecondHalf
  <2>2. ASSUME handlers'[g] # Idle PROVE ReadOnce(g)'
    <3>1. handlers'[g] = handlers[g] /\ handlers[g] # Idle
      BY <2>2
    <3> DEFINE q == handlers[g].req
               b == handlers[g].before
    <3>2. q \in Requests /\ b \in Doc /\ Exists(q)
      BY <1>1, <3>1, InFlight DEF SigInv, IInv, Behind
    <3>3. Shape(b) /\ Unreached(b) /\ b.status = "pending" /\ b.current <= docs[q].current
      BY <3>1 DEF SigInv, ReadOnce
    <3>4. docs[q] \in Doc
      BY <1>1, <3>2, StoredIsDoc
    <3>5. b.current <= docs'[q].current
      <4>1. b.current \in Int /\ docs[q].current \in Int /\ docs'[r].current \in Int
        BY <3>2, <3>4 DEF Doc
      <4>2. CASE q = r
        BY <3>2, <3>3, <4>1, <4>2
      <4>3. CASE q # r
        BY <3>2, <3>3, <4>3
      <4> QED BY <4>2, <4>3
    <3> QED BY <3>1, <3>3, <3>5 DEF ReadOnce
  <2> QED BY <2>1, <2>2 DEF ReadOnce
<1>12. \A q \in Requests : QuietBefore(q)'
  BY <1>2, <1>6, <1>8, <1>9 DEF SigInv, QuietBefore, NewsOf
<1>13. ASSUME NEW q \in Requests, q # r, Exists(q)'
       PROVE  ToldInTime(q)' /\ DeskFollows(q)' /\ OutcomeFollows(q)'
  <2>1. /\ Exists(q) /\ docs'[q] = docs[q]
        /\ ToldInTime(q) /\ DeskFollows(q) /\ OutcomeFollows(q)
    BY <1>9, <1>13 DEF SigInv
  <2>2. \A g \in Handlers : (news'[g] # Nothing /\ news'[g].req = q) <=> NewsOf(g, q)
    BY <1>6, <1>13
  <2>3. \A g \in Handlers : NewsOf(g, q) => news'[g] = news[g]
    BY <1>2, <1>5
  <2>4. ToldInTime(q)'
    BY <1>2, <2>1, <2>2, <2>3 DEF ToldInTime, NewsOf
  <2>5. \A u \in Users : Coming(q, u) => Coming(q, u)'
    BY <1>2, <2>2, <2>3 DEF Coming, NewsOf
  <2>6. DeskFollows(q)'
    BY <1>2, <2>1, <2>5 DEF DeskFollows
  <2>7. OutcomeFollows(q)'
    BY <1>2, <2>1, <2>2, <2>3 DEF OutcomeFollows, NewsOf
  <2> QED BY <2>4, <2>6, <2>7
<1>14. Exists(r) => docs[r] \in Doc /\ ToldInTime(r) /\ DeskFollows(r) /\ OutcomeFollows(r)
  BY <1>1, StoredIsDoc DEF SigInv
<1>15. ~Exists(r) => /\ refetch[r] = {} /\ desk[r] = {} /\ heard[r] = {}
                     /\ \A g \in Handlers : ~NewsOf(g, r)
  BY DEF SigInv, QuietBefore
<1>16. \A g \in Handlers : NewsOf(g, r) => news'[g] = news[g]
  BY <1>2, <1>5
<1>17. \A g \in Handlers : (news'[g] # Nothing /\ news'[g].req = r) => NewsOf(g, r) \/ g = h
  BY <1>6
<1>18. ToldInTime(r)'
  <2>1. Exists(r) => Touched(docs[r]) \subseteq Touched(docs'[r])
    BY <1>14, TouchedGrows
  <2>2. refetch[r] \subseteq Touched(docs'[r])
    BY <2>1, <1>14, <1>15 DEF ToldInTime
  <2>3. ASSUME NEW g \in Handlers, NewsOf(g, r)
        PROVE  /\ news'[g].next \subseteq Touched(docs'[r])
               /\ news'[g].stage = "emit" => news'[g].to \subseteq Touched(docs'[r])
    BY <2>1, <2>3, <1>14, <1>15, <1>16 DEF ToldInTime
  <2>4. ASSUME NEW g \in Handlers, news'[g] # Nothing, news'[g].req = r
        PROVE  /\ news'[g].next \subseteq Touched(docs'[r])
               /\ news'[g].stage = "emit" => news'[g].to \subseteq Touched(docs'[r])
    BY <2>3, <2>4, <1>2, <1>7, <1>17
  <2> QED BY <2>2, <2>4, <1>2 DEF ToldInTime, NewsOf
<1>19. DeskFollows(r)'
  <2> SUFFICES ASSUME NEW u \in Users
               PROVE  (u \in desk'[r] <=> IsTurnOf(docs'[r], u)) \/ Coming(r, u)'
    BY DEF DeskFollows
  <2>1. CASE u \in to \cup next \/ lossy'[r]
    <3>1. (news'[h] # Nothing /\ news'[h].req = r)
          /\ (u \in to \cup next => u \in news'[h].next \/ (news'[h].stage = "emit" /\ u \in news'[h].to))
      BY <1>2, <1>3, <1>7
    <3> QED BY <2>1, <3>1 DEF Coming, NewsOf
  <2>2. CASE ~(u \in to \cup next \/ lossy'[r])
    <3>1. ~IsTurnOf(docs'[r], u) /\ ~(Exists(r) /\ IsTurnOf(docs[r], u))
      BY <2>2
    <3>2. ASSUME u \in desk[r] PROVE Coming(r, u)'
      <4>1. Exists(r) /\ Coming(r, u)
        BY <3>1, <3>2, <1>14, <1>15 DEF DeskFollows
      <4>2. ~lossy[r]
        BY <2>2
      <4>3. \A g \in Handlers : NewsOf(g, r) => news'[g] # Nothing /\ news'[g].req = r
        BY <1>6
      <4> QED BY <4>1, <4>2, <4>3, <1>2, <1>16 DEF Coming, NewsOf
    <3> QED BY <3>1, <3>2, <1>2
  <2> QED BY <2>1, <2>2
<1>20. OutcomeFollows(r)'
  <2>1. heard[r] = {}
    <3>1. Exists(r) => heard[r] \subseteq {"pending"}
      BY <1>14 DEF OutcomeFollows
    <3>2. heard[r] \subseteq Decided
      BY <1>1 DEF SigTypeOK
    <3> QED BY <3>1, <3>2, <1>15 DEF Decided
  <2>2. \A g \in Handlers : NewsOf(g, r) => news[g].say \notin Decided
    BY <1>14, <1>15 DEF OutcomeFollows, Decided
  <2>3. \A g \in Handlers : (news'[g] # Nothing /\ news'[g].req = r) /\ news'[g].say \in Decided =>
          news'[g].say = docs'[r].status
    BY <2>2, <1>2, <1>7, <1>16, <1>17
  <2>4. (news'[h] # Nothing /\ news'[h].req = r) /\ (docs'[r].status \in Decided =>
          news'[h].say = docs'[r].status)
    BY <1>2, <1>3, <1>7
  <2> QED BY <2>1, <2>3, <2>4, <1>2 DEF OutcomeFollows, NewsOf
<1> QED BY <1>4, <1>10, <1>11, <1>12, <1>13, <1>18, <1>19, <1>20 DEF SigInv

\* Before the first request nobody has been told anything.
LEMMA InitSigInv == SigInit => SigInv
<1> SUFFICES ASSUME SigInit PROVE SigInv
  OBVIOUS
<1>1. IInv /\ \A r \in Requests : ~Exists(r)
  BY InitIInv DEF SigInit, Init, Exists, NoDoc
<1>2. SigTypeOK
  BY <1>1 DEF SigInit, SigTypeOK, IInv
<1>3. \A h \in Handlers : ReadOnce(h) /\ NoSecondHalf(h)
  BY DEF SigInit, Init, ReadOnce, NoSecondHalf, Nothing
<1>4. \A r \in Requests : QuietBefore(r)
  BY DEF SigInit, QuietBefore, NewsOf
<1> QED BY <1>1, <1>2, <1>3, <1>4 DEF SigInv

\* create() comes to the people of level 1, and tells them.
LEMMA CreateSafe ==
  ASSUME SigInv, IInv', NEW h \in Handlers, NEW r \in Requests, NEW u \in Users,
         SigCreate(h, r, u)
  PROVE  SigInv'
<1>1. /\ docs[r] = NoDoc /\ handlers' = handlers
      /\ \A q \in Requests : q # r => docs'[q] = docs[q]
      /\ docs'[r] \in Doc /\ Ordered(docs'[r])
      /\ docs'[r].status = "pending" /\ docs'[r].current = 1
  BY CreatedOrdered DEF SigCreate, SigInv, IInv
<1> DEFINE to == On(docs'[r], 1)
<1>2. Leave(h, r, to, {}, "none") /\ lossy' = lossy
  BY DEF SigCreate
<1>3. to \in SUBSET Users /\ to \subseteq Touched(docs'[r])
  <2>1. 1 \in 1..1 \cap Levels
    BY LevelsAreNat
  <2> QED BY <2>1, <1>1 DEF On, Touched
<1>4. \A v \in Users : IsTurnOf(docs'[r], v) => v \in to
  BY <1>1 DEF IsTurnOf, On
<1>5. ~Exists(r)
  BY <1>1 DEF Exists, NoDoc
<1>6. "none" \in Outcome /\ "none" \notin Decided /\ "pending" \notin Decided
  BY DEF Outcome, Decided
<1>7. lossy' \in [Requests -> BOOLEAN] /\ \A q \in Requests : lossy[q] => lossy'[q]
  BY <1>2 DEF SigInv, SigTypeOK
<1> HIDE DEF to
<1> QED BY <1>1, <1>2, <1>3, <1>4, <1>5, <1>6, <1>7, SafeAnnouncement

\* announceDecision: everybody the decision reaches or takes the request from is told,
\* and nobody beyond the level it has come to.
LEMMA DecisionSafe ==
  ASSUME SigInv, IInv', NEW h \in Handlers, SigWriteDecision(h)
  PROVE  SigInv'
<1> DEFINE w == handlers[h]
           r == w.req
           b == w.before
           d == docs[r]
           f == docs'[r]
           next == NextApprovers(b, w.user, w.action)
           to == Audience(f) \ next
           say == IF f.status \in Decided THEN f.status ELSE "progress"
<1>1. TypeOK /\ IInv /\ SigTypeOK
  BY DEF SigInv, IInv
<1>2. w \in Decisions /\ w # Idle /\ Unmoved(d, b)
  BY <1>1, InFlight DEF SigWriteDecision, WriteDecision, Idle
<1>3. /\ r \in Requests /\ b \in Doc /\ w.user \in Users /\ w.action \in {"approve", "reject"}
      /\ w.op = "decide"
  BY <1>2 DEF Decisions
<1>4. Exists(r) /\ SameChain(d, b) /\ IsTurnOf(b, w.user)
  BY <1>1, <1>2, <1>3 DEF IInv, Behind
<1>5. d \in Doc /\ Shape(d) /\ Ordered(d)
  BY <1>1, <1>3, <1>4, StoredIsDoc DEF IInv, SigInv
<1>6. IsTurnOf(d, w.user) /\ DecisionSet(b, w.user, w.action) = DecisionSet(d, w.user, w.action)
  BY <1>2, <1>3, <1>4, <1>5, SamePlan
<1>7. next = NextApprovers(d, w.user, w.action)
  <2>1. d.current = b.current /\ d.n = b.n /\ d.mode = b.mode /\ d.slot[d.current] = b.slot[b.current]
    BY <1>2, <1>4 DEF SameChain, Unmoved
  <2>2. Closes(d, w.user) = Closes(b, w.user)
    BY <2>1 DEF Closes, StillPending
  <2>3. b.current < b.n => On(d, b.current + 1) = On(b, b.current + 1)
    <3>1. b.current < b.n => b.current + 1 \in Levels
      BY <1>3, LevelsAreNat DEF Doc, Levels
    <3> QED BY <1>4, <3>1 DEF SameChain, On
  <2> QED BY <2>1, <2>2, <2>3 DEF NextApprovers
<1>8. f = Apply(d, DecisionSet(d, w.user, w.action)) /\ \A q \in Requests : q # r => docs'[q] = docs[q]
  BY <1>1, <1>3, <1>6 DEF SigWriteDecision, WriteDecision, TypeOK
<1>9. Announced(d, f) /\ next \subseteq Touched(f)
  BY <1>3, <1>5, <1>6, <1>7, <1>8, DecisionIsAnnounced DEF Ordered
<1>10. f \in Doc /\ Shape(f) /\ SameChain(f, d)
  BY <1>3, <1>5, <1>6, <1>8, DecisionIsSafe DEF Safely
<1>11. Ordered(f)
  BY <1>5, <1>9, <1>10, OwnChainStays DEF Ordered, Announced
<1>12. Leave(h, r, to, next, say) /\ lossy' = lossy
  BY DEF SigWriteDecision
<1>13. \A g \in Handlers : handlers'[g] = handlers[g] \/ handlers'[g] = Idle
  BY <1>1 DEF SigWriteDecision, WriteDecision, TypeOK
<1> HIDE DEF f, d, b
<1>14. next \in SUBSET Users
  BY <1>7 DEF NextApprovers, On
<1>15. to \in SUBSET Users /\ to \cup next \subseteq Touched(f)
  <2>1. Audience(f) \subseteq Users
    BY <1>10 DEF Audience, Doc
  <2> QED BY <2>1, <1>9, <1>10, <1>11, AudienceIsTouched DEF Ordered
<1>16. \A v \in Users : IsTurnOf(f, v) \/ IsTurnOf(d, v) => v \in to \cup next
  <2>1. \A v \in Users : IsTurnOf(f, v) \/ IsTurnOf(d, v) => HasReached(f, v)
    BY <1>9, <1>10, TurnIsReached DEF Announced
  <2> HIDE DEF next
  <2> QED BY <2>1 DEF Audience
<1>17. say \in Outcome /\ say # "none" /\ (say \in Decided => f.status = say)
       /\ (f.status \in Decided => say = f.status)
  BY DEF Outcome, Decided
<1>18. d.status = "pending" /\ d.current <= f.current
  BY <1>6, <1>9 DEF IsTurnOf, Announced
<1>19. lossy' \in [Requests -> BOOLEAN] /\ \A q \in Requests : lossy[q] => lossy'[q]
  BY <1>1, <1>12 DEF SigTypeOK
<1> HIDE DEF to, next, say, r
<1> QED
  BY <1>3, <1>8, <1>10, <1>11, <1>12, <1>13, <1>14, <1>15, <1>16, <1>17, <1>18, <1>19,
     SafeAnnouncement DEF f, d

\* cancel() tells the audience of the document as it was read: those whose turn it was,
\* unless the request has gone on since, which lossy records.
LEMMA CancelSafe ==
  ASSUME SigInv, IInv', NEW h \in Handlers, SigWriteCancel(h)
  PROVE  SigInv'
<1> DEFINE w == handlers[h]
           r == w.req
           b == w.before
           d == docs[r]
           f == docs'[r]
           to == Audience(b)
<1>1. TypeOK /\ IInv /\ SigTypeOK
  BY DEF SigInv, IInv
<1>2. w # Idle /\ r \in Requests /\ b \in Doc
  BY <1>1, InFlight DEF SigWriteCancel, WriteCancel, Idle
<1>3. Exists(r) /\ SameChain(d, b) /\ Shrunk(d, b)
  BY <1>1, <1>2 DEF IInv, Behind
<1>4. Shape(b) /\ Unreached(b) /\ b.status = "pending" /\ b.current <= d.current
  BY <1>2 DEF SigInv, ReadOnce
<1>5. d \in Doc /\ Shape(d) /\ Ordered(d) /\ d.status = "pending"
  BY <1>1, <1>2, <1>3, StoredIsDoc DEF IInv, SigInv, SigWriteCancel, WriteCancel
<1>6. f = Apply(d, CancelSet(b)) /\ \A q \in Requests : q # r => docs'[q] = docs[q]
  BY <1>1, <1>2 DEF SigWriteCancel, WriteCancel, TypeOK
<1>7. /\ Unreached(f) /\ f.current = d.current /\ f.status = "cancelled"
      /\ \A v \in Users : d.current = b.current /\ IsTurnOf(d, v) => HasReached(b, v)
  BY <1>2, <1>3, <1>4, <1>5, <1>6, CancelIsAnnounced DEF Ordered
<1>8. f \in Doc /\ SameChain(f, d)
  BY <1>2, <1>3, <1>5, <1>6, CancelIsSafe DEF Safely
<1>9. Ordered(f)
  BY <1>5, <1>7, <1>8, OwnChainStays DEF Ordered
<1>10. /\ Leave(h, r, to, {}, "none")
       /\ lossy' = [lossy EXCEPT ![r] = @ \/ d.current # b.current]
  BY DEF SigWriteCancel
<1>11. \A g \in Handlers : handlers'[g] = handlers[g] \/ handlers'[g] = Idle
  BY <1>1 DEF SigWriteCancel, WriteCancel, TypeOK
<1>12. lossy \in [Requests -> BOOLEAN]
  BY <1>1 DEF SigTypeOK
<1> HIDE DEF f, d, b, w
<1>13. to \in SUBSET Users /\ to \subseteq Touched(f)
  <2>1. to \in SUBSET Users
    BY <1>2 DEF Audience, Doc
  <2>2. Touched(b) \subseteq Touched(d)
    BY <1>2, <1>3, <1>4, <1>5, TouchedGrows
  <2>3. d.current <= f.current
    BY <1>5, <1>7 DEF Doc
  <2>4. Touched(d) \subseteq Touched(f)
    BY <1>5, <1>8, <2>3, TouchedGrows
  <2> QED BY <2>1, <2>2, <2>4, <1>2, <1>4, AudienceIsTouched
<1>14. \A v \in Users : ~IsTurnOf(f, v)
  BY <1>7 DEF IsTurnOf
<1>15. \A v \in Users : IsTurnOf(d, v) => v \in to \/ lossy'[r]
  <2>1. d.current # b.current => lossy'[r]
    BY <1>2, <1>10, <1>12
  <2>2. \A v \in Users : HasReached(b, v) => v \in to
    BY DEF Audience
  <2> QED BY <2>1, <2>2, <1>7
<1>16. lossy' \in [Requests -> BOOLEAN] /\ \A q \in Requests : lossy[q] => lossy'[q]
  <2> HIDE DEF r
  <2>1. (lossy[r] \/ d.current # b.current) \in BOOLEAN
    OBVIOUS
  <2> QED BY <2>1, <1>2, <1>10, <1>12
<1>17. "none" \in Outcome /\ "none" \notin Decided /\ "cancelled" \notin Decided
  BY DEF Outcome, Decided
<1>18. d.current <= f.current
  BY <1>5, <1>7 DEF Doc
<1> HIDE DEF to, r
<1> QED
  BY <1>2, <1>5, <1>6, <1>7, <1>8, <1>9, <1>10, <1>11, <1>13, <1>14, <1>15, <1>16, <1>17,
     <1>18, SafeAnnouncement DEF f, d

\* Steps that write no document: what they owe to the invariant.
LEMMA SafeSignal ==
  ASSUME SigInv, IInv', SigTypeOK', docs' = docs,
         \A h \in Handlers : ReadOnce(h)' /\ NoSecondHalf(h)',
         \A r \in Requests : ~Exists(r) =>
           /\ refetch'[r] = {} /\ desk'[r] = {} /\ heard'[r] = {}
           /\ \A h \in Handlers : ~NewsOf(h, r)',
         \A r \in Requests : Exists(r) => (ToldInTime(r) /\ DeskFollows(r) /\ OutcomeFollows(r))'
  PROVE  SigInv'
<1>1. \A r \in Requests : Exists(r)' <=> Exists(r)
  BY DEF Exists
<1>2. \A r \in Requests : Exists(r)' => Ordered(docs'[r])
  BY <1>1 DEF SigInv
<1>3. \A r \in Requests : QuietBefore(r)'
  BY <1>1 DEF QuietBefore
<1> QED BY <1>1, <1>2, <1>3 DEF SigInv

\* The synchronous half of an announcement is about people the request has touched.
LEMMA EmitSafe ==
  ASSUME SigInv, IInv', NEW h \in Handlers, Emit(h)
  PROVE  SigInv'
<1> DEFINE e == news[h]
           r == e.req
           f == [stage |-> "tell", req |-> r, next |-> e.next, say |-> e.say]
<1>1. SigTypeOK /\ e # Nothing /\ e.stage = "emit"
  BY DEF SigInv, Emit, Nothing
<1>2. /\ r \in Requests /\ e.next \in SUBSET Users /\ e.say \in Outcome /\ e.to \in SUBSET Users
  BY <1>1, NewsFields
<1>3. NewsOf(h, r) /\ Exists(r)
  <2>1. NewsOf(h, r)
    BY <1>1 DEF NewsOf
  <2> QED BY <2>1, <1>2 DEF SigInv, QuietBefore
<1>4. /\ docs' = docs /\ handlers' = handlers /\ desk' = desk /\ heard' = heard /\ lossy' = lossy
      /\ \A q \in Requests : refetch'[q] = IF q = r THEN refetch[q] \cup e.to ELSE refetch[q]
      /\ \A g \in Handlers : g # h => news'[g] = news[g]
      /\ news'[h] = IF e.say = "none" THEN Nothing ELSE f
  BY <1>1 DEF Emit, Signal, SigTypeOK
<1>5. f \in Announcement /\ f # Nothing
  BY <1>2 DEF Announcement, Nothing
<1>6. SigTypeOK'
  <2>1. news' \in [Handlers -> {Nothing} \cup Announcement]
    BY <1>1, <1>5 DEF Emit, SigTypeOK
  <2>2. refetch' \in [Requests -> SUBSET Users]
    BY <1>1, <1>2 DEF Emit, Signal, SigTypeOK
  <2> QED BY <2>1, <2>2, <1>1, <1>4 DEF SigTypeOK, IInv
<1>7. f.stage = "tell" /\ f.req = r /\ f.next = e.next /\ f.say = e.say
  OBVIOUS
<1> HIDE DEF f
<1>8. \A g \in Handlers : ReadOnce(g)' /\ NoSecondHalf(g)'
  <2>1. \A g \in Handlers : ReadOnce(g)'
    BY <1>4 DEF SigInv, ReadOnce
  <2>2. NoSecondHalf(h)'
    BY <1>4, <1>7 DEF NoSecondHalf, Nothing
  <2> QED BY <2>1, <2>2, <1>4 DEF SigInv, NoSecondHalf
<1>9. \A g \in Handlers : \A q \in Requests : news'[g] # Nothing /\ news'[g].req = q => NewsOf(g, q)
  BY <1>1, <1>4, <1>7 DEF NewsOf
<1>10. \A q \in Requests : ~Exists(q) =>
           /\ refetch'[q] = {} /\ desk'[q] = {} /\ heard'[q] = {}
           /\ \A g \in Handlers : ~NewsOf(g, q)'
  BY <1>3, <1>4, <1>9 DEF SigInv, QuietBefore, NewsOf
<1>11. ASSUME NEW q \in Requests, Exists(q)
       PROVE  (ToldInTime(q) /\ DeskFollows(q) /\ OutcomeFollows(q))'
  <2>1. ToldInTime(q) /\ DeskFollows(q) /\ OutcomeFollows(q) /\ NoSecondHalf(h)
    BY <1>11 DEF SigInv
  <2>2. ToldInTime(q)'
    <3>1. q = r => e.to \subseteq Touched(docs[q]) /\ e.next \subseteq Touched(docs[q])
      BY <2>1, <1>1, <1>3 DEF ToldInTime
    <3>2. refetch'[q] \subseteq Touched(docs'[q])
      BY <2>1, <3>1, <1>4 DEF ToldInTime
    <3>3. ASSUME NEW g \in Handlers, news'[g] # Nothing /\ news'[g].req = q
          PROVE  /\ news'[g].next \subseteq Touched(docs'[q])
                 /\ news'[g].stage = "emit" => news'[g].to \subseteq Touched(docs'[q])
      BY <2>1, <3>1, <3>3, <1>4, <1>7, <1>9 DEF ToldInTime
    <3> QED BY <3>2, <3>3 DEF ToldInTime, NewsOf
  <2>3. ASSUME NEW u \in Users, Coming(q, u) PROVE Coming(q, u)'
    <3>1. CASE u \in refetch[q] \/ lossy[q]
      BY <3>1, <1>4 DEF Coming
    <3>2. ASSUME NEW g \in Handlers, NewsOf(g, q), g # h,
                 u \in news[g].next \/ (news[g].stage = "emit" /\ u \in news[g].to)
          PROVE  Coming(q, u)'
      BY <3>2, <1>4 DEF Coming, NewsOf
    <3>3. ASSUME q = r, u \in e.to PROVE Coming(q, u)'
      BY <3>3, <1>4 DEF Coming
    <3>4. ASSUME q = r, u \in e.next PROVE Coming(q, u)'
      <4>1. e.say # "none"
        BY <2>1, <3>4, <1>1 DEF NoSecondHalf
      <4> QED BY <4>1, <3>4, <1>4, <1>5, <1>7 DEF Coming, NewsOf
    <3> QED BY <2>3, <3>1, <3>2, <3>3, <3>4 DEF Coming, NewsOf
  <2>4. DeskFollows(q)'
    BY <2>1, <2>3, <1>4 DEF DeskFollows
  <2>5. OutcomeFollows(q)'
    <3>1. \A g \in Handlers : (news'[g] # Nothing /\ news'[g].req = q) /\ news'[g].say \in Decided =>
            news'[g].say = docs[q].status
      BY <2>1, <1>4, <1>7, <1>9 DEF OutcomeFollows
    <3>2. ASSUME NEW g \in Handlers, NewsOf(g, q), news[g].say = docs[q].status,
                 docs[q].status \in Decided
          PROVE  (news'[g] # Nothing /\ news'[g].req = q) /\ news'[g].say = docs[q].status
      <4>1. "none" \notin Decided
        BY DEF Decided
      <4> QED BY <3>2, <4>1, <1>4, <1>5, <1>7 DEF NewsOf
    <3> QED BY <2>1, <3>1, <3>2, <1>4 DEF OutcomeFollows, NewsOf
  <2> QED BY <2>2, <2>4, <2>5
<1> QED BY <1>4, <1>6, <1>8, <1>10, <1>11, SafeSignal

\* The second half of an announcement delivers what was still owed.
LEMMA TellSafe ==
  ASSUME SigInv, IInv', NEW h \in Handlers, Tell(h) \/ TellFails(h)
  PROVE  SigInv'
<1> DEFINE e == news[h]
           r == e.req
<1>1. SigTypeOK /\ e # Nothing /\ e.stage = "tell"
  BY DEF SigInv, Tell, TellFails, Nothing
<1>2. r \in Requests /\ e.next \in SUBSET Users /\ e.say \in Outcome
  BY <1>1, NewsFields
<1>3. NewsOf(h, r) /\ Exists(r)
  <2>1. NewsOf(h, r)
    BY <1>1 DEF NewsOf
  <2> QED BY <2>1, <1>2 DEF SigInv, QuietBefore
<1>4. /\ docs' = docs /\ handlers' = handlers /\ desk' = desk
      /\ \A g \in Handlers : g # h => news'[g] = news[g]
      /\ news'[h] = Nothing
      /\ \A q \in Requests : q # r => refetch'[q] = refetch[q] /\ heard'[q] = heard[q] /\ lossy'[q] = lossy[q]
      /\ \/ /\ refetch'[r] = refetch[r] \cup e.next /\ heard'[r] = heard[r] \cup ({e.say} \cap Decided)
            /\ lossy'[r] = lossy[r]
         \/ refetch'[r] = refetch[r] /\ heard'[r] = heard[r] /\ lossy'[r] = TRUE
  BY <1>1, <1>2 DEF Tell, TellFails, Signal, SendToUser, SigTypeOK
<1>5. SigTypeOK'
  <2>1. news' \in [Handlers -> {Nothing} \cup Announcement]
    BY <1>1 DEF Tell, TellFails, SigTypeOK
  <2>2. refetch' \in [Requests -> SUBSET Users]
    BY <1>1, <1>2 DEF Tell, TellFails, Signal, SigTypeOK
  <2>3. heard' \in [Requests -> SUBSET Decided]
    BY <1>1, <1>2 DEF Tell, TellFails, SendToUser, SigTypeOK
  <2>4. lossy' \in [Requests -> BOOLEAN]
    BY <1>1, <1>2 DEF Tell, TellFails, SigTypeOK
  <2> QED BY <2>1, <2>2, <2>3, <2>4, <1>1, <1>4 DEF SigTypeOK, IInv
<1>6. \A g \in Handlers : ReadOnce(g)' /\ NoSecondHalf(g)'
  BY <1>4 DEF SigInv, ReadOnce, NoSecondHalf, Nothing
<1>7. \A g \in Handlers : \A q \in Requests :
        news'[g] # Nothing /\ news'[g].req = q => NewsOf(g, q) /\ g # h /\ news'[g] = news[g]
  BY <1>4 DEF NewsOf
<1>8. \A q \in Requests : ~Exists(q) =>
           /\ refetch'[q] = {} /\ desk'[q] = {} /\ heard'[q] = {}
           /\ \A g \in Handlers : ~NewsOf(g, q)'
  BY <1>3, <1>4, <1>7 DEF SigInv, QuietBefore, NewsOf
<1>9. ASSUME NEW q \in Requests, Exists(q)
      PROVE  (ToldInTime(q) /\ DeskFollows(q) /\ OutcomeFollows(q))'
  <2>1. ToldInTime(q) /\ DeskFollows(q) /\ OutcomeFollows(q)
    BY <1>9 DEF SigInv
  <2>2. ToldInTime(q)'
    <3>1. q = r => e.next \subseteq Touched(docs[q])
      BY <2>1, <1>3 DEF ToldInTime
    <3>2. refetch'[q] \subseteq Touched(docs'[q])
      BY <2>1, <3>1, <1>4 DEF ToldInTime
    <3> QED BY <2>1, <3>2, <1>4, <1>7 DEF ToldInTime, NewsOf
  <2>3. ASSUME NEW u \in Users, Coming(q, u) PROVE Coming(q, u)'
    <3>1. CASE u \in refetch[q] \/ lossy[q]
      BY <3>1, <1>4 DEF Coming
    <3>2. ASSUME NEW g \in Handlers, NewsOf(g, q), g # h,
                 u \in news[g].next \/ (news[g].stage = "emit" /\ u \in news[g].to)
          PROVE  Coming(q, u)'
      BY <3>2, <1>4 DEF Coming, NewsOf
    <3>3. ASSUME q = r, u \in e.next PROVE Coming(q, u)'
      BY <3>3, <1>4 DEF Coming
    <3> QED BY <2>3, <3>1, <3>2, <3>3, <1>1 DEF Coming, NewsOf
  <2>4. DeskFollows(q)'
    BY <2>1, <2>3, <1>4 DEF DeskFollows
  <2>5. OutcomeFollows(q)'
    <3>1. e.say \in Decided /\ q = r => e.say = docs[q].status
      BY <2>1, <1>3 DEF OutcomeFollows
    <3>2. heard'[q] \subseteq {docs'[q].status}
      BY <2>1, <3>1, <1>4 DEF OutcomeFollows
    <3>3. ASSUME docs[q].status \in Decided
          PROVE  heard'[q] # {} \/ lossy'[q]
                  \/ \E g \in Handlers : NewsOf(g, q)' /\ news'[g].say = docs'[q].status
      <4>1. CASE heard[q] # {} \/ lossy[q]
        BY <4>1, <1>4
      <4>2. ASSUME NEW g \in Handlers, NewsOf(g, q), news[g].say = docs[q].status, g # h
            PROVE  NewsOf(g, q)' /\ news'[g].say = docs'[q].status
        BY <4>2, <1>4 DEF NewsOf
      <4>3. ASSUME NewsOf(h, q), e.say = docs[q].status
            PROVE  heard'[q] # {} \/ lossy'[q]
        BY <3>3, <4>3, <1>4 DEF NewsOf
      <4> QED BY <2>1, <3>3, <4>1, <4>2, <4>3 DEF OutcomeFollows
    <3>4. \A g \in Handlers : NewsOf(g, q)' /\ news'[g].say \in Decided => news'[g].say = docs'[q].status
      BY <2>1, <1>4, <1>7 DEF OutcomeFollows, NewsOf
    <3> QED BY <3>2, <3>3, <3>4, <1>4 DEF OutcomeFollows
  <2> QED BY <2>2, <2>4, <2>5
<1> QED BY <1>4, <1>5, <1>6, <1>8, <1>9, SafeSignal

\* A crash forgets the announcements, which lossy records.
LEMMA CrashSafe ==
  ASSUME SigInv, IInv', SigCrash
  PROVE  SigInv'
<1>1. SigTypeOK
  BY DEF SigInv
<1>2. /\ docs' = docs /\ refetch' = refetch /\ desk' = desk /\ heard' = heard
      /\ \A h \in Handlers : news'[h] = Nothing /\ handlers'[h] = Idle
      /\ \A r \in Requests : lossy'[r] = (lossy[r] \/ \E h \in Handlers : NewsOf(h, r))
  BY DEF SigCrash, Crash, NewsOf
<1>3. SigTypeOK'
  <2>1. news' \in [Handlers -> {Nothing} \cup Announcement]
    BY DEF SigCrash
  <2>2. lossy' \in [Requests -> BOOLEAN]
    <3>1. \A r \in Requests : (lossy[r] \/ \E h \in Handlers : news[h] # Nothing /\ news[h].req = r) \in BOOLEAN
      OBVIOUS
    <3> QED BY <3>1, Zenon DEF SigCrash
  <2> QED BY <2>1, <2>2, <1>1, <1>2 DEF SigTypeOK, IInv
<1>4. \A h \in Handlers : ReadOnce(h)' /\ NoSecondHalf(h)'
  BY <1>2 DEF ReadOnce, NoSecondHalf, Nothing
<1>5. \A h \in Handlers : \A r \in Requests : ~NewsOf(h, r)'
  BY <1>2 DEF NewsOf
<1>6. \A r \in Requests : ~Exists(r) =>
           /\ refetch'[r] = {} /\ desk'[r] = {} /\ heard'[r] = {}
           /\ \A h \in Handlers : ~NewsOf(h, r)'
  BY <1>2, <1>5 DEF SigInv, QuietBefore
<1>7. ASSUME NEW r \in Requests, Exists(r)
      PROVE  (ToldInTime(r) /\ DeskFollows(r) /\ OutcomeFollows(r))'
  <2>1. ToldInTime(r) /\ DeskFollows(r) /\ OutcomeFollows(r)
    BY <1>7 DEF SigInv
  <2>2. ToldInTime(r)'
    BY <2>1, <1>2, <1>5 DEF ToldInTime
  <2>3. DeskFollows(r)'
    BY <2>1, <1>2 DEF DeskFollows, Coming
  <2>4. OutcomeFollows(r)'
    BY <2>1, <1>2, <1>5 DEF OutcomeFollows
  <2> QED BY <2>2, <2>3, <2>4
<1> QED BY <1>2, <1>3, <1>4, <1>6, <1>7, SafeSignal

\* The list a client reads is the one the card agrees with.
LEMMA MyTurnIsTurn ==
  ASSUME NEW d \in Doc, Shape(d), NEW u \in Users
  PROVE  MyTurn(d, u) <=> IsTurnOf(d, u)
<1>1. ASSUME IsTurnOf(d, u) PROVE MyTurn(d, u)
  BY <1>1 DEF IsTurnOf, MyTurn, Shape
<1>2. ASSUME MyTurn(d, u) PROVE IsTurnOf(d, u)
  <2>1. d.status = "pending"
    BY <1>2 DEF MyTurn
  <2>2. PICK l \in Levels : d.level[l] = "pending" /\ d.slot[l][u] = "pending"
    BY <1>2 DEF MyTurn
  <2>3. d.current \in Levels /\ d.n \in Levels /\ Levels \subseteq Nat /\ d.current <= d.n
    BY <2>1, LevelsAreNat DEF Shape, Doc
  <2>4. ~(l > d.n) /\ ~(l < d.current) /\ ~(d.current < l /\ l <= d.n)
    BY <2>1, <2>2 DEF Shape
  <2>5. l = d.current /\ d.current \in 1..d.n
    BY <2>3, <2>4 DEF Levels
  <2> QED BY <2>1, <2>2, <2>5 DEF IsTurnOf
<1> QED BY <1>1, <1>2

\* A client that reads shows what the document says.
LEMMA FetchSafe ==
  ASSUME SigInv, IInv', NEW u \in Users, NEW r \in Requests, Fetch(u, r)
  PROVE  SigInv'
<1>1. SigTypeOK /\ Exists(r)
  BY DEF SigInv, Fetch
<1>2. /\ docs' = docs /\ handlers' = handlers /\ news' = news /\ heard' = heard /\ lossy' = lossy
      /\ \A q \in Requests : q # r => refetch'[q] = refetch[q] /\ desk'[q] = desk[q]
      /\ refetch'[r] = refetch[r] \ {u}
      /\ desk'[r] = IF MyTurn(docs[r], u) THEN desk[r] \cup {u} ELSE desk[r] \ {u}
  BY <1>1 DEF Fetch, SigTypeOK
<1>3. SigTypeOK'
  <2>1. refetch' \in [Requests -> SUBSET Users] /\ desk' \in [Requests -> SUBSET Users]
    BY <1>1 DEF Fetch, SigTypeOK
  <2> QED BY <2>1, <1>1, <1>2 DEF SigTypeOK, IInv
<1>4. \A h \in Handlers : ReadOnce(h)' /\ NoSecondHalf(h)'
  BY <1>2 DEF SigInv, ReadOnce, NoSecondHalf
<1>5. \A q \in Requests : ~Exists(q) =>
           /\ refetch'[q] = {} /\ desk'[q] = {} /\ heard'[q] = {}
           /\ \A h \in Handlers : ~NewsOf(h, q)'
  BY <1>1, <1>2 DEF SigInv, QuietBefore, NewsOf
<1>6. ASSUME NEW q \in Requests, Exists(q)
      PROVE  (ToldInTime(q) /\ DeskFollows(q) /\ OutcomeFollows(q))'
  <2>1. ToldInTime(q) /\ DeskFollows(q) /\ OutcomeFollows(q)
    BY <1>6 DEF SigInv
  <2>2. refetch'[q] \subseteq refetch[q]
    BY <1>2
  <2>3. ToldInTime(q)'
    BY <2>1, <2>2, <1>2 DEF ToldInTime, NewsOf
  <2>4. OutcomeFollows(q)'
    BY <2>1, <1>2 DEF OutcomeFollows, NewsOf
  <2>5. ASSUME NEW v \in Users
        PROVE  (v \in desk'[q] <=> IsTurnOf(docs'[q], v)) \/ Coming(q, v)'
    <3>1. CASE q # r \/ v # u
      <4>1. (v \in desk'[q] <=> v \in desk[q]) /\ (v \in refetch[q] => v \in refetch'[q])
        BY <3>1, <1>2
      <4>2. (v \in desk[q] <=> IsTurnOf(docs[q], v)) \/ Coming(q, v)
        BY <2>1 DEF DeskFollows
      <4>3. Coming(q, v) => Coming(q, v)'
        BY <4>1, <1>2 DEF Coming, NewsOf
      <4> QED BY <4>1, <4>2, <4>3, <1>2
    <3>2. CASE q = r /\ v = u
      <4>1. docs[r] \in Doc /\ Shape(docs[r])
        BY <1>1, StoredIsDoc DEF SigInv, IInv
      <4>2. u \in desk'[r] <=> MyTurn(docs[r], u)
        BY <1>2
      <4> QED BY <3>2, <4>1, <4>2, <1>2, MyTurnIsTurn
    <3> QED BY <3>1, <3>2
  <2>6. DeskFollows(q)'
    BY <2>5 DEF DeskFollows
  <2> QED BY <2>3, <2>4, <2>6
<1> QED BY <1>2, <1>3, <1>4, <1>5, <1>6, SafeSignal

\* Reads, refused plans and stale writes say nothing.
LEMMA SilentSafe ==
  ASSUME SigInv, IInv', SigSilent \/ UNCHANGED sigVars
  PROVE  SigInv'
<1>1. SigTypeOK /\ TypeOK /\ IInv
  BY DEF SigInv, IInv
<1>2. docs' = docs /\ UNCHANGED <<news, refetch, desk, heard, lossy>>
  BY DEF SigSilent, sigVars, ReadForDecision, ReadForCancel, Stale
<1>3. SigTypeOK'
  BY <1>1, <1>2 DEF SigTypeOK, IInv
<1>4. ASSUME NEW h \in Handlers PROVE ReadOnce(h)' /\ NoSecondHalf(h)'
  <2>1. NoSecondHalf(h)'
    BY <1>2 DEF SigInv, NoSecondHalf
  <2>2. handlers'[h] = handlers[h] \/ handlers'[h] = Idle => ReadOnce(h)'
    BY <1>2 DEF SigInv, ReadOnce
  <2>3. ASSUME NEW r \in Requests, Exists(r), docs[r].status = "pending",
               handlers'[h].before = docs[r], handlers'[h].req = r
        PROVE  ReadOnce(h)'
    <3>1. docs[r] \in Doc /\ Shape(docs[r]) /\ Unreached(docs[r])
      BY <2>3, <1>1, StoredIsDoc DEF SigInv, IInv, Ordered
    <3>2. docs[r].current <= docs[r].current
      BY <3>1 DEF Doc
    <3> QED BY <2>3, <3>1, <3>2, <1>2 DEF ReadOnce
  <2>4. ASSUME NEW g \in Handlers, NEW r \in Requests, NEW u \in Users,
               NEW action \in {"approve", "reject"}, ReadForDecision(g, u, r, action)
        PROVE  ReadOnce(h)'
    <3>1. CASE g = h
      BY <2>3, <2>4, <3>1, <1>1 DEF ReadForDecision, IsTurnOf, TypeOK
    <3>2. CASE g # h
      BY <2>2, <2>4, <3>2, <1>1 DEF ReadForDecision, TypeOK
    <3> QED BY <3>1, <3>2
  <2>5. ASSUME NEW g \in Handlers, NEW r \in Requests, ReadForCancel(g, r)
        PROVE  ReadOnce(h)'
    <3>1. CASE g = h
      BY <2>3, <2>5, <3>1, <1>1 DEF ReadForCancel, TypeOK
    <3>2. CASE g # h
      BY <2>2, <2>5, <3>2, <1>1 DEF ReadForCancel, TypeOK
    <3> QED BY <3>1, <3>2
  <2>6. ASSUME NEW g \in Handlers, Stale(g) PROVE ReadOnce(h)'
    BY <2>2, <2>6, <1>1 DEF Stale, TypeOK
  <2>7. UNCHANGED sigVars => ReadOnce(h)'
    BY <2>2 DEF sigVars
  <2> QED BY <2>1, <2>4, <2>5, <2>6, <2>7 DEF SigSilent
<1>5. \A r \in Requests : ~Exists(r) =>
           /\ refetch'[r] = {} /\ desk'[r] = {} /\ heard'[r] = {}
           /\ \A h \in Handlers : ~NewsOf(h, r)'
  BY <1>2 DEF SigInv, QuietBefore, NewsOf
<1>6. ASSUME NEW r \in Requests, Exists(r)
      PROVE  (ToldInTime(r) /\ DeskFollows(r) /\ OutcomeFollows(r))'
  BY <1>2, <1>6 DEF SigInv, ToldInTime, DeskFollows, OutcomeFollows, Coming, NewsOf
<1> QED BY <1>2, <1>3, <1>4, <1>5, <1>6, SafeSignal

\* Every step of the signals is a step of the documents, or leaves them alone.
LEMMA SignalsFollowDocuments == [SigNext]_sigVars => [Next]_vars
BY DEF SigNext, SigCreate, SigWriteDecision, SigWriteCancel, SigSilent, Emit, Tell, TellFails,
       SigCrash, Fetch, sigVars, vars, Next

\* No write, announcement, crash or refresh breaks the invariant.
LEMMA StepSigInv == SigInv /\ [SigNext]_sigVars => SigInv'
<1> SUFFICES ASSUME SigInv, [SigNext]_sigVars PROVE SigInv'
  OBVIOUS
<1>1. IInv'
  BY SignalsFollowDocuments, StepIInv DEF SigInv
<1> QED BY <1>1, CreateSafe, DecisionSafe, CancelSafe, SilentSafe, EmitSafe, TellSafe, CrashSafe,
           FetchSafe DEF SigNext

\* The inductive invariant holds throughout.
THEOREM SignalsInvariance == SigSpec => []SigInv
BY InitSigInv, StepSigInv, PTL DEF SigSpec

-----------------------------------------------------------------------------
(* What it gives. *)

\* The signals never run ahead of the chain: nobody on a later level is told, or about to
\* be told, before the request comes to that level.
THEOREM ToldOnlyInTime == SigSpec => []NobodyToldEarly
<1>1. SigInv => NobodyToldEarly
  BY DEF SigInv, NobodyToldEarly, ToldInTime, NewsOf
<1> QED BY <1>1, SignalsInvariance, PTL

\* The lists a request is in never show more than the single read, and nobody but its
\* requester and super admins sees it before it comes to them.
LEMMA SeenWhenReached ==
  ASSUME NEW d \in Doc, Unreached(d)
  PROVE  SeenOnlyWhenReached(d)
<1> SUFFICES ASSUME NEW u \in Users
             PROVE  /\ \A scope \in Scopes : Listed(d, u, scope) => VisibleDoc(d, u)
                    /\ VisibleDoc(d, u) =>
                         \/ u = d.requester \/ u \in Supers
                         \/ \E l \in 1..d.current : u \in On(d, l)
  BY DEF SeenOnlyWhenReached
<1>1. ReachedMe(d, u) => HasReached(d, u)
  BY DEF ReachedMe, HasReached, Reached, Decided, On
<1>2. MyTurn(d, u) => HasReached(d, u)
  BY DEF MyTurn, HasReached, On
<1>3. \A scope \in Scopes : Listed(d, u, scope) => VisibleDoc(d, u)
  BY <1>1, <1>2 DEF Scopes, Listed, VisibleDoc
<1>4. ASSUME HasReached(d, u) PROVE \E l \in 1..d.current : u \in On(d, l)
  <2>1. PICK l \in Levels : u \in On(d, l) /\ (d.level[l] \in {"pending"} \cup Decided
                                                \/ d.slot[l][u] \in Decided)
    BY <1>4 DEF HasReached
  <2>2. ~(l > d.current)
    BY <2>1 DEF Unreached
  <2>3. l \in 1..d.current
    BY <2>2, LevelsAreNat DEF Doc, Levels
  <2> QED BY <2>1, <2>3
<1> QED BY <1>3, <1>4 DEF VisibleDoc

\* The counts on a card: a level that is passed has the approvals it asks for, and the one
\* the request is on does not.
LEMMA CountsAreRight ==
  ASSUME NEW d \in Doc, Shape(d), d.status = "pending"
  PROVE  LET approved(l) == {v \in Users : d.slot[l][v] = "approved"}
             required(l) == IF d.mode[l] = "any" THEN 1 ELSE Cardinality(On(d, l))
         IN  /\ Cardinality(approved(d.current)) < required(d.current)
             /\ \A l \in 1..(d.current - 1) : Cardinality(approved(l)) >= required(l)
<1> DEFINE approved(l) == {v \in Users : d.slot[l][v] = "approved"}
           required(l) == IF d.mode[l] = "any" THEN 1 ELSE Cardinality(On(d, l))
<1>1. d.current \in Levels /\ \A l \in Levels : d.mode[l] \in Modes
  BY DEF Shape, Doc
<1>2. \A l \in Levels : IsFiniteSet(On(d, l)) /\ Cardinality(On(d, l)) \in Nat
  BY ChainConstants, FS_Subset, FS_CardinalityType DEF On
<1>3. Cardinality(approved(d.current)) < required(d.current)
  <2>1. PICK u \in Users : d.slot[d.current][u] = "pending"
    BY DEF Shape
  <2>2. CASE d.mode[d.current] = "any"
    <3>1. approved(d.current) = {}
      BY <2>2 DEF Shape
    <3> QED BY <2>2, <3>1, FS_EmptySet
  <2>3. CASE d.mode[d.current] # "any"
    <3>1. approved(d.current) \in SUBSET On(d, d.current) /\ u \in On(d, d.current) \ approved(d.current)
      BY <2>1 DEF On
    <3>2. /\ IsFiniteSet(approved(d.current))
          /\ Cardinality(approved(d.current)) <= Cardinality(On(d, d.current))
          /\ Cardinality(approved(d.current)) # Cardinality(On(d, d.current))
      BY <1>1, <1>2, <3>1, FS_Subset
    <3>3. Cardinality(approved(d.current)) \in Nat
      BY <3>2, FS_CardinalityType
    <3> HIDE DEF approved
    <3> QED BY <1>1, <1>2, <2>3, <3>2, <3>3
  <2> QED BY <2>2, <2>3
<1>4. ASSUME NEW l \in 1..(d.current - 1)
      PROVE  Cardinality(approved(l)) >= required(l)
  <2>1. l \in Levels /\ l < d.current
    BY <1>1, LevelsAreNat DEF Levels
  <2>2. HasQuorum(d, l)
    BY <2>1 DEF Shape
  <2>3. CASE d.mode[l] = "any"
    <3>1. PICK u \in Users : approved(l) = {u}
      BY <2>2, <2>3 DEF HasQuorum
    <3>2. Cardinality(approved(l)) = 1
      BY <3>1, FS_Singleton
    <3> QED BY <2>3, <3>2
  <2>4. CASE d.mode[l] # "any"
    <3>1. d.mode[l] = "all"
      BY <1>1, <2>1, <2>4 DEF Modes
    <3>2. approved(l) = On(d, l)
      BY <2>2, <3>1 DEF HasQuorum
    <3> QED BY <1>2, <2>1, <2>4, <3>2
  <2> QED BY <2>3, <2>4
<1> QED BY <1>3, <1>4

\* The card, the list of what waits for somebody and the badge agree.
LEMMA CardAgrees ==
  ASSUME NEW d \in Doc, Shape(d), OwnChain(d)
  PROVE  CardAgreesWithLists(d)
<1> DEFINE approved(l) == {v \in Users : d.slot[l][v] = "approved"}
           required(l) == IF d.mode[l] = "any" THEN 1 ELSE Cardinality(On(d, l))
           waiting == {v \in Users : d.slot[d.current][v] = "pending"}
           mine(u) == {l \in Levels : d.slot[l][u] \in Decided}
<1>1. ASSUME NEW u \in Users
      PROVE  LET card == Present(d, u) IN
             /\ card.canAct = IsTurnOf(d, u)
             /\ card.canCancel = (d.status = "pending" /\ d.requester = u)
             /\ card.currentApprovers = IF d.status = "pending" /\ d.current <= d.n THEN waiting ELSE {}
             /\ card.currentLevel = IF d.status = "pending" /\ d.current <= d.n THEN d.current ELSE 0
             /\ mine(u) = {} => card.myDecision = "none"
  BY DEF Present
<1>7. ASSUME NEW u \in Users, NEW l \in 1..d.n
      PROVE  Present(d, u).approved[l] = Cardinality(approved(l)) /\ Present(d, u).required[l] = required(l)
  BY DEF Present
<1>2. ASSUME NEW u \in Users
      PROVE  /\ Listed(d, u, "actionable") <=> MyTurn(d, u)
             /\ Listed(d, u, "assigned") <=> ReachedMe(d, u)
  BY DEF Listed
<1>3. d.current \in Int /\ d.n \in Int /\ (d.status = "pending" =>
        /\ d.current <= d.n /\ d.current \in 1..d.n /\ 0 # d.current
        /\ \E u \in Users : d.slot[d.current][u] = "pending")
  BY LevelsAreNat DEF Shape, Doc, Levels
<1>4. d.status = "pending" =>
        /\ Cardinality(approved(d.current)) < required(d.current)
        /\ \A l \in 1..(d.current - 1) : Cardinality(approved(l)) >= required(l)
  BY CountsAreRight
<1>5. \A l \in 1..(d.current - 1) : d.status = "pending" => l \in 1..d.n
  BY <1>3
<1> HIDE DEF approved, required
<1>6. ASSUME NEW u \in Users
      PROVE  LET card == Present(d, u) IN
             /\ card.canAct <=> Listed(d, u, "actionable")
             /\ card.canAct <=> u \in card.currentApprovers
             /\ ~(card.canAct /\ card.canCancel)
             /\ card.canAct => card.myDecision = "none"
             /\ card.myDecision # "none" => Listed(d, u, "assigned")
             /\ d.status = "pending" =>
                  /\ card.currentLevel # 0 /\ card.currentApprovers # {}
                  /\ card.approved[d.current] < card.required[d.current]
                  /\ \A l \in 1..(d.current - 1) : card.approved[l] >= card.required[l]
  <2> DEFINE card == Present(d, u)
  <2>1. card.canAct <=> Listed(d, u, "actionable")
    BY <1>1, <1>2, MyTurnIsTurn
  <2>2. card.canAct <=> u \in card.currentApprovers
    <3>1. card.canAct = IsTurnOf(d, u)
      BY <1>1
    <3>2. IsTurnOf(d, u) <=> d.status = "pending" /\ d.current <= d.n /\ u \in waiting
      BY <1>3 DEF IsTurnOf
    <3>3. u \in card.currentApprovers <=> d.status = "pending" /\ d.current <= d.n /\ u \in waiting
      BY <1>1
    <3> QED BY <3>1, <3>2, <3>3
  <2>3. ~(card.canAct /\ card.canCancel)
    <3>1. IsTurnOf(d, u) => d.current \in Levels /\ d.slot[d.current][u] = "pending"
      BY DEF IsTurnOf, Shape
    <3> QED BY <1>1, <3>1 DEF OwnChain
  <2>4. ASSUME IsTurnOf(d, u) PROVE mine(u) = {}
    <3>1. d.current \in Levels /\ d.slot[d.current][u] = "pending"
      BY <2>4 DEF IsTurnOf, Shape
    <3>2. \A l \in Levels : d.slot[l][u] \in Decided => d.slot[l][u] # "none" /\ d.slot[l][u] # "pending"
      BY DEF Decided
    <3> QED BY <3>1, <3>2 DEF OwnChain
  <2>5. mine(u) # {} => ReachedMe(d, u)
    BY DEF ReachedMe
  <2>6. d.status = "pending" =>
                  /\ card.currentLevel # 0 /\ card.currentApprovers # {}
                  /\ card.approved[d.current] < card.required[d.current]
                  /\ \A l \in 1..(d.current - 1) : card.approved[l] >= card.required[l]
    <3> SUFFICES ASSUME d.status = "pending"
                 PROVE  /\ card.currentLevel # 0 /\ card.currentApprovers # {}
                        /\ card.approved[d.current] < card.required[d.current]
                        /\ \A l \in 1..(d.current - 1) : card.approved[l] >= card.required[l]
      OBVIOUS
    <3>1. card.currentLevel # 0 /\ card.currentApprovers # {}
      BY <1>1, <1>3
    <3>2. /\ card.approved[d.current] = Cardinality(approved(d.current))
          /\ card.required[d.current] = required(d.current)
      BY <1>3, <1>7
    <3>3. \A l \in 1..(d.current - 1) :
            card.approved[l] = Cardinality(approved(l)) /\ card.required[l] = required(l)
      <4>1. \A l \in 1..(d.current - 1) : l \in 1..d.n
        BY <1>5
      <4> QED BY <4>1, <1>7
    <3> HIDE DEF card
    <3> QED BY <1>4, <3>1, <3>2, <3>3
  <2> HIDE DEF mine
  <2> QED BY <2>1, <2>2, <2>3, <2>4, <2>5, <2>6, <1>1, <1>2
<1> QED BY <1>6 DEF CardAgreesWithLists

\* The badge counts some of what the chips count.
LEMMA BadgeAgrees ==
  ASSUME NEW ds, IsFiniteSet(ds), ds \subseteq Doc
  PROVE  BadgeIsAmongPending(ds)
<1> SUFFICES ASSUME NEW u \in Users
             PROVE  CountsFor(ds, u, "all").actionable <= CountsFor(ds, u, "all").pending
  BY DEF BadgeIsAmongPending
<1> DEFINE waiting == {d \in ds : MyTurn(d, u)}
           pending == {d \in ds : Listed(d, u, "all") /\ d.status = "pending"}
<1>1. IsFiniteSet(pending)
  BY FS_Subset
<1>2. ASSUME NEW d \in ds, MyTurn(d, u) PROVE Listed(d, u, "all") /\ d.status = "pending"
  BY <1>2 DEF Listed, MyTurn, ReachedMe, Reached, On
<1>3. waiting \in SUBSET pending
  BY <1>2
<1>4. Cardinality(waiting) <= Cardinality(pending)
  BY <1>1, <1>3, FS_Subset
<1> QED BY <1>4 DEF CountsFor

\* Once its signals are through, a request is shown as theirs to decide to exactly those
\* whose turn it is; its requester has been pushed the outcome it has and no other; and
\* every list, card, count and single read agrees with the others.
THEOREM ShownAndToldTruly == SigSpec => []ShownIsTrue
<1>1. SigInv => DesksAgree
  <2> SUFFICES ASSUME SigInv, NEW r \in Requests, Quiet(r)
               PROVE  desk[r] = {u \in Users : IsTurnOf(docs[r], u)}
    BY DEF DesksAgree
  <2>1. Exists(r) /\ DeskFollows(r) /\ \A u \in Users : ~Coming(r, u)
    BY DEF Quiet, SigInv, Coming, NewsOf
  <2>2. desk[r] \in SUBSET Users
    BY DEF SigInv, SigTypeOK
  <2> QED BY <2>1, <2>2 DEF DeskFollows
<1>2. SigInv => OutcomeIsHeard
  BY DEF SigInv, OutcomeIsHeard, OutcomeFollows, Quiet, NewsOf
<1>3. SigInv => ShownAgrees
  <2> SUFFICES ASSUME SigInv
               PROVE  LET ds == {docs[r] : r \in {r \in Requests : Exists(r)}} IN
                      /\ \A d \in ds : SeenOnlyWhenReached(d) /\ CardAgreesWithLists(d)
                      /\ BadgeIsAmongPending(ds)
    BY DEF ShownAgrees
  <2> DEFINE R == {r \in Requests : Exists(r)}
             ds == {docs[r] : r \in R}
             f == [r \in R |-> docs[r]]
  <2>1. \A r \in R : docs[r] \in Doc /\ Shape(docs[r]) /\ Unreached(docs[r]) /\ OwnChain(docs[r])
    BY StoredIsDoc DEF SigInv, IInv, Ordered
  <2>2. IsFiniteSet(ds)
    <3>1. IsFiniteSet(R)
      BY RequestsAreFinite, FS_Subset
    <3>2. f \in Surjection(R, ds)
      BY DEF Surjection
    <3> QED BY <3>1, <3>2, FS_Surjection
  <2>3. BadgeIsAmongPending(ds)
    BY <2>1, <2>2, BadgeAgrees
  <2>4. \A d \in ds : SeenOnlyWhenReached(d) /\ CardAgreesWithLists(d)
    BY <2>1, SeenWhenReached, CardAgrees
  <2> QED BY <2>3, <2>4
<1>4. SigInv => ShownIsTrue
  BY <1>1, <1>2, <1>3 DEF ShownIsTrue
<1> QED BY <1>4, SignalsInvariance, PTL
=============================================================================
