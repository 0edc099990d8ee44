---------------------------- MODULE DaysProofs ----------------------------
(***************************************************************************)
(* The days people work and ask for, for any people, calendar, instants    *)
(* and number of requests: leave, work from home and swaps (HrAsks), time  *)
(* corrections, the trail of a day, the offices, the attendance day with   *)
(* its night sweep, the day of a team, and a month and its pay.  Each part *)
(* has an inductive invariant, a lemma for each of its actions, and a      *)
(* theorem of the property the run checks.                                 *)
(***************************************************************************)
EXTENDS MCDays, Sequences, FiniteSetTheorems, WellFoundedInduction, TLAPS

-----------------------------------------------------------------------------
(* Types. *)

\* A new day ask is one the type invariant knows (the row applyLeave inserts).
LEMMA NewDayAskType ==
  ASSUME NEW u \in Users, NEW days \in Spans, NEW source \in {"self", "sheet"}
  PROVE  /\ NewDayAsk(u, days, source) \in DayAsk
         /\ NewDayAsk(u, days, source).status = "pending"
         /\ NewDayAsk(u, days, source).marked = {}
BY DEF NewDayAsk, DayAsk, Statuses

\* So is a new swap (the row the swap request inserts).
LEMMA NewSwapType ==
  ASSUME NEW u \in Users, NEW v \in Users, u # v,
         NEW sat \in Saturdays, NEW off \in Saturdays, sat # off
  PROVE  /\ NewSwap(u, v, sat, off) \in SwapAsk
         /\ NewSwap(u, v, sat, off).status = "pending"
         /\ NewSwap(u, v, sat, off).answer = "pending"
BY DEF NewSwap, SwapAsk, Statuses

\* What a row of each kind is.
LEMMA AskKinds ==
  ASSUME TypeOK, NEW a \in Asks
  PROVE  /\ IsDayAsk(a) => asks[a] \in DayAsk
         /\ IsSwap(a) => asks[a] \in SwapAsk
         /\ ~IsDayAsk(a) /\ ~IsSwap(a) => asks[a] = NoAsk
         /\ IsDayAsk(a) => ~IsSwap(a) /\ asks[a] # NoAsk
         /\ IsSwap(a) => asks[a] # NoAsk
BY DEF TypeOK, IsDayAsk, IsSwap, DayAsk, SwapAsk, NoAsk

\* What a handler at each point carries.
LEMMA HandlerKinds ==
  ASSUME TypeOK, NEW h \in Handlers
  PROVE  /\ handlers[h].pc = "file" => handlers[h] \in Filing
         /\ handlers[h].pc = "swap" => handlers[h] \in Swapping
         /\ handlers[h].pc = "accept" => handlers[h] \in Accepting
BY DEF TypeOK, Filing, Swapping, Accepting, Idle

\* Rows change by these updates only, and stay well typed.
LEMMA DayAskUpdates ==
  ASSUME NEW f \in DayAsk, NEW st \in Statuses, NEW m \in SUBSET Days
  PROVE  /\ [f EXCEPT !.status = st] \in DayAsk
         /\ [f EXCEPT !.marked = m] \in DayAsk
         /\ [f EXCEPT !.status = st, !.marked = m] \in DayAsk
BY DEF DayAsk

\* The same of a swap.
LEMMA SwapAskUpdates ==
  ASSUME NEW s \in SwapAsk, NEW st \in Statuses, NEW ans \in {"pending", "accepted", "declined"}
  PROVE  /\ [s EXCEPT !.status = st] \in SwapAsk
         /\ [s EXCEPT !.answer = ans] \in SwapAsk
         /\ [s EXCEPT !.answer = ans, !.status = st] \in SwapAsk
BY DEF SwapAsk

\* Marking those who are overtaken keeps the handlers well typed.
LEMMA OvertakeType ==
  ASSUME NEW u \in Users,
         NEW next \in [Handlers -> {Idle} \cup Filing \cup Swapping \cup Accepting],
         Overtake(u, next)
  PROVE  handlers' \in [Handlers -> {Idle} \cup Filing \cup Swapping \cup Accepting]
<1>1. ASSUME NEW g \in Handlers, next[g].pc = "file"
      PROVE  [next[g] EXCEPT !.overtaken = TRUE] \in Filing
  <2>1. next[g] \in Filing
    BY <1>1 DEF Filing, Swapping, Accepting, Idle
  <2> QED
    BY <2>1 DEF Filing
<1> QED
  BY <1>1 DEF Overtake

\* Every step of the handlers and of the ERP keeps the rows, the decided days
\* and the handlers well typed.
LEMMA TypeStep == TypeOK /\ [Next]_vars => TypeOK'
<1> SUFFICES ASSUME TypeOK, [Next]_vars PROVE TypeOK'
  OBVIOUS
<1> USE DEF TypeOK
<1>1. ASSUME NEW h \in Handlers, NEW u \in Users, NEW days \in Spans, ReadForApply(h, u, days)
      PROVE  TypeOK'
  BY <1>1, NewDayAskType DEF ReadForApply, Goto, Filing
<1>2. ASSUME NEW h \in Handlers, NEW a \in Asks, InsertDayAsk(h, a)
      PROVE  TypeOK'
  <2>1. handlers[h] \in Filing
    BY <1>2, HandlerKinds DEF InsertDayAsk
  <2>2. handlers[h].ask \in DayAsk /\ handlers[h].ask.user \in Users
    BY <2>1 DEF Filing, DayAsk
  <2>3. asks' \in [Asks -> {NoAsk} \cup DayAsk \cup SwapAsk] /\ hasty' \subseteq Asks
    BY <1>2, <2>2 DEF InsertDayAsk
  <2>4. handlers' \in [Handlers -> {Idle} \cup Filing \cup Swapping \cup Accepting]
    BY <1>2, <2>2, OvertakeType DEF InsertDayAsk
  <2> QED
    BY <1>2, <2>3, <2>4 DEF InsertDayAsk
<1>3. ASSUME NEW h \in Handlers, NEW a \in Asks, InsertSwap(h, a)
      PROVE  TypeOK'
  <2>1. handlers[h] \in Swapping
    BY <1>3, HandlerKinds DEF InsertSwap
  <2> QED
    BY <1>3, <2>1 DEF InsertSwap, Goto, Swapping
<1>4. ASSUME NEW h \in Handlers, NEW a \in Asks, ReadForAccept(h, a)
      PROVE  TypeOK'
  BY <1>4 DEF ReadForAccept, Goto, Accepting
<1>5. ASSUME NEW h \in Handlers, NEW u \in Users, NEW v \in Users,
             NEW sat \in Saturdays, NEW off \in Saturdays, ReadForSwap(h, u, v, sat, off)
      PROVE  TypeOK'
  BY <1>5, NewSwapType DEF ReadForSwap, Goto, Swapping
<1>6. ASSUME NEW h \in Handlers, Accept(h)
      PROVE  TypeOK'
  <2>1. handlers[h].id \in Asks
    BY <1>6, HandlerKinds DEF Accept, Accepting
  <2>2. Unanswered(handlers[h].id) => [asks[handlers[h].id] EXCEPT !.answer = "accepted"] \in SwapAsk
    BY <2>1, AskKinds, SwapAskUpdates DEF Unanswered, Statuses
  <2> QED
    BY <1>6, <2>1, <2>2 DEF Accept, Goto
<1>7. ASSUME NEW a \in Asks, Decline(a)
      PROVE  TypeOK'
  <2>1. [asks[a] EXCEPT !.answer = "declined", !.status = "rejected"] \in SwapAsk
    BY <1>7, AskKinds, SwapAskUpdates DEF Decline, Unanswered, Statuses
  <2> QED
    BY <1>7, <2>1 DEF Decline
<1>8. ASSUME NEW a \in Asks, NEW st \in Statuses, IsPending(a),
             asks' = [asks EXCEPT ![a].status = st], UNCHANGED <<decided, handlers, hasty>>
      PROVE  TypeOK'
  <2>1. [asks[a] EXCEPT !.status = st] \in DayAsk \cup SwapAsk
    BY <1>8, AskKinds, DayAskUpdates, SwapAskUpdates DEF IsPending
  <2> QED
    BY <1>8, <2>1
<1>9. ASSUME NEW a \in Asks, NEW u \in Users, NEW days \in Spans, ErpFile(a, u, days)
      PROVE  TypeOK'
  BY <1>9, NewDayAskType, OvertakeType DEF ErpFile
<1>10. ASSUME NEW a \in Asks, NEW marked \in SUBSET Days, ErpApproveDays(a, marked)
       PROVE  TypeOK'
  <2>1. asks[a] \in DayAsk
    BY <1>10, AskKinds DEF ErpApproveDays
  <2>2. [asks[a] EXCEPT !.status = "approved", !.marked = marked] \in DayAsk
    BY <2>1, DayAskUpdates DEF Statuses
  <2>3. asks[a].user \in Users
    BY <2>1 DEF DayAsk
  <2> QED
    BY <1>10, <2>2, <2>3 DEF ErpApproveDays
<1>11. ASSUME NEW a \in Asks, ErpApproveSwap(a)
       PROVE  TypeOK'
  <2>1. asks[a] \in SwapAsk
    BY <1>11, AskKinds DEF ErpApproveSwap
  <2>2. [asks[a] EXCEPT !.status = "approved"] \in SwapAsk
    BY <2>1, SwapAskUpdates DEF Statuses
  <2>3. People(asks[a]) \subseteq Users /\ Traded(asks[a]) \subseteq Days
    BY <2>1, AskConstants DEF SwapAsk, People, Traded
  <2> QED
    BY <1>11, <2>2, <2>3 DEF ErpApproveSwap
<1>12. ASSUME NEW a \in Asks, NEW d \in Days, ErpUnmark(a, d)
       PROVE  TypeOK'
  <2>1. asks[a] \in DayAsk
    BY <1>12, AskKinds DEF ErpUnmark
  <2>2. asks[a].marked \ {d} \in SUBSET Days
    BY <2>1 DEF DayAsk
  <2>3. [asks[a] EXCEPT !.marked = @ \ {d}] \in DayAsk
    BY <2>1, <2>2, DayAskUpdates DEF Statuses
  <2> QED
    BY <1>12, <2>3 DEF ErpUnmark
<1>13. CASE UNCHANGED vars
  BY <1>13 DEF vars
<1>14. CASE Crash
  BY <1>14 DEF Crash
<1> QED
  BY <1>1, <1>2, <1>3, <1>4, <1>5, <1>6, <1>7, <1>8, <1>9, <1>10, <1>11, <1>12, <1>13, <1>14
  DEF Next, Cancel, ErpReject, Statuses

\* Every row and everything a handler holds is well formed.
THEOREM TypeCorrect == Spec => []TypeOK
<1>1. Init => TypeOK
  BY DEF Init, TypeOK, NoAsk, Idle
<1> QED
  BY <1>1, TypeStep, PTL DEF Spec

-----------------------------------------------------------------------------
(* A Saturday is agreed away once.  The property is not inductive: a partner *)
(* who is about to accept counts too, for nothing they read will be read     *)
(* again.                                                                    *)

\* A partner is about to accept.
IsAccepting(a) == \E h \in Handlers : handlers[h].pc = "accept" /\ handlers[h].id = a

\* Accepted, or certain to be if nobody withdraws or answers it first.
Committed(a) ==
  IsSwap(a) /\ IsOpen(a) /\ (asks[a].answer = "accepted" \/ IsAccepting(a))

\* Two committed swaps are not of one person and Saturday.
OneCommitment ==
  \A a, b \in Asks : a # b /\ Committed(a) /\ Committed(b) => ~Conflict(asks[a], asks[b])

\* Only swaps are accepted.
AcceptsSwaps == \A h \in Handlers : handlers[h].pc = "accept" => IsSwap(handlers[h].id)

\* The inductive invariant.
AgreementInv ==
  /\ TypeOK
  /\ AcceptsSwaps
  /\ OneCommitment

\* Swaps conflict both ways.
LEMMA ConflictSymmetric ==
  ASSUME NEW s, NEW t
  PROVE  Conflict(s, t) <=> Conflict(t, s)
BY DEF Conflict

\* A step that commits nobody new, and leaves the swaps of the committed as they
\* are, keeps commitments apart.
LEMMA NoNewCommitment ==
  ASSUME OneCommitment,
         \A a \in Asks : Committed(a)' =>
           /\ Committed(a)
           /\ People(asks'[a]) = People(asks[a])
           /\ Traded(asks'[a]) = Traded(asks[a])
  PROVE  OneCommitment'
BY DEF OneCommitment, Conflict

\* A row that is replaced by a version of itself that is not newly accepted.
LEMMA AskUpdateKeeps ==
  ASSUME AgreementInv, NEW a \in Asks, NEW new \in DayAsk \cup SwapAsk,
         asks' = [asks EXCEPT ![a] = new], handlers' = handlers,
         asks[a] # NoAsk, new.kind = asks[a].kind,
         IsSwap(a) => /\ new.user = asks[a].user /\ new.partner = asks[a].partner
                      /\ new.work = asks[a].work /\ new.off = asks[a].off
                      /\ new.answer = "accepted" => asks[a].answer = "accepted"
                      /\ new.status \in {"pending", "approved"} =>
                           asks[a].status \in {"pending", "approved"}
  PROVE  /\ OneCommitment'
         /\ AcceptsSwaps'
<1>1. asks'[a] = new /\ \A b \in Asks \ {a} : asks'[b] = asks[b]
  BY DEF AgreementInv, TypeOK
<1>2. \A b \in Asks : IsSwap(b)' <=> IsSwap(b)
  BY <1>1 DEF IsSwap
<1>3. \A b \in Asks : IsAccepting(b)' <=> IsAccepting(b)
  BY DEF IsAccepting
<1>4. ASSUME NEW b \in Asks, Committed(b)'
      PROVE  Committed(b) /\ People(asks'[b]) = People(asks[b]) /\ Traded(asks'[b]) = Traded(asks[b])
  <2>1. CASE b # a
    BY <1>1, <1>2, <1>3, <1>4, <2>1 DEF Committed, IsOpen
  <2>2. CASE b = a
    <3>1. IsSwap(a) /\ IsOpen(a) /\ (asks[a].answer = "accepted" \/ IsAccepting(a))
      BY <1>1, <1>2, <1>3, <1>4, <2>2 DEF Committed, IsOpen
    <3> QED
      BY <1>1, <2>2, <3>1 DEF Committed, People, Traded
  <2> QED
    BY <2>1, <2>2
<1>5. OneCommitment'
  BY <1>4, NoNewCommitment DEF AgreementInv
<1> QED
  BY <1>2, <1>5, HandlerKinds DEF AgreementInv, AcceptsSwaps, Accepting

\* A step that only gives handlers something else than an acceptance to do, and
\* adds rows that are not accepted.
LEMMA NoAcceptanceKeeps ==
  ASSUME AgreementInv,
         \A h \in Handlers : handlers'[h].pc = "accept" => handlers'[h] = handlers[h],
         \A a \in Asks : \/ asks'[a] = asks[a]
                         \/ asks[a] = NoAsk /\ (IsSwap(a)' => asks'[a].answer = "pending")
  PROVE  /\ OneCommitment'
         /\ AcceptsSwaps'
<1>1. \A h \in Handlers : handlers'[h].pc = "accept" =>
        handlers[h].pc = "accept" /\ handlers'[h].id = handlers[h].id /\ handlers[h].id \in Asks
                                  /\ IsSwap(handlers[h].id)
  BY HandlerKinds DEF AgreementInv, AcceptsSwaps, Accepting
<1>2. \A a \in Asks : IsSwap(a) => asks'[a] = asks[a]
  BY DEF IsSwap, NoAsk
<1>3. \A a \in Asks : IsAccepting(a)' => IsAccepting(a) /\ IsSwap(a)
  BY <1>1 DEF IsAccepting
<1>4. ASSUME NEW a \in Asks, Committed(a)'
      PROVE  Committed(a) /\ People(asks'[a]) = People(asks[a]) /\ Traded(asks'[a]) = Traded(asks[a])
  <2>1. asks'[a] = asks[a]
    BY <1>2, <1>3, <1>4 DEF Committed
  <2> QED
    BY <1>3, <1>4, <2>1 DEF Committed, IsSwap, IsOpen, People, Traded
<1>5. OneCommitment'
  BY <1>4, NoNewCommitment DEF AgreementInv
<1> QED
  BY <1>1, <1>2, <1>5 DEF IsSwap, AcceptsSwaps

\* Commitments stay apart in every step.
LEMMA AgreementStep == AgreementInv /\ [Next]_vars => AgreementInv'
<1> SUFFICES ASSUME AgreementInv, [Next]_vars PROVE AgreementInv'
  OBVIOUS
<1>a. TypeOK /\ TypeOK'
  BY TypeStep DEF AgreementInv
<1>b. DOMAIN handlers = Handlers /\ handlers \in [Handlers -> {Idle} \cup Filing \cup Swapping \cup Accepting]
  BY <1>a DEF TypeOK
<1> DEFINE Kept == /\ OneCommitment'
                   /\ AcceptsSwaps'
<1>1. ASSUME NEW h \in Handlers, NEW u \in Users, NEW days \in Spans, ReadForApply(h, u, days)
      PROVE  Kept
  <2>1. \A g \in Handlers : handlers'[g].pc = "accept" => handlers'[g] = handlers[g]
    BY <1>1, <1>b DEF ReadForApply, Goto
  <2> QED
    BY <1>1, <2>1, NoAcceptanceKeeps DEF ReadForApply
<1>2. ASSUME NEW h \in Handlers, NEW a \in Asks, InsertDayAsk(h, a)
      PROVE  Kept
  <2>1. \A g \in Handlers : handlers'[g].pc = "accept" => handlers'[g] = handlers[g]
    BY <1>2, <1>b DEF InsertDayAsk, Overtake, Idle
  <2>2. handlers[h].ask.kind = "day"
    BY <1>2, <1>a, HandlerKinds DEF InsertDayAsk, Filing, DayAsk
  <2>3. \A b \in Asks : asks'[b] = asks[b] \/ (asks[b] = NoAsk /\ ~IsSwap(b)')
    BY <1>2, <1>a, <2>2 DEF InsertDayAsk, TypeOK, IsSwap
  <2> QED
    BY <2>1, <2>3, NoAcceptanceKeeps
<1>3. ASSUME NEW h \in Handlers, NEW a \in Asks, InsertSwap(h, a)
      PROVE  Kept
  <2>1. \A g \in Handlers : handlers'[g].pc = "accept" => handlers'[g] = handlers[g]
    BY <1>3, <1>b DEF InsertSwap, Goto, Idle
  <2>2. handlers[h].ask.answer = "pending"
    BY <1>3, <1>a, HandlerKinds DEF InsertSwap, Swapping
  <2>3. \A b \in Asks : asks'[b] = asks[b] \/ (asks[b] = NoAsk /\ asks'[b].answer = "pending")
    BY <1>3, <1>a, <2>2 DEF InsertSwap, TypeOK
  <2> QED
    BY <2>1, <2>3, NoAcceptanceKeeps
<1>4. ASSUME NEW h \in Handlers, NEW c \in Asks, ReadForAccept(h, c)
      PROVE  Kept
  <2>1. asks' = asks /\ handlers' = [handlers EXCEPT ![h] = [pc |-> "accept", id |-> c]]
    BY <1>4 DEF ReadForAccept, Goto
  <2>2. \A g \in Handlers : handlers'[g] = IF g = h THEN [pc |-> "accept", id |-> c] ELSE handlers[g]
    BY <2>1, <1>b
  <2>3. \A a \in Asks \ {c} : Committed(a)' => Committed(a)
    BY <2>1, <2>2 DEF Committed, IsAccepting, IsSwap, IsOpen
  <2>4. \A a \in Asks \ {c} : Committed(a) => ~Conflict(asks[c], asks[a])
    BY <1>4 DEF ReadForAccept, Undecided, Committed
  <2>5. OneCommitment'
    BY <2>1, <2>3, <2>4, ConflictSymmetric DEF AgreementInv, OneCommitment
  <2>6. AcceptsSwaps'
    BY <1>4, <2>1, <2>2 DEF AgreementInv, AcceptsSwaps, ReadForAccept, IsSwap
  <2> QED
    BY <2>5, <2>6
<1>5. ASSUME NEW h \in Handlers, NEW u \in Users, NEW v \in Users,
             NEW sat \in Saturdays, NEW off \in Saturdays, ReadForSwap(h, u, v, sat, off)
      PROVE  Kept
  <2>1. \A g \in Handlers : handlers'[g].pc = "accept" => handlers'[g] = handlers[g]
    BY <1>5, <1>b DEF ReadForSwap, Goto
  <2> QED
    BY <1>5, <2>1, NoAcceptanceKeeps DEF ReadForSwap
<1>6. ASSUME NEW h \in Handlers, Accept(h)
      PROVE  Kept
  <2> DEFINE c == handlers[h].id
  <2>1. c \in Asks /\ IsAccepting(c)
    BY <1>6, <1>a, HandlerKinds DEF Accept, Accepting, IsAccepting
  <2>2. \A g \in Handlers : handlers'[g].pc = "accept" =>
          handlers[g].pc = "accept" /\ handlers'[g].id = handlers[g].id
    BY <1>6, <1>b DEF Accept, Goto, Idle
  <2>3. \A a \in Asks : IsAccepting(a)' => IsAccepting(a)
    BY <2>2 DEF IsAccepting
  <2>4. \A a \in Asks \ {c} : asks'[a] = asks[a]
    BY <1>6, <1>a DEF Accept, TypeOK
  <2>5. asks'[c] = asks[c] \/ (IsSwap(c) /\ IsOpen(c) /\ asks'[c] = [asks[c] EXCEPT !.answer = "accepted"])
    BY <1>6, <1>a, <2>1, AskKinds DEF Accept, Unanswered, IsPending, IsOpen, TypeOK
  <2>6. \A a \in Asks : IsSwap(a) => asks'[a].kind = "swap"
    BY <2>1, <2>4, <2>5, <1>a, AskKinds DEF IsSwap, SwapAsk
  <2>7. ASSUME NEW a \in Asks, Committed(a)'
        PROVE  Committed(a) /\ People(asks'[a]) = People(asks[a]) /\ Traded(asks'[a]) = Traded(asks[a])
    <3>1. CASE asks'[a] = asks[a]
      BY <2>3, <2>7, <3>1 DEF Committed, IsSwap, IsOpen
    <3>2. CASE asks'[a] # asks[a]
      <4>1. a = c /\ IsSwap(a) /\ IsOpen(a) /\ asks'[a] = [asks[a] EXCEPT !.answer = "accepted"]
        BY <2>4, <2>5, <3>2
      <4>2. asks[a] \in SwapAsk
        BY <4>1, <1>a, AskKinds
      <4> QED
        BY <2>1, <4>1, <4>2 DEF Committed, People, Traded, SwapAsk
    <3> QED
      BY <3>1, <3>2
  <2>8. OneCommitment'
    BY <2>7, NoNewCommitment DEF AgreementInv
  <2>9. AcceptsSwaps'
    BY <2>2, <2>6, <1>a, HandlerKinds DEF AgreementInv, AcceptsSwaps, IsSwap, Accepting
  <2> QED
    BY <2>8, <2>9
<1>7. ASSUME NEW a \in Asks, Decline(a)
      PROVE  Kept
  <2>1. asks[a] \in SwapAsk /\ asks[a] # NoAsk
    BY <1>7, <1>a, AskKinds DEF Decline, Unanswered
  <2> DEFINE new == [asks[a] EXCEPT !.answer = "declined", !.status = "rejected"]
  <2>2. new \in SwapAsk /\ asks' = [asks EXCEPT ![a] = new] /\ handlers' = handlers
    BY <1>7, <2>1, SwapAskUpdates DEF Decline, Statuses
  <2>3. /\ new.kind = asks[a].kind /\ new.user = asks[a].user /\ new.partner = asks[a].partner
        /\ new.work = asks[a].work /\ new.off = asks[a].off
        /\ new.answer = "declined" /\ new.status = "rejected"
    BY <2>1 DEF SwapAsk
  <2> HIDE DEF new
  <2> QED
    BY <2>1, <2>2, <2>3, AskUpdateKeeps
<1>8. ASSUME NEW a \in Asks, NEW st \in Statuses, IsPending(a),
             asks' = [asks EXCEPT ![a].status = st], UNCHANGED <<decided, handlers, hasty>>
      PROVE  Kept
  <2>1. asks[a] \in DayAsk \cup SwapAsk /\ asks[a] # NoAsk /\ (IsSwap(a) => asks[a] \in SwapAsk)
    BY <1>8, <1>a, AskKinds DEF IsPending
  <2> DEFINE new == [asks[a] EXCEPT !.status = st]
  <2>2. new \in DayAsk \cup SwapAsk /\ asks' = [asks EXCEPT ![a] = new] /\ handlers' = handlers
    BY <1>8, <2>1, SwapAskUpdates, DayAskUpdates
  <2>3. /\ new.kind = asks[a].kind
        /\ IsSwap(a) => /\ new.user = asks[a].user /\ new.partner = asks[a].partner
                        /\ new.work = asks[a].work /\ new.off = asks[a].off
                        /\ new.answer = asks[a].answer /\ asks[a].status = "pending"
    BY <1>8, <2>1 DEF SwapAsk, DayAsk, IsPending
  <2> HIDE DEF new
  <2> QED
    BY <2>1, <2>2, <2>3, AskUpdateKeeps
<1>9. ASSUME NEW a \in Asks, NEW u \in Users, NEW days \in Spans, ErpFile(a, u, days)
      PROVE  Kept
  <2>1. \A g \in Handlers : handlers'[g].pc = "accept" => handlers'[g] = handlers[g]
    BY <1>9, <1>b DEF ErpFile, Overtake
  <2>2. \A b \in Asks : asks'[b] = asks[b] \/ (asks[b] = NoAsk /\ ~IsSwap(b)')
    BY <1>9, <1>a DEF ErpFile, TypeOK, IsSwap, NewDayAsk
  <2> QED
    BY <2>1, <2>2, NoAcceptanceKeeps
<1>10. ASSUME NEW a \in Asks, NEW new \in DayAsk, IsDayAsk(a),
              asks' = [asks EXCEPT ![a] = new], handlers' = handlers
       PROVE  Kept
  <2>1. asks[a] # NoAsk /\ ~IsSwap(a) /\ new.kind = asks[a].kind
    BY <1>10, <1>a, AskKinds DEF IsDayAsk, DayAsk
  <2> QED
    BY <1>10, <2>1, AskUpdateKeeps
<1>11. ASSUME NEW a \in Asks, NEW marked \in SUBSET Days, ErpApproveDays(a, marked)
       PROVE  Kept
  <2>1. [asks[a] EXCEPT !.status = "approved", !.marked = marked] \in DayAsk
    BY <1>11, <1>a, AskKinds, DayAskUpdates DEF ErpApproveDays, Statuses
  <2> QED
    BY <1>10, <1>11, <2>1 DEF ErpApproveDays
<1>12. ASSUME NEW a \in Asks, ErpApproveSwap(a)
       PROVE  Kept
  <2>1. asks[a] \in SwapAsk /\ asks[a] # NoAsk /\ asks[a].status = "pending"
    BY <1>12, <1>a, AskKinds DEF ErpApproveSwap, IsPending
  <2> DEFINE new == [asks[a] EXCEPT !.status = "approved"]
  <2>2. new \in SwapAsk /\ asks' = [asks EXCEPT ![a] = new] /\ handlers' = handlers
    BY <1>12, <2>1, SwapAskUpdates DEF ErpApproveSwap, Statuses
  <2>3. /\ new.kind = asks[a].kind /\ new.user = asks[a].user /\ new.partner = asks[a].partner
        /\ new.work = asks[a].work /\ new.off = asks[a].off /\ new.answer = asks[a].answer
    BY <2>1 DEF SwapAsk
  <2> HIDE DEF new
  <2> QED
    BY <2>1, <2>2, <2>3, AskUpdateKeeps
<1>13. ASSUME NEW a \in Asks, NEW d \in Days, ErpUnmark(a, d)
       PROVE  Kept
  <2>1. asks[a] \in DayAsk
    BY <1>13, <1>a, AskKinds DEF ErpUnmark
  <2>2. [asks[a] EXCEPT !.marked = @ \ {d}] \in DayAsk
    BY <2>1 DEF DayAsk
  <2> QED
    BY <1>10, <1>13, <2>2 DEF ErpUnmark
<1>14. ASSUME Crash PROVE Kept
  <2>1. \A g \in Handlers : handlers'[g].pc # "accept"
    BY <1>14 DEF Crash, Idle
  <2> QED
    BY <1>14, <2>1, NoAcceptanceKeeps DEF Crash
<1>15. ASSUME UNCHANGED vars PROVE Kept
  BY <1>15, NoAcceptanceKeeps DEF vars
<1>16. ASSUME NEW a \in Asks, Cancel(a) \/ ErpReject(a)
       PROVE  Kept
  BY <1>8, <1>16 DEF Cancel, ErpReject, Statuses
<1>17. Kept
  BY <1>1, <1>2, <1>3, <1>4, <1>5, <1>6, <1>7, <1>9, <1>11, <1>12, <1>13, <1>14, <1>15, <1>16
  DEF Next
<1> QED
  BY <1>a, <1>17 DEF AgreementInv

\* Two open swaps that share a person and a Saturday are never both accepted,
\* in whatever order requests, answers, withdrawals and decisions interleave.
THEOREM AgreedOnce == Spec => []OneAgreementPerSaturday
<1>1. Init => AgreementInv
  BY DEF Init, AgreementInv, AcceptsSwaps, TypeOK, OneCommitment, Committed, IsSwap, NoAsk, Idle
<1>2. AgreementInv => OneAgreementPerSaturday
  BY DEF AgreementInv, OneCommitment, Committed, OneAgreementPerSaturday, Agreed
<1> QED
  BY <1>1, <1>2, AgreementStep, PTL DEF Spec

-----------------------------------------------------------------------------
(* One ask per day.  Inductive with what a handler about to file relies on:  *)
(* unless it has been overtaken, its reading still holds.                    *)

\* What a handler read of its days, unless overtaken, is so still.
ReadingsHold ==
  \A h \in Handlers : handlers[h].pc = "file" /\ ~handlers[h].overtaken =>
    ~LeaveClash(handlers[h].ask.user, handlers[h].ask.days)

\* The inductive invariant.
DaysInv == TypeOK /\ OneAskPerDayUnlessRace /\ ReadingsHold

\* A step after which no row claims a day that it did not claim (withdrawals,
\* decisions, days HR takes back).
LEMMA FewerClaims ==
  ASSUME DaysInv, hasty \subseteq hasty',
         \A a \in Asks : IsDayAsk(a)' =>
           /\ IsDayAsk(a)
           /\ asks'[a].user = asks[a].user
           /\ Claimed(asks'[a]) \subseteq Claimed(asks[a]),
         \A h \in Handlers : handlers'[h].pc = "file" => handlers'[h] = handlers[h]
  PROVE  OneAskPerDayUnlessRace' /\ ReadingsHold'
<1>1. OneAskPerDayUnlessRace'
  BY DEF DaysInv, OneAskPerDayUnlessRace
<1>2. ASSUME NEW u, NEW days, ~LeaveClash(u, days)
      PROVE  \A a \in Asks : IsDayAsk(a)' /\ asks'[a].user = u => Claimed(asks'[a]) \cap days = {}
  BY <1>2 DEF LeaveClash
<1>3. ReadingsHold'
  BY <1>2 DEF DaysInv, ReadingsHold, LeaveClash
<1> QED
  BY <1>1, <1>3

\* A step that files one more row: on a reading that holds, or marked as hasty,
\* and overtaking everybody who is about to file for the same person.
LEMMA OneMoreClaim ==
  ASSUME DaysInv, NEW a \in Asks, NEW f \in DayAsk,
         asks[a] = NoAsk, f.status = "pending", asks' = [asks EXCEPT ![a] = f],
         hasty \subseteq hasty', a \in hasty' \/ ~LeaveClash(f.user, f.days),
         \A h \in Handlers : handlers'[h].pc = "file" /\ ~handlers'[h].overtaken =>
           handlers'[h] = handlers[h] /\ handlers[h].ask.user # f.user
  PROVE  OneAskPerDayUnlessRace' /\ ReadingsHold'
<1>1. asks'[a] = f /\ \A b \in Asks \ {a} : asks'[b] = asks[b]
  BY DEF DaysInv, TypeOK
<1>2. Claimed(f) = f.days
  BY DEF Claimed
<1>3. \A b \in Asks \ {a} : IsDayAsk(b)' <=> IsDayAsk(b)
  BY <1>1 DEF IsDayAsk
<1>4. ASSUME a \notin hasty', NEW b \in Asks \ {a}, IsDayAsk(b), asks[b].user = f.user
      PROVE  Claimed(asks[b]) \cap Claimed(f) = {}
  BY <1>2, <1>4 DEF LeaveClash
<1>5. OneAskPerDayUnlessRace'
  BY <1>1, <1>3, <1>4 DEF DaysInv, OneAskPerDayUnlessRace
<1>6. ASSUME NEW u, u # f.user, NEW days, ~LeaveClash(u, days)
      PROVE  \A b \in Asks : IsDayAsk(b)' /\ asks'[b].user = u => Claimed(asks'[b]) \cap days = {}
  BY <1>1, <1>3, <1>6 DEF LeaveClash
<1>7. ASSUME NEW h \in Handlers, handlers'[h].pc = "file", ~handlers'[h].overtaken
      PROVE  (~LeaveClash(handlers[h].ask.user, handlers[h].ask.days))'
  <2> DEFINE u == handlers[h].ask.user
             days == handlers[h].ask.days
  <2>1. handlers'[h].ask.user = u /\ handlers'[h].ask.days = days /\ u # f.user
    BY <1>7
  <2>2. ~LeaveClash(u, days)
    BY <1>7 DEF DaysInv, ReadingsHold
  <2>3. \A b \in Asks : IsDayAsk(b)' /\ asks'[b].user = u => Claimed(asks'[b]) \cap days = {}
    BY <1>6, <2>1, <2>2
  <2> QED
    BY <2>1, <2>3 DEF LeaveClash
<1>8. ReadingsHold'
  BY <1>7 DEF ReadingsHold
<1> QED
  BY <1>5, <1>8

\* Every step keeps the asks of a day apart.
LEMMA DaysStep == DaysInv /\ [Next]_vars => DaysInv'
<1> SUFFICES ASSUME DaysInv, [Next]_vars PROVE DaysInv'
  OBVIOUS
<1>a. TypeOK /\ TypeOK'
  BY TypeStep DEF DaysInv
<1>b. DOMAIN handlers = Handlers
  BY <1>a DEF TypeOK
<1> DEFINE Apart == OneAskPerDayUnlessRace' /\ ReadingsHold'
<1>1. ASSUME NEW h \in Handlers, NEW u \in Users, NEW days \in Spans, ReadForApply(h, u, days)
      PROVE  Apart
  <2>1. asks' = asks /\ hasty' = hasty /\ ~LeaveClash(u, days)
    BY <1>1 DEF ReadForApply
  <2>2. handlers'[h].ask.user = u /\ handlers'[h].ask.days = days
        /\ \A g \in Handlers \ {h} : handlers'[g] = handlers[g]
    BY <1>1, <1>b DEF ReadForApply, Goto, NewDayAsk
  <2>3. OneAskPerDayUnlessRace'
    BY <2>1 DEF DaysInv, OneAskPerDayUnlessRace, IsDayAsk
  <2>4. ReadingsHold'
    BY <2>1, <2>2 DEF DaysInv, ReadingsHold, LeaveClash, IsDayAsk
  <2> QED
    BY <2>3, <2>4
<1>2. ASSUME NEW h \in Handlers, NEW a \in Asks, InsertDayAsk(h, a)
      PROVE  Apart
  <2>1. handlers[h] \in Filing
    BY <1>2, <1>a, HandlerKinds DEF InsertDayAsk
  <2> DEFINE f == handlers[h].ask
  <2>2. f \in DayAsk /\ f.status = "pending"
    BY <2>1 DEF Filing
  <2>3. asks[a] = NoAsk /\ asks' = [asks EXCEPT ![a] = f]
    BY <1>2 DEF InsertDayAsk
  <2>4. hasty \subseteq hasty' /\ (a \in hasty' \/ ~LeaveClash(f.user, f.days))
    BY <1>2 DEF InsertDayAsk, DaysInv, ReadingsHold
  <2>5. \A g \in Handlers : handlers'[g].pc = "file" /\ ~handlers'[g].overtaken =>
          handlers'[g] = handlers[g] /\ handlers[g].ask.user # f.user
    <3>1. ASSUME NEW g \in Handlers, handlers'[g].pc = "file", ~handlers'[g].overtaken
          PROVE  handlers'[g] = handlers[g] /\ handlers[g].ask.user # f.user
      <4>1. g # h
        BY <1>2, <1>b, <3>1 DEF InsertDayAsk, Overtake, Idle
      <4>2. handlers'[g] = IF handlers[g].pc = "file" /\ handlers[g].ask.user = f.user
                           THEN [handlers[g] EXCEPT !.overtaken = TRUE] ELSE handlers[g]
        BY <1>2, <1>b, <4>1 DEF InsertDayAsk, Overtake
      <4>3. handlers[g].pc = "file" => [handlers[g] EXCEPT !.overtaken = TRUE].overtaken
        BY <1>a, HandlerKinds DEF Filing
      <4> QED
        BY <3>1, <4>2, <4>3
    <3> QED
      BY <3>1
  <2> HIDE DEF f
  <2> QED
    BY <2>2, <2>3, <2>4, <2>5, OneMoreClaim
<1>3. ASSUME NEW a \in Asks, NEW u \in Users, NEW days \in Spans, ErpFile(a, u, days)
      PROVE  Apart
  <2> DEFINE f == NewDayAsk(u, days, "sheet")
  <2>1. f \in DayAsk /\ f.status = "pending" /\ f.user = u /\ f.days = days
    BY NewDayAskType DEF NewDayAsk
  <2>2. asks[a] = NoAsk /\ asks' = [asks EXCEPT ![a] = f] /\ hasty' = hasty /\ ~LeaveClash(u, days)
    BY <1>3 DEF ErpFile
  <2>3. ASSUME NEW g \in Handlers, handlers'[g].pc = "file", ~handlers'[g].overtaken
        PROVE  handlers'[g] = handlers[g] /\ handlers[g].ask.user # u
    <3>1. handlers'[g] = IF handlers[g].pc = "file" /\ handlers[g].ask.user = u
                         THEN [handlers[g] EXCEPT !.overtaken = TRUE] ELSE handlers[g]
      BY <1>3 DEF ErpFile, Overtake
    <3>2. handlers[g].pc = "file" => [handlers[g] EXCEPT !.overtaken = TRUE].overtaken
      BY <1>a, HandlerKinds DEF Filing
    <3> QED
      BY <2>3, <3>1, <3>2
  <2> HIDE DEF f
  <2> QED
    BY <2>1, <2>2, <2>3, OneMoreClaim
<1>4. ASSUME hasty' = hasty, asks' = asks,
             \A h \in Handlers : handlers'[h].pc = "file" => handlers'[h] = handlers[h]
      PROVE  Apart
  BY <1>4, FewerClaims DEF IsDayAsk
<1>5. ASSUME NEW a \in Asks, NEW new, asks[a] # NoAsk, hasty' = hasty,
             asks' = [asks EXCEPT ![a] = new],
             \A h \in Handlers : handlers'[h].pc = "file" => handlers'[h] = handlers[h],
             new.kind = asks[a].kind, new.user = asks[a].user,
             IsDayAsk(a) => Claimed(new) \subseteq Claimed(asks[a])
      PROVE  Apart
  <2>1. asks'[a] = new /\ \A b \in Asks \ {a} : asks'[b] = asks[b]
    BY <1>5, <1>a DEF TypeOK
  <2> QED
    BY <1>5, <2>1, FewerClaims DEF IsDayAsk
<1>6. ASSUME NEW h \in Handlers, NEW a \in Asks, InsertSwap(h, a)
      PROVE  Apart
  <2>1. handlers[h].ask \in SwapAsk
    BY <1>6, <1>a, HandlerKinds DEF InsertSwap, Swapping
  <2>2. \A b \in Asks : IsDayAsk(b)' => asks'[b] = asks[b]
    BY <1>6, <1>a, <2>1 DEF InsertSwap, TypeOK, IsDayAsk, SwapAsk
  <2>3. \A g \in Handlers : handlers'[g].pc = "file" => handlers'[g] = handlers[g]
    BY <1>6, <1>b DEF InsertSwap, Goto, Idle
  <2> QED
    BY <1>6, <2>2, <2>3, FewerClaims DEF InsertSwap, IsDayAsk
<1>7. ASSUME NEW h \in Handlers, NEW a \in Asks, ReadForAccept(h, a)
      PROVE  Apart
  BY <1>4, <1>7, <1>b DEF ReadForAccept, Goto
<1>8. ASSUME NEW h \in Handlers, NEW u \in Users, NEW v \in Users,
             NEW sat \in Saturdays, NEW off \in Saturdays, ReadForSwap(h, u, v, sat, off)
      PROVE  Apart
  BY <1>4, <1>8, <1>b DEF ReadForSwap, Goto
<1>9. ASSUME NEW h \in Handlers, Accept(h)
      PROVE  Apart
  <2> DEFINE a == handlers[h].id
             new == [asks[a] EXCEPT !.answer = "accepted"]
  <2>1. hasty' = hasty /\ \A g \in Handlers : handlers'[g].pc = "file" => handlers'[g] = handlers[g]
    BY <1>9, <1>b DEF Accept, Goto, Idle
  <2>2. CASE ~Unanswered(a)
    BY <1>4, <1>9, <2>1, <2>2 DEF Accept
  <2>3. CASE Unanswered(a)
    <3>1. a \in Asks /\ asks[a] \in SwapAsk /\ asks[a] # NoAsk /\ ~IsDayAsk(a)
      BY <1>9, <1>a, <2>3, HandlerKinds, AskKinds DEF Accept, Accepting, Unanswered
    <3>2. new.kind = asks[a].kind /\ new.user = asks[a].user
      BY <3>1 DEF SwapAsk
    <3>3. asks' = [asks EXCEPT ![a] = new]
      BY <1>9, <2>3 DEF Accept
    <3> QED
      BY <1>5, <2>1, <3>1, <3>2, <3>3
  <2> QED
    BY <2>2, <2>3
<1>10. ASSUME NEW a \in Asks, Decline(a)
       PROVE  Apart
  <2>1. asks[a] \in SwapAsk /\ asks[a] # NoAsk /\ ~IsDayAsk(a)
    BY <1>10, <1>a, AskKinds DEF Decline, Unanswered
  <2> DEFINE new == [asks[a] EXCEPT !.answer = "declined", !.status = "rejected"]
  <2>2. new.kind = asks[a].kind /\ new.user = asks[a].user
    BY <2>1 DEF SwapAsk
  <2> QED
    BY <1>5, <1>10, <2>1, <2>2 DEF Decline
<1>11. ASSUME NEW a \in Asks, Cancel(a) \/ ErpReject(a) \/ ErpApproveSwap(a)
       PROVE  Apart
  <2>1. PICK st \in {"cancelled", "rejected", "approved"} :
          /\ asks' = [asks EXCEPT ![a].status = st]
          /\ st = "approved" => IsSwap(a)
    BY <1>11 DEF Cancel, ErpReject, ErpApproveSwap
  <2>2. asks[a] \in DayAsk \cup SwapAsk /\ asks[a] # NoAsk /\ handlers' = handlers /\ hasty' = hasty
    BY <1>11, <1>a, AskKinds DEF Cancel, ErpReject, ErpApproveSwap, IsPending
  <2> DEFINE new == [asks[a] EXCEPT !.status = st]
  <2>3. new.kind = asks[a].kind /\ new.user = asks[a].user /\ new.status = st
    BY <2>2 DEF DayAsk, SwapAsk
  <2>4. IsDayAsk(a) => Claimed(new) = {}
    BY <2>1, <2>3, <1>a, AskKinds DEF Claimed
  <2>5. asks' = [asks EXCEPT ![a] = new]
    BY <2>1
  <2> HIDE DEF new
  <2> QED
    BY <1>5, <2>2, <2>3, <2>4, <2>5
<1>12. ASSUME NEW a \in Asks, NEW marked \in SUBSET Days, ErpApproveDays(a, marked)
       PROVE  Apart
  <2>1. asks[a] \in DayAsk /\ asks[a] # NoAsk /\ asks[a].status = "pending"
    BY <1>12, <1>a, AskKinds DEF ErpApproveDays, IsPending
  <2> DEFINE new == [asks[a] EXCEPT !.status = "approved", !.marked = marked]
  <2>2. new.kind = asks[a].kind /\ new.user = asks[a].user /\ Claimed(new) \subseteq Claimed(asks[a])
    BY <1>12, <2>1 DEF ErpApproveDays, DayAsk, Claimed
  <2> QED
    BY <1>5, <1>12, <2>1, <2>2 DEF ErpApproveDays
<1>13. ASSUME NEW a \in Asks, NEW d \in Days, ErpUnmark(a, d)
       PROVE  Apart
  <2>1. asks[a] \in DayAsk /\ asks[a] # NoAsk
    BY <1>13, <1>a, AskKinds DEF ErpUnmark
  <2> DEFINE new == [asks[a] EXCEPT !.marked = @ \ {d}]
  <2>2. new.kind = asks[a].kind /\ new.user = asks[a].user /\ Claimed(new) \subseteq Claimed(asks[a])
    BY <2>1 DEF DayAsk, Claimed
  <2> QED
    BY <1>5, <1>13, <2>1, <2>2 DEF ErpUnmark
<1>14. ASSUME Crash PROVE Apart
  BY <1>4, <1>14 DEF Crash, Idle
<1>15. ASSUME UNCHANGED vars PROVE Apart
  BY <1>4, <1>15 DEF vars
<1>16. Apart
  BY <1>1, <1>2, <1>3, <1>6, <1>7, <1>8, <1>9, <1>10, <1>11, <1>12, <1>13, <1>14, <1>15 DEF Next
<1> QED
  BY <1>a, <1>16 DEF DaysInv

\* Two open asks of one person claim different days, unless one of them was
\* filed on a reading the other had overtaken: the gap between leaveClash and the
\* insert is the only way to ask twice for a day.
THEOREM AskedOnce == Spec => []OneAskPerDayUnlessRace
<1>1. Init => DaysInv
  BY DEF Init, DaysInv, TypeOK, OneAskPerDayUnlessRace, ReadingsHold, IsDayAsk, NoAsk, Idle
<1>2. DaysInv => OneAskPerDayUnlessRace
  BY DEF DaysInv
<1> QED
  BY <1>1, <1>2, DaysStep, PTL DEF Spec

-----------------------------------------------------------------------------
(* Decisions. *)

\* A step that writes one row, and writes it only while it is pending: its answer
\* too only while it is unanswered.
LEMMA PendingRowStands ==
  ASSUME TypeOK, NEW a \in Asks, NEW new, asks' = [asks EXCEPT ![a] = new],
         asks[a] = NoAsk \/ IsPending(a),
         IsSwap(a) /\ asks[a].answer # "pending" => new.answer = asks[a].answer
  PROVE  \A b \in Asks : Stands(b)
<1>1. asks'[a] = new /\ \A b \in Asks \ {a} : asks'[b] = asks[b]
  BY DEF TypeOK
<1>2. asks[a] = NoAsk => ~IsSwap(a)
  BY DEF IsSwap, NoAsk
<1> QED
  BY <1>1, <1>2 DEF Stands

\* What is decided stands, against every answer, withdrawal and decision that read
\* the row before: the filters of answerSwap and cancelLeaveApplication see to it.
THEOREM DecisionsKept == Spec => DecisionsStand
<1>1. ASSUME TypeOK, [Next]_vars
      PROVE  \A b \in Asks : Stands(b)
  <2>a. ASSUME asks' = asks PROVE \A b \in Asks : Stands(b)
    BY <2>a DEF Stands
  <2>1. ASSUME NEW h \in Handlers, NEW a \in Asks, InsertDayAsk(h, a) \/ InsertSwap(h, a)
        PROVE  \A b \in Asks : Stands(b)
    BY <1>1, <2>1, PendingRowStands DEF InsertDayAsk, InsertSwap, IsSwap, NoAsk
  <2>2. ASSUME NEW h \in Handlers, Accept(h)
        PROVE  \A b \in Asks : Stands(b)
    <3>1. handlers[h].id \in Asks
      BY <1>1, <2>2, HandlerKinds DEF Accept, Accepting
    <3>2. CASE Unanswered(handlers[h].id)
      BY <1>1, <2>2, <3>1, <3>2, PendingRowStands DEF Accept, Unanswered
    <3> QED
      BY <2>2, <2>a, <3>2 DEF Accept
  <2>3. ASSUME NEW a \in Asks, Decline(a)
        PROVE  \A b \in Asks : Stands(b)
    BY <1>1, <2>3, PendingRowStands DEF Decline, Unanswered
  <2>4. ASSUME NEW a \in Asks, NEW st, IsPending(a), asks' = [asks EXCEPT ![a].status = st]
        PROVE  \A b \in Asks : Stands(b)
    <3> DEFINE new == [asks[a] EXCEPT !.status = st]
    <3>1. IsSwap(a) => new.answer = asks[a].answer
      BY <1>1, AskKinds DEF SwapAsk
    <3> QED
      BY <1>1, <2>4, <3>1, PendingRowStands
  <2>5. ASSUME NEW a \in Asks, Cancel(a) \/ ErpReject(a) \/ ErpApproveSwap(a)
        PROVE  \A b \in Asks : Stands(b)
    BY <2>4, <2>5 DEF Cancel, ErpReject, ErpApproveSwap
  <2>6. ASSUME NEW a \in Asks, NEW u \in Users, NEW days \in Spans, ErpFile(a, u, days)
        PROVE  \A b \in Asks : Stands(b)
    <3>1. asks[a] = NoAsk /\ ~IsSwap(a) /\ asks' = [asks EXCEPT ![a] = NewDayAsk(u, days, "sheet")]
      BY <2>6 DEF ErpFile, IsSwap, NoAsk
    <3> QED
      BY <1>1, <3>1, PendingRowStands
  <2>7. ASSUME NEW a \in Asks, NEW marked \in SUBSET Days, ErpApproveDays(a, marked)
        PROVE  \A b \in Asks : Stands(b)
    BY <1>1, <2>7, AskKinds, PendingRowStands DEF ErpApproveDays
  <2>8. ASSUME NEW a \in Asks, NEW d \in Days, ErpUnmark(a, d)
        PROVE  \A b \in Asks : Stands(b)
    <3>1. asks[a] \in DayAsk /\ ~IsSwap(a)
      BY <1>1, <2>8, AskKinds DEF ErpUnmark
    <3>2. asks'[a] = [asks[a] EXCEPT !.marked = @ \ {d}] /\ \A b \in Asks \ {a} : asks'[b] = asks[b]
      BY <1>1, <2>8 DEF ErpUnmark, TypeOK
    <3>3. asks'[a].status = asks[a].status /\ asks'[a].marked \subseteq asks[a].marked
      BY <3>1, <3>2 DEF DayAsk
    <3> QED
      BY <3>1, <3>2, <3>3 DEF Stands
  <2> QED
    BY <1>1, <2>a, <2>1, <2>2, <2>3, <2>5, <2>6, <2>7, <2>8
    DEF Next, vars, ReadForApply, ReadForSwap, ReadForAccept, Crash
<1>2. TypeOK /\ [Next]_vars => [\A a \in Asks : Stands(a)]_vars
  BY <1>1
<1> QED
  BY <1>2, TypeCorrect, PTL DEF Spec, DecisionsStand

-----------------------------------------------------------------------------
\* The signatures are those of the first levels, one each, in order.
InOrder(ask) ==
  /\ Len(ask.signed) <= Len(ask.chain)
  /\ \A i \in 1..Len(ask.signed) : ask.signed[i].role = ask.chain[i]

\* A pending correction is signed in order, and not to the end.
PendingInOrder ==
  \A a \in Asks : Times!IsPending(a) => InOrder(times[a]) /\ Len(times[a].signed) < Len(times[a].chain)

\* So is, to the end or not, a decided one nothing overtook.
SteadyInOrder == \A a \in Asks \ overtaken : times[a] # Times!NoAsk => InOrder(times[a])

\* Who is about to file, and was not late, found no correction of the day waiting; none does.
FilingIsFresh ==
  \A h \in Handlers, a \in Asks :
    deciders[h].pc = "file" /\ ~deciders[h].late /\ Times!IsPending(a) => times[a].day # deciders[h].day

\* A decision under way is on a filed correction; its record is written before the status, and
\* unless it was overtaken it knows the signatures it adds to.
DecisionsKnow ==
  \A h \in Handlers, a \in Asks :
    Times!Deciding(h, a) =>
      /\ times[a] # Times!NoAsk
      /\ deciders[h].pc = "approve" => record[times[a].day] # "punched"
      /\ a \notin overtaken =>
           /\ Times!IsPending(a) /\ Times!MaySign(times[a], "Owner")
           /\ deciders[h].signs = Times!Signatures(times[a], "Owner")

\* A record shows a correction that is approved, was overtaken, or is being approved.
RecordIsDecided ==
  \A d \in CorrectedDays, a \in Asks :
    record[d] = a =>
      \/ times[a].status = "approved"
      \/ a \in overtaken
      \/ \E h \in Handlers : deciders[h].pc = "approve" /\ deciders[h].id = a

\* The inductive invariant.
CorrectionsInv ==
  /\ Times!TypeOK
  /\ Times!OneWaitingUnlessRace
  /\ Times!ApprovedReachesRecord
  /\ PendingInOrder /\ SteadyInOrder /\ FilingIsFresh /\ DecisionsKnow /\ RecordIsDecided

-----------------------------------------------------------------------------
(* The chain. *)

\* A signature is one the type knows.
LEMMA SignatureIs ==
  ASSUME NEW role \in Times!Roles, NEW past \in BOOLEAN
  PROVE  [role |-> role, past |-> past] \in Times!Signature
BY DEF Times!Signature

\* A function on 1..m is a sequence of that length.
LEMMA IsASeq ==
  ASSUME NEW S, NEW m \in Nat, NEW f \in [1..m -> S]
  PROVE  f \in Seq(S) /\ Len(f) = m
OBVIOUS

\* A chain has two or three levels, of different roles.
LEMMA ChainShape ==
  ASSUME NEW chain \in Times!Chains
  PROVE  /\ Len(chain) \in {2, 3} /\ DOMAIN chain = 1..Len(chain)
         /\ \A i \in 1..Len(chain) : chain[i] \in Times!Roles
         /\ \A i, j \in 1..Len(chain) : chain[i] = chain[j] => i = j
         /\ chain \in Seq(Times!Roles)
<1>1. CASE chain = <<"FM", "Director", "Owner">>
  BY <1>1 DEF Times!Roles
<1>2. CASE chain = <<"Director", "FM">>
  BY <1>2 DEF Times!Roles
<1>3. CASE chain = <<"Owner", "FM">>
  BY <1>3 DEF Times!Roles
<1> QED
  BY <1>1, <1>2, <1>3
  DEF Times!Chains, Times!LEAVE_CHAIN, Times!HR_ASK_CHAIN, Times!HR_ASK_OWNER_CHAIN

\* The level of a role is where the chain names it,
LEMMA LevelIs ==
  ASSUME NEW chain \in Times!Chains, NEW i \in 1..Len(chain)
  PROVE  Times!Level(chain, chain[i]) = i
BY ChainShape DEF Times!Level

\* and the chain names it there.
LEMMA LevelIn ==
  ASSUME NEW chain \in Times!Chains, NEW role \in Times!ToSet(chain)
  PROVE  /\ Times!Level(chain, role) \in 1..Len(chain)
         /\ chain[Times!Level(chain, role)] = role
BY ChainShape DEF Times!Level, Times!ToSet

\* Who has signed, by index.
LEMMA SignedOf ==
  ASSUME NEW ask \in Times!TimeAsk
  PROVE  Times!SignedRoles(ask) = {ask.signed[i].role : i \in 1..Len(ask.signed)}
BY DEF Times!SignedRoles, Times!ToSet, Times!TimeAsk

\* While the levels sign in order, the signed ones are the first, and the next is the one
\* after them.
LEMMA FirstSigned ==
  ASSUME NEW ask \in Times!TimeAsk, InOrder(ask)
  PROVE  /\ Times!SignedRoles(ask) = {ask.chain[i] : i \in 1..Len(ask.signed)}
         /\ Times!Turn(ask) = Len(ask.signed) + 1
<1> DEFINE n == Len(ask.signed)
           chain == ask.chain
<1>1. /\ n \in Nat /\ chain \in Times!Chains /\ n <= Len(chain)
  BY DEF Times!TimeAsk, InOrder
<1>2. Times!SignedRoles(ask) = {chain[i] : i \in 1..n}
  BY SignedOf, <1>1 DEF InOrder
<1>3. \A j \in 1..Len(chain) : chain[j] \in Times!SignedRoles(ask) <=> j <= n
  BY <1>1, <1>2, ChainShape
<1>4. \A i \in 1..(Len(chain) + 1) :
        /\ \A j \in 1..(i - 1) : chain[j] \in Times!SignedRoles(ask)
        /\ i <= Len(chain) => chain[i] \notin Times!SignedRoles(ask)
        <=> i = n + 1
  BY <1>1, <1>3, ChainShape
<1>5. n + 1 \in 1..(Len(chain) + 1)
  BY <1>1, ChainShape
<1> QED BY <1>2, <1>4, <1>5 DEF Times!Turn

\* A level that may sign adds what is missing up to itself.
LEMMA SigningKeepsOrder ==
  ASSUME NEW ask \in Times!TimeAsk, InOrder(ask), NEW role, Times!MaySign(ask, role)
  PROVE  LET at == Times!Level(ask.chain, role)
             signed == ask.signed \o Times!Signatures(ask, role)
         IN /\ at \in 1..Len(ask.chain) /\ ask.chain[at] = role
            /\ Times!Signatures(ask, role) \in Seq(Times!Signature)
            /\ signed \in Seq(Times!Signature) /\ Len(signed) = at
            /\ \A i \in 1..at : signed[i].role = ask.chain[i]
<1> DEFINE n == Len(ask.signed)
           chain == ask.chain
           at == Times!Level(chain, role)
           more == Times!Signatures(ask, role)
<1>1. /\ n \in Nat /\ chain \in Times!Chains /\ ask.signed \in Seq(Times!Signature)
  BY DEF Times!TimeAsk
<1>2. at \in 1..Len(chain) /\ chain[at] = role
  BY <1>1, LevelIn DEF Times!MaySign
<1>3. at > n
  BY <1>1, <1>2, FirstSigned, ChainShape DEF Times!MaySign
<1>4. /\ DOMAIN more = 1..(at - n)
      /\ \A i \in 1..(at - n) : more[i] = [role |-> chain[n + i], past |-> n + i < at]
  <2>1. more = Times!SignaturesFrom(ask, n + 1, at)
    BY FirstSigned DEF Times!Signatures
  <2>2. more = [i \in 1..(at - (n + 1) + 1) |-> [role |-> chain[(n + 1) + i - 1], past |-> (n + 1) + i - 1 < at]]
    BY <2>1, Zenon DEF Times!SignaturesFrom
  <2> HIDE DEF more, at, chain
  <2>3. Len(chain) \in Nat /\ at \in Nat /\ at - (n + 1) + 1 = at - n
    BY <1>1, <1>2, ChainShape
  <2>4. ASSUME NEW i \in 1..(at - n) PROVE more[i] = [role |-> chain[n + i], past |-> n + i < at]
    <3>1. (n + 1) + i - 1 = n + i BY <1>1, <2>3
    <3> QED BY <2>2, <2>3, <3>1
  <2> QED BY <2>2, <2>3, <2>4
<1>5. more \in Seq(Times!Signature) /\ Len(more) = at - n
  <2> HIDE DEF more, at, chain
  <2>1. Len(chain) \in Nat /\ at - n \in Nat
    BY <1>1, <1>2, <1>3, ChainShape
  <2>2. ASSUME NEW i \in 1..(at - n) PROVE more[i] \in Times!Signature
    <3>1. n + i \in 1..Len(chain) BY <1>1, <1>2, <2>1, ChainShape
    <3>2. chain[n + i] \in Times!Roles BY <1>1, <3>1, ChainShape DEF chain
    <3>3. (n + i < at) \in BOOLEAN OBVIOUS
    <3>4. more[i] = [role |-> chain[n + i], past |-> n + i < at] BY <1>4
    <3> QED BY <3>2, <3>3, <3>4, SignatureIs
  <2>3. more = [i \in 1..(at - n) |-> more[i]]
    BY <1>4, <2>1 DEF more, Times!Signatures, Times!SignaturesFrom
  <2>4. more \in [1..(at - n) -> Times!Signature]
    BY <2>2, <2>3
  <2> QED BY <2>1, <2>4, IsASeq
<1>6. \A i \in 1..(at - n) : more[i].role = chain[n + i]
  BY <1>4
<1> HIDE DEF more, at, chain, n
<1>7. /\ ask.signed \o more \in Seq(Times!Signature) /\ Len(ask.signed \o more) = at
      /\ \A i \in 1..at : (ask.signed \o more)[i] = IF i <= n THEN ask.signed[i] ELSE more[i - n]
  <2>1. n = Len(ask.signed) BY DEF n
  <2>2. at \in Nat BY <1>1, <1>2, ChainShape
  <2> QED BY <1>1, <1>3, <1>5, <2>1, <2>2
<1>n. n \in Nat /\ at \in Nat /\ Len(chain) \in Nat
  BY <1>1, <1>2, ChainShape
<1>8. ASSUME NEW i \in 1..at PROVE (ask.signed \o more)[i].role = chain[i]
  <2>1. CASE i <= n BY <2>1, <1>1, <1>2, <1>7, ChainShape DEF InOrder, n, chain
  <2>2. CASE ~(i <= n)
    <3>1. i - n \in 1..(at - n) BY <2>2, <1>1, <1>2, <1>3, ChainShape
    <3>2. (ask.signed \o more)[i] = more[i - n] BY <2>2, <1>7, <1>n
    <3>3. n + (i - n) = i BY <1>1
    <3> QED BY <3>1, <3>2, <3>3, <1>6
  <2> QED BY <2>1, <2>2, <1>n
<1> QED BY <1>2, <1>5, <1>7, <1>8 DEF more, at, chain

-----------------------------------------------------------------------------
(* Steps. *)

\* What the type says of a correction, and of a decider.
LEMMA Kinds ==
  ASSUME Times!TypeOK
  PROVE  /\ \A a \in Asks : times[a] # Times!NoAsk =>
              /\ times[a] \in Times!TimeAsk /\ times[a].day \in CorrectedDays
              /\ times[a].status \in {"pending", "approved", "rejected", "cancelled"}
         /\ \A a \in Asks : times[a].status \in {"pending", "approved"} => times[a] # Times!NoAsk
         /\ \A h \in Handlers : deciders[h].pc = "file" => deciders[h] \in Times!Filing
         /\ \A h \in Handlers : deciders[h].pc \in {"record", "approve"} =>
              deciders[h] \in Times!Approving /\ deciders[h].id \in Asks
         /\ \A h \in Handlers : deciders[h] = Times!Idle => deciders[h].pc = "idle"
BY DEF Times!TypeOK, Times!TimeAsk, Times!NoAsk, Times!Filing, Times!Approving, Times!Idle

\* What is filed is a row as the type knows them, on which nobody has signed.
LEMMA NewAskIs ==
  ASSUME NEW d \in CorrectedDays, NEW director \in BOOLEAN
  PROVE  LET new == Times!NewAsk(d, Times!FreshChain(director))
         IN /\ new \in Times!TimeAsk /\ new # Times!NoAsk
            /\ new.day = d /\ new.status = "pending"
            /\ InOrder(new) /\ Len(new.signed) < Len(new.chain)
<1> DEFINE chain == Times!FreshChain(director)
<1>1. chain \in Times!Chains
  BY DEF Times!FreshChain, Times!Chains
<1>2. Len(chain) \in {2, 3}
  BY <1>1, ChainShape
<1>3. << >> \in Seq(Times!Signature) /\ Len(<< >>) = 0
  OBVIOUS
<1> HIDE DEF chain
<1> QED BY <1>1, <1>2, <1>3 DEF Times!NewAsk, Times!TimeAsk, Times!NoAsk, InOrder, chain

\* A row is filed: whoever looked before is late now, and no decision knows it.
LEMMA FilingKeeps ==
  ASSUME CorrectionsInv, NEW a \in Asks, NEW d \in CorrectedDays, NEW director \in BOOLEAN,
         times[a] = Times!NoAsk,
         times' = [times EXCEPT ![a] = Times!NewAsk(d, Times!FreshChain(director))],
         deciders' \in [Handlers -> {Times!Idle} \cup Times!Filing \cup Times!Approving],
         \A g \in Handlers : deciders'[g] # deciders[g] =>
           /\ deciders[g].pc = "file"
           /\ deciders'[g] = Times!Idle \/ (deciders'[g].pc = "file" /\ deciders'[g].late),
         \A g \in Handlers : deciders'[g].pc = "file" /\ ~deciders'[g].late => deciders'[g].day # d,
         rushed' \in SUBSET Asks, rushed \subseteq rushed',
         \A b \in Asks : Times!IsPending(b) /\ times[b].day = d => a \in rushed',
         UNCHANGED <<record, overtaken>>
  PROVE  CorrectionsInv'
<1> DEFINE new == Times!NewAsk(d, Times!FreshChain(director))
<1>0. Times!TypeOK BY DEF CorrectionsInv
<1>1. /\ times' \in [Asks -> {Times!NoAsk} \cup Times!TimeAsk]
      /\ times'[a] = new /\ \A b \in Asks \ {a} : times'[b] = times[b]
  BY <1>0, NewAskIs DEF Times!TypeOK
<1>2. /\ new.status = "pending" /\ new.day = d /\ InOrder(new) /\ Len(new.signed) < Len(new.chain)
      /\ new # Times!NoAsk /\ times[a].status = "none"
  BY NewAskIs DEF Times!NoAsk
<1> HIDE DEF new
<1>3. Times!TypeOK' BY <1>0, <1>1 DEF Times!TypeOK
<1>4. \A g \in Handlers : deciders'[g].pc \in {"record", "approve"} => deciders'[g] = deciders[g]
  BY DEF Times!Idle
<1>5. Times!OneWaitingUnlessRace'
  BY <1>0, <1>1, <1>2 DEF CorrectionsInv, Times!OneWaitingUnlessRace, Times!IsPending
<1>6. Times!ApprovedReachesRecord'
  BY <1>1, <1>2 DEF CorrectionsInv, Times!ApprovedReachesRecord
<1>7. PendingInOrder' /\ SteadyInOrder'
  BY <1>1, <1>2 DEF CorrectionsInv, PendingInOrder, SteadyInOrder, InOrder, Times!IsPending
<1>8. FilingIsFresh'
  <2> SUFFICES ASSUME NEW g \in Handlers, NEW b \in Asks,
                      deciders'[g].pc = "file", ~deciders'[g].late, times'[b].status = "pending"
               PROVE  times'[b].day # deciders'[g].day
    BY DEF FilingIsFresh, Times!IsPending
  <2>1. CASE b = a BY <2>1, <1>1, <1>2
  <2>2. CASE b # a
    <3>1. deciders'[g] = deciders[g] BY DEF Times!Idle
    <3> QED BY <2>2, <3>1, <1>1 DEF CorrectionsInv, FilingIsFresh, Times!IsPending
  <2> QED BY <2>1, <2>2
<1>9. DecisionsKnow'
  <2> SUFFICES ASSUME NEW g \in Handlers, NEW b \in Asks, Times!Deciding(g, b)'
               PROVE  /\ times'[b] # Times!NoAsk
                      /\ deciders'[g].pc = "approve" => record'[times'[b].day] # "punched"
                      /\ b \notin overtaken' =>
                           /\ times'[b].status = "pending" /\ Times!MaySign(times'[b], "Owner")
                           /\ deciders'[g].signs = Times!Signatures(times'[b], "Owner")
    BY DEF DecisionsKnow, Times!IsPending
  <2>1. deciders'[g] = deciders[g] /\ Times!Deciding(g, b)
    BY <1>4 DEF Times!Deciding
  <2>2. b # a /\ times'[b] = times[b] BY <2>1, <1>1 DEF CorrectionsInv, DecisionsKnow
  <2> QED BY <2>1, <2>2 DEF CorrectionsInv, DecisionsKnow, Times!IsPending
<1>10. RecordIsDecided'
  <2> SUFFICES ASSUME NEW e \in CorrectedDays, NEW b \in Asks, record[e] = b,
                      times'[b].status # "approved", b \notin overtaken
               PROVE  \E g \in Handlers : deciders'[g].pc = "approve" /\ deciders'[g].id = b
    BY DEF RecordIsDecided
  <2>1. times[b].status # "approved" BY <1>1, <1>2
  <2>2. PICK g \in Handlers : deciders[g].pc = "approve" /\ deciders[g].id = b
    BY <2>1 DEF CorrectionsInv, RecordIsDecided
  <2>3. deciders'[g] = deciders[g] BY <2>2
  <2> QED BY <2>2, <2>3
<1> QED BY <1>3, <1>5, <1>6, <1>7, <1>8, <1>9, <1>10 DEF CorrectionsInv

\* A row is withdrawn or rejected under the decisions that are on their way.
LEMMA ClosingKeeps ==
  ASSUME CorrectionsInv, NEW a \in Asks, NEW st \in {"cancelled", "rejected"}, Times!IsPending(a),
         times' = [times EXCEPT ![a].status = st], Times!Overtake(a, {}),
         UNCHANGED <<record, deciders, rushed>>
  PROVE  CorrectionsInv'
<1>0. Times!TypeOK BY DEF CorrectionsInv
<1>1. times[a] \in Times!TimeAsk BY <1>0, Kinds DEF Times!IsPending
<1>2. /\ times'[a] = [times[a] EXCEPT !.status = st] /\ times'[a] \in Times!TimeAsk
      /\ times'[a].status = st /\ times'[a].day = times[a].day /\ times'[a].chain = times[a].chain
      /\ times'[a].signed = times[a].signed
      /\ \A b \in Asks \ {a} : times'[b] = times[b]
  BY <1>0, <1>1 DEF Times!TypeOK, Times!TimeAsk
<1>3. times' \in [Asks -> {Times!NoAsk} \cup Times!TimeAsk]
  BY <1>0, <1>2 DEF Times!TypeOK
<1>4. /\ overtaken \subseteq overtaken' /\ overtaken' \subseteq overtaken \cup {a}
      /\ \A g \in Handlers : Times!Deciding(g, a) => a \in overtaken'
  BY DEF Times!Overtake
<1>5. Times!TypeOK' BY <1>0, <1>3, <1>4 DEF Times!TypeOK
<1>6. Times!OneWaitingUnlessRace' /\ Times!ApprovedReachesRecord'
  BY <1>0, <1>2 DEF CorrectionsInv, Times!TypeOK, Times!OneWaitingUnlessRace, Times!ApprovedReachesRecord, Times!IsPending
<1>7. PendingInOrder' /\ SteadyInOrder'
  BY <1>0, <1>2, <1>4 DEF CorrectionsInv, PendingInOrder, SteadyInOrder, InOrder, Times!IsPending
<1>8. FilingIsFresh'
  BY <1>2 DEF CorrectionsInv, FilingIsFresh, Times!IsPending
<1>9. DecisionsKnow'
  <2> SUFFICES ASSUME NEW g \in Handlers, NEW b \in Asks, Times!Deciding(g, b)
               PROVE  /\ times'[b] # Times!NoAsk
                      /\ deciders[g].pc = "approve" => record[times'[b].day] # "punched"
                      /\ b \notin overtaken' =>
                           /\ times'[b].status = "pending" /\ Times!MaySign(times'[b], "Owner")
                           /\ deciders[g].signs = Times!Signatures(times'[b], "Owner")
    BY DEF DecisionsKnow, Times!IsPending, Times!Deciding
  <2>1. CASE b = a
    BY <2>1, <1>2, <1>4 DEF CorrectionsInv, DecisionsKnow, Times!NoAsk
  <2>2. CASE b # a
    BY <2>2, <1>2, <1>4 DEF CorrectionsInv, DecisionsKnow, Times!IsPending
  <2> QED BY <2>1, <2>2
<1>10. RecordIsDecided'
  BY <1>2, <1>4 DEF CorrectionsInv, RecordIsDecided, Times!IsPending
<1> QED BY <1>5, <1>6, <1>7, <1>8, <1>9, <1>10 DEF CorrectionsInv

\* 409 or not, a request that has looked knows whether a correction waits.
LEMMA RequestKeeps ==
  ASSUME CorrectionsInv, NEW h \in Handlers, NEW d \in CorrectedDays, NEW director \in BOOLEAN,
         Times!ReadForRequest(h, d, director)
  PROVE  CorrectionsInv'
<1>0. Times!TypeOK BY DEF CorrectionsInv
<1>1. Times!TypeOK'
  BY <1>0, Kinds DEF Times!TypeOK, Times!TimeAsk, Times!Approving, Times!Filing, Times!Idle, Times!ReadForRequest, Times!PendingFor, Times!Goto
<1>2. Times!OneWaitingUnlessRace'
  BY <1>0, Kinds DEF CorrectionsInv, Times!TypeOK, Times!OneWaitingUnlessRace, FilingIsFresh, Times!IsPending, Times!ReadForRequest, Times!PendingFor, Times!Goto
<1>3. Times!ApprovedReachesRecord'
  BY <1>0, Kinds, CorrectionConstants DEF CorrectionsInv, Times!TypeOK, Times!ApprovedReachesRecord, DecisionsKnow, Times!Deciding, Times!IsPending, Times!ReadForRequest, Times!PendingFor, Times!Goto
<1>4. PendingInOrder'
  BY <1>0, Kinds DEF CorrectionsInv, Times!TypeOK, PendingInOrder, InOrder, Times!IsPending, Times!ReadForRequest, Times!PendingFor, Times!Goto
<1>5. SteadyInOrder'
  BY <1>0, Kinds DEF CorrectionsInv, Times!TypeOK, SteadyInOrder, PendingInOrder, InOrder, Times!IsPending, Times!ReadForRequest, Times!PendingFor, Times!Goto
<1>6. FilingIsFresh'
  BY <1>0, Kinds DEF CorrectionsInv, Times!TypeOK, FilingIsFresh, Times!IsPending, Times!ReadForRequest, Times!PendingFor, Times!Goto
<1>7. DecisionsKnow'
  BY <1>0, Kinds DEF CorrectionsInv, Times!TypeOK, DecisionsKnow, Times!Deciding, Times!IsPending, Times!ReadForRequest, Times!PendingFor, Times!Goto
<1>8. RecordIsDecided'
  BY <1>0, Kinds DEF CorrectionsInv, Times!TypeOK, RecordIsDecided, DecisionsKnow, Times!Deciding, Times!IsPending, Times!ReadForRequest, Times!PendingFor, Times!Goto
<1> QED BY <1>1, <1>2, <1>3, <1>4, <1>5, <1>6, <1>7, <1>8 DEF CorrectionsInv

\* A request files its correction, late or not.
LEMMA InsertKeeps ==
  ASSUME CorrectionsInv, NEW h \in Handlers, NEW a \in Asks, Times!InsertRequest(h, a)
  PROVE  CorrectionsInv'
<1> DEFINE w == deciders[h]
<1>0. Times!TypeOK BY DEF CorrectionsInv
<1>1. w.pc = "file" /\ w \in Times!Filing /\ w.day \in CorrectedDays /\ w.director \in BOOLEAN /\ w.late \in BOOLEAN
  BY <1>0, Kinds DEF Times!InsertRequest, Times!Filing
<1>2. deciders' = [Times!MakeLate(w.day) EXCEPT ![h] = Times!Idle]
  BY DEF Times!InsertRequest
<1>3. \A g \in Handlers \ {h} :
        deciders'[g] = IF deciders[g].pc = "file" /\ deciders[g].day = w.day
                       THEN [deciders[g] EXCEPT !.late = TRUE] ELSE deciders[g]
  BY <1>2 DEF Times!MakeLate
<1>4. deciders'[h] = Times!Idle BY <1>2 DEF Times!MakeLate
<1>5. \A g \in Handlers : deciders[g].pc = "file" =>
        LET then == [deciders[g] EXCEPT !.late = TRUE]
        IN then \in Times!Filing /\ then.pc = "file" /\ then.late /\ then.day = deciders[g].day
  BY <1>0, Kinds DEF Times!Filing
<1>6. deciders' \in [Handlers -> {Times!Idle} \cup Times!Filing \cup Times!Approving]
  <2>1. \A g \in Handlers : deciders'[g] \in {Times!Idle} \cup Times!Filing \cup Times!Approving
    BY <1>0, <1>3, <1>4, <1>5 DEF Times!TypeOK
  <2>2. deciders' = [g \in Handlers |-> deciders'[g]]
    BY <1>2 DEF Times!MakeLate
  <2> QED BY <2>1, <2>2
<1>7. \A g \in Handlers : deciders'[g] # deciders[g] =>
        /\ deciders[g].pc = "file"
        /\ deciders'[g] = Times!Idle \/ (deciders'[g].pc = "file" /\ deciders'[g].late)
  <2> TAKE g \in Handlers
  <2>1. CASE g = h BY <2>1, <1>1, <1>4 DEF w
  <2>2. CASE g # h
    <3> HIDE DEF w
    <3>1. deciders'[g] = IF deciders[g].pc = "file" /\ deciders[g].day = w.day
                         THEN [deciders[g] EXCEPT !.late = TRUE] ELSE deciders[g]
      BY <2>2, <1>3
    <3> QED BY <3>1, <1>5
  <2> QED BY <2>1, <2>2
<1>8. \A g \in Handlers : deciders'[g].pc = "file" /\ ~deciders'[g].late => deciders'[g].day # w.day
  <2> TAKE g \in Handlers
  <2>1. CASE g = h BY <2>1, <1>4 DEF Times!Idle
  <2>2. CASE g # h
    <3> HIDE DEF w
    <3>1. deciders'[g] = IF deciders[g].pc = "file" /\ deciders[g].day = w.day
                         THEN [deciders[g] EXCEPT !.late = TRUE] ELSE deciders[g]
      BY <2>2, <1>3
    <3> QED BY <3>1, <1>5
  <2> QED BY <2>1, <2>2
<1>9. /\ times[a] = Times!NoAsk
      /\ times' = [times EXCEPT ![a] = Times!NewAsk(w.day, Times!FreshChain(w.director))]
      /\ rushed' = IF w.late THEN rushed \cup {a} ELSE rushed
      /\ UNCHANGED <<record, overtaken>>
  BY DEF Times!InsertRequest
<1>10. \A b \in Asks : Times!IsPending(b) /\ times[b].day = w.day => a \in rushed'
  BY <1>1, <1>9 DEF CorrectionsInv, FilingIsFresh
<1>11. rushed' \in SUBSET Asks /\ rushed \subseteq rushed'
  BY <1>0, <1>9 DEF Times!TypeOK
<1> HIDE DEF w
<1> QED BY <1>1, <1>6, <1>7, <1>8, <1>9, <1>10, <1>11, FilingKeeps

\* The ERP files one without asking.
LEMMA ErpFileKeeps ==
  ASSUME CorrectionsInv, NEW a \in Asks, NEW d \in CorrectedDays, NEW director \in BOOLEAN, Times!ErpFile(a, d, director)
  PROVE  CorrectionsInv'
<1>0. Times!TypeOK BY DEF CorrectionsInv
<1>3. \A g \in Handlers :
        deciders'[g] = IF deciders[g].pc = "file" /\ deciders[g].day = d
                       THEN [deciders[g] EXCEPT !.late = TRUE] ELSE deciders[g]
  BY DEF Times!MakeLate, Times!ErpFile
<1>5. \A g \in Handlers : deciders[g].pc = "file" =>
        LET then == [deciders[g] EXCEPT !.late = TRUE]
        IN then \in Times!Filing /\ then.pc = "file" /\ then.late /\ then.day = deciders[g].day
  BY <1>0, Kinds DEF Times!Filing
<1>6. deciders' \in [Handlers -> {Times!Idle} \cup Times!Filing \cup Times!Approving]
  <2>1. \A g \in Handlers : deciders'[g] \in {Times!Idle} \cup Times!Filing \cup Times!Approving
    BY <1>0, <1>3, <1>5 DEF Times!TypeOK
  <2>2. deciders' = [g \in Handlers |-> deciders'[g]]
    BY DEF Times!MakeLate, Times!ErpFile
  <2> QED BY <2>1, <2>2
<1>7. \A g \in Handlers : deciders'[g] # deciders[g] =>
        deciders[g].pc = "file" /\ deciders'[g].pc = "file" /\ deciders'[g].late
  BY <1>3, <1>5
<1>8. \A g \in Handlers : deciders'[g].pc = "file" /\ ~deciders'[g].late => deciders'[g].day # d
  BY <1>3, <1>5
<1>9. /\ times[a] = Times!NoAsk
      /\ times' = [times EXCEPT ![a] = Times!NewAsk(d, Times!FreshChain(director))]
      /\ UNCHANGED <<record, rushed, overtaken>>
      /\ \A b \in Asks : ~(Times!IsPending(b) /\ times[b].day = d)
  BY DEF Times!ErpFile, Times!PendingFor
<1>10. rushed' \in SUBSET Asks /\ rushed \subseteq rushed'
  BY <1>0, <1>9 DEF Times!TypeOK
<1> QED BY <1>6, <1>7, <1>8, <1>9, <1>10, FilingKeeps

\* A correction is closed by who asked,
LEMMA CancelKeeps ==
  ASSUME CorrectionsInv, NEW a \in Asks, Times!Cancel(a)
  PROVE  CorrectionsInv'
BY ClosingKeeps DEF Times!Cancel

\* by a level that refuses,
LEMMA RejectKeeps ==
  ASSUME CorrectionsInv, NEW a \in Asks, Times!Reject(a)
  PROVE  CorrectionsInv'
BY ClosingKeeps DEF Times!Reject

\* or by the ERP.
LEMMA ErpRejectKeeps ==
  ASSUME CorrectionsInv, NEW a \in Asks, Times!ErpReject(a)
  PROVE  CorrectionsInv'
BY ClosingKeeps DEF Times!ErpReject

\* An approval in the app has read a row that waits, and knows what the Owner adds.
LEMMA ReadKeeps ==
  ASSUME CorrectionsInv, NEW h \in Handlers, NEW a \in Asks, Times!ReadForApprove(h, a)
  PROVE  CorrectionsInv'
<1> DEFINE w == [pc |-> "record", id |-> a, signs |-> Times!Signatures(times[a], "Owner")]
<1>0. Times!TypeOK BY DEF CorrectionsInv
<1>1. /\ deciders[h] = Times!Idle /\ deciders' = [deciders EXCEPT ![h] = w]
      /\ Times!IsPending(a) /\ Times!MaySign(times[a], "Owner")
      /\ UNCHANGED <<times, record, rushed, overtaken>>
  BY DEF Times!ReadForApprove, Times!Goto
<1>2. times[a] \in Times!TimeAsk /\ times[a] # Times!NoAsk /\ InOrder(times[a])
  BY <1>0, <1>1, Kinds DEF CorrectionsInv, PendingInOrder, Times!IsPending
<1>3. w \in Times!Approving
  BY <1>1, <1>2, SigningKeepsOrder DEF Times!Approving
<1>4. /\ deciders'[h] = w /\ w.pc = "record" /\ w.id = a
      /\ w.signs = Times!Signatures(times[a], "Owner")
      /\ \A g \in Handlers \ {h} : deciders'[g] = deciders[g]
  BY <1>0, <1>1 DEF Times!TypeOK
<1>5. deciders[h].pc = "idle"
  BY <1>1 DEF Times!Idle
<1> HIDE DEF w
<1>6. Times!TypeOK'
  BY <1>0, <1>1, <1>3 DEF Times!TypeOK
<1>7. Times!OneWaitingUnlessRace' /\ Times!ApprovedReachesRecord' /\ PendingInOrder' /\ SteadyInOrder'
  BY <1>1 DEF CorrectionsInv, Times!OneWaitingUnlessRace, Times!ApprovedReachesRecord, PendingInOrder,
              SteadyInOrder, InOrder, Times!IsPending
<1>8. FilingIsFresh'
  BY <1>1, <1>4 DEF CorrectionsInv, FilingIsFresh, Times!IsPending
<1>9. DecisionsKnow'
  <2> SUFFICES ASSUME NEW g \in Handlers, NEW b \in Asks,
                      deciders'[g].pc \in {"record", "approve"}, deciders'[g].id = b
               PROVE  /\ times[b] # Times!NoAsk
                      /\ deciders'[g].pc = "approve" => record[times[b].day] # "punched"
                      /\ b \notin overtaken =>
                           /\ Times!IsPending(b) /\ Times!MaySign(times[b], "Owner")
                           /\ deciders'[g].signs = Times!Signatures(times[b], "Owner")
    BY <1>1 DEF DecisionsKnow, Times!Deciding, Times!IsPending
  <2>1. CASE g = h BY <2>1, <1>1, <1>2, <1>4
  <2>2. CASE g # h BY <2>2, <1>4 DEF CorrectionsInv, DecisionsKnow, Times!Deciding
  <2> QED BY <2>1, <2>2
<1>10. RecordIsDecided'
  <2> SUFFICES ASSUME NEW e \in CorrectedDays, NEW b \in Asks, record[e] = b,
                      times[b].status # "approved", b \notin overtaken
               PROVE  \E g \in Handlers : deciders'[g].pc = "approve" /\ deciders'[g].id = b
    BY <1>1 DEF RecordIsDecided
  <2>1. PICK g \in Handlers : deciders[g].pc = "approve" /\ deciders[g].id = b
    BY DEF CorrectionsInv, RecordIsDecided
  <2>2. g # h BY <2>1, <1>5
  <2> QED BY <2>1, <2>2, <1>4
<1> QED BY <1>6, <1>7, <1>8, <1>9, <1>10 DEF CorrectionsInv

\* The times reach the record before the row says so, or are refused.
LEMMA ApplyKeeps ==
  ASSUME CorrectionsInv, NEW h \in Handlers, Times!ApplyAdminTimes(h)
  PROVE  CorrectionsInv'
<1> DEFINE w == deciders[h]
           a == w.id
           next == [w EXCEPT !.pc = "approve"]
<1>0. Times!TypeOK BY DEF CorrectionsInv
<1>1. w.pc = "record" /\ UNCHANGED <<times, rushed, overtaken>>
  BY DEF Times!ApplyAdminTimes
<1>2. /\ w \in Times!Approving /\ a \in Asks /\ Times!Deciding(h, a)
      /\ times[a] # Times!NoAsk /\ times[a].day \in CorrectedDays
  <2>1. w \in Times!Approving /\ a \in Asks BY <1>0, <1>1, Kinds
  <2>2. Times!Deciding(h, a) BY <1>1 DEF Times!Deciding
  <2>3. times[a] # Times!NoAsk BY <2>1, <2>2 DEF CorrectionsInv, DecisionsKnow
  <2> QED BY <2>1, <2>2, <2>3, <1>0, Kinds
<1>3. /\ next \in Times!Approving /\ next.pc = "approve" /\ next.id = a /\ next.signs = w.signs
  BY <1>2 DEF Times!Approving
<1>4. \/ record' = [record EXCEPT ![times[a].day] = a] /\ deciders' = [deciders EXCEPT ![h] = next]
      \/ record' = record /\ deciders' = [deciders EXCEPT ![h] = Times!Idle]
  BY DEF Times!ApplyAdminTimes, Times!Goto
<1> HIDE DEF next
<1>5. /\ \A g \in Handlers \ {h} : deciders'[g] = deciders[g]
      /\ \/ deciders'[h] = next /\ record'[times[a].day] = a
         \/ deciders'[h] = Times!Idle /\ record' = record
  BY <1>0, <1>2, <1>4 DEF Times!TypeOK
<1>6. Times!TypeOK'
  BY <1>0, <1>1, <1>2, <1>3, <1>4 DEF Times!TypeOK
<1>7. Times!OneWaitingUnlessRace' /\ PendingInOrder' /\ SteadyInOrder'
  BY <1>1 DEF CorrectionsInv, Times!OneWaitingUnlessRace, PendingInOrder, SteadyInOrder, InOrder, Times!IsPending
<1>8. \A d \in CorrectedDays : record'[d] = record[d] \/ (record'[d] = a /\ a # "punched")
  BY <1>0, <1>2, <1>4, CorrectionConstants DEF Times!TypeOK
<1>9. Times!ApprovedReachesRecord'
  BY <1>0, <1>1, <1>8, Kinds DEF CorrectionsInv, Times!ApprovedReachesRecord
<1>10. FilingIsFresh'
  BY <1>1, <1>3, <1>5 DEF CorrectionsInv, FilingIsFresh, Times!IsPending, Times!Idle
<1>11. DecisionsKnow'
  <2> SUFFICES ASSUME NEW g \in Handlers, NEW b \in Asks,
                      deciders'[g].pc \in {"record", "approve"}, deciders'[g].id = b
               PROVE  /\ times[b] # Times!NoAsk
                      /\ deciders'[g].pc = "approve" => record'[times[b].day] # "punched"
                      /\ b \notin overtaken =>
                           /\ Times!IsPending(b) /\ Times!MaySign(times[b], "Owner")
                           /\ deciders'[g].signs = Times!Signatures(times[b], "Owner")
    BY <1>1 DEF DecisionsKnow, Times!Deciding, Times!IsPending
  <2>1. CASE g = h
    <3>1. deciders'[h] = next /\ b = a /\ record'[times[a].day] = a
      BY <2>1, <1>3, <1>5 DEF Times!Idle
    <3>2. a # "punched" BY <1>2, CorrectionConstants
    <3> QED BY <2>1, <3>1, <3>2, <1>2, <1>3 DEF CorrectionsInv, DecisionsKnow
  <2>2. CASE g # h
    <3>1. Times!Deciding(g, b) /\ deciders'[g] = deciders[g]
      BY <2>2, <1>5 DEF Times!Deciding
    <3>2. times[b] # Times!NoAsk /\ times[b].day \in CorrectedDays
      BY <3>1, <1>0, Kinds DEF CorrectionsInv, DecisionsKnow
    <3> QED BY <3>1, <3>2, <1>8 DEF CorrectionsInv, DecisionsKnow
  <2> QED BY <2>1, <2>2
<1>12. RecordIsDecided'
  <2> SUFFICES ASSUME NEW e \in CorrectedDays, NEW b \in Asks, record'[e] = b,
                      times[b].status # "approved", b \notin overtaken
               PROVE  \E g \in Handlers : deciders'[g].pc = "approve" /\ deciders'[g].id = b
    BY <1>1 DEF RecordIsDecided
  <2>1. CASE record'[e] = record[e]
    <3>1. PICK g \in Handlers : deciders[g].pc = "approve" /\ deciders[g].id = b
      BY <2>1 DEF CorrectionsInv, RecordIsDecided
    <3>2. g # h BY <3>1, <1>1
    <3> QED BY <3>1, <3>2, <1>5
  <2>2. CASE record'[e] # record[e]
    <3>1. b = a /\ deciders'[h] = next
      BY <2>2, <1>5, <1>8
    <3> QED BY <3>1, <1>3
  <2> QED BY <2>1, <2>2
<1> QED BY <1>6, <1>7, <1>9, <1>10, <1>11, <1>12 DEF CorrectionsInv

\* A restart forgets the decisions on their way, and counts as overtaking them.
LEMMA CrashKeeps ==
  ASSUME CorrectionsInv, Times!Crash
  PROVE  CorrectionsInv'
<1>0. Times!TypeOK BY DEF CorrectionsInv
<1>1. /\ deciders' = [h \in Handlers |-> Times!Idle]
      /\ overtaken \subseteq overtaken' /\ overtaken' \in SUBSET Asks
      /\ \A h \in Handlers, a \in Asks : Times!Deciding(h, a) => a \in overtaken'
      /\ UNCHANGED <<times, record, rushed>>
  BY <1>0 DEF Times!Crash, Times!TypeOK
<1>2. \A h \in Handlers : deciders'[h] = Times!Idle /\ deciders'[h].pc = "idle"
  BY <1>1 DEF Times!Idle
<1>3. Times!TypeOK' BY <1>0, <1>1 DEF Times!TypeOK
<1>4. /\ Times!OneWaitingUnlessRace' /\ Times!ApprovedReachesRecord' /\ PendingInOrder'
      /\ SteadyInOrder'
  BY <1>1 DEF CorrectionsInv, Times!OneWaitingUnlessRace, Times!ApprovedReachesRecord, PendingInOrder,
              SteadyInOrder, InOrder, Times!IsPending
<1>5. FilingIsFresh' /\ DecisionsKnow'
  BY <1>2 DEF FilingIsFresh, DecisionsKnow, Times!Deciding
<1>6. RecordIsDecided'
  <2> SUFFICES ASSUME NEW e \in CorrectedDays, NEW b \in Asks, record[e] = b,
                      times[b].status # "approved", b \notin overtaken'
               PROVE  FALSE
    BY <1>1 DEF RecordIsDecided
  <2>1. PICK g \in Handlers : deciders[g].pc = "approve" /\ deciders[g].id = b
    BY <1>1 DEF CorrectionsInv, RecordIsDecided
  <2> QED BY <2>1, <1>1 DEF Times!Deciding
<1> QED BY <1>3, <1>4, <1>5, <1>6 DEF CorrectionsInv

\* Signatures land on a row that waits, under the decisions of others that are on their
\* way: it waits on a later level now, or is approved and its day has its times.
LEMMA SigningKeeps ==
  ASSUME CorrectionsInv, NEW a \in Asks, Times!IsPending(a), NEW st \in {"pending", "approved"},
         NEW signed \in Seq(Times!Signature),
         times' = [times EXCEPT ![a].signed = signed, ![a].status = st],
         a \notin overtaken' \/ st = "pending" => InOrder(times'[a]),
         st = "pending" => Len(signed) < Len(times[a].chain) /\ UNCHANGED <<record, deciders>>,
         st = "approved" => record'[times[a].day] # "punched",
         record' \in {record, [record EXCEPT ![times[a].day] = a]},
         deciders' \in [Handlers -> {Times!Idle} \cup Times!Filing \cup Times!Approving],
         \A g \in Handlers :
           deciders'[g] = deciders[g] \/ (deciders'[g] = Times!Idle /\ Times!Deciding(g, a)),
         overtaken \subseteq overtaken', overtaken' \subseteq overtaken \cup {a},
         \A g \in Handlers : Times!Deciding(g, a)' => a \in overtaken',
         UNCHANGED rushed
  PROVE  CorrectionsInv'
<1> DEFINE new == [times[a] EXCEPT !.signed = signed, !.status = st]
<1>0. Times!TypeOK BY DEF CorrectionsInv
<1>1. times[a] \in Times!TimeAsk /\ times[a] # Times!NoAsk /\ times[a].day \in CorrectedDays
  BY <1>0, Kinds DEF Times!IsPending
<1>2. /\ new \in Times!TimeAsk /\ new.status = st /\ new.signed = signed
      /\ new.day = times[a].day /\ new.chain = times[a].chain /\ new # Times!NoAsk
  BY <1>1 DEF Times!TimeAsk, Times!NoAsk
<1>3. times'[a] = new /\ \A b \in Asks \ {a} : times'[b] = times[b]
  BY <1>0, <1>1 DEF Times!TypeOK, Times!TimeAsk
<1> HIDE DEF new
<1>4. times' \in [Asks -> {Times!NoAsk} \cup Times!TimeAsk]
  BY <1>0, <1>2, <1>3 DEF Times!TypeOK
<1>5. /\ record' \in [CorrectedDays -> {"punched"} \cup Asks]
      /\ \A d \in CorrectedDays : record'[d] = record[d] \/ record'[d] = a
      /\ a # "punched"
  BY <1>0, <1>1, CorrectionConstants DEF Times!TypeOK
<1>6. Times!TypeOK'
  BY <1>0, <1>4, <1>5 DEF Times!TypeOK
<1>w. \A b \in Asks : Times!IsPending(b)' => Times!IsPending(b) /\ times'[b].day = times[b].day
  BY <1>2, <1>3 DEF Times!IsPending
<1>7. Times!OneWaitingUnlessRace'
  BY <1>w DEF CorrectionsInv, Times!OneWaitingUnlessRace
<1>8. Times!ApprovedReachesRecord'
  <2> SUFFICES ASSUME NEW b \in Asks, times'[b].status = "approved"
               PROVE  record'[times'[b].day] # "punched"
    BY DEF Times!ApprovedReachesRecord
  <2>1. CASE b = a BY <2>1, <1>2, <1>3
  <2>2. CASE b # a
    <3>1. times[b].status = "approved" /\ times'[b] = times[b] BY <2>2, <1>3
    <3>2. times[b].day \in CorrectedDays BY <3>1, <1>0, Kinds
    <3> QED BY <3>1, <3>2, <1>5 DEF CorrectionsInv, Times!ApprovedReachesRecord
  <2> QED BY <2>1, <2>2
<1>9. PendingInOrder'
  <2> SUFFICES ASSUME NEW b \in Asks, times'[b].status = "pending"
               PROVE  InOrder(times'[b]) /\ Len(times'[b].signed) < Len(times'[b].chain)
    BY DEF PendingInOrder, InOrder, Times!IsPending
  <2>1. CASE b = a BY <2>1, <1>2, <1>3
  <2>2. CASE b # a BY <2>2, <1>3 DEF CorrectionsInv, PendingInOrder, Times!IsPending
  <2> QED BY <2>1, <2>2
<1>10. SteadyInOrder'
  <2> SUFFICES ASSUME NEW b \in Asks, b \notin overtaken', times'[b] # Times!NoAsk
               PROVE  InOrder(times'[b])
    BY DEF SteadyInOrder, InOrder
  <2>1. CASE b = a BY <2>1
  <2>2. CASE b # a BY <2>2, <1>3 DEF CorrectionsInv, SteadyInOrder
  <2> QED BY <2>1, <2>2
<1>11. FilingIsFresh'
  <2> SUFFICES ASSUME NEW g \in Handlers, NEW b \in Asks,
                      deciders'[g].pc = "file", ~deciders'[g].late, Times!IsPending(b)'
               PROVE  times'[b].day # deciders'[g].day
    BY DEF FilingIsFresh
  <2>1. deciders'[g] = deciders[g] BY DEF Times!Idle
  <2> QED BY <2>1, <1>w DEF CorrectionsInv, FilingIsFresh
<1>12. DecisionsKnow'
  <2> SUFFICES ASSUME NEW g \in Handlers, NEW b \in Asks, Times!Deciding(g, b)'
               PROVE  /\ times'[b] # Times!NoAsk
                      /\ deciders'[g].pc = "approve" => record'[times'[b].day] # "punched"
                      /\ b \notin overtaken' =>
                           /\ times'[b].status = "pending" /\ Times!MaySign(times'[b], "Owner")
                           /\ deciders'[g].signs = Times!Signatures(times'[b], "Owner")
    BY DEF DecisionsKnow, Times!IsPending
  <2>1. deciders'[g] = deciders[g] /\ Times!Deciding(g, b)
    BY DEF Times!Deciding, Times!Idle
  <2>2. times[b] # Times!NoAsk /\ times[b].day \in CorrectedDays
    BY <2>1, <1>0, Kinds DEF CorrectionsInv, DecisionsKnow
  <2>3. deciders'[g].pc = "approve" => record'[times[b].day] # "punched"
    BY <2>1, <2>2, <1>5 DEF CorrectionsInv, DecisionsKnow
  <2>4. CASE b = a BY <2>3, <2>4, <1>2, <1>3
  <2>5. CASE b # a
    <3>1. times'[b] = times[b] /\ (b \notin overtaken' => b \notin overtaken)
      BY <2>5, <1>3
    <3>2. b \notin overtaken =>
            /\ times[b].status = "pending" /\ Times!MaySign(times[b], "Owner")
            /\ deciders[g].signs = Times!Signatures(times[b], "Owner")
      BY <2>1 DEF CorrectionsInv, DecisionsKnow, Times!IsPending
    <3> HIDE DEF Times!MaySign
    <3> QED BY <3>1, <3>2, <2>1, <2>2, <2>3
  <2> QED BY <2>4, <2>5
<1>13. RecordIsDecided'
  <2> SUFFICES ASSUME NEW e \in CorrectedDays, NEW b \in Asks, record'[e] = b,
                      times'[b].status # "approved", b \notin overtaken'
               PROVE  \E g \in Handlers : deciders'[g].pc = "approve" /\ deciders'[g].id = b
    BY DEF RecordIsDecided
  <2>1. record[e] = b /\ times[b].status # "approved" /\ b \notin overtaken
    <3>1. CASE b = a
      <4>1. st = "pending" BY <3>1, <1>2, <1>3
      <4> QED BY <3>1, <4>1 DEF Times!IsPending
    <3>2. CASE b # a BY <3>2, <1>3, <1>5
    <3> QED BY <3>1, <3>2
  <2>2. PICK g \in Handlers : deciders[g].pc = "approve" /\ deciders[g].id = b
    BY <2>1 DEF CorrectionsInv, RecordIsDecided
  <2>3. CASE b = a
    <3>1. st = "pending" /\ deciders' = deciders BY <2>3, <1>2, <1>3
    <3> QED BY <3>1, <2>2
  <2>4. CASE b # a
    <3>1. deciders'[g] = deciders[g] BY <2>2, <2>4 DEF Times!Deciding
    <3> QED BY <3>1, <2>2
  <2> QED BY <2>3, <2>4
<1> QED BY <1>6, <1>7, <1>8, <1>9, <1>10, <1>11, <1>12, <1>13 DEF CorrectionsInv

\* So a row on which a level has signed is in order again, and has a level left unless the
\* last one signed.
LEMMA SignedInTurn ==
  ASSUME NEW ask \in Times!TimeAsk, InOrder(ask), NEW role, Times!MaySign(ask, role),
         NEW new, new.chain = ask.chain,
         new.signed = ask.signed \o Times!Signatures(ask, role)
  PROVE  /\ new.signed \in Seq(Times!Signature)
         /\ InOrder(new)
         /\ role # Times!Last(ask.chain) => Len(new.signed) < Len(new.chain)
<1> DEFINE at == Times!Level(ask.chain, role)
<1>1. /\ at \in 1..Len(ask.chain) /\ ask.chain[at] = role
      /\ new.signed \in Seq(Times!Signature) /\ Len(new.signed) = at
      /\ \A i \in 1..at : new.signed[i].role = ask.chain[i]
  BY SigningKeepsOrder
<1>2. ask.chain \in Times!Chains BY DEF Times!TimeAsk
<1>3. Len(ask.chain) \in {2, 3} BY <1>2, ChainShape
<1> HIDE DEF at
<1>4. InOrder(new)
  <2>1. Len(new.signed) <= Len(new.chain) BY <1>1, <1>3
  <2>2. \A i \in 1..Len(new.signed) : new.signed[i].role = new.chain[i] BY <1>1
  <2> QED BY <2>1, <2>2 DEF InOrder
<1>5. role # Times!Last(ask.chain) => Len(new.signed) < Len(new.chain)
  BY <1>1, <1>3 DEF Times!Last
<1> QED BY <1>1, <1>4, <1>5

\* What a decision that nothing overtook knew of the row still holds when it lands.
LEMMA ApproveKeeps ==
  ASSUME CorrectionsInv, NEW h \in Handlers, Times!DecideApprove(h)
  PROVE  CorrectionsInv'
<1> DEFINE w == deciders[h]
<1>0. Times!TypeOK BY DEF CorrectionsInv
<1>a. w.pc = "approve" /\ w \in Times!Approving /\ w.id \in Asks
  <2>1. w.pc = "approve" BY DEF Times!DecideApprove
  <2> QED BY <2>1, <1>0, Kinds
<1>b. PICK a \in Asks : a = w.id BY <1>a
<1> DEFINE signed == times[a].signed \o w.signs
<1>1. w.pc = "approve" /\ w.id = a /\ w \in Times!Approving /\ Times!Deciding(h, a)
  BY <1>a, <1>b DEF Times!Deciding
<1>2. w.signs \in Seq(Times!Signature)
  BY <1>1 DEF Times!Approving
<1>3. /\ deciders' = [deciders EXCEPT ![h] = Times!Idle] /\ UNCHANGED <<record, rushed>>
      /\ deciders' \in [Handlers -> {Times!Idle} \cup Times!Filing \cup Times!Approving]
      /\ deciders'[h] = Times!Idle /\ \A g \in Handlers \ {h} : deciders'[g] = deciders[g]
  BY <1>0 DEF Times!DecideApprove, Times!Goto, Times!TypeOK
<1>4. CASE Times!IsPending(a)
  <2>1. /\ times' = [times EXCEPT ![a].status = "approved", ![a].signed = @ \o w.signs]
        /\ Times!Overtake(a, {h})
    BY <1>1, <1>4 DEF Times!DecideApprove
  <2>2. times[a] \in Times!TimeAsk /\ times[a] # Times!NoAsk /\ times[a].day \in CorrectedDays
    BY <1>0, <1>1, <1>4, Kinds DEF Times!IsPending
  <2>3. times[a].signed \in Seq(Times!Signature) BY <2>2 DEF Times!TimeAsk
  <2>4. signed \in Seq(Times!Signature) BY <1>2, <2>3
  <2>5. times' = [times EXCEPT ![a].signed = signed, ![a].status = "approved"]
    <3>1. times'[a] = [times[a] EXCEPT !.signed = signed, !.status = "approved"]
      BY <2>1, <2>2, <1>0, <1>1 DEF Times!TypeOK, Times!TimeAsk
    <3> QED BY <3>1, <2>1, <2>2, <1>0, <1>1 DEF Times!TypeOK, Times!TimeAsk
  <2>6. /\ overtaken \subseteq overtaken' /\ overtaken' \subseteq overtaken \cup {a}
        /\ \A g \in Handlers \ {h} : Times!Deciding(g, a) => a \in overtaken'
    BY <2>1 DEF Times!Overtake
  <2>7. ASSUME NEW g \in Handlers, Times!Deciding(g, a)' PROVE a \in overtaken'
    <3>1. g # h BY <2>7, <1>3 DEF Times!Deciding, Times!Idle
    <3>2. Times!Deciding(g, a) BY <3>1, <2>7, <1>3 DEF Times!Deciding
    <3> QED BY <3>1, <3>2, <2>6
  <2>8. record'[times[a].day] # "punched" /\ record' = record
    BY <1>1, <1>3 DEF CorrectionsInv, DecisionsKnow
  <2>9. ASSUME a \notin overtaken' PROVE InOrder(times'[a])
    <3>1. a \notin overtaken BY <2>6, <2>9
    <3>2. w.signs = Times!Signatures(times[a], "Owner") /\ Times!MaySign(times[a], "Owner")
      BY <3>1, <1>1 DEF CorrectionsInv, DecisionsKnow
    <3>3. InOrder(times[a]) BY <1>1, <1>4 DEF CorrectionsInv, PendingInOrder
    <3>4. times'[a].signed = signed /\ times'[a].chain = times[a].chain
      BY <2>2, <2>5, <1>0 DEF Times!TypeOK, Times!TimeAsk
    <3> QED BY <3>2, <3>3, <3>4, <2>2, SignedInTurn
  <2>10. \A g \in Handlers :
           deciders'[g] = deciders[g] \/ (deciders'[g] = Times!Idle /\ Times!Deciding(g, a))
    BY <1>1, <1>3
  <2> HIDE DEF signed, w
  <2> QED BY <1>1, <1>3, <1>4, <2>4, <2>5, <2>6, <2>7, <2>8, <2>9, <2>10, SigningKeeps
<1>5. CASE ~Times!IsPending(a)
  <2>1. UNCHANGED <<times, record, rushed, overtaken>>
    BY <1>1, <1>3, <1>5 DEF Times!DecideApprove
  <2>2. a \in overtaken
    BY <1>1, <1>5 DEF CorrectionsInv, DecisionsKnow
  <2>3. Times!TypeOK' BY <2>1, <1>0, <1>3 DEF Times!TypeOK
  <2>4. /\ Times!OneWaitingUnlessRace' /\ Times!ApprovedReachesRecord' /\ PendingInOrder'
        /\ SteadyInOrder'
    BY <2>1 DEF CorrectionsInv, Times!OneWaitingUnlessRace, Times!ApprovedReachesRecord, PendingInOrder,
                SteadyInOrder, InOrder, Times!IsPending
  <2>5. FilingIsFresh'
    BY <2>1, <1>3 DEF CorrectionsInv, FilingIsFresh, Times!IsPending, Times!Idle
  <2>6. DecisionsKnow'
    BY <2>1, <1>3 DEF CorrectionsInv, DecisionsKnow, Times!Deciding, Times!IsPending, Times!Idle
  <2>7. RecordIsDecided'
    <3> SUFFICES ASSUME NEW e \in CorrectedDays, NEW b \in Asks, record[e] = b,
                        times[b].status # "approved", b \notin overtaken
                 PROVE  \E g \in Handlers : deciders'[g].pc = "approve" /\ deciders'[g].id = b
      BY <2>1 DEF RecordIsDecided
    <3>1. PICK g \in Handlers : deciders[g].pc = "approve" /\ deciders[g].id = b
      BY DEF CorrectionsInv, RecordIsDecided
    <3>2. g # h BY <3>1, <2>2, <1>1
    <3> QED BY <3>1, <3>2, <1>3
  <2> QED BY <2>3, <2>4, <2>5, <2>6, <2>7 DEF CorrectionsInv
<1> QED BY <1>4, <1>5

\* A level that signs on the ERP keeps the order; the last one closes the row and writes
\* its day.
LEMMA ErpSignKeeps ==
  ASSUME CorrectionsInv, NEW a \in Asks, NEW role \in Times!Roles, Times!ErpSign(a, role)
  PROVE  CorrectionsInv'
<1> DEFINE signed == times[a].signed \o Times!Signatures(times[a], role)
           closes == role = Times!Last(times[a].chain)
           st == IF closes THEN "approved" ELSE "pending"
<1>0. Times!TypeOK BY DEF CorrectionsInv
<1>1. /\ Times!IsPending(a) /\ Times!MaySign(times[a], role) /\ Times!Overtake(a, {})
      /\ times' = [times EXCEPT ![a].signed = signed,
                                ![a].status = IF closes THEN "approved" ELSE @]
      /\ record' = IF closes THEN [record EXCEPT ![times[a].day] = a] ELSE record
      /\ UNCHANGED <<deciders, rushed>>
  BY DEF Times!ErpSign
<1>2. times[a] \in Times!TimeAsk /\ times[a].day \in CorrectedDays /\ InOrder(times[a])
  BY <1>0, <1>1, Kinds DEF CorrectionsInv, PendingInOrder, Times!IsPending
<1>4. times'[a].signed = signed /\ times'[a].chain = times[a].chain
  BY <1>0, <1>1, <1>2 DEF Times!TypeOK, Times!TimeAsk
<1>5. /\ signed \in Seq(Times!Signature) /\ InOrder(times'[a])
      /\ ~closes => Len(signed) < Len(times[a].chain)
  BY <1>1, <1>2, <1>4, SignedInTurn
<1> HIDE DEF signed, closes
<1>7. times' = [times EXCEPT ![a].signed = signed, ![a].status = st]
  <2>1. times'[a] = [times[a] EXCEPT !.signed = signed, !.status = st]
    BY <1>0, <1>1, <1>2 DEF Times!TypeOK, Times!TimeAsk, Times!IsPending
  <2> QED BY <2>1, <1>0, <1>1, <1>2 DEF Times!TypeOK, Times!TimeAsk
<1>10. /\ overtaken \subseteq overtaken' /\ overtaken' \subseteq overtaken \cup {a}
       /\ \A g \in Handlers : Times!Deciding(g, a) => a \in overtaken'
  BY <1>1 DEF Times!Overtake
<1>11. \A g \in Handlers : Times!Deciding(g, a)' => a \in overtaken'
  BY <1>1, <1>10 DEF Times!Deciding
<1>12. /\ record' \in {record, [record EXCEPT ![times[a].day] = a]}
       /\ st = "approved" => record'[times[a].day] # "punched"
       /\ st = "pending" => record' = record
  BY <1>0, <1>1, <1>2, CorrectionConstants DEF Times!TypeOK
<1>13. deciders' \in [Handlers -> {Times!Idle} \cup Times!Filing \cup Times!Approving]
  BY <1>0, <1>1 DEF Times!TypeOK
<1>14. st \in {"pending", "approved"} /\ (st = "pending" => ~closes)
  OBVIOUS
<1> HIDE DEF st
<1> QED
  BY <1>1, <1>5, <1>7, <1>10, <1>11, <1>12, <1>13, <1>14, SigningKeeps

\* What waited before the chain was changed waits on the old one, one row a day.
LEMMA CorrectionsBegin ==
  ASSUME Times!Init
  PROVE  CorrectionsInv
<1>1. /\ times \in [Asks -> {Times!NoAsk} \cup {Times!NewAsk(d, Times!LEAVE_CHAIN) : d \in CorrectedDays}]
      /\ \A a, b \in Asks :
           a # b /\ times[a] # Times!NoAsk /\ times[b] # Times!NoAsk => times[a].day # times[b].day
      /\ record = [d \in CorrectedDays |-> "punched"]
      /\ deciders = [h \in Handlers |-> Times!Idle]
      /\ rushed = {} /\ overtaken = {}
  BY DEF Times!Init
<1>2. ASSUME NEW d \in CorrectedDays
      PROVE  LET new == Times!NewAsk(d, Times!LEAVE_CHAIN)
             IN /\ new \in Times!TimeAsk /\ InOrder(new) /\ Len(new.signed) < Len(new.chain)
                /\ new.status = "pending"
  <2> DEFINE chain == Times!LEAVE_CHAIN
  <2>1. chain \in Times!Chains /\ Len(chain) = 3
    BY DEF Times!LEAVE_CHAIN, Times!Chains
  <2>2. << >> \in Seq(Times!Signature) /\ Len(<< >>) = 0
    OBVIOUS
  <2> HIDE DEF chain
  <2> QED BY <2>1, <2>2 DEF Times!NewAsk, Times!TimeAsk, InOrder, chain
<1>3. \A a \in Asks : times[a] # Times!NoAsk =>
        /\ times[a] \in Times!TimeAsk /\ InOrder(times[a])
        /\ Len(times[a].signed) < Len(times[a].chain) /\ times[a].status = "pending"
  BY <1>1, <1>2
<1>4. \A a \in Asks : Times!IsPending(a) => times[a] # Times!NoAsk
  BY DEF Times!IsPending, Times!NoAsk
<1>5. \A h \in Handlers : deciders[h] = Times!Idle /\ deciders[h].pc = "idle"
  BY <1>1 DEF Times!Idle
<1>6. Times!TypeOK
  <2>1. times \in [Asks -> {Times!NoAsk} \cup Times!TimeAsk] BY <1>1, <1>3
  <2> QED BY <1>1, <2>1 DEF Times!TypeOK
<1>7. Times!OneWaitingUnlessRace
  BY <1>1, <1>4 DEF Times!OneWaitingUnlessRace
<1>8. Times!ApprovedReachesRecord
  BY <1>3 DEF Times!ApprovedReachesRecord, Times!NoAsk
<1>9. PendingInOrder /\ SteadyInOrder
  BY <1>3, <1>4 DEF PendingInOrder, SteadyInOrder
<1>10. FilingIsFresh /\ DecisionsKnow
  BY <1>5 DEF FilingIsFresh, DecisionsKnow, Times!Deciding
<1>11. RecordIsDecided
  BY <1>1, CorrectionConstants DEF RecordIsDecided
<1> QED BY <1>6, <1>7, <1>8, <1>9, <1>10, <1>11 DEF CorrectionsInv

\* Every step keeps what is known of the rows, the record and the decisions on their way.
LEMMA CorrectionsKeep ==
  ASSUME CorrectionsInv, [Times!Next]_timeVars
  PROVE  CorrectionsInv'
<1>1. CASE UNCHANGED timeVars
  BY <1>1
  DEF timeVars, CorrectionsInv, Times!TypeOK, Times!OneWaitingUnlessRace, Times!ApprovedReachesRecord,
      PendingInOrder, SteadyInOrder, InOrder, FilingIsFresh, DecisionsKnow, RecordIsDecided,
      Times!IsPending, Times!Deciding
<1>2. CASE Times!Next
  BY <1>2, RequestKeeps, InsertKeeps, CancelKeeps, ReadKeeps, ApplyKeeps, ApproveKeeps,
     RejectKeeps, CrashKeeps, ErpFileKeeps, ErpSignKeeps, ErpRejectKeeps
  DEF Times!Next
<1> QED BY <1>1, <1>2

\* The queue says truly where a chain stands: on a row that waits the levels have signed in
\* order and one is left.
LEMMA QueueIsTrue ==
  ASSUME CorrectionsInv
  PROVE  Times!QueueNamesNextLevel
<1> SUFFICES ASSUME NEW entry \in Times!PendingForAdmin("pending")
             PROVE  LET ask  == times[entry.id]
                        done == {ask.chain[i] : i \in 1..(Times!Level(ask.chain, entry.waitingOn) - 1)}
                    IN /\ Times!MaySign(ask, entry.waitingOn)
                       /\ Times!SignedRoles(ask) = done
                       /\ entry.signedBy \subseteq done
  BY DEF Times!QueueNamesNextLevel
<1>0. Times!TypeOK BY DEF CorrectionsInv
<1>1. PICK a \in Asks : Times!IsPending(a) /\ entry = Times!ToRegularizationDto(a)
  BY DEF Times!PendingForAdmin, Times!TimeCorrectionsByStatus, Times!IsPending
<1> DEFINE ask == times[a]
           n == Len(ask.signed)
<1>2. /\ entry.id = a /\ entry.waitingOn = Times!WaitingOn(ask) /\ entry.signedBy = Times!SignedBy(ask)
  BY <1>1 DEF Times!ToRegularizationDto
<1>3. ask \in Times!TimeAsk /\ InOrder(ask) /\ n < Len(ask.chain)
  BY <1>0, <1>1, Kinds DEF CorrectionsInv, PendingInOrder, Times!IsPending
<1> HIDE DEF ask
<1>4. ask.chain \in Times!Chains /\ n \in Nat /\ ask.signed \in Seq(Times!Signature)
  BY <1>3 DEF Times!TimeAsk
<1>5. Len(ask.chain) \in Nat /\ n + 1 \in 1..Len(ask.chain) /\ n + 1 - 1 = n
  BY <1>3, <1>4, ChainShape
<1>6. /\ Times!SignedRoles(ask) = {ask.chain[i] : i \in 1..n} /\ Times!Turn(ask) = n + 1
  BY <1>3, FirstSigned
<1> HIDE DEF n
<1>7. entry.waitingOn = ask.chain[n + 1]
  BY <1>2, <1>5, <1>6 DEF Times!WaitingOn
<1>8. Times!Level(ask.chain, entry.waitingOn) - 1 = n
  BY <1>4, <1>5, <1>7, LevelIs
<1>9. Times!MaySign(ask, entry.waitingOn)
  <2>1. ask.chain[n + 1] \in Times!ToSet(ask.chain)
    BY <1>4, <1>5, ChainShape DEF Times!ToSet
  <2>2. \A i \in 1..n : ask.chain[i] # ask.chain[n + 1]
    BY <1>4, <1>5, ChainShape
  <2> QED BY <2>1, <2>2, <1>6, <1>7 DEF Times!MaySign
<1>10. Times!SignedBy(ask) \subseteq Times!SignedRoles(ask)
  BY DEF Times!SignedBy, Times!SignedRoles
<1> QED BY <1>2, <1>6, <1>8, <1>9, <1>10 DEF ask

\* What is known of the corrections is enough for what a run checks of them.
LEMMA CorrectionsFollow ==
  ASSUME CorrectionsInv
  PROVE  /\ Times!TypeOK
         /\ Times!OneWaitingUnlessRace
         /\ Times!RecordUnlessOvertaken
         /\ Times!ApprovedReachesRecord
         /\ Times!SignedInOrderUnlessOvertaken
         /\ Times!QueueNamesNextLevel
<1>1. Times!TypeOK BY DEF CorrectionsInv
<1>2. Times!RecordUnlessOvertaken
  BY DEF CorrectionsInv, RecordIsDecided, Times!RecordUnlessOvertaken, Times!Deciding
<1>3. Times!SignedInOrderUnlessOvertaken
  <2> SUFFICES ASSUME NEW a \in Asks, a \notin overtaken, times[a] # Times!NoAsk,
                      NEW i \in DOMAIN times[a].signed, NEW j \in DOMAIN times[a].signed, i < j
               PROVE  Times!LevelOf(a, i) < Times!LevelOf(a, j)
    BY DEF Times!SignedInOrderUnlessOvertaken
  <2>1. times[a] \in Times!TimeAsk /\ InOrder(times[a])
    BY <1>1, Kinds DEF CorrectionsInv, SteadyInOrder
  <2>2. times[a].chain \in Times!Chains /\ times[a].signed \in Seq(Times!Signature)
    BY <2>1 DEF Times!TimeAsk
  <2>3. i \in 1..Len(times[a].signed) /\ j \in 1..Len(times[a].signed)
    BY <2>2
  <2>4. /\ i \in 1..Len(times[a].chain) /\ times[a].signed[i].role = times[a].chain[i]
        /\ j \in 1..Len(times[a].chain) /\ times[a].signed[j].role = times[a].chain[j]
    BY <2>1, <2>2, <2>3, ChainShape DEF InOrder
  <2>5. Times!LevelOf(a, i) = i /\ Times!LevelOf(a, j) = j
    BY <2>2, <2>4, LevelIs DEF Times!LevelOf
  <2> QED BY <2>5
<1> QED BY <1>1, <1>2, <1>3, QueueIsTrue DEF CorrectionsInv

\* What is followed is followed to the end.
LEMMA TimesOnly ==
  ASSUME which = "times" => CorrectionsInv,
         [DaysNext]_<<which, vars, timeVars, dayVars, trailVars, officeVars, monthVars, payVars, teamVars>>
  PROVE  (which = "times" => CorrectionsInv)'
<1>1. which' = which
  BY DEF DaysNext
<1>2. which = "times" => [Times!Next]_timeVars
  BY DEF DaysNext, timeVars
<1> QED BY <1>1, <1>2, CorrectionsKeep

\* However many days, asks and requests there are, a day waits on one correction unless two
\* were asked for at once; no approval is ahead of the record and no record ahead of its
\* approval unless something overtook it; and levels sign in the chain's order, as the
\* queue shows them.
THEOREM CorrectionsKeepTheirWord == DaysSpec => []CorrectionsHold
<1>1. DaysInit => (which = "times" => CorrectionsInv)
  BY CorrectionsBegin DEF DaysInit
<1>2. (which = "times" => CorrectionsInv)
      /\ [DaysNext]_<<which, vars, timeVars, dayVars, trailVars, officeVars, monthVars, payVars, teamVars>>
      => (which = "times" => CorrectionsInv)'
  BY TimesOnly
<1>3. (which = "times" => CorrectionsInv) => CorrectionsHold
  BY CorrectionsFollow DEF CorrectionsHold
<1> QED BY <1>1, <1>2, <1>3, PTL DEF DaysSpec

-----------------------------------------------------------------------------
(* Numbers. *)

\* A set of numbers has a least one.
LEMMA HasLeast ==
  ASSUME NEW S \in SUBSET Nat, S # {}
  PROVE  \E n \in S : \A m \in S : n <= m
<1> DEFINE R == OpToRel(<, Nat)
<1>1. IsWellFoundedOn(R, Nat) BY NatLessThanWellFounded
<1>2. \A m, n \in Nat : m < n => <<m, n>> \in R BY DEF OpToRel
<1> HIDE DEF R
<1>3. PICK n \in S : \A m \in S : ~ (<<m, n>> \in R) BY <1>1, WFMin, Zenon
<1>4. \A m \in S : m \in Nat /\ n \in Nat /\ ~ (m < n) BY <1>2, <1>3
<1> QED BY <1>4

\* A bounded one has a greatest.
LEMMA HasGreatest ==
  ASSUME NEW N \in Nat, NEW S \in SUBSET (0..N), S # {}
  PROVE  \E n \in S : \A m \in S : m <= n
<1> DEFINE T == {N - m : m \in S}
<1>1. T \in SUBSET Nat /\ T # {}
  <2>1. \A m \in 0..N : N - m \in Nat OBVIOUS
  <2> QED BY <2>1
<1>2. PICK t \in T : \A u \in T : t <= u BY <1>1, HasLeast
<1>3. PICK n \in S : t = N - n BY <1>2
<1>4. ASSUME NEW m \in S PROVE m <= n
  <2>1. N - m \in T OBVIOUS
  <2>2. N - n <= N - m BY <1>2, <1>3, <2>1
  <2>3. n \in Int /\ m \in Int OBVIOUS
  <2> HIDE DEF T
  <2> QED BY <2>2, <2>3
<1> QED BY <1>4

\* Which Trail's Max finds.
LEMMA GreatestIs ==
  ASSUME NEW N \in Nat, NEW S \in SUBSET (0..N), S # {}
  PROVE  Trail!Max(S) \in S /\ \A m \in S : m <= Trail!Max(S)
<1>1. \E n \in S : \A m \in S : n >= m BY HasGreatest
<1> QED BY <1>1 DEF Trail!Max

\* Division by the length of a day is monotone.
LEMMA DivIsMonotone ==
  ASSUME NEW L \in Nat \ {0}, NEW a \in Nat, NEW b \in Nat, a <= b
  PROVE  a \div L \in Nat /\ a \div L <= b \div L
OBVIOUS

-----------------------------------------------------------------------------
(* The trail. *)

\* Days are numbered from 1, and the present is one of them.
LEMMA DaysAre ==
  /\ Trail!DayOf(MaxTime) \in Nat \ {0} /\ Trail!Days = 1..Trail!DayOf(MaxTime)
  /\ \A t \in Trail!Instants : Trail!DayOf(t) \in Trail!Days
<1> DEFINE Q(t) == (t - 1) \div DayLength
<1>1. ASSUME NEW t \in 1..MaxTime PROVE Q(t) \in Nat /\ Q(t) <= Q(MaxTime) /\ Q(MaxTime) \in Nat
  <2>1. t - 1 \in Nat /\ MaxTime - 1 \in Nat /\ t - 1 <= MaxTime - 1 BY TrailConstants
  <2> QED BY <2>1, DivIsMonotone, TrailConstants
<1>2. MaxTime \in 1..MaxTime BY TrailConstants
<1>3. Q(MaxTime) \in Nat BY <1>1, <1>2
<1> HIDE DEF Q
<1>4. \A t : Trail!DayOf(t) = Q(t) + 1 BY DEF Trail!DayOf, Q
<1> QED BY <1>1, <1>3, <1>4 DEF Trail!Days, Trail!Instants

\* What is kept of a batch, and stored, was on duty by the day it was read against.
OnDuty(d, t) == t + Before >= day[d].in /\ (day[d].out # 0 => t <= day[d].out)

\* A batch that has chosen its fixes chose fixes on duty, of a day somebody came in on.
BatchesAreOnDuty ==
  \A b \in Handlers :
    batch[b].pc \in {"kept", "stored"} =>
      /\ batch[b].day \in Trail!Days /\ day[batch[b].day].in # 0
      /\ batch[b].fixes # {}
      /\ batch[b].day \notin crossed => \A t \in batch[b].fixes : OnDuty(batch[b].day, t)

\* A batch that has read no day yet holds none.
UnreadHoldsNone == \A b \in Handlers : batch[b].pc \in {"none", "sent"} => batch[b].day = 0

\* Nothing is stored for a day nobody came in on.
BlankDaysAreEmpty == \A d \in Trail!Days : day[d].in = 0 => pings[d] = {} /\ day[d].out = 0

\* A fix is stored once.
StoredOnce ==
  \A d, e \in Trail!Days : \A t \in Trail!Instants : t \in pings[d] /\ t \in pings[e] => d = e

\* So is what a batch that has stored holds, and what the marker shows.
StoredIsThere ==
  /\ \A b \in Handlers : batch[b].pc = "stored" =>
       \A t \in batch[b].fixes : \E d \in Trail!Days : t \in pings[d]
  /\ last.at # 0 => \E d \in Trail!Days : last.at \in pings[d]

\* The inductive invariant.
TrailInv ==
  /\ Trail!TrailTypeOK
  /\ Trail!TrailStaysOnDutyUnlessCrossed
  /\ Trail!MarkerIsNewestUnlessUnmarked
  /\ BatchesAreOnDuty /\ UnreadHoldsNone /\ BlankDaysAreEmpty /\ StoredOnce /\ StoredIsThere

\* There is no fix yet.
LEMMA TrailBegins ==
  ASSUME Trail!TrailInit
  PROVE  TrailInv
<1>1. Trail!TrailTypeOK
  <2>1. 1 \in Trail!Instants BY TrailConstants DEF Trail!Instants
  <2>2. MaxTime \in Nat BY TrailConstants
  <2> QED BY <2>1, <2>2, DaysAre
     DEF Trail!TrailInit, Trail!TrailTypeOK, Trail!NoDay, Trail!NoBatch, Trail!Never,
         Trail!LocationPings, Trail!LocationLast
<1>2. /\ Trail!TrailStaysOnDutyUnlessCrossed /\ Trail!MarkerIsNewestUnlessUnmarked
      /\ BatchesAreOnDuty /\ UnreadHoldsNone /\ BlankDaysAreEmpty /\ StoredOnce /\ StoredIsThere
  BY DEF Trail!TrailInit, Trail!NoDay, Trail!NoBatch, Trail!Never,
         Trail!TrailStaysOnDutyUnlessCrossed, Trail!MarkerIsNewestUnlessUnmarked,
         BatchesAreOnDuty, UnreadHoldsNone, BlankDaysAreEmpty, StoredOnce, StoredIsThere
<1> QED BY <1>1, <1>2 DEF TrailInv

\* What the type says of a batch, and of the present.
LEMMA TrailKinds ==
  ASSUME Trail!TrailTypeOK
  PROVE  /\ clock \in 1..MaxTime /\ Trail!Today \in Trail!Days
         /\ \A b \in Handlers : batch[b].fixes \subseteq Trail!Instants /\ batch[b].day \in Nat
         /\ \A d \in Trail!Days : /\ pings[d] \subseteq Trail!Instants
                                  /\ day[d].in \in 0..MaxTime /\ day[d].out \in 0..MaxTime
<1>1. clock \in 1..MaxTime BY DEF Trail!TrailTypeOK, Trail!Instants
<1>2. Trail!Today \in Trail!Days BY DaysAre DEF Trail!TrailTypeOK, Trail!Today
<1>3. ASSUME NEW b \in Handlers PROVE batch[b].fixes \subseteq Trail!Instants /\ batch[b].day \in Nat
  <2>1. batch[b] \in [pc : {"none", "sent", "kept", "stored"}, fixes : SUBSET Trail!Instants,
                      day : 0..Trail!DayOf(MaxTime)]
    BY DEF Trail!TrailTypeOK
  <2>2. Trail!DayOf(MaxTime) \in Nat BY DaysAre
  <2>3. batch[b].fixes \subseteq Trail!Instants /\ batch[b].day \in 0..Trail!DayOf(MaxTime) BY <2>1
  <2> QED BY <2>2, <2>3
<1>4. ASSUME NEW d \in Trail!Days
      PROVE  /\ pings[d] \subseteq Trail!Instants
             /\ day[d].in \in 0..MaxTime /\ day[d].out \in 0..MaxTime
  BY DEF Trail!TrailTypeOK, Trail!LocationPings
<1> QED BY <1>1, <1>2, <1>3, <1>4

\* A batch moves on, or another begins, and nothing is stored.
LEMMA BatchKeeps ==
  ASSUME TrailInv, NEW b \in Handlers,
         NEW new \in [pc : {"none", "sent", "kept", "stored"}, fixes : SUBSET Trail!Instants,
                      day : 0..Trail!DayOf(MaxTime)],
         batch' = [batch EXCEPT ![b] = new],
         new.pc \in {"none", "sent"} => new.day = 0,
         new.pc # "stored" \/ new = batch[b],
         new.pc = "kept" =>
           /\ new.day \in Trail!Days /\ day[new.day].in # 0 /\ new.fixes # {}
           /\ new.day \notin crossed => \A t \in new.fixes : OnDuty(new.day, t),
         last' \in Trail!LocationLast, unmarked' \in 0..MaxTime,
         last'.at >= last.at, unmarked' >= unmarked,
         last' = last \/ (last'.at \in batch[b].fixes /\ batch[b].pc = "stored"),
         batch[b].pc = "stored" /\ new # batch[b] =>
           \A t \in batch[b].fixes : t <= last'.at \/ t <= unmarked',
         UNCHANGED <<clock, day, pings, crossed>>
  PROVE  TrailInv'
<1>0. Trail!TrailTypeOK BY DEF TrailInv
<1>1. /\ batch'[b] = new /\ \A c \in Handlers \ {b} : batch'[c] = batch[c]
      /\ batch' \in [Handlers -> [pc : {"none", "sent", "kept", "stored"}, fixes : SUBSET Trail!Instants,
                                  day : 0..Trail!DayOf(MaxTime)]]
  BY <1>0 DEF Trail!TrailTypeOK
<1>2. Trail!TrailTypeOK' BY <1>0, <1>1 DEF Trail!TrailTypeOK
<1>3. Trail!TrailStaysOnDutyUnlessCrossed' /\ BlankDaysAreEmpty' /\ StoredOnce'
  BY DEF TrailInv, Trail!TrailStaysOnDutyUnlessCrossed, BlankDaysAreEmpty, StoredOnce
<1>4. Trail!MarkerIsNewestUnlessUnmarked'
  <2> SUFFICES ASSUME NEW d \in Trail!Days, NEW t \in pings[d]
               PROVE  \/ t <= last'.at
                      \/ t <= unmarked'
                      \/ \E c \in Handlers : batch'[c].pc = "stored" /\ t \in batch'[c].fixes
    BY DEF Trail!MarkerIsNewestUnlessUnmarked
  <2>1. t \in Nat /\ last.at \in Nat /\ last'.at \in Nat /\ unmarked \in Nat /\ unmarked' \in Nat
    BY <1>0, TrailKinds, TrailConstants DEF Trail!TrailTypeOK, Trail!LocationLast, Trail!Instants
  <2>2. \/ t <= last.at \/ t <= unmarked
        \/ \E c \in Handlers : batch[c].pc = "stored" /\ t \in batch[c].fixes
    BY DEF TrailInv, Trail!MarkerIsNewestUnlessUnmarked
  <2>3. CASE t <= last.at \/ t <= unmarked BY <2>1, <2>3
  <2>4. ASSUME NEW c \in Handlers, batch[c].pc = "stored", t \in batch[c].fixes
        PROVE  \/ t <= last'.at \/ t <= unmarked' \/ batch'[c] = batch[c]
    BY <2>4, <1>1
  <2> QED BY <2>2, <2>3, <2>4
<1>5. BatchesAreOnDuty'
  <2> SUFFICES ASSUME NEW c \in Handlers, batch'[c].pc \in {"kept", "stored"}
               PROVE  /\ batch'[c].day \in Trail!Days /\ day[batch'[c].day].in # 0
                      /\ batch'[c].fixes # {}
                      /\ batch'[c].day \notin crossed => \A t \in batch'[c].fixes : OnDuty(batch'[c].day, t)
    BY DEF BatchesAreOnDuty, OnDuty
  <2>1. CASE batch'[c] = batch[c] BY <2>1 DEF TrailInv, BatchesAreOnDuty
  <2>2. CASE batch'[c] # batch[c]
    <3>1. c = b /\ batch'[c] = new /\ new.pc = "kept" BY <2>2, <1>1
    <3> QED BY <3>1
  <2> QED BY <2>1, <2>2
<1>6. UnreadHoldsNone'
  BY <1>1 DEF TrailInv, UnreadHoldsNone
<1>7. StoredIsThere'
  <2>1. ASSUME NEW c \in Handlers, batch'[c].pc = "stored", NEW t \in batch'[c].fixes
        PROVE  \E d \in Trail!Days : t \in pings[d]
    <3>1. batch'[c] = batch[c] BY <2>1, <1>1
    <3> QED BY <2>1, <3>1 DEF TrailInv, StoredIsThere
  <2>2. ASSUME last'.at # 0 PROVE \E d \in Trail!Days : last'.at \in pings[d]
    BY <2>2 DEF TrailInv, StoredIsThere
  <2> QED BY <2>1, <2>2 DEF StoredIsThere
<1> QED BY <1>2, <1>3, <1>4, <1>5, <1>6, <1>7 DEF TrailInv

\* A device sends what it has.
LEMMA SendKeeps ==
  ASSUME TrailInv, NEW b \in Handlers, NEW fixes \in SUBSET Trail!Instants, Trail!Send(b, fixes)
  PROVE  TrailInv'
<1> DEFINE new == [Trail!NoBatch EXCEPT !.pc = "sent", !.fixes = fixes]
<1>0. Trail!TrailTypeOK BY DEF TrailInv
<1>1. /\ batch[b].pc = "none" /\ batch' = [batch EXCEPT ![b] = new]
      /\ UNCHANGED <<clock, day, pings, last, crossed, unmarked>>
  BY DEF Trail!Send
<1>2. /\ new \in [pc : {"none", "sent", "kept", "stored"}, fixes : SUBSET Trail!Instants,
                  day : 0..Trail!DayOf(MaxTime)]
      /\ new.pc = "sent" /\ new.day = 0
  <2>1. Trail!DayOf(MaxTime) \in Nat BY DaysAre
  <2>2. 0 \in 0..Trail!DayOf(MaxTime) BY <2>1
  <2> QED BY <2>2 DEF Trail!NoBatch
<1>3. /\ last' \in Trail!LocationLast /\ unmarked' \in 0..MaxTime
      /\ last'.at >= last.at /\ unmarked' >= unmarked
  BY <1>0, <1>1, TrailConstants DEF Trail!TrailTypeOK, Trail!LocationLast
<1> HIDE DEF new
<1> QED BY <1>1, <1>2, <1>3, BatchKeeps

\* What is kept of a batch lies within the day that is read: from a little before its
\* check-in, and once it is over to its check-out.
LEMMA SelectKeeps ==
  ASSUME TrailInv, NEW b \in Handlers, Trail!Select(b)
  PROVE  TrailInv'
<1> DEFINE now == Trail!Today
           r == day[now]
           kept == IF r.in = 0 THEN {} ELSE Trail!SelectPings(batch[b].fixes, r)
           new == IF kept = {} THEN Trail!NoBatch ELSE [pc |-> "kept", fixes |-> kept, day |-> now]
<1>0. Trail!TrailTypeOK BY DEF TrailInv
<1>1. /\ batch[b].pc = "sent" /\ batch' = [batch EXCEPT ![b] = new]
      /\ UNCHANGED <<clock, day, pings, last, crossed, unmarked>>
  BY DEF Trail!Select, Trail!Never
<1>2. now \in Trail!Days /\ now \in 0..Trail!DayOf(MaxTime) /\ kept \subseteq Trail!Instants
  BY <1>0, TrailKinds, DaysAre DEF Trail!SelectPings
<1>3. \A t \in kept : r.in # 0 /\ OnDuty(now, t)
  BY DEF Trail!SelectPings, Trail!WindowEnd, Trail!Never, OnDuty
<1> HIDE DEF kept, now
<1>4. /\ new \in [pc : {"none", "sent", "kept", "stored"}, fixes : SUBSET Trail!Instants,
                  day : 0..Trail!DayOf(MaxTime)]
      /\ new.pc \in {"none", "kept"} /\ (new.pc = "none" => new.day = 0)
      /\ new.pc = "kept" => new.day = now /\ new.fixes = kept /\ kept # {}
  BY <1>2, DaysAre DEF Trail!NoBatch
<1>5. /\ last' \in Trail!LocationLast /\ unmarked' \in 0..MaxTime
      /\ last'.at >= last.at /\ unmarked' >= unmarked
  BY <1>0, <1>1, TrailConstants DEF Trail!TrailTypeOK, Trail!LocationLast
<1> HIDE DEF new
<1> QED BY <1>1, <1>2, <1>3, <1>4, <1>5, BatchKeeps

\* The marker moves to the newest fix of a batch that is stored, and only forward.
LEMMA MarkKeeps ==
  ASSUME TrailInv, NEW b \in Handlers, Trail!Mark(b)
  PROVE  TrailInv'
<1> DEFINE t == Trail!Max(batch[b].fixes)
<1>0. Trail!TrailTypeOK BY DEF TrailInv
<1>1. /\ batch[b].pc = "stored" /\ batch' = [batch EXCEPT ![b] = Trail!NoBatch]
      /\ last' = IF t > last.at THEN [at |-> t, day |-> batch[b].day] ELSE last
      /\ UNCHANGED <<clock, day, pings, crossed, unmarked>>
  BY DEF Trail!Mark, Trail!Newer
<1>2. batch[b].fixes \in SUBSET (0..MaxTime) /\ batch[b].fixes # {} /\ batch[b].day \in 0..Trail!DayOf(MaxTime)
  <2>1. batch[b].fixes \subseteq Trail!Instants BY <1>0, TrailKinds
  <2>2. Trail!Instants \subseteq 0..MaxTime BY TrailConstants DEF Trail!Instants
  <2>3. batch[b].fixes # {} BY <1>1 DEF TrailInv, BatchesAreOnDuty
  <2>4. batch[b].day \in 0..Trail!DayOf(MaxTime) BY <1>0 DEF Trail!TrailTypeOK
  <2> QED BY <2>1, <2>2, <2>3, <2>4
<1>3. t \in batch[b].fixes /\ \A u \in batch[b].fixes : u <= t
  <2>1. MaxTime \in Nat BY TrailConstants
  <2> QED BY <1>2, <2>1, GreatestIs
<1> HIDE DEF t
<1>4. t \in 0..MaxTime /\ last.at \in 0..MaxTime /\ last \in Trail!LocationLast /\ unmarked \in 0..MaxTime
  BY <1>0, <1>2, <1>3 DEF Trail!TrailTypeOK, Trail!LocationLast
<1>5. /\ Trail!NoBatch \in [pc : {"none", "sent", "kept", "stored"}, fixes : SUBSET Trail!Instants,
                            day : 0..Trail!DayOf(MaxTime)]
      /\ Trail!NoBatch.pc = "none" /\ Trail!NoBatch.day = 0
  <2>1. Trail!DayOf(MaxTime) \in Nat BY DaysAre
  <2>2. 0 \in 0..Trail!DayOf(MaxTime) BY <2>1
  <2> QED BY <2>2 DEF Trail!NoBatch
<1>6. /\ last' \in Trail!LocationLast /\ last'.at >= last.at
      /\ last' = last \/ (last'.at \in batch[b].fixes /\ batch[b].pc = "stored")
      /\ \A u \in batch[b].fixes : u <= last'.at
  <2>1. CASE t > last.at
    <3>1. last' = [at |-> t, day |-> batch[b].day] BY <1>1, <2>1
    <3>2. last'.at = t BY <3>1
    <3>3. last' \in Trail!LocationLast BY <3>1, <1>4, <1>2 DEF Trail!LocationLast
    <3> QED BY <3>2, <3>3, <2>1, <1>1, <1>3, <1>4
  <2>2. CASE ~ (t > last.at)
    <3>1. last' = last BY <1>1, <2>2
    <3>2. \A u \in batch[b].fixes : u \in 0..MaxTime /\ u <= t BY <1>2, <1>3
    <3>3. t <= last.at BY <2>2, <1>4
    <3> QED BY <3>1, <3>2, <3>3, <1>4
  <2> QED BY <2>1, <2>2
<1>7. unmarked' \in 0..MaxTime /\ unmarked' >= unmarked BY <1>1, <1>4
<1> QED BY <1>1, <1>5, <1>6, <1>7, BatchKeeps

\* A batch that dies after it was stored leaves its newest fix on record.
LEMMA DieKeeps ==
  ASSUME TrailInv, NEW b \in Handlers, Trail!Die(b)
  PROVE  TrailInv'
<1> DEFINE S == {unmarked} \cup batch[b].fixes
<1>0. Trail!TrailTypeOK BY DEF TrailInv
<1>1. /\ batch[b].pc \in {"kept", "stored"} /\ batch' = [batch EXCEPT ![b] = Trail!NoBatch]
      /\ unmarked' = IF batch[b].pc = "stored" THEN Trail!Max(S) ELSE unmarked
      /\ UNCHANGED <<clock, day, pings, last, crossed>>
  BY DEF Trail!Die
<1>2. unmarked \in 0..MaxTime /\ last \in Trail!LocationLast /\ last.at \in 0..MaxTime
  BY <1>0 DEF Trail!TrailTypeOK, Trail!LocationLast
<1>3. S \in SUBSET (0..MaxTime) /\ S # {} /\ MaxTime \in Nat
  <2>1. batch[b].fixes \subseteq Trail!Instants BY <1>0, TrailKinds
  <2>2. Trail!Instants \subseteq 0..MaxTime BY TrailConstants DEF Trail!Instants
  <2> QED BY <2>1, <2>2, <1>2, TrailConstants
<1>4. Trail!Max(S) \in S /\ \A u \in S : u <= Trail!Max(S) BY <1>3, GreatestIs
<1>5. /\ Trail!NoBatch \in [pc : {"none", "sent", "kept", "stored"}, fixes : SUBSET Trail!Instants,
                            day : 0..Trail!DayOf(MaxTime)]
      /\ Trail!NoBatch.pc = "none" /\ Trail!NoBatch.day = 0
  <2>1. Trail!DayOf(MaxTime) \in Nat BY DaysAre
  <2>2. 0 \in 0..Trail!DayOf(MaxTime) BY <2>1
  <2> QED BY <2>2 DEF Trail!NoBatch
<1>6. /\ unmarked' \in 0..MaxTime /\ unmarked' >= unmarked
      /\ batch[b].pc = "stored" => \A u \in batch[b].fixes : u <= unmarked'
  <2>1. Trail!Max(S) \in 0..MaxTime /\ unmarked <= Trail!Max(S) /\ \A u \in batch[b].fixes : u <= Trail!Max(S)
    BY <1>3, <1>4
  <2> HIDE DEF S
  <2> QED BY <2>1, <1>1, <1>2
<1>7. last' = last /\ last'.at >= last.at /\ last' \in Trail!LocationLast BY <1>1, <1>2
<1> HIDE DEF S
<1> QED BY <1>1, <1>5, <1>6, <1>7, BatchKeeps

\* A fix is stored for the day its batch was read against, and only where the person has
\* none of that instant.
LEMMA StoreKeeps ==
  ASSUME TrailInv, NEW b \in Handlers, Trail!Store(b)
  PROVE  TrailInv'
<1> DEFINE e == batch[b].day
           new == Trail!Fresh(batch[b].fixes)
<1>0. Trail!TrailTypeOK BY DEF TrailInv
<1>1. /\ batch[b].pc = "kept" /\ pings' = [pings EXCEPT ![e] = @ \cup new]
      /\ batch' = [batch EXCEPT ![b].pc = "stored"]
      /\ UNCHANGED <<clock, day, last, crossed, unmarked>>
  BY DEF Trail!Store
<1>2. /\ e \in Trail!Days /\ day[e].in # 0 /\ batch[b].fixes # {}
      /\ e \notin crossed => \A t \in batch[b].fixes : OnDuty(e, t)
  BY <1>1 DEF TrailInv, BatchesAreOnDuty
<1>3. /\ new \subseteq batch[b].fixes /\ batch[b].fixes \subseteq Trail!Instants
      /\ \A t \in batch[b].fixes : t \in new \/ \E d \in Trail!Days : t \in pings[d]
      /\ \A t \in new : \A d \in Trail!Days : t \notin pings[d]
  BY <1>0, TrailKinds DEF Trail!Fresh
<1>4. /\ pings' \in [Trail!Days -> SUBSET Trail!Instants]
      /\ pings'[e] = pings[e] \cup new /\ \A d \in Trail!Days \ {e} : pings'[d] = pings[d]
  BY <1>0, <1>1, <1>2, <1>3 DEF Trail!TrailTypeOK, Trail!LocationPings
<1>5. /\ batch' \in [Handlers -> [pc : {"none", "sent", "kept", "stored"}, fixes : SUBSET Trail!Instants,
                                  day : 0..Trail!DayOf(MaxTime)]]
      /\ batch'[b].pc = "stored" /\ batch'[b].fixes = batch[b].fixes /\ batch'[b].day = e
      /\ \A c \in Handlers \ {b} : batch'[c] = batch[c]
  BY <1>0, <1>1 DEF Trail!TrailTypeOK
<1> HIDE DEF e, new
<1>6. Trail!TrailTypeOK' BY <1>0, <1>1, <1>4, <1>5 DEF Trail!TrailTypeOK, Trail!LocationPings
<1>7. Trail!TrailStaysOnDutyUnlessCrossed'
  BY <1>1, <1>2, <1>3, <1>4 DEF TrailInv, Trail!TrailStaysOnDutyUnlessCrossed, OnDuty, Trail!Never
<1>8. Trail!MarkerIsNewestUnlessUnmarked'
  <2> SUFFICES ASSUME NEW d \in Trail!Days, NEW t \in pings'[d]
               PROVE  \/ t <= last.at
                      \/ t <= unmarked
                      \/ \E c \in Handlers : batch'[c].pc = "stored" /\ t \in batch'[c].fixes
    BY <1>1 DEF Trail!MarkerIsNewestUnlessUnmarked
  <2>1. CASE t \in new BY <2>1, <1>3, <1>5
  <2>2. CASE t \in pings[d]
    <3>1. \/ t <= last.at \/ t <= unmarked
          \/ \E c \in Handlers : batch[c].pc = "stored" /\ t \in batch[c].fixes
      BY <2>2 DEF TrailInv, Trail!MarkerIsNewestUnlessUnmarked
    <3> QED BY <3>1, <1>1, <1>5
  <2> QED BY <2>1, <2>2, <1>4
<1>9. BatchesAreOnDuty'
  <2> SUFFICES ASSUME NEW c \in Handlers, batch'[c].pc \in {"kept", "stored"}
               PROVE  /\ batch'[c].day \in Trail!Days /\ day[batch'[c].day].in # 0
                      /\ batch'[c].fixes # {}
                      /\ batch'[c].day \notin crossed => \A t \in batch'[c].fixes : OnDuty(batch'[c].day, t)
    BY <1>1 DEF BatchesAreOnDuty, OnDuty
  <2>1. CASE c = b BY <2>1, <1>2, <1>5
  <2>2. CASE c # b BY <2>2, <1>5 DEF TrailInv, BatchesAreOnDuty
  <2> QED BY <2>1, <2>2
<1>10. UnreadHoldsNone' BY <1>5 DEF TrailInv, UnreadHoldsNone
<1>11. BlankDaysAreEmpty' BY <1>1, <1>2, <1>4 DEF TrailInv, BlankDaysAreEmpty
<1>12. StoredOnce'
  <2>1. ASSUME NEW d \in Trail!Days, NEW f \in Trail!Days, NEW t \in Trail!Instants, t \in pings'[d], t \in pings'[f]
        PROVE  d = f
    <3>1. CASE t \in new BY <2>1, <3>1, <1>3, <1>4
    <3>2. CASE t \notin new
      <4>1. t \in pings[d] /\ t \in pings[f] BY <2>1, <3>2, <1>4
      <4> QED BY <4>1 DEF TrailInv, StoredOnce
    <3> QED BY <3>1, <3>2
  <2> QED BY <2>1 DEF StoredOnce
<1>13. StoredIsThere'
  <2>0. \A d \in Trail!Days : \A t \in pings[d] : t \in pings'[d] BY <1>4
  <2>1. ASSUME NEW c \in Handlers, batch'[c].pc = "stored", NEW t \in batch'[c].fixes
        PROVE  \E d \in Trail!Days : t \in pings'[d]
    <3>1. CASE c = b BY <2>0, <2>1, <3>1, <1>2, <1>3, <1>4, <1>5
    <3>2. CASE c # b BY <2>0, <2>1, <3>2, <1>5 DEF TrailInv, StoredIsThere
    <3> QED BY <3>1, <3>2
  <2>2. last'.at # 0 => \E d \in Trail!Days : last'.at \in pings'[d]
    BY <2>0, <1>1 DEF TrailInv, StoredIsThere
  <2> QED BY <2>1, <2>2 DEF StoredIsThere
<1> QED BY <1>6, <1>7, <1>8, <1>9, <1>10, <1>11, <1>12, <1>13 DEF TrailInv

\* The day's times change: only those of days that are, or become, crossed can lose what
\* was on duty.
LEMMA TimesKeep ==
  ASSUME TrailInv, NEW d \in Trail!Days, NEW r \in [in : 0..MaxTime, out : 0..MaxTime],
         day' = [day EXCEPT ![d] = r], r.in # 0,
         crossed' \in SUBSET Trail!Days, crossed \subseteq crossed',
         \/ d \in crossed'
         \/ /\ \A b \in Handlers : batch[b].day # d
            /\ \A t \in pings[d] : t + Before >= r.in /\ (r.out # 0 => t <= r.out),
         UNCHANGED <<clock, batch, pings, last, unmarked>>
  PROVE  TrailInv'
<1>0. Trail!TrailTypeOK BY DEF TrailInv
<1>1. /\ day'[d] = r /\ \A e \in Trail!Days \ {d} : day'[e] = day[e]
      /\ day' \in [Trail!Days -> [in : 0..MaxTime, out : 0..MaxTime]]
  BY <1>0 DEF Trail!TrailTypeOK
<1>2. Trail!TrailTypeOK' BY <1>0, <1>1 DEF Trail!TrailTypeOK
<1>3. Trail!TrailStaysOnDutyUnlessCrossed'
  <2> SUFFICES ASSUME NEW e \in Trail!Days \ crossed', NEW t \in pings[e]
               PROVE  t + Before >= day'[e].in /\ (day'[e].out # 0 => t <= day'[e].out)
    BY DEF Trail!TrailStaysOnDutyUnlessCrossed, Trail!Never
  <2>1. CASE e = d BY <2>1, <1>1
  <2>2. CASE e # d BY <2>2, <1>1 DEF TrailInv, Trail!TrailStaysOnDutyUnlessCrossed, Trail!Never
  <2> QED BY <2>1, <2>2
<1>4. BatchesAreOnDuty'
  <2> SUFFICES ASSUME NEW c \in Handlers, batch[c].pc \in {"kept", "stored"}
               PROVE  /\ batch[c].day \in Trail!Days /\ day'[batch[c].day].in # 0
                      /\ batch[c].fixes # {}
                      /\ batch[c].day \notin crossed' =>
                           \A t \in batch[c].fixes :
                             /\ t + Before >= day'[batch[c].day].in
                             /\ day'[batch[c].day].out # 0 => t <= day'[batch[c].day].out
    BY DEF BatchesAreOnDuty, OnDuty
  <2>1. /\ batch[c].day \in Trail!Days /\ day[batch[c].day].in # 0 /\ batch[c].fixes # {}
        /\ batch[c].day \notin crossed =>
             \A t \in batch[c].fixes :
               /\ t + Before >= day[batch[c].day].in
               /\ day[batch[c].day].out # 0 => t <= day[batch[c].day].out
    BY DEF TrailInv, BatchesAreOnDuty, OnDuty
  <2> QED BY <2>1, <1>1
<1>5. BlankDaysAreEmpty' BY <1>1 DEF TrailInv, BlankDaysAreEmpty
<1>6. /\ Trail!MarkerIsNewestUnlessUnmarked' /\ UnreadHoldsNone' /\ StoredOnce' /\ StoredIsThere'
  BY DEF TrailInv, Trail!MarkerIsNewestUnlessUnmarked, UnreadHoldsNone, StoredOnce, StoredIsThere
<1> QED BY <1>2, <1>3, <1>4, <1>5, <1>6 DEF TrailInv

\* A check-in opens the day in progress, of which nothing is stored.
LEMMA CheckInKeeps ==
  ASSUME TrailInv, Trail!CheckIn
  PROVE  TrailInv'
<1> DEFINE d == Trail!Today
           r == [in |-> clock, out |-> 0]
<1>0. Trail!TrailTypeOK BY DEF TrailInv
<1>1. d \in Trail!Days /\ clock \in 1..MaxTime BY <1>0, TrailKinds
<1>2. /\ day[d] = [in |-> 0, out |-> 0] /\ day' = [day EXCEPT ![d] = r]
      /\ UNCHANGED <<clock, batch, pings, last, crossed, unmarked>>
  <2>1. day[d] = [in |-> 0, out |-> 0] /\ day' = [day EXCEPT ![d].in = clock]
    BY DEF Trail!CheckIn, Trail!NoDay, Trail!Never
  <2>2. [day[d] EXCEPT !.in = clock] = r BY <2>1
  <2> QED BY <2>1, <2>2, <1>0, <1>1 DEF Trail!CheckIn, Trail!TrailTypeOK
<1>3. r \in [in : 0..MaxTime, out : 0..MaxTime] /\ r.in # 0
  <2>1. MaxTime \in Nat BY TrailConstants
  <2>2. clock \in 0..MaxTime /\ clock # 0 /\ 0 \in 0..MaxTime BY <2>1, <1>1
  <2> QED BY <2>2
<1>4. pings[d] = {} BY <1>1, <1>2 DEF TrailInv, BlankDaysAreEmpty
<1>5. ASSUME NEW b \in Handlers PROVE batch[b].day # d
  <2>1. batch[b].pc \in {"none", "sent", "kept", "stored"} BY <1>0 DEF Trail!TrailTypeOK
  <2>2. CASE batch[b].pc \in {"kept", "stored"} BY <2>2, <1>1, <1>2 DEF TrailInv, BatchesAreOnDuty
  <2>3. CASE batch[b].pc \in {"none", "sent"}
    <3>1. batch[b].day = 0 BY <2>3 DEF TrailInv, UnreadHoldsNone
    <3>2. d # 0 BY <1>1, DaysAre
    <3> QED BY <3>1, <3>2
  <2> QED BY <2>1, <2>2, <2>3
<1>6. crossed' \in SUBSET Trail!Days /\ crossed \subseteq crossed'
  BY <1>0, <1>2 DEF Trail!TrailTypeOK
<1> HIDE DEF d, r
<1> QED BY <1>1, <1>2, <1>3, <1>4, <1>5, <1>6, TimesKeep

\* A check-out closes it at the present; fixes ahead of it cross the day.
LEMMA CheckOutKeeps ==
  ASSUME TrailInv, Trail!CheckOut
  PROVE  TrailInv'
<1> DEFINE d == Trail!Today
           r == [day[d] EXCEPT !.out = clock]
<1>0. Trail!TrailTypeOK BY DEF TrailInv
<1>1. d \in Trail!Days /\ clock \in 1..MaxTime BY <1>0, TrailKinds
<1>2. /\ day[d].in # 0 /\ day[d].out = 0 /\ day' = [day EXCEPT ![d].out = clock]
      /\ crossed' = IF Trail!Held(d) \/ \E t \in pings[d] : t > clock THEN crossed \cup {d} ELSE crossed
      /\ UNCHANGED <<clock, batch, pings, last, unmarked>>
  BY DEF Trail!CheckOut, Trail!Never
<1>3. day' = [day EXCEPT ![d] = r] BY <1>0, <1>1, <1>2 DEF Trail!TrailTypeOK
<1>4. day[d] \in [in : 0..MaxTime, out : 0..MaxTime] BY <1>0, <1>1 DEF Trail!TrailTypeOK
<1>5. r \in [in : 0..MaxTime, out : 0..MaxTime] /\ r.in # 0 /\ r.in = day[d].in /\ r.out = clock
  <2>1. clock \in 0..MaxTime BY <1>1
  <2> QED BY <2>1, <1>2, <1>4
<1>6. crossed' \in SUBSET Trail!Days /\ crossed \subseteq crossed'
  BY <1>0, <1>1, <1>2 DEF Trail!TrailTypeOK
<1>7. \/ d \in crossed'
      \/ /\ \A b \in Handlers : batch[b].day # d
         /\ \A t \in pings[d] : t + Before >= r.in /\ (r.out # 0 => t <= r.out)
  <2> SUFFICES ASSUME d \notin crossed'
               PROVE  /\ \A b \in Handlers : batch[b].day # d
                      /\ \A t \in pings[d] : t + Before >= r.in /\ (r.out # 0 => t <= r.out)
    OBVIOUS
  <2>1. d \notin crossed /\ ~ Trail!Held(d) /\ \A t \in pings[d] : ~ (t > clock) BY <1>2
  <2>2. \A b \in Handlers : batch[b].day # d BY <2>1 DEF Trail!Held
  <2>3. \A t \in pings[d] : t \in Nat BY <1>0, <1>1, TrailKinds DEF Trail!Instants
  <2>4. \A t \in pings[d] : t + Before >= day[d].in
    BY <1>1, <2>1 DEF TrailInv, Trail!TrailStaysOnDutyUnlessCrossed
  <2>5. \A t \in pings[d] : t <= clock BY <2>1, <2>3, <1>1
  <2> QED BY <2>2, <2>4, <2>5, <1>5
<1> HIDE DEF d, r
<1> QED BY <1>1, <1>2, <1>3, <1>5, <1>6, <1>7, TimesKeep

\* A corrected check-out crosses the day.
LEMMA CorrectKeeps ==
  ASSUME TrailInv, NEW d \in Trail!Days, NEW out \in 0..MaxTime, Trail!Correct(d, out)
  PROVE  TrailInv'
<1> DEFINE r == [day[d] EXCEPT !.out = out]
<1>0. Trail!TrailTypeOK BY DEF TrailInv
<1>1. /\ day[d].in # 0 /\ day' = [day EXCEPT ![d].out = out] /\ crossed' = crossed \cup {d}
      /\ UNCHANGED <<clock, batch, pings, last, unmarked>>
  BY DEF Trail!Correct, Trail!Never
<1>2. day' = [day EXCEPT ![d] = r] BY <1>0, <1>1 DEF Trail!TrailTypeOK
<1>3. day[d] \in [in : 0..MaxTime, out : 0..MaxTime] BY <1>0 DEF Trail!TrailTypeOK
<1>4. r \in [in : 0..MaxTime, out : 0..MaxTime] /\ r.in # 0 BY <1>1, <1>3
<1>5. crossed' \in SUBSET Trail!Days /\ crossed \subseteq crossed' /\ d \in crossed'
  BY <1>0, <1>1 DEF Trail!TrailTypeOK
<1> HIDE DEF r
<1> QED BY <1>1, <1>2, <1>4, <1>5, TimesKeep

\* Every step of the trail keeps the invariant.
LEMMA TrailKeeps ==
  ASSUME TrailInv, Trail!TrailNext
  PROVE  TrailInv'
<1>1. CASE Trail!Tick
  <2>0. Trail!TrailTypeOK BY DEF TrailInv
  <2>1. clock' \in Trail!Instants
    BY <1>1, <2>0, TrailConstants DEF Trail!Tick, Trail!TrailTypeOK, Trail!Instants
  <2>2. UNCHANGED <<day, batch, pings, last, crossed, unmarked>> BY <1>1 DEF Trail!Tick
  <2>3. Trail!TrailTypeOK' BY <2>0, <2>1, <2>2 DEF Trail!TrailTypeOK
  <2>4. /\ Trail!TrailStaysOnDutyUnlessCrossed' /\ Trail!MarkerIsNewestUnlessUnmarked'
        /\ BatchesAreOnDuty' /\ UnreadHoldsNone' /\ BlankDaysAreEmpty' /\ StoredOnce' /\ StoredIsThere'
    BY <2>2
    DEF TrailInv, Trail!TrailStaysOnDutyUnlessCrossed, Trail!MarkerIsNewestUnlessUnmarked,
        BatchesAreOnDuty, OnDuty, UnreadHoldsNone, BlankDaysAreEmpty, StoredOnce, StoredIsThere
  <2> QED BY <2>3, <2>4 DEF TrailInv
<1>2. CASE Trail!CheckIn BY <1>2, CheckInKeeps
<1>3. CASE Trail!CheckOut BY <1>3, CheckOutKeeps
<1>4. ASSUME NEW d \in Trail!Days, NEW out \in 0..MaxTime, Trail!Correct(d, out) PROVE TrailInv'
  BY <1>4, CorrectKeeps
<1>5. ASSUME NEW b \in Handlers, NEW fixes \in SUBSET Trail!Instants, Trail!Send(b, fixes) PROVE TrailInv'
  BY <1>5, SendKeeps
<1>6. ASSUME NEW b \in Handlers,
             Trail!Select(b) \/ Trail!Store(b) \/ Trail!Mark(b) \/ Trail!Die(b)
      PROVE  TrailInv'
  BY <1>6, SelectKeeps, StoreKeeps, MarkKeeps, DieKeeps
<1> QED BY <1>1, <1>2, <1>3, <1>4, <1>5, <1>6 DEF Trail!TrailNext

\* What the invariant says of the marker: it is on one day's trail.
LEMMA MarkerIsOnOneTrail ==
  ASSUME TrailInv
  PROVE  Trail!LiveIsOnOneTrail
<1> SUFFICES ASSUME last.at # 0
             PROVE  \E d \in Trail!Days : {e \in Trail!Days : last.at \in pings[e]} = {d}
  BY DEF Trail!LiveIsOnOneTrail, Trail!Live, Trail!Trail, Trail!Never
<1>1. PICK d \in Trail!Days : last.at \in pings[d] BY DEF TrailInv, StoredIsThere
<1>2. last.at \in Trail!Instants BY <1>1, TrailKinds DEF TrailInv
<1>3. \A e \in Trail!Days : last.at \in pings[e] => e = d BY <1>1, <1>2 DEF TrailInv, StoredOnce
<1>4. {e \in Trail!Days : last.at \in pings[e]} = {d} BY <1>1, <1>3
<1> QED BY <1>4

-----------------------------------------------------------------------------
(* The offices. *)

\* The branches of the instance MCDays takes of Offices.
Bs == {"BOM", "NBO"}

\* An office is the default of a branch.
IsDefaultOf(o, b) == office[o].branch = b /\ office[o].isDefault
\* A request is about to set the default of b.
Setting(a, b)     == admin[a].do = "set" /\ admin[a].b = b

\* Where two requests did not meet, one at most is about to set the default of a branch,
\* which has none while it is, and one at most at any time.
OneIsDefault ==
  \A b \in Bs \ raced :
    /\ \A a, c \in Handlers : Setting(a, b) /\ Setting(c, b) => a = c
    /\ \A a \in Handlers, o \in OfficeIds : ~ (Setting(a, b) /\ IsDefaultOf(o, b))
    /\ \A o, q \in OfficeIds : IsDefaultOf(o, b) /\ IsDefaultOf(q, b) => o = q

\* Whoever is locked to an office, or about to be, is locked to one there is or was.
LocksAreReal ==
  /\ \A p \in Staff : userOffice[p] \in OfficeIds => office[userOffice[p]].branch # "nowhere"
  /\ \A a \in Handlers : admin[a].do = "assign" /\ admin[a].o \in OfficeIds =>
       office[admin[a].o].branch # "nowhere"

\* A person is not locked to an office of another branch than b.
NotElsewhere(p, b) == userOffice[p] \in OfficeIds => office[userOffice[p]].branch \notin Bs \ {b}

\* Nobody sent to a branch, or about to be, is locked elsewhere.
SentAreNotElsewhere ==
  \A p \in Staff \ unsettled :
    /\ follows[p] # "nowhere" => workBranch[p] = follows[p] /\ NotElsewhere(p, follows[p])
    /\ \A a \in Handlers : admin[a].do = "workSet" /\ admin[a].p = p /\ admin[a].b # "nowhere" =>
         NotElsewhere(p, admin[a].b)

\* The inductive invariant.
OfficesInv == Places!OfficesTypeOK /\ OneIsDefault /\ LocksAreReal /\ SentAreNotElsewhere

-----------------------------------------------------------------------------
\* What the type says of an office.
LEMMA OfficeKinds ==
  ASSUME Places!OfficesTypeOK, NEW o \in OfficeIds
  PROVE  /\ office[o].branch \in {"nowhere", "deleted", "BOM", "NBO"}
         /\ Places!Exists(o) <=> office[o].branch \in Bs
         /\ office[o] = Places!NoOffice <=> office[o].branch = "nowhere"
         /\ office[o].branch \in Bs => office[o] \in [branch : Bs, active : BOOLEAN, isDefault : BOOLEAN]
<1>1. office[o] \in {Places!NoOffice, Places!Deleted} \cup Places!Office BY DEF Places!OfficesTypeOK
<1>2. Places!Office = [branch : Bs, active : BOOLEAN, isDefault : BOOLEAN] BY DEF Places!Office, Bs
<1>3. CASE office[o] = Places!NoOffice
  <2>1. office[o].branch = "nowhere" BY <1>3 DEF Places!NoOffice, Places!Nowhere
  <2> QED BY <1>3, <2>1 DEF Places!Exists, Bs
<1>4. CASE office[o] = Places!Deleted
  <2>1. office[o].branch = "deleted" BY <1>4 DEF Places!Deleted
  <2>2. Places!NoOffice.branch = "nowhere" BY DEF Places!NoOffice, Places!Nowhere
  <2> QED BY <1>4, <2>1, <2>2 DEF Places!Exists, Bs
<1>5. CASE office[o] \in Places!Office
  <2>1. office[o].branch \in Bs BY <1>5, <1>2
  <2>2. Places!NoOffice.branch = "nowhere" BY DEF Places!NoOffice, Places!Nowhere
  <2>3. Places!Deleted.branch = "deleted" BY DEF Places!Deleted
  <2>4. office[o] # Places!NoOffice /\ office[o] # Places!Deleted BY <2>1, <2>2, <2>3 DEF Bs
  <2> QED BY <1>2, <1>5, <2>1, <2>4 DEF Places!Exists, Bs
<1> QED BY <1>1, <1>3, <1>4, <1>5

\* What a task is made of.
LEMMA TasksAre ==
  /\ Places!Free \in Places!Task /\ Places!Free.do = "nothing"
  /\ \A o \in OfficeIds, wish \in BOOLEAN : [do |-> "siblings", o |-> o, asked |-> wish] \in Places!Task
  /\ \A d \in {"clear", "set"}, o \in OfficeIds, b \in Bs : [do |-> d, o |-> o, b |-> b] \in Places!Task
  /\ \A p \in Staff, o \in OfficeIds \cup {"nowhere"} : [do |-> "assign", p |-> p, o |-> o] \in Places!Task
  /\ \A d \in {"workClear", "workSet"}, p \in Staff, b \in Bs \cup {"nowhere"} :
       [do |-> d, p |-> p, b |-> b] \in Places!Task
BY DEF Places!Task, Places!Free, Places!Nowhere, Bs

\* What the type says of a request.
LEMMA TaskKinds ==
  ASSUME Places!OfficesTypeOK, NEW a \in Handlers
  PROVE  /\ admin[a] = Places!Free \/ admin[a].do # "nothing"
         /\ admin[a].do = "siblings" => admin[a].o \in OfficeIds /\ admin[a].asked \in BOOLEAN
         /\ admin[a].do \in {"clear", "set"} =>
              /\ admin[a].o \in OfficeIds /\ admin[a].b \in Bs
              /\ [admin[a] EXCEPT !.do = "set"] = [do |-> "set", o |-> admin[a].o, b |-> admin[a].b]
         /\ admin[a].do = "assign" => admin[a].p \in Staff /\ admin[a].o \in OfficeIds \cup {"nowhere"}
         /\ admin[a].do \in {"workClear", "workSet"} =>
              /\ admin[a].p \in Staff /\ admin[a].b \in Bs \cup {"nowhere"}
              /\ [admin[a] EXCEPT !.do = "workSet"] = [do |-> "workSet", p |-> admin[a].p, b |-> admin[a].b]
<1> DEFINE x == admin[a]
<1>1. x \in Places!Task BY DEF Places!OfficesTypeOK
<1> HIDE DEF x
<1>2. CASE x = Places!Free
  <2>1. x.do = "nothing" BY <1>2 DEF Places!Free
  <2> QED BY <1>2, <2>1 DEF x
<1>3. CASE x \in [do : {"siblings"}, o : OfficeIds, asked : BOOLEAN]
  <2>1. x.do = "siblings" /\ x.o \in OfficeIds /\ x.asked \in BOOLEAN BY <1>3
  <2> QED BY <2>1 DEF x
<1>4. CASE x \in [do : {"clear", "set"}, o : OfficeIds, b : Bs]
  <2>1. x.do \in {"clear", "set"} /\ x.o \in OfficeIds /\ x.b \in Bs BY <1>4
  <2>2. [x EXCEPT !.do = "set"] = [do |-> "set", o |-> x.o, b |-> x.b] BY <1>4
  <2> QED BY <2>1, <2>2 DEF x
<1>5. CASE x \in [do : {"assign"}, p : Staff, o : OfficeIds \cup {"nowhere"}]
  <2>1. x.do = "assign" /\ x.p \in Staff /\ x.o \in OfficeIds \cup {"nowhere"} BY <1>5
  <2> QED BY <2>1 DEF x
<1>6. CASE x \in [do : {"workClear", "workSet"}, p : Staff, b : Bs \cup {"nowhere"}]
  <2>1. x.do \in {"workClear", "workSet"} /\ x.p \in Staff /\ x.b \in Bs \cup {"nowhere"} BY <1>6
  <2>2. [x EXCEPT !.do = "workSet"] = [do |-> "workSet", p |-> x.p, b |-> x.b] BY <1>6
  <2> QED BY <2>1, <2>2 DEF x
<1> QED BY <1>1, <1>2, <1>3, <1>4, <1>5, <1>6 DEF Places!Task, Places!Nowhere, Bs

\* A request is given a task.
LEMMA TaskGiven ==
  ASSUME Places!OfficesTypeOK, NEW a \in Handlers, NEW task \in Places!Task,
         admin' = [admin EXCEPT ![a] = task]
  PROVE  /\ admin' \in [Handlers -> Places!Task] /\ admin'[a] = task
         /\ \A c \in Handlers \ {a} : admin'[c] = admin[c]
BY DEF Places!OfficesTypeOK

\* Offices come, go and change, or a request is answered that has nothing to do with a
\* working branch.
LEMMA SentKeep ==
  ASSUME OfficesInv, UNCHANGED <<userOffice, workBranch, follows, unsettled>>,
         \A o \in OfficeIds :
           \/ office'[o].branch = office[o].branch \/ office'[o].branch = "deleted"
           \/ office[o].branch = "nowhere",
         \A o \in OfficeIds : office'[o].branch = "nowhere" => office[o].branch = "nowhere",
         \A c \in Handlers : admin'[c].do = "workSet" => admin'[c] = admin[c],
         \A c \in Handlers :
           admin'[c].do = "assign" /\ admin'[c].o \in OfficeIds => office[admin'[c].o].branch # "nowhere"
  PROVE  LocksAreReal' /\ SentAreNotElsewhere'
<1>1. LocksAreReal' BY DEF OfficesInv, LocksAreReal
<1>2. \A p \in Staff : \A b : NotElsewhere(p, b) => NotElsewhere(p, b)'
  BY DEF OfficesInv, LocksAreReal, NotElsewhere, Bs
<1>3. SentAreNotElsewhere'
  <2> SUFFICES ASSUME NEW p \in Staff \ unsettled
               PROVE  /\ follows[p] # "nowhere" => workBranch[p] = follows[p] /\ NotElsewhere(p, follows[p])'
                      /\ \A a \in Handlers : admin'[a].do = "workSet" /\ admin'[a].p = p /\ admin'[a].b # "nowhere" =>
                           NotElsewhere(p, admin[a].b)'
    BY DEF SentAreNotElsewhere, NotElsewhere
  <2>1. follows[p] # "nowhere" => workBranch[p] = follows[p] /\ NotElsewhere(p, follows[p])
    BY DEF OfficesInv, SentAreNotElsewhere
  <2>2. follows[p] # "nowhere" => workBranch[p] = follows[p] /\ NotElsewhere(p, follows[p])'
    BY <2>1, <1>2 DEF NotElsewhere
  <2>3. ASSUME NEW a \in Handlers, admin'[a].do = "workSet", admin'[a].p = p, admin'[a].b # "nowhere"
        PROVE  NotElsewhere(p, admin[a].b)'
    <3>1. admin'[a] = admin[a] BY <2>3
    <3>2. NotElsewhere(p, admin[a].b) BY <2>3, <3>1 DEF OfficesInv, SentAreNotElsewhere
    <3> QED BY <3>1, <3>2, <1>2 DEF NotElsewhere
  <2> QED BY <2>2, <2>3
<1> QED BY <1>1, <1>3

\* No default is set and no request comes to set one.
LEMMA DefaultsKeep ==
  ASSUME OfficesInv, UNCHANGED raced,
         \A o \in OfficeIds, b \in Bs : IsDefaultOf(o, b)' => IsDefaultOf(o, b),
         \A c \in Handlers : admin'[c].do = "set" => admin'[c] = admin[c]
  PROVE  OneIsDefault'
<1>1. \A c \in Handlers, b \in Bs : Setting(c, b)' => Setting(c, b) BY DEF Setting
<1> QED BY <1>1 DEF OfficesInv, OneIsDefault

\* There is no office yet.
LEMMA OfficesBegin ==
  ASSUME Places!OfficesInit
  PROVE  OfficesInv
<1>1. /\ \A o \in OfficeIds : office[o] = Places!NoOffice /\ office[o].branch = "nowhere"
      /\ \A a \in Handlers : admin[a] = Places!Free /\ admin[a].do = "nothing"
      /\ \A p \in Staff : userOffice[p] = "nowhere" /\ workBranch[p] = "nowhere" /\ follows[p] = "nowhere"
  BY DEF Places!OfficesInit, Places!NoOffice, Places!Free, Places!Nowhere
<1>2. Places!OfficesTypeOK
  BY TasksAre, OfficeConstants DEF Places!OfficesInit, Places!OfficesTypeOK, Places!Nowhere
<1>3. OneIsDefault BY <1>1 DEF OneIsDefault, Setting, IsDefaultOf, Bs
<1>4. LocksAreReal BY <1>1, OfficeConstants DEF LocksAreReal
<1>5. SentAreNotElsewhere BY <1>1 DEF SentAreNotElsewhere
<1> QED BY <1>2, <1>3, <1>4, <1>5 DEF OfficesInv

\* A request is taken that leaves the offices as they are.
LEMMA TakesKeeps ==
  ASSUME OfficesInv, NEW a \in Handlers, NEW task \in Places!Task, Places!Takes(a, task),
         task.do \notin {"set", "workSet"},
         task.do = "assign" /\ task.o \in OfficeIds => office[task.o].branch # "nowhere",
         UNCHANGED <<office, userOffice, workBranch, follows, raced, unsettled>>
  PROVE  OfficesInv'
<1>0. Places!OfficesTypeOK BY DEF OfficesInv
<1>1. admin' = [admin EXCEPT ![a] = task] /\ changes' \in 0..MaxChanges
  BY <1>0, OfficeConstants DEF Places!Takes, Places!OfficesTypeOK
<1>2. /\ admin' \in [Handlers -> Places!Task] /\ admin'[a] = task
      /\ \A c \in Handlers \ {a} : admin'[c] = admin[c]
  BY <1>0, <1>1, TaskGiven
<1>3. Places!OfficesTypeOK' BY <1>0, <1>1, <1>2 DEF Places!OfficesTypeOK
<1>4. \A o \in OfficeIds, b \in Bs : IsDefaultOf(o, b)' => IsDefaultOf(o, b) BY DEF IsDefaultOf
<1>5. \A c \in Handlers : admin'[c].do \in {"set", "workSet"} => admin'[c] = admin[c] BY <1>2
<1>6. \A c \in Handlers :
        admin'[c].do = "assign" /\ admin'[c].o \in OfficeIds => office[admin'[c].o].branch # "nowhere"
  BY <1>2 DEF OfficesInv, LocksAreReal
<1>7. OneIsDefault' BY <1>4, <1>5, DefaultsKeep
<1>8. LocksAreReal' /\ SentAreNotElsewhere' BY <1>5, <1>6, SentKeep
<1> QED BY <1>3, <1>7, <1>8 DEF OfficesInv

\* An office is opened, changed or deleted, but not made the default, and a request is
\* taken that goes on from there.
LEMMA OfficeKeeps ==
  ASSUME OfficesInv, NEW a \in Handlers, NEW task \in Places!Task, Places!Takes(a, task),
         task.do \notin {"set", "workSet", "assign"},
         NEW o \in OfficeIds, NEW new \in {Places!Deleted} \cup Places!Office, office' = [office EXCEPT ![o] = new],
         \/ new.branch \in {office[o].branch, "deleted"}
         \/ office[o].branch = "nowhere",
         new.branch \in Bs => (new.isDefault => office[o].branch = new.branch /\ office[o].isDefault),
         UNCHANGED <<userOffice, workBranch, follows, raced, unsettled>>
  PROVE  OfficesInv'
<1>0. Places!OfficesTypeOK BY DEF OfficesInv
<1>1. admin' = [admin EXCEPT ![a] = task] /\ changes' \in 0..MaxChanges
  BY <1>0, OfficeConstants DEF Places!Takes, Places!OfficesTypeOK
<1>2. /\ admin' \in [Handlers -> Places!Task] /\ admin'[a] = task
      /\ \A c \in Handlers \ {a} : admin'[c] = admin[c]
  BY <1>0, <1>1, TaskGiven
<1>3. /\ office' \in [OfficeIds -> {Places!NoOffice, Places!Deleted} \cup Places!Office]
      /\ office'[o] = new /\ \A q \in OfficeIds \ {o} : office'[q] = office[q]
  BY <1>0 DEF Places!OfficesTypeOK
<1>4. Places!OfficesTypeOK' BY <1>0, <1>1, <1>2, <1>3 DEF Places!OfficesTypeOK
<1>5. \A q \in OfficeIds, b \in Bs : IsDefaultOf(q, b)' => IsDefaultOf(q, b)
  <2> TAKE q \in OfficeIds, b \in Bs
  <2>1. CASE q = o BY <2>1, <1>3 DEF IsDefaultOf
  <2>2. CASE q # o BY <2>2, <1>3 DEF IsDefaultOf
  <2> QED BY <2>1, <2>2
<1>6. \A c \in Handlers : admin'[c].do \in {"set", "workSet", "assign"} => admin'[c] = admin[c] BY <1>2
<1>7. \A c \in Handlers :
        admin'[c].do = "assign" /\ admin'[c].o \in OfficeIds => office[admin'[c].o].branch # "nowhere"
  BY <1>6 DEF OfficesInv, LocksAreReal
<1>8. new.branch # "nowhere"
  <2>1. CASE new = Places!Deleted BY <2>1 DEF Places!Deleted
  <2>2. CASE new \in Places!Office BY <2>2 DEF Places!Office
  <2> QED BY <2>1, <2>2
<1>9. \A q \in OfficeIds :
        /\ \/ office'[q].branch = office[q].branch \/ office'[q].branch = "deleted"
           \/ office[q].branch = "nowhere"
        /\ office'[q].branch = "nowhere" => office[q].branch = "nowhere"
  BY <1>3, <1>8
<1>10. OneIsDefault' BY <1>5, <1>6, DefaultsKeep
<1>11. LocksAreReal' /\ SentAreNotElsewhere' BY <1>6, <1>7, <1>9, SentKeep
<1> QED BY <1>4, <1>10, <1>11 DEF OfficesInv

\* A new office is no default before its siblings are counted.
LEMMA CreateOfficeKeeps ==
  ASSUME OfficesInv, NEW a \in Handlers, NEW o \in OfficeIds, NEW b \in Bs, NEW wish \in BOOLEAN,
         Places!CreateOffice(a, o, b, wish)
  PROVE  OfficesInv'
<1> DEFINE new == [branch |-> b, active |-> TRUE, isDefault |-> FALSE]
           task == [do |-> "siblings", o |-> o, asked |-> wish]
<1>0. Places!OfficesTypeOK BY DEF OfficesInv
<1>1. /\ office[o] = Places!NoOffice /\ office' = [office EXCEPT ![o] = new] /\ Places!Takes(a, task)
      /\ UNCHANGED <<userOffice, workBranch, follows, raced, unsettled>>
  BY DEF Places!CreateOffice
<1>2. office[o].branch = "nowhere" BY <1>0, <1>1, OfficeKinds
<1>3. new \in Places!Office /\ ~ new.isDefault BY DEF Places!Office, Bs
<1>4. task \in Places!Task /\ task.do = "siblings" BY TasksAre
<1> HIDE DEF new, task
<1> QED BY <1>1, <1>2, <1>3, <1>4, OfficeKeeps

\* An update asks for the default in a step of its own.
LEMMA UpdateOfficeKeeps ==
  ASSUME OfficesInv, NEW a \in Handlers, NEW o \in OfficeIds, NEW active \in BOOLEAN, NEW asDefault \in BOOLEAN,
         Places!UpdateOffice(a, o, active, asDefault)
  PROVE  OfficesInv'
<1> DEFINE new == [office[o] EXCEPT !.active = active]
           task == IF asDefault THEN [do |-> "clear", o |-> o, b |-> office[o].branch] ELSE Places!Free
<1>0. Places!OfficesTypeOK BY DEF OfficesInv
<1>1. /\ Places!Exists(o) /\ office' = [office EXCEPT ![o].active = active] /\ Places!Takes(a, task)
      /\ UNCHANGED <<userOffice, workBranch, follows, raced, unsettled>>
  BY DEF Places!UpdateOffice
<1>2. /\ office[o] \in [branch : Bs, active : BOOLEAN, isDefault : BOOLEAN]
      /\ office[o].branch \in Bs
  BY <1>0, <1>1, OfficeKinds
<1>3. office' = [office EXCEPT ![o] = new] BY <1>0, <1>1 DEF Places!OfficesTypeOK
<1>4. /\ new \in [branch : Bs, active : BOOLEAN, isDefault : BOOLEAN]
      /\ new.branch = office[o].branch /\ new.isDefault = office[o].isDefault
  BY <1>2
<1>5. new \in Places!Office BY <1>4 DEF Places!Office, Bs
<1>6. task \in Places!Task /\ task.do \in {"clear", "nothing"}
  <2>1. CASE asDefault BY <2>1, <1>2, TasksAre
  <2>2. CASE ~ asDefault BY <2>2, TasksAre
  <2> QED BY <2>1, <2>2
<1> HIDE DEF new, task
<1> QED BY <1>1, <1>2, <1>3, <1>4, <1>5, <1>6, OfficeKeeps

\* A deleted office is of no branch.
LEMMA DeleteOfficeKeeps ==
  ASSUME OfficesInv, NEW a \in Handlers, NEW o \in OfficeIds, Places!DeleteOffice(a, o)
  PROVE  OfficesInv'
<1>1. /\ office' = [office EXCEPT ![o] = Places!Deleted] /\ Places!Takes(a, Places!Free)
      /\ UNCHANGED <<userOffice, workBranch, follows, raced, unsettled>>
  BY DEF Places!DeleteOffice
<1>2. Places!Deleted.branch = "deleted" BY DEF Places!Deleted
<1>3. Places!Free \in Places!Task /\ Places!Free.do = "nothing" BY TasksAre
<1> QED BY <1>1, <1>2, <1>3, OfficeKeeps DEF Bs

\* The default is first taken from the others.
LEMMA SetDefaultOfficeKeeps ==
  ASSUME OfficesInv, NEW a \in Handlers, NEW o \in OfficeIds, Places!SetDefaultOffice(a, o)
  PROVE  OfficesInv'
<1> DEFINE task == [do |-> "clear", o |-> o, b |-> office[o].branch]
<1>1. /\ Places!Exists(o) /\ Places!Takes(a, task)
      /\ UNCHANGED <<office, userOffice, workBranch, follows, raced, unsettled>>
  BY DEF Places!SetDefaultOffice
<1>2. office[o].branch \in Bs BY <1>1, OfficeKinds DEF OfficesInv
<1>3. task \in Places!Task /\ task.do = "clear" BY <1>2, TasksAre
<1> HIDE DEF task
<1> QED BY <1>1, <1>3, TakesKeeps

\* Nobody is locked to an office that there is not.
LEMMA AskAssignKeeps ==
  ASSUME OfficesInv, NEW a \in Handlers, NEW p \in Staff, NEW o \in OfficeIds \cup {"nowhere"},
         Places!AskAssign(a, p, o)
  PROVE  OfficesInv'
<1> DEFINE task == [do |-> "assign", p |-> p, o |-> o]
<1>1. /\ o # "nowhere" => Places!Exists(o)
      /\ Places!Takes(a, task)
      /\ UNCHANGED <<office, userOffice, workBranch, follows, raced, unsettled>>
  BY DEF Places!AskAssign, Places!Nowhere
<1>2. task \in Places!Task /\ task.do = "assign" /\ task.o = o BY TasksAre
<1>3. o \in OfficeIds => office[o].branch # "nowhere"
  <2> SUFFICES ASSUME o \in OfficeIds PROVE office[o].branch # "nowhere" OBVIOUS
  <2>1. office[o].branch \in Bs BY <1>1, OfficeConstants, OfficeKinds DEF OfficesInv
  <2> QED BY <2>1 DEF Bs
<1> HIDE DEF task
<1> QED BY <1>1, <1>2, <1>3, TakesKeeps

\* The first office of a branch goes on to become its default.
LEMMA CountSiblingsKeeps ==
  ASSUME OfficesInv, NEW a \in Handlers, Places!CountSiblings(a)
  PROVE  OfficesInv'
<1> DEFINE o == admin[a].o
           first == Places!Exists(o)
                    /\ (admin[a].asked \/ Places!Cardinality(Places!InBranch({office[o].branch})) = 1)
           task == IF first THEN [do |-> "clear", o |-> o, b |-> office[o].branch] ELSE Places!Free
<1>0. Places!OfficesTypeOK BY DEF OfficesInv
<1>1. /\ admin[a].do = "siblings" /\ admin' = [admin EXCEPT ![a] = task]
      /\ UNCHANGED <<changes, office, userOffice, workBranch, follows, raced, unsettled>>
  BY DEF Places!CountSiblings, Places!Goes
<1>2. o \in OfficeIds BY <1>0, <1>1, TaskKinds
<1>3. task \in Places!Task /\ task.do \in {"clear", "nothing"}
  <2>1. CASE first
    <3>1. office[o].branch \in Bs BY <2>1, <1>0, <1>2, OfficeKinds
    <3> QED BY <2>1, <3>1, <1>2, TasksAre
  <2>2. CASE ~ first BY <2>2, TasksAre
  <2> QED BY <2>1, <2>2
<1> HIDE DEF o, first, task
<1>4. /\ admin' \in [Handlers -> Places!Task] /\ admin'[a] = task
      /\ \A c \in Handlers \ {a} : admin'[c] = admin[c]
  BY <1>0, <1>1, <1>3, TaskGiven
<1>5. Places!OfficesTypeOK' BY <1>0, <1>1, <1>4 DEF Places!OfficesTypeOK
<1>6. \A q \in OfficeIds, b \in Bs : IsDefaultOf(q, b)' => IsDefaultOf(q, b) BY <1>1 DEF IsDefaultOf
<1>7. \A c \in Handlers : admin'[c].do \in {"set", "workSet", "assign"} => admin'[c] = admin[c]
  BY <1>3, <1>4
<1>8. \A c \in Handlers :
        admin'[c].do = "assign" /\ admin'[c].o \in OfficeIds => office[admin'[c].o].branch # "nowhere"
  BY <1>7 DEF OfficesInv, LocksAreReal
<1>9. OneIsDefault' BY <1>1, <1>6, <1>7, DefaultsKeep
<1>10. LocksAreReal' /\ SentAreNotElsewhere' BY <1>1, <1>7, <1>8, SentKeep
<1> QED BY <1>5, <1>9, <1>10 DEF OfficesInv

\* setDefault, first write: the branch has no default while one request is to set it; a
\* second that comes this far has met the first.
LEMMA ClearDefaultKeeps ==
  ASSUME OfficesInv, NEW a \in Handlers, Places!ClearDefault(a)
  PROVE  OfficesInv'
<1> DEFINE e == admin[a].b
           task == [do |-> "set", o |-> admin[a].o, b |-> e]
<1>0. Places!OfficesTypeOK BY DEF OfficesInv
<1>1. /\ admin[a].do = "clear" /\ e \in Bs /\ admin[a].o \in OfficeIds
      /\ [admin[a] EXCEPT !.do = "set"] = task
  <2>1. admin[a].do = "clear" BY DEF Places!ClearDefault
  <2> QED BY <1>0, <2>1, TaskKinds
<1>2. /\ office' = [o \in OfficeIds |-> IF o \in Places!InBranch({e}) THEN [office[o] EXCEPT !.isDefault = FALSE]
                                        ELSE office[o]]
      /\ raced' = IF \E c \in Handlers : admin[c].do = "set" /\ admin[c].b = e THEN raced \cup {e} ELSE raced
      /\ admin' = [admin EXCEPT ![a] = task]
      /\ UNCHANGED <<changes, userOffice, workBranch, follows, unsettled>>
  BY <1>1 DEF Places!ClearDefault, Places!Goes
<1>3. task \in Places!Task /\ task.do = "set" /\ task.b = e BY <1>1, TasksAre
<1> HIDE DEF e, task
<1>4. /\ admin' \in [Handlers -> Places!Task] /\ admin'[a] = task
      /\ \A c \in Handlers \ {a} : admin'[c] = admin[c]
  BY <1>0, <1>2, <1>3, TaskGiven
<1>5. ASSUME NEW o \in OfficeIds
      PROVE  /\ office'[o].branch = office[o].branch
             /\ office'[o] \in {Places!NoOffice, Places!Deleted} \cup Places!Office
             /\ \A b \in Bs : IsDefaultOf(o, b)' => IsDefaultOf(o, b) /\ b # e
  <2>1. CASE office[o].branch = e
    <3>1. o \in Places!InBranch({e}) BY <2>1 DEF Places!InBranch
    <3>2. office[o] \in [branch : Bs, active : BOOLEAN, isDefault : BOOLEAN] BY <1>0, <1>1, <2>1, OfficeKinds
    <3>3. office'[o] = [office[o] EXCEPT !.isDefault = FALSE] BY <1>2, <3>1
    <3>4. /\ office'[o] \in [branch : Bs, active : BOOLEAN, isDefault : BOOLEAN]
          /\ office'[o].branch = office[o].branch /\ office'[o].isDefault = FALSE
      BY <3>2, <3>3
    <3>5. office'[o] \in Places!Office BY <3>4 DEF Places!Office, Bs
    <3> QED BY <3>4, <3>5 DEF IsDefaultOf
  <2>2. CASE office[o].branch # e
    <3>1. o \notin Places!InBranch({e}) BY <2>2 DEF Places!InBranch
    <3>2. office'[o] = office[o] BY <1>2, <3>1
    <3> QED BY <2>2, <3>2, <1>0 DEF IsDefaultOf, Places!OfficesTypeOK
  <2> QED BY <2>1, <2>2
<1>6. Places!OfficesTypeOK'
  <2>1. office' \in [OfficeIds -> {Places!NoOffice, Places!Deleted} \cup Places!Office] BY <1>2, <1>5
  <2>2. raced' \subseteq {"BOM", "NBO"} BY <1>0, <1>1, <1>2 DEF Bs, Places!OfficesTypeOK
  <2> QED BY <2>1, <2>2, <1>0, <1>2, <1>4 DEF Places!OfficesTypeOK
<1>7. OneIsDefault'
  <2>0. raced \subseteq raced' BY <1>2
  <2>1. ASSUME NEW c \in Handlers, NEW b \in Bs, Setting(c, b)'
        PROVE  (c = a /\ b = e) \/ Setting(c, b)
    BY <2>1, <1>3, <1>4 DEF Setting
  <2>2. \A c \in Handlers : e \in Bs \ raced' => ~ Setting(c, e) BY <1>2 DEF Setting
  <2> SUFFICES ASSUME NEW b \in Bs \ raced'
               PROVE  /\ \A c, d \in Handlers : Setting(c, b)' /\ Setting(d, b)' => c = d
                      /\ \A c \in Handlers, o \in OfficeIds : ~ (Setting(c, b)' /\ IsDefaultOf(o, b)')
                      /\ \A o, q \in OfficeIds : IsDefaultOf(o, b)' /\ IsDefaultOf(q, b)' => o = q
    BY DEF OneIsDefault, Setting, IsDefaultOf
  <2>3. /\ \A c, d \in Handlers : Setting(c, b) /\ Setting(d, b) => c = d
        /\ \A c \in Handlers, o \in OfficeIds : ~ (Setting(c, b) /\ IsDefaultOf(o, b))
        /\ \A o, q \in OfficeIds : IsDefaultOf(o, b) /\ IsDefaultOf(q, b) => o = q
    BY <2>0 DEF OfficesInv, OneIsDefault
  <2> QED BY <2>1, <2>2, <2>3, <1>5
<1>8. LocksAreReal' /\ SentAreNotElsewhere'
  <2>1. \A c \in Handlers : admin'[c].do \in {"workSet", "assign"} => admin'[c] = admin[c] BY <1>3, <1>4
  <2>2. \A c \in Handlers :
          admin'[c].do = "assign" /\ admin'[c].o \in OfficeIds => office[admin'[c].o].branch # "nowhere"
    BY <2>1 DEF OfficesInv, LocksAreReal
  <2>3. \A o \in OfficeIds :
          /\ office'[o].branch = office[o].branch
          /\ office'[o].branch = "nowhere" => office[o].branch = "nowhere"
    BY <1>5
  <2> QED BY <2>1, <2>2, <2>3, <1>2, SentKeep
<1> QED BY <1>6, <1>7, <1>8 DEF OfficesInv

\* setDefault, second write: nothing else is the default by then.
LEMMA SetDefaultKeeps ==
  ASSUME OfficesInv, NEW a \in Handlers, Places!SetDefault(a)
  PROVE  OfficesInv'
<1> DEFINE o == admin[a].o
           e == admin[a].b
<1>0. Places!OfficesTypeOK BY DEF OfficesInv
<1>1. admin[a].do = "set" /\ o \in OfficeIds /\ e \in Bs
  <2>1. admin[a].do = "set" BY DEF Places!SetDefault
  <2> QED BY <1>0, <2>1, TaskKinds
<1>2. /\ office' = IF office[o].branch = e THEN [office EXCEPT ![o].isDefault = TRUE] ELSE office
      /\ admin' = [admin EXCEPT ![a] = Places!Free]
      /\ UNCHANGED <<changes, userOffice, workBranch, follows, raced, unsettled>>
  BY DEF Places!SetDefault, Places!Goes
<1>3. Places!Free \in Places!Task /\ Places!Free.do = "nothing" BY TasksAre
<1>4. /\ admin' \in [Handlers -> Places!Task] /\ admin'[a] = Places!Free
      /\ \A c \in Handlers \ {a} : admin'[c] = admin[c]
  BY <1>0, <1>2, <1>3, TaskGiven
<1>10. Setting(a, e) BY <1>1 DEF Setting
<1> HIDE DEF o, e
<1>5. ASSUME NEW q \in OfficeIds
      PROVE  /\ office'[q].branch = office[q].branch
             /\ office'[q] \in {Places!NoOffice, Places!Deleted} \cup Places!Office
             /\ \A b \in Bs : IsDefaultOf(q, b)' => IsDefaultOf(q, b) \/ (q = o /\ b = e)
  <2>1. CASE office[o].branch = e /\ q = o
    <3>1. office[o] \in [branch : Bs, active : BOOLEAN, isDefault : BOOLEAN] BY <1>0, <1>1, <2>1, OfficeKinds
    <3>2. office'[o] = [office[o] EXCEPT !.isDefault = TRUE]
      BY <1>0, <1>1, <1>2, <2>1 DEF Places!OfficesTypeOK
    <3>3. /\ office'[o] \in [branch : Bs, active : BOOLEAN, isDefault : BOOLEAN]
          /\ office'[o].branch = e
      BY <2>1, <3>1, <3>2
    <3>4. office'[o] \in Places!Office BY <3>3 DEF Places!Office, Bs
    <3> QED BY <2>1, <3>3, <3>4 DEF IsDefaultOf
  <2>2. CASE ~ (office[o].branch = e /\ q = o)
    <3>1. office'[q] = office[q] BY <1>0, <1>1, <1>2, <2>2 DEF Places!OfficesTypeOK
    <3> QED BY <3>1, <1>0 DEF IsDefaultOf, Places!OfficesTypeOK
  <2> QED BY <2>1, <2>2
<1>6. Places!OfficesTypeOK'
  <2>1. office' \in [OfficeIds -> {Places!NoOffice, Places!Deleted} \cup Places!Office]
    <3>1. office' = [q \in OfficeIds |-> office'[q]] BY <1>0, <1>2 DEF Places!OfficesTypeOK
    <3> QED BY <3>1, <1>5
  <2> QED BY <2>1, <1>0, <1>2, <1>4 DEF Places!OfficesTypeOK
<1>7. OneIsDefault'
  <2> SUFFICES ASSUME NEW b \in Bs \ raced
               PROVE  /\ \A c, d \in Handlers : Setting(c, b)' /\ Setting(d, b)' => c = d
                      /\ \A c \in Handlers, q \in OfficeIds : ~ (Setting(c, b)' /\ IsDefaultOf(q, b)')
                      /\ \A p, q \in OfficeIds : IsDefaultOf(p, b)' /\ IsDefaultOf(q, b)' => p = q
    BY <1>2 DEF OneIsDefault, Setting, IsDefaultOf
  <2>1. \A c \in Handlers : Setting(c, b)' => Setting(c, b) /\ c # a BY <1>3, <1>4 DEF Setting
  <2>2. /\ \A c, d \in Handlers : Setting(c, b) /\ Setting(d, b) => c = d
        /\ \A c \in Handlers, q \in OfficeIds : ~ (Setting(c, b) /\ IsDefaultOf(q, b))
        /\ \A p, q \in OfficeIds : IsDefaultOf(p, b) /\ IsDefaultOf(q, b) => p = q
    BY DEF OfficesInv, OneIsDefault
  <2> QED BY <2>1, <2>2, <1>5, <1>10
<1>8. LocksAreReal' /\ SentAreNotElsewhere'
  <2>1. \A c \in Handlers : admin'[c].do \in {"workSet", "assign"} => admin'[c] = admin[c] BY <1>3, <1>4
  <2>2. \A c \in Handlers :
          admin'[c].do = "assign" /\ admin'[c].o \in OfficeIds => office[admin'[c].o].branch # "nowhere"
    BY <2>1 DEF OfficesInv, LocksAreReal
  <2>3. \A q \in OfficeIds :
          /\ office'[q].branch = office[q].branch
          /\ office'[q].branch = "nowhere" => office[q].branch = "nowhere"
    BY <1>5
  <2> QED BY <2>1, <2>2, <2>3, <1>2, SentKeep
<1> QED BY <1>6, <1>7, <1>8 DEF OfficesInv

\* A person is locked to an office: the working branch is no longer followed, and one on
\* its way has been crossed.
LEMMA AssignUserOfficeKeeps ==
  ASSUME OfficesInv, NEW a \in Handlers, Places!AssignUserOffice(a)
  PROVE  OfficesInv'
<1> DEFINE p == admin[a].p
           o == admin[a].o
<1>0. Places!OfficesTypeOK BY DEF OfficesInv
<1>1. admin[a].do = "assign" /\ p \in Staff /\ o \in OfficeIds \cup {"nowhere"}
  <2>1. admin[a].do = "assign" BY DEF Places!AssignUserOffice
  <2> QED BY <1>0, <2>1, TaskKinds
<1>2. /\ userOffice' = [userOffice EXCEPT ![p] = o]
      /\ follows' = [follows EXCEPT ![p] = "nowhere"]
      /\ unsettled' = IF \E c \in Handlers : admin[c].do \in {"workClear", "workSet"} /\ admin[c].p = p
                      THEN unsettled \cup {p} ELSE unsettled
      /\ admin' = [admin EXCEPT ![a] = Places!Free]
      /\ UNCHANGED <<changes, office, workBranch, raced>>
  BY DEF Places!AssignUserOffice, Places!Goes, Places!Nowhere
<1>3. Places!Free \in Places!Task /\ Places!Free.do = "nothing" BY TasksAre
<1>4. /\ admin' \in [Handlers -> Places!Task] /\ admin'[a] = Places!Free
      /\ \A c \in Handlers \ {a} : admin'[c] = admin[c]
  BY <1>0, <1>2, <1>3, TaskGiven
<1>5. o \in OfficeIds => office[o].branch # "nowhere" BY <1>1 DEF OfficesInv, LocksAreReal
<1> HIDE DEF p, o
<1>6. /\ userOffice' \in [Staff -> OfficeIds \cup {"nowhere"}] /\ userOffice'[p] = o
      /\ follows' \in [Staff -> Bs \cup {"nowhere"}] /\ follows'[p] = "nowhere"
      /\ \A q \in Staff \ {p} : userOffice'[q] = userOffice[q] /\ follows'[q] = follows[q]
  BY <1>0, <1>1, <1>2 DEF Places!OfficesTypeOK, Places!Nowhere, Bs
<1>7. Places!OfficesTypeOK'
  <2>1. unsettled' \subseteq Staff BY <1>0, <1>1, <1>2 DEF Places!OfficesTypeOK
  <2> QED BY <2>1, <1>0, <1>2, <1>4, <1>6 DEF Places!OfficesTypeOK, Places!Nowhere, Bs
<1>8. OneIsDefault'
  <2>1. \A c \in Handlers : admin'[c].do = "set" => admin'[c] = admin[c] BY <1>3, <1>4
  <2>2. \A q \in OfficeIds, b \in Bs : IsDefaultOf(q, b)' => IsDefaultOf(q, b) BY <1>2 DEF IsDefaultOf
  <2> QED BY <2>1, <2>2, <1>2, DefaultsKeep
<1>9. LocksAreReal'
  <2>1. \A q \in Staff : userOffice'[q] \in OfficeIds => office[userOffice'[q]].branch # "nowhere"
    BY <1>5, <1>6 DEF OfficesInv, LocksAreReal
  <2>2. \A c \in Handlers : admin'[c].do = "assign" /\ admin'[c].o \in OfficeIds =>
          office[admin'[c].o].branch # "nowhere"
    BY <1>3, <1>4 DEF OfficesInv, LocksAreReal
  <2> QED BY <2>1, <2>2, <1>2 DEF LocksAreReal
<1>10. SentAreNotElsewhere'
  <2>0. unsettled \subseteq unsettled' BY <1>2
  <2> SUFFICES ASSUME NEW q \in Staff \ unsettled'
               PROVE  /\ follows'[q] # "nowhere" => workBranch[q] = follows'[q] /\ NotElsewhere(q, follows[q])'
                      /\ \A c \in Handlers : admin'[c].do = "workSet" /\ admin'[c].p = q /\ admin'[c].b # "nowhere" =>
                           NotElsewhere(q, admin[c].b)'
    BY <1>2 DEF SentAreNotElsewhere, NotElsewhere
  <2>1. CASE q = p
    <3>1. \A c \in Handlers : ~ (admin[c].do = "workSet" /\ admin[c].p = q) BY <2>1, <1>2
    <3> QED BY <2>1, <3>1, <1>3, <1>4, <1>6
  <2>2. CASE q # p
    <3>1. \A b : NotElsewhere(q, b) => NotElsewhere(q, b)' BY <2>2, <1>2, <1>6 DEF NotElsewhere
    <3>2. q \in Staff \ unsettled BY <2>0
    <3>3. follows'[q] # "nowhere" => workBranch[q] = follows[q] /\ NotElsewhere(q, follows[q])
      BY <2>2, <3>2, <1>6 DEF OfficesInv, SentAreNotElsewhere
    <3>4. ASSUME NEW c \in Handlers, admin'[c].do = "workSet", admin'[c].p = q, admin'[c].b # "nowhere"
          PROVE  NotElsewhere(q, admin[c].b)'
      <4>1. admin'[c] = admin[c] BY <3>4, <1>3, <1>4
      <4>2. NotElsewhere(q, admin[c].b) BY <3>2, <3>4, <4>1 DEF OfficesInv, SentAreNotElsewhere
      <4> QED BY <4>1, <4>2, <3>1 DEF NotElsewhere
    <3>5. follows'[q] # "nowhere" => NotElsewhere(q, follows[q])'
      BY <3>1, <3>3, <2>2, <1>6 DEF NotElsewhere
    <3> QED BY <3>3, <3>4, <3>5, <2>2, <1>6
  <2> QED BY <2>1, <2>2
<1> QED BY <1>7, <1>8, <1>9, <1>10 DEF OfficesInv

\* Contradicts is the other side of NotElsewhere.
LEMMA ContradictsIs ==
  ASSUME Places!OfficesTypeOK, NEW p \in Staff, NEW b
  PROVE  Places!Contradicts(p, b) <=> ~ NotElsewhere(p, b)
<1>1. \A o \in OfficeIds : Places!Exists(o) <=> office[o].branch \in Bs BY OfficeKinds
<1>2. Places!Contradicts(p, b) <=> \E o \in OfficeIds : userOffice[p] = o /\ office[o].branch \in Bs /\ office[o].branch # b
  BY <1>1 DEF Places!Contradicts
<1>3. (\E o \in OfficeIds : userOffice[p] = o /\ office[o].branch \in Bs /\ office[o].branch # b)
        <=> (userOffice[p] \in OfficeIds /\ office[userOffice[p]].branch \in Bs /\ office[userOffice[p]].branch # b)
  OBVIOUS
<1> QED BY <1>2, <1>3 DEF NotElsewhere

\* Only who is locked elsewhere has to lose an office before being sent to a branch.
LEMMA ReadForWorkBranchKeeps ==
  ASSUME OfficesInv, NEW a \in Handlers, NEW p \in Staff, NEW b \in Bs \cup {"nowhere"},
         Places!ReadForWorkBranch(a, p, b)
  PROVE  OfficesInv'
<1> DEFINE away == b # "nowhere" /\ Places!Contradicts(p, b)
           task == [do |-> IF away THEN "workClear" ELSE "workSet", p |-> p, b |-> b]
<1>0. Places!OfficesTypeOK BY DEF OfficesInv
<1>1. /\ Places!Takes(a, task)
      /\ UNCHANGED <<office, userOffice, workBranch, follows, raced, unsettled>>
  BY DEF Places!ReadForWorkBranch, Places!Nowhere
<1>2. task \in Places!Task /\ task.do \in {"workClear", "workSet"} /\ task.p = p /\ task.b = b
  <2>1. CASE away BY <2>1, TasksAre
  <2>2. CASE ~ away BY <2>2, TasksAre
  <2> QED BY <2>1, <2>2
<1>3. task.do = "workSet" /\ b # "nowhere" => NotElsewhere(p, b)
  <2>1. away => task.do = "workClear" OBVIOUS
  <2> QED BY <2>1, <1>0, ContradictsIs
<1> HIDE DEF away, task
<1>4. admin' = [admin EXCEPT ![a] = task] /\ changes' \in 0..MaxChanges
  BY <1>0, <1>1, OfficeConstants DEF Places!Takes, Places!OfficesTypeOK
<1>5. /\ admin' \in [Handlers -> Places!Task] /\ admin'[a] = task
      /\ \A c \in Handlers \ {a} : admin'[c] = admin[c]
  BY <1>0, <1>2, <1>4, TaskGiven
<1>6. Places!OfficesTypeOK' BY <1>0, <1>1, <1>4, <1>5 DEF Places!OfficesTypeOK
<1>7. OneIsDefault'
  <2>1. \A c \in Handlers : admin'[c].do = "set" => admin'[c] = admin[c] BY <1>2, <1>5
  <2>2. \A q \in OfficeIds, d \in Bs : IsDefaultOf(q, d)' => IsDefaultOf(q, d) BY <1>1 DEF IsDefaultOf
  <2> QED BY <2>1, <2>2, <1>1, DefaultsKeep
<1>8. LocksAreReal'
  <2>1. \A c \in Handlers : admin'[c].do = "assign" => admin'[c] = admin[c] BY <1>2, <1>5
  <2> QED BY <2>1, <1>1 DEF OfficesInv, LocksAreReal
<1>9. SentAreNotElsewhere'
  <2> SUFFICES ASSUME NEW q \in Staff \ unsettled
               PROVE  /\ follows[q] # "nowhere" => workBranch[q] = follows[q] /\ NotElsewhere(q, follows[q])
                      /\ \A c \in Handlers : admin'[c].do = "workSet" /\ admin'[c].p = q /\ admin'[c].b # "nowhere" =>
                           NotElsewhere(q, admin'[c].b)
    BY <1>1 DEF SentAreNotElsewhere, NotElsewhere
  <2>1. ASSUME NEW c \in Handlers, admin'[c].do = "workSet", admin'[c].p = q, admin'[c].b # "nowhere"
        PROVE  NotElsewhere(q, admin'[c].b)
    <3>1. CASE c = a BY <2>1, <3>1, <1>2, <1>3, <1>5
    <3>2. CASE c # a
      <4>1. admin'[c] = admin[c] BY <3>2, <1>5
      <4>2. NotElsewhere(q, admin[c].b) BY <2>1, <4>1 DEF OfficesInv, SentAreNotElsewhere
      <4> QED BY <4>1, <4>2
    <3> QED BY <3>1, <3>2
  <2> QED BY <2>1 DEF OfficesInv, SentAreNotElsewhere
<1> QED BY <1>6, <1>7, <1>8, <1>9 DEF OfficesInv

\* An office is taken away: its holder is locked nowhere.
LEMMA ClearUserOfficeKeeps ==
  ASSUME OfficesInv, NEW a \in Handlers, Places!ClearUserOffice(a)
  PROVE  OfficesInv'
<1> DEFINE p == admin[a].p
           task == [do |-> "workSet", p |-> p, b |-> admin[a].b]
<1>0. Places!OfficesTypeOK BY DEF OfficesInv
<1>1. /\ admin[a].do = "workClear" /\ p \in Staff /\ admin[a].b \in Bs \cup {"nowhere"}
      /\ [admin[a] EXCEPT !.do = "workSet"] = task
  <2>1. admin[a].do = "workClear" BY DEF Places!ClearUserOffice
  <2> QED BY <1>0, <2>1, TaskKinds
<1>2. /\ userOffice' = [userOffice EXCEPT ![p] = "nowhere"] /\ admin' = [admin EXCEPT ![a] = task]
      /\ UNCHANGED <<changes, office, workBranch, follows, raced, unsettled>>
  BY <1>1 DEF Places!ClearUserOffice, Places!Goes, Places!Nowhere
<1>3. task \in Places!Task /\ task.do = "workSet" /\ task.p = p BY <1>1, TasksAre
<1> HIDE DEF p, task
<1>4. /\ admin' \in [Handlers -> Places!Task] /\ admin'[a] = task
      /\ \A c \in Handlers \ {a} : admin'[c] = admin[c]
  BY <1>0, <1>2, <1>3, TaskGiven
<1>5. /\ userOffice' \in [Staff -> OfficeIds \cup {"nowhere"}] /\ userOffice'[p] = "nowhere"
      /\ \A q \in Staff \ {p} : userOffice'[q] = userOffice[q]
  BY <1>0, <1>1, <1>2 DEF Places!OfficesTypeOK, Places!Nowhere
<1>6. Places!OfficesTypeOK'
  BY <1>0, <1>2, <1>4, <1>5 DEF Places!OfficesTypeOK, Places!Nowhere
<1>7. OneIsDefault'
  <2>1. \A c \in Handlers : admin'[c].do = "set" => admin'[c] = admin[c] BY <1>3, <1>4
  <2>2. \A q \in OfficeIds, d \in Bs : IsDefaultOf(q, d)' => IsDefaultOf(q, d) BY <1>2 DEF IsDefaultOf
  <2> QED BY <2>1, <2>2, <1>2, DefaultsKeep
<1>8. LocksAreReal'
  <2>1. \A c \in Handlers : admin'[c].do = "assign" => admin'[c] = admin[c] BY <1>3, <1>4
  <2>2. \A q \in Staff : userOffice'[q] \in OfficeIds => userOffice'[q] = userOffice[q]
    BY <1>5, OfficeConstants
  <2> QED BY <2>1, <2>2, <1>2 DEF OfficesInv, LocksAreReal
<1>9. SentAreNotElsewhere'
  <2>1. \A q \in Staff : \A b : NotElsewhere(q, b) \/ q = p => NotElsewhere(q, b)'
    BY <1>2, <1>5, OfficeConstants DEF NotElsewhere
  <2> SUFFICES ASSUME NEW q \in Staff \ unsettled
               PROVE  /\ follows[q] # "nowhere" => workBranch[q] = follows[q] /\ NotElsewhere(q, follows[q])'
                      /\ \A c \in Handlers : admin'[c].do = "workSet" /\ admin'[c].p = q /\ admin'[c].b # "nowhere" =>
                           NotElsewhere(q, admin[c].b)'
    BY <1>2 DEF SentAreNotElsewhere, NotElsewhere
  <2>2. follows[q] # "nowhere" => workBranch[q] = follows[q] /\ NotElsewhere(q, follows[q])
    BY DEF OfficesInv, SentAreNotElsewhere
  <2>3. NotElsewhere(q, follows[q]) => NotElsewhere(q, follows[q])' BY <2>1, <1>2 DEF NotElsewhere
  <2>4. ASSUME NEW c \in Handlers, admin'[c].do = "workSet", admin'[c].p = q, admin'[c].b # "nowhere"
        PROVE  NotElsewhere(q, admin[c].b)'
    <3>1. CASE c = a
      <4>1. q = p BY <2>4, <3>1, <1>3, <1>4
      <4> QED BY <4>1, <2>1 DEF NotElsewhere
    <3>2. CASE c # a
      <4>1. admin'[c] = admin[c] BY <3>2, <1>4
      <4>2. NotElsewhere(q, admin[c].b) BY <2>4, <4>1 DEF OfficesInv, SentAreNotElsewhere
      <4> QED BY <4>1, <4>2, <2>1 DEF NotElsewhere
    <3> QED BY <3>1, <3>2
  <2> QED BY <2>2, <2>3, <2>4
<1> QED BY <1>6, <1>7, <1>8, <1>9 DEF OfficesInv

\* A working branch is assigned: its holder is not locked elsewhere by now.
LEMMA AssignUserWorkBranchKeeps ==
  ASSUME OfficesInv, NEW a \in Handlers, Places!AssignUserWorkBranch(a)
  PROVE  OfficesInv'
<1> DEFINE p == admin[a].p
           b == admin[a].b
<1>0. Places!OfficesTypeOK BY DEF OfficesInv
<1>1. admin[a].do = "workSet" /\ p \in Staff /\ b \in Bs \cup {"nowhere"}
  <2>1. admin[a].do = "workSet" BY DEF Places!AssignUserWorkBranch
  <2> QED BY <1>0, <2>1, TaskKinds
<1>2. /\ workBranch' = [workBranch EXCEPT ![p] = b] /\ follows' = [follows EXCEPT ![p] = b]
      /\ admin' = [admin EXCEPT ![a] = Places!Free]
      /\ UNCHANGED <<changes, office, userOffice, raced, unsettled>>
  BY DEF Places!AssignUserWorkBranch, Places!Goes
<1>3. Places!Free \in Places!Task /\ Places!Free.do = "nothing" BY TasksAre
<1>4. /\ admin' \in [Handlers -> Places!Task] /\ admin'[a] = Places!Free
      /\ \A c \in Handlers \ {a} : admin'[c] = admin[c]
  BY <1>0, <1>2, <1>3, TaskGiven
<1>5. p \notin unsettled /\ b # "nowhere" => NotElsewhere(p, b)
  BY <1>1 DEF OfficesInv, SentAreNotElsewhere
<1> HIDE DEF p, b
<1>6. /\ workBranch' \in [Staff -> Bs \cup {"nowhere"}] /\ follows' \in [Staff -> Bs \cup {"nowhere"}]
      /\ workBranch'[p] = b /\ follows'[p] = b
      /\ \A q \in Staff \ {p} : workBranch'[q] = workBranch[q] /\ follows'[q] = follows[q]
  BY <1>0, <1>1, <1>2 DEF Places!OfficesTypeOK, Places!Nowhere, Bs
<1>7. Places!OfficesTypeOK'
  BY <1>0, <1>2, <1>4, <1>6 DEF Places!OfficesTypeOK, Places!Nowhere, Bs
<1>8. OneIsDefault'
  <2>1. \A c \in Handlers : admin'[c].do = "set" => admin'[c] = admin[c] BY <1>3, <1>4
  <2>2. \A q \in OfficeIds, d \in Bs : IsDefaultOf(q, d)' => IsDefaultOf(q, d) BY <1>2 DEF IsDefaultOf
  <2> QED BY <2>1, <2>2, <1>2, DefaultsKeep
<1>9. LocksAreReal'
  <2>1. \A c \in Handlers : admin'[c].do = "assign" => admin'[c] = admin[c] BY <1>3, <1>4
  <2> QED BY <2>1, <1>2 DEF OfficesInv, LocksAreReal
<1>10. SentAreNotElsewhere'
  <2> SUFFICES ASSUME NEW q \in Staff \ unsettled
               PROVE  /\ follows'[q] # "nowhere" => workBranch'[q] = follows'[q] /\ NotElsewhere(q, follows'[q])
                      /\ \A c \in Handlers : admin'[c].do = "workSet" /\ admin'[c].p = q /\ admin'[c].b # "nowhere" =>
                           NotElsewhere(q, admin'[c].b)
    BY <1>2 DEF SentAreNotElsewhere, NotElsewhere
  <2>1. follows'[q] # "nowhere" => workBranch'[q] = follows'[q] /\ NotElsewhere(q, follows'[q])
    <3>1. CASE q = p BY <3>1, <1>5, <1>6
    <3>2. CASE q # p
      <4>1. follows'[q] = follows[q] /\ workBranch'[q] = workBranch[q] BY <3>2, <1>6
      <4> QED BY <4>1 DEF OfficesInv, SentAreNotElsewhere
    <3> QED BY <3>1, <3>2
  <2>2. ASSUME NEW c \in Handlers, admin'[c].do = "workSet", admin'[c].p = q, admin'[c].b # "nowhere"
        PROVE  NotElsewhere(q, admin'[c].b)
    <3>1. admin'[c] = admin[c] BY <2>2, <1>3, <1>4
    <3>2. NotElsewhere(q, admin[c].b) BY <2>2, <3>1 DEF OfficesInv, SentAreNotElsewhere
    <3> QED BY <3>1, <3>2
  <2> QED BY <2>1, <2>2
<1> QED BY <1>7, <1>8, <1>9, <1>10 DEF OfficesInv

\* Every step of the admins keeps the invariant.
LEMMA OfficesKeep ==
  ASSUME OfficesInv, Places!OfficesNext
  PROVE  OfficesInv'
<1> PICK a \in Handlers :
      \/ \E o \in OfficeIds, b \in Bs, wish \in BOOLEAN : Places!CreateOffice(a, o, b, wish)
      \/ \E o \in OfficeIds, active \in BOOLEAN, asDefault \in BOOLEAN : Places!UpdateOffice(a, o, active, asDefault)
      \/ \E o \in OfficeIds : Places!SetDefaultOffice(a, o) \/ Places!DeleteOffice(a, o)
      \/ \E p \in Staff, o \in OfficeIds \cup {"nowhere"} : Places!AskAssign(a, p, o)
      \/ \E p \in Staff, b \in Bs \cup {"nowhere"} : Places!ReadForWorkBranch(a, p, b)
      \/ Places!CountSiblings(a) \/ Places!ClearDefault(a) \/ Places!SetDefault(a)
      \/ Places!AssignUserOffice(a) \/ Places!ClearUserOffice(a) \/ Places!AssignUserWorkBranch(a)
  BY DEF Places!OfficesNext, Places!Nowhere, Bs
<1> QED BY CreateOfficeKeeps, UpdateOfficeKeeps, SetDefaultOfficeKeeps, DeleteOfficeKeeps, AskAssignKeeps,
           ReadForWorkBranchKeeps, CountSiblingsKeeps, ClearDefaultKeeps, SetDefaultKeeps,
           AssignUserOfficeKeeps, ClearUserOfficeKeeps, AssignUserWorkBranchKeeps

-----------------------------------------------------------------------------
\* A set whose members are all the same counts one at most.
LEMMA AtMostOne ==
  ASSUME NEW S, \A x, y \in S : x = y
  PROVE  Places!Cardinality(S) <= 1
<1>1. CASE S = {} BY <1>1, FS_EmptySet DEF Places!Cardinality, Cardinality
<1>2. CASE S # {}
  <2>1. PICK x \in S : TRUE BY <1>2
  <2>2. S = {x} BY <2>1
  <2>3. Cardinality({x}) = 1 BY FS_Singleton
  <2> QED BY <2>2, <2>3 DEF Places!Cardinality, Cardinality
<1> QED BY <1>1, <1>2

\* What the invariant says of defaults and working branches.
LEMMA PlacesAreRight ==
  ASSUME OfficesInv
  PROVE  Places!OneDefaultUnlessRaced /\ Places!WorkBranchWinsUnlessCrossed
<1>0. Places!OfficesTypeOK BY DEF OfficesInv
<1>1. Places!OneDefaultUnlessRaced
  <2> SUFFICES ASSUME NEW b \in Bs \ raced
               PROVE  Places!Cardinality(Places!Defaults(Places!InBranch({b}))) <= 1
    BY DEF Places!OneDefaultUnlessRaced, Bs
  <2>1. \A o \in Places!Defaults(Places!InBranch({b})) : o \in OfficeIds /\ IsDefaultOf(o, b)
    BY DEF Places!Defaults, Places!InBranch, IsDefaultOf
  <2>2. \A o, q \in Places!Defaults(Places!InBranch({b})) : o = q
    BY <2>1 DEF OfficesInv, OneIsDefault
  <2> QED BY <2>2, AtMostOne
<1>2. Places!WorkBranchWinsUnlessCrossed
  <2> SUFFICES ASSUME NEW p \in Staff \ unsettled, ~ Places!ManyBranches(p), follows[p] # "nowhere",
                      NEW o \in Places!OfficesForUser(p)
               PROVE  office[o].branch = follows[p]
    BY DEF Places!WorkBranchWinsUnlessCrossed, Places!Nowhere
  <2> DEFINE locked == {q \in OfficeIds : userOffice[p] = q /\ Places!Exists(q) /\ office[q].active}
  <2>1. workBranch[p] = follows[p] /\ NotElsewhere(p, follows[p]) BY DEF OfficesInv, SentAreNotElsewhere
  <2>2. CASE locked # {}
    <3>1. Places!OfficesForUser(p) = locked BY <2>2 DEF Places!OfficesForUser
    <3>2. o \in OfficeIds /\ userOffice[p] = o /\ Places!Exists(o) BY <3>1
    <3>3. office[o].branch \in Bs BY <1>0, <3>2, OfficeKinds
    <3> QED BY <2>1, <3>2, <3>3 DEF NotElsewhere
  <2>3. CASE locked = {}
    <3>1. Places!OfficesForUser(p) = Places!PreferDefaults(Places!ActiveIn({workBranch[p]}))
      BY <2>1, <2>3 DEF Places!OfficesForUser, Places!Nowhere
    <3>2. o \in Places!ActiveIn({workBranch[p]}) BY <3>1 DEF Places!PreferDefaults, Places!Defaults
    <3> QED BY <2>1, <3>2 DEF Places!ActiveIn, Places!InBranch
  <2> QED BY <2>2, <2>3
<1> QED BY <1>1, <1>2

\* The trail is followed to the end.
LEMMA TrailOnly ==
  ASSUME which = "trail" => TrailInv,
         [DaysNext]_<<which, vars, timeVars, dayVars, trailVars, officeVars, monthVars, payVars, teamVars>>
  PROVE  (which = "trail" => TrailInv)'
<1>1. which' = which BY DEF DaysNext
<1>2. which = "trail" => Trail!TrailNext \/ UNCHANGED trailVars BY DEF DaysNext
<1>3. ASSUME TrailInv, UNCHANGED trailVars PROVE TrailInv'
  <2>1. UNCHANGED <<clock, day, batch, pings, last, crossed, unmarked>> BY <1>3 DEF trailVars
  <2> QED BY <1>3, <2>1
    DEF TrailInv, Trail!TrailTypeOK, Trail!TrailStaysOnDutyUnlessCrossed, Trail!MarkerIsNewestUnlessUnmarked,
        BatchesAreOnDuty, OnDuty, UnreadHoldsNone, BlankDaysAreEmpty, StoredOnce, StoredIsThere
<1> QED BY <1>1, <1>2, <1>3, TrailKeeps

\* So are the offices.
LEMMA OfficesOnly ==
  ASSUME which = "offices" => OfficesInv,
         [DaysNext]_<<which, vars, timeVars, dayVars, trailVars, officeVars, monthVars, payVars, teamVars>>
  PROVE  (which = "offices" => OfficesInv)'
<1>1. which' = which BY DEF DaysNext
<1>2. which = "offices" => Places!OfficesNext \/ UNCHANGED officeVars BY DEF DaysNext
<1>3. ASSUME OfficesInv, UNCHANGED officeVars PROVE OfficesInv'
  <2>1. UNCHANGED <<office, userOffice, workBranch, admin, changes, follows, raced, unsettled>>
    BY <1>3 DEF officeVars
  <2> QED BY <1>3, <2>1
    DEF OfficesInv, Places!OfficesTypeOK, OneIsDefault, Setting, IsDefaultOf, LocksAreReal,
        SentAreNotElsewhere, NotElsewhere
<1> QED BY <1>1, <1>2, <1>3, OfficesKeep

\* However many fixes, batches, offices and admins there are, a trail stays on duty and its
\* marker is its newest fix, on one day's trail; a branch has one default office and a
\* working branch wins, but for what the histories name.
THEOREM PlacesKeepTheirWord == DaysSpec => []PlacesHold
<1> DEFINE J == (which = "trail" => TrailInv) /\ (which = "offices" => OfficesInv)
<1>1. DaysInit => J
  BY TrailBegins, OfficesBegin DEF DaysInit
<1>2. J /\ [DaysNext]_<<which, vars, timeVars, dayVars, trailVars, officeVars, monthVars, payVars, teamVars>> => J'
  BY TrailOnly, OfficesOnly
<1>3. J => PlacesHold
  BY MarkerIsOnOneTrail, PlacesAreRight DEF PlacesHold, TrailInv, OfficesInv
<1> QED BY <1>1, <1>2, <1>3, PTL DEF DaysSpec

-----------------------------------------------------------------------------
(* The attendance day and its night sweep. *)

\* A day somebody is in and not out of.
Opens(r)  == r.in # 0 /\ r.out = 0

\* A day that is over.
Closes(r) == r.in # 0 /\ r.out # 0

\* What a tick of the night sweep may hold.
Phases == {"idle", "closing", "reading", "posting"}
\* The days a tick still has to close, as it read them.
Todos == UNION {[S -> Day!Row] : S \in SUBSET Staff}

\* A tick.
TickRecords ==
  [phase : Phases, todo : Todos, at : 0..Night.end, since : SUBSET Staff, open : SUBSET Staff]

\* The type, of whole functions and records.
DayTypes ==
  /\ Day!DayTypeOK
  /\ punch \in [Handlers -> Day!Punch]
  /\ tick \in [Asks -> TickRecords]
  /\ report \in [open : SUBSET Staff, excused : SUBSET Staff]

\* What a request remembers when it comes to write: a check-in an absent person or a closed
\* day, a check-out an open day it does not precede, an administrator the order of times.
ReadsFit ==
  \A h \in Handlers :
    /\ punch[h].op = "in" => ~ Opens(punch[h].read)
    /\ punch[h].op = "out" =>
         /\ Opens(punch[h].read) /\ punch[h].out # 0
         /\ punch[h].who \in byAdmin \cup late \/ punch[h].read.in <= punch[h].out
    /\ punch[h].op = "times" =>
         /\ punch[h].in # 0 /\ punch[h].in <= hour
         /\ punch[h].out = 0 \/ punch[h].in < punch[h].out

\* What a row says fits together, and its check-in is the one the day opened with.
RowFits(p) ==
  /\ firstIn[p] = row[p].in
  /\ row[p].present = Opens(row[p])
  /\ p \notin byAdmin => row[p].in <= hour /\ (Closes(row[p]) => row[p].in <= row[p].out)
\* Unless requests crossed, every row fits.
RowsFit == \A p \in Staff \ late : RowFits(p)

\* A tick that listed the open days at or after 10 pm leaves open only who has punched since
\* or was not to be closed yet.
GoodTick(x) ==
  /\ \A p \in DOMAIN x.todo : Opens(x.todo[p])
  /\ x.at >= Night.report =>
       /\ x.phase = "closing" => \A p \in Staff : Opens(row[p]) => p \in DOMAIN x.todo \cup x.since
       /\ x.phase = "reading" => \A p \in Staff : Opens(row[p]) => p \in x.since
       /\ x.phase = "posting" => x.open \subseteq x.since
\* Every tick is good.
TicksAreGood == \A t \in Asks : GoodTick(tick[t])

\* The inductive invariant.
DayInv == DayTypes /\ ReadsFit /\ RowsFit /\ TicksAreGood /\ Day!OneReportOfClosedDays

\* What the writing of one person's day leaves of requests, ticks and the others' histories.
RequestsFollow == \A h \in Handlers : punch'[h] = punch[h] \/ punch'[h] = Day!NoPunch

\* Ticks go on, with the day of p off their lists or not, and know of him if he is in.
TicksFollow(p) ==
  \A t \in Asks :
    /\ tick'[t].phase = tick[t].phase /\ tick'[t].at = tick[t].at /\ tick'[t].open = tick[t].open
    /\ \A q \in DOMAIN tick'[t].todo : q \in DOMAIN tick[t].todo /\ tick'[t].todo[q] = tick[t].todo[q]
    /\ tick[t].since \subseteq tick'[t].since
    /\ \A q \in DOMAIN tick[t].todo : q = p \/ q \in DOMAIN tick'[t].todo
    /\ tick[t].phase # "idle" /\ Opens(row'[p]) => p \in tick'[t].since

\* Of the others' days, the histories stay.
OthersStay(p) == \A q \in Staff \ {p} : (q \in byAdmin' <=> q \in byAdmin) /\ firstIn'[q] = firstIn[q]

\* A day the super admin wrote counts as his while a request may remember it.
StaysByAdmin(p) ==
  p \in byAdmin => p \in byAdmin' \/ \A h \in Handlers : punch'[h].op # "none" => punch[h].who # p

-----------------------------------------------------------------------------
\* The words of AttendanceDay, in those of this proof.
LEMMA DayNames ==
  /\ \A r : (Day!IsOpen(r) <=> Opens(r)) /\ (Day!IsClosed(r) <=> Closes(r))
  /\ Day!Row = [in : 0..Night.end, out : 0..Night.end, present : BOOLEAN, photo : BOOLEAN]
  /\ Day!NoPunch.op = "none" /\ Day!NoPunch \in Day!Punch
  /\ Day!NoTick \in TickRecords /\ Day!NoTick.phase = "idle" /\ DOMAIN Day!NoTick.todo = {}
  /\ Day!NoTick.since = {} /\ Day!NoTick.open = {}
<1>1. \A r : (Day!IsOpen(r) <=> Opens(r)) /\ (Day!IsClosed(r) <=> Closes(r))
  BY DEF Day!IsOpen, Day!IsClosed, Opens, Closes, Day!Never
<1>2. Day!Row = [in : 0..Night.end, out : 0..Night.end, present : BOOLEAN, photo : BOOLEAN]
  BY DEF Day!Row, Day!Instant
<1>3. Day!NoPunch.op = "none" /\ Day!NoPunch \in Day!Punch BY DEF Day!NoPunch, Day!Punch
<1>4. /\ Day!NoTick.phase = "idle" /\ Day!NoTick.since = {} /\ Day!NoTick.open = {} /\ Day!NoTick.at = 0
      /\ Day!NoTick.todo = [p \in {} |-> Day!NoRow]
      /\ Day!NoTick = [phase |-> "idle", todo |-> [p \in {} |-> Day!NoRow], at |-> 0, since |-> {}, open |-> {}]
  BY DEF Day!NoTick, Day!Never
<1>5. [p \in {} |-> Day!NoRow] \in Todos /\ DOMAIN [p \in {} |-> Day!NoRow] = {}
  <2>1. [p \in {} |-> Day!NoRow] \in [{} -> Day!Row] OBVIOUS
  <2> QED BY <2>1 DEF Todos
<1>6. 0 \in 0..Night.end BY NightConstants
<1>7. Day!NoTick \in TickRecords BY <1>4, <1>5, <1>6 DEF TickRecords, Phases
<1> QED BY <1>1, <1>2, <1>3, <1>4, <1>5, <1>7

\* What the type says of a request, and of a tick.
LEMMA DayKinds ==
  ASSUME DayTypes
  PROVE  /\ \A h \in Handlers :
              /\ punch[h].op \in {"none", "in", "out", "times"}
              /\ punch[h].op = "none" <=> punch[h] = Day!NoPunch
              /\ punch[h].op # "none" => punch[h].who \in Staff /\ punch[h].read \in Day!Row
              /\ punch[h].op \in {"out", "times"} => punch[h].out \in 0..Night.end
              /\ punch[h].op = "times" => punch[h].in \in 0..Night.end
         /\ \A t \in Asks :
              /\ tick[t].phase \in Phases /\ tick[t].at \in 0..Night.end
              /\ tick[t].since \subseteq Staff /\ tick[t].open \subseteq Staff
              /\ DOMAIN tick[t].todo \subseteq Staff
              /\ \A p \in DOMAIN tick[t].todo : tick[t].todo[p] \in Day!Row
<1>1. ASSUME NEW h \in Handlers
      PROVE  /\ punch[h].op \in {"none", "in", "out", "times"}
             /\ punch[h].op = "none" <=> punch[h] = Day!NoPunch
             /\ punch[h].op # "none" => punch[h].who \in Staff /\ punch[h].read \in Day!Row
             /\ punch[h].op \in {"out", "times"} => punch[h].out \in 0..Night.end
             /\ punch[h].op = "times" => punch[h].in \in 0..Night.end
  <2> DEFINE x == punch[h]
  <2>1. x \in Day!Punch BY DEF DayTypes
  <2> HIDE DEF x
  <2>2. CASE x = Day!NoPunch BY <2>2, DayNames DEF x
  <2>3. CASE x \in [op : {"in"}, who : Staff, read : Day!Row]
    <3>1. x.op = "in" /\ x.who \in Staff /\ x.read \in Day!Row BY <2>3
    <3> QED BY <3>1, DayNames DEF x
  <2>4. CASE x \in [op : {"out"}, who : Staff, read : Day!Row, out : 0..Night.end]
    <3>1. x.op = "out" /\ x.who \in Staff /\ x.read \in Day!Row /\ x.out \in 0..Night.end BY <2>4
    <3> QED BY <3>1, DayNames DEF x
  <2>5. CASE x \in [op : {"times"}, who : Staff, read : Day!Row, in : 0..Night.end, out : 0..Night.end]
    <3>1. /\ x.op = "times" /\ x.who \in Staff /\ x.read \in Day!Row
          /\ x.in \in 0..Night.end /\ x.out \in 0..Night.end
      BY <2>5
    <3> QED BY <3>1, DayNames DEF x
  <2> QED BY <2>1, <2>2, <2>3, <2>4, <2>5 DEF Day!Punch, Day!Instant
<1>2. ASSUME NEW t \in Asks
      PROVE  /\ tick[t].phase \in Phases /\ tick[t].at \in 0..Night.end
             /\ tick[t].since \subseteq Staff /\ tick[t].open \subseteq Staff
             /\ DOMAIN tick[t].todo \subseteq Staff
             /\ \A p \in DOMAIN tick[t].todo : tick[t].todo[p] \in Day!Row
  <2>1. tick[t] \in TickRecords BY DEF DayTypes
  <2>2. /\ tick[t].phase \in Phases /\ tick[t].at \in 0..Night.end /\ tick[t].todo \in Todos
        /\ tick[t].since \subseteq Staff /\ tick[t].open \subseteq Staff
    BY <2>1 DEF TickRecords
  <2>3. PICK S \in SUBSET Staff : tick[t].todo \in [S -> Day!Row] BY <2>2 DEF Todos
  <2> QED BY <2>2, <2>3
<1> QED BY <1>1, <1>2

\* The type in one piece.
LEMMA TypesAre ==
  DayTypes <=>
    /\ hour \in 1..Night.end /\ row \in [Staff -> Day!Row] /\ punch \in [Handlers -> Day!Punch]
    /\ tick \in [Asks -> TickRecords] /\ reportedTonight \in BOOLEAN
    /\ report \in [open : SUBSET Staff, excused : SUBSET Staff] /\ posts \in Nat
    /\ asked \in 0..MaxPunches /\ restarts \in 0..MaxRestarts
    /\ firstIn \in [Staff -> 0..Night.end] /\ byAdmin \subseteq Staff /\ late \subseteq Staff
<1> DEFINE D == /\ hour \in 1..Night.end /\ row \in [Staff -> Day!Row] /\ punch \in [Handlers -> Day!Punch]
                /\ tick \in [Asks -> TickRecords] /\ reportedTonight \in BOOLEAN
                /\ report \in [open : SUBSET Staff, excused : SUBSET Staff] /\ posts \in Nat
                /\ asked \in 0..MaxPunches /\ restarts \in 0..MaxRestarts
                /\ firstIn \in [Staff -> 0..Night.end] /\ byAdmin \subseteq Staff /\ late \subseteq Staff
<1>1. DayTypes => D BY DEF DayTypes, Day!DayTypeOK, Day!Instant
<1>2. ASSUME D PROVE DayTypes
  <2>1. ASSUME NEW t \in Asks
        PROVE  /\ tick[t].phase \in {"idle", "closing", "reading", "posting"}
               /\ DOMAIN tick[t].todo \subseteq Staff /\ tick[t].at \in Day!Instant
               /\ tick[t].since \subseteq Staff /\ tick[t].open \subseteq Staff
    <3>1. tick[t] \in TickRecords BY <1>2
    <3>2. tick[t].todo \in Todos BY <3>1 DEF TickRecords
    <3>3. DOMAIN tick[t].todo \subseteq Staff BY <3>2 DEF Todos
    <3> QED BY <3>1, <3>3 DEF TickRecords, Phases, Day!Instant
  <2>2. report.open \subseteq Staff /\ report.excused \subseteq Staff BY <1>2
  <2>3. \A h \in Handlers : punch[h] \in Day!Punch BY <1>2
  <2> QED BY <1>2, <2>1, <2>2, <2>3 DEF DayTypes, Day!DayTypeOK, Day!Instant
<1> QED BY <1>1, <1>2

\* The same of the next state.
LEMMA NextTypesAre ==
  DayTypes' <=>
    /\ hour' \in 1..Night.end /\ row' \in [Staff -> Day!Row] /\ punch' \in [Handlers -> Day!Punch]
    /\ tick' \in [Asks -> TickRecords] /\ reportedTonight' \in BOOLEAN
    /\ report' \in [open : SUBSET Staff, excused : SUBSET Staff] /\ posts' \in Nat
    /\ asked' \in 0..MaxPunches /\ restarts' \in 0..MaxRestarts
    /\ firstIn' \in [Staff -> 0..Night.end] /\ byAdmin' \subseteq Staff /\ late' \subseteq Staff
<1> DEFINE D == /\ hour' \in 1..Night.end /\ row' \in [Staff -> Day!Row] /\ punch' \in [Handlers -> Day!Punch]
                /\ tick' \in [Asks -> TickRecords] /\ reportedTonight' \in BOOLEAN
                /\ report' \in [open : SUBSET Staff, excused : SUBSET Staff] /\ posts' \in Nat
                /\ asked' \in 0..MaxPunches /\ restarts' \in 0..MaxRestarts
                /\ firstIn' \in [Staff -> 0..Night.end] /\ byAdmin' \subseteq Staff /\ late' \subseteq Staff
<1>1. DayTypes' => D BY DEF DayTypes, Day!DayTypeOK, Day!Instant
<1>2. ASSUME D PROVE DayTypes'
  <2>1. ASSUME NEW t \in Asks
        PROVE  /\ tick'[t].phase \in {"idle", "closing", "reading", "posting"}
               /\ DOMAIN tick'[t].todo \subseteq Staff /\ tick'[t].at \in Day!Instant
               /\ tick'[t].since \subseteq Staff /\ tick'[t].open \subseteq Staff
    <3>1. tick'[t] \in TickRecords BY <1>2
    <3>2. tick'[t].todo \in Todos BY <3>1 DEF TickRecords
    <3>3. DOMAIN tick'[t].todo \subseteq Staff BY <3>2 DEF Todos
    <3> QED BY <3>1, <3>3 DEF TickRecords, Phases, Day!Instant
  <2>2. report'.open \subseteq Staff /\ report'.excused \subseteq Staff BY <1>2
  <2>3. \A h \in Handlers : punch'[h] \in Day!Punch BY <1>2
  <2> QED BY <1>2, <2>1, <2>2, <2>3 DEF DayTypes, Day!DayTypeOK, Day!Instant
<1> QED BY <1>1, <1>2

\* A day that is written to: its row fits, whatever else the step does to requests and ticks.
LEMMA RowKeeps ==
  ASSUME DayInv, DayTypes', NEW p \in Staff, NEW new \in Day!Row, row' = [row EXCEPT ![p] = new],
         RequestsFollow, TicksFollow(p), OthersStay(p), StaysByAdmin(p), late \subseteq late',
         p \notin late' =>
           /\ firstIn'[p] = new.in /\ new.present = Opens(new)
           /\ p \notin byAdmin' => new.in <= hour /\ (Closes(new) => new.in <= new.out),
         UNCHANGED <<hour, report, posts>>
  PROVE  DayInv'
<1>0. DayTypes BY DEF DayInv
<1>1. row'[p] = new /\ \A q \in Staff \ {p} : row'[q] = row[q] BY <1>0, TypesAre
<1>2. RowsFit'
  <2> SUFFICES ASSUME NEW q \in Staff \ late' PROVE RowFits(q)' BY DEF RowsFit, RowFits
  <2>1. CASE q = p BY <2>1, <1>1 DEF RowFits, Opens, Closes
  <2>2. CASE q # p
    <3>1. RowFits(q) BY DEF DayInv, RowsFit
    <3> QED BY <2>2, <3>1, <1>1 DEF RowFits, Opens, Closes, OthersStay
  <2> QED BY <2>1, <2>2
<1>3. ReadsFit'
  <2> SUFFICES ASSUME NEW h \in Handlers
               PROVE  /\ punch'[h].op = "in" => ~ Opens(punch'[h].read)
                      /\ punch'[h].op = "out" =>
                           /\ Opens(punch'[h].read) /\ punch'[h].out # 0
                           /\ punch'[h].who \in byAdmin' \cup late' \/ punch'[h].read.in <= punch'[h].out
                      /\ punch'[h].op = "times" =>
                           /\ punch'[h].in # 0 /\ punch'[h].in <= hour
                           /\ punch'[h].out = 0 \/ punch'[h].in < punch'[h].out
    BY DEF ReadsFit, Opens
  <2>1. CASE punch'[h] = Day!NoPunch BY <2>1, DayNames
  <2>2. CASE punch'[h] = punch[h]
    <3>1. /\ punch[h].op = "in" => ~ Opens(punch[h].read)
          /\ punch[h].op = "out" =>
               /\ Opens(punch[h].read) /\ punch[h].out # 0
               /\ punch[h].who \in byAdmin \cup late \/ punch[h].read.in <= punch[h].out
          /\ punch[h].op = "times" =>
               /\ punch[h].in # 0 /\ punch[h].in <= hour
               /\ punch[h].out = 0 \/ punch[h].in < punch[h].out
      BY DEF DayInv, ReadsFit
    <3>2. punch[h].op = "out" => punch[h].who \in Staff BY <1>0, DayKinds
    <3>3. punch[h].op = "out" /\ punch[h].who \in byAdmin \cup late => punch[h].who \in byAdmin' \cup late'
      BY <2>2, <3>2 DEF OthersStay, StaysByAdmin
    <3> QED BY <2>2, <3>1, <3>3
  <2> QED BY <2>1, <2>2 DEF RequestsFollow
<1>4. TicksAreGood'
  <2> SUFFICES ASSUME NEW t \in Asks PROVE GoodTick(tick[t])' BY DEF TicksAreGood
  <2>1. GoodTick(tick[t]) BY DEF DayInv, TicksAreGood
  <2>2. \A q \in DOMAIN tick'[t].todo : Opens(tick'[t].todo[q]) BY <2>1 DEF GoodTick, TicksFollow
  <2>3. ASSUME tick'[t].at >= Night.report
        PROVE  /\ tick'[t].phase = "closing" =>
                    \A q \in Staff : Opens(row'[q]) => q \in DOMAIN tick'[t].todo \cup tick'[t].since
               /\ tick'[t].phase = "reading" => \A q \in Staff : Opens(row'[q]) => q \in tick'[t].since
               /\ tick'[t].phase = "posting" => tick'[t].open \subseteq tick'[t].since
    BY <2>1, <2>3, <1>1 DEF GoodTick, TicksFollow
  <2> QED BY <2>2, <2>3 DEF GoodTick, Opens
<1> QED BY <1>2, <1>3, <1>4 DEF DayInv, Day!OneReportOfClosedDays

\* A request begins with a reading that fits.
LEMMA BeginsKeeps ==
  ASSUME DayInv, NEW h \in Handlers, NEW what \in Day!Punch, Day!Begins(h, what),
         what.op = "in" => ~ Opens(what.read),
         what.op = "out" =>
           /\ Opens(what.read) /\ what.out # 0
           /\ what.who \in byAdmin \cup late \/ what.read.in <= what.out,
         what.op = "times" =>
           /\ what.in # 0 /\ what.in <= hour
           /\ what.out = 0 \/ what.in < what.out
  PROVE  DayInv'
<1>0. DayTypes BY DEF DayInv
<1>1. /\ punch' = [punch EXCEPT ![h] = what] /\ asked < MaxPunches /\ asked' = asked + 1
      /\ UNCHANGED <<hour, row, tick, reportedTonight, report, posts, restarts, firstIn, byAdmin, late>>
  BY DEF Day!Begins
<1>2. /\ punch' \in [Handlers -> Day!Punch] /\ punch'[h] = what
      /\ \A g \in Handlers \ {h} : punch'[g] = punch[g]
  BY <1>0, <1>1, TypesAre
<1>3. asked' \in 0..MaxPunches BY <1>0, <1>1, TypesAre, NightConstants
<1>4. DayTypes' BY <1>0, <1>1, <1>2, <1>3, NextTypesAre, TypesAre
<1>5. ReadsFit'
  <2> SUFFICES ASSUME NEW g \in Handlers
               PROVE  /\ punch'[g].op = "in" => ~ Opens(punch'[g].read)
                      /\ punch'[g].op = "out" =>
                           /\ Opens(punch'[g].read) /\ punch'[g].out # 0
                           /\ punch'[g].who \in byAdmin \cup late \/ punch'[g].read.in <= punch'[g].out
                      /\ punch'[g].op = "times" =>
                           /\ punch'[g].in # 0 /\ punch'[g].in <= hour
                           /\ punch'[g].out = 0 \/ punch'[g].in < punch'[g].out
    BY <1>1 DEF ReadsFit, Opens
  <2>1. CASE g = h BY <2>1, <1>2
  <2>2. CASE g # h BY <2>2, <1>2 DEF DayInv, ReadsFit
  <2> QED BY <2>1, <2>2
<1>6. RowsFit' /\ TicksAreGood' /\ Day!OneReportOfClosedDays'
  BY <1>1 DEF DayInv, RowsFit, RowFits, Opens, Closes, TicksAreGood, GoodTick, Day!OneReportOfClosedDays
<1> QED BY <1>4, <1>5, <1>6 DEF DayInv

\* A check-in has read a day that is not open.
LEMMA ReadForCheckInKeeps ==
  ASSUME DayInv, NEW h \in Handlers, NEW p \in Staff, Day!ReadForCheckIn(h, p)
  PROVE  DayInv'
<1> DEFINE what == [op |-> "in", who |-> p, read |-> row[p]]
<1>1. ~ Opens(row[p]) /\ Day!Begins(h, what) BY DayNames DEF Day!ReadForCheckIn
<1>2. row[p] \in Day!Row BY TypesAre DEF DayInv
<1>3. what \in Day!Punch /\ what.op = "in" /\ what.read = row[p] BY <1>2 DEF Day!Punch
<1> HIDE DEF what
<1> QED BY <1>1, <1>3, BeginsKeeps

\* The instant of a check-out is not before the check-in, unless that lies ahead.
LEMMA ReadForCheckOutKeeps ==
  ASSUME DayInv, NEW h \in Handlers, NEW p \in Staff, Day!ReadForCheckOut(h, p)
  PROVE  DayInv'
<1>0. DayTypes /\ hour \in 1..Night.end /\ row[p] \in Day!Row BY TypesAre DEF DayInv
<1>1. Opens(row[p]) BY DayNames DEF Day!ReadForCheckOut
<1>2. PICK out \in Day!ResolveCheckOutAt(row[p].in) :
        Day!Begins(h, [op |-> "out", who |-> p, read |-> row[p], out |-> out])
  BY DEF Day!ReadForCheckOut
<1> DEFINE what == [op |-> "out", who |-> p, read |-> row[p], out |-> out]
<1>3. out \in 1..hour /\ (out = hour \/ out > row[p].in)
  BY <1>0 DEF Day!ResolveCheckOutAt
<1>4. row[p].in \in 0..Night.end BY <1>0, DayNames
<1>5. out \in 0..Night.end /\ out # 0 BY <1>0, <1>3, NightConstants
<1>6. p \in byAdmin \cup late \/ row[p].in <= out
  <2> SUFFICES ASSUME p \notin byAdmin, p \notin late PROVE row[p].in <= out OBVIOUS
  <2>1. row[p].in <= hour BY DEF DayInv, RowsFit, RowFits
  <2> QED BY <2>1, <1>0, <1>3, <1>4, <1>5, NightConstants
<1>7. what \in Day!Punch BY <1>0, <1>5 DEF Day!Punch, Day!Instant
<1>8. what.op = "out" /\ what.who = p /\ what.read = row[p] /\ what.out = out OBVIOUS
<1> HIDE DEF what
<1>9. Day!Begins(h, what) BY <1>2 DEF what
<1> QED BY <1>1, <1>5, <1>6, <1>7, <1>8, <1>9, BeginsKeeps

\* An administrator's times are in order, and past.
LEMMA ReadForTimesKeeps ==
  ASSUME DayInv, NEW h \in Handlers, NEW p \in Staff, Day!ReadForTimes(h, p)
  PROVE  DayInv'
<1>0. DayTypes /\ hour \in 1..Night.end /\ row[p] \in Day!Row BY TypesAre DEF DayInv
<1>1. PICK in \in 1..hour, out \in 0..hour :
        /\ out = 0 \/ out > in
        /\ Day!Begins(h, [op |-> "times", who |-> p, read |-> row[p], in |-> in, out |-> out])
  BY DEF Day!ReadForTimes, Day!Never
<1> DEFINE what == [op |-> "times", who |-> p, read |-> row[p], in |-> in, out |-> out]
<1>2. /\ in \in 0..Night.end /\ in # 0 /\ in <= hour /\ out \in 0..Night.end
      /\ out = 0 \/ in < out
  BY <1>0, <1>1, NightConstants
<1>3. what \in Day!Punch BY <1>0, <1>2 DEF Day!Punch, Day!Instant
<1>4. what.op = "times" /\ what.in = in /\ what.out = out OBVIOUS
<1> HIDE DEF what
<1>5. Day!Begins(h, what) BY <1>1 DEF what
<1> QED BY <1>2, <1>3, <1>4, <1>5, BeginsKeeps

-----------------------------------------------------------------------------
\* What a request's writing does, but to the ticks and the histories.
LEMMA WritesAre ==
  ASSUME DayInv, NEW h \in Handlers, NEW p \in Staff, NEW new \in Day!Row, Day!Writes(h, p, new)
  PROVE  /\ row' = [row EXCEPT ![p] = new] /\ row' \in [Staff -> Day!Row]
         /\ punch' \in [Handlers -> Day!Punch]
         /\ RequestsFollow
         /\ late \subseteq late' /\ late' \subseteq Staff
         /\ p \notin late' => row[p] = punch[h].read /\ RowFits(p)
         /\ UNCHANGED <<hour, reportedTonight, report, posts, asked, restarts>>
<1>0. DayTypes BY DEF DayInv
<1>1. /\ row' = [row EXCEPT ![p] = new]
      /\ late' = IF row[p] = punch[h].read THEN late ELSE late \cup {p}
      /\ punch' = [punch EXCEPT ![h] = Day!NoPunch]
      /\ UNCHANGED <<hour, reportedTonight, report, posts, asked, restarts>>
  BY DEF Day!Writes
<1>2. punch' \in [Handlers -> Day!Punch] /\ \A g \in Handlers : punch'[g] = punch[g] \/ punch'[g] = Day!NoPunch
  BY <1>0, <1>1, TypesAre, DayNames
<1>3. row' \in [Staff -> Day!Row] BY <1>0, <1>1, TypesAre
<1>4. late \subseteq late' /\ late' \subseteq Staff BY <1>0, <1>1, TypesAre
<1>5. p \notin late' => row[p] = punch[h].read /\ p \notin late BY <1>1
<1> QED BY <1>1, <1>2, <1>3, <1>4, <1>5 DEF DayInv, RowsFit, RequestsFollow

\* What a tick makes of a punch.
LEMMA SinceIs ==
  ASSUME DayTypes, NEW p \in Staff, Day!PunchedSince(p)
  PROVE  /\ tick' \in [Asks -> TickRecords]
         /\ \A t \in Asks :
              /\ tick'[t].phase = tick[t].phase /\ tick'[t].at = tick[t].at /\ tick'[t].open = tick[t].open
              /\ tick'[t].todo = tick[t].todo /\ tick[t].since \subseteq tick'[t].since
              /\ tick[t].phase # "idle" => p \in tick'[t].since
         /\ TicksFollow(p)
<1>1. tick' = [t \in Asks |-> IF tick[t].phase = "idle" THEN tick[t]
                              ELSE [tick[t] EXCEPT !.since = @ \cup {p}]]
  BY DEF Day!PunchedSince
<1>2. ASSUME NEW t \in Asks
      PROVE  /\ tick'[t] \in TickRecords
             /\ tick'[t].phase = tick[t].phase /\ tick'[t].at = tick[t].at /\ tick'[t].open = tick[t].open
             /\ tick'[t].todo = tick[t].todo /\ tick[t].since \subseteq tick'[t].since
             /\ tick[t].phase # "idle" => p \in tick'[t].since
  <2>1. tick[t] \in TickRecords BY TypesAre
  <2>2. CASE tick[t].phase = "idle" BY <1>1, <2>1, <2>2
  <2>3. CASE tick[t].phase # "idle"
    <3>1. tick'[t] = [tick[t] EXCEPT !.since = @ \cup {p}] BY <1>1, <2>3
    <3> QED BY <2>1, <3>1 DEF TickRecords
  <2> QED BY <2>2, <2>3
<1> QED BY <1>1, <1>2 DEF TicksFollow

\* A check-in: a re-entry keeps the check-in of the day.
LEMMA CheckInKeepsDay ==
  ASSUME DayInv, NEW h \in Handlers, Day!CheckIn(h)
  PROVE  DayInv'
<1> DEFINE p == punch[h].who
           read == punch[h].read
           new == [in |-> IF Closes(read) THEN row[p].in ELSE hour, out |-> 0,
                   present |-> TRUE, photo |-> p \notin {}]
<1>0. DayTypes /\ hour \in 1..Night.end BY TypesAre DEF DayInv
<1>1. /\ punch[h].op = "in" /\ Day!Writes(h, p, new) /\ Day!PunchedSince(p)
      /\ firstIn' = IF firstIn[p] = 0 THEN [firstIn EXCEPT ![p] = hour] ELSE firstIn
      /\ byAdmin' = byAdmin
  BY DayNames DEF Day!CheckIn, Day!Never
<1>2. p \in Staff /\ read \in Day!Row /\ ~ Opens(read)
  BY <1>0, <1>1, DayKinds DEF DayInv, ReadsFit
<1>3. row[p] \in Day!Row BY <1>0, <1>2, TypesAre
<1>4. new \in Day!Row /\ new.out = 0 /\ new.present = TRUE /\ new.in = (IF Closes(read) THEN row[p].in ELSE hour)
  <2>1. hour \in 0..Night.end /\ 0 \in 0..Night.end BY <1>0, NightConstants
  <2>2. row[p].in \in 0..Night.end BY <1>3, DayNames
  <2> QED BY <2>1, <2>2, DayNames
<1> HIDE DEF p, read, new
<1>5. /\ row' = [row EXCEPT ![p] = new] /\ row' \in [Staff -> Day!Row]
      /\ punch' \in [Handlers -> Day!Punch]
      /\ RequestsFollow
      /\ late \subseteq late' /\ late' \subseteq Staff
      /\ p \notin late' => row[p] = read /\ RowFits(p)
      /\ UNCHANGED <<hour, reportedTonight, report, posts, asked, restarts>>
  BY <1>1, <1>2, <1>4, WritesAre DEF read
<1>6. /\ tick' \in [Asks -> TickRecords]
      /\ TicksFollow(p)
  BY <1>0, <1>1, <1>2, SinceIs
<1>7. /\ firstIn' \in [Staff -> 0..Night.end] /\ \A q \in Staff \ {p} : firstIn'[q] = firstIn[q]
      /\ firstIn'[p] = IF firstIn[p] = 0 THEN hour ELSE firstIn[p]
  <2>1. hour \in 0..Night.end BY <1>0
  <2>2. firstIn \in [Staff -> 0..Night.end] BY <1>0, TypesAre
  <2> QED BY <1>1, <1>2, <2>1, <2>2
<1>8. DayTypes' BY <1>0, <1>1, <1>5, <1>6, <1>7, NextTypesAre, TypesAre
<1>9. p \notin late' =>
        /\ firstIn'[p] = new.in /\ new.present = Opens(new)
        /\ p \notin byAdmin' => new.in <= hour /\ (Closes(new) => new.in <= new.out)
  <2> SUFFICES ASSUME p \notin late'
               PROVE  /\ firstIn'[p] = new.in /\ new.present = Opens(new)
                      /\ p \notin byAdmin' => new.in <= hour /\ (Closes(new) => new.in <= new.out)
    OBVIOUS
  <2>1. row[p] = read /\ firstIn[p] = row[p].in /\ (p \notin byAdmin => row[p].in <= hour)
    BY <1>5 DEF RowFits
  <2>2. CASE Closes(read)
    <3>1. new.in = row[p].in /\ row[p].in # 0 BY <2>1, <2>2, <1>4 DEF Closes
    <3> QED BY <2>1, <3>1, <1>1, <1>4, <1>7 DEF Opens, Closes
  <2>3. CASE ~ Closes(read)
    <3>1. new.in = hour /\ row[p].in = 0 BY <2>1, <2>3, <1>2, <1>4 DEF Opens, Closes
    <3>2. hour # 0 /\ hour <= hour BY <1>0
    <3> QED BY <2>1, <3>1, <3>2, <1>1, <1>4, <1>7 DEF Opens, Closes
  <2> QED BY <2>2, <2>3
<1>10. OthersStay(p) /\ StaysByAdmin(p) BY <1>1, <1>7 DEF OthersStay, StaysByAdmin
<1> QED BY <1>0, <1>2, <1>4, <1>5, <1>6, <1>8, <1>9, <1>10, RowKeeps

\* A check-out closes the day.
LEMMA CheckOutKeepsDay ==
  ASSUME DayInv, NEW h \in Handlers, Day!CheckOut(h)
  PROVE  DayInv'
<1> DEFINE p == punch[h].who
           read == punch[h].read
           out == punch[h].out
           new == [row[p] EXCEPT !.out = out, !.present = FALSE]
<1>0. DayTypes /\ hour \in 1..Night.end BY TypesAre DEF DayInv
<1>1. /\ punch[h].op = "out" /\ Day!Writes(h, p, new) /\ UNCHANGED <<tick, firstIn, byAdmin>>
  BY DEF Day!CheckOut
<1>2. /\ p \in Staff /\ read \in Day!Row /\ Opens(read) /\ out \in 0..Night.end /\ out # 0
      /\ p \in byAdmin \cup late \/ read.in <= out
  BY <1>0, <1>1, DayKinds DEF DayInv, ReadsFit
<1>3. row[p] \in Day!Row BY <1>0, <1>2, TypesAre
<1>4. new \in Day!Row /\ new.in = row[p].in /\ new.out = out /\ new.present = FALSE
  BY <1>2, <1>3, DayNames
<1> HIDE DEF p, read, out, new
<1>5. /\ row' = [row EXCEPT ![p] = new] /\ row' \in [Staff -> Day!Row]
      /\ punch' \in [Handlers -> Day!Punch]
      /\ RequestsFollow
      /\ late \subseteq late' /\ late' \subseteq Staff
      /\ p \notin late' => row[p] = read /\ RowFits(p)
      /\ UNCHANGED <<hour, reportedTonight, report, posts, asked, restarts>>
  BY <1>1, <1>2, <1>4, WritesAre DEF read
<1>6. DayTypes' BY <1>0, <1>1, <1>5, NextTypesAre, TypesAre
<1>7. ~ Opens(new) BY <1>2, <1>4 DEF Opens
<1>8. p \notin late' =>
        /\ firstIn'[p] = new.in /\ new.present = Opens(new)
        /\ p \notin byAdmin' => new.in <= hour /\ (Closes(new) => new.in <= new.out)
  <2> SUFFICES ASSUME p \notin late'
               PROVE  /\ firstIn'[p] = new.in /\ new.present = Opens(new)
                      /\ p \notin byAdmin' => new.in <= hour /\ (Closes(new) => new.in <= new.out)
    OBVIOUS
  <2>1. /\ p \notin late /\ row[p] = read /\ firstIn[p] = row[p].in
        /\ p \notin byAdmin => row[p].in <= hour
    BY <1>5 DEF RowFits
  <2>2. new.present = Opens(new)
    <3>1. (new.in # 0 /\ new.out = 0) = FALSE BY <1>2, <1>4
    <3> QED BY <3>1, <1>4 DEF Opens
  <2>3. p \notin byAdmin' => new.in <= hour /\ new.in <= new.out BY <2>1, <1>1, <1>2, <1>4
  <2>4. firstIn'[p] = new.in BY <2>1, <1>1, <1>4
  <2> QED BY <2>2, <2>3, <2>4
<1>9. OthersStay(p) /\ StaysByAdmin(p) BY <1>1 DEF OthersStay, StaysByAdmin
<1>10. TicksFollow(p)
  <2>1. row'[p] = new BY <1>0, <1>2, <1>5, TypesAre
  <2> QED BY <2>1, <1>1, <1>7 DEF TicksFollow
<1> QED BY <1>0, <1>2, <1>4, <1>5, <1>6, <1>8, <1>9, <1>10, RowKeeps

\* So do an administrator's times, which replace the day's.
LEMMA ApplyAdminTimesKeeps ==
  ASSUME DayInv, NEW h \in Handlers, Day!ApplyAdminTimes(h)
  PROVE  DayInv'
<1> DEFINE p == punch[h].who
           read == punch[h].read
           had == read.in # 0
           new == [in |-> punch[h].in, out |-> punch[h].out, present |-> punch[h].out = 0,
                   photo |-> had /\ row[p].photo]
<1>0. DayTypes /\ hour \in 1..Night.end BY TypesAre DEF DayInv
<1>1. /\ punch[h].op = "times" /\ Day!Writes(h, p, new) /\ Day!PunchedSince(p)
      /\ firstIn' = [firstIn EXCEPT ![p] = punch[h].in] /\ byAdmin' = byAdmin
  BY DEF Day!ApplyAdminTimes, Day!Never
<1>2. /\ p \in Staff /\ punch[h].in \in 0..Night.end /\ punch[h].out \in 0..Night.end
      /\ punch[h].in # 0 /\ punch[h].in <= hour
      /\ punch[h].out = 0 \/ punch[h].in < punch[h].out
  BY <1>0, <1>1, DayKinds DEF DayInv, ReadsFit
<1>3. row[p] \in Day!Row BY <1>0, <1>2, TypesAre
<1>4. /\ new \in Day!Row /\ new.in = punch[h].in /\ new.out = punch[h].out
      /\ new.present = (punch[h].out = 0)
  <2>1. (had /\ row[p].photo) \in BOOLEAN OBVIOUS
  <2> HIDE DEF had
  <2> QED BY <1>2, <2>1, DayNames
<1> HIDE DEF p, read, new
<1>5. /\ row' = [row EXCEPT ![p] = new] /\ row' \in [Staff -> Day!Row]
      /\ punch' \in [Handlers -> Day!Punch]
      /\ RequestsFollow
      /\ late \subseteq late' /\ late' \subseteq Staff
      /\ UNCHANGED <<hour, reportedTonight, report, posts, asked, restarts>>
  BY <1>1, <1>2, <1>4, WritesAre
<1>6. /\ tick' \in [Asks -> TickRecords]
      /\ TicksFollow(p)
  BY <1>0, <1>1, <1>2, SinceIs
<1>7. /\ firstIn' \in [Staff -> 0..Night.end] /\ \A q \in Staff \ {p} : firstIn'[q] = firstIn[q]
      /\ firstIn'[p] = punch[h].in
  <2>1. firstIn \in [Staff -> 0..Night.end] BY <1>0, TypesAre
  <2> QED BY <1>1, <1>2, <2>1
<1>8. DayTypes' BY <1>0, <1>1, <1>5, <1>6, <1>7, NextTypesAre, TypesAre
<1>9. /\ firstIn'[p] = new.in /\ new.present = Opens(new)
      /\ new.in <= hour /\ (Closes(new) => new.in <= new.out)
  BY <1>2, <1>4, <1>7 DEF Opens, Closes
<1>10. OthersStay(p) /\ StaysByAdmin(p) BY <1>1, <1>7 DEF OthersStay, StaysByAdmin
<1> QED BY <1>0, <1>2, <1>4, <1>5, <1>6, <1>8, <1>9, <1>10, RowKeeps

\* The super admin's marking of a day reads nothing and checks nothing.
LEMMA AdminSetDayKeeps ==
  ASSUME DayInv, NEW p \in Staff, Day!AdminSetDay(p)
  PROVE  DayInv'
<1>0. DayTypes BY DEF DayInv
<1>1. PICK new \in [in : 1..Night.end, out : 0..Night.end, photo : {FALSE}, present : BOOLEAN] \cup {Day!NoRow} :
        /\ new # Day!NoRow => new.present = (new.out = 0)
        /\ row' = [row EXCEPT ![p] = new]
        /\ firstIn' = [firstIn EXCEPT ![p] = new.in]
        /\ byAdmin' = IF new # Day!NoRow THEN byAdmin \cup {p} ELSE IF Day!Held(p) THEN byAdmin ELSE byAdmin \ {p}
  BY DEF Day!AdminSetDay, Day!Instant, Day!Never
<1>2. /\ asked < MaxPunches /\ asked' = asked + 1 /\ Day!PunchedSince(p)
      /\ UNCHANGED <<hour, punch, reportedTonight, report, posts, restarts, late>>
  BY DEF Day!AdminSetDay
<1>3. /\ new \in Day!Row /\ new.present = Opens(new)
      /\ new = Day!NoRow => new.in = 0 /\ ~ Closes(new)
  <2>1. CASE new = Day!NoRow
    <3>1. new = [in |-> 0, out |-> 0, present |-> FALSE, photo |-> FALSE] BY <2>1 DEF Day!NoRow, Day!Never
    <3>2. 0 \in 0..Night.end BY NightConstants
    <3> QED BY <3>1, <3>2, DayNames DEF Opens, Closes
  <2>2. CASE new # Day!NoRow
    <3>1. new \in [in : 1..Night.end, out : 0..Night.end, photo : {FALSE}, present : BOOLEAN] BY <2>2, <1>1
    <3>2. new.in \in 0..Night.end /\ new.in # 0 BY <3>1
    <3>3. new.present = (new.out = 0) BY <2>2, <1>1
    <3> QED BY <2>2, <3>1, <3>2, <3>3, DayNames DEF Opens, Closes
  <2> QED BY <2>1, <2>2
<1>4. new = Day!NoRow \/ p \in byAdmin' BY <1>1
<1>5. /\ tick' \in [Asks -> TickRecords]
      /\ TicksFollow(p)
  BY <1>0, <1>2, SinceIs
<1>6. /\ firstIn' \in [Staff -> 0..Night.end] /\ \A q \in Staff \ {p} : firstIn'[q] = firstIn[q]
      /\ firstIn'[p] = new.in
  <2>1. firstIn \in [Staff -> 0..Night.end] BY <1>0, TypesAre
  <2>2. new.in \in 0..Night.end BY <1>3, DayNames
  <2> QED BY <1>1, <2>1, <2>2
<1>7. DayTypes'
  <2>1. asked' \in 0..MaxPunches BY <1>0, <1>2, TypesAre, NightConstants
  <2>2. byAdmin' \subseteq Staff BY <1>0, <1>1, TypesAre
  <2>3. row' \in [Staff -> Day!Row] BY <1>0, <1>1, <1>3, TypesAre
  <2> QED BY <2>1, <2>2, <2>3, <1>0, <1>2, <1>5, <1>6, NextTypesAre, TypesAre
<1>8. p \in byAdmin => p \in byAdmin' \/ \A h \in Handlers : punch'[h].op # "none" => punch[h].who # p
  <2>1. ~ Day!Held(p) => \A h \in Handlers : punch[h].op # "none" => punch[h].who # p
    BY DayNames DEF Day!Held
  <2> QED BY <2>1, <1>1, <1>2
<1>9. new.in <= hour \/ new # Day!NoRow
  <2>1. new = Day!NoRow => new.in = 0 BY <1>3
  <2>2. 0 <= hour BY <1>0, TypesAre
  <2> QED BY <2>1, <2>2
<1>10. \A q \in Staff \ {p} : q \in byAdmin' <=> q \in byAdmin BY <1>1
<1>11. p \notin late' =>
        /\ firstIn'[p] = new.in /\ new.present = Opens(new)
        /\ p \notin byAdmin' => new.in <= hour /\ (Closes(new) => new.in <= new.out)
  BY <1>3, <1>4, <1>6, <1>9
<1>12. OthersStay(p) /\ StaysByAdmin(p) /\ RequestsFollow
  BY <1>2, <1>6, <1>8, <1>10 DEF OthersStay, StaysByAdmin, RequestsFollow
<1>13. UNCHANGED <<hour, report, posts>> /\ late \subseteq late' BY <1>2
<1> QED BY <1>0, <1>1, <1>3, <1>5, <1>7, <1>11, <1>12, <1>13, RowKeeps

\* A step of the sweep that writes no day: the tick it leaves is good, and so is the report.
LEMMA TickKeeps ==
  ASSUME DayInv, NEW t \in Asks, NEW x \in TickRecords, tick' = [tick EXCEPT ![t] = x], GoodTick(x),
         reportedTonight' \in BOOLEAN, report' \in [open : SUBSET Staff, excused : SUBSET Staff],
         posts' \in Nat, Day!OneReportOfClosedDays',
         UNCHANGED <<hour, row, punch, asked, restarts, firstIn, byAdmin, late>>
  PROVE  DayInv'
<1>0. DayTypes BY DEF DayInv
<1>1. /\ tick' \in [Asks -> TickRecords] /\ tick'[t] = x
      /\ \A u \in Asks \ {t} : tick'[u] = tick[u]
  BY <1>0, TypesAre
<1>2. DayTypes' BY <1>0, <1>1, TypesAre, NextTypesAre
<1>3. ReadsFit' BY DEF DayInv, ReadsFit, Opens
<1>4. RowsFit' BY DEF DayInv, RowsFit, RowFits, Opens, Closes
<1>5. TicksAreGood'
  <2> SUFFICES ASSUME NEW u \in Asks PROVE GoodTick(tick[u])' BY DEF TicksAreGood
  <2>1. GoodTick(tick'[u])
    <3>1. CASE u = t BY <3>1, <1>1
    <3>2. CASE u # t
      <4>1. GoodTick(tick[u]) BY DEF DayInv, TicksAreGood
      <4>2. tick'[u] = tick[u] BY <3>2, <1>1
      <4> QED BY <4>1, <4>2
    <3> QED BY <3>1, <3>2
  <2> QED BY <2>1 DEF GoodTick, Opens
<1> QED BY <1>2, <1>3, <1>4, <1>5 DEF DayInv

\* A tick that lists the open days at or after 10 pm lists every one of them.
LEMMA StartTickKeeps ==
  ASSUME DayInv, NEW t \in Asks, Day!StartTick(t)
  PROVE  DayInv'
<1>0. DayTypes /\ hour \in 0..Night.end /\ row \in [Staff -> Day!Row] BY TypesAre DEF DayInv
<1> DEFINE S == IF hour >= Night.report THEN {p \in Staff : Opens(row[p])} ELSE {}
           listed == [p \in S |-> row[p]]
           x == [phase |-> "closing", at |-> hour, since |-> {}, open |-> {}, todo |-> listed]
<1>1. tick' = [tick EXCEPT ![t] = x]
  <2>1. {p \in Staff : Day!IsOpen(row[p])} = {p \in Staff : Opens(row[p])} BY DayNames
  <2> QED BY <2>1 DEF Day!StartTick
<1>2. UNCHANGED <<hour, row, punch, reportedTonight, report, posts, asked, restarts, firstIn, byAdmin, late>>
  BY DEF Day!StartTick
<1>3. listed \in Todos /\ DOMAIN listed = S /\ \A p \in S : listed[p] = row[p]
  <2>1. S \in SUBSET Staff OBVIOUS
  <2>2. listed \in [S -> Day!Row] BY <1>0, <2>1
  <2> QED BY <2>1, <2>2 DEF Todos
<1>4. \A p \in S : Opens(row[p]) OBVIOUS
<1>5. hour >= Night.report => \A p \in Staff : Opens(row[p]) => p \in S OBVIOUS
<1> HIDE DEF S, listed
<1>6. x \in TickRecords BY <1>0, <1>3 DEF TickRecords, Phases
<1>7. x.phase = "closing" /\ x.at = hour /\ x.since = {} /\ x.todo = listed OBVIOUS
<1> HIDE DEF x
<1>8. GoodTick(x) BY <1>3, <1>4, <1>5, <1>7 DEF GoodTick
<1>9. /\ reportedTonight' \in BOOLEAN /\ report' \in [open : SUBSET Staff, excused : SUBSET Staff]
      /\ posts' \in Nat /\ Day!OneReportOfClosedDays'
  BY <1>0, <1>2, TypesAre DEF DayInv, Day!OneReportOfClosedDays
<1> QED BY <1>1, <1>2, <1>6, <1>8, <1>9, TickKeeps

\* A forgotten day is closed at the office end or the check-in; one of which either lies ahead
\* is passed over.
LEMMA AutoCloseKeeps ==
  ASSUME DayInv, NEW t \in Asks, NEW p \in Staff, Day!AutoCloseOpenDay(t, p)
  PROVE  DayInv'
<1> DEFINE read == tick[t].todo[p]
           at == IF read.in > Night.stamp THEN read.in ELSE Night.stamp
           ahead == at > tick[t].at
           left == [q \in DOMAIN tick[t].todo \ {p} |-> tick[t].todo[q]]
           x == [tick[t] EXCEPT !.todo = left, !.since = IF ahead THEN @ \cup {p} ELSE @]
<1>0. /\ DayTypes /\ tick \in [Asks -> TickRecords] /\ row \in [Staff -> Day!Row]
      /\ tick[t] \in TickRecords /\ GoodTick(tick[t])
  BY TypesAre DEF DayInv, TicksAreGood
<1>1. /\ tick[t].phase = "closing" /\ p \in DOMAIN tick[t].todo
      /\ tick' = [tick EXCEPT ![t] = x]
      /\ IF ahead
         THEN UNCHANGED <<row, late>>
         ELSE /\ row' = [row EXCEPT ![p].out = at, ![p].present = FALSE]
              /\ late' = IF row[p] = read THEN late ELSE late \cup {p}
      /\ UNCHANGED <<hour, punch, reportedTonight, report, posts, asked, restarts, firstIn, byAdmin>>
  BY <1>0 DEF Day!AutoCloseOpenDay, Day!ResolveAutoCloseAt
<1>2. /\ read \in Day!Row /\ Opens(read) /\ DOMAIN tick[t].todo \subseteq Staff
      /\ tick[t].at \in 0..Night.end /\ tick[t].since \subseteq Staff
  BY <1>0, <1>1, DayKinds DEF GoodTick
<1>3. read.in \in 0..Night.end /\ read.in # 0 /\ at \in Nat /\ at >= read.in /\ at # 0
  BY <1>2, DayNames, NightConstants DEF Opens
<1>4. left \in Todos /\ DOMAIN left = DOMAIN tick[t].todo \ {p} /\ \A q \in DOMAIN left : left[q] = tick[t].todo[q]
  <2>1. \A q \in DOMAIN tick[t].todo : tick[t].todo[q] \in Day!Row BY <1>0, DayKinds
  <2>2. left \in [DOMAIN tick[t].todo \ {p} -> Day!Row] BY <2>1
  <2> QED BY <1>2, <2>2 DEF Todos
<1> HIDE DEF left
<1>5. /\ x \in TickRecords /\ x.phase = "closing" /\ x.at = tick[t].at /\ x.open = tick[t].open
      /\ x.todo = left /\ x.since = (IF ahead THEN tick[t].since \cup {p} ELSE tick[t].since)
  <2>1. (IF ahead THEN tick[t].since \cup {p} ELSE tick[t].since) \in SUBSET Staff BY <1>2
  <2> HIDE DEF ahead
  <2> QED BY <1>0, <1>1, <1>4, <2>1 DEF TickRecords
<1> HIDE DEF x
<1>6. CASE ahead
  <2>1. x.since = tick[t].since \cup {p} BY <1>5, <1>6
  <2>2. GoodTick(x) BY <1>0, <1>1, <1>4, <1>5, <2>1 DEF GoodTick
  <2>3. UNCHANGED <<row, late>> BY <1>1, <1>6
  <2>4. /\ reportedTonight' \in BOOLEAN /\ report' \in [open : SUBSET Staff, excused : SUBSET Staff]
        /\ posts' \in Nat /\ Day!OneReportOfClosedDays'
    BY <1>0, <1>1, TypesAre DEF DayInv, Day!OneReportOfClosedDays
  <2> QED BY <1>1, <1>5, <2>2, <2>3, <2>4, TickKeeps
<1>7. CASE ~ ahead
  <2> DEFINE new == [row[p] EXCEPT !.out = at, !.present = FALSE]
  <2>1. at \in 0..Night.end BY <1>2, <1>3, <1>7, NightConstants
  <2>2. row[p] \in Day!Row BY <1>0
  <2> HIDE DEF at
  <2>3. new \in Day!Row /\ new.in = row[p].in /\ new.out = at /\ new.present = FALSE
    BY <2>1, <2>2, DayNames
  <2>4. row' = [row EXCEPT ![p] = new] BY <1>0, <1>1, <1>7
  <2> HIDE DEF new
  <2>5. late' = IF row[p] = read THEN late ELSE late \cup {p} BY <1>1, <1>7
  <2> HIDE DEF read
  <2>6. row' \in [Staff -> Day!Row] /\ row'[p] = new BY <1>0, <2>3, <2>4
  <2>7. late \subseteq late' /\ late' \subseteq Staff BY <2>5, <1>0, TypesAre
  <2>8. tick' \in [Asks -> TickRecords] /\ tick'[t] = x /\ \A u \in Asks \ {t} : tick'[u] = tick[u]
    BY <1>0, <1>1, <1>5
  <2>9. DayTypes' BY <1>0, <1>1, <2>6, <2>7, <2>8, TypesAre, NextTypesAre
  <2>10. ~ Opens(new) BY <1>3, <2>3 DEF Opens
  <2>11. TicksFollow(p)
    <3> SUFFICES ASSUME NEW u \in Asks
                 PROVE  /\ tick'[u].phase = tick[u].phase /\ tick'[u].at = tick[u].at /\ tick'[u].open = tick[u].open
                        /\ \A q \in DOMAIN tick'[u].todo : q \in DOMAIN tick[u].todo /\ tick'[u].todo[q] = tick[u].todo[q]
                        /\ tick[u].since \subseteq tick'[u].since
                        /\ \A q \in DOMAIN tick[u].todo : q = p \/ q \in DOMAIN tick'[u].todo
      BY <2>6, <2>10 DEF TicksFollow
    <3>1. CASE u = t BY <3>1, <1>1, <1>4, <1>5, <1>7, <2>8
    <3>2. CASE u # t BY <3>2, <2>8
    <3> QED BY <3>1, <3>2
  <2>12. RequestsFollow /\ OthersStay(p) /\ StaysByAdmin(p)
    BY <1>1 DEF RequestsFollow, OthersStay, StaysByAdmin
  <2>13. p \notin late' =>
           /\ firstIn'[p] = new.in /\ new.present = Opens(new)
           /\ p \notin byAdmin' => new.in <= hour /\ (Closes(new) => new.in <= new.out)
    <3> SUFFICES ASSUME p \notin late'
                 PROVE  /\ firstIn'[p] = new.in /\ new.present = Opens(new)
                        /\ p \notin byAdmin' => new.in <= hour /\ (Closes(new) => new.in <= new.out)
      OBVIOUS
    <3>1. p \notin late /\ row[p] = read BY <2>5
    <3>2. RowFits(p) BY <3>1 DEF DayInv, RowsFit
    <3>3. firstIn[p] = new.in /\ (p \notin byAdmin => new.in <= hour) BY <2>3, <3>2 DEF RowFits
    <3>4. new.in <= new.out BY <1>3, <2>3, <3>1
    <3>5. (new.in # 0 /\ new.out = 0) = FALSE BY <1>3, <2>3
    <3>6. new.present = Opens(new) BY <3>5, <2>3 DEF Opens
    <3> QED BY <3>3, <3>4, <3>6, <1>1
  <2> QED BY <1>1, <2>3, <2>4, <2>7, <2>9, <2>11, <2>12, <2>13, RowKeeps
<1> QED BY <1>6, <1>7

\* A tick ends, whatever it had done.
LEMMA EndedKeeps ==
  ASSUME DayInv, NEW t \in Asks, tick' = [tick EXCEPT ![t] = Day!NoTick],
         reportedTonight' = reportedTonight,
         report' \in [open : SUBSET Staff, excused : SUBSET Staff],
         posts' \in Nat, Day!OneReportOfClosedDays',
         UNCHANGED <<hour, row, punch, asked, restarts, firstIn, byAdmin, late>>
  PROVE  DayInv'
<1>1. Day!NoTick \in TickRecords /\ GoodTick(Day!NoTick) BY DayNames DEF GoodTick
<1>2. reportedTonight' \in BOOLEAN BY TypesAre DEF DayInv
<1> QED BY <1>1, <1>2, TickKeeps

\* A tick that fails writes no day.
LEMMA TickFailsKeeps ==
  ASSUME DayInv, NEW t \in Asks, Day!TickFails(t)
  PROVE  DayInv'
<1>1. /\ tick' = [tick EXCEPT ![t] = Day!NoTick]
      /\ UNCHANGED <<hour, row, punch, reportedTonight, report, posts, asked, restarts, firstIn, byAdmin, late>>
  BY DEF Day!TickFails
<1>2. /\ report' \in [open : SUBSET Staff, excused : SUBSET Staff] /\ posts' \in Nat
      /\ Day!OneReportOfClosedDays'
  BY <1>1, TypesAre DEF DayInv, Day!OneReportOfClosedDays
<1> QED BY <1>1, <1>2, EndedKeeps

\* The report of a branch is posted under one key, from what its tick had closed.
LEMMA PostReportKeeps ==
  ASSUME DayInv, NEW t \in Asks, Day!PostReport(t)
  PROVE  DayInv'
<1>0. DayTypes /\ GoodTick(tick[t]) /\ posts \in Nat /\ Day!OneReportOfClosedDays
  BY TypesAre DEF DayInv, TicksAreGood
<1>1. /\ tick[t].phase = "posting" /\ tick' = [tick EXCEPT ![t] = Day!NoTick]
      /\ IF posts = 0 THEN report' = Day!Posted(t) /\ posts' = 1 ELSE UNCHANGED <<report, posts>>
      /\ UNCHANGED <<hour, row, punch, reportedTonight, asked, restarts, firstIn, byAdmin, late>>
  BY DEF Day!PostReport
<1>2. tick[t].open \subseteq Staff /\ tick[t].since \subseteq Staff /\ tick[t].at \in 0..Night.end
  BY <1>0, DayKinds
<1>3. /\ report' \in [open : SUBSET Staff, excused : SUBSET Staff] /\ posts' \in Nat
      /\ Day!OneReportOfClosedDays'
  <2>1. CASE posts = 0
    <3>1. /\ report' = [open |-> tick[t].open,
                        excused |-> IF tick[t].at < Night.report THEN Staff ELSE tick[t].since]
          /\ posts' = 1
      BY <1>1, <2>1 DEF Day!Posted
    <3>2. CASE tick[t].at < Night.report
      <4>1. report' = [open |-> tick[t].open, excused |-> Staff] BY <3>1, <3>2
      <4> QED BY <3>1, <4>1, <1>2 DEF Day!OneReportOfClosedDays
    <3>3. CASE tick[t].at >= Night.report
      <4>1. report' = [open |-> tick[t].open, excused |-> tick[t].since]
        BY <3>1, <3>3, <1>2, NightConstants
      <4>2. tick[t].open \subseteq tick[t].since BY <1>0, <1>1, <3>3 DEF GoodTick
      <4> QED BY <3>1, <4>1, <4>2, <1>2 DEF Day!OneReportOfClosedDays
    <3> QED BY <3>2, <3>3, <1>2, NightConstants
  <2>2. CASE posts # 0
    <3>1. UNCHANGED <<report, posts>> BY <1>1, <2>2
    <3> QED BY <3>1, <1>0, TypesAre DEF Day!OneReportOfClosedDays
  <2> QED BY <2>1, <2>2
<1> QED BY <1>1, <1>3, EndedKeeps

\* The report waits until the tick has closed every day it listed.
LEMMA AttemptReportKeeps ==
  ASSUME DayInv, NEW t \in Asks, Day!AttemptReport(t)
  PROVE  DayInv'
<1>0. DayTypes /\ tick[t] \in TickRecords /\ GoodTick(tick[t]) BY TypesAre DEF DayInv, TicksAreGood
<1>1. /\ tick[t].phase = "closing" /\ DOMAIN tick[t].todo = {}
      /\ UNCHANGED <<hour, row, punch, report, posts, asked, restarts, firstIn, byAdmin, late>>
  BY DayNames DEF Day!AttemptReport
<1>2. /\ report' \in [open : SUBSET Staff, excused : SUBSET Staff] /\ posts' \in Nat
      /\ Day!OneReportOfClosedDays'
  BY <1>1, TypesAre DEF DayInv, Day!OneReportOfClosedDays
<1>3. CASE hour >= Night.report /\ ~ reportedTonight
  <2> DEFINE x == [tick[t] EXCEPT !.phase = "reading"]
  <2>1. tick' = [tick EXCEPT ![t] = x] /\ reportedTonight' = TRUE
    BY <1>0, <1>3, TypesAre DEF Day!AttemptReport
  <2>2. /\ x \in TickRecords /\ x.phase = "reading" /\ x.at = tick[t].at /\ x.todo = tick[t].todo
        /\ x.since = tick[t].since /\ x.open = tick[t].open
    BY <1>0 DEF TickRecords, Phases
  <2> HIDE DEF x
  <2>3. GoodTick(x) BY <1>0, <1>1, <2>2 DEF GoodTick
  <2> QED BY <1>1, <1>2, <2>1, <2>2, <2>3, TickKeeps
<1>4. CASE ~ (hour >= Night.report /\ ~ reportedTonight)
  <2>1. tick' = [tick EXCEPT ![t] = Day!NoTick] /\ reportedTonight' = reportedTonight
    BY <1>4 DEF Day!AttemptReport
  <2> QED BY <1>1, <1>2, <2>1, EndedKeeps
<1> QED BY <1>3, <1>4

\* The report reads the open days; after 10 pm those are of people who punched since.
LEMMA ReadRecordsKeeps ==
  ASSUME DayInv, NEW t \in Asks, Day!ReadRecords(t)
  PROVE  DayInv'
<1> DEFINE still == {p \in Staff : Opens(row[p])}
           x == [tick[t] EXCEPT !.phase = "posting", !.open = still]
<1>0. DayTypes /\ tick[t] \in TickRecords /\ GoodTick(tick[t]) /\ tick \in [Asks -> TickRecords]
  BY TypesAre DEF DayInv, TicksAreGood
<1>1. /\ tick[t].phase = "reading" /\ tick' = [tick EXCEPT ![t] = x]
      /\ UNCHANGED <<hour, row, punch, reportedTonight, report, posts, asked, restarts, firstIn, byAdmin, late>>
  <2>1. {p \in Staff \ ({} \cup {}) : Day!IsOpen(row[p])} = still BY DayNames
  <2> HIDE DEF still
  <2> QED BY <1>0, <2>1 DEF Day!ReadRecords
<1>2. /\ reportedTonight' \in BOOLEAN /\ report' \in [open : SUBSET Staff, excused : SUBSET Staff]
      /\ posts' \in Nat /\ Day!OneReportOfClosedDays'
  BY <1>1, TypesAre DEF DayInv, Day!OneReportOfClosedDays
<1>3. still \subseteq Staff /\ \A p \in still : Opens(row[p]) OBVIOUS
<1> HIDE DEF still
<1>4. /\ x \in TickRecords /\ x.phase = "posting" /\ x.at = tick[t].at /\ x.todo = tick[t].todo
      /\ x.since = tick[t].since /\ x.open = still
  BY <1>0, <1>3 DEF TickRecords, Phases
<1> HIDE DEF x
<1>5. GoodTick(x) BY <1>0, <1>1, <1>3, <1>4 DEF GoodTick
<1> QED BY <1>1, <1>2, <1>4, <1>5, TickKeeps

\* Time passes, and what was past stays past.
LEMMA PassTimeKeeps ==
  ASSUME DayInv, Day!PassTime
  PROVE  DayInv'
<1>0. DayTypes /\ hour \in 1..Night.end BY TypesAre DEF DayInv
<1>1. /\ hour < Night.end /\ hour' = hour + 1
      /\ UNCHANGED <<row, punch, tick, reportedTonight, report, posts, asked, restarts, firstIn, byAdmin, late>>
  BY DEF Day!PassTime
<1>2. hour' \in 1..Night.end BY <1>0, <1>1, NightConstants
<1>3. DayTypes' BY <1>0, <1>1, <1>2, TypesAre, NextTypesAre
<1>4. ReadsFit'
  <2> SUFFICES ASSUME NEW h \in Handlers
               PROVE  /\ punch[h].op = "in" => ~ Opens(punch[h].read)
                      /\ punch[h].op = "out" =>
                           /\ Opens(punch[h].read) /\ punch[h].out # 0
                           /\ punch[h].who \in byAdmin \cup late \/ punch[h].read.in <= punch[h].out
                      /\ punch[h].op = "times" =>
                           /\ punch[h].in # 0 /\ punch[h].in <= hour + 1
                           /\ punch[h].out = 0 \/ punch[h].in < punch[h].out
    BY <1>1 DEF ReadsFit, Opens
  <2>1. punch[h].op = "times" => punch[h].in \in 0..Night.end BY <1>0, DayKinds
  <2> QED BY <2>1, <1>0, NightConstants DEF DayInv, ReadsFit
<1>5. RowsFit'
  <2> SUFFICES ASSUME NEW p \in Staff \ late
               PROVE  /\ firstIn[p] = row[p].in
                      /\ row[p].present = Opens(row[p])
                      /\ p \notin byAdmin => row[p].in <= hour + 1 /\ (Closes(row[p]) => row[p].in <= row[p].out)
    BY <1>1 DEF RowsFit, RowFits, Opens, Closes
  <2>1. row[p].in \in 0..Night.end BY <1>0, TypesAre, DayNames
  <2>2. RowFits(p) BY DEF DayInv, RowsFit
  <2> QED BY <2>1, <2>2, <1>0, NightConstants DEF RowFits
<1>6. TicksAreGood' /\ Day!OneReportOfClosedDays'
  BY <1>1 DEF DayInv, TicksAreGood, GoodTick, Opens, Day!OneReportOfClosedDays
<1> QED BY <1>3, <1>4, <1>5, <1>6 DEF DayInv

\* A restart ends every request and every tick.
LEMMA DayRestartKeeps ==
  ASSUME DayInv, Day!Restart
  PROVE  DayInv'
<1>0. DayTypes BY DEF DayInv
<1>1. /\ restarts < MaxRestarts /\ restarts' = restarts + 1
      /\ punch' = [h \in Handlers |-> Day!NoPunch] /\ tick' = [t \in Asks |-> Day!NoTick]
      /\ reportedTonight' = FALSE
      /\ UNCHANGED <<hour, row, report, posts, asked, firstIn, byAdmin, late>>
  BY DEF Day!Restart
<1>2. restarts' \in 0..MaxRestarts BY <1>0, <1>1, TypesAre, NightConstants
<1>3. punch' \in [Handlers -> Day!Punch] /\ tick' \in [Asks -> TickRecords] BY <1>1, DayNames
<1>4. DayTypes' BY <1>0, <1>1, <1>2, <1>3, TypesAre, NextTypesAre
<1>5. ReadsFit' BY <1>1, DayNames DEF ReadsFit
<1>6. TicksAreGood' BY <1>1, DayNames DEF TicksAreGood, GoodTick
<1>7. RowsFit' /\ Day!OneReportOfClosedDays'
  BY <1>1 DEF DayInv, RowsFit, RowFits, Opens, Closes, Day!OneReportOfClosedDays
<1> QED BY <1>4, <1>5, <1>6, <1>7 DEF DayInv

\* Nobody has come yet.
LEMMA DayBegins ==
  ASSUME Day!DayInit
  PROVE  DayInv
<1>1. /\ hour = 1 /\ row = [p \in Staff |-> Day!NoRow] /\ punch = [h \in Handlers |-> Day!NoPunch]
      /\ tick = [t \in Asks |-> Day!NoTick] /\ reportedTonight = FALSE /\ report = [open |-> {}, excused |-> {}]
      /\ posts = 0 /\ asked = 0 /\ restarts = 0 /\ firstIn = [p \in Staff |-> 0] /\ byAdmin = {} /\ late = {}
  BY DEF Day!DayInit, Day!NoReport, Day!Never
<1>2. /\ Day!NoRow \in Day!Row /\ Day!NoRow.in = 0 /\ Day!NoRow.out = 0 /\ Day!NoRow.present = FALSE
  <2>1. 0 \in 0..Night.end BY NightConstants
  <2> QED BY <2>1, DayNames DEF Day!NoRow, Day!Never
<1>3. 0 \in 0..MaxPunches /\ 0 \in 0..MaxRestarts /\ 1 \in 1..Night.end /\ 0 \in 0..Night.end BY NightConstants
<1>4. DayTypes BY <1>1, <1>2, <1>3, DayNames, TypesAre
<1>5. ReadsFit BY <1>1, DayNames DEF ReadsFit
<1>6. TicksAreGood BY <1>1, DayNames DEF TicksAreGood, GoodTick
<1>7. RowsFit
  <2> SUFFICES ASSUME NEW p \in Staff PROVE RowFits(p) BY DEF RowsFit
  <2>1. row[p] = Day!NoRow /\ firstIn[p] = 0 /\ hour = 1 BY <1>1
  <2>2. row[p].in = 0 /\ row[p].out = 0 /\ row[p].present = FALSE BY <2>1, <1>2
  <2>3. (row[p].in # 0 /\ row[p].out = 0) = FALSE BY <2>2
  <2>4. row[p].present = Opens(row[p]) BY <2>2, <2>3 DEF Opens
  <2>5. row[p].in <= hour BY <2>1, <2>2
  <2>6. ~ Closes(row[p]) BY <2>2 DEF Closes
  <2>7. firstIn[p] = row[p].in BY <2>1, <2>2
  <2> QED BY <2>4, <2>5, <2>6, <2>7 DEF RowFits
<1>8. Day!OneReportOfClosedDays BY <1>1 DEF Day!OneReportOfClosedDays
<1> QED BY <1>4, <1>5, <1>6, <1>7, <1>8 DEF DayInv

\* Every step of the day keeps the invariant.
LEMMA DayKeeps ==
  ASSUME DayInv, Day!DayNext
  PROVE  DayInv'
<1>1. ASSUME NEW h \in Handlers, Day!CheckIn(h) \/ Day!CheckOut(h) \/ Day!ApplyAdminTimes(h)
      PROVE  DayInv'
  BY <1>1, CheckInKeepsDay, CheckOutKeepsDay, ApplyAdminTimesKeeps
<1>2. ASSUME NEW h \in Handlers, NEW p \in Staff,
             Day!ReadForCheckIn(h, p) \/ Day!ReadForCheckOut(h, p) \/ Day!ReadForTimes(h, p)
      PROVE  DayInv'
  BY <1>2, ReadForCheckInKeeps, ReadForCheckOutKeeps, ReadForTimesKeeps
<1>3. ASSUME NEW p \in Staff, Day!AdminSetDay(p) PROVE DayInv'
  BY <1>3, AdminSetDayKeeps
<1>4. ASSUME NEW t \in Asks,
             \/ Day!StartTick(t) \/ Day!AttemptReport(t) \/ Day!ReadRecords(t) \/ Day!PostReport(t)
             \/ Day!TickFails(t)
      PROVE  DayInv'
  BY <1>4, StartTickKeeps, AttemptReportKeeps, ReadRecordsKeeps, PostReportKeeps, TickFailsKeeps
<1>5. ASSUME NEW t \in Asks, NEW p \in Staff, Day!AutoCloseOpenDay(t, p) PROVE DayInv'
  BY <1>5, AutoCloseKeeps
<1> QED BY <1>1, <1>2, <1>3, <1>4, <1>5, PassTimeKeeps, DayRestartKeeps DEF Day!DayNext

\* What the invariant says of the rows, in the words of the day.
LEMMA DayIsRight ==
  ASSUME DayInv
  PROVE  Day!DayTypeOK /\ Day!FirstInStaysUnlessCrossed /\ Day!DayHoldsTogetherUnlessCrossed
<1>1. Day!DayTypeOK BY DEF DayInv, DayTypes
<1>2. Day!FirstInStaysUnlessCrossed BY DEF DayInv, RowsFit, RowFits, Day!FirstInStaysUnlessCrossed
<1>3. Day!DayHoldsTogetherUnlessCrossed
  <2> SUFFICES ASSUME NEW p \in Staff \ late
               PROVE  /\ row[p].present = Day!IsOpen(row[p])
                      /\ Day!IsClosed(row[p]) /\ p \notin byAdmin => row[p].in <= row[p].out
    BY DEF Day!DayHoldsTogetherUnlessCrossed
  <2>1. RowFits(p) BY DEF DayInv, RowsFit
  <2>2. row[p].present = Day!IsOpen(row[p])
    BY <2>1 DEF RowFits, Opens, Day!IsOpen, Day!Never
  <2> QED BY <2>1, <2>2, DayNames DEF RowFits
<1> QED BY <1>1, <1>2, <1>3

\* The day is followed to the end.
LEMMA DayOnly ==
  ASSUME which = "day" => DayInv,
         [DaysNext]_<<which, vars, timeVars, dayVars, trailVars, officeVars, monthVars, payVars, teamVars>>
  PROVE  (which = "day" => DayInv)'
<1>1. which' = which BY DEF DaysNext
<1>2. which = "day" => Day!DayNext \/ UNCHANGED dayVars BY DEF DaysNext
<1>3. ASSUME DayInv, UNCHANGED dayVars PROVE DayInv'
  <2>1. UNCHANGED <<hour, row, punch, tick, reportedTonight, report, posts, asked, restarts, firstIn, byAdmin, late>>
    BY <1>3 DEF dayVars
  <2>2. DayTypes' BY <1>3, <2>1, TypesAre, NextTypesAre DEF DayInv
  <2> QED BY <1>3, <2>1, <2>2
    DEF DayInv, ReadsFit, RowsFit, RowFits, Opens, Closes, TicksAreGood, GoodTick, Day!OneReportOfClosedDays
<1> QED BY <1>1, <1>2, <1>3, DayKeeps

\* However many people, requests and ticks of the night sweep there are, and whatever the
\* hours of the night, a day keeps its first check-in and its row fits together, but for what
\* the histories name, and the night has one report, of closed days.
THEOREM DayKeepsItsWord == DaysSpec => []DayHolds
<1> DEFINE J == which = "day" => DayInv
<1>1. DaysInit => J BY DayBegins DEF DaysInit
<1>2. J /\ [DaysNext]_<<which, vars, timeVars, dayVars, trailVars, officeVars, monthVars, payVars, teamVars>> => J'
  BY DayOnly
<1>3. J => DayHolds BY DayIsRight DEF DayHolds, DayInv
<1> QED BY <1>1, <1>2, <1>3, PTL DEF DaysSpec

-----------------------------------------------------------------------------
(* Who is told of whose attendance. *)

\* The code of the branch a person works in now.
CodeOf(p) == Team!attendanceBranchCode(Team!WorkBranch(p))

\* Whom a viewer oversees now.
Overseen(v) ==
  {p \in Crew.staff : p = v \/ (Team!teamScope(v).seesTeam /\ Team!WorkBranch(p) \in Team!teamScope(v).branchIds)}

TeamTypes ==
  /\ slot \in 1..Crew.slots
  /\ work \in [Crew.staff -> {"none"} \cup Crew.branches] /\ exempt \subseteq Crew.staff
  /\ rows \in [Crew.staff -> [Team!Days -> {"none", "in", "out"}]]
  /\ attempted \subseteq Team!Codes \X Team!Days
  /\ moved \subseteq Crew.staff /\ sinceView \subseteq Crew.staff

\* A line says nothing of the hidden, and its channel is the person's unless they were moved.
LinesFit ==
  /\ \A l \in lines : l.who \in Crew.staff \ Crew.hidden
  /\ \A l \in told : l.who \in Crew.staff \ Crew.hidden /\ (l.who \in moved \/ l.code = CodeOf(l.who))

\* A report under way has everybody in the bucket of their branch, unless they were moved.
ReportFits ==
  /\ reporting = [codes |-> reporting.codes, of |-> reporting.of]
  /\ reporting.codes \subseteq Team!Codes
  /\ DOMAIN reporting.of \subseteq Crew.staff \ Crew.hidden
  /\ \A p \in DOMAIN reporting.of : p \in moved \/ reporting.of[p] = CodeOf(p)

\* So has a summary, which has nobody absent who came, nor whoever works from home if it knew.
SummaryFits(s) ==
  /\ s.listed \subseteq Crew.staff \ Crew.hidden
  /\ \A p \in s.listed : p \in moved \/ s.code = CodeOf(p)
  /\ s.absent \cap s.came = {}
  /\ \A p \in s.absent : <<p, s.day>> \in Crew.wfh => s.code \in blind

SummariesFit ==
  /\ \A s \in summaries : SummaryFits(s)
  /\ \A s, t \in summaries : s.code = t.code /\ s.day = t.day => s = t

ArrivedArePresent == \A p \in Crew.staff, d \in Team!Days : <<p, d>> \in arrived => rows[p][d] # "none"

\* A view has whom it was opened for, and but for those moved since, whom its viewer oversees.
ViewFits ==
  view # Team!NoView =>
    /\ view = [by |-> view.by, day |-> view.day, people |-> view.people, placed |-> view.placed]
    /\ view.by \in Crew.staff /\ view.day \in Team!Days /\ view.day <= Team!todayKey
    /\ view.people \subseteq Crew.staff
    /\ \A v \in {view.by} :
         /\ Team!teamScope(v).seesTeam \/ view.people \subseteq {v}
         /\ view.people \cap Crew.hidden # {} => Crew.level[v] = 1
         /\ Overseen(v) \ (exempt \cup Crew.hidden \cup sinceView) \subseteq view.people
         /\ view.placed => view.people \subseteq Overseen(v) \cup sinceView

TeamInv == TeamTypes /\ LinesFit /\ ReportFits /\ SummariesFit /\ ArrivedArePresent /\ ViewFits

\* The clocks of the branches keep to the days there are.
LEMMA TeamClock ==
  ASSUME TeamTypes
  PROVE  /\ Team!todayKey \in Team!Days /\ slot \in Nat /\ Team!Days \subseteq Nat
         /\ \A c : Team!dayKeyIn(c, slot) \in Team!Days
<1>1. /\ slot \in Nat \ {0} /\ Crew.slots \in Nat /\ slot <= Crew.slots
  BY CrewConstants DEF TeamTypes
<1>2. /\ slot \div 4 \in 0..(Crew.slots \div 4) /\ (slot - 1) \div 4 \in 0..(Crew.slots \div 4)
  BY <1>1
<1> QED BY <1>1, <1>2 DEF Team!todayKey, Team!Days, Team!dayKeyIn, Team!LocalSlot

LEMMA TeamBegins == ASSUME DaysInit, which = "team" PROVE TeamInv
<1>1. /\ Team!TeamInit
  BY DEF DaysInit
<1>2. TeamTypes /\ LinesFit /\ SummariesFit /\ ArrivedArePresent /\ ViewFits
  BY <1>1, CrewConstants DEF Team!TeamInit, TeamTypes, LinesFit, SummariesFit, ArrivedArePresent, ViewFits, Team!None
<1>3. ReportFits
  BY <1>1 DEF Team!TeamInit, ReportFits, Team!NoTick
<1> QED BY <1>2, <1>3 DEF TeamInv

\* What it is that does not change while nobody is moved.
LEMMA CodesStay ==
  ASSUME UNCHANGED work
  PROVE  /\ \A p : CodeOf(p)' = CodeOf(p)
         /\ \A v : Overseen(v)' = Overseen(v)
         /\ \A p : Team!WorkBranch(p)' = Team!WorkBranch(p)
<1>1. ASSUME NEW p PROVE Team!WorkBranch(p)' = Team!WorkBranch(p)
  BY DEF Team!WorkBranch
<1>2. ASSUME NEW p PROVE CodeOf(p)' = CodeOf(p)
  BY <1>1 DEF CodeOf, Team!attendanceBranchCode
<1>3. ASSUME NEW v PROVE Overseen(v)' = Overseen(v)
  BY <1>1 DEF Overseen, Team!teamScope, Team!canManage, Team!OwnBranches
<1> QED BY <1>1, <1>2, <1>3

LEMMA LinesStay == ASSUME LinesFit, UNCHANGED <<work, moved, told>>, lines' \subseteq lines PROVE LinesFit'
BY CodesStay DEF LinesFit

LEMMA ReportStays == ASSUME ReportFits, UNCHANGED <<work, moved, reporting>> PROVE ReportFits'
BY CodesStay DEF ReportFits, Team!Codes

LEMMA SummariesStay == ASSUME SummariesFit, UNCHANGED <<work, moved, summaries, blind>> PROVE SummariesFit'
BY CodesStay DEF SummariesFit, SummaryFits

LEMMA ViewStays ==
  ASSUME ViewFits, UNCHANGED <<work, exempt, view, sinceView>>, Team!todayKey <= Team!todayKey',
         Team!todayKey \in Nat, Team!todayKey' \in Nat, Team!Days \subseteq Nat
  PROVE  ViewFits'
<1>1. \A d \in Team!Days : d <= Team!todayKey => d <= Team!todayKey'
  BY SMT
<1> QED BY <1>1, CodesStay DEF ViewFits, Team!teamScope, Team!canManage, Team!OwnBranches, Team!Days, Team!NoView

LEMMA SlotsPass == ASSUME TeamInv, Team!PassTime PROVE TeamInv'
<1>1. /\ slot < Crew.slots /\ slot' = slot + 1
      /\ UNCHANGED <<work, exempt, rows, lines, told, summaries, attempted, reporting, view, punched,
                     moves, moved, sinceView, blind, arrived>>
  BY DEF Team!PassTime
<1>2. TeamTypes'
  BY <1>1, CrewConstants DEF TeamInv, TeamTypes, Team!Codes, Team!Days
<1>3. Team!todayKey <= Team!todayKey' /\ Team!todayKey \in Nat /\ Team!todayKey' \in Nat /\ Team!Days \subseteq Nat
  <2>1. slot \in Nat
    BY TeamClock DEF TeamInv
  <2>2. slot \div 4 \in Nat /\ (slot + 1) \div 4 \in Nat /\ slot \div 4 <= (slot + 1) \div 4
    BY <2>1
  <2> QED BY <1>1, <2>2, TeamClock DEF TeamInv, Team!todayKey
<1>4. ArrivedArePresent'
  BY <1>1 DEF TeamInv, ArrivedArePresent, Team!Days
<1>5. LinesFit' /\ ReportFits' /\ SummariesFit' /\ ViewFits'
  BY <1>1, <1>3, LinesStay, ReportStays, SummariesStay, ViewStays DEF TeamInv
<1> QED BY <1>2, <1>4, <1>5 DEF TeamInv

LEMMA PunchesKeep ==
  ASSUME TeamInv, NEW p \in Crew.staff, NEW action \in {"in", "out"}, Team!Punch(p, action) PROVE TeamInv'
<1>1. /\ UNCHANGED <<slot, work, exempt, told, summaries, attempted, reporting, view, moves, moved, sinceView, blind>>
      /\ rows' = [rows EXCEPT ![p][Team!todayKey] = action]
      /\ arrived' = arrived \cup {<<p, Team!todayKey>>} \/ arrived' = arrived
      /\ lines' = lines \/ (p \notin Crew.hidden /\ lines' = lines \cup {[who |-> p, action |-> action, at |-> slot]})
  BY DEF Team!Punch
<1>2. Team!todayKey \in Team!Days /\ Team!todayKey \in Nat /\ Team!Days \subseteq Nat /\ Team!todayKey' = Team!todayKey
  BY <1>1, TeamClock DEF TeamInv, Team!todayKey
<1>3. /\ rows' \in [Crew.staff -> [Team!Days -> {"none", "in", "out"}]]
      /\ \A q \in Crew.staff, d \in Team!Days : rows'[q][d] = IF q = p /\ d = Team!todayKey THEN action ELSE rows[q][d]
  BY <1>1, <1>2 DEF TeamInv, TeamTypes
<1>4. TeamTypes'
  BY <1>1, <1>3 DEF TeamInv, TeamTypes, Team!Codes, Team!Days
<1>5. ArrivedArePresent'
  <2>1. ASSUME NEW q \in Crew.staff, NEW d \in Team!Days, <<q, d>> \in arrived' PROVE rows'[q][d] # "none"
    <3>1. CASE q = p /\ d = Team!todayKey
      BY <1>3, <3>1
    <3>2. CASE ~(q = p /\ d = Team!todayKey)
      <4>1. <<q, d>> \in arrived
        BY <1>1, <2>1, <3>2
      <4> QED BY <1>3, <3>2, <4>1 DEF TeamInv, ArrivedArePresent
    <3> QED BY <3>1, <3>2
  <2> QED BY <2>1 DEF ArrivedArePresent, Team!Days
<1>6. LinesFit'
  BY <1>1, CodesStay DEF TeamInv, LinesFit
<1>7. ReportFits' /\ SummariesFit' /\ ViewFits'
  BY <1>1, <1>2, ReportStays, SummariesStay, ViewStays DEF TeamInv
<1> QED BY <1>4, <1>5, <1>6, <1>7 DEF TeamInv

LEMMA LinesArePosted == ASSUME TeamInv, NEW l \in lines, Team!PostPunch(l) PROVE TeamInv'
<1>1. PICK code : code = CodeOf(l.who)
  OBVIOUS
<1>2. PICK line : line = [code |-> code, day |-> Team!dayKeyIn(code, l.at), who |-> l.who, action |-> l.action]
  OBVIOUS
<1>3. /\ lines' = lines \ {l} /\ (told' = told \/ told' = told \cup {line})
      /\ UNCHANGED <<slot, work, exempt, rows, summaries, attempted, reporting, view, punched, moves,
                     moved, sinceView, blind, arrived>>
  BY <1>1, <1>2 DEF Team!PostPunch, Team!PunchBranch, CodeOf
<1>4. line.who = l.who /\ line.code = CodeOf(l.who) /\ l.who \in Crew.staff \ Crew.hidden
  BY <1>1, <1>2 DEF TeamInv, LinesFit
<1>5. LinesFit'
  BY <1>3, <1>4, CodesStay DEF TeamInv, LinesFit
<1>6. TeamTypes' /\ ArrivedArePresent'
  BY <1>3 DEF TeamInv, TeamTypes, ArrivedArePresent, Team!Codes, Team!Days
<1>7. Team!todayKey' = Team!todayKey /\ Team!todayKey \in Nat /\ Team!Days \subseteq Nat
  BY <1>3, TeamClock DEF TeamInv, Team!todayKey
<1>8. ReportFits' /\ SummariesFit' /\ ViewFits'
  BY <1>3, <1>7, ReportStays, SummariesStay, ViewStays DEF TeamInv
<1> QED BY <1>5, <1>6, <1>8 DEF TeamInv

\* Somebody is moved, or tracked from now on, or no longer.
LEMMA MovesKeep ==
  ASSUME TeamInv, NEW p \in Crew.staff, Team!Moves(p),
         work' \in [Crew.staff -> {"none"} \cup Crew.branches], exempt' \subseteq Crew.staff,
         \A q \in Crew.staff \ {p} : work'[q] = work[q] /\ (q \in exempt' <=> q \in exempt)
  PROVE  TeamInv'
<1>1. /\ moved' = moved \cup {p}
      /\ sinceView' = IF view = Team!NoView THEN {} ELSE sinceView \cup {p}
      /\ UNCHANGED <<slot, rows, lines, told, summaries, attempted, reporting, view, punched, blind, arrived>>
  BY DEF Team!Moves
<1>2. ASSUME NEW q \in Crew.staff \ {p} PROVE Team!WorkBranch(q)' = Team!WorkBranch(q) /\ CodeOf(q)' = CodeOf(q)
  <2>1. Team!WorkBranch(q)' = Team!WorkBranch(q)
    BY <1>2 DEF Team!WorkBranch
  <2> QED BY <2>1 DEF CodeOf, Team!attendanceBranchCode
<1>3. TeamTypes' /\ ArrivedArePresent'
  BY <1>1 DEF TeamInv, TeamTypes, ArrivedArePresent, Team!Codes, Team!Days
<1>4. LinesFit'
  BY <1>1, <1>2 DEF TeamInv, LinesFit
<1>5. ReportFits'
  BY <1>1, <1>2 DEF TeamInv, ReportFits, Team!Codes
<1>6. SummariesFit'
  BY <1>1, <1>2 DEF TeamInv, SummariesFit, SummaryFits
<1>7. ViewFits'
  <2> SUFFICES ASSUME view # Team!NoView PROVE ViewFits'
    BY <1>1 DEF ViewFits, Team!NoView
  <2>1. ASSUME NEW v PROVE /\ Team!teamScope(v)' = Team!teamScope(v)
                           /\ \A q \in Crew.staff \ {p} : q \in Overseen(v)' <=> q \in Overseen(v)
    <3>1. Team!teamScope(v)' = Team!teamScope(v)
      BY DEF Team!teamScope, Team!canManage, Team!OwnBranches
    <3> QED BY <1>2, <3>1 DEF Overseen
  <2>2. Team!todayKey' = Team!todayKey /\ p \in sinceView'
    BY <1>1 DEF Team!todayKey
  <2>3. ASSUME NEW v \in {view.by}
        PROVE  /\ Team!teamScope(v)'.seesTeam \/ view.people \subseteq {v}
               /\ view.people \cap Crew.hidden # {} => Crew.level[v] = 1
               /\ Overseen(v)' \ (exempt' \cup Crew.hidden \cup sinceView') \subseteq view.people
               /\ view.placed => view.people \subseteq Overseen(v)' \cup sinceView'
    <3>1. /\ Team!teamScope(v).seesTeam \/ view.people \subseteq {v}
          /\ view.people \cap Crew.hidden # {} => Crew.level[v] = 1
          /\ Overseen(v) \ (exempt \cup Crew.hidden \cup sinceView) \subseteq view.people
          /\ view.placed => view.people \subseteq Overseen(v) \cup sinceView
      BY <2>3 DEF TeamInv, ViewFits
    <3>2. Overseen(v)' \subseteq Crew.staff /\ Overseen(v) \subseteq Crew.staff
      BY DEF Overseen
    <3>3. sinceView' = sinceView \cup {p}
      BY <1>1
    <3>4. Team!teamScope(v)' = Team!teamScope(v) /\ \A q \in Crew.staff \ {p} : q \in Overseen(v)' <=> q \in Overseen(v)
      BY <2>1
    <3>5. \A q \in Crew.staff \ {p} : q \in exempt' <=> q \in exempt
      OBVIOUS
    <3>6. Overseen(v)' \ (exempt' \cup Crew.hidden \cup sinceView') \subseteq view.people
      BY <3>1, <3>2, <3>3, <3>4, <3>5
    <3> QED BY <3>1, <3>2, <3>3, <3>4, <3>6
  <2> QED BY <1>1, <2>2, <2>3 DEF TeamInv, ViewFits, Team!Days, Team!NoView
<1> QED BY <1>3, <1>4, <1>5, <1>6, <1>7 DEF TeamInv

LEMMA BranchesKeep ==
  ASSUME TeamInv, NEW p \in Crew.staff, NEW b \in Crew.branches \cup {"none"}, Team!assignUserWorkBranch(p, b) PROVE TeamInv'
<1>1. Team!Moves(p) /\ work' = [work EXCEPT ![p] = b] /\ exempt' = exempt
  BY DEF Team!assignUserWorkBranch
<1>2. work' \in [Crew.staff -> {"none"} \cup Crew.branches] /\ \A q \in Crew.staff \ {p} : work'[q] = work[q]
  BY <1>1 DEF TeamInv, TeamTypes
<1>3. exempt' \subseteq Crew.staff
  BY <1>1 DEF TeamInv, TeamTypes
<1> QED BY <1>1, <1>2, <1>3, MovesKeep

LEMMA ExemptionsKeep == ASSUME TeamInv, NEW p \in Crew.staff, Team!setExempt(p) PROVE TeamInv'
<1>1. Team!Moves(p) /\ exempt' = (IF p \in exempt THEN exempt \ {p} ELSE exempt \cup {p}) /\ work' = work
  BY DEF Team!setExempt
<1>2. exempt' \subseteq Crew.staff /\ \A q \in Crew.staff \ {p} : q \in exempt' <=> q \in exempt
  BY <1>1 DEF TeamInv, TeamTypes
<1>3. work' \in [Crew.staff -> {"none"} \cup Crew.branches]
  BY <1>1 DEF TeamInv, TeamTypes
<1> QED BY <1>1, <1>2, <1>3, MovesKeep

LEMMA ReportStarts == ASSUME TeamInv, Team!StartReport PROVE TeamInv'
<1>1. PICK of : of = Team!Buckets
  OBVIOUS
<1>2. PICK codes : codes = {of[p] : p \in DOMAIN of} \cap Team!Due
  OBVIOUS
<1>3. /\ reporting' = [codes |-> codes, of |-> of]
      /\ UNCHANGED <<slot, work, exempt, rows, lines, told, summaries, attempted, view, punched, moves, moved, sinceView, blind, arrived>>
  BY <1>1, <1>2 DEF Team!StartReport
<1>4. codes \subseteq Team!Codes /\ DOMAIN of \subseteq Crew.staff \ Crew.hidden /\ \A p \in DOMAIN of : of[p] = CodeOf(p)
  BY <1>1, <1>2 DEF Team!Buckets, Team!Due, CodeOf
<1>5. ReportFits'
  BY <1>3, <1>4, CodesStay DEF ReportFits, Team!Codes
<1>6. TeamTypes' /\ ArrivedArePresent'
  BY <1>3 DEF TeamInv, TeamTypes, ArrivedArePresent, Team!Codes, Team!Days
<1>7. Team!todayKey' = Team!todayKey /\ Team!todayKey \in Nat /\ Team!Days \subseteq Nat
  BY <1>3, TeamClock DEF TeamInv, Team!todayKey
<1>8. LinesFit' /\ SummariesFit' /\ ViewFits'
  BY <1>3, <1>7, LinesStay, SummariesStay, ViewStays DEF TeamInv
<1> QED BY <1>5, <1>6, <1>8 DEF TeamInv

\* What a branch's turn in the report does.
LEMMA ReportDoes ==
  ASSUME TeamInv, NEW c \in Team!Codes, Team!dayCloseReport(c)
  PROVE  \E night \in Team!Days, read \in BOOLEAN : \E people, here, home, made :
           /\ night = Team!ReportedDay(c) /\ people = {p \in DOMAIN reporting.of : reporting.of[p] = c}
           /\ here = {p \in people : Team!Present(p, night)}
           /\ home = (IF read THEN {p \in people : <<p, night>> \in Crew.wfh} ELSE {})
           /\ made = [code |-> c, day |-> night, listed |-> people, absent |-> people \ (here \cup home),
                      came |-> {p \in people : <<p, night>> \in arrived}]
           /\ reporting' = (IF reporting.codes = {c} THEN Team!NoTick ELSE [reporting EXCEPT !.codes = @ \ {c}])
           /\ attempted' = attempted \cup {<<c, night>>}
           /\ summaries' = summaries
              \/ (summaries' = summaries \cup {made} /\ \A s \in summaries : ~(s.code = c /\ s.day = night))
           /\ blind' = IF read THEN blind ELSE blind \cup {c}
           /\ UNCHANGED <<slot, work, exempt, rows, lines, told, view, punched, moves, moved, sinceView, arrived>>
<1>1. Team!ReportedDay(c) \in Team!Days
  BY TeamClock DEF TeamInv, Team!ReportedDay
<1> DEFINE night == Team!ReportedDay(c)
           people == {p \in DOMAIN reporting.of : reporting.of[p] = c}
           here == {p \in people : Team!Present(p, night)}
           home(read) == IF read THEN {p \in people : <<p, night>> \in Crew.wfh} ELSE {}
           made(read) == [code |-> c, day |-> night, listed |-> people, absent |-> people \ (here \cup home(read)),
                          came |-> {p \in people : <<p, night>> \in arrived}]
           old == {s \in summaries : s.code = c /\ s.day = night}
<1>2. /\ reporting' = (IF reporting.codes = {c} THEN Team!NoTick ELSE [reporting EXCEPT !.codes = @ \ {c}])
      /\ attempted' = attempted \cup {<<c, night>>}
      /\ \E read \in {TRUE, \A p \in people : <<p, night>> \notin Crew.wfh} :
           /\ summaries' \in {summaries} \cup
                IF c \in Crew.channels /\ old = {} THEN {summaries \cup {made(read)}} ELSE {}
           /\ blind' = IF read THEN blind ELSE blind \cup {c}
      /\ UNCHANGED <<slot, work, exempt, rows, lines, told, view, punched, moves, moved, sinceView, arrived>>
  BY DEF Team!dayCloseReport
<1>3. PICK read \in BOOLEAN :
           /\ summaries' \in {summaries} \cup
                IF c \in Crew.channels /\ old = {} THEN {summaries \cup {made(read)}} ELSE {}
           /\ blind' = IF read THEN blind ELSE blind \cup {c}
  BY <1>2
<1>4. summaries' = summaries \/ (summaries' = summaries \cup {made(read)} /\ \A s \in summaries : ~(s.code = c /\ s.day = night))
  BY <1>3
<1>5. /\ night = Team!ReportedDay(c) /\ people = {p \in DOMAIN reporting.of : reporting.of[p] = c}
      /\ here = {p \in people : Team!Present(p, night)}
      /\ home(read) = (IF read THEN {p \in people : <<p, night>> \in Crew.wfh} ELSE {})
      /\ made(read) = [code |-> c, day |-> night, listed |-> people, absent |-> people \ (here \cup home(read)),
                       came |-> {p \in people : <<p, night>> \in arrived}]
  OBVIOUS
<1>6. attempted' = attempted \cup {<<c, night>>}
  BY <1>2
<1> night \in Team!Days
  BY <1>1
<1> HIDE DEF night, people, here, home, made, old
<1> WITNESS night \in Team!Days, read \in BOOLEAN
<1> WITNESS people, here, home(read), made(read)
<1> QED BY <1>2, <1>3, <1>4, <1>5, <1>6

LEMMA ReportKeeps == ASSUME TeamInv, NEW c \in Team!Codes, Team!dayCloseReport(c) PROVE TeamInv'
<1>0. PICK night \in Team!Days, read \in BOOLEAN : \E people, here, home, made :
           /\ night = Team!ReportedDay(c) /\ people = {p \in DOMAIN reporting.of : reporting.of[p] = c}
           /\ here = {p \in people : Team!Present(p, night)}
           /\ home = (IF read THEN {p \in people : <<p, night>> \in Crew.wfh} ELSE {})
           /\ made = [code |-> c, day |-> night, listed |-> people, absent |-> people \ (here \cup home),
                      came |-> {p \in people : <<p, night>> \in arrived}]
           /\ reporting' = (IF reporting.codes = {c} THEN Team!NoTick ELSE [reporting EXCEPT !.codes = @ \ {c}])
           /\ attempted' = attempted \cup {<<c, night>>}
           /\ summaries' = summaries
              \/ (summaries' = summaries \cup {made} /\ \A s \in summaries : ~(s.code = c /\ s.day = night))
           /\ blind' = IF read THEN blind ELSE blind \cup {c}
           /\ UNCHANGED <<slot, work, exempt, rows, lines, told, view, punched, moves, moved, sinceView, arrived>>
  BY ReportDoes
<1>1. PICK people, here, home, made :
           /\ night = Team!ReportedDay(c) /\ people = {p \in DOMAIN reporting.of : reporting.of[p] = c}
           /\ here = {p \in people : Team!Present(p, night)}
           /\ home = (IF read THEN {p \in people : <<p, night>> \in Crew.wfh} ELSE {})
           /\ made = [code |-> c, day |-> night, listed |-> people, absent |-> people \ (here \cup home),
                      came |-> {p \in people : <<p, night>> \in arrived}]
           /\ reporting' = (IF reporting.codes = {c} THEN Team!NoTick ELSE [reporting EXCEPT !.codes = @ \ {c}])
           /\ attempted' = attempted \cup {<<c, night>>}
           /\ summaries' = summaries
              \/ (summaries' = summaries \cup {made} /\ \A s \in summaries : ~(s.code = c /\ s.day = night))
           /\ blind' = IF read THEN blind ELSE blind \cup {c}
           /\ UNCHANGED <<slot, work, exempt, rows, lines, told, view, punched, moves, moved, sinceView, arrived>>
  BY <1>0
<1>2. people \subseteq Crew.staff \ Crew.hidden /\ \A p \in people : p \in moved \/ c = CodeOf(p)
  BY <1>1 DEF TeamInv, ReportFits
<1>3. /\ made.code = c /\ made.day = night /\ made.listed = people /\ made.absent = people \ (here \cup home)
      /\ made.came = {p \in people : <<p, night>> \in arrived}
  BY <1>1
<1>4. SummaryFits(made)'
  <2>1. made.absent \cap made.came = {}
    <3>1. ASSUME NEW p \in people, <<p, night>> \in arrived PROVE p \in here
      <4>1. rows[p][night] \in {"none", "in", "out"} /\ rows[p][night] # "none"
        BY <1>1, <1>2, <3>1 DEF TeamInv, TeamTypes, ArrivedArePresent
      <4> QED BY <1>1, <4>1 DEF Team!Present
    <3> QED BY <1>3, <3>1
  <2>2. \A p \in made.absent : <<p, made.day>> \in Crew.wfh => made.code \in blind'
    BY <1>1, <1>3
  <2>3. \A p \in people : p \in moved' \/ c = CodeOf(p)'
    BY <1>1, <1>2, CodesStay
  <2> QED BY <1>2, <1>3, <2>1, <2>2, <2>3 DEF SummaryFits
<1>5. \A s \in summaries : SummaryFits(s)'
  <2>1. blind \subseteq blind'
    BY <1>1
  <2> QED BY <1>1, <2>1, CodesStay DEF TeamInv, SummariesFit, SummaryFits
<1>6. SummariesFit'
  <2>1. CASE summaries' = summaries
    BY <1>5, <2>1 DEF TeamInv, SummariesFit
  <2>2. CASE summaries' = summaries \cup {made} /\ \A s \in summaries : ~(s.code = c /\ s.day = night)
    BY <1>3, <1>4, <1>5, <2>2 DEF TeamInv, SummariesFit
  <2> QED BY <1>1, <2>1, <2>2
<1>7. ReportFits'
  <2>1. CASE reporting.codes = {c}
    BY <1>1, <2>1 DEF ReportFits, Team!NoTick
  <2>2. CASE reporting.codes # {c}
    <3>1. reporting' = [codes |-> reporting.codes \ {c}, of |-> reporting.of]
      BY <1>1, <2>2 DEF TeamInv, ReportFits
    <3>2. reporting.codes' = reporting.codes \ {c} /\ reporting.of' = reporting.of /\ moved' = moved
      BY <1>1, <3>1
    <3>3. \A p \in Crew.staff : CodeOf(p)' = CodeOf(p)
      BY <1>1, CodesStay
    <3> QED BY <3>1, <3>2, <3>3 DEF TeamInv, ReportFits
  <2> QED BY <2>1, <2>2
<1>8. TeamTypes' /\ ArrivedArePresent'
  BY <1>1 DEF TeamInv, TeamTypes, ArrivedArePresent, Team!Codes, Team!Days
<1>9. Team!todayKey' = Team!todayKey /\ Team!todayKey \in Nat /\ Team!Days \subseteq Nat
  BY <1>1, TeamClock DEF TeamInv, Team!todayKey
<1>10. LinesFit' /\ ViewFits'
  BY <1>1, <1>9, LinesStay, ViewStays DEF TeamInv
<1> QED BY <1>6, <1>7, <1>8, <1>10 DEF TeamInv

\* A restart, or the answer to a view, ends what is under way.
LEMMA RestartKeeps == ASSUME TeamInv, Team!Restart PROVE TeamInv'
<1>1. /\ reporting' = Team!NoTick /\ lines' = {} /\ view' = Team!NoView /\ attempted' = {} /\ sinceView' = {}
      /\ UNCHANGED <<slot, work, exempt, rows, told, summaries, punched, moves, moved, blind, arrived>>
  BY DEF Team!Restart
<1>2. TeamTypes' /\ ArrivedArePresent' /\ ViewFits'
  BY <1>1 DEF TeamInv, TeamTypes, ArrivedArePresent, ViewFits, Team!Codes, Team!Days, Team!NoView
<1>3. ReportFits'
  BY <1>1 DEF ReportFits, Team!NoTick
<1>4. LinesFit' /\ SummariesFit'
  BY <1>1, LinesStay, SummariesStay DEF TeamInv
<1> QED BY <1>2, <1>3, <1>4 DEF TeamInv

LEMMA AnswersKeep == ASSUME TeamInv, Team!AnswerTeam PROVE TeamInv'
<1>1. /\ view' = Team!NoView /\ sinceView' = {}
      /\ UNCHANGED <<slot, work, exempt, rows, lines, told, summaries, attempted, reporting, punched, moves, moved, blind, arrived>>
  BY DEF Team!AnswerTeam
<1>2. TeamTypes' /\ ArrivedArePresent' /\ ViewFits'
  BY <1>1 DEF TeamInv, TeamTypes, ArrivedArePresent, ViewFits, Team!Codes, Team!Days, Team!NoView
<1>3. LinesFit' /\ ReportFits' /\ SummariesFit'
  BY <1>1, LinesStay, ReportStays, SummariesStay DEF TeamInv
<1> QED BY <1>2, <1>3 DEF TeamInv

LEMMA ViewsOpen == ASSUME TeamInv, NEW v \in Crew.staff, NEW d \in Team!Days, Team!OpenTeam(v, d) PROVE TeamInv'
<1>1. /\ d <= Team!todayKey /\ sinceView' = {}
      /\ view' = [by |-> v, day |-> d, people |-> Team!Listed(v), placed |-> FALSE]
      /\ UNCHANGED <<slot, work, exempt, rows, lines, told, summaries, attempted, reporting, punched, moves,
                     moved, blind, arrived>>
  BY DEF Team!OpenTeam
<1>2. /\ Team!Listed(v) \subseteq Crew.staff /\ (Team!teamScope(v).seesTeam \/ Team!Listed(v) \subseteq {v})
      /\ Team!Listed(v) \cap Crew.hidden # {} => Crew.level[v] = 1
      /\ Overseen(v) \ (exempt \cup Crew.hidden) \subseteq Team!Listed(v)
  BY DEF Team!Listed, Overseen
<1>3. ViewFits'
  <2>1. /\ view'.by = v /\ view'.day = d /\ view'.people = Team!Listed(v) /\ view'.placed = FALSE
        /\ view' = [by |-> view'.by, day |-> view'.day, people |-> view'.people, placed |-> view'.placed]
    BY <1>1
  <2>2. Overseen(v)' = Overseen(v) /\ Team!teamScope(v)' = Team!teamScope(v) /\ Team!todayKey' = Team!todayKey
    BY <1>1, CodesStay DEF Team!teamScope, Team!canManage, Team!OwnBranches, Team!todayKey
  <2> QED BY <1>1, <1>2, <2>1, <2>2 DEF ViewFits, Team!Days
<1>4. TeamTypes' /\ ArrivedArePresent'
  BY <1>1 DEF TeamInv, TeamTypes, ArrivedArePresent, Team!Codes, Team!Days
<1>5. LinesFit' /\ ReportFits' /\ SummariesFit'
  BY <1>1, LinesStay, ReportStays, SummariesStay DEF TeamInv
<1> QED BY <1>3, <1>4, <1>5 DEF TeamInv

LEMMA ViewsArePlaced == ASSUME TeamInv, Team!PlaceTeam PROVE TeamInv'
<1>1. PICK v, people, placed : v = view.by /\ people = view.people
        /\ placed = {p \in people : Team!WorkBranch(p) \in Team!teamScope(v).branchIds \/ p = v}
  OBVIOUS
<1>2. /\ view # Team!NoView
      /\ view' = [view EXCEPT !.placed = TRUE, !.people = placed]
      /\ UNCHANGED <<slot, work, exempt, rows, lines, told, summaries, attempted, reporting, punched, moves, moved,
                     sinceView, blind, arrived>>
  BY <1>1 DEF Team!PlaceTeam
<1>3. view = [by |-> view.by, day |-> view.day, people |-> view.people, placed |-> view.placed]
  BY <1>2 DEF TeamInv, ViewFits
<1>4. view' = [by |-> v, day |-> view.day, people |-> placed, placed |-> TRUE]
  BY <1>1, <1>2, <1>3
<1>5. /\ view'.by = v /\ view'.day = view.day /\ view'.people = placed /\ view'.placed = TRUE
      /\ view' = [by |-> view'.by, day |-> view'.day, people |-> view'.people, placed |-> view'.placed]
  BY <1>4
<1>6. /\ v \in Crew.staff /\ people \subseteq Crew.staff /\ (Team!teamScope(v).seesTeam \/ people \subseteq {v})
      /\ people \cap Crew.hidden # {} => Crew.level[v] = 1
      /\ Overseen(v) \ (exempt \cup Crew.hidden \cup sinceView) \subseteq people
  BY <1>1, <1>2 DEF TeamInv, ViewFits
<1>7. /\ placed \subseteq people /\ placed \subseteq Overseen(v)
      /\ Overseen(v) \cap people \subseteq placed
  BY <1>1, <1>6 DEF Overseen
<1>8. ViewFits'
  <2>1. Overseen(v)' = Overseen(v) /\ Team!teamScope(v)' = Team!teamScope(v) /\ Team!todayKey' = Team!todayKey
    BY <1>2, CodesStay DEF Team!teamScope, Team!canManage, Team!OwnBranches, Team!todayKey
  <2>3. view.day \in Team!Days /\ view.day <= Team!todayKey
    BY <1>2 DEF TeamInv, ViewFits
  <2> QED BY <1>2, <1>5, <1>6, <1>7, <2>1, <2>3 DEF ViewFits, Team!Days
<1>9. TeamTypes' /\ ArrivedArePresent'
  BY <1>2 DEF TeamInv, TeamTypes, ArrivedArePresent, Team!Codes, Team!Days
<1>10. LinesFit' /\ ReportFits' /\ SummariesFit'
  BY <1>2, LinesStay, ReportStays, SummariesStay DEF TeamInv
<1> QED BY <1>8, <1>9, <1>10 DEF TeamInv

LEMMA TeamKeeps == ASSUME TeamInv, Team!TeamNext PROVE TeamInv'
BY SlotsPass, PunchesKeep, LinesArePosted, BranchesKeep, ExemptionsKeep, ReportStarts, ReportKeeps, RestartKeeps,
   AnswersKeep, ViewsOpen, ViewsArePlaced DEF Team!TeamNext, Team!None

\* What the invariant says of the channels and the views.
LEMMA TeamIsRight ==
  ASSUME TeamInv
  PROVE  /\ Team!TeamTypeOK /\ Team!OneChannelUnlessMoved /\ Team!OneSummaryEachUnlessMoved
         /\ Team!WhoCameIsNotAbsent /\ Team!HomeIsNotAbsentUnlessBlind /\ Team!ViewIsOfOverseenUnlessMoved
<1>1. Team!TeamTypeOK
  <2>1. slot \in 0..Crew.slots
    BY CrewConstants DEF TeamInv, TeamTypes
  <2>2. {l.who : l \in lines \cup told} \subseteq Crew.staff
    BY DEF TeamInv, LinesFit
  <2> QED BY <2>1, <2>2 DEF TeamInv, TeamTypes, Team!TeamTypeOK, Team!None
<1>2. Team!OneChannelUnlessMoved
  BY DEF TeamInv, LinesFit, SummariesFit, SummaryFits, Team!OneChannelUnlessMoved
<1>3. Team!OneSummaryEachUnlessMoved
  <2>1. ASSUME NEW s \in summaries, NEW t \in summaries, s # t, s.day = t.day
        PROVE  s.code # t.code /\ s.listed \cap t.listed \subseteq moved
    BY <2>1 DEF TeamInv, SummariesFit, SummaryFits
  <2>2. /\ \A l \in told : l.who \notin Crew.hidden
        /\ \A s \in summaries : s.listed \cap Crew.hidden = {}
    BY DEF TeamInv, LinesFit, SummariesFit, SummaryFits
  <2> QED BY <2>1, <2>2 DEF Team!OneSummaryEachUnlessMoved
<1>4. Team!WhoCameIsNotAbsent /\ Team!HomeIsNotAbsentUnlessBlind
  BY DEF TeamInv, SummariesFit, SummaryFits, Team!WhoCameIsNotAbsent, Team!HomeIsNotAbsentUnlessBlind
<1>5. Team!ViewIsOfOverseenUnlessMoved
  <2> SUFFICES ASSUME view # Team!NoView PROVE Team!ViewIsOfOverseenUnlessMoved
    BY DEF Team!ViewIsOfOverseenUnlessMoved
  <2>1. ASSUME NEW p \in view.people, Team!Present(p, view.day), NEW full \in BOOLEAN
        PROVE  view.day \in Team!PresentDays(p, full)
    <3>1. /\ p \in Crew.staff /\ view.day \in Team!Days /\ view.day <= Team!todayKey /\ rows[p][view.day] # "none"
      BY <2>1 DEF TeamInv, ViewFits, Team!Present
    <3>2. view.day \in 0..Team!todayKey /\ view.day <= view.day
      BY <3>1, TeamClock DEF TeamInv, Team!Days
    <3> QED BY <2>1, <3>1, <3>2 DEF Team!PresentDays, Team!History
  <2>2. /\ view.people \cap Crew.hidden # {} => Crew.level[view.by] = 1
        /\ Overseen(view.by) \ (exempt \cup Crew.hidden \cup sinceView) \subseteq view.people
        /\ view.placed => view.people \subseteq Overseen(view.by) \cup sinceView
    BY DEF TeamInv, ViewFits
  <2> QED BY <2>1, <2>2 DEF Team!ViewIsOfOverseenUnlessMoved, Overseen
<1> QED BY <1>1, <1>2, <1>3, <1>4, <1>5

LEMMA TeamOnly ==
  ASSUME which = "team" => TeamInv,
         [DaysNext]_<<which, vars, timeVars, dayVars, trailVars, officeVars, monthVars, payVars, teamVars>>
  PROVE  (which = "team" => TeamInv)'
<1>1. which' = which BY DEF DaysNext
<1>2. which = "team" => Team!TeamNext \/ UNCHANGED teamVars BY DEF DaysNext
<1>3. ASSUME TeamInv, UNCHANGED teamVars PROVE TeamInv'
  <2>1. UNCHANGED <<slot, work, exempt, rows, lines, told, summaries, attempted, reporting, view, punched,
                    moves, moved, sinceView, blind, arrived>>
    BY <1>3 DEF teamVars
  <2>2. Team!todayKey' = Team!todayKey /\ Team!todayKey \in Nat /\ Team!Days \subseteq Nat
    BY <1>3, <2>1, TeamClock DEF TeamInv, Team!todayKey
  <2>3. TeamTypes' /\ ArrivedArePresent'
    BY <1>3, <2>1 DEF TeamInv, TeamTypes, ArrivedArePresent, Team!Codes, Team!Days
  <2> QED BY <1>3, <2>1, <2>2, <2>3, LinesStay, ReportStays, SummariesStay, ViewStays DEF TeamInv
<1> QED BY <1>1, <1>2, <1>3, TeamKeeps

\* For any team, branches, clocks and requests: the line of a punch and that night's summary
\* are in one channel and a person is in one summary, nobody who came or was known to be at
\* home is absent in it, nobody hidden is named, and a view has whom its viewer oversees, but
\* for those moved meanwhile.
THEOREM TeamKeepsItsWord == DaysSpec => []TeamHolds
<1> DEFINE J == which = "team" => TeamInv
<1>1. DaysInit => J BY TeamBegins DEF DaysInit
<1>2. J /\ [DaysNext]_<<which, vars, timeVars, dayVars, trailVars, officeVars, monthVars, payVars, teamVars>> => J'
  BY TeamOnly
<1>3. J => TeamHolds BY TeamIsRight DEF TeamHolds
<1> QED BY <1>1, <1>2, <1>3, PTL DEF DaysSpec


-----------------------------------------------------------------------------
(* The month. *)

LEMMA CardMonth == \A S : Month!Cardinality(S) = Cardinality(S)
BY DEF Month!Cardinality, Cardinality

\* The calendar is a finite run of days from 1, in months from 1.
LEMMA MonthCalendar ==
  /\ IsFiniteSet(Month!Days) /\ Month!Days \subseteq Nat
  /\ \A d \in Month!Days, e \in Nat \ {0} : e <= d => e \in Month!Days
  /\ \A d \in Nat \ {0} : Month!monthOf(d) \in Nat
<1>1. Person.months * Person.monthLength \in Nat
  BY PersonConstants
<1>2. IsFiniteSet(1..(Person.months * Person.monthLength))
  BY <1>1, FS_Interval
<1>3. ASSUME NEW d \in Nat \ {0} PROVE Month!monthOf(d) \in Nat
  <2>1. (d - 1) \in Nat /\ Person.monthLength \in Nat \ {0}
    BY PersonConstants
  <2>2. \A n \in Nat, l \in Nat \ {0} : (n \div l) \in Nat
    OBVIOUS
  <2> QED BY <2>1, <2>2 DEF Month!monthOf
<1> QED BY <1>1, <1>2, <1>3 DEF Month!Days

\* Before the least of a set of days there is none of them.
LEMMA FirstOf ==
  ASSUME NEW S \in SUBSET Month!Days, NEW d \in Month!Days
  PROVE  LET first == IF S = {} THEN 0 ELSE Month!Min(S)
         IN  first = 0 \/ d < first <=> ~ \E e \in S : e <= d
<1>1. S \subseteq Nat \ {0} /\ d \in Nat
  BY MonthCalendar DEF Month!Days
<1>2. CASE S = {}
  BY <1>2
<1>3. CASE S # {}
  <2>1. \E n \in S : \A m \in S : n <= m
    BY <1>1, <1>3, HasLeast
  <2>2. Month!Min(S) \in S /\ \A m \in S : Month!Min(S) <= m
    BY <2>1 DEF Month!Min
  <2>3. Month!Min(S) \in Nat \ {0}
    BY <1>1, <2>2
  <2> HIDE DEF Month!Days
  <2> QED BY <1>1, <1>3, <2>2, <2>3
<1> QED BY <1>2, <1>3

\* Nobody has punched by a day exactly if the first punch is none, or after it.
LEMMA FirstPunch ==
  ASSUME NEW d \in Month!Days
  PROVE  Month!firstPunchDay = 0 \/ d < Month!firstPunchDay <=> ~Month!PunchedBy(d)
<1> DEFINE S == {e \in Month!Days : Month!Punched(e)}
<1>1. S \in SUBSET Month!Days
  OBVIOUS
<1>2. Month!firstPunchDay = IF S = {} THEN 0 ELSE Month!Min(S)
  BY DEF Month!firstPunchDay, Month!None
<1>3. Month!PunchedBy(d) <=> \E e \in S : e <= d
  BY DEF Month!PunchedBy
<1> HIDE DEF S
<1> QED BY <1>1, <1>2, <1>3, FirstOf

LEMMA FirstPunchNext ==
  ASSUME NEW d \in Month!Days
  PROVE  Month!firstPunchDay' = 0 \/ d < Month!firstPunchDay' <=> ~Month!PunchedBy(d)'
<1> DEFINE S == {e \in Month!Days : Month!Punched(e)'}
<1>1. S \in SUBSET Month!Days
  OBVIOUS
<1>2. Month!firstPunchDay' = IF S = {} THEN 0 ELSE Month!Min(S)
  BY DEF Month!firstPunchDay, Month!None
<1>3. Month!PunchedBy(d)' <=> \E e \in S : e <= d
  BY DEF Month!PunchedBy
<1> HIDE DEF S
<1> QED BY <1>1, <1>2, <1>3, FirstOf

\* What a day's state is made of does not change with the day's record and decision unchanged.
LEMMA PastStates ==
  ASSUME Month!MonthTypeOK, NEW d \in Month!Days, today' \in Nat, today <= today', d < today,
         shown'[d] = shown[d], decision'[d] = decision[d]
  PROVE  Month!StateOf(d)' = Month!StateOf(d) /\ (Month!MarkedAbsent(d)' <=> Month!MarkedAbsent(d))
<1>1. (Month!Punched(d)' <=> Month!Punched(d)) /\ (Month!MarkedAbsent(d)' <=> Month!MarkedAbsent(d))
  BY DEF Month!Punched, Month!MarkedAbsent
<1>2. Month!WeekOffFlag(d)' <=> Month!WeekOffFlag(d)
  BY DEF Month!WeekOffFlag
<1>3. Month!employedOn(d)' <=> Month!employedOn(d)
  BY DEF Month!employedOn
<1>4. Month!ClosedHoliday(d)' <=> Month!ClosedHoliday(d)
  BY DEF Month!ClosedHoliday
<1>5. ~(d > today) /\ ~(d > today')
  BY MonthCalendar DEF Month!MonthTypeOK
<1> QED BY <1>1, <1>2, <1>3, <1>4, <1>5 DEF Month!StateOf

LEMMA LabelsKeep ==
  ASSUME Month!MonthTypeOK, today' \in Nat, today <= today'
  PROVE  Month!KeepsLabels
<1> DEFINE was == Month!dayStatesFor(1, today)
           is  == Month!dayStatesFor(1, today)'
<1> SUFFICES ASSUME NEW d \in DOMAIN was \cap DOMAIN is, d < today, shown'[d] = shown[d], decision'[d] = decision[d]
             PROVE  is[d] = was[d] \/ ({was[d], is[d]} = {"noData", "absent"} /\ (Month!PunchedBy(d) # Month!PunchedBy(d)'))
  BY DEF Month!KeepsLabels
<1>1. d \in 1..today /\ was[d] = Month!applyNoData(d, Month!firstPunchDay)
  BY DEF Month!dayStatesFor, Month!Muster
<1>2. is[d] = Month!applyNoData(d, Month!firstPunchDay)'
  BY DEF Month!dayStatesFor, Month!Muster
<1>3. d \in Month!Days
  BY <1>1, MonthCalendar DEF Month!MonthTypeOK
<1>4. Month!StateOf(d)' = Month!StateOf(d) /\ (Month!MarkedAbsent(d)' <=> Month!MarkedAbsent(d))
  BY <1>3, PastStates
<1>5. was[d] = IF Month!StateOf(d) = "absent" /\ ~Month!MarkedAbsent(d) /\ ~Month!PunchedBy(d) THEN "noData" ELSE Month!StateOf(d)
  BY <1>1, <1>3, FirstPunch DEF Month!applyNoData, Month!None
<1>6. is[d] = IF Month!StateOf(d)' = "absent" /\ ~Month!MarkedAbsent(d)' /\ ~Month!PunchedBy(d)' THEN "noData" ELSE Month!StateOf(d)'
  BY <1>2, <1>3, FirstPunchNext DEF Month!applyNoData, Month!None
<1> HIDE DEF was, is
<1> QED BY <1>4, <1>5, <1>6

\* The states a day can have.
MonthStates == {"notEmployed", "present", "absent", "weekOff", "holiday", "leave", "future", "noData"}

LEMMA StatesAre ==
  ASSUME NEW d
  PROVE  Month!StateOf(d) \in MonthStates \ {"noData"}
BY DEF Month!StateOf, MonthStates

\* The muster charges a day of leave as the balance does.
LEMMA ChargesAgree == ASSUME Month!MonthTypeOK PROVE Month!ChargedOnceUnlessMarkedAbsent
<1> DEFINE muster == Month!Muster(Month!Days)
<1> SUFFICES ASSUME NEW d \in Month!Days, Month!employedOn(d), ~Month!MarkedAbsent(d)
             PROVE  Month!Drawn(d) = CASE muster[d] = "leave"                                      -> 2
                                       [] muster[d] = "present" /\ decision[d] = "halfLeave" -> 1
                                       [] OTHER                                                   -> 0
  BY DEF Month!ChargedOnceUnlessMarkedAbsent
<1>1. muster[d] = Month!applyNoData(d, Month!firstPunchDay)
  BY DEF Month!Muster
<1> HIDE DEF muster
<1>2. CASE Month!Punched(d)
  <2>1. muster[d] = "present"
    BY <1>1, <1>2 DEF Month!applyNoData, Month!StateOf
  <2> QED BY <1>2, <2>1 DEF Month!Drawn
<1>3. CASE ~Month!Punched(d) /\ decision[d] \in {"leave", "halfLeave"}
  <2>1. muster[d] = "leave"
    BY <1>1, <1>3 DEF Month!applyNoData, Month!StateOf
  <2> QED BY <1>3, <2>1 DEF Month!Drawn
<1>4. CASE ~Month!Punched(d) /\ decision[d] \notin {"leave", "halfLeave"}
  <2>1. muster[d] # "leave"
    BY <1>1, <1>4 DEF Month!applyNoData, Month!StateOf
  <2> QED BY <1>4, <2>1 DEF Month!Drawn
<1> QED BY <1>2, <1>3, <1>4

-----------------------------------------------------------------------------
(* The days of a month. *)

\* Disjoint finite sets count together.
LEMMA DisjointCount ==
  ASSUME NEW S, NEW T, IsFiniteSet(S), IsFiniteSet(T), S \cap T = {}
  PROVE  IsFiniteSet(S \cup T) /\ Cardinality(S \cup T) = Cardinality(S) + Cardinality(T)
<1>1. Cardinality(S \cap T) = 0
  BY FS_EmptySet
<1>2. Cardinality(S) \in Nat /\ Cardinality(T) \in Nat
  BY FS_CardinalityType
<1>3. IsFiniteSet(S \cup T) /\ Cardinality(S \cup T) = Cardinality(S) + Cardinality(T) - Cardinality(S \cap T)
  BY FS_Union
<1> QED BY <1>1, <1>2, <1>3

\* The days of a finite set by their states: each is counted once.
LEMMA EachDayOnce ==
  ASSUME NEW D, IsFiniteSet(D), NEW f \in [D -> MonthStates]
  PROVE  LET In(s) == {d \in D : f[d] = s}
         IN  /\ \A s \in MonthStates : Cardinality(In(s)) \in Nat /\ IsFiniteSet(In(s))
             /\ Cardinality(D) = Cardinality(In("notEmployed")) + Cardinality(In("present")) + Cardinality(In("absent"))
                  + Cardinality(In("weekOff")) + Cardinality(In("holiday")) + Cardinality(In("leave"))
                  + Cardinality(In("future")) + Cardinality(In("noData"))
<1> DEFINE In(s) == {d \in D : f[d] = s}
           U(T) == {d \in D : f[d] \in T}
           n(s) == Cardinality(In(s))
<1>1. \A T : IsFiniteSet(U(T)) /\ Cardinality(U(T)) \in Nat
  <2>1. ASSUME NEW T PROVE IsFiniteSet(U(T)) /\ Cardinality(U(T)) \in Nat
    <3>1. U(T) \in SUBSET D
      OBVIOUS
    <3> HIDE DEF U
    <3>2. IsFiniteSet(U(T)) BY <3>1, FS_Subset
    <3> QED BY <3>2, FS_CardinalityType
  <2> QED BY <2>1
<1>2. \A s : In(s) = U({s})
  OBVIOUS
<1>3. \A T, s : s \notin T => U(T \cup {s}) = U(T) \cup In(s) /\ U(T) \cap In(s) = {}
  OBVIOUS
<1>4. D = U(MonthStates)
  OBVIOUS
<1> HIDE DEF In, U
<1>5. \A T, s : s \notin T => Cardinality(U(T \cup {s})) = Cardinality(U(T)) + n(s)
  <2>1. ASSUME NEW T, NEW s, s \notin T PROVE Cardinality(U(T \cup {s})) = Cardinality(U(T)) + n(s)
    <3>1. IsFiniteSet(U(T)) /\ IsFiniteSet(In(s)) /\ U(T) \cap In(s) = {} /\ U(T \cup {s}) = U(T) \cup In(s)
      BY <1>1, <1>2, <1>3, <2>1
    <3> QED BY <3>1, DisjointCount
  <2> QED BY <2>1
<1>6. \A s : IsFiniteSet(In(s)) /\ n(s) \in Nat
  BY <1>1, <1>2
<1> DEFINE A == {"notEmployed"}
           B == A \cup {"present"}
           C == B \cup {"absent"}
           E == C \cup {"weekOff"}
           F == E \cup {"holiday"}
           G == F \cup {"leave"}
           H == G \cup {"future"}
           K == H \cup {"noData"}
<1>7. Cardinality(U(A)) = n("notEmployed")
  BY <1>2
<1>8. /\ Cardinality(U(B)) = Cardinality(U(A)) + n("present")
      /\ Cardinality(U(C)) = Cardinality(U(B)) + n("absent")
      /\ Cardinality(U(E)) = Cardinality(U(C)) + n("weekOff")
      /\ Cardinality(U(F)) = Cardinality(U(E)) + n("holiday")
      /\ Cardinality(U(G)) = Cardinality(U(F)) + n("leave")
      /\ Cardinality(U(H)) = Cardinality(U(G)) + n("future")
      /\ Cardinality(U(K)) = Cardinality(U(H)) + n("noData")
  <2>1. "present" \notin A /\ "absent" \notin B /\ "weekOff" \notin C /\ "holiday" \notin E
         /\ "leave" \notin F /\ "future" \notin G /\ "noData" \notin H
    OBVIOUS
  <2> HIDE DEF A, n
  <2>2. Cardinality(U(B)) = Cardinality(U(A)) + n("present") BY <1>5, <2>1
  <2> HIDE DEF B
  <2>3. Cardinality(U(C)) = Cardinality(U(B)) + n("absent") BY <1>5, <2>1
  <2> HIDE DEF C
  <2>4. Cardinality(U(E)) = Cardinality(U(C)) + n("weekOff") BY <1>5, <2>1
  <2> HIDE DEF E
  <2>5. Cardinality(U(F)) = Cardinality(U(E)) + n("holiday") BY <1>5, <2>1
  <2> HIDE DEF F
  <2>6. Cardinality(U(G)) = Cardinality(U(F)) + n("leave") BY <1>5, <2>1
  <2> HIDE DEF G
  <2>7. Cardinality(U(H)) = Cardinality(U(G)) + n("future") BY <1>5, <2>1
  <2> HIDE DEF H
  <2>8. Cardinality(U(K)) = Cardinality(U(H)) + n("noData") BY <1>5, <2>1
  <2> QED BY <2>2, <2>3, <2>4, <2>5, <2>6, <2>7, <2>8
<1>9. K = MonthStates
  BY DEF MonthStates
<1> HIDE DEF A, B, C, E, F, G, H, K, n
<1>10. Cardinality(D) = n("notEmployed") + n("present") + n("absent") + n("weekOff") + n("holiday") + n("leave")
                         + n("future") + n("noData")
  BY <1>4, <1>6, <1>7, <1>8, <1>9
<1> QED BY <1>6, <1>10 DEF In, n

LEMMA MaxIs ==
  ASSUME NEW x \in Int
  PROVE  Month!Max({0, x}) = IF x < 0 THEN 0 ELSE x
<1>1. Month!Max({0, x}) \in {0, x} /\ \A y \in {0, x} : Month!Max({0, x}) >= y
  <2>1. \E n \in {0, x} : \A y \in {0, x} : n >= y
    OBVIOUS
  <2> QED BY <2>1 DEF Month!Max
<1> QED BY <1>1

\* The days paid for are all but those absent and those outside the employment; a day is
\* absent by hand, or when the person has punched by then.
LEMMA DaysArePaid == ASSUME Month!MonthTypeOK PROVE Month!BlankDaysArePaid
<1> DEFINE D == Month!monthDayKeys(Month!monthOf(today))
           f == Month!Muster(D)
           In(t) == {d \in D : f[d] = t}
           n(t) == Cardinality(In(t))
           s == Month!summarizeMonth(Month!monthOf(today))
           lost == {d \in D : Month!employedOn(d) /\ (Month!MarkedAbsent(d) \/ Month!PunchedBy(d))}
<1>1. D \subseteq Month!Days /\ IsFiniteSet(D)
  <2>1. D \in SUBSET Month!Days
    BY DEF Month!monthDayKeys
  <2> QED BY <2>1, FS_Subset, MonthCalendar
<1>2. \A d \in D : f[d] = Month!applyNoData(d, Month!firstPunchDay)
  BY DEF Month!Muster
<1>3. f \in [D -> MonthStates]
  <2>1. ASSUME NEW d \in D PROVE Month!applyNoData(d, Month!firstPunchDay) \in MonthStates
    BY StatesAre DEF Month!applyNoData, MonthStates
  <2> HIDE DEF D
  <2> QED BY <2>1 DEF Month!Muster
<1>4. /\ s.calendarDays = Cardinality(D) /\ s.notEmployed = n("notEmployed") /\ s.absent = n("absent")
      /\ s.workingDays = n("present") + n("absent") + n("leave") /\ s.holidays = n("holiday")
      /\ s.weekOffs = n("weekOff") /\ s.future = n("future") /\ s.noData = n("noData") /\ s.leave = n("leave")
  <2>1. DOMAIN f = D
    BY DEF Month!Muster
  <2> HIDE DEF D
  <2>2. /\ s.calendarDays = Month!Cardinality(DOMAIN f)
        /\ s.notEmployed = Month!Cardinality({d \in DOMAIN f : f[d] = "notEmployed"})
        /\ s.absent = Month!Cardinality({d \in DOMAIN f : f[d] = "absent"})
        /\ s.workingDays = Month!Cardinality({d \in DOMAIN f : f[d] = "present"})
             + Month!Cardinality({d \in DOMAIN f : f[d] = "absent"})
             + Month!Cardinality({d \in DOMAIN f : f[d] = "leave"})
        /\ s.holidays = Month!Cardinality({d \in DOMAIN f : f[d] = "holiday"})
        /\ s.weekOffs = Month!Cardinality({d \in DOMAIN f : f[d] = "weekOff"})
        /\ s.future = Month!Cardinality({d \in DOMAIN f : f[d] = "future"})
        /\ s.noData = Month!Cardinality({d \in DOMAIN f : f[d] = "noData"})
        /\ s.leave = Month!Cardinality({d \in DOMAIN f : f[d] = "leave"})
    BY DEF D, Month!summarizeMonth
  <2> HIDE DEF f, s
  <2> QED BY <2>1, <2>2, CardMonth
<1> HIDE DEF D, f, s
<1>5. /\ \A t \in MonthStates : n(t) \in Nat /\ IsFiniteSet(In(t))
      /\ Cardinality(D) = n("notEmployed") + n("present") + n("absent") + n("weekOff") + n("holiday") + n("leave")
                         + n("future") + n("noData")
  BY <1>1, <1>3, EachDayOnce
<1>6. n("notEmployed") \in Nat /\ n("present") \in Nat /\ n("absent") \in Nat /\ n("weekOff") \in Nat
      /\ n("holiday") \in Nat /\ n("leave") \in Nat /\ n("future") \in Nat /\ n("noData") \in Nat
  BY <1>5 DEF MonthStates
<1>7. In("absent") \subseteq lost
  <2>1. ASSUME NEW d \in D, f[d] = "absent" PROVE d \in lost
    <3>1. Month!applyNoData(d, Month!firstPunchDay) = "absent" /\ d \in Month!Days
      BY <1>1, <1>2, <2>1
    <3>2. Month!StateOf(d) = "absent" /\ (Month!MarkedAbsent(d) \/ Month!PunchedBy(d))
      BY <3>1, FirstPunch DEF Month!applyNoData, Month!None
    <3>3. Month!employedOn(d)
      BY <3>2 DEF Month!StateOf
    <3> QED BY <3>2, <3>3
  <2> QED BY <2>1
<1>8. n("absent") <= Cardinality(lost)
  <2>1. IsFiniteSet(lost)
    <3>1. lost \in SUBSET D
      OBVIOUS
    <3> HIDE DEF lost
    <3> QED BY <1>1, <3>1, FS_Subset
  <2> HIDE DEF lost, In
  <2> QED BY <1>7, <2>1, FS_Subset
<1>9. Month!daysOf(s).lopDays = n("absent")
  BY <1>4 DEF Month!daysOf
<1>10. Month!daysOf(s).payableDays = n("present") + n("leave") + n("holiday") + n("weekOff") + n("future") + n("noData")
  <2> HIDE DEF n
  <2>1. Month!daysOf(s).payableDays = Month!Max({0, s.calendarDays - s.absent - s.notEmployed})
    BY DEF Month!daysOf
  <2>2. s.calendarDays - s.absent - s.notEmployed
          = n("present") + n("leave") + n("holiday") + n("weekOff") + n("future") + n("noData")
    BY <1>4, <1>5, <1>6
  <2> DEFINE x == n("present") + n("leave") + n("holiday") + n("weekOff") + n("future") + n("noData")
  <2>3. x \in Nat
    BY <1>6
  <2> HIDE DEF x
  <2>4. Month!Max({0, x}) = x
    BY <2>3, MaxIs
  <2> QED BY <2>1, <2>2, <2>4 DEF x
<1>11. Month!daysOf(s).payableDays = s.workingDays - s.absent + s.holidays + s.weekOffs + s.future + s.noData
  <2> HIDE DEF n
  <2> QED BY <1>4, <1>6, <1>10
<1>12. Month!Cardinality(lost) = Cardinality(lost)
  BY CardMonth
<1> HIDE DEF n
<1> QED BY <1>8, <1>9, <1>11, <1>12 DEF Month!BlankDaysArePaid, D, s

-----------------------------------------------------------------------------
(* The balance. *)

\* Half days of disjoint sets of days add up.
LEMMA HalvesAdd ==
  ASSUME NEW S \in SUBSET Month!Days, NEW T \in SUBSET Month!Days, S \cap T = {}
  PROVE  /\ Month!halfDaysOf(S \cup T) = Month!halfDaysOf(S) + Month!halfDaysOf(T)
         /\ Month!halfDaysOf(S) \in Nat /\ Month!halfDaysOf(T) \in Nat
<1> DEFINE H(X) == {h \in X \X {1, 2} : h[2] <= Month!Drawn(h[1])}
<1>1. \A X : Month!halfDaysOf(X) = Cardinality(H(X))
  BY CardMonth DEF Month!halfDaysOf
<1>2. \A X \in SUBSET Month!Days : IsFiniteSet(H(X))
  <2>1. ASSUME NEW X \in SUBSET Month!Days PROVE IsFiniteSet(H(X))
    <3>1. IsFiniteSet(X)
      BY MonthCalendar, FS_Subset
    <3>2. IsFiniteSet({1, 2})
      <4>1. IsFiniteSet({1}) BY FS_Singleton, Zenon
      <4>2. IsFiniteSet({1} \cup {2}) BY <4>1, FS_AddElement, Zenon
      <4>3. {1} \cup {2} = {1, 2} OBVIOUS
      <4> QED BY <4>2, <4>3
    <3>3. IsFiniteSet(X \X {1, 2})
      BY <3>1, <3>2, FS_Product
    <3>4. H(X) \in SUBSET (X \X {1, 2})
      OBVIOUS
    <3> HIDE DEF H
    <3> QED BY <3>3, <3>4, FS_Subset
  <2> QED BY <2>1
<1>3. H(S \cup T) = H(S) \cup H(T) /\ H(S) \cap H(T) = {}
  OBVIOUS
<1> HIDE DEF H
<1>4. IsFiniteSet(H(S)) /\ IsFiniteSet(H(T))
  BY <1>2
<1>5. Cardinality(H(S)) \in Nat /\ Cardinality(H(T)) \in Nat
  BY <1>4, FS_CardinalityType
<1>6. Cardinality(H(S) \cup H(T)) = Cardinality(H(S)) + Cardinality(H(T))
  BY <1>3, <1>4, DisjointCount
<1> QED BY <1>1, <1>3, <1>5, <1>6

\* The first month credited is a number, and comes after that of the opening balance.
LEMMA CreditsBegin ==
  /\ Month!accrualFrom \in Int
  /\ Person.opening.asOf # 0 => Month!accrualFrom >= Person.opening.asOf + 1
<1>1. Month!leaveEligibleFrom \in Int
  <2>1. Person.joined # 0 => Month!monthOf(Person.joined) \in Nat
    BY MonthCalendar, PersonConstants
  <2> QED BY <2>1, PersonConstants DEF Month!leaveEligibleFrom, Month!None
<1>2. ASSUME NEW a \in Int, NEW b \in Int, NEW c \in Int
      PROVE  Month!Max({a, b, c}) \in Int /\ Month!Max({a, b, c}) >= c
  <2>1. \E n \in {a, b, c} : \A y \in {a, b, c} : n >= y
    OBVIOUS
  <2>2. Month!Max({a, b, c}) \in {a, b, c} /\ \A y \in {a, b, c} : Month!Max({a, b, c}) >= y
    BY <2>1 DEF Month!Max
  <2> QED BY <2>2
<1> DEFINE a == Person.accrualFrom
           b == Month!leaveEligibleFrom
           c == Person.opening.asOf + 1
<1>3. a \in Int /\ b \in Int /\ c \in Int
  BY <1>1, PersonConstants
<1>4. CASE Person.opening.asOf = 0
  <2>1. Month!accrualFrom = Month!Max({a, b} \cup {})
    BY <1>4 DEF Month!accrualFrom, Month!None
  <2>2. {a, b} \cup {} = {a, b, b}
    OBVIOUS
  <2> HIDE DEF a, b
  <2> QED BY <1>2, <1>3, <1>4, <2>1, <2>2
<1>5. CASE Person.opening.asOf # 0
  <2>1. Month!accrualFrom = Month!Max({a, b} \cup {c})
    BY <1>5 DEF Month!accrualFrom, Month!None
  <2>2. {a, b} \cup {c} = {a, b, c}
    OBVIOUS
  <2> HIDE DEF a, b
  <2> QED BY <1>2, <1>3, <2>1, <2>2
<1> QED BY <1>4, <1>5

\* A month's credit: one more month of them, from the first to the last one served.
LEMMA Credited ==
  ASSUME NEW m \in Nat
  PROVE  /\ Month!creditedMonths(m) \in Nat
         /\ Month!creditedMonths(m + 1) = Month!creditedMonths(m)
              + (IF m + 1 >= Month!accrualFrom /\ (Person.left # 0 => m + 1 <= Month!monthOf(Person.left)) THEN 1 ELSE 0)
         /\ m < Month!accrualFrom => Month!creditedMonths(m) = 0
<1> DEFINE left == Month!monthOf(Person.left)
           from == Month!accrualFrom
           served(k) == IF Person.left # 0 /\ left < k THEN left ELSE k
<1>1. from \in Int /\ (Person.left # 0 => left \in Int)
  BY CreditsBegin, MonthCalendar, PersonConstants
<1>2. ASSUME NEW k \in Nat
      PROVE  /\ served(k) \in Int
             /\ Month!creditedMonths(k) = IF served(k) - from + 1 < 0 THEN 0 ELSE served(k) - from + 1
  <2>1. served(k) \in Int
    BY <1>1
  <2>2. Month!creditedMonths(k) = Month!Max({0, served(k) - from + 1})
    BY DEF Month!creditedMonths, Month!None
  <2>3. served(k) - from + 1 \in Int
    BY <1>1, <2>1
  <2> HIDE DEF served, from
  <2> QED BY <2>1, <2>2, <2>3, MaxIs
<1> HIDE DEF left, from
<1>3. m + 1 \in Nat
  OBVIOUS
<1>4. /\ Month!creditedMonths(m) = IF served(m) - from + 1 < 0 THEN 0 ELSE served(m) - from + 1
      /\ Month!creditedMonths(m + 1) = IF served(m + 1) - from + 1 < 0 THEN 0 ELSE served(m + 1) - from + 1
  BY <1>2, <1>3
<1>5. CASE Person.left # 0 /\ left < m + 1
  BY <1>1, <1>4, <1>5 DEF left, from
<1>6. CASE ~(Person.left # 0 /\ left < m + 1)
  BY <1>1, <1>4, <1>6 DEF left, from
<1> QED BY <1>5, <1>6

\* The balance of a month is that of the one before, the month's credit and what it takes.
LEMMA LedgerHolds == ASSUME Month!MonthTypeOK PROVE Month!BalanceIsTheLedger
<1> DEFINE asOf == Person.opening.asOf
           until(k) == {d \in Month!Days : (asOf # 0 => Month!monthOf(d) > asOf) /\ Month!monthOf(d) <= k}
<1>1. \A k : Month!takenBy(k) = Month!halfDaysOf(until(k)) /\ until(k) \in SUBSET Month!Days
  BY DEF Month!takenBy, Month!None
<1>2. asOf \in Nat /\ Person.opening.halves \in Int /\ Person.accrual \in Int /\ Month!MonthNos \subseteq Nat \ {0}
  BY PersonConstants DEF Month!MonthNos
<1>3. \A d \in Month!Days : Month!monthOf(d) \in Nat
  BY MonthCalendar DEF Month!Days
<1>4. ASSUME NEW m \in Month!MonthNos, m = asOf PROVE Month!leaveBalance(m) = Person.opening.halves
  <2>1. until(m) = {}
    BY <1>2, <1>3, <1>4
  <2>2. Month!takenBy(m) = 0
    <3>1. Month!halfDaysOf({}) = Cardinality({})
      <4>1. {h \in {} \X {1, 2} : h[2] <= Month!Drawn(h[1])} = {}
        OBVIOUS
      <4> QED BY <4>1, CardMonth DEF Month!halfDaysOf
    <3> HIDE DEF until
    <3> QED BY <1>1, <2>1, <3>1, FS_EmptySet
  <2>3. Month!creditedMonths(m) = 0
    <3>1. m < Month!accrualFrom
      BY <1>2, <1>4, CreditsBegin
    <3> QED BY <1>2, <3>1, Credited
  <2> QED BY <1>2, <2>2, <2>3 DEF Month!leaveBalance
<1>5. ASSUME NEW m \in Month!MonthNos, m + 1 \in Month!MonthNos, m >= asOf
      PROVE  Month!leaveBalance(m + 1) - Month!leaveBalance(m)
               = (IF m + 1 >= Month!accrualFrom /\ (Person.left # 0 => m + 1 <= Month!monthOf(Person.left))
                  THEN Person.accrual ELSE 0) - Month!halfDaysOf(Month!monthDayKeys(m + 1))
  <2> DEFINE keys == Month!monthDayKeys(m + 1)
             t == Month!halfDaysOf(until(m))
             u == Month!halfDaysOf(keys)
             c == Month!creditedMonths(m)
             one == IF m + 1 >= Month!accrualFrom /\ (Person.left # 0 => m + 1 <= Month!monthOf(Person.left)) THEN 1 ELSE 0
  <2>1. keys \in SUBSET Month!Days /\ until(m + 1) = until(m) \cup keys /\ until(m) \cap keys = {}
    BY <1>2, <1>3, <1>5 DEF Month!monthDayKeys
  <2> HIDE DEF until, keys
  <2>2. Month!halfDaysOf(until(m + 1)) = t + u /\ t \in Nat /\ u \in Nat
    BY <1>1, <2>1, HalvesAdd
  <2>3. Month!creditedMonths(m + 1) = c + one /\ c \in Nat /\ one \in {0, 1}
    BY <1>2, Credited
  <2>4. /\ Month!leaveBalance(m) = Person.opening.halves + c * Person.accrual - t
        /\ Month!leaveBalance(m + 1) = Person.opening.halves + (c + one) * Person.accrual - (t + u)
    BY <1>1, <2>2, <2>3 DEF Month!leaveBalance
  <2>5. (c + one) * Person.accrual = c * Person.accrual + one * Person.accrual /\ c * Person.accrual \in Int
    <3> HIDE DEF c, one
    <3> QED BY <1>2, <2>3
  <2>6. one * Person.accrual = IF one = 1 THEN Person.accrual ELSE 0
    <3> HIDE DEF one
    <3> QED BY <1>2, <2>3
  <2> DEFINE ca == c * Person.accrual
             gain == IF one = 1 THEN Person.accrual ELSE 0
  <2>7. Month!leaveBalance(m) = Person.opening.halves + ca - t
        /\ Month!leaveBalance(m + 1) = Person.opening.halves + (ca + gain) - (t + u)
    BY <2>4, <2>5, <2>6
  <2>8. ca \in Int /\ gain \in Int
    BY <1>2, <2>5
  <2> HIDE DEF t, u, c, ca
  <2>9. Month!leaveBalance(m + 1) - Month!leaveBalance(m) = gain - u
    <3> HIDE DEF gain, one
    <3> QED BY <1>2, <2>2, <2>7, <2>8
  <2> QED BY <2>9 DEF u, keys
<1> HIDE DEF until
<1> QED BY <1>4, <1>5 DEF Month!BalanceIsTheLedger, Month!None

-----------------------------------------------------------------------------
LEMMA MonthStarts == ASSUME Month!MonthInit PROVE Month!MonthTypeOK
<1>1. Month!NoRecord \in Month!Records
  BY DEF Month!Records
<1> QED BY <1>1, PersonConstants DEF Month!MonthInit, Month!MonthTypeOK, Month!Days, Month!DayDecisions

LEMMA MonthKeeps ==
  ASSUME Month!MonthTypeOK, Month!MonthNext
  PROVE  Month!MonthTypeOK' /\ today' \in Nat /\ today <= today'
<1>1. CASE Month!Midnight
  BY <1>1, MonthCalendar DEF Month!Midnight, Month!MonthTypeOK
<1>2. ASSUME NEW d \in Person.touched, NEW r \in Month!Records, Month!Recorded(d, r)
      PROVE  Month!MonthTypeOK' /\ today' \in Nat /\ today <= today'
  BY <1>2, MonthCalendar, PersonConstants DEF Month!Recorded, Month!MonthTypeOK
<1>3. ASSUME NEW d \in Person.touched, NEW s \in Month!DayDecisions, Month!Decided(d, s)
      PROVE  Month!MonthTypeOK' /\ today' \in Nat /\ today <= today'
  <2>1. decision' = [decision EXCEPT ![d] = s] /\ edits' = edits + 1 /\ edits < Person.changes /\ today' = today /\ shown' = shown
    BY <1>3 DEF Month!Decided
  <2>2. decision' \in [Month!Days -> Month!DayDecisions]
    BY <1>3, <2>1 DEF Month!MonthTypeOK
  <2>3. edits' \in 0..Person.changes
    BY <2>1, PersonConstants DEF Month!MonthTypeOK
  <2> QED BY <2>1, <2>2, <2>3, MonthCalendar DEF Month!MonthTypeOK
<1> QED BY <1>1, <1>2, <1>3 DEF Month!MonthNext

-----------------------------------------------------------------------------
(* The pay. *)

\* What the loans of a month are due is a sum of natural numbers, and a natural number: by
\* induction on how many loans are summed, as least counterexamples.
LEMMA SumIsNatural ==
  ASSUME NEW m, \A l \in Wages.loans : Pay!dueOf(l, m) \in Nat
  PROVE  Pay!recoveryFor(m) \in Nat
<1> DEFINE All == SUBSET Wages.loans
           pick(s) == CHOOSE x \in s : TRUE
           without(s) == s \ {pick(s)}
           due(s) == Pay!dueOf(pick(s), m)
           Body(h) == [s \in All |-> IF s = {} THEN 0 ELSE due(s) + h[without(s)]]
           n == Cardinality(Wages.loans)
<1>1. Pay!recoveryFor(m) = (CHOOSE h : h = Body(h))[Wages.loans]
  BY DEF Pay!recoveryFor, Pay!MapThenSumSet, Pay!MapThenFoldSet
<1>2. ASSUME NEW s \in All
      PROVE  /\ Cardinality(s) \in Nat /\ Cardinality(s) <= n /\ (Cardinality(s) = 0 <=> s = {})
             /\ s # {} => due(s) \in Nat /\ without(s) \in All /\ Cardinality(without(s)) = Cardinality(s) - 1
  <2>1. IsFiniteSet(s) /\ Cardinality(s) <= n
    BY LoanConstants, FS_Subset
  <2>2. Cardinality(s) \in Nat /\ (Cardinality(s) = 0 <=> s = {})
    BY <2>1, FS_CardinalityType, FS_EmptySet
  <2>3. s # {} => pick(s) \in s
    OBVIOUS
  <2> HIDE DEF pick
  <2>4. Cardinality(s \ {pick(s)}) = IF pick(s) \in s THEN Cardinality(s) - 1 ELSE Cardinality(s)
    BY <2>1, FS_RemoveElement
  <2> QED BY <2>1, <2>2, <2>3, <2>4
<1>3. n \in Nat /\ {} \in All /\ Wages.loans \in All
  BY <1>2
<1> HIDE DEF without, due, All, n
<1> DEFINE Good(h, k) == h \in [All -> Nat] /\ \A s \in All : Cardinality(s) <= k => h[s] = Body(h)[s]
<1>4. \A k \in Nat : \E h : Good(h, k)
  <2> DEFINE Bad == {k \in Nat : ~ \E h : Good(h, k)}
  <2>1. SUFFICES ASSUME Bad # {} PROVE FALSE
    OBVIOUS
  <2>2. PICK k \in Bad : \A j \in Bad : k <= j
    <3>1. Bad \in SUBSET Nat OBVIOUS
    <3> HIDE DEF Bad
    <3> QED BY <2>1, <3>1, HasLeast
  <2>3. k \in Nat /\ ~ \E h : Good(h, k)
    OBVIOUS
  <2>4. CASE k = 0
    <3> DEFINE zero == [s \in All |-> 0]
    <3>1. zero \in [All -> Nat] /\ \A s \in All : Cardinality(s) <= 0 => s = {} /\ zero[s] = 0
      BY <1>2
    <3>2. \A s \in All : Cardinality(s) <= 0 => Body(zero)[s] = 0
      BY <3>1
    <3> HIDE DEF zero, Body
    <3>3. Good(zero, k)
      BY <2>4, <3>1, <3>2
    <3> HIDE DEF Good
    <3> QED BY <2>3, <3>3
  <2>5. CASE k # 0
    <3>1. k - 1 \in Nat /\ k - 1 \notin Bad
      <4>1. k - 1 \in Nat /\ ~(k <= k - 1)
        BY <2>3, <2>5
      <4> HIDE DEF Bad
      <4> QED BY <2>2, <4>1
    <3>2. PICK h : Good(h, k - 1)
      <4> HIDE DEF Good
      <4> QED BY <3>1
    <3>3. Body(h) \in [All -> Nat]
      <4>1. ASSUME NEW s \in All PROVE (IF s = {} THEN 0 ELSE due(s) + h[without(s)]) \in Nat
        BY <1>2, <3>2
      <4> QED BY <4>1
    <3>4. ASSUME NEW s \in All, Cardinality(s) <= k PROVE Body(h)[s] = Body(Body(h))[s]
      <4>1. CASE s = {}
        BY <4>1
      <4>2. CASE s # {}
        <5>1. without(s) \in All /\ Cardinality(without(s)) <= k - 1
          BY <1>2, <2>3, <3>4, <4>2
        <5>2. h[without(s)] = Body(h)[without(s)]
          BY <3>2, <5>1
        <5>3. Body(h)[s] = due(s) + h[without(s)]
          BY <4>2
        <5>4. Body(Body(h))[s] = due(s) + Body(h)[without(s)]
          BY <4>2
        <5> QED BY <5>2, <5>3, <5>4
      <4> QED BY <4>1, <4>2
    <3>5. Good(Body(h), k)
      BY <3>3, <3>4
    <3> HIDE DEF Good, Body
    <3> QED BY <2>3, <3>5
  <2> QED BY <2>4, <2>5
<1>5. \E h : h = Body(h)
  <2>1. PICK h : Good(h, n)
    <3> HIDE DEF Good
    <3> QED BY <1>3, <1>4
  <2>2. h = Body(h)
    <3>1. \A s \in All : h[s] = Body(h)[s]
      BY <1>2, <2>1
    <3>2. h = [s \in All |-> h[s]]
      BY <2>1
    <3>3. Body(h) = [s \in All |-> Body(h)[s]]
      OBVIOUS
    <3> HIDE DEF Body
    <3> QED BY <3>1, <3>2, <3>3
  <2> HIDE DEF Body
  <2> QED BY <2>2
<1> DEFINE sum == CHOOSE h : h = Body(h)
<1>6. sum = Body(sum)
  <2> HIDE DEF Body
  <2> QED BY <1>5
<1> HIDE DEF sum
<1>7. \A s \in All : sum[s] = IF s = {} THEN 0 ELSE due(s) + sum[without(s)]
  BY <1>6
<1>8. \A s \in All : sum[s] \in Nat
  <2> DEFINE Bad == {k \in Nat : \E s \in All : Cardinality(s) = k /\ sum[s] \notin Nat}
  <2>1. SUFFICES ASSUME Bad # {} PROVE FALSE
    BY <1>2
  <2>2. PICK k \in Bad : \A j \in Bad : k <= j
    <3>1. Bad \in SUBSET Nat OBVIOUS
    <3> HIDE DEF Bad
    <3> QED BY <2>1, <3>1, HasLeast
  <2>3. PICK s \in All : Cardinality(s) = k /\ sum[s] \notin Nat
    OBVIOUS
  <2>4. s # {} /\ sum[s] = due(s) + sum[without(s)]
    BY <1>7, <2>3
  <2>5. without(s) \in All /\ Cardinality(without(s)) = k - 1 /\ due(s) \in Nat /\ k \in Nat /\ k # 0
    BY <1>2, <2>3, <2>4
  <2>6. sum[without(s)] \in Nat
    BY <2>2, <2>5
  <2> QED BY <2>3, <2>4, <2>5, <2>6
<1> HIDE DEF Body
<1> QED BY <1>1, <1>3, <1>8 DEF sum

LEMMA TimesIsMonotone ==
  ASSUME NEW n \in Nat, NEW a \in Nat, NEW b \in Nat, a <= b
  PROVE  n * a \in Nat /\ n * a <= n * b
OBVIOUS

\* A whole and less than one more divides to the whole.
LEMMA DivIsWhole ==
  ASSUME NEW L \in Nat \ {0}, NEW q \in Nat, NEW r \in 0..(L - 1)
  PROVE  (L * q + r) \div L = q
OBVIOUS

\* A share is a natural number, no more than the whole, and no less for one more day.
LEMMA ShareGrows ==
  ASSUME NEW full \in Nat, NEW p \in 0..Wages.calendar
  PROVE  /\ Pay!share(full, p) \in Nat /\ Pay!share(full, p) <= full
         /\ p < Wages.calendar => Pay!share(full, p) <= Pay!share(full, p + 1)
<1> DEFINE C == Wages.calendar
           num(k) == 2 * (full * k) + C
<1>1. C \in Nat
  BY WagesConstants
<1>2. ASSUME NEW k \in 0..C, C # 0 PROVE (num(k) \div (2 * C)) \in Nat /\ (num(k) \div (2 * C)) <= full
  <2>1. full * k \in Nat /\ full * k <= full * C /\ full * C \in Nat
    BY <1>1, TimesIsMonotone
  <2> DEFINE a == full * k
             b == full * C
  <2>2. num(k) \in Nat /\ num(C) \in Nat /\ num(k) <= num(C) /\ 2 * C \in Nat \ {0}
    <3>1. a \in Nat /\ b \in Nat /\ a <= b BY <2>1
    <3> HIDE DEF a, b
    <3>2. 2 * a + C \in Nat /\ 2 * b + C \in Nat /\ 2 * a + C <= 2 * b + C /\ 2 * C \in Nat \ {0}
      BY <1>1, <1>2, <3>1
    <3> QED BY <3>2 DEF a, b
  <2>3. num(C) = (2 * C) * full + C
    BY <1>1
  <2>4. C \in 0..(2 * C - 1)
    BY <1>1, <1>2
  <2> HIDE DEF num
  <2>5. ((2 * C) * full + C) \div (2 * C) = full
    <3> DEFINE L == 2 * C
    <3>1. L \in Nat \ {0} /\ C \in 0..(L - 1) BY <2>2, <2>4
    <3> HIDE DEF L
    <3>2. (L * full + C) \div L = full BY <3>1, DivIsWhole
    <3> QED BY <3>2 DEF L
  <2> QED BY <2>2, <2>3, <2>5, DivIsMonotone
<1>3. ASSUME NEW k \in Nat, k < C PROVE (num(k) \div (2 * C)) <= (num(k + 1) \div (2 * C))
  <2>1. full * k \in Nat /\ full * (k + 1) \in Nat /\ full * k <= full * (k + 1)
    BY TimesIsMonotone
  <2> DEFINE a == full * k
             b == full * (k + 1)
  <2>2. num(k) \in Nat /\ num(k + 1) \in Nat /\ num(k) <= num(k + 1) /\ 2 * C \in Nat \ {0}
    <3>1. a \in Nat /\ b \in Nat /\ a <= b BY <2>1
    <3> HIDE DEF a, b
    <3>2. 2 * a + C \in Nat /\ 2 * b + C \in Nat /\ 2 * a + C <= 2 * b + C /\ 2 * C \in Nat \ {0}
      BY <1>1, <1>3, <3>1
    <3> QED BY <3>2 DEF a, b
  <2> HIDE DEF num
  <2> QED BY <2>2, DivIsMonotone
<1>4. \A k : Pay!Rounded(full * k, C) = num(k) \div (2 * C)
  BY DEF Pay!Rounded
<1>5. \A k \in 0..C : Pay!share(full, k) = IF C = 0 \/ k >= C THEN full ELSE IF k <= 0 THEN 0 ELSE num(k) \div (2 * C)
  BY <1>4 DEF Pay!share
<1> HIDE DEF num, C
<1>6. p \in 0..C /\ p \in Nat
  BY <1>1 DEF C
<1>7. CASE C = 0
  BY <1>1, <1>5, <1>6, <1>7 DEF C
<1>8. CASE C # 0
  <2>1. /\ Pay!share(full, p) = IF p >= C THEN full ELSE IF p <= 0 THEN 0 ELSE num(p) \div (2 * C)
        /\ (num(p) \div (2 * C)) \in Nat /\ (num(p) \div (2 * C)) <= full
    BY <1>2, <1>5, <1>6, <1>8
  <2> DEFINE x == num(p) \div (2 * C)
             y == num(p + 1) \div (2 * C)
  <2>2. Pay!share(full, p) \in Nat /\ Pay!share(full, p) <= full
    <3> HIDE DEF x
    <3> QED BY <1>1, <1>6, <2>1 DEF x
  <2>3. ASSUME p < C PROVE Pay!share(full, p) <= Pay!share(full, p + 1)
    <3>1. /\ Pay!share(full, p + 1) = IF p + 1 >= C THEN full ELSE IF p + 1 <= 0 THEN 0 ELSE num(p + 1) \div (2 * C)
          /\ y \in Nat /\ y <= full /\ x <= y
      <4>1. p + 1 \in 0..C
        BY <1>1, <1>6, <2>3
      <4> QED BY <1>2, <1>3, <1>5, <1>6, <1>8, <2>3, <4>1
    <3>2. x \in Nat /\ x <= full
      BY <2>1
    <3>3. Pay!share(full, p) = IF p <= 0 THEN 0 ELSE x
      BY <1>1, <1>6, <2>1, <2>3
    <3>4. Pay!share(full, p + 1) = IF p + 1 >= C THEN full ELSE y
      BY <1>1, <1>6, <3>1
    <3>5. y \in Nat /\ y <= full /\ x <= y
      BY <3>1
    <3> HIDE DEF x, y
    <3> QED BY <1>1, <1>6, <3>2, <3>3, <3>4, <3>5
  <2> QED BY <2>2, <2>3 DEF C
<1> QED BY <1>7, <1>8

\* What a month earns is no more than the gross, and no less for one more day.
LEMMA EarningsGrow ==
  ASSUME NEW p \in 0..Wages.calendar
  PROVE  /\ Pay!grossOf \in Nat /\ Pay!earnedOf(p) \in Nat /\ Pay!earnedOf(p) <= Pay!grossOf
         /\ p < Wages.calendar => Pay!earnedOf(p) <= Pay!earnedOf(p + 1) /\ Pay!earnedOf(p + 1) \in Nat
<1>1. Wages.salary.basic \in Nat /\ Wages.salary.hra \in Nat /\ Wages.salary.other \in Nat /\ Wages.calendar \in Nat
  BY WagesConstants
<1>2. \A s \in Nat : /\ Pay!share(s, p) \in Nat /\ Pay!share(s, p) <= s
                     /\ p < Wages.calendar => Pay!share(s, p) <= Pay!share(s, p + 1) /\ Pay!share(s, p + 1) \in Nat
  <2>1. p < Wages.calendar => p + 1 \in 0..Wages.calendar
    BY <1>1
  <2> QED BY <2>1, ShareGrows
<1> QED BY <1>1, <1>2 DEF Pay!grossOf, Pay!earnedOf

\* The tax of a month is a number.
LEMMA TaxIsNumber ==
  ASSUME NEW m, NEW earned \in Nat
  PROVE  Pay!ptForMonth(m, earned) \in Nat
<1>1. Pay!ptSchedule.monthly \in Nat /\ Pay!ptSchedule.feb \in Nat
  <2>1. CASE Wages.pt.mode = "auto" /\ Wages.ladder # << >>
    <3> DEFINE I == {i \in DOMAIN Wages.ladder : Wages.ladder[i].upTo = 0 \/ Pay!grossOf <= Wages.ladder[i].upTo}
    <3>1. /\ DOMAIN Wages.ladder = 1..Len(Wages.ladder) /\ Len(Wages.ladder) \in Nat \ {0}
          /\ \A i \in DOMAIN Wages.ladder : Wages.ladder[i].monthly \in Nat /\ Wages.ladder[i].feb \in Nat
          /\ Wages.ladder[Len(Wages.ladder)].upTo = 0
      <4> DEFINE Band == [upTo : Nat, monthly : Nat, feb : Nat]
      <4>1. Wages.ladder \in Seq(Band) /\ Wages.ladder[Len(Wages.ladder)].upTo = 0
        BY <2>1, WagesConstants
      <4>2. \A b \in Band : b.monthly \in Nat /\ b.feb \in Nat
        OBVIOUS
      <4> HIDE DEF Band
      <4>3. \A s \in Seq(Band) : /\ DOMAIN s = 1..Len(s) /\ Len(s) \in Nat /\ \A i \in 1..Len(s) : s[i] \in Band
                                  /\ s # << >> => Len(s) # 0
        OBVIOUS
      <4> QED BY <2>1, <4>1, <4>2, <4>3
    <3>2. I \in SUBSET Nat /\ I # {}
      BY <3>1
    <3>3. Pay!Min(I) \in I
      <4>1. \E n \in I : \A k \in I : n <= k
        BY <3>2, HasLeast
      <4> HIDE DEF I
      <4> QED BY <4>1 DEF Pay!Min
    <3>4. Pay!ptBandOf(Pay!grossOf).monthly \in Nat /\ Pay!ptBandOf(Pay!grossOf).feb \in Nat
      <4>1. Pay!ptBandOf(Pay!grossOf) = Wages.ladder[Pay!Min(I)]
        BY DEF Pay!ptBandOf
      <4>2. Pay!Min(I) \in DOMAIN Wages.ladder
        BY <3>3
      <4> HIDE DEF I
      <4> QED BY <3>1, <4>1, <4>2
    <3> HIDE DEF I
    <3> QED BY <2>1, <3>4 DEF Pay!ptSchedule
  <2>2. CASE Wages.pt.mode # "none" /\ ~(Wages.pt.mode = "auto" /\ Wages.ladder # << >>)
    BY <2>2, WagesConstants DEF Pay!ptSchedule, Pay!AtLeast0
  <2>3. CASE Wages.pt.mode = "none"
    BY <2>3 DEF Pay!ptSchedule
  <2> QED BY <2>1, <2>2, <2>3
<1> QED BY <1>1 DEF Pay!ptForMonth

LEMMA CardPay == \A S : Pay!Cardinality(S) = Cardinality(S)
BY DEF Pay!Cardinality, Cardinality

\* A loan's terms are numbers.
LEMMA LoanTerms ==
  ASSUME NEW l \in Wages.loans
  PROVE  /\ Wages.terms[l].principal \in Nat /\ Wages.terms[l].waived \in Nat /\ Wages.terms[l].opening \in Nat
         /\ Wages.terms[l].instalment \in Nat /\ Wages.terms[l].start \in Nat \ {0}
BY LoanConstants

\* The instalments before a month are one more than before the last, if that was not skipped.
LEMMA InstalmentsGo ==
  ASSUME Pay!PayTypeOK, NEW l \in Wages.loans, NEW m \in Nat
  PROVE  /\ Pay!instalmentsBefore(l, m) \in Nat
         /\ Pay!instalmentsBefore(l, m + 1) = Pay!instalmentsBefore(l, m)
              + (IF m >= Wages.terms[l].start /\ m \notin skips[l] THEN 1 ELSE 0)
<1> DEFINE start == Wages.terms[l].start
           gone(k) == {j \in skips[l] : start <= j /\ j < k}
           c(k) == Cardinality(gone(k))
<1>1. start \in Nat /\ skips[l] \subseteq Nat
  BY LoanTerms, WagesConstants DEF Pay!PayTypeOK, Pay!MonthNos
<1>2. ASSUME NEW k \in Nat, start <= k
      PROVE  IsFiniteSet(gone(k)) /\ c(k) \in Nat /\ c(k) <= k - start
  <2>1. gone(k) \in SUBSET (start..(k - 1))
    BY <1>1
  <2>2. IsFiniteSet(start..(k - 1)) /\ Cardinality(start..(k - 1)) = k - start
    <3> DEFINE b == k - 1
    <3>2. b \in Int /\ start \in Int BY <1>1
    <3> HIDE DEF b, start
    <3>3. IsFiniteSet(start..b) /\ Cardinality(start..b) = IF start > b THEN 0 ELSE b - start + 1
      BY <3>2, FS_Interval
    <3> QED BY <1>1, <1>2, <3>3 DEF b
  <2> HIDE DEF gone
  <2> QED BY <2>1, <2>2, FS_Subset, FS_CardinalityType
<1>3. ASSUME NEW k \in Nat
      PROVE  Pay!instalmentsBefore(l, k) = IF k <= start THEN 0 ELSE IF k - start - c(k) < 0 THEN 0 ELSE k - start - c(k)
  <2>1. Pay!Cardinality(gone(k)) = c(k)
    BY CardPay
  <2> QED BY <2>1 DEF Pay!instalmentsBefore, Pay!AtLeast0
<1>4. start <= m => c(m + 1) = c(m) + IF m \in skips[l] THEN 1 ELSE 0
  <2>1. SUFFICES ASSUME start <= m PROVE c(m + 1) = c(m) + IF m \in skips[l] THEN 1 ELSE 0
    OBVIOUS
  <2>2. IsFiniteSet(gone(m)) /\ c(m) \in Nat /\ m \notin gone(m)
    <3>1. m \notin gone(m)
      OBVIOUS
    <3> HIDE DEF start, gone, c
    <3> QED BY <1>2, <2>1, <3>1
  <2>3. CASE m \in skips[l]
    <3>1. gone(m + 1) = gone(m) \cup {m}
      BY <1>1, <2>1, <2>3
    <3> HIDE DEF gone
    <3>2. Cardinality(gone(m) \cup {m}) = Cardinality(gone(m)) + 1
      BY <2>2, FS_AddElement
    <3> QED BY <2>3, <3>1, <3>2
  <2>4. CASE m \notin skips[l]
    <3>1. gone(m + 1) = gone(m)
      BY <1>1, <2>1, <2>4
    <3> HIDE DEF gone
    <3> QED BY <2>2, <2>4, <3>1
  <2> QED BY <2>3, <2>4
<1>5. m + 1 \in Nat
  OBVIOUS
<1>6. CASE m < start
  <2>1. m <= start /\ m + 1 <= start /\ ~(m >= start)
    BY <1>1, <1>6
  <2>2. Pay!instalmentsBefore(l, m) = 0 /\ Pay!instalmentsBefore(l, m + 1) = 0
    <3> HIDE DEF c, start
    <3> QED BY <1>3, <1>5, <2>1
  <2> QED BY <2>1, <2>2
<1>7. CASE start <= m
  <2>1. c(m) \in Nat /\ c(m) <= m - start /\ c(m + 1) = c(m) + IF m \in skips[l] THEN 1 ELSE 0
    BY <1>2, <1>4, <1>7
  <2> HIDE DEF start, c
  <2>2. /\ Pay!instalmentsBefore(l, m) = m - start - c(m)
        /\ Pay!instalmentsBefore(l, m + 1) = m + 1 - start - c(m + 1)
    BY <1>1, <1>3, <1>5, <1>7, <2>1
  <2> QED BY <1>1, <1>7, <2>1, <2>2 DEF start
<1> QED BY <1>1, <1>6, <1>7

\* What is open of a loan is a number; an instalment is no more than that.
LEMMA LoanNumbers ==
  ASSUME Pay!PayTypeOK, NEW l \in Wages.loans, NEW m \in Nat
  PROVE  /\ Pay!lent(l) \in Nat /\ Wages.terms[l].instalment \in Nat /\ Wages.terms[l].opening \in Nat
         /\ Pay!instalmentsBefore(l, m) * Wages.terms[l].instalment \in Nat
         /\ Pay!openingOf(l, m) \in Nat /\ Pay!dueOf(l, m) \in Nat /\ Pay!dueOf(l, m) <= Pay!openingOf(l, m)
         /\ Pay!openingOf(l, m) = Pay!AtLeast0(Pay!lent(l) - Wages.terms[l].opening
                                                 - Pay!instalmentsBefore(l, m) * Wages.terms[l].instalment)
<1>1. Pay!lent(l) \in Nat /\ Wages.terms[l].instalment \in Nat /\ Wages.terms[l].opening \in Nat
  BY LoanTerms DEF Pay!lent, Pay!AtLeast0
<1> DEFINE x == Pay!instalmentsBefore(l, m) * Wages.terms[l].instalment
<1>2. x \in Nat
  BY <1>1, InstalmentsGo
<1>3. Pay!openingOf(l, m) = Pay!lent(l) - Pay!Lesser(Pay!lent(l), Wages.terms[l].opening + x)
  BY DEF Pay!openingOf
<1> HIDE DEF x
<1>4. /\ Pay!openingOf(l, m) \in Nat
      /\ Pay!openingOf(l, m) = Pay!AtLeast0(Pay!lent(l) - Wages.terms[l].opening - x)
  BY <1>1, <1>2, <1>3 DEF Pay!Lesser, Pay!AtLeast0
<1>5. Pay!dueOf(l, m) \in Nat /\ Pay!dueOf(l, m) <= Pay!openingOf(l, m)
  BY <1>1, <1>4 DEF Pay!dueOf, Pay!Lesser
<1> QED BY <1>1, <1>2, <1>4, <1>5 DEF x

\* What a payslip gives the loans is what the taxes leave, or all that is due.
LEMMA SlipAddsUp == ASSUME Pay!PayTypeOK PROVE Pay!SlipFoots
<1> SUFFICES ASSUME month \in Pay!MonthNos, NEW p \in 0..Wages.calendar
             PROVE  LET s == Pay!Payslip(month, p)
                    IN /\ s.earned <= Pay!grossOf /\ s.earned + s.lop = Pay!grossOf
                       /\ s.loans > 0 => s.net >= 0
                       /\ s.short > 0 => s.net <= 0
                       /\ p < Wages.calendar => s.earned <= Pay!earnedOf(p + 1)
  BY DEF Pay!SlipFoots
<1> DEFINE gross == Pay!grossOf
           earned == IF gross > 0 THEN Pay!earnedOf(p) ELSE 0
           pt == Pay!ptForMonth(month, earned)
           tds == IF earned > 0 THEN Wages.tds ELSE 0
           due == Pay!recoveryFor(month)
           room == earned - pt - tds
           loans == Pay!Lesser(due, Pay!AtLeast0(room))
           s == Pay!Payslip(month, p)
<1>1. gross \in Nat /\ earned \in Nat /\ earned <= gross
  BY EarningsGrow
<1>2. p < Wages.calendar => earned <= Pay!earnedOf(p + 1) /\ Pay!earnedOf(p + 1) \in Nat
  BY EarningsGrow
<1>3. pt \in Nat
  BY <1>1, TaxIsNumber
<1>4. tds \in Nat
  BY WagesConstants
<1>5. due \in Nat
  <2>1. month \in Nat
    BY DEF Pay!PayTypeOK
  <2> QED BY <2>1, LoanNumbers, SumIsNatural
<1>6. /\ s.earned = earned /\ s.lop = Pay!AtLeast0(gross - earned) /\ s.loans = loans
      /\ s.short = due - loans /\ s.net = room - loans
  BY DEF Pay!Payslip
<1> HIDE DEF gross, earned, pt, tds, due, s
<1>7. /\ s.loans > 0 => s.net >= 0
      /\ s.short > 0 => s.net <= 0
  <2>1. room \in Int
    BY <1>1, <1>3, <1>4
  <2> HIDE DEF room
  <2> QED BY <1>5, <1>6, <2>1 DEF Pay!Lesser, Pay!AtLeast0
<1>8. s.earned <= gross /\ s.earned + s.lop = gross
  BY <1>1, <1>6 DEF Pay!AtLeast0
<1>9. p < Wages.calendar => s.earned <= Pay!earnedOf(p + 1)
  BY <1>2, <1>6
<1> QED BY <1>7, <1>8, <1>9 DEF gross, s

\* Of a loan nothing disturbed, what is open is what its payslips left.
ScheduleKept(l) ==
  /\ Pay!openingOf(l, month) = Pay!AtLeast0(Pay!lent(l) - Wages.terms[l].opening - taken[l])
  /\ taken[l] <= Pay!AtLeast0(Pay!lent(l) - Wages.terms[l].opening)

PayInv == Pay!PayTypeOK /\ \A l \in Wages.loans \ disturbed : ScheduleKept(l)

LEMMA PayBegins == ASSUME Pay!PayInit PROVE PayInv
<1>1. Pay!PayTypeOK
  <2>1. Wages.lastMonth + 1 \in Nat /\ 1 \in 1..(Wages.lastMonth + 1)
    BY WagesConstants
  <2> QED BY <2>1 DEF Pay!PayInit, Pay!PayTypeOK
<1>2. ASSUME NEW l \in Wages.loans PROVE ScheduleKept(l)
  <2>1. month = 1 /\ taken[l] = 0
    BY DEF Pay!PayInit
  <2>2. Pay!lent(l) \in Nat /\ Wages.terms[l].opening \in Nat
    BY <1>1, LoanNumbers
  <2>3. Pay!instalmentsBefore(l, 1) = 0
    BY LoanTerms DEF Pay!instalmentsBefore
  <2>4. Pay!openingOf(l, 1) = Pay!AtLeast0(Pay!lent(l) - Wages.terms[l].opening)
    <3>1. 0 * Wages.terms[l].instalment = 0
      BY LoanTerms
    <3>2. Pay!openingOf(l, 1) = Pay!lent(l) - Pay!Lesser(Pay!lent(l), Wages.terms[l].opening + 0)
      BY <2>3, <3>1 DEF Pay!openingOf
    <3> QED BY <2>2, <3>2 DEF Pay!Lesser, Pay!AtLeast0
  <2> QED BY <2>1, <2>2, <2>4 DEF ScheduleKept, Pay!AtLeast0
<1> QED BY <1>1, <1>2 DEF PayInv

\* A month that is paid moves the schedule by what the payslip took.
LEMMA PaidKeeps == ASSUME PayInv, NEW p \in 0..Wages.calendar, Pay!Paid(p) PROVE PayInv'
<1> DEFINE short == Pay!Payslip(month, p).short
<1>0. Pay!PayTypeOK /\ month \in Nat
  BY DEF PayInv, Pay!PayTypeOK
<1>1. /\ month <= Wages.lastMonth /\ month' = month + 1 /\ UNCHANGED <<status, skips>>
      /\ taken' = [l \in Wages.loans |-> taken[l] + IF short = 0 THEN Pay!dueOf(l, month) ELSE 0]
      /\ disturbed' = disturbed \cup
           {l \in Wages.loans : (month >= Wages.terms[l].start /\ Pay!openingOf(l, month) > 0 /\ month \notin skips[l])
                                  /\ (short > 0 \/ Pay!NotDue(l, month))}
  BY DEF Pay!Paid
<1>2. Pay!PayTypeOK'
  <2>1. month' \in 1..(Wages.lastMonth + 1)
    BY <1>0, <1>1, WagesConstants
  <2>2. taken' \in [Wages.loans -> Nat]
    <3>1. ASSUME NEW l \in Wages.loans PROVE (taken[l] + IF short = 0 THEN Pay!dueOf(l, month) ELSE 0) \in Nat
      <4>1. taken[l] \in Nat /\ Pay!dueOf(l, month) \in Nat
        BY <1>0, LoanNumbers DEF Pay!PayTypeOK
      <4> HIDE DEF short
      <4> QED BY <4>1
    <3> HIDE DEF short
    <3> QED BY <1>1, <3>1
  <2>3. disturbed' \subseteq Wages.loans
    BY <1>0, <1>1 DEF Pay!PayTypeOK
  <2> HIDE DEF short
  <2> QED BY <1>0, <1>1, <2>1, <2>2, <2>3 DEF Pay!PayTypeOK, Pay!MonthNos
<1>3. short \in Nat
  <2>1. /\ Pay!recoveryFor(month) \in Nat
    BY <1>0, LoanNumbers, SumIsNatural
  <2> DEFINE gross == Pay!grossOf
             earned == IF gross > 0 THEN Pay!earnedOf(p) ELSE 0
             pt == Pay!ptForMonth(month, earned)
             tds == IF earned > 0 THEN Wages.tds ELSE 0
             room == earned - pt - tds
  <2>2. earned \in Nat
    BY EarningsGrow
  <2>3. pt \in Nat /\ tds \in Nat
    BY <2>2, TaxIsNumber, WagesConstants
  <2>4. room \in Int
    BY <2>2, <2>3
  <2>5. short = Pay!recoveryFor(month) - Pay!Lesser(Pay!recoveryFor(month), Pay!AtLeast0(room))
    BY DEF Pay!Payslip
  <2> HIDE DEF room, short
  <2> QED BY <2>1, <2>4, <2>5 DEF Pay!Lesser, Pay!AtLeast0
<1>4. ASSUME NEW l \in Wages.loans \ disturbed' PROVE ScheduleKept(l)'
  <2> DEFINE lent == Pay!lent(l)
             opening == Wages.terms[l].opening
             inst == Wages.terms[l].instalment
             n == Pay!instalmentsBefore(l, month)
             open == Pay!openingOf(l, month)
             due == Pay!dueOf(l, month)
             next == Pay!openingOf(l, month + 1)
             t == taken[l]
             more == IF short = 0 THEN due ELSE 0
             x == n * inst
             one == IF month >= Wages.terms[l].start /\ month \notin skips[l] THEN inst ELSE 0
             left == lent - opening
  <2>1. open = Pay!AtLeast0(left - t) /\ t <= Pay!AtLeast0(left) /\ t \in Nat /\ l \in Wages.loans
    BY <1>0, <1>1 DEF PayInv, ScheduleKept, Pay!PayTypeOK
  <2>2. /\ lent \in Nat /\ opening \in Nat /\ inst \in Nat /\ x \in Nat /\ open \in Nat /\ due \in Nat /\ due <= open
        /\ open = Pay!AtLeast0(left - x)
    BY <1>0, LoanNumbers
  <2>3. next = Pay!AtLeast0(left - (x + one))
    <3>1. /\ Pay!instalmentsBefore(l, month + 1) = n + (IF month >= Wages.terms[l].start /\ month \notin skips[l] THEN 1 ELSE 0)
          /\ n \in Nat
      BY <1>0, InstalmentsGo
    <3>2. \A a \in Nat, b \in Nat : (a + 1) * b = a * b + b /\ (a + 0) * b = a * b + 0
      OBVIOUS
    <3>3. Pay!instalmentsBefore(l, month + 1) * inst = x + one
      <4> HIDE DEF n, inst
      <4> QED BY <2>2, <3>1, <3>2
    <3>4. next = Pay!AtLeast0(lent - opening - Pay!instalmentsBefore(l, month + 1) * inst)
      <4>1. month + 1 \in Nat BY <1>0
      <4> QED BY <1>0, <4>1, LoanNumbers
    <3> HIDE DEF x, one, lent, opening, next, inst
    <3> QED BY <3>3, <3>4
  <2>4. /\ ~(month >= Wages.terms[l].start) \/ month \in skips[l] \/ open = 0 => due = 0
        /\ month >= Wages.terms[l].start /\ month \notin skips[l] /\ open > 0
             => short = 0 /\ due = Pay!Lesser(inst, open)
    <3>1. ~(month >= Wages.terms[l].start) \/ month \in skips[l] \/ open = 0 => Pay!NotDue(l, month)
      BY <1>0, <2>2, LoanTerms DEF Pay!NotDue
    <3>2. month >= Wages.terms[l].start /\ month \notin skips[l] /\ open > 0 => ~(short > 0) /\ ~Pay!NotDue(l, month)
      BY <1>1
    <3> HIDE DEF short, open
    <3>3. due = IF Pay!NotDue(l, month) THEN 0 ELSE Pay!Lesser(inst, open)
      BY DEF Pay!dueOf, open
    <3> HIDE DEF due, inst
    <3> QED BY <1>3, <3>1, <3>2, <3>3
  <2> DEFINE turn == month >= Wages.terms[l].start /\ month \notin skips[l]
  <2>5. one = (IF turn THEN inst ELSE 0) /\ (~turn \/ open = 0 => due = 0)
        /\ (turn /\ open > 0 => short = 0 /\ due = Pay!Lesser(inst, open))
    BY <2>4
  <2>6. /\ Pay!openingOf(l, month)' = next /\ taken'[l] = t + more /\ Pay!lent(l)' = lent
    BY <1>1, <2>1 DEF Pay!openingOf, Pay!instalmentsBefore, Pay!lent
  <2> HIDE DEF lent, opening, inst, n, open, due, next, t, x, one, turn, short
  <2>7. left \in Int
    BY <2>2
  <2> HIDE DEF left
  <2>8. /\ next = Pay!AtLeast0(left - (t + more)) /\ t + more <= Pay!AtLeast0(left)
    <3>1. CASE turn /\ open > 0
      BY <1>3, <2>1, <2>2, <2>3, <2>5, <2>7, <3>1 DEF Pay!AtLeast0, Pay!Lesser
    <3>2. CASE ~turn
      BY <1>3, <2>1, <2>2, <2>3, <2>5, <2>7, <3>2 DEF Pay!AtLeast0
    <3>3. CASE open = 0
      BY <1>3, <2>1, <2>2, <2>3, <2>5, <2>7, <3>3 DEF Pay!AtLeast0
    <3> QED BY <2>2, <3>1, <3>2, <3>3
  <2> HIDE DEF more
  <2> QED BY <2>6, <2>8 DEF ScheduleKept, left, lent, opening
<1> HIDE DEF short
<1> QED BY <1>2, <1>4 DEF PayInv

\* A loan's status says nothing of what was paid.
LEMMA StatusKeeps ==
  ASSUME PayInv, NEW l \in Wages.loans, NEW s \in {"active", "paused", "closed"}, Pay!SetStatus(l, s)
  PROVE  PayInv'
<1>1. status' = [status EXCEPT ![l] = s] /\ UNCHANGED <<month, skips, taken, disturbed>>
  BY DEF Pay!SetStatus
<1>2. Pay!PayTypeOK'
  BY <1>1 DEF PayInv, Pay!PayTypeOK
<1>3. ASSUME NEW k \in Wages.loans \ disturbed PROVE ScheduleKept(k)'
  <2>1. ScheduleKept(k)
    BY DEF PayInv
  <2> QED BY <1>1, <2>1 DEF ScheduleKept, Pay!openingOf, Pay!instalmentsBefore, Pay!lent
<1> QED BY <1>1, <1>2, <1>3 DEF PayInv

\* A month to come that is skipped changes nothing of the schedule so far.
LEMMA SkipKeeps ==
  ASSUME PayInv, NEW l \in Wages.loans, NEW m \in Pay!MonthNos, Pay!SkipMonth(l, m)
  PROVE  PayInv'
<1>1. /\ skips' = [skips EXCEPT ![l] = @ \cup {m}] /\ UNCHANGED <<month, status, taken>>
      /\ disturbed' = IF m < month THEN disturbed \cup {l} ELSE disturbed
  BY DEF Pay!SkipMonth
<1>2. Pay!PayTypeOK'
  BY <1>1 DEF PayInv, Pay!PayTypeOK
<1>3. ASSUME NEW k \in Wages.loans \ disturbed' PROVE ScheduleKept(k)'
  <2>1. ScheduleKept(k) /\ month \in Nat /\ m \in Nat /\ k \in Wages.loans
    BY <1>1 DEF PayInv, Pay!PayTypeOK, Pay!MonthNos
  <2>2. {j \in skips[k] : Wages.terms[k].start <= j /\ j < month}' = {j \in skips[k] : Wages.terms[k].start <= j /\ j < month}
    <3>1. CASE k = l
      <4>1. ~(m < month) /\ skips'[k] = skips[k] \cup {m}
        BY <1>1, <1>3, <3>1 DEF PayInv, Pay!PayTypeOK
      <4> QED BY <1>1, <4>1
    <3>2. CASE k # l
      <4>1. skips'[k] = skips[k]
        BY <1>1, <3>2 DEF PayInv, Pay!PayTypeOK
      <4> QED BY <1>1, <4>1
    <3> QED BY <3>1, <3>2
  <2>3. Pay!instalmentsBefore(k, month)' = Pay!instalmentsBefore(k, month)
    BY <1>1, <2>2 DEF Pay!instalmentsBefore
  <2>4. Pay!openingOf(k, month)' = Pay!openingOf(k, month)
    BY <2>3 DEF Pay!openingOf, Pay!lent
  <2> QED BY <1>1, <2>1, <2>4 DEF ScheduleKept, Pay!lent
<1> QED BY <1>2, <1>3 DEF PayInv

LEMMA PayKeeps == ASSUME PayInv, Pay!PayNext PROVE PayInv'
BY PaidKeeps, StatusKeeps, SkipKeeps DEF Pay!PayNext

LEMMA PayIsRight ==
  ASSUME PayInv
  PROVE  Pay!PayTypeOK /\ Pay!ScheduleFollowsPayslipsUnlessDisturbed /\ Pay!NeverOverRecovered /\ Pay!SlipFoots
BY SlipAddsUp DEF PayInv, ScheduleKept, Pay!ScheduleFollowsPayslipsUnlessDisturbed, Pay!NeverOverRecovered

-----------------------------------------------------------------------------
MonthAndPayInv == (which = "month" => Month!MonthTypeOK) /\ (which = "pay" => PayInv)

LEMMA MonthAndPayBegin == ASSUME DaysInit PROVE MonthAndPayInv
BY MonthStarts, PayBegins DEF DaysInit, MonthAndPayInv

\* What a step does to the month and the pay, and that only the past's own days move its labels.
LEMMA MonthAndPayOnly ==
  ASSUME MonthAndPayInv,
         [DaysNext]_<<which, vars, timeVars, dayVars, trailVars, officeVars, monthVars, payVars, teamVars>>
  PROVE  MonthAndPayInv' /\ [which = "month" => Month!KeepsLabels]_<<which, monthVars>>
<1>1. which' = which BY DEF DaysNext
<1>2. which = "month" => Month!MonthNext \/ UNCHANGED monthVars BY DEF DaysNext
<1>3. which = "pay" => Pay!PayNext \/ UNCHANGED payVars BY DEF DaysNext
<1>4. ASSUME which = "month" PROVE Month!MonthTypeOK' /\ (Month!KeepsLabels \/ UNCHANGED monthVars)
  <2>1. Month!MonthTypeOK
    BY <1>4 DEF MonthAndPayInv
  <2>2. CASE UNCHANGED monthVars
    BY <2>1, <2>2 DEF monthVars, Month!MonthTypeOK
  <2>3. CASE Month!MonthNext
    BY <2>1, <2>3, MonthKeeps, LabelsKeep
  <2> QED BY <1>2, <1>4, <2>2, <2>3
<1>5. ASSUME which = "pay" PROVE PayInv'
  <2>1. PayInv
    BY <1>5 DEF MonthAndPayInv
  <2>2. CASE UNCHANGED payVars
    <3>1. UNCHANGED <<month, status, skips, taken, disturbed>>
      BY <2>2 DEF payVars
    <3>2. Pay!PayTypeOK'
      BY <2>1, <3>1 DEF PayInv, Pay!PayTypeOK
    <3>3. ASSUME NEW l \in Wages.loans \ disturbed PROVE ScheduleKept(l)'
      <4>1. ScheduleKept(l)
        BY <2>1, <3>3 DEF PayInv
      <4> QED BY <3>1, <4>1 DEF ScheduleKept, Pay!openingOf, Pay!instalmentsBefore, Pay!lent
    <3> QED BY <3>1, <3>2, <3>3 DEF PayInv
  <2>3. CASE Pay!PayNext
    BY <2>1, <2>3, PayKeeps
  <2> QED BY <1>3, <1>5, <2>2, <2>3
<1> QED BY <1>1, <1>4, <1>5 DEF MonthAndPayInv

\* For any calendar, person and records, the muster and the balance charge a leave day alike,
\* the balance is the ledger of credits and days taken, and a month pays for all days but those
\* absent by hand or after the first punch; for any salary, slab, loans and skipped months the
\* slip foots, and the schedules of the loans follow what the slips took.
THEOREM MonthAndPayKeepTheirWord == DaysSpec => []MonthAndPayHold
<1>1. MonthAndPayInv => MonthAndPayHold
  BY ChargesAgree, LedgerHolds, DaysArePaid, PayIsRight DEF MonthAndPayInv, MonthAndPayHold
<1> QED BY <1>1, MonthAndPayBegin, MonthAndPayOnly, PTL DEF DaysSpec

\* For any calendar, person and records, a day of the past keeps its label unless its record or
\* decision changes, or the person's first punch passes over it.
THEOREM PastKeepsItsWord == DaysSpec => PastKeepsItsLabels
BY MonthAndPayBegin, MonthAndPayOnly, PTL DEF DaysSpec, PastKeepsItsLabels

=============================================================================
