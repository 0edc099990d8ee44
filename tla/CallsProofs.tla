----------------------------- MODULE CallsProofs -----------------------------
(***************************************************************************)
(* What Calls promises, for any people, calls, handlers in flight and      *)
(* number of faults.                                                       *)
(*                                                                         *)
(* The handlers share a call through the database only, and none of their  *)
(* writes asks what the others have done.  The inductive invariant says    *)
(* what is known of a call whatever they do (Fresh, Logged, Watched), and  *)
(* what more is known as long as they have not overlapped on it and none   *)
(* has failed (Undisturbed): then the one handler that is busy with it is  *)
(* the only one to have written since it read.                             *)
(***************************************************************************)
EXTENDS Calls, TLAPS

\* Nothing is known, nor done, of a call that was not placed yet.
Fresh(c) ==
  active[c] = NoCall =>
    /\ logs[c] = <<>> /\ c \notin timer /\ trouble[c] = "none"
    /\ \A h \in Handlers : ~WorksOn(h, c)

\* One call's part of GoneIsLogged and of UnansweredIsWatched.
Logged(c)  == active[c].state = "removed" => logs[c] # <<>>
Watched(c) ==
  active[c].state = "ringing" /\ trouble[c] # "fault" =>
    c \in timer \/ \E h \in Handlers : WorksOn(h, c)

\* The call was rejected after it had been answered.
Declined(c) == \E i \in DOMAIN logs[c] : logs[c][i].status = "rejected" /\ logs[c][i].answered

\* What holds of a call while handlers keep out of each other's way: at most one is
\* busy with it, ...
Alone(c) == \A g, h \in Handlers : WorksOn(g, c) /\ WorksOn(h, c) => g = h

\* ... it has no row before one is busy removing it, and never more than one, ...
LoggedOnce(c) ==
  /\ Len(logs[c]) <= 1
  /\ IsLive(c) /\ (\A h \in Handlers : WorksOn(h, c) => handlers[h].pc # "remove") =>
       logs[c] = <<>>
  /\ \A h \in Handlers : WorksOn(h, c) /\ handlers[h].pc = "insert" => logs[c] = <<>>

\* ... it is answered only while it is there, and whoever removes an answered call
\* knows that it was answered.
KnowsAnswer(c) ==
  \A h \in Handlers : WorksOn(h, c) =>
    /\ handlers[h].pc = "answer" => active[c].state # "removed"
    /\ active[c].state = "accepted" /\ handlers[h].pc = "insert" =>
         /\ handlers[h].op # "missed"
         /\ handlers[h].op = "reject" =>
              handlers[h].log.status = "rejected" /\ handlers[h].log.answered
    /\ active[c].state = "accepted" /\ handlers[h].pc = "remove" =>
         /\ handlers[h].op # "missed"
         /\ handlers[h].op = "reject" => Declined(c)

Undisturbed(c) == trouble[c] = "none" => Alone(c) /\ LoggedOnce(c) /\ KnowsAnswer(c)

\* What is known of a call.
Known(c) == Fresh(c) /\ Logged(c) /\ Watched(c) /\ Undisturbed(c)

\* An initiate in flight is alone with its call id, and the call is of two people.
Placing(h) ==
  handlers[h].pc = "check" =>
    /\ active[handlers[h].call] = NoCall
    /\ handlers[h].user # handlers[h].peer
    /\ \A g \in Handlers : g # h /\ handlers[g] # Idle => handlers[g].call # handlers[h].call

\* Whoever is about to remove a call has logged it, and whoever hangs up after it has
\* removed it.
Written(h) ==
  /\ handlers[h].pc = "remove" => logs[handlers[h].call] # <<>>
  /\ handlers[h].pc = "hangup" => active[handlers[h].call].state \in {"removed", "expired"}

\* Whoever presence shows in a call has one that is unfinished, or is being hung up on.
HungUpOn(c) == \E h \in Handlers : handlers[h].pc = "hangup" /\ handlers[h].call = c

HasCause(u) ==
  \E c \in Calls : active[c] # NoCall /\ u \in Parties(c) /\ (Unfinished(c) \/ HungUpOn(c))

\* The inductive invariant.
IInv ==
  /\ TypeOK
  /\ \A c \in Calls : Known(c)
  /\ \A h \in Handlers : Placing(h) /\ Written(h)
  /\ \A u \in inCall : HasCause(u)

-----------------------------------------------------------------------------
(* What types say. *)

\* A handler's operation tells what it carries.
LEMMA Kinds ==
  ASSUME TypeOK, NEW h \in Handlers
  PROVE  /\ handlers[h].pc \in {"idle", "check", "ring", "answer", "insert", "remove", "hangup"}
         /\ handlers[h] = Idle <=> handlers[h].pc = "idle"
         /\ handlers[h] # Idle => handlers[h].call \in Calls
         /\ handlers[h].pc = "check" => handlers[h] \in Initiating
         /\ handlers[h].pc = "insert" =>
              handlers[h].op \in {"reject", "end", "missed"} /\ handlers[h].log \in Log
         /\ handlers[h].pc = "remove" => handlers[h].op \in {"reject", "end", "missed"}
BY DEF TypeOK, Idle, Initiating, Ringing, Answering, Finalizing, HangingUp

\* A call that was placed has two parties and one of four states.
LEMMA States ==
  ASSUME TypeOK, NEW c \in Calls
  PROVE  /\ active[c] = NoCall <=> active[c].state = "none"
         /\ active[c] # NoCall => active[c] \in Call
         /\ active[c].state \in {"none", "ringing", "accepted", "removed", "expired"}
         /\ logs[c] \in Seq(Log)
         /\ trouble[c] \in {"none", "race", "fault"}
BY DEF TypeOK, NoCall, Call, Live

\* A handler that moves on moves alone.
LEMMA Moved ==
  ASSUME TypeOK, NEW h \in Handlers, NEW next, Goto(h, next)
  PROVE  /\ handlers'[h] = next
         /\ \A g \in Handlers \ {h} : handlers'[g] = handlers[g]
BY DEF TypeOK, Goto

-----------------------------------------------------------------------------
(* What a step leaves alone. *)

\* Handlers of S, at most, move, and they are about call c.
About(S, c) ==
  /\ \A h \in S : handlers[h] = Idle \/ handlers[h].call = c
  /\ \A h \in S : handlers'[h] = Idle \/ handlers'[h].call = c
  /\ \A g \in Handlers \ S : handlers'[g] = handlers[g]
  /\ \A d \in Calls \ {c} :
       /\ active'[d] = active[d] /\ logs'[d] = logs[d] /\ trouble'[d] = trouble[d]
       /\ d \in timer' <=> d \in timer

\* Of the call itself, what is over stays over, and the history only grows.
OnlyForward(c) ==
  /\ active[c].state \in {"removed", "expired"} => active'[c] = active[c]
  /\ logs[c] # <<>> => logs'[c] # <<>>

\* What is known of the other calls stays so.
LEMMA Elsewhere ==
  ASSUME IInv, NEW c \in Calls, NEW S \in SUBSET Handlers, About(S, c),
         NEW d \in Calls, d # c
  PROVE  Known(d)'
<1>1. \A g \in Handlers : WorksOn(g, d)' <=> WorksOn(g, d)
  BY DEF About, WorksOn, Idle
<1>2. \A g \in Handlers : WorksOn(g, d) => handlers'[g] = handlers[g]
  BY DEF About, WorksOn, Idle
<1>3. /\ active'[d] = active[d] /\ logs'[d] = logs[d] /\ trouble'[d] = trouble[d]
      /\ d \in timer' <=> d \in timer
  BY DEF About
<1>4. Known(d)
  BY DEF IInv
<1>5. Fresh(d)' /\ Logged(d)' /\ Watched(d)'
  BY <1>1, <1>3, <1>4 DEF Known, Fresh, Logged, Watched
<1>6. Undisturbed(d)'
  <2> SUFFICES ASSUME trouble[d] = "none" PROVE Alone(d)' /\ LoggedOnce(d)' /\ KnowsAnswer(d)'
    BY <1>3 DEF Undisturbed
  <2>1. Alone(d) /\ LoggedOnce(d) /\ KnowsAnswer(d)
    BY <1>4 DEF Known, Undisturbed
  <2>2. Alone(d)'
    BY <2>1, <1>1 DEF Alone
  <2>3. LoggedOnce(d)'
    BY <2>1, <1>1, <1>2, <1>3 DEF LoggedOnce, IsLive
  <2>4. Declined(d)' <=> Declined(d)
    BY <1>3 DEF Declined
  <2>5. KnowsAnswer(d)'
    BY <2>1, <2>4, <1>1, <1>2, <1>3 DEF KnowsAnswer
  <2> QED BY <2>2, <2>3, <2>5
<1> QED BY <1>5, <1>6 DEF Known

\* The cause of an in-call flag that lies with another call stays.
LEMMA CauseElsewhere ==
  ASSUME IInv, NEW c \in Calls, NEW S \in SUBSET Handlers, About(S, c),
         NEW d \in Calls, d # c, NEW u, active[d] # NoCall, u \in Parties(d),
         Unfinished(d) \/ HungUpOn(d)
  PROVE  HasCause(u)'
<1>1. active'[d] = active[d] /\ logs'[d] = logs[d] /\ trouble'[d] = trouble[d]
  BY DEF About
<1>2. Unfinished(d) => Unfinished(d)'
  BY <1>1 DEF Unfinished
<1>3. HungUpOn(d) => HungUpOn(d)'
  BY DEF HungUpOn, About, Idle
<1>4. active'[d] # NoCall /\ u \in Parties(d)'
  BY <1>1 DEF Parties
<1> QED BY <1>2, <1>3, <1>4 DEF HasCause

\* A step about call c keeps the invariant if it keeps what is known of c, of those
\* who move, and of those whom c is the cause of.
LEMMA Concluded ==
  ASSUME IInv, TypeOK', NEW c \in Calls, NEW S \in SUBSET Handlers, About(S, c),
         OnlyForward(c), Known(c)',
         \A h \in S : Placing(h)' /\ Written(h)',
         \A g \in Handlers \ S : handlers[g].pc = "check" =>
           handlers[g].call # c,
         \A u \in inCall' :
           /\ u \notin inCall => HasCause(u)'
           /\ active[c] # NoCall /\ u \in Parties(c) /\ (Unfinished(c) \/ HungUpOn(c)) =>
                HasCause(u)'
  PROVE  IInv'
<1>1. ASSUME NEW d \in Calls PROVE Known(d)'
  BY Elsewhere
<1>2. ASSUME NEW g \in Handlers \ S PROVE Placing(g)'
  <2> SUFFICES ASSUME handlers[g].pc = "check" PROVE Placing(g)'
    BY DEF Placing, About
  <2> DEFINE d == handlers[g].call
  <2>1. d \in Calls /\ d # c /\ handlers'[g] = handlers[g] /\ Placing(g)
    BY Kinds DEF IInv, About, Idle
  <2>2. active'[d] = active[d]
    BY <2>1 DEF About
  <2>3. \A k \in Handlers : k # g /\ handlers'[k] # Idle => handlers'[k].call # d
    BY <2>1 DEF About, Placing
  <2> QED BY <2>1, <2>2, <2>3 DEF Placing
<1>3. ASSUME NEW g \in Handlers \ S PROVE Written(g)'
  <2> SUFFICES ASSUME handlers[g].pc \in {"remove", "hangup"} PROVE Written(g)'
    BY DEF Written, About
  <2> DEFINE d == handlers[g].call
  <2>1. d \in Calls /\ handlers'[g] = handlers[g] /\ Written(g)
    BY Kinds DEF IInv, About, Idle
  <2>2. d # c => active'[d] = active[d] /\ logs'[d] = logs[d]
    BY <2>1 DEF About
  <2> QED BY <2>1, <2>2 DEF Written, OnlyForward
<1>4. ASSUME NEW u \in inCall' PROVE HasCause(u)'
  <2>1. CASE u \in inCall
    <3>1. PICK d \in Calls : active[d] # NoCall /\ u \in Parties(d) /\ (Unfinished(d) \/ HungUpOn(d))
      BY <2>1 DEF IInv, HasCause
    <3> QED BY <3>1, <1>4, CauseElsewhere
  <2> QED BY <2>1, <1>4
<1> QED BY <1>1, <1>2, <1>3, <1>4 DEF IInv

\* In-call flags that a step only clears keep their causes if it forgets none.
LEMMA CausesStay ==
  ASSUME NEW c \in Calls, active[c] # NoCall => active'[c] # NoCall /\ Parties(c)' = Parties(c),
         Unfinished(c) => Unfinished(c)' \/ HungUpOn(c)',
         HungUpOn(c) => HungUpOn(c)' \/ Unfinished(c)',
         inCall' \subseteq inCall
  PROVE  \A u \in inCall' :
           /\ u \notin inCall => HasCause(u)'
           /\ active[c] # NoCall /\ u \in Parties(c) /\ (Unfinished(c) \/ HungUpOn(c)) =>
                HasCause(u)'
BY DEF HasCause

-----------------------------------------------------------------------------
(* Each operation, step by step. *)

\* Taking up a call: a handler that was idle is busy with it, and if another is
\* too the call is no longer undisturbed.
LEMMA Taken ==
  ASSUME IInv, NEW h \in Handlers, NEW c \in Calls, NEW next, Take(h, c, next),
         next.call = c, next.pc \in {"answer", "insert"}, active[c] # NoCall
  PROVE  /\ handlers[h] = Idle /\ handlers'[h] = next
         /\ \A g \in Handlers \ {h} : handlers'[g] = handlers[g]
         /\ \A d \in Calls \ {c} : trouble'[d] = trouble[d]
         /\ trouble' \in [Calls -> {"none", "race", "fault"}]
         /\ trouble'[c] = "none" => trouble[c] = "none" /\ \A g \in Handlers : ~WorksOn(g, c)
         /\ trouble[c] = "fault" <=> trouble'[c] = "fault"
         /\ trouble[c] # "none" => trouble'[c] # "none"
         /\ WorksOn(h, c)'
         /\ \A g \in Handlers : handlers[g].pc = "check" => handlers[g].call # c
         /\ HungUpOn(c) => HungUpOn(c)'
<1>1. /\ handlers[h] = Idle /\ handlers'[h] = next
      /\ \A g \in Handlers \ {h} : handlers'[g] = handlers[g]
  BY Moved DEF Take, IInv
<1>2. trouble \in [Calls -> {"none", "race", "fault"}]
  BY DEF IInv, TypeOK
<1>3. \A d \in Calls : trouble'[d] =
        IF d = c THEN IF trouble[c] = "none" /\ \E g \in Handlers : WorksOn(g, c)
                      THEN "race" ELSE trouble[c]
        ELSE trouble[d]
  BY <1>2 DEF Take
<1>4. trouble' \in [Calls -> {"none", "race", "fault"}]
  BY <1>2 DEF Take
<1>5. \A g \in Handlers : handlers[g].pc = "check" => handlers[g].call # c
  BY DEF IInv, Placing
<1>6. WorksOn(h, c)'
  BY <1>1 DEF WorksOn
<1>7. HungUpOn(c) => HungUpOn(c)'
  BY <1>1 DEF HungUpOn, Idle
<1> QED BY <1>1, <1>3, <1>4, <1>5, <1>6, <1>7

\* accept(), up to its update.
LEMMA AcceptSafe ==
  ASSUME IInv, NEW h \in Handlers, NEW c \in Calls, NEW u \in Users, ReadForAccept(h, c, u)
  PROVE  IInv'
<1> DEFINE next == [pc |-> "answer", call |-> c]
<1>1. /\ active[c].state = "ringing" /\ active[c] # NoCall
      /\ active' = active /\ logs' = logs /\ inCall' = inCall /\ faults' = faults
      /\ timer' = timer \ {c}
  BY DEF ReadForAccept, NoCall
<1>2. Take(h, c, next) /\ next.call = c /\ next.pc \in {"answer", "insert"}
  BY DEF ReadForAccept
<1>3. next \in Answering
  BY DEF Answering
<1> HIDE DEF next
<1>4. /\ handlers[h] = Idle /\ handlers'[h] = next
      /\ \A g \in Handlers \ {h} : handlers'[g] = handlers[g]
      /\ \A d \in Calls \ {c} : trouble'[d] = trouble[d]
      /\ trouble' \in [Calls -> {"none", "race", "fault"}]
      /\ trouble'[c] = "none" => trouble[c] = "none" /\ \A g \in Handlers : ~WorksOn(g, c)
      /\ trouble[c] = "fault" <=> trouble'[c] = "fault"
      /\ trouble[c] # "none" => trouble'[c] # "none"
      /\ WorksOn(h, c)'
      /\ \A g \in Handlers : handlers[g].pc = "check" => handlers[g].call # c
      /\ HungUpOn(c) => HungUpOn(c)'
  BY <1>1, <1>2, Taken
<1>5. TypeOK'
  BY <1>1, <1>2, <1>3, <1>4 DEF IInv, TypeOK, Take, Goto
<1>6. About({h}, c) /\ OnlyForward(c)
  BY <1>1, <1>2, <1>4 DEF About, OnlyForward
<1>7. Known(c)'
  <2>1. Fresh(c)' /\ Logged(c)' /\ Watched(c)'
    BY <1>1, <1>4 DEF Fresh, Logged, Watched
  <2>2. ASSUME trouble'[c] = "none" PROVE Alone(c)' /\ LoggedOnce(c)' /\ KnowsAnswer(c)'
    <3>1. /\ \A g \in Handlers : WorksOn(g, c)' => g = h
          /\ LoggedOnce(c) /\ \A g \in Handlers : ~WorksOn(g, c)
      BY <2>2, <1>4 DEF IInv, Known, Undisturbed, WorksOn
    <3>2. LoggedOnce(c)'
      BY <3>1, <1>1, <1>2, <1>4 DEF LoggedOnce, IsLive, next
    <3> QED BY <3>1, <3>2, <1>1, <1>4 DEF Alone, KnowsAnswer, next
  <2> QED BY <2>1, <2>2 DEF Known, Undisturbed
<1>8. Placing(h)' /\ Written(h)'
  BY <1>2, <1>4 DEF Placing, Written, next
<1>9. Unfinished(c) => Unfinished(c)'
  BY <1>1, <1>4 DEF Unfinished
<1>10. \A v \in inCall' :
         /\ v \notin inCall => HasCause(v)'
         /\ active[c] # NoCall /\ v \in Parties(c) /\ (Unfinished(c) \/ HungUpOn(c)) => HasCause(v)'
  BY <1>1, <1>4, <1>9, CausesStay DEF Parties
<1> QED BY <1>4, <1>5, <1>6, <1>7, <1>8, <1>10, Concluded

\* reject(), end() and markMissed(), up to their insert.
LEMMA FinishSafe ==
  ASSUME IInv, NEW h \in Handlers, NEW c \in Calls,
         NEW op \in {"reject", "end", "missed"}, NEW status \in {"completed", "missed", "rejected"},
         Finish(h, c, op, status), IsLive(c),
         op = "missed" => active[c].state = "ringing",
         op = "reject" => status = "rejected",
         timer' = timer \ {c}, UNCHANGED <<active, logs, inCall, faults>>
  PROVE  IInv'
<1> DEFINE next == [pc |-> "insert", op |-> op, call |-> c,
                    log |-> [status |-> status, answered |-> active[c].state = "accepted"]]
<1>1. /\ active[c] # NoCall
      /\ active' = active /\ logs' = logs /\ inCall' = inCall /\ faults' = faults
  BY DEF IsLive, Live, NoCall
<1>2. Take(h, c, next) /\ next.call = c /\ next.pc = "insert" /\ next.op = op
      /\ next.log.status = status
  BY DEF Finish
<1>3. next \in Finalizing /\ next.log.answered = (active[c].state = "accepted")
  BY DEF Finalizing, Log
<1> HIDE DEF next
<1>4. /\ handlers[h] = Idle /\ handlers'[h] = next
      /\ \A g \in Handlers \ {h} : handlers'[g] = handlers[g]
      /\ \A d \in Calls \ {c} : trouble'[d] = trouble[d]
      /\ trouble' \in [Calls -> {"none", "race", "fault"}]
      /\ trouble'[c] = "none" => trouble[c] = "none" /\ \A g \in Handlers : ~WorksOn(g, c)
      /\ trouble[c] = "fault" <=> trouble'[c] = "fault"
      /\ trouble[c] # "none" => trouble'[c] # "none"
      /\ WorksOn(h, c)'
      /\ \A g \in Handlers : handlers[g].pc = "check" => handlers[g].call # c
      /\ HungUpOn(c) => HungUpOn(c)'
  BY <1>1, <1>2, Taken
<1>5. TypeOK'
  BY <1>1, <1>2, <1>3, <1>4 DEF IInv, TypeOK, Take, Goto
<1>6. About({h}, c) /\ OnlyForward(c)
  BY <1>1, <1>2, <1>4 DEF About, OnlyForward
<1>7. Known(c)'
  <2>1. Fresh(c)' /\ Logged(c)' /\ Watched(c)'
    BY <1>1, <1>4 DEF Fresh, Logged, Watched, IInv, Known
  <2>2. ASSUME trouble'[c] = "none" PROVE Alone(c)' /\ LoggedOnce(c)' /\ KnowsAnswer(c)'
    <3>1. /\ \A g \in Handlers : WorksOn(g, c)' => g = h
          /\ LoggedOnce(c) /\ \A g \in Handlers : ~WorksOn(g, c)
      BY <2>2, <1>4 DEF IInv, Known, Undisturbed, WorksOn
    <3>2. logs[c] = <<>>
      BY <3>1 DEF LoggedOnce
    <3>3. LoggedOnce(c)'
      BY <3>1, <3>2, <1>1 DEF LoggedOnce
    <3>4. KnowsAnswer(c)'
      BY <3>1, <1>1, <1>2, <1>3, <1>4 DEF KnowsAnswer
    <3> QED BY <3>1, <3>3, <3>4 DEF Alone
  <2> QED BY <2>1, <2>2 DEF Known, Undisturbed
<1>8. Placing(h)' /\ Written(h)'
  BY <1>2, <1>4 DEF Placing, Written
<1>9. Unfinished(c) => Unfinished(c)'
  BY <1>1, <1>4 DEF Unfinished
<1>10. \A v \in inCall' :
         /\ v \notin inCall => HasCause(v)'
         /\ active[c] # NoCall /\ v \in Parties(c) /\ (Unfinished(c) \/ HungUpOn(c)) => HasCause(v)'
  BY <1>1, <1>4, <1>9, CausesStay DEF Parties
<1> QED BY <1>4, <1>5, <1>6, <1>7, <1>8, <1>10, Concluded

\* initiate(), up to its reads.
LEMMA InitiateSafe ==
  ASSUME IInv, NEW h \in Handlers, NEW c \in Calls, NEW u \in Users, NEW v \in Users,
         Initiate(h, c, u, v)
  PROVE  IInv'
<1> DEFINE next == [pc |-> "check", call |-> c, user |-> u, peer |-> v, free |-> {}]
<1>1. /\ handlers[h] = Idle /\ active[c] = NoCall /\ u # v
      /\ \A g \in Handlers : handlers[g] # Idle => handlers[g].call # c
      /\ UNCHANGED <<active, logs, timer, inCall, trouble, faults>>
      /\ Goto(h, next)
  BY DEF Initiate
<1>2. next \in Initiating /\ next.pc = "check" /\ next.call = c /\ next.user = u /\ next.peer = v
  BY DEF Initiating
<1> HIDE DEF next
<1>3. handlers'[h] = next /\ \A g \in Handlers \ {h} : handlers'[g] = handlers[g]
  BY <1>1, Moved DEF IInv
<1>4. TypeOK'
  BY <1>1, <1>2 DEF IInv, TypeOK, Goto
<1>5. About({h}, c) /\ OnlyForward(c)
  BY <1>1, <1>2, <1>3 DEF About, OnlyForward
<1>6. \A g \in Handlers : WorksOn(g, c)' <=> WorksOn(g, c)
  BY <1>1, <1>2, <1>3 DEF WorksOn, Idle
<1>7. Known(c)'
  <2>1. Fresh(c) /\ Undisturbed(c) /\ \A g \in Handlers : ~WorksOn(g, c)
    BY <1>1 DEF IInv, Known, Fresh
  <2>2. Fresh(c)' /\ Logged(c)' /\ Watched(c)'
    BY <2>1, <1>1, <1>6 DEF Fresh, Logged, Watched, NoCall
  <2>3. Undisturbed(c)'
    BY <2>1, <1>1, <1>6 DEF Undisturbed, Alone, LoggedOnce, KnowsAnswer, Fresh
  <2> QED BY <2>2, <2>3 DEF Known
<1>8. Placing(h)' /\ Written(h)'
  BY <1>1, <1>2, <1>3 DEF Placing, Written
<1>9. \A w \in inCall' :
        /\ w \notin inCall => HasCause(w)'
        /\ active[c] # NoCall /\ w \in Parties(c) /\ (Unfinished(c) \/ HungUpOn(c)) => HasCause(w)'
  BY <1>1
<1>10. \A g \in Handlers \ {h} : handlers[g].pc = "check" => handlers[g].call # c
  BY <1>1 DEF Idle
<1> QED BY <1>4, <1>5, <1>7, <1>8, <1>9, <1>10, Concluded

\* Its two reads.
LEMMA CheckSafe ==
  ASSUME IInv, NEW h \in Handlers, NEW u \in Users, CheckBusy(h, u)
  PROVE  IInv'
<1> DEFINE w == handlers[h]
           next == IF ActiveForUser(u) THEN Idle ELSE [w EXCEPT !.free = @ \cup {u}]
<1>1. /\ w.pc = "check" /\ Goto(h, next)
      /\ UNCHANGED <<active, logs, timer, inCall, trouble, faults>>
  BY DEF CheckBusy
<1>0. PICK c \in Calls : c = handlers[h].call
  BY <1>1, Kinds DEF IInv, Idle
<1>2. w \in Initiating /\ c = w.call /\ w # Idle
  BY <1>0, <1>1, Kinds DEF IInv, Idle
<1>3. /\ next \in {Idle} \cup Initiating
      /\ next # Idle => next.pc = "check" /\ next.call = c /\ next.user = w.user /\ next.peer = w.peer
  BY <1>2 DEF Initiating
<1>4. active[c] = NoCall /\ Placing(h)
  BY <1>0, <1>1 DEF IInv, Placing
<1> HIDE DEF next
<1>5. handlers'[h] = next /\ \A g \in Handlers \ {h} : handlers'[g] = handlers[g]
  BY <1>1, Moved DEF IInv
<1>6. TypeOK'
  BY <1>1, <1>3 DEF IInv, TypeOK, Goto
<1>7. About({h}, c) /\ OnlyForward(c)
  BY <1>1, <1>2, <1>3, <1>5 DEF About, OnlyForward
<1>8. \A g \in Handlers : WorksOn(g, c)' <=> WorksOn(g, c)
  BY <1>1, <1>3, <1>5 DEF WorksOn, Idle
<1>9. Known(c)'
  <2>1. Fresh(c) /\ Undisturbed(c) /\ \A g \in Handlers : ~WorksOn(g, c)
    BY <1>2, <1>4 DEF IInv, Known, Fresh
  <2>2. Fresh(c)' /\ Logged(c)' /\ Watched(c)'
    BY <2>1, <1>1, <1>4, <1>8 DEF Fresh, Logged, Watched, NoCall
  <2>3. Undisturbed(c)'
    BY <2>1, <1>1, <1>4, <1>8 DEF Undisturbed, Alone, LoggedOnce, KnowsAnswer, Fresh
  <2> QED BY <2>2, <2>3 DEF Known
<1>10. \A g \in Handlers \ {h} : handlers[g].pc = "check" => handlers[g].call # c
  BY <1>2 DEF IInv, Placing
<1>11. Placing(h)' /\ Written(h)'
  <2>1. \A g \in Handlers : g # h /\ handlers[g] # Idle => handlers[g].call # c
    BY <1>1, <1>2, <1>4 DEF Placing
  <2>2. next = Idle => Placing(h)' /\ Written(h)'
    BY <1>5 DEF Placing, Written, Idle
  <2>3. next # Idle => Placing(h)' /\ Written(h)'
    BY <2>1, <1>1, <1>3, <1>4, <1>5 DEF Placing, Written
  <2> QED BY <2>2, <2>3
<1>12. \A v \in inCall' :
         /\ v \notin inCall => HasCause(v)'
         /\ active[c] # NoCall /\ v \in Parties(c) /\ (Unfinished(c) \/ HungUpOn(c)) => HasCause(v)'
  BY <1>1, <1>4
<1> QED BY <1>2, <1>6, <1>7, <1>9, <1>10, <1>11, <1>12, Concluded

\* Both sides were free: the call is created.
LEMMA RingSafe ==
  ASSUME IInv, NEW h \in Handlers, Ring(h)
  PROVE  IInv'
<1> DEFINE w == handlers[h]
           next == [pc |-> "ring", call |-> w.call]
           made == [state |-> "ringing", caller |-> w.user, receiver |-> w.peer]
<1>1. /\ w.pc = "check" /\ Goto(h, next) /\ active' = [active EXCEPT ![w.call] = made]
      /\ UNCHANGED <<logs, timer, inCall, trouble, faults>>
  BY DEF Ring
<1>0. PICK c \in Calls : c = handlers[h].call
  BY <1>1, Kinds DEF IInv, Idle
<1>2. w \in Initiating /\ c = w.call /\ w # Idle
  BY <1>0, <1>1, Kinds DEF IInv, Idle
<1>3. active[c] = NoCall /\ Placing(h) /\ w.user # w.peer
  BY <1>0, <1>1 DEF IInv, Placing
<1>4. made \in Call /\ made # NoCall /\ made.state = "ringing"
  BY <1>2, <1>3 DEF Call, NoCall, Live, Initiating
<1>5. next \in Ringing /\ next.pc = "ring" /\ next.call = c
  BY <1>2 DEF Ringing
<1> HIDE DEF next, made
<1>6. handlers'[h] = next /\ \A g \in Handlers \ {h} : handlers'[g] = handlers[g]
  BY <1>1, Moved DEF IInv
<1>7. active'[c] = made /\ \A d \in Calls \ {c} : active'[d] = active[d]
  BY <1>1, <1>2 DEF IInv, TypeOK
<1>8. TypeOK'
  BY <1>1, <1>4, <1>5 DEF IInv, TypeOK, Goto
<1>9. About({h}, c) /\ OnlyForward(c)
  BY <1>1, <1>2, <1>3, <1>5, <1>6, <1>7 DEF About, OnlyForward, NoCall
<1>10. /\ Fresh(c) /\ \A g \in Handlers : WorksOn(g, c)' <=> g = h
  <2>1. Fresh(c) /\ \A g \in Handlers : ~WorksOn(g, c)
    BY <1>2, <1>3 DEF IInv, Known, Fresh
  <2> QED BY <2>1, <1>5, <1>6 DEF WorksOn
<1>11. Known(c)'
  <2>1. logs'[c] = <<>> /\ Len(<<>>) <= 1
    BY <1>1, <1>3, <1>10 DEF Fresh
  <2>2. Fresh(c)' /\ Logged(c)' /\ Watched(c)'
    BY <1>4, <1>7, <1>10 DEF Fresh, Logged, Watched
  <2>3. Undisturbed(c)'
    BY <2>1, <1>4, <1>5, <1>6, <1>7, <1>10 DEF Undisturbed, Alone, LoggedOnce, KnowsAnswer
  <2> QED BY <2>2, <2>3 DEF Known
<1>12. \A g \in Handlers \ {h} : handlers[g].pc = "check" => handlers[g].call # c
  BY <1>2 DEF IInv, Placing
<1>13. Placing(h)' /\ Written(h)'
  BY <1>5, <1>6 DEF Placing, Written
<1>14. \A v \in inCall' :
         /\ v \notin inCall => HasCause(v)'
         /\ active[c] # NoCall /\ v \in Parties(c) /\ (Unfinished(c) \/ HungUpOn(c)) => HasCause(v)'
  BY <1>1, <1>3
<1> QED BY <1>2, <1>8, <1>9, <1>11, <1>12, <1>13, <1>14, Concluded

\* The ring timer is armed after the pushes.
LEMMA ArmSafe ==
  ASSUME IInv, NEW h \in Handlers, ArmTimer(h)
  PROVE  IInv'
<1>1. /\ handlers[h].pc = "ring" /\ Goto(h, Idle) /\ timer' = timer \cup {handlers[h].call}
      /\ UNCHANGED <<active, logs, inCall, trouble, faults>>
  BY DEF ArmTimer
<1>2. PICK c \in Calls : c = handlers[h].call
  BY <1>1, Kinds DEF IInv, Idle
<1>3. handlers'[h] = Idle /\ \A g \in Handlers \ {h} : handlers'[g] = handlers[g]
  BY <1>1, Moved DEF IInv
<1>4. TypeOK'
  BY <1>1, <1>2 DEF IInv, TypeOK, Goto
<1>5. About({h}, c) /\ OnlyForward(c)
  BY <1>1, <1>2, <1>3 DEF About, OnlyForward
<1>6. WorksOn(h, c) /\ \A g \in Handlers : WorksOn(g, c)' <=> WorksOn(g, c) /\ g # h
  BY <1>1, <1>2, <1>3 DEF WorksOn, Idle
<1>7. Known(c)'
  <2>1. Known(c) /\ active[c] # NoCall
    BY <1>6 DEF IInv, Known, Fresh
  <2>2. Fresh(c)' /\ Logged(c)' /\ Watched(c)'
    BY <2>1, <1>1, <1>2 DEF Known, Fresh, Logged, Watched
  <2>3. ASSUME trouble[c] = "none" PROVE Alone(c)' /\ LoggedOnce(c)' /\ KnowsAnswer(c)'
    <3>1. Alone(c) /\ LoggedOnce(c) /\ \A g \in Handlers : ~WorksOn(g, c)'
      BY <2>1, <2>3, <1>6 DEF Known, Undisturbed, Alone
    <3>2. \A g \in Handlers : WorksOn(g, c) => handlers[g].pc # "remove"
      BY <3>1, <1>1, <1>6 DEF Alone
    <3>3. LoggedOnce(c)'
      BY <3>1, <3>2, <1>1 DEF LoggedOnce, IsLive
    <3> QED BY <3>1, <3>3 DEF Alone, KnowsAnswer
  <2> QED BY <2>2, <2>3, <1>1 DEF Known, Undisturbed
<1>8. Placing(h)' /\ Written(h)'
  BY <1>3 DEF Placing, Written, Idle
<1>9. \A g \in Handlers \ {h} : handlers[g].pc = "check" => handlers[g].call # c
  BY <1>1, <1>2 DEF IInv, Placing, Idle
<1>10. Unfinished(c) => Unfinished(c)'
  BY <1>1 DEF Unfinished
<1>11. HungUpOn(c) => HungUpOn(c)'
  BY <1>1, <1>3 DEF HungUpOn
<1>12. \A v \in inCall' :
         /\ v \notin inCall => HasCause(v)'
         /\ active[c] # NoCall /\ v \in Parties(c) /\ (Unfinished(c) \/ HungUpOn(c)) => HasCause(v)'
  BY <1>1, <1>10, <1>11, CausesStay DEF Parties
<1> QED BY <1>4, <1>5, <1>7, <1>8, <1>9, <1>12, Concluded

\* accept()'s update: a call that is still there is answered, and both parties are
\* shown in it whether it is or not.
LEMMA AnswerSafe ==
  ASSUME IInv, NEW h \in Handlers, Answer(h)
  PROVE  IInv'
<1>1. handlers[h].pc = "answer" /\ Goto(h, Idle) /\ UNCHANGED <<logs, timer, trouble, faults>>
  BY DEF Answer
<1>2. PICK c \in Calls : c = handlers[h].call
  BY <1>1, Kinds DEF IInv, Idle
<1>3. handlers'[h] = Idle /\ \A g \in Handlers \ {h} : handlers'[g] = handlers[g]
  BY <1>1, Moved DEF IInv
<1>4. /\ active' = IF IsLive(c) THEN [active EXCEPT ![c].state = "accepted"] ELSE active
      /\ inCall' = inCall \cup Parties(c)
  BY <1>2 DEF Answer
<1>5. WorksOn(h, c) /\ \A g \in Handlers : WorksOn(g, c)' <=> WorksOn(g, c) /\ g # h
  BY <1>1, <1>2, <1>3 DEF WorksOn, Idle
<1>6. Known(c) /\ active[c] # NoCall /\ active[c] \in Call
  BY <1>5, States DEF IInv, Known, Fresh
<1>7. /\ \A d \in Calls \ {c} : active'[d] = active[d]
      /\ active'[c] \in Call /\ active'[c] # NoCall
      /\ active'[c].caller = active[c].caller /\ active'[c].receiver = active[c].receiver
      /\ active'[c].state = IF IsLive(c) THEN "accepted" ELSE active[c].state
      /\ ~IsLive(c) => active'[c] = active[c]
  BY <1>4, <1>6 DEF IInv, TypeOK, Call, IsLive, Live, NoCall
<1>8. TypeOK'
  <2>1. active' \in [Calls -> {NoCall} \cup Call]
    BY <1>4, <1>7 DEF IInv, TypeOK
  <2>2. Parties(c) \subseteq Users
    BY <1>6 DEF Parties, Call
  <2> QED BY <2>1, <2>2, <1>1, <1>4 DEF IInv, TypeOK, Goto
<1>9. About({h}, c) /\ OnlyForward(c)
  BY <1>1, <1>2, <1>3, <1>7 DEF About, OnlyForward, IsLive, Live
<1>10. Known(c)'
  <2>1. Fresh(c)' /\ Logged(c)' /\ Watched(c)'
    BY <1>1, <1>6, <1>7 DEF Known, Fresh, Logged, Watched, IsLive, Live
  <2>2. ASSUME trouble[c] = "none" PROVE Alone(c)' /\ LoggedOnce(c)' /\ KnowsAnswer(c)'
    <3>1. Alone(c) /\ LoggedOnce(c) /\ \A g \in Handlers : ~WorksOn(g, c)'
      BY <2>2, <1>5, <1>6 DEF Known, Undisturbed, Alone
    <3>2. \A g \in Handlers : WorksOn(g, c) => handlers[g].pc # "remove"
      BY <3>1, <1>1, <1>5 DEF Alone
    <3>3. LoggedOnce(c)'
      BY <3>1, <3>2, <1>1, <1>7 DEF LoggedOnce, IsLive
    <3> QED BY <3>1, <3>3 DEF Alone, KnowsAnswer
  <2> QED BY <2>1, <2>2, <1>1 DEF Known, Undisturbed
<1>11. Placing(h)' /\ Written(h)'
  BY <1>3 DEF Placing, Written, Idle
<1>12. \A g \in Handlers \ {h} : handlers[g].pc = "check" => handlers[g].call # c
  BY <1>1, <1>2 DEF IInv, Placing, Idle
<1>13. Unfinished(c)'
  <2>1. CASE IsLive(c)
    BY <2>1, <1>7 DEF Unfinished
  <2>2. CASE ~IsLive(c) /\ trouble[c] = "none"
    <3>1. active[c].state # "removed"
      BY <2>2, <1>1, <1>5, <1>6 DEF Known, Undisturbed, KnowsAnswer
    <3>2. active[c].state = "expired"
      BY <2>2, <3>1, <1>6 DEF Call, IsLive
    <3> QED BY <3>2, <2>2, <1>7 DEF Unfinished
  <2>3. CASE trouble[c] # "none"
    BY <2>3, <1>1 DEF Unfinished
  <2> QED BY <2>1, <2>2, <2>3
<1>14. \A v \in Parties(c) : HasCause(v)'
  BY <1>7, <1>13 DEF HasCause, Parties
<1> QED BY <1>4, <1>8, <1>9, <1>10, <1>11, <1>12, <1>14, Concluded

\* The history row goes in.
LEMMA InsertSafe ==
  ASSUME IInv, NEW h \in Handlers, InsertLog(h)
  PROVE  IInv'
<1> DEFINE w == handlers[h]
           next == [pc |-> "remove", op |-> w.op, call |-> w.call]
<1>1. w.pc = "insert" /\ Goto(h, next) /\ UNCHANGED <<active, timer, inCall, trouble, faults>>
  BY DEF InsertLog
<1>2. PICK c \in Calls : c = w.call
  BY <1>1, Kinds DEF IInv, Idle
<1>3. w.op \in {"reject", "end", "missed"} /\ w.log \in Log
  BY <1>1, Kinds DEF IInv
<1>4. next \in Finalizing /\ next.pc = "remove" /\ next.call = c /\ next.op = w.op
  BY <1>2, <1>3 DEF Finalizing
<1> HIDE DEF next
<1>5. handlers'[h] = next /\ \A g \in Handlers \ {h} : handlers'[g] = handlers[g]
  BY <1>1, Moved DEF IInv
<1>6. logs' = [logs EXCEPT ![c] = Append(logs[c], w.log)]
  BY <1>2 DEF InsertLog
<1>7. /\ logs[c] \in Seq(Log) /\ logs'[c] = Append(logs[c], w.log)
      /\ \A d \in Calls \ {c} : logs'[d] = logs[d]
  BY <1>6 DEF IInv, TypeOK
<1>8. /\ logs'[c] \in Seq(Log) /\ logs'[c] # <<>> /\ Len(logs'[c]) = Len(logs[c]) + 1
      /\ \A i \in DOMAIN logs[c] : i \in DOMAIN logs'[c] /\ logs'[c][i] = logs[c][i]
      /\ Len(logs'[c]) \in DOMAIN logs'[c] /\ logs'[c][Len(logs'[c])] = w.log
  BY <1>3, <1>7
<1>9. TypeOK'
  <2>1. logs' \in [Calls -> Seq(Log)]
    BY <1>6, <1>7, <1>8 DEF IInv, TypeOK
  <2> QED BY <2>1, <1>1, <1>4 DEF IInv, TypeOK, Goto
<1>10. About({h}, c) /\ OnlyForward(c)
  BY <1>1, <1>2, <1>4, <1>5, <1>7, <1>8 DEF About, OnlyForward
<1>11. WorksOn(h, c) /\ \A g \in Handlers : WorksOn(g, c)' <=> WorksOn(g, c)
  BY <1>1, <1>2, <1>4, <1>5 DEF WorksOn
<1>12. Known(c) /\ active[c] # NoCall
  BY <1>11 DEF IInv, Known, Fresh
<1>13. Known(c)'
  <2>1. Fresh(c)' /\ Logged(c)' /\ Watched(c)'
    BY <1>1, <1>8, <1>11, <1>12 DEF Known, Fresh, Logged, Watched
  <2>2. ASSUME trouble[c] = "none" PROVE Alone(c)' /\ LoggedOnce(c)' /\ KnowsAnswer(c)'
    <3>1. /\ Alone(c) /\ LoggedOnce(c) /\ KnowsAnswer(c)
          /\ \A g \in Handlers : WorksOn(g, c)' <=> g = h
      BY <2>2, <1>11, <1>12 DEF Known, Undisturbed, Alone
    <3>2. logs[c] = <<>>
      BY <3>1, <1>1, <1>11 DEF LoggedOnce
    <3>3. Len(logs'[c]) <= 1
      BY <3>2, <1>8
    <3>4. LoggedOnce(c)'
      BY <3>1, <3>3, <1>4, <1>5, <1>11 DEF LoggedOnce
    <3>5. active[c].state = "accepted" => w.op # "missed" /\ (w.op = "reject" => Declined(c)')
      BY <3>1, <1>1, <1>8, <1>11 DEF KnowsAnswer, Declined
    <3>6. KnowsAnswer(c)'
      BY <3>1, <3>5, <1>1, <1>4, <1>5 DEF KnowsAnswer
    <3> QED BY <3>1, <3>4, <3>6 DEF Alone
  <2> QED BY <2>1, <2>2, <1>1 DEF Known, Undisturbed
<1>14. Placing(h)' /\ Written(h)'
  BY <1>4, <1>5, <1>8 DEF Placing, Written
<1>15. \A g \in Handlers \ {h} : handlers[g].pc = "check" => handlers[g].call # c
  BY <1>1, <1>2 DEF IInv, Placing, Idle
<1>16. Unfinished(c) => Unfinished(c)'
  BY <1>1, <1>8 DEF Unfinished
<1>17. HungUpOn(c) => HungUpOn(c)'
  BY <1>1, <1>5 DEF HungUpOn
<1>18. \A v \in inCall' :
         /\ v \notin inCall => HasCause(v)'
         /\ active[c] # NoCall /\ v \in Parties(c) /\ (Unfinished(c) \/ HungUpOn(c)) => HasCause(v)'
  BY <1>1, <1>16, <1>17, CausesStay DEF Parties
<1> QED BY <1>9, <1>10, <1>13, <1>14, <1>15, <1>18, Concluded

\* The active call is dropped; end() goes on to hang up.
LEMMA RemoveSafe ==
  ASSUME IInv, NEW h \in Handlers, Remove(h)
  PROVE  IInv'
<1> DEFINE w == handlers[h]
           next == IF w.op = "end" THEN [pc |-> "hangup", call |-> w.call] ELSE Idle
<1>1. w.pc = "remove" /\ Goto(h, next) /\ UNCHANGED <<logs, timer, inCall, trouble, faults>>
  BY DEF Remove
<1>2. PICK c \in Calls : c = w.call
  BY <1>1, Kinds DEF IInv, Idle
<1>3. w.op \in {"reject", "end", "missed"}
  BY <1>1, Kinds DEF IInv
<1>4. /\ next \in {Idle} \cup HangingUp
      /\ w.op = "end" => next.pc = "hangup" /\ next.call = c
      /\ w.op # "end" => next = Idle
  BY <1>2, <1>3 DEF HangingUp
<1> HIDE DEF next
<1>5. handlers'[h] = next /\ \A g \in Handlers \ {h} : handlers'[g] = handlers[g]
  BY <1>1, Moved DEF IInv
<1>6. active' = IF IsLive(c) THEN [active EXCEPT ![c].state = "removed"] ELSE active
  BY <1>2 DEF Remove
<1>7. WorksOn(h, c) /\ Known(c) /\ active[c] # NoCall /\ active[c] \in Call
  BY <1>1, <1>2, States DEF IInv, Known, Fresh, WorksOn
<1>8. /\ \A d \in Calls \ {c} : active'[d] = active[d]
      /\ active'[c] \in Call /\ active'[c] # NoCall
      /\ active'[c].caller = active[c].caller /\ active'[c].receiver = active[c].receiver
      /\ active'[c].state = IF IsLive(c) THEN "removed" ELSE active[c].state
      /\ ~IsLive(c) => active'[c] = active[c]
      /\ active'[c].state \in {"removed", "expired"}
  BY <1>6, <1>7 DEF IInv, TypeOK, Call, IsLive, Live, NoCall
<1>9. TypeOK'
  <2>1. active' \in [Calls -> {NoCall} \cup Call]
    BY <1>6, <1>8 DEF IInv, TypeOK
  <2> QED BY <2>1, <1>1, <1>4 DEF IInv, TypeOK, Goto
<1>10. About({h}, c) /\ OnlyForward(c)
  BY <1>1, <1>2, <1>4, <1>5, <1>8 DEF About, OnlyForward, IsLive, Live
<1>11. \A g \in Handlers \ {h} : WorksOn(g, c)' <=> WorksOn(g, c)
  BY <1>5 DEF WorksOn
<1>12. logs[c] # <<>>
  BY <1>1, <1>2 DEF IInv, Written
<1>13. Known(c)'
  <2>1. Fresh(c)' /\ Logged(c)' /\ Watched(c)'
    BY <1>1, <1>8, <1>12 DEF Fresh, Logged, Watched
  <2>2. ASSUME trouble[c] = "none" PROVE Alone(c)' /\ LoggedOnce(c)' /\ KnowsAnswer(c)'
    <3>1. /\ Alone(c) /\ LoggedOnce(c)
          /\ \A g \in Handlers : WorksOn(g, c)' => g = h
      BY <2>2, <1>7, <1>11 DEF Known, Undisturbed, Alone
    <3>2. \A g \in Handlers : WorksOn(g, c)' => handlers'[g].pc = "hangup"
      BY <3>1, <1>4, <1>5 DEF WorksOn, Idle
    <3>3. LoggedOnce(c)'
      BY <3>1, <3>2, <1>1, <1>8 DEF LoggedOnce, IsLive, Live
    <3>4. KnowsAnswer(c)'
      BY <3>2 DEF KnowsAnswer
    <3> QED BY <3>1, <3>3, <3>4 DEF Alone
  <2> QED BY <2>1, <2>2, <1>1 DEF Known, Undisturbed
<1>14. Placing(h)' /\ Written(h)'
  BY <1>3, <1>4, <1>5, <1>8 DEF Placing, Written, Idle
<1>15. \A g \in Handlers \ {h} : handlers[g].pc = "check" => handlers[g].call # c
  BY <1>1, <1>2 DEF IInv, Placing, Idle
<1>16. Unfinished(c) => Unfinished(c)' \/ HungUpOn(c)'
  <2>1. trouble[c] # "none" \/ Declined(c) \/ active[c].state = "expired" => Unfinished(c)'
    BY <1>1, <1>8 DEF Unfinished, Declined, IsLive, Live
  <2>2. CASE trouble[c] = "none" /\ active[c].state = "accepted"
    <3>1. w.op # "missed" /\ (w.op = "reject" => Declined(c))
      BY <2>2, <1>1, <1>7 DEF Known, Undisturbed, KnowsAnswer
    <3>2. w.op = "end" => HungUpOn(c)'
      BY <1>4, <1>5 DEF HungUpOn
    <3> QED BY <3>1, <3>2, <2>1, <1>3
  <2> QED BY <2>1, <2>2 DEF Unfinished, Declined
<1>17. HungUpOn(c) => HungUpOn(c)'
  BY <1>1, <1>5 DEF HungUpOn
<1>18. \A v \in inCall' :
         /\ v \notin inCall => HasCause(v)'
         /\ active[c] # NoCall /\ v \in Parties(c) /\ (Unfinished(c) \/ HungUpOn(c)) => HasCause(v)'
  BY <1>1, <1>8, <1>16, <1>17, CausesStay DEF Parties
<1> QED BY <1>9, <1>10, <1>13, <1>14, <1>15, <1>18, Concluded

\* end() takes both parties out of the call.
LEMMA HangUpSafe ==
  ASSUME IInv, NEW h \in Handlers, HangUp(h)
  PROVE  IInv'
<1>1. handlers[h].pc = "hangup" /\ Goto(h, Idle) /\ UNCHANGED <<active, logs, timer, trouble, faults>>
  BY DEF HangUp
<1>2. PICK c \in Calls : c = handlers[h].call
  BY <1>1, Kinds DEF IInv, Idle
<1>3. handlers'[h] = Idle /\ \A g \in Handlers \ {h} : handlers'[g] = handlers[g]
  BY <1>1, Moved DEF IInv
<1>4. inCall' = inCall \ Parties(c)
  BY <1>2 DEF HangUp
<1>5. TypeOK'
  BY <1>1, <1>4 DEF IInv, TypeOK, Goto
<1>6. About({h}, c) /\ OnlyForward(c)
  BY <1>1, <1>2, <1>3 DEF About, OnlyForward
<1>7. WorksOn(h, c) /\ \A g \in Handlers : WorksOn(g, c)' <=> WorksOn(g, c) /\ g # h
  BY <1>1, <1>2, <1>3 DEF WorksOn, Idle
<1>8. /\ Known(c) /\ active[c] # NoCall
      /\ active[c].state \in {"removed", "expired"}
  BY <1>1, <1>2, <1>7 DEF IInv, Known, Fresh, Written
<1>9. Known(c)'
  <2>1. Fresh(c)' /\ Logged(c)' /\ Watched(c)'
    BY <1>1, <1>8 DEF Known, Fresh, Logged, Watched
  <2>2. ASSUME trouble[c] = "none" PROVE Alone(c)' /\ LoggedOnce(c)' /\ KnowsAnswer(c)'
    <3>1. Alone(c) /\ LoggedOnce(c) /\ \A g \in Handlers : ~WorksOn(g, c)'
      BY <2>2, <1>7, <1>8 DEF Known, Undisturbed, Alone
    <3>2. LoggedOnce(c)'
      BY <3>1, <1>1, <1>8 DEF LoggedOnce, IsLive, Live
    <3> QED BY <3>1, <3>2 DEF Alone, KnowsAnswer
  <2> QED BY <2>1, <2>2, <1>1 DEF Known, Undisturbed
<1>10. Placing(h)' /\ Written(h)'
  BY <1>3 DEF Placing, Written, Idle
<1>11. \A g \in Handlers \ {h} : handlers[g].pc = "check" => handlers[g].call # c
  BY <1>1, <1>2 DEF IInv, Placing, Idle
<1> QED BY <1>4, <1>5, <1>6, <1>9, <1>10, <1>11, Concluded

\* The TTL monitor drops a call whatever its handlers are about to do with it.
LEMMA ExpireSafe ==
  ASSUME IInv, NEW c \in Calls, Expire(c)
  PROVE  IInv'
<1>1. /\ IsLive(c) /\ active' = [active EXCEPT ![c].state = "expired"]
      /\ UNCHANGED <<logs, timer, inCall, handlers, trouble, faults>>
  BY DEF Expire
<1>2. active[c] # NoCall /\ active[c] \in Call /\ Known(c)
  BY <1>1, States DEF IInv, IsLive, Live, NoCall
<1>3. /\ \A d \in Calls \ {c} : active'[d] = active[d]
      /\ active'[c] \in Call /\ active'[c] # NoCall
      /\ active'[c].caller = active[c].caller /\ active'[c].receiver = active[c].receiver
      /\ active'[c].state = "expired"
  BY <1>1, <1>2 DEF IInv, TypeOK, Call, NoCall
<1>4. TypeOK'
  <2>1. active' \in [Calls -> {NoCall} \cup Call]
    BY <1>1, <1>3 DEF IInv, TypeOK
  <2> QED BY <2>1, <1>1 DEF IInv, TypeOK
<1>5. About({}, c) /\ OnlyForward(c)
  BY <1>1, <1>3 DEF About, OnlyForward, IsLive, Live
<1>6. \A g \in Handlers : WorksOn(g, c)' <=> WorksOn(g, c)
  BY <1>1 DEF WorksOn
<1>7. Known(c)'
  BY <1>1, <1>2, <1>3, <1>6
     DEF Known, Fresh, Logged, Watched, Undisturbed, Alone, LoggedOnce, KnowsAnswer, IsLive, Live
<1>8. \A g \in Handlers \ {} : handlers[g].pc = "check" => handlers[g].call # c
  BY <1>2 DEF IInv, Placing
<1>9. Unfinished(c)'
  BY <1>3 DEF Unfinished
<1>10. \A v \in inCall' :
         /\ v \notin inCall => HasCause(v)'
         /\ active[c] # NoCall /\ v \in Parties(c) /\ (Unfinished(c) \/ HungUpOn(c)) => HasCause(v)'
  BY <1>1, <1>3, <1>9 DEF HasCause, Parties
<1> QED BY <1>4, <1>5, <1>7, <1>8, <1>10, Concluded

\* A ring timer that fires on a call that no longer rings does nothing.
LEMMA TimerSafe ==
  ASSUME IInv, NEW c \in Calls, active[c].state # "ringing",
         timer' = timer \ {c}, UNCHANGED <<active, logs, inCall, handlers, trouble, faults>>
  PROVE  IInv'
<1>1. TypeOK' /\ About({}, c) /\ OnlyForward(c)
  BY DEF IInv, TypeOK, About, OnlyForward
<1>2. \A g \in Handlers : WorksOn(g, c)' <=> WorksOn(g, c)
  BY DEF WorksOn
<1>3. Known(c)'
  BY <1>2 DEF IInv, Known, Fresh, Logged, Watched, Undisturbed, Alone, LoggedOnce, KnowsAnswer,
              IsLive, Declined
<1>4. \A g \in Handlers : Placing(g)' /\ Written(g)'
  BY DEF IInv, Placing, Written
<1>5. \A d \in Calls \ {c} : Known(d)'
  BY <1>1, Elsewhere
<1>6. \A v \in inCall' : HasCause(v)'
  BY DEF IInv, HasCause, Parties, Unfinished, HungUpOn
<1> QED BY <1>1, <1>3, <1>4, <1>5, <1>6 DEF IInv

\* The process stops: what is in memory is gone, and the calls it was about are faulty.
LEMMA RestartSafe ==
  ASSUME IInv, Restart, faults < MaxFaults, MaxFaults \in Nat
  PROVE  IInv'
<1>1. /\ timer' = {} /\ inCall' = {} /\ faults' = faults + 1
      /\ \A h \in Handlers : handlers'[h] = Idle
      /\ active' = active /\ logs' = logs
      /\ \A c \in Calls : trouble'[c] =
           IF IsLive(c) \/ \E h \in Handlers : WorksOn(h, c) THEN "fault" ELSE trouble[c]
  BY DEF Restart
<1>2. TypeOK'
  <2>1. faults + 1 \in 0..MaxFaults
    BY DEF IInv, TypeOK
  <2>2. trouble' \in [Calls -> {"none", "race", "fault"}]
    BY DEF IInv, TypeOK, Restart
  <2>3. handlers' \in [Handlers -> {Idle}]
    BY DEF Restart
  <2> QED BY <2>1, <2>2, <2>3, <1>1 DEF IInv, TypeOK
<1>3. \A h \in Handlers : Placing(h)' /\ Written(h)' /\ \A c \in Calls : ~WorksOn(h, c)'
  BY <1>1 DEF Placing, Written, WorksOn, Idle
<1>4. ASSUME NEW c \in Calls PROVE Known(c)'
  <2>1. Known(c)
    BY DEF IInv
  <2>2. Fresh(c)' /\ Logged(c)' /\ Watched(c)'
    BY <2>1, <1>1, <1>3 DEF Known, Fresh, Logged, Watched, IsLive, Live, NoCall
  <2>3. Undisturbed(c)'
    <3> SUFFICES ASSUME trouble'[c] = "none" PROVE Alone(c)' /\ LoggedOnce(c)' /\ KnowsAnswer(c)'
      BY DEF Undisturbed
    <3>1. ~IsLive(c) /\ trouble[c] = "none"
      BY <1>1
    <3>2. LoggedOnce(c)
      BY <3>1, <2>1 DEF Known, Undisturbed
    <3> QED BY <3>1, <3>2, <1>1, <1>3 DEF Alone, LoggedOnce, KnowsAnswer, IsLive
  <2> QED BY <2>2, <2>3 DEF Known
<1> QED BY <1>1, <1>2, <1>3, <1>4 DEF IInv

\* An HTTP handler gives up half way.
LEMMA FailSafe ==
  ASSUME IInv, NEW h \in Handlers, Fail(h), MaxFaults \in Nat
  PROVE  IInv'
<1>1. handlers[h] # Idle /\ faults < MaxFaults
  BY DEF Fail
<1>2. CASE handlers[h].pc \in {"insert", "remove"} /\ handlers[h].op = "missed"
  BY <1>1, <1>2, RestartSafe DEF Fail
<1>3. CASE ~(handlers[h].pc \in {"insert", "remove"} /\ handlers[h].op = "missed")
  <2>1. PICK c \in Calls : c = handlers[h].call
    BY <1>1, Kinds DEF IInv
  <2>2. /\ handlers[h].pc # "hangup" /\ Goto(h, Idle) /\ faults' = faults + 1
        /\ trouble' = IF handlers[h].pc = "check" THEN trouble ELSE [trouble EXCEPT ![c] = "fault"]
        /\ UNCHANGED <<active, logs, timer, inCall>>
    BY <1>3, <2>1 DEF Fail
  <2>3. handlers'[h] = Idle /\ \A g \in Handlers \ {h} : handlers'[g] = handlers[g]
    BY <2>2, Moved DEF IInv
  <2>4. /\ trouble' \in [Calls -> {"none", "race", "fault"}]
        /\ \A d \in Calls \ {c} : trouble'[d] = trouble[d]
        /\ trouble'[c] = IF handlers[h].pc = "check" THEN trouble[c] ELSE "fault"
    BY <2>2 DEF IInv, TypeOK
  <2>5. TypeOK'
    <3>1. faults + 1 \in 0..MaxFaults
      BY <1>1 DEF IInv, TypeOK
    <3> QED BY <3>1, <2>2, <2>4 DEF IInv, TypeOK, Goto
  <2>6. About({h}, c) /\ OnlyForward(c)
    BY <2>1, <2>2, <2>3, <2>4 DEF About, OnlyForward
  <2>7. \A g \in Handlers : WorksOn(g, c)' <=> WorksOn(g, c) /\ g # h
    BY <2>3 DEF WorksOn, Idle
  <2>8. Known(c)'
    <3>1. Known(c)
      BY DEF IInv
    <3>2. CASE handlers[h].pc = "check"
      <4>1. active[c] = NoCall
        BY <3>2, <2>1 DEF IInv, Placing
      <4>2. \A g \in Handlers : ~WorksOn(g, c)
        BY <4>1, <3>1 DEF Known, Fresh
      <4>3. Fresh(c)' /\ Logged(c)' /\ Watched(c)'
        BY <4>1, <3>1, <3>2, <2>2, <2>4, <2>7 DEF Known, Fresh, Logged, Watched, NoCall
      <4>4. Undisturbed(c)'
        BY <4>2, <3>1, <3>2, <2>2, <2>4, <2>7
           DEF Known, Undisturbed, Alone, LoggedOnce, KnowsAnswer, IsLive
      <4> QED BY <4>3, <4>4 DEF Known
    <3>3. CASE handlers[h].pc # "check"
      <4>1. active[c] # NoCall
        BY <3>1, <3>3, <1>1, <2>1, Kinds DEF Known, Fresh, WorksOn, IInv
      <4> QED BY <4>1, <3>1, <3>3, <2>2, <2>4 DEF Known, Fresh, Logged, Watched, Undisturbed
    <3> QED BY <3>2, <3>3
  <2>9. Placing(h)' /\ Written(h)'
    BY <2>3 DEF Placing, Written, Idle
  <2>10. \A g \in Handlers \ {h} : handlers[g].pc = "check" => handlers[g].call # c
    BY <1>1, <2>1 DEF IInv, Placing
  <2>11. Unfinished(c) => Unfinished(c)'
    BY <2>2, <2>4 DEF Unfinished
  <2>12. HungUpOn(c) => HungUpOn(c)'
    BY <2>2, <2>3 DEF HungUpOn
  <2>13. \A v \in inCall' :
           /\ v \notin inCall => HasCause(v)'
           /\ active[c] # NoCall /\ v \in Parties(c) /\ (Unfinished(c) \/ HungUpOn(c)) =>
                HasCause(v)'
    BY <2>2, <2>11, <2>12, CausesStay DEF Parties
  <2> QED BY <2>5, <2>6, <2>8, <2>9, <2>10, <2>13, Concluded
<1> QED BY <1>2, <1>3

-----------------------------------------------------------------------------
(* The invariant holds. *)

\* Before the first call nothing is stored, armed or in flight.
LEMMA InitIInv == MaxFaults \in Nat /\ Init => IInv
<1> SUFFICES ASSUME MaxFaults \in Nat, Init PROVE IInv
  OBVIOUS
<1>1. TypeOK
  BY DEF Init, TypeOK
<1>2. \A h \in Handlers : Placing(h) /\ Written(h) /\ \A c \in Calls : ~WorksOn(h, c)
  BY DEF Init, Placing, Written, WorksOn, Idle
<1>3. \A c \in Calls : Known(c)
  BY <1>2 DEF Init, Known, Fresh, Logged, Watched, Undisturbed, Alone, LoggedOnce, KnowsAnswer, NoCall
<1> QED BY <1>1, <1>2, <1>3 DEF Init, IInv

\* No step of a handler, of a timer or of the database breaks it, nor does a crash.
LEMMA StepIInv == MaxFaults \in Nat /\ IInv /\ [Next]_vars => IInv'
<1> SUFFICES ASSUME MaxFaults \in Nat, IInv, [Next]_vars PROVE IInv'
  OBVIOUS
<1>1. ASSUME NEW h \in Handlers, NEW c \in Calls, NEW u \in Users, ReadForReject(h, c, u)
      PROVE  IInv'
  BY <1>1, FinishSafe DEF ReadForReject, IsLive, Live
<1>2. ASSUME NEW h \in Handlers, NEW c \in Calls, NEW u \in Users, ReadForEnd(h, c, u)
      PROVE  IInv'
  BY <1>2, FinishSafe DEF ReadForEnd
<1>3. ASSUME NEW h \in Handlers, NEW c \in Calls, RingTimeout(h, c)
      PROVE  IInv'
  <2>1. CASE active[c].state = "ringing"
    BY <1>3, <2>1, FinishSafe DEF RingTimeout, IsLive, Live
  <2>2. CASE active[c].state # "ringing"
    BY <1>3, <2>2, TimerSafe DEF RingTimeout
  <2> QED BY <2>1, <2>2
<1>4. CASE Crash
  BY <1>4, RestartSafe DEF Crash
<1>5. CASE UNCHANGED vars
  BY <1>5 DEF vars, IInv, TypeOK, Known, Fresh, Logged, Watched, Undisturbed, Alone, LoggedOnce,
              KnowsAnswer, Declined, IsLive, WorksOn, Placing, Written, HasCause, HungUpOn,
              Parties, Unfinished
<1> QED BY <1>1, <1>2, <1>3, <1>4, <1>5, AcceptSafe, InitiateSafe, CheckSafe, RingSafe, ArmSafe,
           AnswerSafe, InsertSafe, RemoveSafe, HangUpSafe, ExpireSafe, FailSafe DEF Next

\* The inductive invariant holds at every moment of every behaviour.
THEOREM Invariance == ASSUME MaxFaults \in Nat PROVE Spec => []IInv
BY InitIInv, StepIInv, PTL DEF Spec

-----------------------------------------------------------------------------
(* What it gives. *)

LEMMA Gives ==
  IInv => TypeOK /\ GoneIsLogged /\ UnansweredIsWatched /\ OneLogUnlessTrouble /\ InCallHasCause
<1>1. IInv => TypeOK /\ GoneIsLogged /\ UnansweredIsWatched
  BY DEF IInv, Known, Logged, Watched, GoneIsLogged, UnansweredIsWatched
<1>2. IInv => OneLogUnlessTrouble
  <2> SUFFICES ASSUME IInv, NEW c \in Calls, trouble[c] = "none" PROVE ~(Len(logs[c]) > 1)
    BY DEF OneLogUnlessTrouble
  <2>1. LoggedOnce(c) /\ Len(logs[c]) \in Nat
    BY States DEF IInv, Known, Undisturbed
  <2> QED BY <2>1 DEF LoggedOnce
<1>3. IInv => InCallHasCause
  BY DEF IInv, HasCause, HungUpOn, Idle, InCallHasCause
<1> QED BY <1>1, <1>2, <1>3

\* Every document, log row and handler is well formed at every moment.
THEOREM TypeCorrect == ASSUME MaxFaults \in Nat PROVE Spec => []TypeOK
BY Invariance, Gives, PTL

\* The log row is written before the call is dropped: whatever overlaps, fails or
\* restarts, a call that reject(), end() or markMissed() has removed is in call_logs.
THEOREM RemovedIsLogged == ASSUME MaxFaults \in Nat PROVE Spec => []GoneIsLogged
BY Invariance, Gives, PTL

\* A ringing call that met no fault has its timer or a handler that is busy with it:
\* only a fault leaves it to the TTL.
THEOREM RingingIsWatched == ASSUME MaxFaults \in Nat PROVE Spec => []UnansweredIsWatched
BY Invariance, Gives, PTL

\* A finished call has a second row in call_logs only if handlers overlapped on it
\* or one failed half way.
THEOREM SecondRowMeansTrouble == ASSUME MaxFaults \in Nat PROVE Spec => []OneLogUnlessTrouble
BY Invariance, Gives, PTL

\* With nothing in flight, whoever presence shows in a call has one that accounts
\* for it.
THEOREM FlagHasCause == ASSUME MaxFaults \in Nat PROVE Spec => []InCallHasCause
BY Invariance, Gives, PTL

\* A call only moves forward, whatever a late accept() or a slow handler does.
LEMMA StepStaysOver ==
  ASSUME IInv, [Next]_vars, NEW c \in Calls
  PROVE  StaysOver(c)
<1>1. active'[c] = active[c] => StaysOver(c)
  BY DEF StaysOver
<1>2. ASSUME NEW d \in Calls, NEW e, active' = [active EXCEPT ![d] = e],
             active[d].state \notin {"accepted", "removed", "expired"}
      PROVE  StaysOver(c)
  BY <1>1, <1>2 DEF StaysOver, IInv, TypeOK
<1>3. ASSUME NEW d \in Calls, NEW state \in {"accepted", "removed", "expired"}, IsLive(d),
             active' = [active EXCEPT ![d].state = state]
      PROVE  StaysOver(c)
  <2>1. active[d] \in Call
    BY <1>3, States DEF IInv, IsLive, Live
  <2>2. active'[c].state = IF c = d THEN state ELSE active[c].state
    BY <2>1, <1>3 DEF IInv, TypeOK, Call
  <2>3. c = d => active[c].state \notin {"removed", "expired"}
    BY <1>3 DEF IsLive, Live
  <2>4. c # d => active'[c] = active[c]
    BY <1>3 DEF IInv, TypeOK
  <2> QED BY <2>2, <2>3, <2>4, <1>1, <1>3 DEF StaysOver
<1>4. ASSUME NEW h \in Handlers, Ring(h) PROVE StaysOver(c)
  <2>1. PICK d \in Calls : d = handlers[h].call /\ active[d] = NoCall
    BY <1>4, Kinds DEF Ring, IInv, Placing, Idle
  <2>2. PICK e : active' = [active EXCEPT ![d] = e]
    BY <2>1, <1>4 DEF Ring
  <2>3. active[d].state \notin {"accepted", "removed", "expired"}
    BY <2>1 DEF NoCall
  <2> QED BY <2>2, <2>3, <1>2
<1>5. ASSUME NEW h \in Handlers, Answer(h) PROVE StaysOver(c)
  <2>1. handlers[h].call \in Calls
    BY <1>5, Kinds DEF Answer, IInv, Idle
  <2> QED BY <2>1, <1>1, <1>3, <1>5 DEF Answer
<1>6. ASSUME NEW h \in Handlers, Remove(h) PROVE StaysOver(c)
  <2>1. handlers[h].call \in Calls
    BY <1>6, Kinds DEF Remove, IInv, Idle
  <2> QED BY <2>1, <1>1, <1>3, <1>6 DEF Remove
<1>7. ASSUME NEW d \in Calls, Expire(d) PROVE StaysOver(c)
  BY <1>3, <1>7 DEF Expire
<1>8. active' = active => StaysOver(c)
  BY <1>1
<1> QED BY <1>4, <1>5, <1>6, <1>7, <1>8
        DEF Next, vars, Initiate, CheckBusy, ArmTimer, ReadForAccept, ReadForReject, ReadForEnd,
            RingTimeout, InsertLog, HangUp, Crash, Restart, Fail

\* An accept() that comes late never brings back a call that was ended or timed out, and
\* nothing makes an answered call ring again.
THEOREM OverIsOver == ASSUME MaxFaults \in Nat PROVE Spec => NeverRevived
<1>1. IInv /\ [Next]_vars => [\A c \in Calls : StaysOver(c)]_vars
  BY StepStaysOver
<1> QED BY <1>1, Invariance, PTL DEF Spec, NeverRevived
=============================================================================
