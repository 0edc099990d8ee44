----------------------------- MODULE PgRequests -----------------------------
(***************************************************************************)
(* What the handlers of the Postgres back end have in common               *)
(* (src/src/modules, src/src/common/audit.ts): they read, check and write, *)
(* each call on its own and none of them in a transaction; most then       *)
(* append a row to the audit log, some (marking read, notify) append none. *)
(* A request may die between any two of its calls.                         *)
(***************************************************************************)
EXTENDS Naturals, FiniteSets, Sequences, TLC

CONSTANTS
  Requests,   \* requests under way at once
  MaxAsks     \* bound: requests in all

VARIABLES
  req,     \* what each request is about to do, and with what it has read
  asked,   \* bound: requests so far, which also numbers them
  wrote,   \* history: requests that changed something
  audit,   \* the audit log: a row of each of these requests
  cut,     \* history: requests that died or failed after they had changed something
  quiet    \* history: requests of handlers that append no row to the audit log

asks == <<req, asked, wrote, audit, cut, quiet>>

Idle == [pc |-> "idle"]

AsksInit ==
  /\ req = [r \in Requests |-> Idle]
  /\ asked = 0 /\ wrote = {} /\ audit = {} /\ cut = {} /\ quiet = {}

AsksTypeOK ==
  /\ DOMAIN req = Requests /\ asked \in 0..MaxAsks
  /\ wrote \subseteq 1..asked /\ audit \subseteq wrote /\ cut \subseteq wrote
  /\ quiet \subseteq wrote

About(pcs) == {r \in Requests : req[r].pc \in pcs}

\* A fresh id: rows without one are alike.
NewId(unused) == CHOOSE x \in unused : TRUE

\* A request comes in and has read what m says.
Ask(r, m) ==
  /\ req[r] = Idle /\ asked < MaxAsks
  /\ asked' = asked + 1
  /\ req' = [req EXCEPT ![r] = m @@ [n |-> asked + 1]]
  /\ UNCHANGED <<wrote, audit, cut, quiet>>

\* It goes on to pc, or answers.
Then(r, m)  == req' = [req EXCEPT ![r] = m @@ @] /\ UNCHANGED <<asked, wrote, audit, cut, quiet>>
Answer(r)   == req' = [req EXCEPT ![r] = Idle] /\ UNCHANGED <<asked, wrote, audit, cut, quiet>>

\* It has written, and goes on; a quiet one never comes to an audit row.
Writes(r, m, kept) ==
  /\ wrote' = wrote \cup {req[r].n}
  /\ quiet' = IF kept THEN quiet ELSE quiet \cup {req[r].n}
  /\ req' = [req EXCEPT ![r] = m @@ @]
  /\ UNCHANGED <<asked, audit, cut>>

WriteAnd(r, m)   == Writes(r, m, TRUE)
WriteQuiet(r, m) == Writes(r, m, FALSE)

Written(r) == WriteAnd(r, [pc |-> "audit"])

\* A request that is one write, and quiet.
QuietRequest ==
  /\ asked < MaxAsks
  /\ asked' = asked + 1 /\ wrote' = wrote \cup {asked'} /\ quiet' = quiet \cup {asked'}
  /\ UNCHANGED <<req, audit, cut>>

\* The call fails: the error goes to the client, what was written stays.
Fail(r) ==
  /\ req' = [req EXCEPT ![r] = Idle]
  /\ cut' = IF req[r].n \in wrote THEN cut \cup {req[r].n} ELSE cut
  /\ UNCHANGED <<asked, wrote, audit, quiet>>

\* writeAudit: refused when the actor it names is gone by then.
writeAudit(r, actorIsThere) ==
  /\ req[r].pc = "audit"
  /\ IF actorIsThere
     THEN /\ audit' = audit \cup {req[r].n}
          /\ req' = [req EXCEPT ![r] = Idle]
          /\ UNCHANGED <<asked, wrote, cut, quiet>>
     ELSE Fail(r)

Die(r) == req[r] # Idle /\ Fail(r)

-----------------------------------------------------------------------------
\* Whoever changed something is in the audit log once they are done, and no quiet one ever
\* is, unless they died or failed before the row was appended (common/audit.ts:14).
AuditFollowsUnlessCutOrQuiet ==
  /\ \A n \in wrote \ quiet : n \in audit \cup cut \/ \E r \in Requests : req[r] # Idle /\ req[r].n = n
  /\ audit \cap quiet = {}

\* Where no handler is quiet: common/audit.ts:4 as it is said.
EveryMutationIsAuditedUnlessCut == quiet = {} /\ AuditFollowsUnlessCutOrQuiet
=============================================================================
