------------------------- MODULE ApprovalLifecycle -------------------------
(***************************************************************************)
(* What the approval workflow promises, with every decision one atomic     *)
(* step: a request visits its levels strictly in order, leaves a level     *)
(* only with the approvals that level asks for, one rejection ends it, and *)
(* once it is finished nothing moves any more.  There is no reading ahead  *)
(* of writing here and no two users in each other's way; Approvals is      *)
(* shown to implement it.                                                  *)
(*                                                                         *)
(* What is left of the recorded approvals after a withdrawal is not        *)
(* promised: see the withdrawal race in Approvals.                         *)
(***************************************************************************)
EXTENDS Naturals

CONSTANTS
  Users,     \* the people
  Requests,  \* request ids
  MaxLevels  \* levels per request

VARIABLES
  status,  \* "none" before the request is raised, then pending or a final status
  at,      \* the level awaiting decisions; the chain's length plus one at the end
  chain,   \* the levels, a sequence of [who, mode]
  yes      \* the people whose approval stands

vars == <<status, at, chain, yes>>

LevelSpec == [who : SUBSET Users, mode : {"all", "any"}]

Init ==
  /\ status = [r \in Requests |-> "none"]
  /\ at = [r \in Requests |-> 0]
  /\ chain = [r \in Requests |-> <<>>]
  /\ yes = [r \in Requests |-> {}]

Raise(r) ==
  /\ status[r] = "none"
  /\ status' = [status EXCEPT ![r] = "pending"]
  /\ at' = [at EXCEPT ![r] = 1]
  /\ \E k \in 1..MaxLevels : \E c \in [1..k -> LevelSpec] :
       /\ \A l \in 1..k : c[l].who # {}
       /\ chain' = [chain EXCEPT ![r] = c]
  /\ UNCHANGED yes

\* u is one of those the request is waiting on.
Asked(r, u) ==
  /\ status[r] = "pending"
  /\ u \in chain[r][at[r]].who \ yes[r]

Enough(r, S) ==
  \/ chain[r][at[r]].mode = "any"
  \/ chain[r][at[r]].who \subseteq S

Approve(r, u) ==
  /\ Asked(r, u)
  /\ yes' = [yes EXCEPT ![r] = @ \cup {u}]
  /\ IF Enough(r, yes[r] \cup {u})
       THEN /\ at' = [at EXCEPT ![r] = @ + 1]
            /\ status' = [status EXCEPT ![r] =
                            IF at[r] + 1 \in DOMAIN chain[r] THEN "pending" ELSE "approved"]
       ELSE UNCHANGED <<at, status>>
  /\ UNCHANGED chain

Reject(r, u) ==
  /\ Asked(r, u)
  /\ status' = [status EXCEPT ![r] = "rejected"]
  /\ UNCHANGED <<at, chain, yes>>

Withdraw(r) ==
  /\ status[r] = "pending"
  /\ status' = [status EXCEPT ![r] = "cancelled"]
  /\ \E kept \in SUBSET yes[r] : yes' = [yes EXCEPT ![r] = kept]
  /\ UNCHANGED <<at, chain>>

Next ==
  \E r \in Requests :
    \/ Raise(r)
    \/ \E u \in Users : Approve(r, u) \/ Reject(r, u)
    \/ Withdraw(r)

Spec == Init /\ [][Next]_vars
=============================================================================
