------------------------------ MODULE Statuses ------------------------------
(***************************************************************************)
(* Statuses, the stories of a day (src/src/mongo/chat/chat.status.ts).     *)
(*                                                                         *)
(* Who may see a status is reckoned when it is posted, from three readings *)
(* one after the other, and kept with it.  A view is read and then added   *)
(* to the viewers, each with its time, so that two views of one person are *)
(* two different rows.  The database removes a status some time after it   *)
(* has expired; no query looks at its expiry.                              *)
(***************************************************************************)
EXTENDS Naturals, FiniteSets

CONSTANTS
  People,
  Stories,    \* bound: the statuses that may be posted
  Requests,   \* bound: requests in progress at once
  MaxAsks     \* bound: requests made

VARIABLES
  peers,      \* the people each one shares a conversation with
  blocks,     \* who blocks whom: pairs <<blocker, blocked>>
  status,     \* the stored statuses
  request,    \* what each request has read
  asks,       \* bound: requests so far, and the time of a view
  crossed,    \* history: statuses whose poster's peers or blocks changed while they were posted
  raced       \* history: viewers of whom two views of one status were under way together

statusVars == <<peers, blocks, status, request, asks, crossed, raced>>

Nobody  == "nobody"
NoStatus == [pc |-> "none", by |-> Nobody, audience |-> {}, viewers |-> {}, expired |-> FALSE]
Idle    == [pc |-> "idle", who |-> Nobody, of |-> Nobody, reach |-> {}]

StatusTypeOK ==
  /\ peers \in [People -> SUBSET People]
  /\ blocks \subseteq People \X People
  /\ DOMAIN status = Stories /\ DOMAIN request = Requests
  /\ \A s \in Stories : status[s].pc \in {"none", "posting", "up", "gone"} /\ status[s].audience \subseteq People
  /\ asks \in 0..MaxAsks
  /\ crossed \subseteq Stories /\ raced \subseteq Stories \X People

\* Everybody shares a conversation with everybody, to begin with.
StatusInit ==
  /\ peers = [p \in People |-> People \ {p}]
  /\ blocks = {}
  /\ status = [s \in Stories |-> NoStatus]
  /\ request = [r \in Requests |-> Idle]
  /\ asks = 0 /\ crossed = {} /\ raced = {}

Ask(r, pc, who, of) ==
  /\ request[r] = Idle /\ asks < MaxAsks
  /\ asks' = asks + 1
  /\ request' = [request EXCEPT ![r] = [Idle EXCEPT !.pc = pc, !.who = who, !.of = of]]

Answer(r)  == request' = [request EXCEPT ![r] = Idle]
At(r, pc)  == request[r].pc = pc
Posting(p) == {request[r].of : r \in {q \in Requests : request[q].who = p /\ request[q].pc \in {"peers", "blocked"}}}

-----------------------------------------------------------------------------
(* Posting: the conversations, whom the poster blocks, who blocks them. *)

Post(r, p, s) ==
  /\ status[s] = NoStatus
  /\ Ask(r, "post", p, s)
  /\ status' = [status EXCEPT ![s] = [NoStatus EXCEPT !.pc = "posting", !.by = p]]
  /\ UNCHANGED <<peers, blocks, crossed, raced>>

ReadPeers(r) ==
  /\ At(r, "post")
  /\ request' = [request EXCEPT ![r].pc = "peers", ![r].reach = peers[request[r].who]]
  /\ UNCHANGED <<peers, blocks, status, asks, crossed, raced>>

ReadBlocked(r) ==
  /\ At(r, "peers")
  /\ request' = [request EXCEPT ![r].pc = "blocked",
                                ![r].reach = {q \in @ : <<request[r].who, q>> \notin blocks}]
  /\ UNCHANGED <<peers, blocks, status, asks, crossed, raced>>

\* As CreateStatus, without the people who block the poster being taken out.
CreateForBlockers(r) ==
  /\ At(r, "blocked")
  /\ status' = [status EXCEPT ![request[r].of].pc = "up", ![request[r].of].audience = request[r].reach]
  /\ Answer(r)
  /\ UNCHANGED <<peers, blocks, asks, crossed, raced>>

CreateStatus(r) ==
  LET m == request[r]
  IN /\ At(r, "blocked")
     /\ status' = [status EXCEPT ![m.of].pc = "up",
                                 ![m.of].audience = {q \in m.reach : <<q, m.who>> \notin blocks}]
     /\ Answer(r)
     /\ UNCHANGED <<peers, blocks, asks, crossed, raced>>

-----------------------------------------------------------------------------
(* Viewing and removing: the status is read, then written. *)

Allowed(p, s) == status[s].pc = "up" /\ (status[s].by = p \/ p \in status[s].audience)
Viewed(p, s)  == \E v \in status[s].viewers : v.who = p

\* As markViewed, without looking for a view there already is.
ViewedAgain(r, p, s) ==
  /\ Allowed(p, s) /\ status[s].by # p
  /\ Ask(r, "view", p, s)
  /\ UNCHANGED <<peers, blocks, status, crossed, raced>>

\* The poster's own look and a second look change nothing.
markViewed(r, p, s) ==
  /\ Allowed(p, s) /\ status[s].by # p /\ ~Viewed(p, s)
  /\ Ask(r, "view", p, s)
  /\ raced' = IF \E q \in Requests : request[q] = [Idle EXCEPT !.pc = "view", !.who = p, !.of = s]
              THEN raced \cup {<<s, p>>} ELSE raced
  /\ UNCHANGED <<peers, blocks, status, crossed>>

\* The row carries its time, so that the set keeps two rows of one person.
AddViewer(r) ==
  LET m == request[r]
  IN /\ At(r, "view")
     /\ status' = IF status[m.of].pc = "up"
                  THEN [status EXCEPT ![m.of].viewers = @ \cup {[who |-> m.who, at |-> <<r, asks>>]}]
                  ELSE status
     /\ Answer(r)
     /\ UNCHANGED <<peers, blocks, asks, crossed, raced>>

remove(r, p, s) ==
  /\ status[s].pc = "up" /\ status[s].by = p
  /\ Ask(r, "remove", p, s)
  /\ UNCHANGED <<peers, blocks, status, crossed, raced>>

DeleteStatus(r) ==
  /\ At(r, "remove")
  /\ status' = [status EXCEPT ![request[r].of] = [NoStatus EXCEPT !.pc = "gone"]]
  /\ Answer(r)
  /\ UNCHANGED <<peers, blocks, asks, crossed, raced>>

\* A day goes by; the database's own sweep comes round later.
Expire(s) ==
  /\ status[s].pc = "up" /\ ~status[s].expired
  /\ status' = [status EXCEPT ![s].expired = TRUE]
  /\ UNCHANGED <<peers, blocks, request, asks, crossed, raced>>

Reap(s) ==
  /\ status[s].expired
  /\ status' = [status EXCEPT ![s] = [NoStatus EXCEPT !.pc = "gone"]]
  /\ UNCHANGED <<peers, blocks, request, asks, crossed, raced>>

-----------------------------------------------------------------------------
(* Conversations and blocks change meanwhile. *)

Block(p, q) ==
  /\ p # q /\ <<p, q>> \notin blocks
  /\ blocks' = blocks \cup {<<p, q>>}
  /\ crossed' = crossed \cup Posting(p) \cup Posting(q)
  /\ UNCHANGED <<peers, status, request, asks, raced>>

PartWays(p, q) ==
  /\ q \in peers[p]
  /\ peers' = [peers EXCEPT ![p] = @ \ {q}, ![q] = @ \ {p}]
  /\ crossed' = crossed \cup Posting(p) \cup Posting(q)
  /\ UNCHANGED <<blocks, status, request, asks, raced>>

StatusNext ==
  \/ \E r \in Requests :
       \/ ReadPeers(r) \/ ReadBlocked(r) \/ CreateStatus(r) \/ AddViewer(r) \/ DeleteStatus(r)
       \/ \E p \in People, s \in Stories : Post(r, p, s) \/ markViewed(r, p, s) \/ remove(r, p, s)
  \/ \E s \in Stories : Expire(s) \/ Reap(s)
  \/ \E p, q \in People : Block(p, q) \/ PartWays(p, q)

StatusSpec == StatusInit /\ [][StatusNext]_statusVars

-----------------------------------------------------------------------------
\* A person is one viewer of a status, unless two views of theirs crossed: the second finds
\* no row of the first (chat.status.ts:104).
OneViewerRowUnlessRaced ==
  \A s \in Stories : \A v, w \in status[s].viewers :
    v.who = w.who => v = w \/ <<s, v.who>> \in raced

\* A status appears only to people who shared a conversation with its poster and were not
\* parted from them by a block, unless that changed while it was posted (chat.status.ts:17).
AppearsUnlessCrossed ==
  \A s \in Stories \ crossed :
    status[s].pc = "posting" /\ status'[s].pc = "up" =>
      status'[s].audience = {q \in peers[status[s].by] :
        <<status[s].by, q>> \notin blocks /\ <<q, status[s].by>> \notin blocks}

\* Whoever is told to have looked was meant to see it.
ViewersWereMeant ==
  \A s \in Stories : {v.who : v \in status[s].viewers} \subseteq status[s].audience
=============================================================================
