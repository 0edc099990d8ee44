------------------------------ MODULE MailPoll ------------------------------
(***************************************************************************)
(* New-mail polling of one connected mailbox (src/src/email/email.poll.ts, *)
(* graph.ts newSince and moveToFolderId, account.model.ts).                *)
(*                                                                         *)
(* A round reads the account, asks Outlook for what the inbox received     *)
(* since the account's stamp, files what a smart folder wants, pushes one  *)
(* notification and stamps the account with the time it is THEN.  Rounds   *)
(* are started by a timer that does not wait for the last one to end.      *)
(***************************************************************************)
EXTENDS Naturals, FiniteSets, FiniteSetsExt

CONSTANTS
  Mails,      \* messages that may arrive
  Wanted,     \* those a smart folder's senders match
  Rounds,     \* polling rounds that may be in progress at once
  Top,        \* how many messages one query returns
  MaxTime     \* bound on the clock

VARIABLES
  now,        \* the clock
  linked,     \* is the mailbox connected?
  stamp,      \* the account's lastPolledAt, Never while there is none
  mail,       \* where each message is and when it was received
  native,     \* does Outlook itself hold a rule for the wanted senders?
  round,      \* what each round has read
  pushed,     \* history: how many notifications counted each message
  missed,     \* history: messages no query can be expected to return
  repeated    \* history: messages whose round failed to stamp, or ran beside another

mailVars == <<now, linked, stamp, mail, native, round, pushed, missed, repeated>>

Never  == 0
Absent == [at |-> 0, in |-> "nowhere"]
Idle   == [pc |-> "idle", since |-> 0, found |-> {}]

MailTypeOK ==
  /\ now \in 1..MaxTime
  /\ stamp \in 0..MaxTime /\ linked \in BOOLEAN /\ (~linked => stamp = Never)
  /\ \A m \in Mails : mail[m] = Absent \/ mail[m] \in [at : 1..MaxTime, in : {"inbox", "folder"}]
  /\ native \in BOOLEAN
  /\ \A r \in Rounds : round[r] \in [pc : {"idle", "ask", "file", "push", "stamp"}, since : 0..MaxTime, found : SUBSET Mails]
  /\ pushed \in [Mails -> 0..2]
  /\ missed \subseteq Mails /\ repeated \subseteq Mails

MailInit ==
  /\ now = 1 /\ stamp = Never /\ linked = TRUE
  /\ mail = [m \in Mails |-> Absent]
  /\ native \in BOOLEAN
  /\ round = [r \in Rounds |-> Idle]
  /\ pushed = [m \in Mails |-> 0]
  /\ missed = {} /\ repeated = {}

Arrived   == {m \in Mails : mail[m] # Absent}
Asked     == {r \in Rounds : round[r].pc \in {"file", "push", "stamp"}}
Busy      == {r \in Rounds : round[r].pc # "idle"}
\* updateOne on a removed account matches nothing.
Stamped(t) == IF linked THEN t ELSE stamp

-----------------------------------------------------------------------------
(* Outside: time, Outlook delivering mail, the user connecting and leaving. *)

Tick == now < MaxTime /\ now' = now + 1 /\ UNCHANGED <<linked, stamp, mail, native, round, pushed, missed, repeated>>

\* Outlook's own rule files a wanted message before it is ever in the inbox.  A
\* message is also out of every query's reach when no stamp precedes it, when the
\* stamp is of this very instant, or when a round has asked and not yet stamped.
Arrive(m) ==
  /\ mail[m] = Absent
  /\ LET filed == native /\ m \in Wanted
     IN /\ mail' = [mail EXCEPT ![m] = [at |-> now, in |-> IF filed THEN "folder" ELSE "inbox"]]
        /\ missed' = IF filed \/ stamp \in {Never, now} \/ Asked # {} THEN missed \cup {m} ELSE missed
  /\ UNCHANGED <<now, linked, stamp, native, round, pushed, repeated>>

\* POST /email/disconnect removes the account; connecting again makes a new one.
Disconnect ==
  /\ linked
  /\ linked' = FALSE /\ stamp' = Never
  /\ UNCHANGED <<now, mail, native, round, pushed, missed, repeated>>

Connect ==
  /\ ~linked
  /\ linked' = TRUE
  /\ missed' = missed \cup {m \in Arrived : pushed[m] = 0}
  /\ UNCHANGED <<now, stamp, mail, native, round, pushed, repeated>>

-----------------------------------------------------------------------------
(* A round. *)

\* pollOnce lists the accounts and takes them one after another.
Begin(r) ==
  /\ round[r].pc = "idle" /\ linked
  /\ round' = [round EXCEPT ![r] = [Idle EXCEPT !.pc = "ask", !.since = stamp]]
  /\ UNCHANGED <<now, linked, stamp, mail, native, pushed, missed, repeated>>

\* The first round of an account only sets the baseline.
Baseline(r) ==
  /\ round[r].pc = "ask" /\ round[r].since = Never
  /\ stamp' = Stamped(now)
  /\ round' = [round EXCEPT ![r] = Idle]
  /\ missed' = missed \cup {m \in Arrived : pushed[m] = 0}
  /\ UNCHANGED <<now, linked, mail, native, pushed, repeated>>

\* receivedDateTime gt since, newest first, the first Top of them.
SinceInclusive(t) == {m \in Arrived : mail[m].in = "inbox" /\ mail[m].at >= t}
Since(t) == {m \in Arrived : mail[m].in = "inbox" /\ mail[m].at > t}
Newest(all, kept) ==
  /\ kept \subseteq all
  /\ Cardinality(kept) = Min({Top, Cardinality(all)})
  /\ \A m \in kept, n \in all \ kept : mail[m].at >= mail[n].at

\* graph.newSince; any Graph error, or the account being gone, ends the round.
NewSince(r) ==
  /\ round[r].pc = "ask" /\ round[r].since # Never /\ linked
  /\ \E kept \in {k \in SUBSET Since(round[r].since) : Newest(Since(round[r].since), k)} :
       /\ round' = [round EXCEPT ![r].pc = "file", ![r].found = kept]
       /\ missed' = missed \cup (Since(round[r].since) \ kept)
       /\ repeated' = IF Busy # {r} \/ stamp # round[r].since THEN repeated \cup kept ELSE repeated
  /\ UNCHANGED <<now, linked, stamp, mail, native, pushed>>

\* The wanted ones are moved, each move that fails left where it was.  What another
\* round has not asked for yet is then gone from the inbox.
File(r) ==
  /\ round[r].pc = "file"
  /\ \E moved \in SUBSET (round[r].found \cap Wanted) :
       /\ linked \/ moved = {}
       /\ mail' = [m \in Mails |-> IF m \in moved THEN [mail[m] EXCEPT !.in = "folder"] ELSE mail[m]]
  /\ round' = [round EXCEPT ![r].pc = "push"]
  /\ UNCHANGED <<now, linked, stamp, native, pushed, missed, repeated>>

\* One message is announced by its subject, several by their number.
AnnouncedOfInbox(r) == {m \in round[r].found : mail[m].in = "inbox"}
Announced(r) == round[r].found
Push(r) ==
  /\ round[r].pc = "push"
  /\ pushed' = [m \in Mails |-> IF m \in Announced(r) THEN Min({2, pushed[m] + 1}) ELSE pushed[m]]
  /\ round' = [round EXCEPT ![r].pc = "stamp"]
  /\ UNCHANGED <<now, linked, stamp, mail, native, missed, repeated>>

\* The stamp is the time the round ends, not the time it asked.
Stamp(r) ==
  /\ round[r].pc = "stamp"
  /\ stamp' = Stamped(now)
  /\ round' = [round EXCEPT ![r] = Idle]
  /\ UNCHANGED <<now, linked, mail, native, pushed, missed, repeated>>

\* A Graph error, a failed write or a restart ends the round without a stamp; what it
\* had filed and not yet pushed, or another round has stamped past, no round sees again.
Fail(r) ==
  /\ round[r].pc # "idle"
  /\ round' = [round EXCEPT ![r] = Idle]
  /\ repeated' = IF round[r].pc = "stamp" THEN repeated \cup round[r].found ELSE repeated
  /\ missed' = IF round[r].pc \in {"file", "push"}
                 THEN missed \cup {m \in round[r].found : mail[m].in = "folder" \/ mail[m].at <= stamp}
                 ELSE missed
  /\ UNCHANGED <<now, linked, stamp, mail, native, pushed>>

\* The one-time upgrade of a folder without a rule of Outlook's own.
Upgrade(r) ==
  /\ round[r].pc = "file" /\ ~native /\ linked
  /\ native' = TRUE
  /\ UNCHANGED <<now, linked, stamp, mail, round, pushed, missed, repeated>>

MailNext ==
  \/ Tick \/ Disconnect \/ Connect
  \/ \E m \in Mails : Arrive(m)
  \/ \E r \in Rounds : Begin(r) \/ Baseline(r) \/ NewSince(r) \/ File(r) \/ Push(r) \/ Stamp(r) \/ Fail(r) \/ Upgrade(r)

MailSpec == MailInit /\ [][MailNext]_mailVars

-----------------------------------------------------------------------------
(* Properties. *)

\* Once the stamp has passed a message, no later round will return it: by then it has
\* been announced, also when it was filed on the way, or a round holds it to announce,
\* unless no round could have seen it.
AnnouncedUnlessMissed ==
  \A m \in Arrived : mail[m].at <= stamp /\ m \notin missed =>
    \/ pushed[m] > 0
    \/ \E r \in Rounds : round[r].pc \in {"file", "push"} /\ m \in round[r].found

\* One message is announced once, unless two rounds ran at once or one was cut short
\* between its push and its stamp.
AnnouncedOnceUnlessRepeated == \A m \in Mails : pushed[m] > 1 => m \in repeated
=============================================================================
