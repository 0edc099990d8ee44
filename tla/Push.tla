-------------------------------- MODULE Push --------------------------------
(***************************************************************************)
(* How a phone is reached when the app is not connected: a call that rings *)
(* over Apple's VoIP push or Firebase and stops, and a chat message that   *)
(* goes over Firebase or else over Expo (src/src/push, chat.push.ts and    *)
(* the senders beside call.service.ts).                                    *)
(*                                                                         *)
(* Tokens are rows that phones register and that move with whoever signs   *)
(* in on them; a token stands here for its phone.  Every sender reads the  *)
(* tokens and then works through them, and nobody waits for it.            *)
(***************************************************************************)
EXTENDS Naturals, FiniteSets

CONSTANTS
  Users, Callee,     \* people, and the one who is called and written to
  Phones,
  Ios, CallKit,      \* the iPhones, and those of them with a build that takes VoIP pushes
  Unnamed,           \* phones that register without their platform
  MaxChanges         \* bound: sign-ins, removals of the app, blocks and mutes

VARIABLES
  keys,       \* which transports the server has keys for, and EXPO_PUSH_ENABLED
  firebase,   \* phones whose build registers with Firebase; the others have Expo only
  user,       \* who is signed in on each phone
  live,       \* phones with the app
  fcmRows, voipRows, expoRows,  \* the three collections of tokens: [Phones -> user, or None]
  production, \* the APNs host each VoIP row asks for
  sender,     \* what each sender has left to do
  pruning,    \* removals of dead tokens under way
  call,       \* the call: stage, whether it is over, and hasVoip
  hushed,     \* how Callee has silenced the author: "blocks", "mutes"
  rung, rings, \* how each phone was rung, and those that still ring
  reached,    \* the message: <<way, phone>>
  changes,    \* bound
  unsteady,   \* history: phones whose tokens changed or failed since the call, or the message
  late,       \* history: phones rung when the call was over
  rethought   \* history: was the author silenced while the message was on its way?

pushing == <<keys, firebase, user, live, fcmRows, voipRows, expoRows, production, sender, pruning, call,
             hushed, rung, rings, reached, changes, unsteady, late, rethought>>

None == "none"
Rest == [pc |-> "rest", left |-> {}, sent |-> 0]
Done == [pc |-> "done", left |-> {}, sent |-> 0]
Read == [pc |-> "read", left |-> {}, sent |-> 0]
Rings   == {"ringVoip", "ringFcm"}
Cancels == {"cancelVoip", "cancelFcm"}
Senders == Rings \cup Cancels \cup {"chat"}

Of(rows)     == {p \in Phones : rows[p] = Callee}
\* platform = 'ios'
NamedIos     == Ios \ Unnamed

PushInit ==
  /\ keys \in [fcm : BOOLEAN, voip : BOOLEAN, expo : BOOLEAN] /\ firebase \in SUBSET Phones
  /\ user = [p \in Phones |-> Callee] /\ live = Phones
  /\ fcmRows = [p \in Phones |-> IF p \in firebase THEN Callee ELSE None] /\ expoRows = user
  /\ voipRows = [p \in Phones |-> IF p \in CallKit THEN Callee ELSE None]
  /\ production \in [CallKit -> BOOLEAN]
  /\ sender = [s \in Senders |-> Rest] /\ pruning = {}
  /\ call = [stage |-> "none", over |-> FALSE, hasVoip |-> FALSE]
  /\ hushed = {}
  /\ rung = [p \in Phones |-> {}] /\ rings = {} /\ reached = {}
  /\ changes = 0 /\ unsteady = {} /\ late = {} /\ rethought = FALSE

-----------------------------------------------------------------------------
(* Phones and their tokens. *)

Sees == <<keys, firebase, sender, call, rung, rings, reached, late>>

\* Somebody else signs in, perhaps on a phone that had lost the app.
SignIn(p, u) ==
  /\ changes < MaxChanges /\ user[p] # u
  /\ user' = [user EXCEPT ![p] = u] /\ live' = live \cup {p}
  /\ changes' = changes + 1 /\ unsteady' = unsteady \cup {p}
  /\ UNCHANGED <<Sees, fcmRows, voipRows, expoRows, production, pruning, hushed, rethought>>

RemoveApp(p) ==
  /\ changes < MaxChanges /\ p \in live
  /\ live' = live \ {p} /\ changes' = changes + 1 /\ unsteady' = unsteady \cup {p}
  /\ UNCHANGED <<Sees, user, fcmRows, voipRows, expoRows, production, pruning, hushed, rethought>>

registerDevice(p) ==
  /\ p \in live /\ expoRows[p] # user[p]
  /\ expoRows' = [expoRows EXCEPT ![p] = user[p]]
  /\ UNCHANGED <<Sees, user, live, fcmRows, voipRows, production, pruning, hushed, changes, unsteady, rethought>>

registerFcm(p) ==
  /\ p \in live \cap firebase /\ fcmRows[p] # user[p]
  /\ fcmRows' = [fcmRows EXCEPT ![p] = user[p]]
  /\ UNCHANGED <<Sees, user, live, voipRows, expoRows, production, pruning, hushed, changes, unsteady, rethought>>

registerVoip(p) ==
  /\ p \in live \cap CallKit /\ voipRows[p] # user[p]
  /\ voipRows' = [voipRows EXCEPT ![p] = user[p]]
  /\ UNCHANGED <<Sees, user, live, fcmRows, expoRows, production, pruning, hushed, changes, unsteady, rethought>>

\* A removal lands, whoever the row is of by then.  Firebase gives a phone that has the
\* app again another token, so its row stays; Apple's is the same.
removeByToken(p) ==
  /\ <<"fcm", p>> \in pruning
  /\ pruning' = pruning \ {<<"fcm", p>>}
  /\ fcmRows' = IF p \in live THEN fcmRows ELSE [fcmRows EXCEPT ![p] = None]
  /\ UNCHANGED <<Sees, user, live, voipRows, expoRows, production, hushed, changes, unsteady, rethought>>

remove(p) ==
  /\ <<"voip", p>> \in pruning
  /\ pruning' = pruning \ {<<"voip", p>>}
  /\ voipRows' = [voipRows EXCEPT ![p] = None]
  /\ UNCHANGED <<Sees, user, live, fcmRows, expoRows, production, hushed, changes, unsteady, rethought>>

-----------------------------------------------------------------------------
(* The transports: what a send may come to, TRUE when it was taken. *)

sendData(p) == IF p \in live THEN {"taken", "failed"} ELSE {"gone", "failed"}

\* A phone without the app is unknown or unregistered to both of Apple's hosts, one with it
\* to the wrong one.  Real is the host its build belongs to.
post(p, host, real) ==
  {"failed"} \cup IF p \in live THEN {IF host = real THEN "taken" ELSE "bad"} ELSE {"bad", "gone"}

send(p) ==
  LET Second(r) == IF r = "bad" THEN post(p, ~production[p], TRUE) ELSE {r}
  IN {IF r = "bad" THEN "gone" ELSE r : r \in UNION {Second(x) : x \in post(p, production[p], TRUE)}}

\* s sends to p over a transport with one of the results, and a dead token is on its way out.
Sends(s, p, via, r) ==
  /\ sender[s].pc = "send" /\ p \in sender[s].left
  /\ sender' = [sender EXCEPT ![s].left = @ \ {p}, ![s].sent = IF r = "taken" THEN @ + 1 ELSE @]
  /\ pruning' = IF r = "gone" THEN pruning \cup {<<via, p>>} ELSE pruning
  /\ unsteady' = IF r = "taken" THEN unsteady ELSE unsteady \cup {p}
  /\ UNCHANGED <<keys, firebase, user, live, fcmRows, voipRows, expoRows, production, hushed, changes, rethought>>

\* As Tokens, but iPhones are sent the alert of a call beside the VoIP push.
TokensUnskipped(s) == IF s \in {"ringVoip", "cancelVoip"} THEN Of(voipRows) ELSE Of(fcmRows)

Tokens(s) == CASE s \in {"ringVoip", "cancelVoip"} -> Of(voipRows)
               [] s \in {"cancelFcm", "chat"} -> Of(fcmRows)
               [] s = "ringFcm" -> IF call.hasVoip THEN Of(fcmRows) \ NamedIos ELSE Of(fcmRows)

Still == <<keys, firebase, user, live, fcmRows, voipRows, expoRows, production, pruning, hushed, changes>>

\* A sender looks its tokens up.
Begin(s) ==
  /\ sender[s].pc = "read"
  /\ sender' = [sender EXCEPT ![s] = [@ EXCEPT !.pc = "send", !.left = Tokens(s)]]
  /\ UNCHANGED <<Still, call, rung, rings, reached, unsteady, late, rethought>>

-----------------------------------------------------------------------------
(* A call. *)

Idle == call.stage = "none" /\ sender["chat"] = Rest
Start(starts) == sender' = [s \in Senders |-> IF s \in starts THEN Read ELSE sender[s]]

\* deviceCount; the socket has rung whoever is connected.
initiate ==
  /\ Idle
  /\ LET has == keys.voip /\ Of(voipRows) # {}
     IN /\ call' = [stage |-> IF keys.fcm \/ has THEN "rung" ELSE "offline", over |-> FALSE, hasVoip |-> has]
        /\ Start((IF has THEN {"ringVoip"} ELSE {}) \cup (IF keys.fcm THEN {"ringFcm"} ELSE {}))
  /\ UNCHANGED <<Still, rung, rings, reached, unsteady, late, rethought>>

\* callPush.sendIncomingCall: no connection, Firebase or Apple key.
ringExpo ==
  /\ call.stage = "offline" /\ call' = [call EXCEPT !.stage = "rung"]
  /\ \E online \in BOOLEAN :
       rung' = IF online \/ ~keys.expo THEN rung
               ELSE [p \in Phones |-> IF p \in Of(expoRows) \cap live THEN {"expo"} ELSE {}]
  /\ UNCHANGED <<Still, sender, rings, reached, unsteady, late, rethought>>

sendIncomingCall(s, p) ==
  /\ s \in Rings /\ p \in sender[s].left
  /\ \E r \in IF s = "ringVoip" THEN send(p) ELSE sendData(p) :
       /\ Sends(s, p, IF s = "ringVoip" THEN "voip" ELSE "fcm", r)
       /\ rung' = IF r = "taken" THEN [rung EXCEPT ![p] = @ \cup {s}] ELSE rung
       /\ rings' = IF r = "taken" THEN rings \cup {p} ELSE rings
       /\ late' = IF r = "taken" /\ call.over THEN late \cup {p} ELSE late
  /\ UNCHANGED <<call, reached>>

\* finalize
finalize ==
  /\ call.stage = "rung" /\ ~call.over
  /\ call' = [call EXCEPT !.over = TRUE]
  /\ Start((IF keys.fcm THEN {"cancelFcm"} ELSE {}) \cup (IF keys.voip THEN {"cancelVoip"} ELSE {}))
  /\ UNCHANGED <<Still, rung, rings, reached, unsteady, late, rethought>>

sendCancel(s, p) ==
  /\ s \in Cancels /\ p \in sender[s].left
  /\ \E r \in IF s = "cancelVoip" THEN send(p) ELSE sendData(p) :
       /\ Sends(s, p, IF s = "cancelVoip" THEN "voip" ELSE "fcm", r)
       /\ rings' = IF r = "taken" THEN rings \ {p} ELSE rings
  /\ UNCHANGED <<call, rung, reached, late>>

-----------------------------------------------------------------------------
(* A message. *)

At(pc) == sender' = [sender EXCEPT !["chat"] = [@ EXCEPT !.pc = pc]]
ChatStep == UNCHANGED <<Still, call, rung, rings, late, rethought>>

\* blockedBy, then isMuted of who is left.
blockers ==
  /\ Idle /\ At(IF "blocks" \in hushed THEN "done" ELSE "mutes") /\ ChatStep /\ UNCHANGED <<reached, unsteady>>

mutes ==
  /\ sender["chat"].pc = "mutes"
  /\ At(IF "mutes" \in hushed THEN "done" ELSE IF keys.fcm THEN "read" ELSE "expo")
  /\ ChatStep /\ UNCHANGED <<reached, unsteady>>

notifyNewMessage(p) ==
  /\ \E r \in sendData(p) :
       /\ Sends("chat", p, "fcm", r)
       /\ reached' = IF r = "taken" THEN reached \cup {<<"fcm", p>>} ELSE reached
  /\ UNCHANGED <<call, rung, rings, late>>

\* if (sent > 0) return sent
fallThrough ==
  /\ sender["chat"].pc = "send" /\ sender["chat"].left = {}
  /\ At(IF sender["chat"].sent > 0 THEN "done" ELSE "expo") /\ ChatStep /\ UNCHANGED <<reached, unsteady>>

\* One post for all the tokens, with a ticket for each; a dry run unless enabled.
postToExpo ==
  /\ sender["chat"].pc = "expo" /\ At("done") /\ ChatStep
  /\ \E taken \in SUBSET (Of(expoRows) \cap live) :
       /\ taken # {} => keys.expo
       /\ reached' = reached \cup {<<"expo", p>> : p \in taken}
       /\ unsteady' = IF ~keys.expo THEN unsteady
                      ELSE IF taken = {} THEN Phones ELSE unsteady \cup (Of(expoRows) \ taken)

\* Callee blocks or mutes the author, or relents.
Hush(how) ==
  /\ changes < MaxChanges /\ changes' = changes + 1
  /\ hushed' = IF how \in hushed THEN hushed \ {how} ELSE hushed \cup {how}
  /\ rethought' = (rethought \/ sender["chat"] # Rest)
  /\ UNCHANGED <<Sees, user, live, fcmRows, voipRows, expoRows, production, pruning, unsteady>>

\* The process dies with what it was about to send and remove.
Die ==
  /\ \E s \in Senders : sender[s] \notin {Rest, Done}
  /\ sender' = [s \in Senders |-> Done] /\ pruning' = {} /\ unsteady' = Phones
  /\ UNCHANGED <<keys, firebase, user, live, fcmRows, voipRows, expoRows, production, call, hushed,
                 rung, rings, reached, changes, late, rethought>>

PushNext ==
  \/ \E p \in Phones : \/ \E u \in Users : SignIn(p, u)
                       \/ RemoveApp(p) \/ registerDevice(p) \/ registerFcm(p) \/ registerVoip(p)
                       \/ removeByToken(p) \/ remove(p) \/ notifyNewMessage(p)
                       \/ \E s \in Senders : sendIncomingCall(s, p) \/ sendCancel(s, p)
  \/ \E s \in Senders : Begin(s)
  \/ initiate \/ ringExpo \/ finalize \/ blockers \/ mutes \/ fallThrough \/ postToExpo
  \/ \E how \in {"blocks", "mutes"} : Hush(how)
  \/ Die

-----------------------------------------------------------------------------
Over(s) == sender[s].pc # "read" /\ sender[s].left = {}

PushTypeOK ==
  /\ user \in [Phones -> Users] /\ live \subseteq Phones
  /\ \A rows \in {fcmRows, voipRows, expoRows} : rows \in [Phones -> Users \cup {None}]
  /\ \A p \in Phones : /\ voipRows[p] # None => p \in CallKit
                       /\ fcmRows[p] # None => p \in firebase
  /\ pruning \subseteq {"fcm", "voip"} \X Phones
  /\ rings \cup unsteady \cup late \subseteq Phones

\* A phone that takes VoIP pushes is not rung a second time by the alert, unless it never
\* told its platform, however tokens move and removals land.  (call.service.ts: "avoids
\* both a double notification on new builds and a silent miss on old ones".)
RungOneWay == \A p \in Phones \ Unnamed : \A s, t \in rung[p] : s = t

\* And of the phones with a Firebase token, an iPhone is missed only if it has no VoIP token while
\* another phone of the person has one; or if something about it changed or failed.
LeftOutOnlyIfShadowed ==
  (keys.fcm /\ call.stage = "rung" /\ \A s \in Rings : Over(s)) =>
    \A p \in Of(fcmRows) \ unsteady :
      rung[p] # {} \/ (call.hasVoip /\ p \in NamedIos \ Of(voipRows))

\* A call that is over, and whose cancellations have been sent, rings on no phone, except one that
\* was rung after it was over or whose token changed or failed.
StopsRingingUnlessLate ==
  (call.over /\ \A s \in Rings \cup Cancels : Over(s)) => rings \subseteq unsteady \cup late

\* A phone without a Firebase token is left out when another phone of the person took the
\* message over Firebase: the fallback to Expo is the person's, not the phone's (chat.push.ts:120).
LeftToFirebase == keys.fcm /\ \E q \in Phones : <<"fcm", q>> \in reached

\* A message is pushed to no one who blocks or mutes the author, unless they have just changed
\* their mind; and to every phone of anybody else that has a token, except those left to
\* Firebase, those that only a disabled Expo could reach, and those whose token changed or failed.
PushedUnlessSilencedOrLeftToFirebase ==
  /\ reached # {} => hushed = {} \/ rethought
  /\ (sender["chat"].pc = "done" /\ hushed = {} /\ ~rethought) =>
       /\ \A p \in Of(fcmRows) \ unsteady : keys.fcm => <<"fcm", p>> \in reached
       /\ \A p \in Of(expoRows) \ unsteady :
            \/ <<"expo", p>> \in reached
            \/ LeftToFirebase \/ ~keys.expo
  /\ (\E p \in Phones : <<"expo", p>> \in reached) => ~\E p \in Phones : <<"fcm", p>> \in reached
=============================================================================
