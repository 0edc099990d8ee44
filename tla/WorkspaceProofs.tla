--------------------------- MODULE WorkspaceProofs ---------------------------
(***************************************************************************)
(* What the workspace keeps, for any devices, businesses, branches,        *)
(* channels, messages, folders, phones and posts.  Its parts share no      *)
(* state: each has an inductive invariant of its own (SessInv, DirInv,     *)
(* MailInv, FolderInv, PushInv, AccessInv, PostInv), and its theorem at    *)
(* the end of its part; the mailbox and its folders have one between them, *)
(* and so have the ladder of access and the alerts that land.              *)
(***************************************************************************)
EXTENDS MCWorkspace, FiniteSetTheorems, TLAPS

-----------------------------------------------------------------------------
(* Sessions. *)

Kept == {"in", "read", "gated"}

\* Tokens are numbered as they are issued, and what a device holds was issued to it.
FreshTokens == \A t \in 1..MaxTokens : t > issued => sessions[t] = Signing!None /\ t \notin twice

HoldsInOrder(d) ==
  /\ device[d].kept <= issued /\ device[d].new <= issued
  /\ device[d].phase \in Kept => device[d].kept # 0
  /\ device[d].phase = "answered" <=> device[d].new # 0
  /\ device[d].new \notin twice

TokensInOrder == FreshTokens /\ \A d \in Requests : HoldsInOrder(d)

\* No two devices hold one token, unless it is being refreshed twice.
Apart(d, e) ==
  /\ device[d].new # 0 => device[d].new # device[e].kept
  /\ d # e /\ device[d].new # 0 => device[d].new # device[e].new
  /\ d # e /\ device[d].kept # 0 /\ device[d].kept = device[e].kept => device[d].kept \in twice

OneHolder == \A d, e \in Requests : Apart(d, e)

\* A token that is refreshed one at a time lives its life, or the grace period after its first
\* rotation if that ends before; and whoever refreshes it has read when it ends.
LivesOut(t) ==
  LET s == sessions[t] IN
  t \notin twice /\ t <= issued =>
    /\ s.rotated = 0 => s.expires = s.born + Life
    /\ s.rotated # 0 =>
         /\ s.rotated - 1 <= instant
         /\ s.expires <= (s.rotated - 1) + Grace
         /\ s.expires = s.born + Life \/ s.expires = (s.rotated - 1) + Grace

KnowsTheEnd(d) ==
  device[d].phase \in {"read", "gated"} /\ device[d].kept \notin twice =>
    device[d].read = sessions[device[d].kept].expires

EndsAsItShould ==
  (\A t \in 1..MaxTokens : LivesOut(t)) /\ (\A d \in Requests : KnowsTheEnd(d))

\* Until access is switched, what is held is live.
HoldsLive(d) ==
  /\ device[d].kept # 0 /\ device[d].kept \notin twice => sessions[device[d].kept].live
  /\ device[d].new # 0 => sessions[device[d].new].live

HeldIsLive ==
  switches = 0 => enabled /\ ~revoking /\ \A d \in Requests : HoldsLive(d)

\* Who is switched off has no session but those of requests that the switch crossed, and
\* a cached answer is that of the switch, unless it was read before.
PassedBefore(d) == device[d].phase \in {"gated", "passed"} => device[d].crossed

OffIsOff ==
  /\ revoking => ~enabled
  /\ cached # "none" /\ ~outdated => cached = Signing!Answer
  /\ ~enabled => \A d \in Requests : PassedBefore(d)
  /\ ~enabled /\ ~revoking => \A t \in 1..MaxTokens : t \notin slipped => ~sessions[t].live

Ends  == 0..(LastTick + Life)
Ticks == 0..LastTick
Held  == 0..MaxTokens

SessionDoc == [live : BOOLEAN, expires : Ends, born : Ticks, rotated : 0..(LastTick + 1)]

DeviceState ==
  [phase : {"out", "in", "read", "gated", "passed", "answered"}, kept : Held, new : Held,
   read : Ends, crossed : BOOLEAN]

SessTypes ==
  /\ instant \in 0..LastTick /\ issued \in 0..MaxTokens /\ switches \in 0..MaxSwitches
  /\ sessions \in [1..MaxTokens -> SessionDoc]
  /\ device \in [Requests -> DeviceState]
  /\ enabled \in BOOLEAN /\ revoking \in BOOLEAN /\ outdated \in BOOLEAN
  /\ cached \in {"none", "on", "off"} /\ fetch \in {"none", "on", "off"}
  /\ slipped \subseteq 1..MaxTokens /\ twice \subseteq 1..MaxTokens

SessInv ==
  SessTypes /\ TokensInOrder /\ OneHolder /\ EndsAsItShould /\ HeldIsLive /\ OffIsOff

LEMMA SessTypesAre == SessTypes => Signing!SessTypeOK
BY DEF SessTypes, Signing!SessTypeOK, SessionDoc, DeviceState, Ends, Ticks, Held, Signing!Tokens, Signing!OfAnswer

LEMMA RestOfDevice == Signing!SignedOut \in DeviceState /\ Signing!None \in SessionDoc
BY SessionConstants DEF Signing!SignedOut, DeviceState, Signing!NoToken, Signing!None, SessionDoc, Ends, Ticks, Held

\* A token that works is a token, and ends when a session may end.
LEMMA UsableTokens ==
  ASSUME SessTypes, NEW d \in Requests, Signing!Usable(device[d].kept)
  PROVE  device[d].kept \in 1..MaxTokens /\ sessions[device[d].kept].expires \in Ends
<1>1. device[d].kept \in 0..MaxTokens /\ device[d].kept # 0
  BY DEF SessTypes, Signing!Usable, DeviceState, Signing!NoToken, Held
<1>2. device[d].kept \in 1..MaxTokens
  BY <1>1, SessionConstants
<1>3. sessions[device[d].kept] \in SessionDoc
  BY <1>2 DEF SessTypes
<1> QED BY <1>2, <1>3 DEF SessionDoc

LEMMA GateAnswers ==
  ASSUME SessTypes, NEW through, NEW refused, Signing!Gate(through, refused)
  PROVE  /\ cached' \in {"none", "on", "off"} /\ outdated' \in BOOLEAN
         /\ through \/ refused
BY DEF SessTypes, Signing!Gate, Signing!Answer

LEMMA DeviceWith ==
  ASSUME NEW x \in DeviceState
  PROVE  /\ \A c \in BOOLEAN : [x EXCEPT !.phase = "gated", !.crossed = c] \in DeviceState
         /\ \A c \in BOOLEAN : [x EXCEPT !.phase = "passed", !.crossed = c] \in DeviceState
         /\ \A c \in BOOLEAN : [x EXCEPT !.crossed = c] \in DeviceState
         /\ \A r \in Ends : [x EXCEPT !.phase = "read", !.read = r] \in DeviceState
         /\ \A n \in Held : [x EXCEPT !.phase = "answered", !.new = n] \in DeviceState
         /\ [x EXCEPT !.phase = "passed"] \in DeviceState
<1>1. \A c \in BOOLEAN : [x EXCEPT !.phase = "gated", !.crossed = c] \in DeviceState
  BY DEF DeviceState
<1>2. \A c \in BOOLEAN : [x EXCEPT !.phase = "passed", !.crossed = c] \in DeviceState
  BY DEF DeviceState
<1>3. \A c \in BOOLEAN : [x EXCEPT !.crossed = c] \in DeviceState
  BY DEF DeviceState
<1>4. \A r \in Ends : [x EXCEPT !.phase = "read", !.read = r] \in DeviceState
  BY DEF DeviceState
<1>5. \A n \in Held : [x EXCEPT !.phase = "answered", !.new = n] \in DeviceState
  BY DEF DeviceState
<1>6. [x EXCEPT !.phase = "passed"] \in DeviceState
  BY DEF DeviceState
<1> QED BY <1>1, <1>2, <1>3, <1>4, <1>5, <1>6

LEMMA DeviceBack ==
  /\ \A n \in Held : [Signing!SignedOut EXCEPT !.phase = "in", !.kept = n] \in DeviceState
  /\ \A n \in Held, r \in Ends :
       [Signing!SignedOut EXCEPT !.phase = "read", !.kept = n, !.read = r] \in DeviceState
<1>1. Signing!SignedOut = [phase |-> "out", kept |-> 0, new |-> 0, read |-> 0, crossed |-> FALSE] /\ 0 \in Held /\ 0 \in Ends
  BY SessionConstants DEF Signing!SignedOut, Signing!NoToken, Held, Ends
<1>2. \A n \in Held : [Signing!SignedOut EXCEPT !.phase = "in", !.kept = n] \in DeviceState
  BY <1>1 DEF DeviceState
<1>3. \A n \in Held, r \in Ends :
       [Signing!SignedOut EXCEPT !.phase = "read", !.kept = n, !.read = r] \in DeviceState
  BY <1>1 DEF DeviceState
<1> QED BY <1>2, <1>3

LEMMA SessionWith ==
  ASSUME NEW x \in SessionDoc, NEW e \in Ends, NEW r \in 0..(LastTick + 1)
  PROVE  /\ [x EXCEPT !.expires = e, !.rotated = r] \in SessionDoc
         /\ [x EXCEPT !.live = FALSE] \in SessionDoc
BY DEF SessionDoc

LEMMA SessionUpdate ==
  ASSUME SessTypes, NEW t \in 1..MaxTokens, NEW x \in SessionDoc, sessions' = [sessions EXCEPT ![t] = x]
  PROVE  /\ sessions' \in [1..MaxTokens -> SessionDoc]
         /\ sessions'[t] = x
         /\ \A u \in 1..MaxTokens : u # t => sessions'[u] = sessions[u]
BY DEF SessTypes

LEMMA DeviceUpdate ==
  ASSUME SessTypes, NEW d \in Requests, NEW x \in DeviceState, device' = [device EXCEPT ![d] = x]
  PROVE  /\ device' \in [Requests -> DeviceState]
         /\ device'[d] = x
         /\ \A e \in Requests : e # d => device'[e] = device[e]
BY DEF SessTypes

\* What the devices hold after each step of one of them.
Elsewhere(d) == \A e \in Requests : e # d => device'[e] = device[e]
DevicesTyped == device' \in [Requests -> DeviceState]

LEMMA DeviceFields ==
  ASSUME SessTypes, NEW d \in Requests
  PROVE  /\ device[d] \in DeviceState
         /\ device[d].kept \in Nat /\ device[d].new \in Nat /\ device[d].kept \in Held
         /\ device[d].new \in Held /\ device[d].crossed \in BOOLEAN /\ device[d].read \in Ends
         /\ issued \in Nat /\ issued \in Held
BY SessionConstants DEF SessTypes, DeviceState, Held

LEMMA LoginDoes ==
  ASSUME SessTypes, NEW d \in Requests, Signing!Login(d)
  PROVE  /\ DevicesTyped /\ Elsewhere(d)
         /\ device'[d].kept = device[d].kept /\ device'[d].new = device[d].new
         /\ device'[d].phase \in {"out", "passed"} /\ device[d].phase = "out"
         /\ device'[d].phase = "passed" => device'[d].crossed = outdated' /\ cached' = "on"
<1>1. outdated' \in BOOLEAN
  BY GateAnswers DEF Signing!Login
<1>2. device[d].phase = "out"
  BY DEF Signing!Login
<1>3. CASE UNCHANGED device
  BY <1>2, <1>3 DEF DevicesTyped, Elsewhere, SessTypes
<1>4. CASE cached' = "on" /\ device' = [device EXCEPT ![d] = [device[d] EXCEPT !.phase = "passed", !.crossed = outdated']]
  <2> DEFINE x == [device[d] EXCEPT !.phase = "passed", !.crossed = outdated']
  <2>1. x \in DeviceState
    BY <1>1, DeviceFields, DeviceWith
  <2>2. x.kept = device[d].kept /\ x.new = device[d].new /\ x.phase = "passed" /\ x.crossed = outdated'
    BY DeviceFields DEF DeviceState
  <2>3. device' = [device EXCEPT ![d] = x]
    BY <1>4
  <2> HIDE DEF x
  <2> QED BY <1>2, <1>4, <2>1, <2>2, <2>3, DeviceUpdate DEF DevicesTyped, Elsewhere
<1> QED BY <1>3, <1>4 DEF Signing!Login, Signing!Gate, SessTypes

LEMMA RefreshGateDoes ==
  ASSUME SessTypes, NEW d \in Requests, Signing!RefreshGate(d)
  PROVE  /\ DevicesTyped /\ Elsewhere(d) /\ device[d].phase = "read"
         /\ \/ device'[d] = Signing!SignedOut
            \/ /\ device'[d].phase = "gated" /\ cached' = "on" /\ device'[d].crossed = outdated'
               /\ device'[d].kept = device[d].kept /\ device'[d].new = device[d].new
               /\ device'[d].read = device[d].read
<1>1. outdated' \in BOOLEAN
  BY GateAnswers DEF Signing!RefreshGate
<1>2. device[d].phase = "read"
  BY DEF Signing!RefreshGate
<1>3. CASE device' = [device EXCEPT ![d] = Signing!SignedOut]
  BY <1>2, <1>3, RestOfDevice, DeviceUpdate DEF DevicesTyped, Elsewhere
<1>4. CASE cached' = "on" /\ device' = [device EXCEPT ![d] = [device[d] EXCEPT !.phase = "gated", !.crossed = outdated']]
  <2> DEFINE x == [device[d] EXCEPT !.phase = "gated", !.crossed = outdated']
  <2>1. x \in DeviceState
    BY <1>1, DeviceFields, DeviceWith
  <2>2. /\ x.kept = device[d].kept /\ x.new = device[d].new /\ x.phase = "gated" /\ x.crossed = outdated'
        /\ x.read = device[d].read
    BY DeviceFields DEF DeviceState
  <2>3. device' = [device EXCEPT ![d] = x]
    BY <1>4
  <2> HIDE DEF x
  <2> QED BY <1>2, <1>4, <2>1, <2>2, <2>3, DeviceUpdate DEF DevicesTyped, Elsewhere
<1> QED BY <1>3, <1>4 DEF Signing!RefreshGate, Signing!Gate, SessTypes

LEMMA RefreshDoes ==
  ASSUME SessTypes, NEW d \in Requests, Signing!Refresh(d)
  PROVE  /\ DevicesTyped /\ Elsewhere(d) /\ device[d].phase = "in"
         /\ \/ device'[d] = Signing!SignedOut
            \/ /\ device'[d].phase = "read" /\ Signing!Usable(device[d].kept)
               /\ device'[d].read = sessions[device[d].kept].expires
               /\ device'[d].kept = device[d].kept /\ device'[d].new = device[d].new
<1>2. device[d].phase = "in"
  BY DEF Signing!Refresh
<1>3. CASE ~Signing!Usable(device[d].kept)
  <2>1. device' = [device EXCEPT ![d] = Signing!SignedOut]
    BY <1>3 DEF Signing!Refresh
  <2> QED BY <1>2, <2>1, RestOfDevice, DeviceUpdate DEF DevicesTyped, Elsewhere
<1>4. CASE Signing!Usable(device[d].kept)
  <2> DEFINE x == [device[d] EXCEPT !.phase = "read", !.read = sessions[device[d].kept].expires]
  <2>1. x \in DeviceState
    BY <1>4, UsableTokens, DeviceFields, DeviceWith
  <2>2. /\ x.kept = device[d].kept /\ x.new = device[d].new /\ x.phase = "read"
        /\ x.read = sessions[device[d].kept].expires
    BY DeviceFields DEF DeviceState
  <2>3. device' = [device EXCEPT ![d] = x]
    BY <1>4 DEF Signing!Refresh
  <2> HIDE DEF x
  <2> QED BY <1>2, <1>4, <2>1, <2>2, <2>3, DeviceUpdate DEF DevicesTyped, Elsewhere
<1> QED BY <1>3, <1>4

\* The end a rotation leaves, and its mark.
EndAfter(d) ==
  IF device[d].read > instant + Grace THEN instant + Grace ELSE sessions[device[d].kept].expires
RotatedAt(d) ==
  IF sessions[device[d].kept].rotated = 0 THEN instant + 1 ELSE sessions[device[d].kept].rotated

LEMMA RotateDoes ==
  ASSUME SessTypes, TokensInOrder, NEW d \in Requests, Signing!Rotate(d)
  PROVE  /\ DevicesTyped /\ Elsewhere(d) /\ device[d].phase = "gated" /\ device'[d].phase = "passed"
         /\ device'[d].kept = device[d].kept /\ device'[d].new = device[d].new
         /\ device'[d].crossed = device[d].crossed
         /\ device[d].kept \in 1..MaxTokens
         /\ sessions' \in [1..MaxTokens -> SessionDoc]
         /\ \A u \in 1..MaxTokens : u # device[d].kept => sessions'[u] = sessions[u]
         /\ LET s == sessions'[device[d].kept] IN
            /\ s.live = sessions[device[d].kept].live /\ s.born = sessions[device[d].kept].born
            /\ s.expires = EndAfter(d) /\ s.rotated = RotatedAt(d)
<1> DEFINE t == device[d].kept
           x == [device[d] EXCEPT !.phase = "passed"]
           y == [sessions[t] EXCEPT !.expires = EndAfter(d), !.rotated = RotatedAt(d)]
<1>1. x \in DeviceState
  BY DeviceFields, DeviceWith
<1>2. /\ x.kept = device[d].kept /\ x.new = device[d].new /\ x.phase = "passed" /\ x.crossed = device[d].crossed
  BY DeviceFields DEF DeviceState
<1>3. device' = [device EXCEPT ![d] = x] /\ device[d].phase = "gated"
  BY DEF Signing!Rotate
<1>4. t \in 1..MaxTokens
  BY <1>3, DeviceFields, SessionConstants DEF TokensInOrder, HoldsInOrder, Kept, Held
<1>5. sessions[t] \in SessionDoc
  BY <1>4 DEF SessTypes
<1>6. EndAfter(d) \in Ends /\ RotatedAt(d) \in 0..(LastTick + 1)
  <2>1. /\ device[d].read \in Ends /\ sessions[t].expires \in Ends /\ sessions[t].rotated \in 0..(LastTick + 1)
        /\ instant \in 0..LastTick
    BY <1>5, DeviceFields DEF SessionDoc, SessTypes
  <2> QED BY <2>1, SessionConstants DEF Ends, EndAfter, RotatedAt
<1>7. y \in SessionDoc
  BY <1>5, <1>6, SessionWith
<1>8. y.live = sessions[t].live /\ y.born = sessions[t].born /\ y.expires = EndAfter(d) /\ y.rotated = RotatedAt(d)
  BY <1>5 DEF SessionDoc
<1>9. sessions' = [sessions EXCEPT ![t] = y]
  BY <1>4 DEF Signing!Rotate, SessTypes, EndAfter, RotatedAt
<1> HIDE DEF x, y
<1> QED BY <1>1, <1>2, <1>3, <1>4, <1>7, <1>8, <1>9, DeviceUpdate, SessionUpdate DEF DevicesTyped, Elsewhere

LEMMA IssueTokensDoes ==
  ASSUME SessTypes, NEW d \in Requests, Signing!IssueTokens(d)
  PROVE  /\ DevicesTyped /\ Elsewhere(d) /\ device[d].phase = "passed" /\ device'[d].phase = "answered"
         /\ device'[d].kept = device[d].kept /\ device'[d].new = issued'
         /\ issued' = issued + 1 /\ issued' \in 1..MaxTokens
         /\ sessions' \in [1..MaxTokens -> SessionDoc]
         /\ \A u \in 1..MaxTokens : u # issued' => sessions'[u] = sessions[u]
         /\ sessions'[issued'] = [live |-> TRUE, expires |-> instant + Life, born |-> instant, rotated |-> 0]
<1> DEFINE x == [device[d] EXCEPT !.phase = "answered", !.new = issued']
           y == [live |-> TRUE, expires |-> instant + Life, born |-> instant, rotated |-> 0]
<1>1. issued' \in 1..MaxTokens /\ issued' \in Held /\ issued' = issued + 1
  BY SessionConstants DEF SessTypes, Signing!IssueTokens, Held
<1>2. x \in DeviceState
  BY <1>1, DeviceFields, DeviceWith
<1>3. /\ x.kept = device[d].kept /\ x.new = issued' /\ x.phase = "answered"
  BY DeviceFields DEF DeviceState
<1>4. device' = [device EXCEPT ![d] = x] /\ device[d].phase = "passed"
  BY DEF Signing!IssueTokens
<1>5. y \in SessionDoc
  BY SessionConstants DEF SessTypes, SessionDoc, Ends, Ticks
<1>6. sessions' = [sessions EXCEPT ![issued'] = y]
  BY DEF Signing!IssueTokens
<1> HIDE DEF x
<1> QED BY <1>1, <1>2, <1>3, <1>4, <1>5, <1>6, DeviceUpdate, SessionUpdate DEF DevicesTyped, Elsewhere

LEMMA AnswerDoes ==
  ASSUME SessTypes, NEW d \in Requests, Signing!Persist(d) \/ Signing!Kill(d)
  PROVE  /\ DevicesTyped /\ Elsewhere(d) /\ device[d].phase = "answered"
         /\ \/ device'[d] = Signing!SignedOut
            \/ /\ device'[d].phase = "in" /\ device'[d].new = 0
               /\ \/ Signing!Persist(d) /\ device'[d].kept = device[d].new
                  \/ device'[d].kept = device[d].kept /\ device[d].kept # 0
<1>1. device[d].phase = "answered"
  BY DEF Signing!Persist, Signing!Kill
<1>2. CASE Signing!Kill(d) /\ device[d].kept = 0
  <2>1. device' = [device EXCEPT ![d] = Signing!SignedOut]
    BY <1>2 DEF Signing!Kill, Signing!NoToken
  <2> QED BY <1>1, <2>1, RestOfDevice, DeviceUpdate DEF DevicesTyped, Elsewhere
<1>3. ASSUME NEW n \in Held, device' = [device EXCEPT ![d] = [Signing!SignedOut EXCEPT !.phase = "in", !.kept = n]]
      PROVE  DevicesTyped /\ Elsewhere(d) /\ device'[d].phase = "in" /\ device'[d].new = 0 /\ device'[d].kept = n
  <2> DEFINE x == [Signing!SignedOut EXCEPT !.phase = "in", !.kept = n]
  <2>1. x \in DeviceState
    BY DeviceBack
  <2>2. x.phase = "in" /\ x.new = 0 /\ x.kept = n
    BY DEF Signing!SignedOut, Signing!NoToken
  <2>3. device' = [device EXCEPT ![d] = x]
    BY <1>3
  <2> HIDE DEF x
  <2> QED BY <2>1, <2>2, <2>3, DeviceUpdate DEF DevicesTyped, Elsewhere
<1>4. CASE Signing!Kill(d) /\ device[d].kept # 0
  <2>1. device' = [device EXCEPT ![d] = [Signing!SignedOut EXCEPT !.phase = "in", !.kept = device[d].kept]]
    BY <1>4 DEF Signing!Kill, Signing!NoToken
  <2> QED BY <1>1, <1>3, <1>4, <2>1, DeviceFields
<1>5. CASE Signing!Persist(d)
  <2>1. device' = [device EXCEPT ![d] = [Signing!SignedOut EXCEPT !.phase = "in", !.kept = device[d].new]]
    BY <1>5 DEF Signing!Persist
  <2> QED BY <1>1, <1>3, <1>5, <2>1, DeviceFields
<1> QED BY <1>2, <1>4, <1>5

LEMMA ReplayDoes ==
  ASSUME SessTypes, NEW d \in Requests, NEW e \in Requests, Signing!Replay(d, e)
  PROVE  /\ DevicesTyped /\ Elsewhere(e) /\ device[e].phase = "out" /\ device[d].phase \in {"read", "gated"}
         /\ device'[e].phase = "read" /\ device'[e].kept = device[d].kept /\ device'[e].new = 0
         /\ device[d].kept \in 1..MaxTokens
<1> DEFINE x == [Signing!SignedOut EXCEPT !.phase = "read", !.kept = device[d].kept,
                    !.read = sessions[device[d].kept].expires]
<1>1. device[d].kept \in 1..MaxTokens /\ sessions[device[d].kept].expires \in Ends
  BY UsableTokens DEF Signing!Replay
<1>2. x \in DeviceState
  BY <1>1, DeviceFields, DeviceBack
<1>3. x.phase = "read" /\ x.kept = device[d].kept /\ x.new = 0
  BY DEF Signing!SignedOut, Signing!NoToken
<1>4. device' = [device EXCEPT ![e] = x] /\ device[e].phase = "out" /\ device[d].phase \in {"read", "gated"}
  BY DEF Signing!Replay
<1> HIDE DEF x
<1> QED BY <1>1, <1>2, <1>3, <1>4, DeviceUpdate DEF DevicesTyped, Elsewhere

LEMMA LogoutDoes ==
  ASSUME SessTypes, TokensInOrder, NEW d \in Requests, Signing!Logout(d)
  PROVE  /\ DevicesTyped /\ Elsewhere(d) /\ device[d].phase = "in" /\ device'[d] = Signing!SignedOut
         /\ device[d].kept \in 1..MaxTokens
         /\ sessions' \in [1..MaxTokens -> SessionDoc]
         /\ \A u \in 1..MaxTokens : u # device[d].kept => sessions'[u] = sessions[u]
         /\ LET s == sessions[device[d].kept]
                n == sessions'[device[d].kept] IN
            ~n.live /\ n.expires = s.expires /\ n.born = s.born /\ n.rotated = s.rotated
<1>1. device' = [device EXCEPT ![d] = Signing!SignedOut] /\ device[d].phase = "in"
  BY DEF Signing!Logout
<1>2. device[d].kept \in 1..MaxTokens
  BY <1>1, DeviceFields, SessionConstants DEF TokensInOrder, HoldsInOrder, Kept, Held
<1>3. sessions' = [sessions EXCEPT ![device[d].kept] = [sessions[device[d].kept] EXCEPT !.live = FALSE]]
  BY <1>2 DEF Signing!Logout, SessTypes
<1>4. sessions[device[d].kept] \in SessionDoc
  BY <1>2 DEF SessTypes
<1>5. [sessions[device[d].kept] EXCEPT !.live = FALSE] \in SessionDoc
  BY <1>4, SessionWith, SessionConstants DEF SessionDoc
<1> DEFINE y == [sessions[device[d].kept] EXCEPT !.live = FALSE]
<1>6. /\ ~y.live /\ y.expires = sessions[device[d].kept].expires
      /\ y.born = sessions[device[d].kept].born /\ y.rotated = sessions[device[d].kept].rotated
  BY <1>4 DEF SessionDoc
<1>7. y \in SessionDoc /\ sessions' = [sessions EXCEPT ![device[d].kept] = y]
  BY <1>3, <1>5
<1> HIDE DEF y
<1>8. DevicesTyped /\ Elsewhere(d) /\ device'[d] = Signing!SignedOut
  BY <1>1, RestOfDevice, DeviceUpdate DEF DevicesTyped, Elsewhere
<1>9. /\ sessions' \in [1..MaxTokens -> SessionDoc] /\ sessions'[device[d].kept] = y
      /\ \A u \in 1..MaxTokens : u # device[d].kept => sessions'[u] = sessions[u]
  BY <1>2, <1>7, SessionUpdate
<1> QED BY <1>1, <1>2, <1>6, <1>8, <1>9

LEMMA SessTypesStay ==
  ASSUME SessTypes, TokensInOrder, Signing!SessNext
  PROVE  SessTypes'
<1>1. ASSUME Signing!FetchDisabled \/ Signing!FillCache \/ Signing!CacheExpires
      PROVE  SessTypes'
  BY <1>1 DEF SessTypes, Signing!FetchDisabled, Signing!FillCache, Signing!CacheExpires, Signing!Answer
<1>2. ASSUME Signing!SetEnabled
      PROVE  SessTypes'
  <2>1. \A d \in Requests : [device[d] EXCEPT !.crossed = @ \/ device[d].phase \in {"gated", "passed"}] \in DeviceState
    BY DeviceFields, DeviceWith
  <2>2. device' \in [Requests -> DeviceState]
    BY <1>2, <2>1 DEF Signing!SetEnabled
  <2>3. switches' \in 0..MaxSwitches
    BY <1>2, SessionConstants DEF SessTypes, Signing!SetEnabled
  <2> QED BY <1>2, <2>2, <2>3 DEF SessTypes, Signing!SetEnabled
<1>3. ASSUME Signing!RevokeAllSessions \/ Signing!Tick
      PROVE  SessTypes'
  <2>1. sessions' \in [1..MaxTokens -> SessionDoc]
    <3>1. CASE UNCHANGED sessions
      BY <3>1 DEF SessTypes
    <3>2. CASE sessions' = [t \in 1..MaxTokens |-> [sessions[t] EXCEPT !.live = FALSE]]
      <4>1. ASSUME NEW t \in 1..MaxTokens
            PROVE  [sessions[t] EXCEPT !.live = FALSE] \in SessionDoc
        BY DEF SessTypes, SessionDoc
      <4> QED BY <3>2, <4>1
    <3>3. UNCHANGED sessions \/ sessions' = [t \in 1..MaxTokens |-> [sessions[t] EXCEPT !.live = FALSE]]
      BY <1>3 DEF Signing!RevokeAllSessions, Signing!Tick, Signing!Tokens
    <3> QED BY <3>1, <3>2, <3>3
  <2>2. instant' \in 0..LastTick
    BY <1>3, SessionConstants DEF SessTypes, Signing!RevokeAllSessions, Signing!Tick
  <2> QED BY <1>3, <2>1, <2>2 DEF SessTypes, Signing!RevokeAllSessions, Signing!Tick
<1>4. ASSUME NEW d \in Requests, Signing!Login(d) \/ Signing!RefreshGate(d)
      PROVE  SessTypes'
  <2>1. cached' \in {"none", "on", "off"} /\ outdated' \in BOOLEAN
    BY <1>4, GateAnswers DEF Signing!Login, Signing!RefreshGate
  <2> QED BY <1>4, <2>1, LoginDoes, RefreshGateDoes DEF SessTypes, Signing!Login, Signing!RefreshGate, DevicesTyped
<1>5. ASSUME NEW d \in Requests, Signing!Refresh(d)
      PROVE  SessTypes'
  BY <1>5, RefreshDoes DEF SessTypes, Signing!Refresh, DevicesTyped
<1>6. ASSUME NEW d \in Requests, Signing!Rotate(d)
      PROVE  SessTypes'
  <2>1. UNCHANGED <<instant, issued, enabled, revoking, cached, fetch, switches, outdated, slipped, twice>>
    BY <1>6 DEF Signing!Rotate
  <2>2. DevicesTyped /\ sessions' \in [1..MaxTokens -> SessionDoc]
    BY <1>6, RotateDoes
  <2> QED BY <2>1, <2>2 DEF SessTypes, DevicesTyped
<1>7. ASSUME NEW d \in Requests, Signing!IssueTokens(d)
      PROVE  SessTypes'
  <2>1. issued' \in 0..MaxTokens /\ slipped' \subseteq 1..MaxTokens
    <3>1. issued' \in 1..MaxTokens /\ slipped' \subseteq slipped \cup {issued'}
      BY <1>7, IssueTokensDoes DEF Signing!IssueTokens
    <3> QED BY <3>1, SessionConstants DEF SessTypes
  <2> QED BY <1>7, <2>1, IssueTokensDoes DEF SessTypes, Signing!IssueTokens, DevicesTyped
<1>8. ASSUME NEW d \in Requests, Signing!Persist(d) \/ Signing!Kill(d)
      PROVE  SessTypes'
  <2>1. UNCHANGED <<instant, sessions, issued, enabled, revoking, cached, fetch, switches, outdated, slipped, twice>>
    BY <1>8 DEF Signing!Persist, Signing!Kill
  <2>2. DevicesTyped
    BY <1>8, AnswerDoes
  <2> QED BY <2>1, <2>2 DEF SessTypes, DevicesTyped
<1>9. ASSUME NEW d \in Requests, NEW e \in Requests, Signing!Replay(d, e)
      PROVE  SessTypes'
  <2>1. /\ UNCHANGED <<instant, sessions, issued, enabled, revoking, cached, fetch, switches, outdated, slipped>>
        /\ twice' = twice \cup {device[d].kept}
    BY <1>9 DEF Signing!Replay
  <2>2. DevicesTyped /\ device[d].kept \in 1..MaxTokens
    BY <1>9, ReplayDoes
  <2>3. twice' \subseteq 1..MaxTokens
    BY <2>1, <2>2 DEF SessTypes
  <2> QED BY <2>1, <2>2, <2>3 DEF SessTypes, DevicesTyped
<1>10. ASSUME NEW d \in Requests, Signing!Logout(d)
       PROVE  SessTypes'
  BY <1>10, LogoutDoes DEF SessTypes, Signing!Logout, DevicesTyped
<1> QED BY <1>1, <1>2, <1>3, <1>4, <1>5, <1>6, <1>7, <1>8, <1>9, <1>10 DEF Signing!SessNext

LEMMA SwitchDoes ==
  ASSUME SessTypes, NEW e \in Requests, Signing!SetEnabled
  PROVE  /\ device'[e].phase = device[e].phase /\ device'[e].kept = device[e].kept
         /\ device'[e].new = device[e].new /\ device'[e].read = device[e].read
         /\ device[e].phase \in {"gated", "passed"} => device'[e].crossed
<1>1. device'[e] = [device[e] EXCEPT !.crossed = @ \/ device[e].phase \in {"gated", "passed"}]
  BY DEF Signing!SetEnabled
<1> QED BY <1>1, DeviceFields DEF DeviceState

\* Steps that issue nothing, and those that change nothing of a device.
LEMMA FreshStays ==
  ASSUME FreshTokens, UNCHANGED <<sessions, issued, twice>>
  PROVE  FreshTokens'
BY DEF FreshTokens

LEMMA SameHolds ==
  ASSUME NEW e \in Requests, HoldsInOrder(e), device'[e] = device[e], UNCHANGED <<issued, twice>>
  PROVE  HoldsInOrder(e)'
BY DEF HoldsInOrder

LEMMA OrderStays ==
  ASSUME SessTypes, TokensInOrder, OneHolder, Signing!SessNext
  PROVE  TokensInOrder'
<1>0. SessTypes' /\ 0 \notin twice
  BY SessTypesStay DEF SessTypes
<1>00. issued \in Nat /\ \A d \in Requests : device[d].kept \in Nat /\ device[d].new \in Nat
  BY DeviceFields, SessionConstants DEF SessTypes
<1>01. FreshTokens /\ \A e \in Requests : HoldsInOrder(e)
  BY DEF TokensInOrder
<1>1. ASSUME Signing!FetchDisabled \/ Signing!FillCache \/ Signing!CacheExpires \/ Signing!Tick
      PROVE  TokensInOrder'
  <2>1. UNCHANGED <<sessions, issued, twice, device>>
    BY <1>1 DEF Signing!FetchDisabled, Signing!FillCache, Signing!CacheExpires, Signing!Tick
  <2> QED BY <1>01, <2>1, FreshStays, SameHolds DEF TokensInOrder
<1>2. ASSUME Signing!SetEnabled
      PROVE  TokensInOrder'
  <2>1. UNCHANGED <<sessions, issued, twice>>
    BY <1>2 DEF Signing!SetEnabled
  <2>2. ASSUME NEW e \in Requests
        PROVE  HoldsInOrder(e)'
    BY <1>2, <1>01, <2>1, SwitchDoes DEF HoldsInOrder
  <2> QED BY <1>01, <2>1, <2>2, FreshStays DEF TokensInOrder
<1>3. ASSUME Signing!RevokeAllSessions
      PROVE  TokensInOrder'
  <2>1. UNCHANGED <<issued, twice, device>> /\ sessions' = [t \in 1..MaxTokens |-> [sessions[t] EXCEPT !.live = FALSE]]
    BY <1>3 DEF Signing!RevokeAllSessions, Signing!Tokens
  <2>2. ASSUME NEW t \in 1..MaxTokens, t > issued
        PROVE  sessions'[t] = Signing!None /\ t \notin twice
    <3>1. sessions[t] = Signing!None /\ t \notin twice
      BY <1>01, <2>2 DEF FreshTokens
    <3>2. sessions'[t] = [Signing!None EXCEPT !.live = FALSE]
      BY <2>1, <3>1
    <3> QED BY <3>1, <3>2 DEF Signing!None
  <2>3. FreshTokens'
    BY <2>1, <2>2 DEF FreshTokens
  <2> QED BY <1>01, <2>1, <2>3, SameHolds DEF TokensInOrder
<1>4. ASSUME NEW d \in Requests, Signing!Login(d)
      PROVE  TokensInOrder'
  <2>1. UNCHANGED <<sessions, issued, twice>>
    BY <1>4 DEF Signing!Login
  <2>2. HoldsInOrder(d)'
    BY <1>4, <1>01, <2>1, LoginDoes DEF HoldsInOrder, Kept
  <2> QED BY <1>4, <1>01, <2>1, <2>2, LoginDoes, FreshStays, SameHolds DEF TokensInOrder, Elsewhere
<1>5. ASSUME NEW d \in Requests, Signing!RefreshGate(d)
      PROVE  TokensInOrder'
  <2>1. UNCHANGED <<sessions, issued, twice>>
    BY <1>5 DEF Signing!RefreshGate
  <2>2. HoldsInOrder(d)'
    BY <1>5, <1>0, <1>00, <1>01, <2>1, RefreshGateDoes DEF HoldsInOrder, Kept, Signing!SignedOut, Signing!NoToken
  <2> QED BY <1>5, <1>01, <2>1, <2>2, RefreshGateDoes, FreshStays, SameHolds DEF TokensInOrder, Elsewhere
<1>6. ASSUME NEW d \in Requests, Signing!Refresh(d)
      PROVE  TokensInOrder'
  <2>1. UNCHANGED <<sessions, issued, twice>>
    BY <1>6 DEF Signing!Refresh
  <2>2. HoldsInOrder(d)'
    BY <1>6, <1>0, <1>00, <1>01, <2>1, RefreshDoes DEF HoldsInOrder, Kept, Signing!SignedOut, Signing!NoToken
  <2> QED BY <1>6, <1>01, <2>1, <2>2, RefreshDoes, FreshStays, SameHolds DEF TokensInOrder, Elsewhere
<1>7. ASSUME NEW d \in Requests, Signing!Rotate(d)
      PROVE  TokensInOrder'
  <2>1. UNCHANGED <<issued, twice>>
    BY <1>7 DEF Signing!Rotate
  <2>2. HoldsInOrder(d)'
    BY <1>7, <1>01, <2>1, RotateDoes DEF HoldsInOrder, Kept
  <2>3. FreshTokens'
    BY <1>7, <1>00, <1>01, <2>1, RotateDoes DEF FreshTokens, HoldsInOrder
  <2> QED BY <1>7, <1>01, <2>1, <2>2, <2>3, RotateDoes, SameHolds DEF TokensInOrder, Elsewhere
<1>8. ASSUME NEW d \in Requests, Signing!IssueTokens(d)
      PROVE  TokensInOrder'
  <2>1. UNCHANGED twice /\ issued' = issued + 1 /\ issued' \in 1..MaxTokens
    BY <1>8, IssueTokensDoes DEF Signing!IssueTokens
  <2>2. HoldsInOrder(d)'
    BY <1>8, <1>00, <1>01, <2>1, IssueTokensDoes DEF HoldsInOrder, Kept, FreshTokens
  <2>3. FreshTokens'
    BY <1>8, <1>00, <1>01, <2>1, IssueTokensDoes DEF FreshTokens
  <2>4. ASSUME NEW e \in Requests, e # d
        PROVE  HoldsInOrder(e)'
    BY <1>8, <1>00, <1>01, <2>1, <2>4, IssueTokensDoes DEF HoldsInOrder, Elsewhere
  <2> QED BY <2>2, <2>3, <2>4 DEF TokensInOrder
<1>9. ASSUME NEW d \in Requests, Signing!Persist(d) \/ Signing!Kill(d)
      PROVE  TokensInOrder'
  <2>1. UNCHANGED <<sessions, issued, twice>>
    BY <1>9 DEF Signing!Persist, Signing!Kill
  <2>2. HoldsInOrder(d)'
    BY <1>9, <1>0, <1>00, <1>01, <2>1, AnswerDoes DEF HoldsInOrder, Kept, Signing!SignedOut, Signing!NoToken
  <2> QED BY <1>9, <1>01, <2>1, <2>2, AnswerDoes, FreshStays, SameHolds DEF TokensInOrder, Elsewhere
<1>10. ASSUME NEW d \in Requests, NEW e \in Requests, Signing!Replay(d, e)
       PROVE  TokensInOrder'
  <2>1. UNCHANGED <<sessions, issued>> /\ twice' = twice \cup {device[d].kept}
    BY <1>10 DEF Signing!Replay
  <2>2. ASSUME NEW f \in Requests
        PROVE  device[f].new # device[d].kept
    BY <1>10, <1>00, ReplayDoes DEF OneHolder, Apart
  <2>3. FreshTokens'
    BY <1>10, <1>00, <1>01, <2>1, ReplayDoes DEF FreshTokens, HoldsInOrder
  <2>4. HoldsInOrder(e)'
    BY <1>10, <1>0, <1>00, <1>01, <2>1, ReplayDoes DEF HoldsInOrder, Kept
  <2>5. ASSUME NEW f \in Requests, f # e
        PROVE  HoldsInOrder(f)'
    BY <1>10, <1>01, <2>1, <2>2, <2>5, ReplayDoes DEF HoldsInOrder, Elsewhere
  <2> QED BY <2>3, <2>4, <2>5 DEF TokensInOrder
<1>11. ASSUME NEW d \in Requests, Signing!Logout(d)
       PROVE  TokensInOrder'
  <2>1. UNCHANGED <<issued, twice>>
    BY <1>11 DEF Signing!Logout
  <2>2. HoldsInOrder(d)'
    BY <1>11, <1>0, <1>00, <1>01, <2>1, LogoutDoes DEF HoldsInOrder, Kept, Signing!SignedOut, Signing!NoToken
  <2>3. FreshTokens'
    BY <1>11, <1>00, <1>01, <2>1, LogoutDoes DEF FreshTokens, HoldsInOrder
  <2> QED BY <1>11, <1>01, <2>1, <2>2, <2>3, LogoutDoes, SameHolds DEF TokensInOrder, Elsewhere
<1> QED BY <1>1, <1>2, <1>3, <1>4, <1>5, <1>6, <1>7, <1>8, <1>9, <1>10, <1>11 DEF Signing!SessNext

\* Steps after which devices hold what they held, or less.
LEMMA HoldersStay ==
  ASSUME OneHolder, twice \subseteq twice',
         \A d \in Requests : device'[d].kept \in {device[d].kept, 0} /\ device'[d].new \in {device[d].new, 0}
  PROVE  OneHolder'
<1> SUFFICES ASSUME NEW d \in Requests, NEW e \in Requests
             PROVE  Apart(d, e)'
  BY DEF OneHolder
<1>1. Apart(d, e)
  BY DEF OneHolder
<1> QED BY <1>1 DEF Apart

LEMMA OneHolderStays ==
  ASSUME SessTypes, TokensInOrder, OneHolder, Signing!SessNext
  PROVE  OneHolder'
<1>1. issued \in Nat /\ \A d \in Requests : device[d].kept \in Nat /\ device[d].new \in Nat
  BY DeviceFields, SessionConstants DEF SessTypes
<1>2. \A e \in Requests : device[e].kept <= issued /\ device[e].new <= issued
  BY DEF TokensInOrder, HoldsInOrder
<1>3. \A d, e \in Requests : Apart(d, e)
  BY DEF OneHolder
<1>4. ASSUME \/ Signing!FetchDisabled \/ Signing!FillCache \/ Signing!CacheExpires \/ Signing!Tick
             \/ Signing!RevokeAllSessions
      PROVE  OneHolder'
  <2>1. UNCHANGED <<twice, device>>
    BY <1>4 DEF Signing!FetchDisabled, Signing!FillCache, Signing!CacheExpires, Signing!Tick, Signing!RevokeAllSessions
  <2> QED BY <2>1, HoldersStay
<1>5. ASSUME Signing!SetEnabled
      PROVE  OneHolder'
  <2>1. UNCHANGED twice
    BY <1>5 DEF Signing!SetEnabled
  <2> QED BY <1>5, <2>1, SwitchDoes, HoldersStay
<1>6. ASSUME NEW d \in Requests,
             Signing!Login(d) \/ Signing!RefreshGate(d) \/ Signing!Refresh(d) \/ Signing!Rotate(d) \/ Signing!Logout(d)
      PROVE  OneHolder'
  <2>1. UNCHANGED twice
    BY <1>6 DEF Signing!Login, Signing!RefreshGate, Signing!Refresh, Signing!Rotate, Signing!Logout
  <2>2. Elsewhere(d) /\ device'[d].kept \in {device[d].kept, 0} /\ device'[d].new \in {device[d].new, 0}
    BY <1>6, LoginDoes, RefreshGateDoes, RefreshDoes, RotateDoes, LogoutDoes DEF Signing!SignedOut, Signing!NoToken
  <2> QED BY <2>1, <2>2, HoldersStay DEF Elsewhere
<1>7. ASSUME NEW d \in Requests, Signing!IssueTokens(d)
      PROVE  OneHolder'
  <2>1. UNCHANGED twice
    BY <1>7 DEF Signing!IssueTokens
  <2>2. /\ Elsewhere(d) /\ device'[d].kept = device[d].kept /\ device'[d].new = issued + 1
    BY <1>7, IssueTokensDoes
  <2>3. ASSUME NEW a \in Requests, NEW e \in Requests
        PROVE  Apart(a, e)'
    <3>1. CASE a # d /\ e # d
      BY <1>3, <2>1, <2>2, <3>1 DEF Apart, Elsewhere
    <3>2. CASE a = d \/ e = d
      BY <1>1, <1>2, <1>3, <2>1, <2>2, <3>2 DEF Apart, Elsewhere
    <3> QED BY <3>1, <3>2
  <2> QED BY <2>3 DEF OneHolder
<1>8. ASSUME NEW d \in Requests, Signing!Persist(d) \/ Signing!Kill(d)
      PROVE  OneHolder'
  <2>1. UNCHANGED twice
    BY <1>8 DEF Signing!Persist, Signing!Kill
  <2>2. Elsewhere(d) /\ device'[d].new = 0 /\ device'[d].kept \in {device[d].kept, device[d].new, 0}
    BY <1>8, AnswerDoes DEF Signing!SignedOut, Signing!NoToken
  <2>3. ASSUME NEW a \in Requests, NEW e \in Requests
        PROVE  Apart(a, e)'
    BY <1>3, <2>1, <2>2 DEF Apart, Elsewhere
  <2> QED BY <2>3 DEF OneHolder
<1>9. ASSUME NEW d \in Requests, NEW b \in Requests, Signing!Replay(d, b)
      PROVE  OneHolder'
  <2>1. twice' = twice \cup {device[d].kept}
    BY <1>9 DEF Signing!Replay
  <2>2. Elsewhere(b) /\ device'[b].new = 0 /\ device'[b].kept = device[d].kept
    BY <1>9, ReplayDoes
  <2>3. ASSUME NEW a \in Requests, NEW e \in Requests
        PROVE  Apart(a, e)'
    BY <1>3, <2>1, <2>2 DEF Apart, Elsewhere
  <2> QED BY <2>3 DEF OneHolder
<1> QED BY <1>4, <1>5, <1>6, <1>7, <1>8, <1>9 DEF Signing!SessNext

\* A token whose session is the same, at the same time or later.
LEMMA StillLivesOut ==
  ASSUME NEW t \in 1..MaxTokens, SessTypes, LivesOut(t), twice \subseteq twice', issued' = issued,
         instant' \in Nat, instant <= instant',
         sessions'[t].expires = sessions[t].expires, sessions'[t].born = sessions[t].born,
         sessions'[t].rotated = sessions[t].rotated
  PROVE  LivesOut(t)'
<1>1. instant \in Nat /\ sessions[t].rotated \in Nat
  BY SessionConstants DEF SessTypes, SessionDoc
<1> QED BY <1>1 DEF LivesOut

LEMMA StillKnowsTheEnd ==
  ASSUME NEW d \in Requests, KnowsTheEnd(d), twice \subseteq twice',
         device'[d].phase = device[d].phase, device'[d].read = device[d].read, device'[d].kept = device[d].kept,
         sessions'[device[d].kept].expires = sessions[device[d].kept].expires
  PROVE  KnowsTheEnd(d)'
BY DEF KnowsTheEnd

LEMMA EndsStay ==
  ASSUME SessTypes, TokensInOrder, OneHolder, EndsAsItShould, Signing!SessNext
  PROVE  EndsAsItShould'
<1>1. issued \in Nat /\ instant \in Nat /\ \A d \in Requests : device[d].kept \in Nat /\ device[d].new \in Nat
  BY DeviceFields, SessionConstants DEF SessTypes
<1>2. \A e \in Requests : HoldsInOrder(e)
  BY DEF TokensInOrder
<1>3. (\A t \in 1..MaxTokens : LivesOut(t)) /\ (\A d \in Requests : KnowsTheEnd(d))
  BY DEF EndsAsItShould
<1>4. \A e \in Requests : device[e].phase \in Kept => device[e].kept \in 1..MaxTokens
  BY <1>2, DeviceFields, SessionConstants DEF HoldsInOrder, Held
<1>5. ASSUME \/ Signing!FetchDisabled \/ Signing!FillCache \/ Signing!CacheExpires \/ Signing!Tick
      PROVE  EndsAsItShould'
  <2>1. UNCHANGED <<sessions, issued, twice, device>> /\ instant' \in Nat /\ instant <= instant'
    BY <1>1, <1>5 DEF Signing!FetchDisabled, Signing!FillCache, Signing!CacheExpires, Signing!Tick
  <2> QED BY <1>3, <2>1, StillLivesOut, StillKnowsTheEnd DEF EndsAsItShould
<1>6. ASSUME Signing!SetEnabled
      PROVE  EndsAsItShould'
  <2>1. UNCHANGED <<sessions, issued, twice, instant>>
    BY <1>6 DEF Signing!SetEnabled
  <2>2. ASSUME NEW d \in Requests
        PROVE  KnowsTheEnd(d)'
    BY <1>3, <1>6, <2>1, SwitchDoes, StillKnowsTheEnd
  <2> QED BY <1>1, <1>3, <2>1, <2>2, StillLivesOut DEF EndsAsItShould
<1>7. ASSUME Signing!RevokeAllSessions
      PROVE  EndsAsItShould'
  <2>1. UNCHANGED <<device, issued, twice, instant>> /\ sessions' = [t \in 1..MaxTokens |-> [sessions[t] EXCEPT !.live = FALSE]]
    BY <1>7 DEF Signing!RevokeAllSessions, Signing!Tokens
  <2>2. ASSUME NEW t \in 1..MaxTokens
        PROVE  /\ sessions'[t].expires = sessions[t].expires /\ sessions'[t].born = sessions[t].born
               /\ sessions'[t].rotated = sessions[t].rotated
    <3>1. sessions[t] \in SessionDoc
      BY DEF SessTypes
    <3>2. sessions'[t] = [sessions[t] EXCEPT !.live = FALSE]
      BY <2>1
    <3> QED BY <3>1, <3>2 DEF SessionDoc
  <2>3. ASSUME NEW d \in Requests
        PROVE  KnowsTheEnd(d)'
    BY <1>3, <1>4, <2>1, <2>2 DEF KnowsTheEnd, Kept
  <2> QED BY <1>1, <1>3, <2>1, <2>2, <2>3, StillLivesOut DEF EndsAsItShould
<1>8. ASSUME NEW d \in Requests, Signing!Login(d) \/ Signing!RefreshGate(d) \/ Signing!Refresh(d) \/ Signing!Persist(d) \/ Signing!Kill(d)
      PROVE  EndsAsItShould'
  <2>1. UNCHANGED <<sessions, issued, twice, instant>>
    BY <1>8 DEF Signing!Login, Signing!RefreshGate, Signing!Refresh, Signing!Persist, Signing!Kill
  <2>2. KnowsTheEnd(d)'
    BY <1>3, <1>8, <2>1, LoginDoes, RefreshGateDoes, RefreshDoes, AnswerDoes DEF KnowsTheEnd, Signing!SignedOut
  <2>3. Elsewhere(d)
    BY <1>8, LoginDoes, RefreshGateDoes, RefreshDoes, AnswerDoes
  <2>4. ASSUME NEW e \in Requests
        PROVE  KnowsTheEnd(e)'
    BY <1>3, <2>1, <2>2, <2>3, StillKnowsTheEnd DEF Elsewhere
  <2> QED BY <1>1, <1>3, <2>1, <2>4, StillLivesOut DEF EndsAsItShould
<1>9. ASSUME NEW d \in Requests, Signing!Rotate(d)
      PROVE  EndsAsItShould'
  <2>1. UNCHANGED <<issued, twice, instant>>
    BY <1>9 DEF Signing!Rotate
  <2>2. KnowsTheEnd(d)' /\ device[d].kept \in 1..MaxTokens
    BY <1>9, RotateDoes DEF KnowsTheEnd
  <2>3. ASSUME NEW e \in Requests, e # d
        PROVE  KnowsTheEnd(e)'
    <3>1. device'[e] = device[e]
      BY <1>9, <2>3, RotateDoes DEF Elsewhere
    <3>2. CASE device[e].phase \in {"read", "gated"} /\ device[e].kept \notin twice
      <4>1. device[e].kept # device[d].kept /\ device[e].kept \in 1..MaxTokens
        BY <1>4, <2>2, <2>3, <3>2 DEF OneHolder, Apart, Kept
      <4>2. sessions'[device[e].kept] = sessions[device[e].kept]
        BY <1>9, <4>1, RotateDoes
      <4> QED BY <1>3, <2>1, <3>1, <4>2 DEF KnowsTheEnd
    <3> QED BY <2>1, <3>1, <3>2 DEF KnowsTheEnd
  <2>4. ASSUME NEW k \in 1..MaxTokens, k = device[d].kept
        PROVE  LivesOut(k)'
    <3>1. /\ sessions'[k].born = sessions[k].born /\ sessions'[k].expires = EndAfter(d)
          /\ sessions'[k].rotated = RotatedAt(d) /\ device[d].phase = "gated"
      BY <1>9, <2>4, RotateDoes
    <3>2. CASE k \notin twice
      <4>1. device[d].read = sessions[k].expires /\ k <= issued
        BY <1>2, <1>3, <2>4, <3>1, <3>2 DEF KnowsTheEnd, HoldsInOrder
      <4>2. sessions[k] \in SessionDoc
        BY <2>2 DEF SessTypes
      <4>3. /\ sessions[k].expires \in Nat /\ sessions[k].rotated \in Nat /\ sessions[k].born \in Nat
            /\ Grace \in Nat /\ Life \in Nat
        BY <4>2, SessionConstants DEF SessionDoc, Ends, Ticks
      <4>4. LivesOut(k)
        BY <1>3, <2>2
      <4> QED BY <1>1, <2>1, <2>4, <3>1, <3>2, <4>1, <4>3, <4>4 DEF LivesOut, EndAfter, RotatedAt
    <3> QED BY <2>1, <3>2 DEF LivesOut
  <2>5. ASSUME NEW t \in 1..MaxTokens, t # device[d].kept
        PROVE  LivesOut(t)'
    BY <1>1, <1>3, <1>9, <2>1, <2>5, RotateDoes, StillLivesOut
  <2> QED BY <2>2, <2>3, <2>4, <2>5 DEF EndsAsItShould
<1>10. ASSUME NEW d \in Requests, Signing!IssueTokens(d)
       PROVE  EndsAsItShould'
  <2>1. UNCHANGED <<twice, instant>> /\ issued' = issued + 1 /\ issued' \in 1..MaxTokens
    BY <1>10, IssueTokensDoes DEF Signing!IssueTokens
  <2>2. KnowsTheEnd(d)'
    BY <1>10, IssueTokensDoes DEF KnowsTheEnd
  <2>3. ASSUME NEW e \in Requests, e # d
        PROVE  KnowsTheEnd(e)'
    <3>1. device'[e] = device[e]
      BY <1>10, <2>3, IssueTokensDoes DEF Elsewhere
    <3>2. device[e].phase \in Kept => sessions'[device[e].kept] = sessions[device[e].kept]
      <4>1. device[e].kept # issued'
        BY <1>1, <1>2, <2>1 DEF HoldsInOrder
      <4> QED BY <1>4, <1>10, <4>1, IssueTokensDoes
    <3> QED BY <1>3, <2>1, <3>1, <3>2 DEF KnowsTheEnd, Kept
  <2>4. ASSUME NEW t \in 1..MaxTokens, t = issued'
        PROVE  LivesOut(t)'
    BY <1>10, <2>1, <2>4, IssueTokensDoes DEF LivesOut
  <2>5. ASSUME NEW t \in 1..MaxTokens, t # issued'
        PROVE  LivesOut(t)'
    <3>1. sessions'[t] = sessions[t] /\ (t <= issued' => t <= issued)
      BY <1>1, <1>10, <2>1, <2>5, IssueTokensDoes
    <3> QED BY <1>3, <2>1, <3>1 DEF LivesOut
  <2> QED BY <2>1, <2>2, <2>3, <2>4, <2>5 DEF EndsAsItShould
<1>11. ASSUME NEW d \in Requests, NEW b \in Requests, Signing!Replay(d, b)
       PROVE  EndsAsItShould'
  <2>1. UNCHANGED <<sessions, issued, instant>> /\ twice' = twice \cup {device[d].kept}
    BY <1>11 DEF Signing!Replay
  <2>2. KnowsTheEnd(b)'
    BY <1>11, <2>1, ReplayDoes DEF KnowsTheEnd
  <2>3. ASSUME NEW e \in Requests, e # b
        PROVE  KnowsTheEnd(e)'
    BY <1>3, <1>11, <2>1, <2>3, ReplayDoes, StillKnowsTheEnd DEF Elsewhere
  <2> QED BY <1>1, <1>3, <2>1, <2>2, <2>3, StillLivesOut DEF EndsAsItShould
<1>12. ASSUME NEW d \in Requests, Signing!Logout(d)
       PROVE  EndsAsItShould'
  <2>1. UNCHANGED <<issued, twice, instant>>
    BY <1>12 DEF Signing!Logout
  <2>2. KnowsTheEnd(d)'
    BY <1>12, LogoutDoes DEF KnowsTheEnd, Signing!SignedOut
  <2>3. ASSUME NEW t \in 1..MaxTokens
        PROVE  /\ sessions'[t].expires = sessions[t].expires /\ sessions'[t].born = sessions[t].born
               /\ sessions'[t].rotated = sessions[t].rotated
    BY <1>12, LogoutDoes
  <2>4. ASSUME NEW e \in Requests, e # d
        PROVE  KnowsTheEnd(e)'
    <3>1. device'[e] = device[e]
      BY <1>12, <2>4, LogoutDoes DEF Elsewhere
    <3> QED BY <1>3, <1>4, <2>1, <2>3, <3>1 DEF KnowsTheEnd, Kept
  <2> QED BY <1>1, <1>3, <2>1, <2>2, <2>3, <2>4, StillLivesOut DEF EndsAsItShould
<1> QED BY <1>5, <1>6, <1>7, <1>8, <1>9, <1>10, <1>11, <1>12 DEF Signing!SessNext

\* A device that holds what it held, or less, and whose sessions are as live as they were.
LEMMA StillHoldsLive ==
  ASSUME NEW d \in Requests, HoldsLive(d), twice \subseteq twice',
         device'[d].kept \in {device[d].kept, 0}, device'[d].new \in {device[d].new, 0},
         device[d].kept # 0 /\ device[d].kept \notin twice =>
           sessions'[device[d].kept].live = sessions[device[d].kept].live,
         device[d].new # 0 => sessions'[device[d].new].live = sessions[device[d].new].live
  PROVE  HoldsLive(d)'
BY DEF HoldsLive

LEMMA LiveStays ==
  ASSUME SessTypes, TokensInOrder, OneHolder, HeldIsLive, Signing!SessNext
  PROVE  HeldIsLive'
<1>1. issued \in Nat /\ switches \in Nat /\ \A d \in Requests : device[d].kept \in Nat /\ device[d].new \in Nat
  BY DeviceFields, SessionConstants DEF SessTypes
<1>2. \A e \in Requests : HoldsInOrder(e)
  BY DEF TokensInOrder
<1>3. ASSUME Signing!SetEnabled
      PROVE  HeldIsLive'
  BY <1>1, <1>3 DEF Signing!SetEnabled, HeldIsLive
<1>4. CASE switches # 0 /\ UNCHANGED switches
  BY <1>4 DEF HeldIsLive
<1>5. ASSUME switches = 0
      PROVE  enabled /\ ~revoking /\ \A d \in Requests : HoldsLive(d)
  BY <1>5 DEF HeldIsLive
<1>6. ASSUME switches = 0, Signing!FetchDisabled \/ Signing!FillCache \/ Signing!CacheExpires \/ Signing!Tick
      PROVE  HeldIsLive'
  <2>1. UNCHANGED <<sessions, enabled, revoking, twice, device>>
    BY <1>6 DEF Signing!FetchDisabled, Signing!FillCache, Signing!CacheExpires, Signing!Tick
  <2> QED BY <1>5, <1>6, <2>1, StillHoldsLive DEF HeldIsLive
<1>7. ASSUME switches = 0, Signing!RevokeAllSessions
      PROVE  HeldIsLive'
  BY <1>5, <1>7 DEF Signing!RevokeAllSessions
<1>8. ASSUME switches = 0, NEW d \in Requests, Signing!Login(d) \/ Signing!RefreshGate(d) \/ Signing!Refresh(d)
      PROVE  HeldIsLive'
  <2>1. UNCHANGED <<sessions, enabled, revoking, twice>>
    BY <1>8 DEF Signing!Login, Signing!RefreshGate, Signing!Refresh
  <2>2. Elsewhere(d) /\ device'[d].kept \in {device[d].kept, 0} /\ device'[d].new \in {device[d].new, 0}
    BY <1>8, LoginDoes, RefreshGateDoes, RefreshDoes DEF Signing!SignedOut, Signing!NoToken
  <2>3. ASSUME NEW e \in Requests
        PROVE  HoldsLive(e)'
    BY <1>5, <1>8, <2>1, <2>2, StillHoldsLive DEF Elsewhere
  <2> QED BY <1>5, <1>8, <2>1, <2>3 DEF HeldIsLive
<1>9. ASSUME switches = 0, NEW d \in Requests, Signing!Rotate(d)
      PROVE  HeldIsLive'
  <2>1. UNCHANGED <<enabled, revoking, twice>>
    BY <1>9 DEF Signing!Rotate
  <2>2. Elsewhere(d) /\ device'[d].kept = device[d].kept /\ device'[d].new = device[d].new
    BY <1>9, RotateDoes
  <2>3. \A t \in 1..MaxTokens : sessions'[t].live = sessions[t].live
    BY <1>9, RotateDoes
  <2>4. ASSUME NEW e \in Requests
        PROVE  HoldsLive(e)'
    <3>1. /\ device[e].kept # 0 => device[e].kept \in 1..MaxTokens
          /\ device[e].new # 0 => device[e].new \in 1..MaxTokens
      BY DeviceFields, SessionConstants DEF Held
    <3> QED BY <1>5, <1>9, <2>1, <2>2, <2>3, <3>1, StillHoldsLive DEF Elsewhere
  <2> QED BY <1>5, <1>9, <2>1, <2>4 DEF HeldIsLive
<1>10. ASSUME switches = 0, NEW d \in Requests, Signing!IssueTokens(d)
       PROVE  HeldIsLive'
  <2>1. UNCHANGED <<enabled, revoking, twice>>
    BY <1>10 DEF Signing!IssueTokens
  <2>2. /\ Elsewhere(d) /\ device'[d].kept = device[d].kept /\ device'[d].new = issued'
        /\ issued' = issued + 1 /\ sessions'[issued'].live
    BY <1>10, IssueTokensDoes
  <2>3. \A t \in 1..MaxTokens : t <= issued => sessions'[t] = sessions[t]
    BY <1>1, <1>10, IssueTokensDoes
  <2>4. ASSUME NEW e \in Requests
        PROVE  /\ device[e].kept # 0 => sessions'[device[e].kept] = sessions[device[e].kept]
               /\ device[e].new # 0 => sessions'[device[e].new] = sessions[device[e].new]
    <3>1. /\ device[e].kept # 0 => device[e].kept \in 1..MaxTokens
          /\ device[e].new # 0 => device[e].new \in 1..MaxTokens
      BY DeviceFields, SessionConstants DEF Held
    <3> QED BY <1>2, <2>3, <3>1 DEF HoldsInOrder
  <2>5. ASSUME NEW e \in Requests, e # d
        PROVE  HoldsLive(e)'
    BY <1>5, <1>10, <2>1, <2>2, <2>4, <2>5, StillHoldsLive DEF Elsewhere
  <2>6. HoldsLive(d)'
    BY <1>5, <1>10, <2>1, <2>2, <2>4 DEF HoldsLive
  <2> QED BY <1>5, <1>10, <2>1, <2>5, <2>6 DEF HeldIsLive
<1>11. ASSUME switches = 0, NEW d \in Requests, Signing!Persist(d) \/ Signing!Kill(d)
       PROVE  HeldIsLive'
  <2>1. UNCHANGED <<enabled, revoking, twice, sessions>>
    BY <1>11 DEF Signing!Persist, Signing!Kill
  <2>2. Elsewhere(d) /\ device'[d].new = 0 /\ device'[d].kept \in {device[d].kept, device[d].new, 0}
    BY <1>11, AnswerDoes DEF Signing!SignedOut, Signing!NoToken
  <2>3. ASSUME NEW e \in Requests, e # d
        PROVE  HoldsLive(e)'
    BY <1>5, <1>11, <2>1, <2>2, <2>3, StillHoldsLive DEF Elsewhere
  <2>4. HoldsLive(d)'
    BY <1>5, <1>11, <2>1, <2>2 DEF HoldsLive
  <2> QED BY <1>5, <1>11, <2>1, <2>3, <2>4 DEF HeldIsLive
<1>12. ASSUME switches = 0, NEW d \in Requests, NEW b \in Requests, Signing!Replay(d, b)
       PROVE  HeldIsLive'
  <2>1. UNCHANGED <<enabled, revoking, sessions>> /\ twice' = twice \cup {device[d].kept}
    BY <1>12 DEF Signing!Replay
  <2>2. Elsewhere(b) /\ device'[b].new = 0 /\ device'[b].kept = device[d].kept
    BY <1>12, ReplayDoes
  <2>3. ASSUME NEW e \in Requests, e # b
        PROVE  HoldsLive(e)'
    BY <1>5, <1>12, <2>1, <2>2, <2>3, StillHoldsLive DEF Elsewhere
  <2>4. HoldsLive(b)'
    BY <2>1, <2>2 DEF HoldsLive
  <2> QED BY <1>5, <1>12, <2>1, <2>3, <2>4 DEF HeldIsLive
<1>13. ASSUME switches = 0, NEW d \in Requests, Signing!Logout(d)
       PROVE  HeldIsLive'
  <2>1. UNCHANGED <<enabled, revoking, twice>>
    BY <1>13 DEF Signing!Logout
  <2>2. Elsewhere(d) /\ device'[d].kept = 0 /\ device'[d].new = 0 /\ device[d].kept # 0
    BY <1>13, LogoutDoes DEF Signing!SignedOut, Signing!NoToken
  <2>3. \A t \in 1..MaxTokens : t # device[d].kept => sessions'[t] = sessions[t]
    BY <1>13, LogoutDoes
  <2>4. ASSUME NEW e \in Requests, e # d
        PROVE  HoldsLive(e)'
    <3>1. /\ device[e].kept # 0 => device[e].kept \in 1..MaxTokens
          /\ device[e].new # 0 => device[e].new \in 1..MaxTokens
      BY DeviceFields, SessionConstants DEF Held
    <3>2. Apart(e, d) /\ Apart(d, e)
      BY DEF OneHolder
    <3>3. /\ device[e].kept # 0 /\ device[e].kept \notin twice => sessions'[device[e].kept] = sessions[device[e].kept]
          /\ device[e].new # 0 => sessions'[device[e].new] = sessions[device[e].new]
      BY <2>2, <2>3, <2>4, <3>1, <3>2 DEF Apart
    <3> QED BY <1>5, <1>13, <2>1, <2>2, <2>4, <3>3, StillHoldsLive DEF Elsewhere
  <2>5. HoldsLive(d)'
    <3>1. device'[d].kept = 0 /\ device'[d].new = 0
      BY <2>2
    <3> QED BY <3>1, Zenon DEF HoldsLive
  <2> QED BY <1>5, <1>13, <2>1, <2>4, <2>5 DEF HeldIsLive
<1>14. Signing!SetEnabled \/ UNCHANGED switches
  BY DEF Signing!SessNext, Signing!FetchDisabled, Signing!FillCache, Signing!CacheExpires, Signing!RevokeAllSessions,
         Signing!Tick, Signing!Login, Signing!Refresh, Signing!RefreshGate, Signing!Rotate, Signing!IssueTokens,
         Signing!Persist, Signing!Kill, Signing!Logout, Signing!Replay
<1> QED BY <1>3, <1>4, <1>6, <1>7, <1>8, <1>9, <1>10, <1>11, <1>12, <1>13, <1>14 DEF Signing!SessNext

\* The answer of the gate is that of the switch, unless it is an outdated one.
LEMMA GateTells ==
  ASSUME SessTypes, OffIsOff, NEW through, NEW refused, Signing!Gate(through, refused)
  PROVE  ~outdated' => cached' = Signing!Answer
BY DEF SessTypes, OffIsOff, Signing!Gate

LEMMA OffStays ==
  ASSUME SessTypes, TokensInOrder, OffIsOff, Signing!SessNext
  PROVE  OffIsOff'
<1>1. SessTypes' /\ enabled \in BOOLEAN /\ revoking \in BOOLEAN /\ outdated \in BOOLEAN
  BY SessTypesStay DEF SessTypes
<1>2. enabled' \in BOOLEAN /\ outdated' \in BOOLEAN
  BY <1>1 DEF SessTypes
<1>3. ASSUME Signing!FetchDisabled \/ Signing!FillCache \/ Signing!CacheExpires \/ Signing!Tick
      PROVE  OffIsOff'
  <2>1. UNCHANGED <<sessions, enabled, revoking, slipped, device>>
    BY <1>3 DEF Signing!FetchDisabled, Signing!FillCache, Signing!CacheExpires, Signing!Tick
  <2>2. (cached # "none" /\ ~outdated => cached = Signing!Answer)'
    <3>1. CASE Signing!FillCache
      BY <1>1, <3>1 DEF Signing!FillCache, Signing!Answer
    <3>2. CASE Signing!CacheExpires
      BY <3>2 DEF Signing!CacheExpires
    <3>3. CASE Signing!FetchDisabled \/ Signing!Tick
      BY <3>3 DEF Signing!FetchDisabled, Signing!Tick, OffIsOff, Signing!Answer
    <3> QED BY <1>3, <3>1, <3>2, <3>3
  <2> QED BY <2>1, <2>2 DEF OffIsOff, PassedBefore
<1>4. ASSUME Signing!SetEnabled
      PROVE  OffIsOff'
  <2>1. cached' = "none" /\ enabled' = ~enabled /\ revoking' = enabled
    BY <1>4 DEF Signing!SetEnabled
  <2>2. \A d \in Requests : PassedBefore(d)'
    BY <1>4, SwitchDoes DEF PassedBefore
  <2> QED BY <1>1, <2>1, <2>2 DEF OffIsOff
<1>5. ASSUME Signing!RevokeAllSessions
      PROVE  OffIsOff'
  <2>1. UNCHANGED <<device, enabled, cached, outdated>> /\ revoking' = FALSE
    BY <1>5 DEF Signing!RevokeAllSessions
  <2>2. ASSUME NEW t \in 1..MaxTokens
        PROVE  ~sessions'[t].live
    <3>1. sessions[t] \in SessionDoc /\ sessions'[t] = [sessions[t] EXCEPT !.live = FALSE]
      BY <1>5 DEF SessTypes, Signing!RevokeAllSessions, Signing!Tokens
    <3> QED BY <3>1 DEF SessionDoc
  <2> QED BY <2>1, <2>2 DEF OffIsOff, PassedBefore, Signing!Answer
<1>6. ASSUME NEW d \in Requests, Signing!Login(d) \/ Signing!RefreshGate(d)
      PROVE  OffIsOff'
  <2>1. UNCHANGED <<sessions, enabled, revoking, slipped>>
    BY <1>6 DEF Signing!Login, Signing!RefreshGate
  <2>2. ~outdated' => cached' = Signing!Answer
    BY <1>6, GateTells DEF Signing!Login, Signing!RefreshGate
  <2>3. Elsewhere(d) /\ (device'[d].phase \in {"gated", "passed"} => cached' = "on" /\ device'[d].crossed = outdated')
    BY <1>6, LoginDoes, RefreshGateDoes DEF Signing!SignedOut
  <2>4. ~enabled => PassedBefore(d)'
    BY <1>2, <2>2, <2>3 DEF PassedBefore, Signing!Answer
  <2> QED BY <2>1, <2>2, <2>3, <2>4 DEF OffIsOff, PassedBefore, Elsewhere, Signing!Answer
<1>7. ASSUME NEW d \in Requests, Signing!Refresh(d) \/ Signing!Persist(d) \/ Signing!Kill(d)
      PROVE  OffIsOff'
  <2>1. UNCHANGED <<sessions, enabled, revoking, slipped, cached, outdated>>
    BY <1>7 DEF Signing!Refresh, Signing!Persist, Signing!Kill
  <2>2. Elsewhere(d) /\ device'[d].phase \in {"out", "in", "read"}
    BY <1>7, RefreshDoes, AnswerDoes DEF Signing!SignedOut
  <2> QED BY <2>1, <2>2 DEF OffIsOff, PassedBefore, Elsewhere, Signing!Answer
<1>8. ASSUME NEW d \in Requests, Signing!Rotate(d)
      PROVE  OffIsOff'
  <2>1. UNCHANGED <<enabled, revoking, slipped, cached, outdated>>
    BY <1>8 DEF Signing!Rotate
  <2>2. Elsewhere(d) /\ device[d].phase = "gated" /\ device'[d].crossed = device[d].crossed
    BY <1>8, RotateDoes
  <2>3. \A t \in 1..MaxTokens : sessions'[t].live = sessions[t].live
    BY <1>8, RotateDoes
  <2> QED BY <2>1, <2>2, <2>3 DEF OffIsOff, PassedBefore, Elsewhere, Signing!Answer
<1>9. ASSUME NEW d \in Requests, Signing!IssueTokens(d)
      PROVE  OffIsOff'
  <2>1. UNCHANGED <<enabled, revoking, cached, outdated>>
    BY <1>9 DEF Signing!IssueTokens
  <2>2. /\ Elsewhere(d) /\ device[d].phase = "passed" /\ device'[d].phase = "answered"
        /\ \A t \in 1..MaxTokens : t # issued' => sessions'[t] = sessions[t]
    BY <1>9, IssueTokensDoes
  <2>3. slipped \subseteq slipped' /\ (device[d].crossed => issued' \in slipped')
    BY <1>9 DEF Signing!IssueTokens
  <2> QED BY <2>1, <2>2, <2>3 DEF OffIsOff, PassedBefore, Elsewhere, Signing!Answer
<1>10. ASSUME NEW d \in Requests, NEW b \in Requests, Signing!Replay(d, b)
       PROVE  OffIsOff'
  <2>1. UNCHANGED <<sessions, enabled, revoking, slipped, cached, outdated>>
    BY <1>10 DEF Signing!Replay
  <2>2. Elsewhere(b) /\ device'[b].phase = "read"
    BY <1>10, ReplayDoes
  <2> QED BY <2>1, <2>2 DEF OffIsOff, PassedBefore, Elsewhere, Signing!Answer
<1>11. ASSUME NEW d \in Requests, Signing!Logout(d)
       PROVE  OffIsOff'
  <2>1. UNCHANGED <<enabled, revoking, slipped, cached, outdated>>
    BY <1>11 DEF Signing!Logout
  <2>2. Elsewhere(d) /\ device'[d].phase = "out"
    BY <1>11, LogoutDoes DEF Signing!SignedOut
  <2>3. \A t \in 1..MaxTokens : sessions'[t].live => sessions[t].live
    BY <1>11, LogoutDoes
  <2> QED BY <2>1, <2>2, <2>3 DEF OffIsOff, PassedBefore, Elsewhere, Signing!Answer
<1> QED BY <1>3, <1>4, <1>5, <1>6, <1>7, <1>8, <1>9, <1>10, <1>11 DEF Signing!SessNext

LEMMA SessBegins == ASSUME WorkspaceInit PROVE SessInv
<1>1. Signing!SessInit
  BY DEF WorkspaceInit
<1>2. SessTypes
  <2>1. sessions \in [1..MaxTokens -> SessionDoc] /\ device \in [Requests -> DeviceState]
    BY <1>1, RestOfDevice DEF Signing!SessInit, Signing!Tokens
  <2>2. instant \in 0..LastTick /\ issued \in 0..MaxTokens /\ switches \in 0..MaxSwitches
    BY <1>1, SessionConstants DEF Signing!SessInit
  <2> QED BY <1>1, <2>1, <2>2 DEF SessTypes, Signing!SessInit
<1>3. \A d \in Requests : /\ device[d].phase = "out" /\ device[d].kept = 0 /\ device[d].new = 0
  BY <1>1 DEF Signing!SessInit, Signing!SignedOut, Signing!NoToken
<1>4. \A t \in 1..MaxTokens : sessions[t] = Signing!None
  BY <1>1 DEF Signing!SessInit, Signing!Tokens
<1>5. issued = 0 /\ twice = {} /\ slipped = {} /\ enabled /\ ~revoking /\ cached = "none" /\ switches = 0
  BY <1>1 DEF Signing!SessInit
<1>6. TokensInOrder /\ OneHolder
  BY <1>3, <1>4, <1>5 DEF TokensInOrder, FreshTokens, HoldsInOrder, Kept, OneHolder, Apart
<1>7. EndsAsItShould
  BY <1>3, <1>5 DEF EndsAsItShould, LivesOut, KnowsTheEnd
<1>8. HeldIsLive /\ OffIsOff
  BY <1>3, <1>5 DEF HeldIsLive, HoldsLive, OffIsOff, PassedBefore
<1> QED BY <1>2, <1>6, <1>7, <1>8 DEF SessInv

LEMMA SessStays == ASSUME SessInv, [WorkspaceNext]_<<part, access, posting, signing, mailbox, sorting, places, pushing>>
                   PROVE  SessInv'
<1>1. CASE UNCHANGED signing
  <2>1. UNCHANGED <<instant, sessions, issued, device, enabled, revoking, cached, fetch, switches, outdated, slipped, twice>>
    BY <1>1 DEF signing
  <2>2. SessTypes' /\ TokensInOrder'
    BY <2>1 DEF SessInv, SessTypes, TokensInOrder, FreshTokens, HoldsInOrder
  <2>3. OneHolder' /\ EndsAsItShould'
    BY <2>1 DEF SessInv, OneHolder, Apart, EndsAsItShould, LivesOut, KnowsTheEnd
  <2>4. HeldIsLive' /\ OffIsOff'
    BY <2>1 DEF SessInv, HeldIsLive, HoldsLive, OffIsOff, PassedBefore, Signing!Answer
  <2> QED BY <2>2, <2>3, <2>4 DEF SessInv
<1>2. CASE Signing!SessNext
  BY <1>2, SessTypesStay, OrderStays, OneHolderStays, EndsStay, LiveStays, OffStays DEF SessInv
<1> QED BY <1>1, <1>2 DEF WorkspaceNext

LEMMA SessShows == ASSUME SessInv PROVE SessionsHold
<1>1. Signing!SessTypeOK
  BY SessTypesAre DEF SessInv
<1>2. Signing!RelaunchStaysSignedIn
  <2> SUFFICES ASSUME NEW d \in Requests, device[d].phase = "in", device[d].kept \notin twice, switches = 0,
                      instant <= sessions[device[d].kept].born + Life,
                      sessions[device[d].kept].rotated # 0 => instant <= (sessions[device[d].kept].rotated - 1) + Grace
               PROVE  Signing!Usable(device[d].kept)
    BY DEF Signing!RelaunchStaysSignedIn
  <2>1. device[d].kept # 0 /\ device[d].kept <= issued
    BY DEF SessInv, TokensInOrder, HoldsInOrder, Kept
  <2>2. device[d].kept \in 1..MaxTokens
    BY <2>1, DeviceFields, SessionConstants DEF SessInv, Held
  <2>3. LivesOut(device[d].kept) /\ HoldsLive(d)
    BY <2>2 DEF SessInv, EndsAsItShould, HeldIsLive
  <2>4. sessions[device[d].kept] \in SessionDoc
    BY <2>2 DEF SessInv, SessTypes
  <2> QED BY <2>1, <2>3, <2>4 DEF LivesOut, HoldsLive, Signing!Usable, Signing!NoToken, SessionDoc
<1>3. Signing!RotatedTokenDiesUnlessTwice
  <2> SUFFICES ASSUME NEW t \in 1..MaxTokens, t \notin twice, sessions[t].rotated # 0
               PROVE  sessions[t].expires <= (sessions[t].rotated - 1) + Grace
    BY DEF Signing!RotatedTokenDiesUnlessTwice, Signing!Tokens
  <2>1. t <= issued
    BY SessionConstants DEF SessInv, SessTypes, TokensInOrder, FreshTokens, Signing!None
  <2> QED BY <2>1 DEF SessInv, EndsAsItShould, LivesOut
<1>4. Signing!NoSessionOutlivesSwitchUnlessInFlight
  BY DEF SessInv, OffIsOff, Signing!NoSessionOutlivesSwitchUnlessInFlight, Signing!Tokens
<1> QED BY <1>1, <1>2, <1>3, <1>4 DEF SessionsHold

\* rotateRefresh (auth.service.ts) ends a used token after the grace period and no sooner: for
\* any devices, tokens, lives and times, a phone that never saw the answer comes back with the
\* token it has and stays signed in, a rotated token dies with the grace period unless two
\* refreshes of it overlapped, and no session outlives the switch in Team & Users but those of
\* requests that were past the gate, or let through by an answer cached before it.
THEOREM SessionsKeepTheirWord == WorkspaceSpec => []SessionsHold
<1>1. WorkspaceInit => SessInv
  BY SessBegins
<1>2. SessInv /\ [WorkspaceNext]_<<part, access, posting, signing, mailbox, sorting, places, pushing>> => SessInv'
  BY SessStays
<1>3. SessInv => SessionsHold
  BY SessShows
<1> QED BY <1>1, <1>2, <1>3, PTL DEF WorkspaceSpec

-----------------------------------------------------------------------------
(* Directory. *)

AskSteps == {"idle", "insertCompany", "dropCompany", "insertBranch", "addMembers", "pullUsers", "dropDepartments",
             "dropBranch", "setBusinesses", "provision", "setMembership"}

\* What a request carries at each of its steps.
Ask ==
  {m \in [pc : AskSteps, name : Names \cup BranchCodes \cup {"none"}, company : Companies \cup {"none"},
          branch : BranchRows \cup {"none"}, users : SUBSET Employees, grants : SUBSET Companies, join : BOOLEAN] :
     /\ m.pc = "insertCompany" => m.name \in Names
     /\ m.pc \in {"dropCompany", "insertBranch", "provision"} => m.company \in Companies
     /\ m.pc = "insertBranch" => m.name \in BranchCodes
     /\ m.pc \in {"addMembers", "pullUsers", "dropDepartments", "dropBranch", "setMembership"} =>
          m.branch \in BranchRows}

CompanyRow == [pc : {"none", "up", "gone"}, name : Names \cup {"none"}]
BranchRow == [pc : {"none", "up", "gone"}, code : BranchCodes \cup {"none"}, of : Companies \cup {"none"}]

DirTypes ==
  /\ company \in [Companies -> CompanyRow] /\ branch \in [BranchRows -> BranchRow]
  /\ users \subseteq Employees
  /\ branchIds \in [Employees -> SUBSET BranchRows] /\ businesses \in [Employees -> SUBSET Companies]
  /\ departments \subseteq BranchRows
  /\ provisioning \in [Requests -> Ask] /\ asked \in 0..MaxProvisions
  /\ named \subseteq Names /\ orphaned \subseteq Companies
  /\ rejoined \subseteq (Employees \cup {"department"}) \X BranchRows

\* A branch has a business, and will have, but for one that is made under a business on its way out.
MakingAt == {"insertBranch", "provision"}

Homes ==
  /\ \A b \in BranchRows : branch[b].pc = "up" =>
       branch[b].of \in Companies /\ (Places!Up(branch[b].of) \/ branch[b].of \in orphaned)
  /\ \A r \in Requests : provisioning[r].pc \in MakingAt =>
       Places!Up(provisioning[r].company) \/ provisioning[r].company \in orphaned
  /\ \A r \in Requests : provisioning[r].pc = "dropCompany" =>
       /\ \A b \in BranchRows : branch[b].pc = "up" /\ branch[b].of = provisioning[r].company => branch[b].of \in orphaned
       /\ \A q \in Requests : provisioning[q].pc \in MakingAt /\ provisioning[q].company = provisioning[r].company =>
            provisioning[q].company \in orphaned

\* Who is on a branch that is on its way out joined it late.
JoinedLate ==
  /\ \A b \in BranchRows : Places!Leaving(b) =>
       \A u \in users : b \in branchIds[u] => <<u, b>> \in rejoined
  /\ \A b \in departments : branch[b].pc = "gone" => <<"department", b>> \in rejoined
  /\ \A r \in Requests : provisioning[r].pc = "dropBranch" /\ provisioning[r].branch \in departments =>
       <<"department", provisioning[r].branch>> \in rejoined

\* A name that is given twice was given at once.
NamesAtOnce ==
  /\ \A q, r \in Requests :
       q # r /\ provisioning[q].pc = "insertCompany" /\ provisioning[r].pc = "insertCompany"
         /\ provisioning[q].name = provisioning[r].name => provisioning[r].name \in named
  /\ \A r \in Requests, c \in Companies :
       provisioning[r].pc = "insertCompany" /\ Places!Up(c) /\ company[c].name = provisioning[r].name =>
         company[c].name \in named
  /\ Places!NamesAreUniqueUnlessAtOnce

DirInv == DirTypes /\ Homes /\ JoinedLate /\ NamesAtOnce

\* A step of one request leaves the others where they are.
OwnAsk(r) == provisioning' \in [Requests -> Ask] /\ \A q \in Requests : q # r => provisioning'[q] = provisioning[q]

LEMMA IdleAsk == Places!Idle \in Ask
BY DEF Places!Idle, Places!None, Ask, AskSteps

LEMMA AskOf ==
  ASSUME DirTypes, NEW r \in Requests, NEW m \in Ask, provisioning' = [provisioning EXCEPT ![r] = m]
  PROVE  OwnAsk(r) /\ provisioning'[r] = m
BY DEF DirTypes, OwnAsk

LEMMA AskFields ==
  ASSUME DirTypes, NEW r \in Requests
  PROVE  /\ provisioning[r] \in Ask
         /\ provisioning[r].pc \in AskSteps /\ provisioning[r].users \subseteq Employees
         /\ provisioning[r].grants \subseteq Companies
         /\ provisioning[r].pc = "insertCompany" => provisioning[r].name \in Names
         /\ provisioning[r].pc \in {"dropCompany", "insertBranch", "provision"} => provisioning[r].company \in Companies
         /\ provisioning[r].pc = "insertBranch" => provisioning[r].name \in BranchCodes
         /\ provisioning[r].pc \in {"addMembers", "pullUsers", "dropDepartments", "dropBranch", "setMembership"} =>
              provisioning[r].branch \in BranchRows
BY DEF DirTypes, Ask

\* Requests that are answered.
LEMMA Answered ==
  ASSUME DirTypes, NEW r \in Requests, Places!Answer(r)
  PROVE  OwnAsk(r) /\ provisioning'[r].pc = "idle"
<1>1. Places!Idle.pc = "idle"
  BY DEF Places!Idle
<1>2. provisioning' = [provisioning EXCEPT ![r] = Places!Idle]
  BY DEF Places!Answer
<1> QED BY <1>1, <1>2, IdleAsk, AskOf

\* Requests that come.
LEMMA Asked ==
  ASSUME DirTypes, NEW r \in Requests, NEW m \in Ask, Places!Ask(r, m)
  PROVE  OwnAsk(r) /\ provisioning'[r] = m /\ provisioning[r].pc = "idle" /\ asked' \in 0..MaxProvisions
<1>1. asked' \in 0..MaxProvisions
  BY DirectoryConstants DEF DirTypes, Places!Ask
<1>2. Places!Idle.pc = "idle"
  BY DEF Places!Idle
<1>3. provisioning' = [provisioning EXCEPT ![r] = m] /\ provisioning[r] = Places!Idle
  BY DEF Places!Ask
<1> QED BY <1>1, <1>2, <1>3, AskOf

LEMMA Asking ==
  /\ \A n \in Names : [Places!Idle EXCEPT !.pc = "insertCompany", !.name = n] \in Ask
  /\ \A c \in Companies : [Places!Idle EXCEPT !.pc = "dropCompany", !.company = c] \in Ask
  /\ \A c \in Companies, k \in BranchCodes, s \in SUBSET Employees :
       [Places!Idle EXCEPT !.pc = "insertBranch", !.company = c, !.name = k, !.users = s] \in Ask
  /\ \A b \in BranchRows : [Places!Idle EXCEPT !.pc = "pullUsers", !.branch = b] \in Ask
  /\ \A u \in Employees, cs \in SUBSET Companies :
       [Places!Idle EXCEPT !.pc = "setBusinesses", !.users = {u}, !.grants = cs] \in Ask
  /\ \A c \in Companies, u \in Employees, j \in BOOLEAN :
       [Places!Idle EXCEPT !.pc = "provision", !.company = c, !.users = {u}, !.join = j] \in Ask
  /\ \A b \in BranchRows, u \in Employees, j \in BOOLEAN :
       [Places!Idle EXCEPT !.pc = "setMembership", !.branch = b, !.users = {u}, !.join = j] \in Ask
<1>1. \A n \in Names : [Places!Idle EXCEPT !.pc = "insertCompany", !.name = n] \in Ask
  BY DEF Places!Idle, Places!None, Ask, AskSteps
<1>2. \A c \in Companies : [Places!Idle EXCEPT !.pc = "dropCompany", !.company = c] \in Ask
  BY DEF Places!Idle, Places!None, Ask, AskSteps
<1>3. \A c \in Companies, k \in BranchCodes, s \in SUBSET Employees :
       [Places!Idle EXCEPT !.pc = "insertBranch", !.company = c, !.name = k, !.users = s] \in Ask
  BY DEF Places!Idle, Places!None, Ask, AskSteps
<1>4. \A b \in BranchRows : [Places!Idle EXCEPT !.pc = "pullUsers", !.branch = b] \in Ask
  BY DEF Places!Idle, Places!None, Ask, AskSteps
<1>5. \A u \in Employees, cs \in SUBSET Companies :
       [Places!Idle EXCEPT !.pc = "setBusinesses", !.users = {u}, !.grants = cs] \in Ask
  BY DEF Places!Idle, Places!None, Ask, AskSteps
<1>6. \A c \in Companies, u \in Employees, j \in BOOLEAN :
       [Places!Idle EXCEPT !.pc = "provision", !.company = c, !.users = {u}, !.join = j] \in Ask
  BY DEF Places!Idle, Places!None, Ask, AskSteps
<1>7. \A b \in BranchRows, u \in Employees, j \in BOOLEAN :
       [Places!Idle EXCEPT !.pc = "setMembership", !.branch = b, !.users = {u}, !.join = j] \in Ask
  BY DEF Places!Idle, Places!None, Ask, AskSteps
<1> QED BY <1>1, <1>2, <1>3, <1>4, <1>5, <1>6, <1>7

LEMMA AskWith ==
  ASSUME NEW m \in Ask, m.branch \in BranchRows
  PROVE  /\ \A s \in SUBSET Employees : [m EXCEPT !.users = s] \in Ask
         /\ \A pc \in {"dropDepartments", "dropBranch"} : [m EXCEPT !.pc = pc] \in Ask
BY DEF Ask, AskSteps

LEMMA AskAt ==
  ASSUME NEW m \in Ask, NEW b \in BranchRows
  PROVE  /\ \A s \in SUBSET Employees : [m EXCEPT !.pc = "addMembers", !.branch = b, !.users = s] \in Ask
         /\ [m EXCEPT !.pc = "setMembership", !.branch = b] \in Ask
BY DEF Ask, AskSteps

\* What each step makes of its request.
LEMMA CreateCompanyAsks ==
  ASSUME DirTypes, NEW r \in Requests, NEW n \in Names, Places!createCompany(r, n)
  PROVE  /\ OwnAsk(r) /\ provisioning[r].pc = "idle" /\ asked' \in 0..MaxProvisions
         /\ provisioning'[r].pc = "insertCompany" /\ provisioning'[r].name = n
<1> DEFINE m == [Places!Idle EXCEPT !.pc = "insertCompany", !.name = n]
<1>1. m \in Ask /\ Places!Ask(r, m)
  BY Asking DEF Places!createCompany
<1>2. m.pc = "insertCompany" /\ m.name = n
  BY DEF Places!Idle
<1> HIDE DEF m
<1> QED BY <1>1, <1>2, Asked

LEMMA DeleteCompanyAsks ==
  ASSUME DirTypes, NEW r \in Requests, NEW c \in Companies, Places!deleteCompany(r, c)
  PROVE  /\ OwnAsk(r) /\ provisioning[r].pc = "idle" /\ asked' \in 0..MaxProvisions
         /\ provisioning'[r].pc = "dropCompany" /\ provisioning'[r].company = c
<1> DEFINE m == [Places!Idle EXCEPT !.pc = "dropCompany", !.company = c]
<1>1. m \in Ask /\ Places!Ask(r, m)
  BY Asking DEF Places!deleteCompany
<1>2. m.pc = "dropCompany" /\ m.company = c
  BY DEF Places!Idle
<1> HIDE DEF m
<1> QED BY <1>1, <1>2, Asked

LEMMA CreateBranchAsks ==
  ASSUME DirTypes, NEW r \in Requests, NEW c \in Companies, NEW k \in BranchCodes, NEW s \in SUBSET Employees,
         Places!createBranch(r, c, k, s)
  PROVE  /\ OwnAsk(r) /\ provisioning[r].pc = "idle" /\ asked' \in 0..MaxProvisions
         /\ provisioning'[r].pc = "insertBranch" /\ provisioning'[r].company = c
<1> DEFINE m == [Places!Idle EXCEPT !.pc = "insertBranch", !.company = c, !.name = k, !.users = s]
<1>1. m \in Ask /\ Places!Ask(r, m)
  BY Asking DEF Places!createBranch
<1>2. m.pc = "insertBranch" /\ m.company = c
  BY DEF Places!Idle
<1> HIDE DEF m
<1> QED BY <1>1, <1>2, Asked

LEMMA DeleteBranchAsks ==
  ASSUME DirTypes, NEW r \in Requests, NEW b \in BranchRows, Places!deleteBranch(r, b)
  PROVE  /\ OwnAsk(r) /\ provisioning[r].pc = "idle" /\ asked' \in 0..MaxProvisions
         /\ provisioning'[r].pc = "pullUsers"
<1> DEFINE m == [Places!Idle EXCEPT !.pc = "pullUsers", !.branch = b]
<1>1. m \in Ask /\ Places!Ask(r, m)
  BY Asking DEF Places!deleteBranch
<1>2. m.pc = "pullUsers"
  BY DEF Places!Idle
<1> HIDE DEF m
<1> QED BY <1>1, <1>2, Asked

LEMMA UpdateUserAsks ==
  ASSUME DirTypes, NEW r \in Requests, NEW u \in Employees, NEW bs \in SUBSET BranchRows, NEW cs \in SUBSET Companies,
         Places!updateUser(r, u, bs, cs)
  PROVE  /\ OwnAsk(r) /\ provisioning[r].pc = "idle" /\ asked' \in 0..MaxProvisions
         /\ provisioning'[r].pc = "setBusinesses"
<1> DEFINE m == [Places!Idle EXCEPT !.pc = "setBusinesses", !.users = {u}, !.grants = cs]
<1>1. m \in Ask /\ Places!Ask(r, m)
  BY Asking DEF Places!updateUser
<1>2. m.pc = "setBusinesses"
  BY DEF Places!Idle
<1> HIDE DEF m
<1> QED BY <1>1, <1>2, Asked

LEMMA EnsureKbizAsks ==
  ASSUME DirTypes, NEW r \in Requests, NEW c \in Companies, NEW u \in Employees, NEW j \in BOOLEAN,
         Places!ensureKbizBom(r, c, u, j)
  PROVE  /\ OwnAsk(r) /\ provisioning[r].pc = "idle" /\ asked' \in 0..MaxProvisions
         /\ \/ /\ provisioning'[r].pc = "provision" /\ provisioning'[r].company = c
               /\ orphaned' = IF Places!Removing(c) THEN orphaned \cup {c} ELSE orphaned
            \/ provisioning'[r].pc = "setMembership" /\ UNCHANGED orphaned
<1>1. CASE /\ Places!Ask(r, [Places!Idle EXCEPT !.pc = "provision", !.company = c, !.users = {u}, !.join = j])
           /\ orphaned' = IF Places!Removing(c) THEN orphaned \cup {c} ELSE orphaned
  <2> DEFINE m == [Places!Idle EXCEPT !.pc = "provision", !.company = c, !.users = {u}, !.join = j]
  <2>1. m \in Ask /\ Places!Ask(r, m)
    BY <1>1, Asking
  <2>2. m.pc = "provision" /\ m.company = c
    BY DEF Places!Idle
  <2> HIDE DEF m
  <2> QED BY <1>1, <2>1, <2>2, Asked
<1>2. ASSUME NEW b \in BranchRows, UNCHANGED orphaned,
             Places!Ask(r, [Places!Idle EXCEPT !.pc = "setMembership", !.branch = b, !.users = {u}, !.join = j])
      PROVE  OwnAsk(r) /\ provisioning[r].pc = "idle" /\ asked' \in 0..MaxProvisions /\ provisioning'[r].pc = "setMembership"
  <2> DEFINE m == [Places!Idle EXCEPT !.pc = "setMembership", !.branch = b, !.users = {u}, !.join = j]
  <2>1. m \in Ask /\ Places!Ask(r, m)
    BY <1>2, Asking
  <2>2. m.pc = "setMembership"
    BY DEF Places!Idle
  <2> HIDE DEF m
  <2> QED BY <2>1, <2>2, Asked
<1> QED BY <1>1, <1>2 DEF Places!ensureKbizBom, Places!BranchesOf

\* A row that InsertBranch or Provision makes.
Inserted(r, b, k) ==
  /\ branch[b] = Places!NoBranch /\ ~Places!CodeTaken(k)
  /\ branch' = [branch EXCEPT ![b] = [pc |-> "up", code |-> k, of |-> provisioning[r].company]]

LEMMA InsertBranchDoes ==
  ASSUME DirTypes, NEW r \in Requests, Places!InsertBranch(r)
  PROVE  /\ OwnAsk(r) /\ provisioning[r].pc = "insertBranch"
         /\ \/ provisioning'[r].pc = "idle" /\ UNCHANGED branch
            \/ provisioning'[r].pc = "addMembers" /\ \E b \in BranchRows : Inserted(r, b, provisioning[r].name)
<1>1. provisioning[r].pc = "insertBranch"
  BY DEF Places!InsertBranch
<1>2. CASE Places!Answer(r) /\ UNCHANGED branch
  BY <1>1, <1>2, Answered
<1>3. ASSUME NEW b \in BranchRows, Inserted(r, b, provisioning[r].name),
             provisioning' = [provisioning EXCEPT ![r].pc = "addMembers", ![r].branch = b, ![r].users = @ \cap users]
      PROVE  OwnAsk(r) /\ provisioning'[r].pc = "addMembers"
  <2> DEFINE m == [provisioning[r] EXCEPT !.pc = "addMembers", !.branch = b, !.users = provisioning[r].users \cap users]
  <2>1. m \in Ask
    BY AskFields, AskAt
  <2>2. m.pc = "addMembers"
    BY AskFields DEF Ask
  <2>3. provisioning' = [provisioning EXCEPT ![r] = m]
    BY <1>3 DEF DirTypes
  <2> HIDE DEF m
  <2> QED BY <2>1, <2>2, <2>3, AskOf
<1> QED BY <1>1, <1>2, <1>3 DEF Places!InsertBranch, Inserted

LEMMA ProvisionDoes ==
  ASSUME DirTypes, NEW r \in Requests, Places!Provision(r)
  PROVE  /\ OwnAsk(r) /\ provisioning[r].pc = "provision"
         /\ \/ provisioning'[r].pc = "idle" /\ UNCHANGED branch
            \/ provisioning'[r].pc = "setMembership" /\ \E b \in BranchRows : Inserted(r, b, KbizCode)
<1>1. provisioning[r].pc = "provision"
  BY DEF Places!Provision
<1>2. CASE Places!Answer(r) /\ UNCHANGED branch
  BY <1>1, <1>2, Answered
<1>3. ASSUME NEW b \in BranchRows, Inserted(r, b, KbizCode),
             provisioning' = [provisioning EXCEPT ![r].pc = "setMembership", ![r].branch = b]
      PROVE  OwnAsk(r) /\ provisioning'[r].pc = "setMembership"
  <2> DEFINE m == [provisioning[r] EXCEPT !.pc = "setMembership", !.branch = b]
  <2>1. m \in Ask
    BY AskFields, AskAt
  <2>2. m.pc = "setMembership"
    BY AskFields DEF Ask
  <2>3. provisioning' = [provisioning EXCEPT ![r] = m]
    BY <1>3 DEF DirTypes
  <2> HIDE DEF m
  <2> QED BY <2>1, <2>2, <2>3, AskOf
<1> QED BY <1>1, <1>2, <1>3 DEF Places!Provision, Inserted

LEMMA AddMemberDoes ==
  ASSUME DirTypes, NEW r \in Requests, Places!AddMember(r)
  PROVE  /\ OwnAsk(r) /\ provisioning[r].pc = "addMembers" /\ provisioning[r].branch \in BranchRows
         /\ provisioning'[r].pc \in {"idle", "addMembers"}
         /\ \/ UNCHANGED <<branchIds, rejoined>>
            \/ \E u \in Employees : Places!addUserBranch(u, provisioning[r].branch)
<1>1. provisioning[r].pc = "addMembers" /\ provisioning[r].branch \in BranchRows
  BY AskFields DEF Places!AddMember
<1>2. CASE Places!Answer(r) /\ UNCHANGED <<branchIds, rejoined>>
  BY <1>1, <1>2, Answered
<1>3. ASSUME NEW u \in provisioning[r].users, provisioning' = [provisioning EXCEPT ![r].users = @ \ {u}],
             Places!addUserBranch(u, provisioning[r].branch)
      PROVE  OwnAsk(r) /\ provisioning'[r].pc = "addMembers" /\ u \in Employees
  <2> DEFINE m == [provisioning[r] EXCEPT !.users = provisioning[r].users \ {u}]
  <2>1. m \in Ask /\ u \in Employees
    BY <1>1, AskFields, AskWith
  <2>2. m.pc = "addMembers"
    BY <1>1, AskFields DEF Ask
  <2>3. provisioning' = [provisioning EXCEPT ![r] = m]
    BY <1>3 DEF DirTypes
  <2> HIDE DEF m
  <2> QED BY <2>1, <2>2, <2>3, AskOf
<1> QED BY <1>1, <1>2, <1>3 DEF Places!AddMember

LEMMA ThenDoes ==
  ASSUME DirTypes, NEW r \in Requests, NEW pc \in {"dropDepartments", "dropBranch"},
         provisioning[r].branch \in BranchRows, Places!Then(r, pc)
  PROVE  OwnAsk(r) /\ provisioning'[r].pc = pc /\ provisioning'[r].branch = provisioning[r].branch
<1> DEFINE m == [provisioning[r] EXCEPT !.pc = pc]
<1>1. m \in Ask
  BY AskFields, AskWith
<1>2. m.pc = pc /\ m.branch = provisioning[r].branch
  BY AskFields DEF Ask
<1>3. provisioning' = [provisioning EXCEPT ![r] = m]
  BY DEF DirTypes, Places!Then
<1> HIDE DEF m
<1> QED BY <1>1, <1>2, <1>3, AskOf

LEMMA PullUsersDoes ==
  ASSUME DirTypes, NEW r \in Requests, Places!PullUsers(r)
  PROVE  /\ OwnAsk(r) /\ provisioning[r].pc = "pullUsers" /\ provisioning'[r].pc = "dropDepartments"
         /\ provisioning'[r].branch = provisioning[r].branch /\ provisioning[r].branch \in BranchRows
<1>1. provisioning[r].pc = "pullUsers" /\ Places!Then(r, "dropDepartments")
  BY DEF Places!PullUsers
<1>2. provisioning[r].branch \in BranchRows
  BY <1>1, AskFields
<1> QED BY <1>1, <1>2, ThenDoes

LEMMA DropDepartmentsDoes ==
  ASSUME DirTypes, NEW r \in Requests, Places!DropDepartments(r)
  PROVE  /\ OwnAsk(r) /\ provisioning[r].pc = "dropDepartments" /\ provisioning'[r].pc = "dropBranch"
         /\ provisioning'[r].branch = provisioning[r].branch /\ provisioning[r].branch \in BranchRows
<1>1. provisioning[r].pc = "dropDepartments" /\ Places!Then(r, "dropBranch")
  BY DEF Places!DropDepartments
<1>2. provisioning[r].branch \in BranchRows
  BY <1>1, AskFields
<1> QED BY <1>1, <1>2, ThenDoes

LEMMA AnsweredBy ==
  ASSUME DirTypes, NEW r \in Requests,
         \/ Places!InsertCompany(r) \/ Places!DropCompany(r) \/ Places!DropBranch(r)
         \/ Places!setBusinesses(r) \/ Places!setKbizMembership(r) \/ Places!Die(r)
  PROVE  OwnAsk(r) /\ provisioning'[r].pc = "idle"
BY Answered DEF Places!InsertCompany, Places!DropCompany, Places!DropBranch, Places!setBusinesses,
     Places!setKbizMembership, Places!Die

\* Rows that are made and dropped.
LEMMA InsertCompanyDoes ==
  ASSUME DirTypes, NEW r \in Requests, Places!InsertCompany(r)
  PROVE  /\ company' \in [Companies -> CompanyRow] /\ provisioning[r].pc = "insertCompany"
         /\ \E c \in Companies :
              /\ company[c].pc = "none" /\ company'[c].pc = "up" /\ company'[c].name = provisioning[r].name
              /\ \A d \in Companies : d # c => company'[d] = company[d]
<1>1. provisioning[r].pc = "insertCompany" /\ provisioning[r].name \in Names
  BY AskFields DEF Places!InsertCompany
<1>2. PICK c \in Companies : /\ company[c] = Places!NoCompany
                             /\ company' = [company EXCEPT ![c] = [pc |-> "up", name |-> provisioning[r].name]]
  BY DEF Places!InsertCompany
<1> DEFINE x == [pc |-> "up", name |-> provisioning[r].name]
<1>3. x \in CompanyRow /\ x.pc = "up" /\ x.name = provisioning[r].name
  BY <1>1 DEF CompanyRow
<1>4. company[c].pc = "none"
  BY <1>2 DEF Places!NoCompany
<1>5. company' = [company EXCEPT ![c] = x]
  BY <1>2
<1> HIDE DEF x
<1>6. company' \in [Companies -> CompanyRow] /\ company'[c] = x /\ \A d \in Companies : d # c => company'[d] = company[d]
  BY <1>3, <1>5 DEF DirTypes
<1> QED BY <1>1, <1>3, <1>4, <1>6

LEMMA DropCompanyDoes ==
  ASSUME DirTypes, NEW r \in Requests, Places!DropCompany(r)
  PROVE  /\ company' \in [Companies -> CompanyRow] /\ provisioning[r].pc = "dropCompany"
         /\ provisioning[r].company \in Companies /\ company'[provisioning[r].company].pc = "gone"
         /\ \A d \in Companies : d # provisioning[r].company => company'[d] = company[d]
<1>1. provisioning[r].pc = "dropCompany" /\ provisioning[r].company \in Companies
  BY AskFields DEF Places!DropCompany
<1> DEFINE x == [company[provisioning[r].company] EXCEPT !.pc = "gone"]
<1>2. x \in CompanyRow /\ x.pc = "gone"
  BY <1>1 DEF DirTypes, CompanyRow
<1>3. company' = [company EXCEPT ![provisioning[r].company] = x]
  BY <1>1 DEF Places!DropCompany, DirTypes
<1> HIDE DEF x
<1> QED BY <1>1, <1>2, <1>3 DEF DirTypes

LEMMA InsertedDoes ==
  ASSUME DirTypes, NEW r \in Requests, NEW b \in BranchRows, NEW k \in BranchCodes, Inserted(r, b, k),
         provisioning[r].company \in Companies
  PROVE  /\ branch' \in [BranchRows -> BranchRow]
         /\ branch[b].pc = "none" /\ branch'[b].pc = "up" /\ branch'[b].code = k
         /\ branch'[b].of = provisioning[r].company
         /\ \A d \in BranchRows : d # b => branch'[d] = branch[d]
<1> DEFINE x == [pc |-> "up", code |-> k, of |-> provisioning[r].company]
<1>1. x \in BranchRow /\ x.pc = "up" /\ x.code = k /\ x.of = provisioning[r].company
  BY DEF BranchRow
<1>2. branch[b].pc = "none"
  BY DEF Inserted, Places!NoBranch
<1>3. branch' = [branch EXCEPT ![b] = x]
  BY DEF Inserted
<1> HIDE DEF x
<1> QED BY <1>1, <1>2, <1>3 DEF DirTypes

LEMMA DropBranchDoes ==
  ASSUME DirTypes, NEW r \in Requests, Places!DropBranch(r)
  PROVE  /\ branch' \in [BranchRows -> BranchRow] /\ provisioning[r].pc = "dropBranch"
         /\ provisioning[r].branch \in BranchRows /\ branch'[provisioning[r].branch].pc = "gone"
         /\ \A d \in BranchRows : d # provisioning[r].branch => branch'[d] = branch[d]
<1>1. provisioning[r].pc = "dropBranch" /\ provisioning[r].branch \in BranchRows
  BY AskFields DEF Places!DropBranch
<1> DEFINE x == [branch[provisioning[r].branch] EXCEPT !.pc = "gone"]
<1>2. x \in BranchRow /\ x.pc = "gone"
  BY <1>1 DEF DirTypes, BranchRow
<1>3. branch' = [branch EXCEPT ![provisioning[r].branch] = x]
  BY <1>1 DEF Places!DropBranch, DirTypes
<1> HIDE DEF x
<1> QED BY <1>1, <1>2, <1>3 DEF DirTypes

LEMMA DirTypesStay ==
  ASSUME DirTypes, Places!DirNext
  PROVE  DirTypes'
<1> USE DEF OwnAsk
<1>1. ASSUME NEW r \in Requests, NEW n \in Names, Places!createCompany(r, n)
      PROVE  DirTypes'
  BY <1>1, CreateCompanyAsks DEF DirTypes, Places!createCompany
<1>2. ASSUME NEW r \in Requests, NEW c \in Companies, Places!deleteCompany(r, c)
      PROVE  DirTypes'
  BY <1>2, DeleteCompanyAsks DEF DirTypes, Places!deleteCompany
<1>3. ASSUME NEW r \in Requests, NEW c \in Companies, NEW k \in BranchCodes, NEW s \in SUBSET Employees, Places!createBranch(r, c, k, s)
      PROVE  DirTypes'
  <2>1. /\ UNCHANGED <<company, branch, users, branchIds, businesses, departments, named, rejoined>>
        /\ orphaned' \in {orphaned, orphaned \cup {c}}
    BY <1>3 DEF Places!createBranch
  <2>2. OwnAsk(r) /\ asked' \in 0..MaxProvisions
    BY <1>3, CreateBranchAsks
  <2> QED BY <2>1, <2>2 DEF DirTypes
<1>4. ASSUME NEW r \in Requests, NEW c \in Companies, NEW u \in Employees, NEW j \in BOOLEAN, Places!ensureKbizBom(r, c, u, j)
      PROVE  DirTypes'
  <2>1. UNCHANGED <<company, branch, users, branchIds, businesses, departments, named, rejoined>>
    BY <1>4 DEF Places!ensureKbizBom
  <2>2. OwnAsk(r) /\ asked' \in 0..MaxProvisions /\ orphaned' \in {orphaned, orphaned \cup {c}}
    BY <1>4, EnsureKbizAsks
  <2> QED BY <2>1, <2>2 DEF DirTypes
<1>5. ASSUME NEW r \in Requests, NEW b \in BranchRows, Places!deleteBranch(r, b)
      PROVE  DirTypes'
  BY <1>5, DeleteBranchAsks DEF DirTypes, Places!deleteBranch
<1>6. ASSUME NEW r \in Requests, NEW u \in Employees, NEW bs \in SUBSET BranchRows, NEW cs \in SUBSET Companies,
             Places!updateUser(r, u, bs, cs)
      PROVE  DirTypes'
  <2>1. branchIds' \in [Employees -> SUBSET BranchRows]
    BY <1>6 DEF DirTypes, Places!updateUser
  <2>2. rejoined' \subseteq (Employees \cup {"department"}) \X BranchRows
    BY <1>6 DEF DirTypes, Places!updateUser
  <2> QED BY <1>6, <2>1, <2>2, UpdateUserAsks DEF DirTypes, Places!updateUser
<1>7. ASSUME NEW r \in Requests, Places!InsertCompany(r)
      PROVE  DirTypes'
  BY <1>7, InsertCompanyDoes, AnsweredBy DEF DirTypes, Places!InsertCompany
<1>8. ASSUME NEW r \in Requests, Places!DropCompany(r)
      PROVE  DirTypes'
  BY <1>8, DropCompanyDoes, AnsweredBy DEF DirTypes, Places!DropCompany
<1>9. ASSUME NEW r \in Requests, Places!DropBranch(r)
      PROVE  DirTypes'
  BY <1>9, DropBranchDoes, AnsweredBy DEF DirTypes, Places!DropBranch
<1>10. ASSUME NEW r \in Requests, Places!InsertBranch(r)
       PROVE  DirTypes'
  <2>1. branch' \in [BranchRows -> BranchRow]
    BY <1>10, InsertBranchDoes, InsertedDoes, AskFields DEF DirTypes
  <2> QED BY <1>10, <2>1, InsertBranchDoes DEF DirTypes, Places!InsertBranch
<1>11. ASSUME NEW r \in Requests, Places!Provision(r)
       PROVE  DirTypes'
  <2>1. branch' \in [BranchRows -> BranchRow]
    BY <1>11, ProvisionDoes, InsertedDoes, AskFields, DirectoryConstants DEF DirTypes
  <2> QED BY <1>11, <2>1, ProvisionDoes DEF DirTypes, Places!Provision
<1>12. ASSUME NEW u \in Employees, NEW b \in BranchRows, Places!addUserBranch(u, b)
       PROVE  DirTypes => branchIds' \in [Employees -> SUBSET BranchRows] /\ rejoined' \subseteq (Employees \cup {"department"}) \X BranchRows
  BY <1>12 DEF DirTypes, Places!addUserBranch
<1>13. ASSUME NEW r \in Requests, Places!AddMember(r)
       PROVE  DirTypes'
  <2>1. branchIds' \in [Employees -> SUBSET BranchRows] /\ rejoined' \subseteq (Employees \cup {"department"}) \X BranchRows
    BY <1>12, <1>13, AddMemberDoes DEF DirTypes
  <2> QED BY <1>13, <2>1, AddMemberDoes DEF DirTypes, Places!AddMember
<1>14. ASSUME NEW r \in Requests, Places!PullUsers(r)
       PROVE  DirTypes'
  BY <1>14, PullUsersDoes DEF DirTypes, Places!PullUsers
<1>15. ASSUME NEW r \in Requests, Places!DropDepartments(r)
       PROVE  DirTypes'
  BY <1>15, DropDepartmentsDoes DEF DirTypes, Places!DropDepartments
<1>16. ASSUME NEW r \in Requests, Places!setBusinesses(r)
       PROVE  DirTypes'
  <2>1. businesses' \in [Employees -> SUBSET Companies]
    BY <1>16, AskFields DEF DirTypes, Places!setBusinesses
  <2> QED BY <1>16, <2>1, AnsweredBy DEF DirTypes, Places!setBusinesses
<1>17. ASSUME NEW r \in Requests, Places!setKbizMembership(r)
       PROVE  DirTypes'
  <2>1. PICK u \in Employees : \/ Places!addUserBranch(u, provisioning[r].branch)
                             \/ Places!removeUserBranch(u, provisioning[r].branch)
    BY <1>17, AskFields DEF Places!setKbizMembership
  <2>2. provisioning[r].branch \in BranchRows
    BY <1>17, AskFields DEF Places!setKbizMembership
  <2>3. branchIds' \in [Employees -> SUBSET BranchRows] /\ rejoined' \subseteq (Employees \cup {"department"}) \X BranchRows
    BY <1>12, <2>1, <2>2 DEF DirTypes, Places!removeUserBranch
  <2> QED BY <1>17, <2>3, AnsweredBy DEF DirTypes, Places!setKbizMembership
<1>18. ASSUME NEW r \in Requests, Places!Die(r)
       PROVE  DirTypes'
  BY <1>18, AnsweredBy DEF DirTypes, Places!Die
<1>19. ASSUME NEW u \in Employees, Places!deleteUser(u)
       PROVE  DirTypes'
  BY <1>19 DEF DirTypes, Places!deleteUser
<1>20. ASSUME NEW b \in BranchRows, Places!AddDepartment(b)
       PROVE  DirTypes'
  BY <1>20 DEF DirTypes, Places!AddDepartment
<1> QED BY <1>1, <1>2, <1>3, <1>4, <1>5, <1>6, <1>7, <1>8, <1>9, <1>10, <1>11, <1>13, <1>14, <1>15, <1>16,
           <1>17, <1>18, <1>19, <1>20 DEF Places!DirNext

\* Requests on the way to one of these steps were there before.
SameAt(pcs) == \A q \in Requests : provisioning'[q].pc \in pcs => provisioning'[q] = provisioning[q]

LEMMA HomesSame ==
  ASSUME Homes, UNCHANGED <<company, branch>>, orphaned \subseteq orphaned', SameAt({"insertBranch", "provision", "dropCompany"})
  PROVE  Homes'
BY DEF Homes, SameAt, MakingAt, Places!Up

LEMMA HomesInsert ==
  ASSUME DirTypes, Homes, NEW r \in Requests, NEW b \in BranchRows, NEW k \in BranchCodes, Inserted(r, b, k),
         provisioning[r].pc \in MakingAt, UNCHANGED <<company, orphaned>>,
         SameAt({"insertBranch", "provision", "dropCompany"})
  PROVE  Homes'
<1>1. provisioning[r].company \in Companies
  BY AskFields DEF MakingAt
<1>2. /\ branch'[b].of = provisioning[r].company
      /\ \A d \in BranchRows : d # b => branch'[d] = branch[d]
  BY <1>1, InsertedDoes
<1> QED BY <1>1, <1>2 DEF Homes, SameAt, MakingAt, Places!Up

LEMMA HomesStay ==
  ASSUME DirTypes, Homes, Places!DirNext
  PROVE  Homes'
<1> USE DEF OwnAsk
<1>1. ASSUME NEW r \in Requests, NEW n \in Names, Places!createCompany(r, n)
      PROVE  Homes'
  <2>1. UNCHANGED <<company, branch, orphaned>>
    BY <1>1 DEF Places!createCompany
  <2>2. SameAt({"insertBranch", "provision", "dropCompany"})
    BY <1>1, CreateCompanyAsks DEF SameAt
  <2> QED BY <2>1, <2>2, HomesSame
<1>2. ASSUME NEW r \in Requests, NEW c \in Companies, Places!deleteCompany(r, c)
      PROVE  Homes'
  <2>1. /\ UNCHANGED <<company, branch>> /\ Places!BranchesOf(c) = {}
        /\ orphaned' = IF Places!Making(c) THEN orphaned \cup {c} ELSE orphaned
    BY <1>2 DEF Places!deleteCompany
  <2>2. /\ provisioning'[r].pc = "dropCompany" /\ provisioning'[r].company = c
        /\ \A q \in Requests : q # r => provisioning'[q] = provisioning[q]
    BY <1>2, DeleteCompanyAsks
  <2>3. \A q \in Requests : provisioning'[q].pc \in MakingAt /\ provisioning'[q].company = c => c \in orphaned'
    BY <2>1, <2>2 DEF Places!Making, Places!About, MakingAt
  <2>4. \A b \in BranchRows : ~(branch[b].pc = "up" /\ branch[b].of = c)
    BY <2>1 DEF Places!BranchesOf
  <2> QED BY <2>1, <2>2, <2>3, <2>4 DEF Homes, MakingAt, Places!Up
<1>3. ASSUME NEW r \in Requests, NEW c \in Companies, Places!Up(c), UNCHANGED <<company, branch>>, OwnAsk(r),
             provisioning'[r].pc \in MakingAt, provisioning'[r].company = c,
             orphaned' = IF Places!Removing(c) THEN orphaned \cup {c} ELSE orphaned
      PROVE  Homes'
  <2>1. \A q \in Requests : provisioning'[q].pc = "dropCompany" /\ provisioning'[q].company = c => c \in orphaned'
    BY <1>3 DEF Places!Removing, Places!About, MakingAt
  <2> QED BY <1>3, <2>1 DEF Homes, MakingAt, Places!Up
<1>4. ASSUME NEW r \in Requests, NEW c \in Companies, NEW k \in BranchCodes, NEW s \in SUBSET Employees, Places!createBranch(r, c, k, s)
      PROVE  Homes'
  <2>1. /\ Places!Up(c) /\ UNCHANGED <<company, branch>>
        /\ orphaned' = IF Places!Removing(c) THEN orphaned \cup {c} ELSE orphaned
    BY <1>4 DEF Places!createBranch
  <2> QED BY <1>3, <1>4, <2>1, CreateBranchAsks DEF MakingAt
<1>5. ASSUME NEW r \in Requests, NEW c \in Companies, NEW u \in Employees, NEW j \in BOOLEAN, Places!ensureKbizBom(r, c, u, j)
      PROVE  Homes'
  <2>1. Places!Up(c) /\ UNCHANGED <<company, branch>>
    BY <1>5 DEF Places!ensureKbizBom
  <2>2. CASE provisioning'[r].pc = "setMembership" /\ UNCHANGED orphaned
    BY <1>5, <2>1, <2>2, EnsureKbizAsks, HomesSame DEF SameAt
  <2> QED BY <1>3, <1>5, <2>1, <2>2, EnsureKbizAsks DEF MakingAt
<1>6. ASSUME NEW r \in Requests, NEW b \in BranchRows, Places!deleteBranch(r, b)
      PROVE  Homes'
  <2>1. UNCHANGED <<company, branch, orphaned>>
    BY <1>6 DEF Places!deleteBranch
  <2>2. SameAt({"insertBranch", "provision", "dropCompany"})
    BY <1>6, DeleteBranchAsks DEF SameAt
  <2> QED BY <2>1, <2>2, HomesSame
<1>7. ASSUME NEW r \in Requests, NEW u \in Employees, NEW bs \in SUBSET BranchRows, NEW cs \in SUBSET Companies,
             Places!updateUser(r, u, bs, cs)
      PROVE  Homes'
  <2>1. UNCHANGED <<company, branch, orphaned>>
    BY <1>7 DEF Places!updateUser
  <2>2. SameAt({"insertBranch", "provision", "dropCompany"})
    BY <1>7, UpdateUserAsks DEF SameAt
  <2> QED BY <2>1, <2>2, HomesSame
<1>8. ASSUME NEW r \in Requests, Places!InsertCompany(r)
      PROVE  Homes'
  <2>1. UNCHANGED <<branch, orphaned>>
    BY <1>8 DEF Places!InsertCompany
  <2>2. \A d \in Companies : Places!Up(d) => Places!Up(d)'
    BY <1>8, InsertCompanyDoes DEF Places!Up
  <2>3. SameAt({"insertBranch", "provision", "dropCompany"})
    BY <1>8, AnsweredBy DEF SameAt
  <2>4. \A q \in Requests : provisioning[q].pc \in MakingAt => provisioning[q].company \in Companies
    BY AskFields DEF MakingAt
  <2> QED BY <2>1, <2>2, <2>3, <2>4 DEF Homes, SameAt, MakingAt
<1>9. ASSUME NEW r \in Requests, Places!DropCompany(r)
      PROVE  Homes'
  <2>1. UNCHANGED <<branch, orphaned>>
    BY <1>9 DEF Places!DropCompany
  <2>2. \A d \in Companies : d # provisioning[r].company /\ Places!Up(d) => Places!Up(d)'
    BY <1>9, DropCompanyDoes DEF Places!Up
  <2>3. SameAt({"insertBranch", "provision", "dropCompany"}) /\ provisioning[r].pc = "dropCompany"
    BY <1>9, AnsweredBy, DropCompanyDoes DEF SameAt
  <2>4. \A q \in Requests : provisioning[q].pc \in MakingAt => provisioning[q].company \in Companies
    BY AskFields DEF MakingAt
  <2> QED BY <2>1, <2>2, <2>3, <2>4 DEF Homes, SameAt, MakingAt
<1>10. ASSUME NEW r \in Requests, Places!DropBranch(r)
       PROVE  Homes'
  <2>1. UNCHANGED <<company, orphaned>>
    BY <1>10 DEF Places!DropBranch
  <2>2. \A b \in BranchRows : branch'[b].pc = "up" => branch'[b] = branch[b]
    BY <1>10, DropBranchDoes
  <2>3. SameAt({"insertBranch", "provision", "dropCompany"})
    BY <1>10, AnsweredBy DEF SameAt
  <2> QED BY <2>1, <2>2, <2>3 DEF Homes, SameAt, MakingAt, Places!Up
<1>11. ASSUME NEW r \in Requests, Places!InsertBranch(r)
       PROVE  Homes'
  <2>1. UNCHANGED <<company, orphaned>>
    BY <1>11 DEF Places!InsertBranch
  <2>2. SameAt({"insertBranch", "provision", "dropCompany"})
    BY <1>11, InsertBranchDoes DEF SameAt
  <2> QED BY <1>11, <2>1, <2>2, InsertBranchDoes, AskFields, HomesSame, HomesInsert DEF MakingAt
<1>12. ASSUME NEW r \in Requests, Places!Provision(r)
       PROVE  Homes'
  <2>1. UNCHANGED <<company, orphaned>>
    BY <1>12 DEF Places!Provision
  <2>2. SameAt({"insertBranch", "provision", "dropCompany"})
    BY <1>12, ProvisionDoes DEF SameAt
  <2> QED BY <1>12, <2>1, <2>2, ProvisionDoes, DirectoryConstants, HomesSame, HomesInsert DEF MakingAt
<1>13. ASSUME NEW r \in Requests,
              \/ Places!AddMember(r) \/ Places!PullUsers(r) \/ Places!DropDepartments(r) \/ Places!setBusinesses(r)
              \/ Places!setKbizMembership(r) \/ Places!Die(r)
       PROVE  Homes'
  <2>1. UNCHANGED <<company, branch, orphaned>>
    BY <1>13 DEF Places!AddMember, Places!PullUsers, Places!DropDepartments, Places!setBusinesses,
                 Places!setKbizMembership, Places!Die
  <2>2. SameAt({"insertBranch", "provision", "dropCompany"})
    BY <1>13, AddMemberDoes, PullUsersDoes, DropDepartmentsDoes, AnsweredBy DEF SameAt
  <2> QED BY <2>1, <2>2, HomesSame
<1>14. ASSUME (\E u \in Employees : Places!deleteUser(u)) \/ (\E b \in BranchRows : Places!AddDepartment(b))
       PROVE  Homes'
  <2>1. UNCHANGED <<company, branch, orphaned, provisioning>>
    BY <1>14 DEF Places!deleteUser, Places!AddDepartment
  <2> QED BY <2>1, HomesSame DEF SameAt
<1> QED BY <1>1, <1>2, <1>4, <1>5, <1>6, <1>7, <1>8, <1>9, <1>10, <1>11, <1>12, <1>13, <1>14 DEF Places!DirNext

LEMMA NamesSame ==
  ASSUME NamesAtOnce, UNCHANGED <<company, branch>>, named \subseteq named', SameAt({"insertCompany"})
  PROVE  NamesAtOnce'
BY DEF NamesAtOnce, SameAt, Places!Up, Places!NamesAreUniqueUnlessAtOnce

LEMMA NamesInsert ==
  ASSUME DirTypes, NamesAtOnce, NEW r \in Requests, NEW b \in BranchRows, NEW k \in BranchCodes, Inserted(r, b, k),
         provisioning[r].company \in Companies, UNCHANGED <<company, named>>, SameAt({"insertCompany"})
  PROVE  NamesAtOnce'
<1>1. /\ branch'[b].code = k /\ \A d \in BranchRows : d # b => branch'[d] = branch[d]
  BY InsertedDoes
<1>2. \A d \in BranchRows : branch[d].pc = "up" => branch[d].code # k
  BY DEF Inserted, Places!CodeTaken
<1>3. \A d, e \in BranchRows : branch'[d].pc = "up" /\ branch'[e].pc = "up" /\ d # e => branch'[d].code # branch'[e].code
  BY <1>1, <1>2 DEF NamesAtOnce, Places!NamesAreUniqueUnlessAtOnce
<1> QED BY <1>3 DEF NamesAtOnce, SameAt, Places!Up, Places!NamesAreUniqueUnlessAtOnce

LEMMA NamesStay ==
  ASSUME DirTypes, NamesAtOnce, Places!DirNext
  PROVE  NamesAtOnce'
<1> USE DEF OwnAsk
<1>1. ASSUME NEW r \in Requests, NEW n \in Names, Places!createCompany(r, n)
      PROVE  NamesAtOnce'
  <2>1. /\ UNCHANGED <<company, branch>> /\ ~ \E c \in Companies : Places!Up(c) /\ company[c].name = n
        /\ named' = IF \E q \in Places!About({"insertCompany"}) : provisioning[q].name = n THEN named \cup {n} ELSE named
    BY <1>1 DEF Places!createCompany
  <2>2. provisioning'[r].pc = "insertCompany" /\ provisioning'[r].name = n
    BY <1>1, CreateCompanyAsks
  <2>3. \A q \in Requests : q # r => provisioning'[q] = provisioning[q]
    BY <1>1, CreateCompanyAsks
  <2>4. \A q \in Requests : q # r /\ provisioning[q].pc = "insertCompany" /\ provisioning[q].name = n => n \in named'
    BY <2>1 DEF Places!About
  <2>5. named \subseteq named'
    BY <2>1
  <2> QED BY <2>1, <2>2, <2>3, <2>4, <2>5 DEF NamesAtOnce, Places!Up, Places!NamesAreUniqueUnlessAtOnce
<1>2. ASSUME NEW r \in Requests, Places!InsertCompany(r)
      PROVE  NamesAtOnce'
  <2>1. UNCHANGED <<branch, named>> /\ provisioning[r].pc = "insertCompany"
    BY <1>2 DEF Places!InsertCompany
  <2>2. PICK c \in Companies : /\ company'[c].name = provisioning[r].name
                               /\ \A d \in Companies : d # c => company'[d] = company[d]
    BY <1>2, InsertCompanyDoes
  <2>3. provisioning'[r].pc = "idle" /\ \A q \in Requests : q # r => provisioning'[q] = provisioning[q]
    BY <1>2, AnsweredBy
  <2> QED BY <2>1, <2>2, <2>3 DEF NamesAtOnce, Places!Up, Places!NamesAreUniqueUnlessAtOnce
<1>3. ASSUME NEW r \in Requests, Places!DropCompany(r)
      PROVE  NamesAtOnce'
  <2>1. UNCHANGED <<branch, named>>
    BY <1>3 DEF Places!DropCompany
  <2>2. \A d \in Companies : Places!Up(d)' => Places!Up(d) /\ company'[d] = company[d]
    BY <1>3, DropCompanyDoes DEF Places!Up
  <2>3. SameAt({"insertCompany"})
    BY <1>3, AnsweredBy DEF SameAt
  <2> QED BY <2>1, <2>2, <2>3 DEF NamesAtOnce, SameAt, Places!NamesAreUniqueUnlessAtOnce
<1>4. ASSUME NEW r \in Requests, Places!DropBranch(r)
      PROVE  NamesAtOnce'
  <2>1. UNCHANGED <<company, named>>
    BY <1>4 DEF Places!DropBranch
  <2>2. \A b \in BranchRows : branch'[b].pc = "up" => branch'[b] = branch[b]
    BY <1>4, DropBranchDoes
  <2>3. SameAt({"insertCompany"})
    BY <1>4, AnsweredBy DEF SameAt
  <2> QED BY <2>1, <2>2, <2>3 DEF NamesAtOnce, SameAt, Places!Up, Places!NamesAreUniqueUnlessAtOnce
<1>5. ASSUME NEW r \in Requests, Places!InsertBranch(r)
      PROVE  NamesAtOnce'
  <2>1. UNCHANGED <<company, named>>
    BY <1>5 DEF Places!InsertBranch
  <2>2. SameAt({"insertCompany"})
    BY <1>5, InsertBranchDoes DEF SameAt
  <2> QED BY <1>5, <2>1, <2>2, InsertBranchDoes, AskFields, NamesSame, NamesInsert
<1>6. ASSUME NEW r \in Requests, Places!Provision(r)
      PROVE  NamesAtOnce'
  <2>1. UNCHANGED <<company, named>>
    BY <1>6 DEF Places!Provision
  <2>2. SameAt({"insertCompany"})
    BY <1>6, ProvisionDoes DEF SameAt
  <2> QED BY <1>6, <2>1, <2>2, ProvisionDoes, AskFields, DirectoryConstants, NamesSame, NamesInsert
<1>7. ASSUME NEW r \in Requests,
             \/ \E c \in Companies : \/ Places!deleteCompany(r, c)
                                     \/ \E k \in BranchCodes, s \in SUBSET Employees : Places!createBranch(r, c, k, s)
                                     \/ \E u \in Employees, j \in BOOLEAN : Places!ensureKbizBom(r, c, u, j)
             \/ \E b \in BranchRows : Places!deleteBranch(r, b)
             \/ \E u \in Employees, bs \in SUBSET BranchRows, cs \in SUBSET Companies : Places!updateUser(r, u, bs, cs)
      PROVE  NamesAtOnce'
  <2>1. UNCHANGED <<company, branch, named>>
    BY <1>7 DEF Places!deleteCompany, Places!createBranch, Places!ensureKbizBom, Places!deleteBranch, Places!updateUser
  <2>2. SameAt({"insertCompany"})
    BY <1>7, DeleteCompanyAsks, CreateBranchAsks, EnsureKbizAsks, DeleteBranchAsks, UpdateUserAsks DEF SameAt
  <2> QED BY <2>1, <2>2, NamesSame
<1>8. ASSUME NEW r \in Requests,
             \/ Places!AddMember(r) \/ Places!PullUsers(r) \/ Places!DropDepartments(r) \/ Places!setBusinesses(r)
             \/ Places!setKbizMembership(r) \/ Places!Die(r)
      PROVE  NamesAtOnce'
  <2>1. UNCHANGED <<company, branch, named>>
    BY <1>8 DEF Places!AddMember, Places!PullUsers, Places!DropDepartments, Places!setBusinesses,
                 Places!setKbizMembership, Places!Die
  <2>2. SameAt({"insertCompany"})
    BY <1>8, AddMemberDoes, PullUsersDoes, DropDepartmentsDoes, AnsweredBy DEF SameAt
  <2> QED BY <2>1, <2>2, NamesSame
<1>9. ASSUME (\E u \in Employees : Places!deleteUser(u)) \/ (\E b \in BranchRows : Places!AddDepartment(b))
      PROVE  NamesAtOnce'
  <2>1. UNCHANGED <<company, branch, named, provisioning>>
    BY <1>9 DEF Places!deleteUser, Places!AddDepartment
  <2> QED BY <2>1, NamesSame DEF SameAt
<1> QED BY <1>1, <1>2, <1>3, <1>4, <1>5, <1>6, <1>7, <1>8, <1>9 DEF Places!DirNext

\* No more branches are on their way out than before.
LeavesAsBefore == SameAt({"dropDepartments", "dropBranch"}) /\ \A b \in BranchRows : branch[b].pc = "up" => branch'[b].pc = "up"

LEMMA LeavingSame ==
  ASSUME LeavesAsBefore, NEW b \in BranchRows, Places!Leaving(b)'
  PROVE  Places!Leaving(b)
BY DEF LeavesAsBefore, SameAt, Places!Leaving, Places!About

LEMMA LateSame ==
  ASSUME JoinedLate, UNCHANGED <<branchIds, departments, rejoined>>, users' \subseteq users, LeavesAsBefore,
         \A b \in BranchRows : branch'[b].pc = "gone" => branch[b].pc = "gone", departments \subseteq BranchRows
  PROVE  JoinedLate'
<1>1. \A b \in BranchRows : Places!Leaving(b)' => \A u \in users' : b \in branchIds'[u] => <<u, b>> \in rejoined'
  BY LeavingSame DEF JoinedLate
<1> QED BY <1>1 DEF JoinedLate, LeavesAsBefore, SameAt

\* Who joins a branch late is noted.
LEMMA LateJoins ==
  ASSUME DirTypes, JoinedLate, NEW u \in Employees, NEW b \in BranchRows,
         Places!addUserBranch(u, b) \/ Places!removeUserBranch(u, b),
         UNCHANGED <<branch, departments, users>>, SameAt({"dropDepartments", "dropBranch"})
  PROVE  JoinedLate'
<1>1. LeavesAsBefore
  BY DEF LeavesAsBefore
<1>2. ASSUME NEW x \in BranchRows, Places!Leaving(x)', NEW v \in users, x \in branchIds'[v]
      PROVE  <<v, x>> \in rejoined'
  <2>1. Places!Leaving(x) /\ v \in Employees
    BY <1>1, <1>2, LeavingSame DEF DirTypes
  <2>2. CASE Places!addUserBranch(u, b)
    BY <1>2, <2>1, <2>2 DEF Places!addUserBranch, JoinedLate, DirTypes
  <2>3. CASE Places!removeUserBranch(u, b)
    BY <1>2, <2>1, <2>3 DEF Places!removeUserBranch, JoinedLate, DirTypes
  <2> QED BY <2>2, <2>3
<1>3. \A x : <<"department", x>> \in rejoined => <<"department", x>> \in rejoined'
  BY DirectoryConstants DEF Places!addUserBranch, Places!removeUserBranch
<1> QED BY <1>2, <1>3 DEF JoinedLate, SameAt

LEMMA LateInsert ==
  ASSUME DirTypes, JoinedLate, NEW r \in Requests, NEW b \in BranchRows, NEW k \in BranchCodes, Inserted(r, b, k),
         provisioning[r].company \in Companies, UNCHANGED <<branchIds, departments, rejoined, users>>,
         SameAt({"dropDepartments", "dropBranch"})
  PROVE  JoinedLate'
<1>1. \A d \in BranchRows : branch'[d].pc = "up" \/ branch'[d] = branch[d]
  BY InsertedDoes
<1> QED BY <1>1, LateSame DEF LeavesAsBefore, DirTypes

LEMMA LateStays ==
  ASSUME DirTypes, JoinedLate, Places!DirNext
  PROVE  JoinedLate'
<1> USE DEF OwnAsk
<1>0. departments \subseteq BranchRows
  BY DEF DirTypes
<1>1. ASSUME NEW r \in Requests,
             \/ \E n \in Names : Places!createCompany(r, n)
             \/ \E c \in Companies : \/ Places!deleteCompany(r, c)
                                     \/ \E k \in BranchCodes, s \in SUBSET Employees : Places!createBranch(r, c, k, s)
                                     \/ \E u \in Employees, j \in BOOLEAN : Places!ensureKbizBom(r, c, u, j)
             \/ \E b \in BranchRows : Places!deleteBranch(r, b)
             \/ Places!InsertCompany(r) \/ Places!DropCompany(r) \/ Places!setBusinesses(r) \/ Places!Die(r)
      PROVE  JoinedLate'
  <2>1. UNCHANGED <<branch, branchIds, departments, rejoined, users>>
    BY <1>1 DEF Places!createCompany, Places!deleteCompany, Places!createBranch, Places!ensureKbizBom,
                Places!deleteBranch, Places!InsertCompany, Places!DropCompany, Places!setBusinesses, Places!Die
  <2>2. SameAt({"dropDepartments", "dropBranch"})
    BY <1>1, CreateCompanyAsks, DeleteCompanyAsks, CreateBranchAsks, EnsureKbizAsks, DeleteBranchAsks, AnsweredBy DEF SameAt
  <2> QED BY <1>0, <2>1, <2>2, LateSame DEF LeavesAsBefore
<1>2. ASSUME NEW r \in Requests, NEW u \in Employees, NEW bs \in SUBSET BranchRows, NEW cs \in SUBSET Companies,
             Places!updateUser(r, u, bs, cs)
      PROVE  JoinedLate'
  <2>1. /\ UNCHANGED <<branch, departments, users>> /\ branchIds' = [branchIds EXCEPT ![u] = bs]
        /\ rejoined' = {p \in rejoined : p[1] # u} \cup {<<u, b>> : b \in {x \in bs : Places!Leaving(x)}}
    BY <1>2 DEF Places!updateUser
  <2>2. SameAt({"dropDepartments", "dropBranch"}) /\ LeavesAsBefore
    BY <1>2, <2>1, UpdateUserAsks DEF SameAt, LeavesAsBefore
  <2>3. ASSUME NEW x \in BranchRows, Places!Leaving(x)', NEW v \in users, x \in branchIds'[v]
        PROVE  <<v, x>> \in rejoined'
    <3>1. Places!Leaving(x) /\ v \in Employees
      BY <2>2, <2>3, LeavingSame DEF DirTypes
    <3> QED BY <2>1, <2>3, <3>1 DEF JoinedLate, DirTypes
  <2>4. \A x : <<"department", x>> \in rejoined => <<"department", x>> \in rejoined'
    BY <2>1, DirectoryConstants
  <2> QED BY <2>1, <2>2, <2>3, <2>4 DEF JoinedLate, SameAt
<1>3. ASSUME NEW r \in Requests, Places!InsertBranch(r)
      PROVE  JoinedLate'
  <2>1. UNCHANGED <<branchIds, departments, rejoined, users>>
    BY <1>3 DEF Places!InsertBranch
  <2>2. SameAt({"dropDepartments", "dropBranch"})
    BY <1>3, InsertBranchDoes DEF SameAt
  <2>3. CASE UNCHANGED branch
    BY <1>0, <2>1, <2>2, <2>3, LateSame DEF LeavesAsBefore
  <2> QED BY <1>3, <2>1, <2>2, <2>3, InsertBranchDoes, AskFields, LateInsert
<1>4. ASSUME NEW r \in Requests, Places!Provision(r)
      PROVE  JoinedLate'
  <2>1. UNCHANGED <<branchIds, departments, rejoined, users>>
    BY <1>4 DEF Places!Provision
  <2>2. SameAt({"dropDepartments", "dropBranch"})
    BY <1>4, ProvisionDoes DEF SameAt
  <2>3. CASE UNCHANGED branch
    BY <1>0, <2>1, <2>2, <2>3, LateSame DEF LeavesAsBefore
  <2> QED BY <1>4, <2>1, <2>2, <2>3, ProvisionDoes, AskFields, DirectoryConstants, LateInsert
<1>5. ASSUME NEW r \in Requests, Places!AddMember(r)
      PROVE  JoinedLate'
  <2>1. UNCHANGED <<branch, departments, users>>
    BY <1>5 DEF Places!AddMember
  <2>2. SameAt({"dropDepartments", "dropBranch"})
    BY <1>5, AddMemberDoes DEF SameAt
  <2>3. CASE UNCHANGED <<branchIds, rejoined>>
    BY <1>0, <2>1, <2>2, <2>3, LateSame DEF LeavesAsBefore
  <2> QED BY <1>5, <2>1, <2>2, <2>3, AddMemberDoes, LateJoins
<1>6. ASSUME NEW r \in Requests, Places!setKbizMembership(r)
      PROVE  JoinedLate'
  <2>1. UNCHANGED <<branch, departments, users>>
    BY <1>6 DEF Places!setKbizMembership
  <2>2. SameAt({"dropDepartments", "dropBranch"})
    BY <1>6, AnsweredBy DEF SameAt
  <2>3. PICK u \in Employees : \/ Places!addUserBranch(u, provisioning[r].branch)
                             \/ Places!removeUserBranch(u, provisioning[r].branch)
    BY <1>6, AskFields DEF Places!setKbizMembership
  <2>4. provisioning[r].branch \in BranchRows
    BY <1>6, AskFields DEF Places!setKbizMembership
  <2> QED BY <2>1, <2>2, <2>3, <2>4, LateJoins
<1>7. ASSUME NEW r \in Requests, Places!PullUsers(r)
      PROVE  JoinedLate'
  <2> DEFINE b == provisioning[r].branch
  <2>1. /\ UNCHANGED <<branch, departments, users>> /\ branchIds' = [u \in Employees |-> branchIds[u] \ {b}]
        /\ rejoined' = {p \in rejoined : p[2] # b \/ p[1] \notin Employees}
    BY <1>7 DEF Places!PullUsers
  <2>2. /\ provisioning'[r].pc = "dropDepartments" /\ provisioning'[r].branch = b
        /\ \A q \in Requests : q # r => provisioning'[q] = provisioning[q]
    BY <1>7, PullUsersDoes
  <2>3. ASSUME NEW x \in BranchRows, Places!Leaving(x)', NEW v \in users, x \in branchIds'[v]
        PROVE  <<v, x>> \in rejoined'
    <3>1. v \in Employees /\ x # b /\ x \in branchIds[v]
      BY <2>1, <2>3 DEF DirTypes
    <3>2. Places!Leaving(x)
      BY <2>1, <2>2, <2>3, <3>1 DEF Places!Leaving, Places!About
    <3> QED BY <2>1, <3>1, <3>2 DEF JoinedLate
  <2>4. \A x : <<"department", x>> \in rejoined => <<"department", x>> \in rejoined'
    BY <2>1, DirectoryConstants
  <2> QED BY <2>1, <2>2, <2>3, <2>4 DEF JoinedLate
<1>8. ASSUME NEW r \in Requests, Places!DropDepartments(r)
      PROVE  JoinedLate'
  <2> DEFINE b == provisioning[r].branch
  <2>1. /\ UNCHANGED <<branch, branchIds, users>> /\ departments' = departments \ {b}
        /\ rejoined' = rejoined \ {<<"department", b>>}
    BY <1>8 DEF Places!DropDepartments
  <2>2. /\ provisioning'[r].pc = "dropBranch" /\ provisioning'[r].branch = b /\ provisioning[r].pc = "dropDepartments"
        /\ \A q \in Requests : q # r => provisioning'[q] = provisioning[q]
    BY <1>8, DropDepartmentsDoes
  <2>3. ASSUME NEW x \in BranchRows, Places!Leaving(x)', NEW v \in users, x \in branchIds'[v]
        PROVE  <<v, x>> \in rejoined'
    <3>1. Places!Leaving(x)
      BY <2>1, <2>2, <2>3 DEF Places!Leaving, Places!About
    <3>2. v # "department"
      BY DirectoryConstants DEF DirTypes
    <3> QED BY <2>1, <2>3, <3>1, <3>2 DEF JoinedLate
  <2> QED BY <2>1, <2>2, <2>3 DEF JoinedLate
<1>9. ASSUME NEW r \in Requests, Places!DropBranch(r)
      PROVE  JoinedLate'
  <2>1. UNCHANGED <<branchIds, departments, rejoined, users>>
    BY <1>9 DEF Places!DropBranch
  <2>2. /\ provisioning[r].pc = "dropBranch" /\ provisioning[r].branch \in BranchRows
        /\ \A d \in BranchRows : d # provisioning[r].branch => branch'[d] = branch[d]
    BY <1>9, DropBranchDoes
  <2>3. provisioning'[r].pc = "idle" /\ \A q \in Requests : q # r => provisioning'[q] = provisioning[q]
    BY <1>9, AnsweredBy
  <2>4. ASSUME NEW x \in BranchRows, Places!Leaving(x)'
        PROVE  Places!Leaving(x)
    BY <2>2, <2>3, <2>4 DEF Places!Leaving, Places!About
  <2> QED BY <1>0, <2>1, <2>2, <2>3, <2>4 DEF JoinedLate
<1>10. ASSUME NEW u \in Employees, Places!deleteUser(u)
       PROVE  JoinedLate'
  <2>1. /\ UNCHANGED <<branch, departments, provisioning>> /\ users' = users \ {u}
        /\ branchIds' = [branchIds EXCEPT ![u] = {}] /\ rejoined' = {p \in rejoined : p[1] # u}
    BY <1>10 DEF Places!deleteUser
  <2>2. LeavesAsBefore
    BY <2>1 DEF LeavesAsBefore, SameAt
  <2>3. ASSUME NEW x \in BranchRows, Places!Leaving(x)', NEW v \in users', x \in branchIds'[v]
        PROVE  <<v, x>> \in rejoined'
    <3>1. Places!Leaving(x) /\ v \in Employees /\ v # u /\ v \in users
      BY <2>1, <2>2, <2>3, LeavingSame DEF DirTypes
    <3> QED BY <2>1, <2>3, <3>1 DEF JoinedLate, DirTypes
  <2>4. \A x : <<"department", x>> \in rejoined => <<"department", x>> \in rejoined'
    BY <2>1, DirectoryConstants
  <2> QED BY <2>1, <2>3, <2>4 DEF JoinedLate
<1>11. ASSUME NEW b \in BranchRows, Places!AddDepartment(b)
       PROVE  JoinedLate'
  <2>1. /\ UNCHANGED <<branch, branchIds, provisioning, users>> /\ departments' = departments \cup {b} /\ branch[b].pc = "up"
        /\ rejoined' = IF Places!Leaving(b) THEN rejoined \cup {<<"department", b>>} ELSE rejoined
    BY <1>11 DEF Places!AddDepartment
  <2>2. LeavesAsBefore
    BY <2>1 DEF LeavesAsBefore, SameAt
  <2>3. \A r \in Requests : provisioning[r].pc = "dropBranch" /\ provisioning[r].branch = b => <<"department", b>> \in rejoined'
    BY <2>1 DEF Places!Leaving, Places!About
  <2>4. \A x \in BranchRows : Places!Leaving(x)' => \A u \in users : x \in branchIds[u] => <<u, x>> \in rejoined'
    BY <2>1, <2>2, LeavingSame DEF JoinedLate
  <2> QED BY <2>1, <2>3, <2>4 DEF JoinedLate
<1> QED BY <1>1, <1>2, <1>3, <1>4, <1>5, <1>6, <1>7, <1>8, <1>9, <1>10, <1>11 DEF Places!DirNext

LEMMA DirBegins == ASSUME WorkspaceInit PROVE DirInv
<1>1. Places!DirInit
  BY DEF WorkspaceInit
<1>2. PICK k \in Companies : company = [c \in Companies |-> IF c = k THEN [pc |-> "up", name |-> Kbiz] ELSE Places!NoCompany]
  BY <1>1 DEF Places!DirInit
<1>3. /\ branch = [b \in BranchRows |-> Places!NoBranch] /\ users = Employees
      /\ branchIds = [u \in Employees |-> {}] /\ businesses = [u \in Employees |-> {}] /\ departments = {}
      /\ provisioning = [r \in Requests |-> Places!Idle] /\ asked = 0 /\ named = {} /\ orphaned = {} /\ rejoined = {}
  BY <1>1 DEF Places!DirInit
<1>4. \A r \in Requests : provisioning[r].pc = "idle"
  BY <1>3 DEF Places!Idle
<1>5. \A b \in BranchRows : branch[b].pc = "none"
  BY <1>3 DEF Places!NoBranch
<1>6. company \in [Companies -> CompanyRow] /\ \A c, d \in Companies : Places!Up(c) /\ Places!Up(d) => c = d
  BY <1>2, DirectoryConstants DEF CompanyRow, Places!NoCompany, Places!None, Places!Up
<1>7. branch \in [BranchRows -> BranchRow] /\ provisioning \in [Requests -> Ask]
  BY <1>3, IdleAsk DEF BranchRow, Places!NoBranch, Places!None
<1>8. asked \in 0..MaxProvisions
  BY <1>3, DirectoryConstants
<1>9. DirTypes
  BY <1>3, <1>6, <1>7, <1>8 DEF DirTypes
<1>10. Homes
  BY <1>4, <1>5 DEF Homes, MakingAt
<1>11. JoinedLate
  BY <1>3, <1>4 DEF JoinedLate
<1>12. NamesAtOnce
  BY <1>4, <1>5, <1>6 DEF NamesAtOnce, Places!NamesAreUniqueUnlessAtOnce
<1> QED BY <1>9, <1>10, <1>11, <1>12 DEF DirInv

LEMMA DirStays ==
  ASSUME DirInv, [WorkspaceNext]_<<part, access, posting, signing, mailbox, sorting, places, pushing>>
  PROVE  DirInv'
<1>1. CASE UNCHANGED places
  <2>1. UNCHANGED <<company, branch, users, branchIds, businesses, departments, provisioning, asked, named, orphaned, rejoined>>
    BY <1>1 DEF places
  <2>2. DirTypes'
    BY <2>1 DEF DirInv, DirTypes
  <2>3. Homes' /\ NamesAtOnce'
    BY <2>1, HomesSame, NamesSame DEF DirInv, SameAt
  <2>4. JoinedLate'
    BY <2>1, LateSame DEF DirInv, SameAt, LeavesAsBefore, DirTypes
  <2> QED BY <2>2, <2>3, <2>4 DEF DirInv
<1>2. CASE Places!DirNext
  BY <1>2, DirTypesStay, HomesStay, LateStays, NamesStay DEF DirInv
<1> QED BY <1>1, <1>2 DEF WorkspaceNext

LEMMA DirShows == ASSUME DirInv PROVE DirectoryHolds
<1>1. Places!DirTypeOK
  <2>1. DOMAIN provisioning = Requests
    BY DEF DirInv, DirTypes
  <2> QED BY <2>1 DEF DirInv, DirTypes, Places!DirTypeOK, CompanyRow, BranchRow, Places!None
<1>2. Places!ShownBranchHasShownBusinessUnlessCrossed
  BY DEF DirInv, Homes, Places!ShownBranchHasShownBusinessUnlessCrossed, Places!listBranches, Places!listCompanies
<1>3. Places!NothingNamesGoneBranchUnlessOvertaken
  BY DEF DirInv, JoinedLate, Places!NothingNamesGoneBranchUnlessOvertaken, Places!Leaving
<1>4. Places!NamesAreUniqueUnlessAtOnce
  BY DEF DirInv, NamesAtOnce
<1> QED BY <1>1, <1>2, <1>3, <1>4 DEF DirectoryHolds

\* directory.service.ts, for any businesses, branches and people and whatever its requests
\* overlap with: a branch shown to a person belongs to a business they are shown unless it was
\* made while the business was being deleted, nobody and no department names a branch that is
\* gone unless joined to it after the clean-up, two businesses have one name only when created
\* at once, and two branches never have one code.
THEOREM PlacesStayInOrder == WorkspaceSpec => []DirectoryHolds
<1>1. WorkspaceInit => DirInv
  BY DirBegins
<1>2. DirInv /\ [WorkspaceNext]_<<part, access, posting, signing, mailbox, sorting, places, pushing>> => DirInv'
  BY DirStays
<1>3. DirInv => DirectoryHolds
  BY DirShows
<1> QED BY <1>1, <1>2, <1>3, PTL DEF WorkspaceSpec

-----------------------------------------------------------------------------
(* The mailbox poll. *)

Minutes == 1..LastMinute
Letter  == [at : Minutes, in : {"inbox", "folder"}]
Round   == [pc : {"idle", "ask", "file", "push", "stamp"}, since : {0} \cup Minutes, found : SUBSET Mails]

\* A round waits to announce what it found, or has.
Waiting(r, m) == round[r].pc \in {"file", "push"} /\ m \in round[r].found
Told(r, m)    == round[r].pc = "stamp" /\ m \in round[r].found

MailTypes ==
  /\ minute \in Minutes
  /\ stamp \in {0} \cup Minutes /\ linked \in BOOLEAN /\ (~linked => stamp = 0)
  /\ mail \in [Mails -> {Mailbox!Absent} \cup Letter]
  /\ native \in BOOLEAN
  /\ round \in [Requests -> Round]
  /\ announced \in [Mails -> 0..2]
  /\ missed \subseteq Mails /\ repeated \subseteq Mails

\* Nothing is later than now, and a round asks from a stamp that was.
InTime ==
  /\ stamp <= minute
  /\ \A m \in Mailbox!Arrived : mail[m].at <= minute
  /\ \A r \in Requests : round[r].since <= minute /\ (stamp # 0 => round[r].since <= stamp)

\* What a round finds has arrived, and nobody announces what has not.
FoundArrived ==
  /\ \A r \in Requests : round[r].found \subseteq Mailbox!Arrived
  /\ \A m \in Mails : announced[m] # 0 => m \in Mailbox!Arrived

\* What is in reach is announced, or will be: a round that has asked has seen it, ...
Noticed(m) ==
  m \in Mailbox!Arrived /\ m \notin missed /\ announced[m] = 0 =>
    /\ mail[m].in = "folder" => \E r \in Requests : Waiting(r, m)
    /\ mail[m].at <= stamp => \E r \in Requests : Waiting(r, m)
    /\ ~(linked /\ stamp = 0)
    /\ \A r \in Requests : round[r].pc \in {"file", "push", "stamp"} =>
         mail[m].in = "folder" \/ m \in round[r].found \/ mail[m].at <= round[r].since

\* ... and once a round has announced it, no round finds it again.
Once(m) ==
  m \notin repeated =>
    /\ announced[m] <= 1
    /\ \A r \in Requests : Waiting(r, m) => announced[m] = 0 /\ \A q \in Requests : Waiting(q, m) => q = r
    /\ announced[m] # 0 => stamp = 0 \/ mail[m].at <= stamp \/ \E r \in Requests : Told(r, m)

ToldAlready == \A r \in Requests : \A m \in Mails : Told(r, m) => announced[m] # 0

MailInv ==
  /\ MailTypes /\ InTime /\ FoundArrived /\ ToldAlready
  /\ \A m \in Mails : Noticed(m) /\ Once(m)

LEMMA LetterFields ==
  ASSUME MailTypes, NEW m \in Mails
  PROVE  /\ m \in Mailbox!Arrived <=> mail[m] # Mailbox!Absent
         /\ m \in Mailbox!Arrived => mail[m] \in Letter /\ mail[m].at \in Nat /\ mail[m].at > 0 /\ mail[m].in \in {"inbox", "folder"}
         /\ announced[m] \in 0..2
<1>1. m \in Mailbox!Arrived <=> mail[m] # Mailbox!Absent
  BY DEF Mailbox!Arrived
<1>2. mail[m] \in {Mailbox!Absent} \cup Letter /\ announced[m] \in 0..2
  BY DEF MailTypes
<1> QED BY <1>1, <1>2, MailConstants DEF Letter, Minutes

LEMMA TimesAre ==
  ASSUME MailTypes
  PROVE  /\ minute \in Nat /\ minute > 0 /\ stamp \in Nat
         /\ \A r \in Requests : /\ round[r] \in Round /\ round[r].since \in Nat /\ round[r].found \subseteq Mails
                               /\ round[r].pc \in {"idle", "ask", "file", "push", "stamp"}
<1>1. minute \in Nat /\ minute > 0 /\ stamp \in Nat
  BY MailConstants DEF MailTypes, Minutes
<1>2. ASSUME NEW r \in Requests
      PROVE  /\ round[r] \in Round /\ round[r].since \in Nat /\ round[r].found \subseteq Mails
             /\ round[r].pc \in {"idle", "ask", "file", "push", "stamp"}
  <2>1. round[r] \in Round
    BY DEF MailTypes
  <2> QED BY <2>1, MailConstants DEF Round, Minutes
<1> QED BY <1>1, <1>2

LEMMA Resting ==
  /\ Mailbox!Idle \in Round /\ Mailbox!Idle.pc = "idle" /\ Mailbox!Idle.since = 0 /\ Mailbox!Idle.found = {}
  /\ Mailbox!Absent.at = 0 /\ Mailbox!Absent \notin Letter
<1>1. Mailbox!Idle \in Round
  BY DEF Mailbox!Idle, Round
<1>2. Mailbox!Absent \notin Letter
  BY MailConstants DEF Mailbox!Absent, Letter
<1> QED BY <1>1, <1>2 DEF Mailbox!Idle, Mailbox!Absent

LEMMA LeastOfTwo ==
  ASSUME NEW n \in 0..2
  PROVE  /\ Mailbox!Min({2, n + 1}) \in 0..2 /\ Mailbox!Min({2, n + 1}) # 0
         /\ n = 0 => Mailbox!Min({2, n + 1}) = 1
<1>1. PICK x \in {2, n + 1} : \A y \in {2, n + 1} : x <= y
  <2>1. CASE n + 1 <= 2
    BY <2>1
  <2>2. CASE ~(n + 1 <= 2)
    BY <2>2
  <2> QED BY <2>1, <2>2
<1>2. Mailbox!Min({2, n + 1}) = CHOOSE z \in {2, n + 1} : \A y \in {2, n + 1} : z <= y
  BY DEF Mailbox!Min
<1>3. Mailbox!Min({2, n + 1}) \in {2, n + 1} /\ \A y \in {2, n + 1} : Mailbox!Min({2, n + 1}) <= y
  BY <1>1, <1>2
<1> QED BY <1>3

\* A step of a round changes what that round has read.
RoundOf(r, x) == round' \in [Requests -> Round] /\ round'[r] = x /\ \A q \in Requests : q # r => round'[q] = round[q]

LEMMA RoundUpdate ==
  ASSUME MailTypes, NEW r \in Requests, NEW x \in Round, round' = [round EXCEPT ![r] = x]
  PROVE  RoundOf(r, x)
BY DEF MailTypes, RoundOf

\* A round that goes on with what it has.
LEMMA GoesOn ==
  ASSUME MailTypes, NEW r \in Requests, NEW pc \in {"idle", "ask", "file", "push", "stamp"},
         round' = [round EXCEPT ![r].pc = pc]
  PROVE  /\ round' \in [Requests -> Round] /\ \A q \in Requests : q # r => round'[q] = round[q]
         /\ round'[r].pc = pc /\ round'[r].since = round[r].since /\ round'[r].found = round[r].found
<1> DEFINE x == [round[r] EXCEPT !.pc = pc]
<1>1. x \in Round /\ x.pc = pc /\ x.since = round[r].since /\ x.found = round[r].found
  BY TimesAre DEF Round
<1>2. round' = [round EXCEPT ![r] = x]
  OBVIOUS
<1> HIDE DEF x
<1> QED BY <1>1, <1>2, RoundUpdate DEF RoundOf

LEMMA TickStays == ASSUME MailInv, Mailbox!Tick PROVE MailInv'
<1>1. /\ minute' = minute + 1 /\ minute < LastMinute
      /\ UNCHANGED <<linked, stamp, mail, native, round, announced, missed, repeated>>
  BY DEF Mailbox!Tick
<1>2. MailTypes
  BY DEF MailInv
<1>3. minute' \in Minutes
  BY <1>1, <1>2, MailConstants DEF MailTypes, Minutes
<1>4. MailTypes'
  BY <1>1, <1>2, <1>3 DEF MailTypes
<1>5. InTime'
  <2>1. \A m \in Mailbox!Arrived : mail[m].at \in Nat
    BY <1>2, LetterFields DEF Mailbox!Arrived
  <2> QED BY <1>1, <1>2, <2>1, TimesAre DEF MailInv, InTime, Mailbox!Arrived
<1>6. FoundArrived' /\ ToldAlready'
  BY <1>1 DEF MailInv, FoundArrived, ToldAlready, Told, Mailbox!Arrived
<1>7. ASSUME NEW m \in Mails
      PROVE  Noticed(m)' /\ Once(m)'
  BY <1>1 DEF MailInv, Noticed, Once, Waiting, Told, Mailbox!Arrived
<1> QED BY <1>4, <1>5, <1>6, <1>7 DEF MailInv

LEMMA LeaveStays == ASSUME MailInv, Mailbox!Disconnect PROVE MailInv'
<1>1. /\ linked /\ ~linked' /\ stamp' = 0
      /\ UNCHANGED <<minute, mail, native, round, announced, missed, repeated>>
  BY DEF Mailbox!Disconnect, Mailbox!Never
<1>2. MailTypes
  BY DEF MailInv
<1>3. MailTypes'
  BY <1>1, <1>2 DEF MailTypes, Mailbox!Disconnect
<1>4. InTime' /\ FoundArrived' /\ ToldAlready'
  BY <1>1, <1>2, TimesAre DEF MailInv, InTime, FoundArrived, ToldAlready, Told, Mailbox!Arrived
<1>5. ASSUME NEW m \in Mails
      PROVE  Noticed(m)' /\ Once(m)'
  BY <1>1, <1>2, LetterFields DEF MailInv, Noticed, Once, Waiting, Told, Mailbox!Arrived
<1> QED BY <1>3, <1>4, <1>5 DEF MailInv

LEMMA ConnectStays == ASSUME MailInv, Mailbox!Connect PROVE MailInv'
<1>1. /\ ~linked /\ linked' = TRUE /\ missed' = missed \cup {m \in Mailbox!Arrived : announced[m] = 0}
      /\ UNCHANGED <<minute, stamp, mail, native, round, announced, repeated>>
  BY DEF Mailbox!Connect
<1>2. MailTypes
  BY DEF MailInv
<1>3. MailTypes'
  <2>1. missed' \subseteq Mails
    BY <1>1, <1>2 DEF MailTypes, Mailbox!Arrived
  <2> QED BY <1>1, <1>2, <2>1 DEF MailTypes
<1>4. InTime' /\ FoundArrived' /\ ToldAlready'
  BY <1>1 DEF MailInv, InTime, FoundArrived, ToldAlready, Told, Mailbox!Arrived
<1>5. ASSUME NEW m \in Mails
      PROVE  Noticed(m)' /\ Once(m)'
  BY <1>1 DEF MailInv, Noticed, Once, Waiting, Told, Mailbox!Arrived
<1> QED BY <1>3, <1>4, <1>5 DEF MailInv

LEMMA ArriveStays == ASSUME MailInv, NEW n \in Mails, Mailbox!Arrive(n) PROVE MailInv'
<1>1. PICK box \in {"inbox", "folder"} :
        /\ mail[n] = Mailbox!Absent /\ mail' = [mail EXCEPT ![n] = [at |-> minute, in |-> box]]
        /\ missed' \in {missed, missed \cup {n}}
        /\ box = "folder" \/ stamp \in {0, minute} \/ Mailbox!Asked # {} => missed' = missed \cup {n}
        /\ UNCHANGED <<minute, linked, stamp, native, round, announced, repeated>>
  <2>1. PICK filed \in BOOLEAN : filed = (native /\ n \in Wanted)
    OBVIOUS
  <2>2. /\ mail[n] = Mailbox!Absent
        /\ mail' = [mail EXCEPT ![n] = [at |-> minute, in |-> IF filed THEN "folder" ELSE "inbox"]]
        /\ missed' = IF filed \/ stamp \in {0, minute} \/ Mailbox!Asked # {} THEN missed \cup {n} ELSE missed
        /\ UNCHANGED <<minute, linked, stamp, native, round, announced, repeated>>
    BY <2>1 DEF Mailbox!Arrive, Mailbox!Never
  <2>3. CASE filed
    BY <2>2, <2>3
  <2>4. CASE ~filed
    BY <2>2, <2>4
  <2> QED BY <2>3, <2>4
<1>2. MailTypes
  BY DEF MailInv
<1> DEFINE x == [at |-> minute, in |-> box]
<1>3. x \in Letter /\ x.at = minute /\ x.in = box
  BY <1>2 DEF MailTypes, Letter
<1>4. mail' = [mail EXCEPT ![n] = x]
  BY <1>1
<1> HIDE DEF x
<1>5. /\ mail' \in [Mails -> {Mailbox!Absent} \cup Letter] /\ mail'[n] = x
      /\ \A m \in Mails : m # n => mail'[m] = mail[m]
  BY <1>2, <1>3, <1>4 DEF MailTypes
<1>6. MailTypes'
  BY <1>1, <1>2, <1>5 DEF MailTypes
<1>7. /\ n \notin Mailbox!Arrived /\ n \in Mailbox!Arrived'
      /\ \A m \in Mails : m # n => (m \in Mailbox!Arrived' <=> m \in Mailbox!Arrived)
  BY <1>1, <1>3, <1>5, Resting DEF Mailbox!Arrived
<1>8. InTime'
  <2>1. \A m \in Mailbox!Arrived' : mail'[m].at <= minute
    <3> SUFFICES ASSUME NEW m \in Mails, m \in Mailbox!Arrived'
                 PROVE  mail'[m].at <= minute
      BY DEF Mailbox!Arrived
    <3> QED BY <1>2, <1>3, <1>5, <1>7, TimesAre DEF MailInv, InTime
  <2> QED BY <1>1, <2>1 DEF MailInv, InTime
<1>9. announced[n] = 0 /\ \A r \in Requests : n \notin round[r].found
  BY <1>7 DEF MailInv, FoundArrived
<1>10. FoundArrived' /\ ToldAlready'
  <2>1. \A r \in Requests : round[r].found \subseteq Mailbox!Arrived'
    BY <1>2, <1>7, TimesAre DEF MailInv, FoundArrived
  <2> QED BY <1>1, <1>7, <2>1 DEF MailInv, FoundArrived, ToldAlready, Told
<1>11. ASSUME NEW m \in Mails, m # n
       PROVE  Noticed(m)' /\ Once(m)'
  BY <1>1, <1>5, <1>7, <1>11 DEF MailInv, Noticed, Once, Waiting, Told
<1>12. Noticed(n)'
  <2> SUFFICES ASSUME n \notin missed'
               PROVE  Noticed(n)'
    BY DEF Noticed
  <2>1. box = "inbox" /\ stamp # 0 /\ stamp # minute /\ Mailbox!Asked = {}
    BY <1>1
  <2>2. stamp < minute
    BY <1>2, <2>1, TimesAre DEF MailInv, InTime
  <2>3. \A r \in Requests : round[r].pc \notin {"file", "push", "stamp"}
    BY <2>1 DEF Mailbox!Asked
  <2> QED BY <1>1, <1>2, <1>3, <1>5, <2>1, <2>2, <2>3, TimesAre DEF Noticed
<1>13. Once(n)'
  BY <1>1, <1>9 DEF Once, Waiting
<1> QED BY <1>6, <1>8, <1>10, <1>11, <1>12, <1>13 DEF MailInv

LEMMA BeginStays == ASSUME MailInv, NEW r \in Requests, Mailbox!Begin(r) PROVE MailInv'
<1>1. /\ round[r].pc = "idle" /\ round' = [round EXCEPT ![r] = [Mailbox!Idle EXCEPT !.pc = "ask", !.since = stamp]]
      /\ UNCHANGED <<minute, linked, stamp, mail, native, announced, missed, repeated>>
  BY DEF Mailbox!Begin
<1>2. MailTypes
  BY DEF MailInv
<1>3. PICK x \in Round : /\ x = [Mailbox!Idle EXCEPT !.pc = "ask", !.since = stamp]
                         /\ x.pc = "ask" /\ x.since = stamp /\ x.found = {}
  <2>0. PICK i \in Round : i = Mailbox!Idle /\ i.found = {}
    BY Resting
  <2> DEFINE y == [i EXCEPT !.pc = "ask", !.since = stamp]
  <2>2. y \in Round /\ y.pc = "ask" /\ y.since = stamp /\ y.found = {}
    BY <1>2, <2>0 DEF MailTypes, Round
  <2> HIDE DEF y
  <2>3. y = [Mailbox!Idle EXCEPT !.pc = "ask", !.since = stamp]
    BY <2>0 DEF y
  <2> QED BY <2>2, <2>3
<1>4. RoundOf(r, x)
  BY <1>1, <1>2, <1>3, RoundUpdate
<1>5. MailTypes'
  BY <1>1, <1>2, <1>4 DEF MailTypes, RoundOf
<1>6. InTime'
  BY <1>1, <1>2, <1>3, <1>4, TimesAre DEF MailInv, InTime, RoundOf, Mailbox!Arrived
<1>7. FoundArrived' /\ ToldAlready'
  BY <1>1, <1>3, <1>4 DEF MailInv, FoundArrived, ToldAlready, Told, RoundOf, Mailbox!Arrived
<1>8. \A m \in Mails, q \in Requests : (Waiting(q, m)' <=> Waiting(q, m)) /\ (Told(q, m)' <=> Told(q, m))
  BY <1>1, <1>3, <1>4 DEF Waiting, Told, RoundOf
<1>9. ASSUME NEW m \in Mails
      PROVE  Noticed(m)' /\ Once(m)'
  <2>1. Noticed(m)'
    BY <1>1, <1>3, <1>4, <1>8 DEF MailInv, Noticed, RoundOf, Mailbox!Arrived
  <2>2. Once(m)'
    BY <1>1, <1>8 DEF MailInv, Once
  <2> QED BY <2>1, <2>2
<1> QED BY <1>5, <1>6, <1>7, <1>9 DEF MailInv

\* What a round that ends without an announcement leaves: what it found is no longer waited for.
LEMMA IdleRound ==
  ASSUME MailInv, NEW r \in Requests, round' = [round EXCEPT ![r] = Mailbox!Idle]
  PROVE  /\ round' \in [Requests -> Round] /\ round'[r] = Mailbox!Idle /\ \A q \in Requests : q # r => round'[q] = round[q]
         /\ \A m \in Mails : ~Waiting(r, m)' /\ ~Told(r, m)'
         /\ \A m \in Mails, q \in Requests : q # r => (Waiting(q, m)' <=> Waiting(q, m)) /\ (Told(q, m)' <=> Told(q, m))
<1>1. RoundOf(r, Mailbox!Idle)
  BY Resting, RoundUpdate DEF MailInv
<1> QED BY <1>1, Resting DEF RoundOf, Waiting, Told

LEMMA StampDoes ==
  ASSUME MailInv, stamp' = Mailbox!Stamped(minute), UNCHANGED <<minute, linked>>
  PROVE  /\ stamp' \in {0} \cup Minutes /\ stamp' <= minute /\ (linked => stamp' = minute) /\ (~linked => stamp' = 0 /\ stamp = 0)
<1>1. MailTypes /\ stamp <= minute
  BY DEF MailInv, InTime
<1> QED BY <1>1, TimesAre DEF MailTypes, Mailbox!Stamped

LEMMA StampStays == ASSUME MailInv, NEW r \in Requests, Mailbox!Baseline(r) \/ Mailbox!Stamp(r) PROVE MailInv'
<1>1. /\ stamp' = Mailbox!Stamped(minute) /\ round' = [round EXCEPT ![r] = Mailbox!Idle]
      /\ UNCHANGED <<minute, linked, mail, native, announced, repeated>>
      /\ \/ round[r].pc = "ask" /\ missed' = missed \cup {m \in Mailbox!Arrived : announced[m] = 0}
         \/ round[r].pc = "stamp" /\ missed' = missed
  BY DEF Mailbox!Baseline, Mailbox!Stamp
<1>2. MailTypes
  BY DEF MailInv
<1>3. /\ stamp' \in {0} \cup Minutes /\ stamp' <= minute
      /\ (linked => stamp' = minute) /\ (~linked => stamp' = 0 /\ stamp = 0)
  BY <1>1, StampDoes
<1>4. /\ round' \in [Requests -> Round] /\ round'[r] = Mailbox!Idle /\ \A q \in Requests : q # r => round'[q] = round[q]
      /\ \A m \in Mails : ~Waiting(r, m)' /\ ~Told(r, m)'
      /\ \A m \in Mails, q \in Requests : q # r => (Waiting(q, m)' <=> Waiting(q, m)) /\ (Told(q, m)' <=> Told(q, m))
  BY <1>1, IdleRound
<1>5. MailTypes'
  <2>1. missed' \subseteq Mails
    BY <1>1, <1>2 DEF MailTypes, Mailbox!Arrived
  <2>2. linked \in BOOLEAN
    BY <1>2 DEF MailTypes
  <2> QED BY <1>1, <1>2, <1>3, <1>4, <2>1, <2>2 DEF MailTypes
<1>6. InTime'
  <2>1. \A q \in Requests : round'[q].since <= minute /\ (stamp' # 0 => round'[q].since <= stamp')
    BY <1>2, <1>3, <1>4, TimesAre, Resting DEF MailInv, InTime, MailTypes
  <2>2. \A m \in Mailbox!Arrived' : mail'[m].at <= minute'
    BY <1>1 DEF MailInv, InTime, Mailbox!Arrived
  <2> QED BY <1>1, <1>3, <2>1, <2>2 DEF InTime
<1>7. FoundArrived' /\ ToldAlready'
  <2>1. \A q \in Requests : round'[q].found \subseteq Mailbox!Arrived
    BY <1>4, Resting DEF MailInv, FoundArrived
  <2>2. FoundArrived'
    BY <1>1, <2>1 DEF MailInv, FoundArrived, Mailbox!Arrived
  <2>3. ToldAlready'
    BY <1>1, <1>4 DEF MailInv, ToldAlready
  <2> QED BY <2>2, <2>3
<1>8. ASSUME NEW m \in Mails
      PROVE  Noticed(m)'
  <2> SUFFICES ASSUME m \in Mailbox!Arrived, m \notin missed', announced[m] = 0
               PROVE  Noticed(m)'
    BY <1>1 DEF Noticed, Mailbox!Arrived
  <2>1. round[r].pc = "stamp" /\ missed' = missed
    BY <1>1
  <2>2. m \notin round[r].found /\ ~Waiting(r, m)
    BY <2>1 DEF MailInv, ToldAlready, Told, Waiting
  <2>3. /\ mail[m].in = "folder" => \E q \in Requests : Waiting(q, m)
        /\ mail[m].at <= stamp => \E q \in Requests : Waiting(q, m)
        /\ ~(linked /\ stamp = 0)
        /\ mail[m].in = "folder" \/ mail[m].at <= round[r].since
    BY <2>1, <2>2 DEF MailInv, Noticed
  <2>4. mail[m].at \in Nat /\ mail[m].at > 0 /\ stamp \in Nat /\ round[r].since \in Nat /\ minute > 0
    BY <1>2, LetterFields, TimesAre
  <2>5. stamp # 0 => round[r].since <= stamp
    BY DEF MailInv, InTime
  <2>6. linked => \E q \in Requests : Waiting(q, m)
    BY <2>3, <2>4, <2>5
  <2>7. linked => \E q \in Requests : Waiting(q, m)'
    BY <1>4, <2>2, <2>6
  <2>8. mail[m].in = "folder" => \E q \in Requests : Waiting(q, m)'
    BY <1>4, <2>2, <2>3
  <2>9. mail[m].at <= stamp' => \E q \in Requests : Waiting(q, m)'
    BY <1>3, <2>4, <2>7
  <2>10. \A q \in Requests : round'[q].pc \in {"file", "push", "stamp"} =>
           mail[m].in = "folder" \/ m \in round'[q].found \/ mail[m].at <= round'[q].since
    BY <1>4, <2>1, Resting DEF MailInv, Noticed
  <2>11. ~(linked /\ stamp' = 0)
    BY <1>3, <2>4
  <2> QED BY <1>1, <2>8, <2>9, <2>10, <2>11 DEF Noticed
<1>9. ASSUME NEW m \in Mails
      PROVE  Once(m)'
  <2>1. announced[m] # 0 => stamp' = 0 \/ mail[m].at <= stamp'
    BY <1>3 DEF MailInv, FoundArrived, InTime
  <2> QED BY <1>1, <1>4, <2>1 DEF MailInv, Once
<1> QED BY <1>5, <1>6, <1>7, <1>8, <1>9 DEF MailInv

LEMMA FindsDoes ==
  ASSUME MailInv, NEW r \in Requests, Mailbox!NewSince(r)
  PROVE  \E kept \in SUBSET Mailbox!Since(round[r].since) :
           /\ round' \in [Requests -> Round] /\ \A q \in Requests : q # r => round'[q] = round[q]
           /\ round'[r].pc = "file" /\ round'[r].since = round[r].since /\ round'[r].found = kept
           /\ missed' = missed \cup (Mailbox!Since(round[r].since) \ kept)
           /\ repeated' = IF Mailbox!Busy # {r} \/ stamp # round[r].since THEN repeated \cup kept ELSE repeated
<1>1. MailTypes /\ round[r] \in Round
  BY TimesAre DEF MailInv
<1>2. PICK kept \in SUBSET Mailbox!Since(round[r].since) :
        /\ round' = [round EXCEPT ![r].pc = "file", ![r].found = kept]
        /\ missed' = missed \cup (Mailbox!Since(round[r].since) \ kept)
        /\ repeated' = IF Mailbox!Busy # {r} \/ stamp # round[r].since THEN repeated \cup kept ELSE repeated
  BY DEF Mailbox!NewSince
<1>3. kept \subseteq Mails
  BY <1>2 DEF Mailbox!Since, Mailbox!Arrived
<1>4. PICK x \in Round : /\ x = [round[r] EXCEPT !.pc = "file", !.found = kept]
                         /\ x.pc = "file" /\ x.since = round[r].since /\ x.found = kept
  <2> DEFINE y == [round[r] EXCEPT !.pc = "file", !.found = kept]
  <2>1. y \in Round /\ y.pc = "file" /\ y.since = round[r].since /\ y.found = kept
    BY <1>1, <1>3 DEF Round
  <2> HIDE DEF y
  <2>2. y = [round[r] EXCEPT !.pc = "file", !.found = kept]
    BY DEF y
  <2> QED BY <2>1, <2>2
<1>5. round' = [round EXCEPT ![r] = x]
  BY <1>1, <1>2, <1>4 DEF MailTypes
<1>6. RoundOf(r, x)
  BY <1>1, <1>5, RoundUpdate
<1> QED BY <1>2, <1>4, <1>6 DEF RoundOf

LEMMA FindsStays == ASSUME MailInv, NEW r \in Requests, Mailbox!NewSince(r) PROVE MailInv'
<1>1. /\ round[r].pc = "ask" /\ round[r].since # 0
      /\ UNCHANGED <<minute, linked, stamp, mail, native, announced>>
  BY DEF Mailbox!NewSince, Mailbox!Never
<1>2. MailTypes
  BY DEF MailInv
<1>3. PICK kept \in SUBSET Mailbox!Since(round[r].since) :
        /\ round' \in [Requests -> Round] /\ \A q \in Requests : q # r => round'[q] = round[q]
        /\ round'[r].pc = "file" /\ round'[r].since = round[r].since /\ round'[r].found = kept
        /\ missed' = missed \cup (Mailbox!Since(round[r].since) \ kept)
        /\ repeated' = IF Mailbox!Busy # {r} \/ stamp # round[r].since THEN repeated \cup kept ELSE repeated
  BY FindsDoes
<1>4. /\ kept \subseteq Mailbox!Arrived /\ \A m \in kept : mail[m].at > round[r].since
      /\ \A m \in Mailbox!Arrived : mail[m].in # "inbox" \/ ~(mail[m].at > round[r].since) \/ m \in Mailbox!Since(round[r].since)
      /\ Mailbox!Since(round[r].since) \subseteq Mails /\ Mailbox!Arrived \subseteq Mails
  BY DEF Mailbox!Since, Mailbox!Arrived
<1>5. missed' \subseteq Mails /\ repeated' \subseteq Mails /\ missed \subseteq missed' /\ repeated \subseteq repeated'
  BY <1>2, <1>3, <1>4 DEF MailTypes
<1>6. MailTypes'
  BY <1>1, <1>2, <1>3, <1>5 DEF MailTypes
<1>7. InTime'
  BY <1>1, <1>3 DEF MailInv, InTime, Mailbox!Arrived
<1>8. \A m \in Mails, q \in Requests : /\ Waiting(q, m)' <=> (Waiting(q, m) \/ (q = r /\ m \in kept))
                                       /\ Told(q, m)' <=> Told(q, m)
  BY <1>1, <1>3 DEF Waiting, Told
<1>9. FoundArrived' /\ ToldAlready'
  <2>1. FoundArrived'
    BY <1>1, <1>3, <1>4 DEF MailInv, FoundArrived, Mailbox!Arrived
  <2>2. ToldAlready'
    BY <1>1, <1>8 DEF MailInv, ToldAlready
  <2> QED BY <2>1, <2>2
<1>10. ASSUME NEW m \in Mails
       PROVE  Noticed(m)'
  <2> SUFFICES ASSUME m \in Mailbox!Arrived, m \notin missed', announced[m] = 0
               PROVE  Noticed(m)'
    BY <1>1 DEF Noticed, Mailbox!Arrived
  <2>1. m \notin missed
    BY <1>5
  <2>2. mail[m].in = "folder" \/ m \in kept \/ mail[m].at <= round[r].since
    BY <1>2, <1>3, <1>4, LetterFields, TimesAre
  <2>3. \A q \in Requests : round'[q].pc \in {"file", "push", "stamp"} =>
          mail[m].in = "folder" \/ m \in round'[q].found \/ mail[m].at <= round'[q].since
    BY <1>3, <2>1, <2>2 DEF MailInv, Noticed
  <2> QED BY <1>1, <1>8, <2>1, <2>3 DEF MailInv, Noticed
<1>11. ASSUME NEW m \in Mails
       PROVE  Once(m)'
  <2> SUFFICES ASSUME m \notin repeated'
               PROVE  Once(m)'
    BY DEF Once
  <2>1. m \notin repeated /\ Once(m)
    BY <1>5 DEF MailInv
  <2>2. CASE m \notin kept
    BY <1>1, <1>8, <2>1, <2>2 DEF Once
  <2>3. CASE m \in kept
    <3>1. Mailbox!Busy = {r} /\ stamp = round[r].since
      BY <1>3, <2>3
    <3>2. \A q \in Requests : ~Waiting(q, m) /\ ~Told(q, m)
      BY <1>1, <3>1 DEF Mailbox!Busy, Waiting, Told
    <3>3. ~(mail[m].at <= stamp)
      BY <1>2, <1>4, <2>3, <3>1, LetterFields, TimesAre
    <3>4. announced[m] = 0
      BY <1>1, <2>1, <3>1, <3>2, <3>3 DEF Once
    <3> QED BY <1>1, <1>8, <2>1, <3>2, <3>4 DEF Once
  <2> QED BY <2>2, <2>3
<1> QED BY <1>6, <1>7, <1>9, <1>10, <1>11 DEF MailInv

LEMMA FileStays == ASSUME MailInv, NEW r \in Requests, Mailbox!File(r) PROVE MailInv'
<1>1. /\ round[r].pc = "file" /\ round' = [round EXCEPT ![r].pc = "push"]
      /\ UNCHANGED <<minute, linked, stamp, native, announced, missed, repeated>>
  BY DEF Mailbox!File
<1>2. MailTypes
  BY DEF MailInv
<1>3. PICK filed \in SUBSET round[r].found :
        mail' = [m \in Mails |-> IF m \in filed THEN [mail[m] EXCEPT !.in = "folder"] ELSE mail[m]]
  BY DEF Mailbox!File
<1>4. /\ round' \in [Requests -> Round] /\ \A q \in Requests : q # r => round'[q] = round[q]
      /\ round'[r].pc = "push" /\ round'[r].since = round[r].since /\ round'[r].found = round[r].found
  BY <1>1, <1>2, GoesOn
<1>5. ASSUME NEW m \in Mails
      PROVE  /\ mail'[m] \in {Mailbox!Absent} \cup Letter
             /\ m \in Mailbox!Arrived' <=> m \in Mailbox!Arrived
             /\ m \in Mailbox!Arrived => mail'[m].at = mail[m].at
             /\ m \in Mailbox!Arrived => (m \notin filed /\ mail'[m] = mail[m]) \/ (m \in round[r].found /\ mail'[m].in = "folder")
  <2>1. CASE m \notin filed
    BY <1>2, <1>3, <2>1 DEF MailTypes, Mailbox!Arrived
  <2>2. CASE m \in filed
    <3>1. m \in round[r].found /\ m \in Mailbox!Arrived
      BY <2>2 DEF MailInv, FoundArrived
    <3>2. mail[m] \in Letter
      BY <1>2, <3>1, LetterFields
    <3>3. mail'[m] = [mail[m] EXCEPT !.in = "folder"]
      BY <1>3, <2>2
    <3>4. mail'[m] \in Letter /\ mail'[m].at = mail[m].at /\ mail'[m].in = "folder"
      BY <3>2, <3>3 DEF Letter
    <3> QED BY <3>1, <3>4, Resting DEF Mailbox!Arrived
  <2> QED BY <2>1, <2>2
<1>6. MailTypes'
  <2>1. mail' \in [Mails -> {Mailbox!Absent} \cup Letter]
    BY <1>3, <1>5
  <2> QED BY <1>1, <1>2, <1>4, <2>1 DEF MailTypes
<1>7. \A m \in Mailbox!Arrived' : m \in Mails /\ m \in Mailbox!Arrived /\ mail'[m].at = mail[m].at
  BY <1>5 DEF Mailbox!Arrived
<1>8. InTime'
  BY <1>1, <1>4, <1>7 DEF MailInv, InTime
<1>9. \A m \in Mails, q \in Requests : (Waiting(q, m)' <=> Waiting(q, m)) /\ (Told(q, m)' <=> Told(q, m))
  BY <1>1, <1>4 DEF Waiting, Told
<1>10. FoundArrived' /\ ToldAlready'
  <2>1. \A q \in Requests : round'[q].found \subseteq Mailbox!Arrived'
    BY <1>2, <1>4, <1>5, TimesAre DEF MailInv, FoundArrived
  <2> QED BY <1>1, <1>5, <1>9, <2>1 DEF MailInv, FoundArrived, ToldAlready
<1>11. ASSUME NEW m \in Mails
       PROVE  Noticed(m)'
  <2> SUFFICES ASSUME m \in Mailbox!Arrived, m \notin missed, announced[m] = 0
               PROVE  Noticed(m)'
    BY <1>1, <1>5 DEF Noticed
  <2>1. /\ mail[m].in = "folder" => mail'[m].in = "folder"
        /\ mail'[m].in = "folder" => mail[m].in = "folder" \/ Waiting(r, m)
        /\ mail'[m].at = mail[m].at
    BY <1>1, <1>5 DEF Waiting
  <2>2. \A q \in Requests : round'[q].pc \in {"file", "push", "stamp"} =>
          mail'[m].in = "folder" \/ m \in round'[q].found \/ mail'[m].at <= round'[q].since
    BY <1>1, <1>4, <2>1 DEF MailInv, Noticed
  <2> QED BY <1>1, <1>9, <2>1, <2>2 DEF MailInv, Noticed
<1>12. ASSUME NEW m \in Mails
       PROVE  Once(m)'
  <2>1. announced[m] # 0 => mail'[m].at = mail[m].at
    BY <1>5 DEF MailInv, FoundArrived
  <2> QED BY <1>1, <1>9, <2>1 DEF MailInv, Once
<1> QED BY <1>6, <1>8, <1>10, <1>11, <1>12 DEF MailInv

LEMMA AnnounceStays == ASSUME MailInv, NEW r \in Requests, Mailbox!Push(r) PROVE MailInv'
<1>1. /\ round[r].pc = "push" /\ round' = [round EXCEPT ![r].pc = "stamp"]
      /\ announced' = [m \in Mails |-> IF m \in round[r].found THEN Mailbox!Min({2, announced[m] + 1}) ELSE announced[m]]
      /\ UNCHANGED <<minute, linked, stamp, mail, native, missed, repeated>>
  BY DEF Mailbox!Push, Mailbox!Announced
<1>2. MailTypes
  BY DEF MailInv
<1>3. /\ round' \in [Requests -> Round] /\ \A q \in Requests : q # r => round'[q] = round[q]
      /\ round'[r].pc = "stamp" /\ round'[r].since = round[r].since /\ round'[r].found = round[r].found
  BY <1>1, <1>2, GoesOn
<1>4. ASSUME NEW m \in Mails
      PROVE  /\ announced'[m] \in 0..2
             /\ m \notin round[r].found => announced'[m] = announced[m]
             /\ m \in round[r].found => announced'[m] # 0 /\ (announced[m] = 0 => announced'[m] = 1)
  BY <1>1, <1>2, LetterFields, LeastOfTwo
<1>5. MailTypes'
  <2>1. announced' \in [Mails -> 0..2]
    BY <1>1, <1>4
  <2> QED BY <1>1, <1>2, <1>3, <2>1 DEF MailTypes
<1>6. InTime'
  BY <1>1, <1>3 DEF MailInv, InTime, Mailbox!Arrived
<1>7. \A m \in Mails, q \in Requests : /\ Waiting(q, m)' <=> (Waiting(q, m) /\ q # r)
                                       /\ Told(q, m)' <=> (Told(q, m) \/ (q = r /\ m \in round[r].found))
  BY <1>1, <1>3 DEF Waiting, Told
<1>8. FoundArrived' /\ ToldAlready'
  <2>1. FoundArrived'
    BY <1>1, <1>3, <1>4 DEF MailInv, FoundArrived, Mailbox!Arrived
  <2>2. ToldAlready'
    BY <1>4, <1>7 DEF MailInv, ToldAlready
  <2> QED BY <2>1, <2>2
<1>9. ASSUME NEW m \in Mails
      PROVE  Noticed(m)'
  <2>1. CASE m \in round[r].found
    BY <1>4, <2>1 DEF Noticed
  <2>2. CASE m \notin round[r].found
    <3>1. ~Waiting(r, m) /\ announced'[m] = announced[m]
      BY <1>4, <2>2 DEF Waiting
    <3>2. \A q \in Requests : /\ round'[q].pc \in {"file", "push", "stamp"} <=> round[q].pc \in {"file", "push", "stamp"}
                              /\ round'[q].found = round[q].found /\ round'[q].since = round[q].since
      BY <1>1, <1>3
    <3> QED BY <1>1, <1>7, <3>1, <3>2 DEF MailInv, Noticed, Mailbox!Arrived
  <2> QED BY <2>1, <2>2
<1>10. ASSUME NEW m \in Mails
       PROVE  Once(m)'
  <2> SUFFICES ASSUME m \notin repeated
               PROVE  Once(m)'
    BY <1>1 DEF Once
  <2>1. Once(m)
    BY DEF MailInv
  <2>2. CASE m \in round[r].found
    <3>1. Waiting(r, m)
      BY <1>1, <2>2 DEF Waiting
    <3>2. announced[m] = 0 /\ \A q \in Requests : Waiting(q, m) => q = r
      BY <2>1, <3>1 DEF Once
    <3>3. announced'[m] = 1 /\ Told(r, m)'
      BY <1>4, <1>7, <2>2, <3>2
    <3> QED BY <1>7, <3>2, <3>3 DEF Once
  <2>3. CASE m \notin round[r].found
    <3>1. ~Waiting(r, m) /\ announced'[m] = announced[m]
      BY <1>4, <2>3 DEF Waiting
    <3> QED BY <1>1, <1>7, <2>1, <3>1 DEF Once
  <2> QED BY <2>2, <2>3
<1> QED BY <1>5, <1>6, <1>8, <1>9, <1>10 DEF MailInv

LEMMA FailStays == ASSUME MailInv, NEW r \in Requests, Mailbox!Fail(r) PROVE MailInv'
<1>1. /\ round' = [round EXCEPT ![r] = Mailbox!Idle]
      /\ repeated' = IF round[r].pc = "stamp" THEN repeated \cup round[r].found ELSE repeated
      /\ missed' = IF round[r].pc \in {"file", "push"}
                     THEN missed \cup {m \in round[r].found : mail[m].in = "folder" \/ mail[m].at <= stamp}
                     ELSE missed
      /\ UNCHANGED <<minute, linked, stamp, mail, native, announced>>
  BY DEF Mailbox!Fail
<1>2. MailTypes
  BY DEF MailInv
<1>3. /\ round' \in [Requests -> Round] /\ round'[r] = Mailbox!Idle /\ \A q \in Requests : q # r => round'[q] = round[q]
      /\ \A m \in Mails : ~Waiting(r, m)' /\ ~Told(r, m)'
      /\ \A m \in Mails, q \in Requests : q # r => (Waiting(q, m)' <=> Waiting(q, m)) /\ (Told(q, m)' <=> Told(q, m))
  BY <1>1, IdleRound
<1>4. missed' \subseteq Mails /\ repeated' \subseteq Mails /\ missed \subseteq missed' /\ repeated \subseteq repeated'
  BY <1>1, <1>2, TimesAre DEF MailTypes
<1>5. MailTypes'
  BY <1>1, <1>2, <1>3, <1>4 DEF MailTypes
<1>6. InTime'
  BY <1>1, <1>2, <1>3, TimesAre, Resting DEF MailInv, InTime, Mailbox!Arrived
<1>7. FoundArrived' /\ ToldAlready'
  <2>1. FoundArrived'
    BY <1>1, <1>3, Resting DEF MailInv, FoundArrived, Mailbox!Arrived
  <2>2. ToldAlready'
    BY <1>1, <1>3 DEF MailInv, ToldAlready
  <2> QED BY <2>1, <2>2
<1>8. ASSUME NEW m \in Mails
      PROVE  Noticed(m)'
  <2> SUFFICES ASSUME m \in Mailbox!Arrived, m \notin missed', announced[m] = 0
               PROVE  Noticed(m)'
    BY <1>1 DEF Noticed, Mailbox!Arrived
  <2>1. m \notin missed /\ Noticed(m)
    BY <1>4 DEF MailInv
  <2>2. Waiting(r, m) => mail[m].in # "folder" /\ ~(mail[m].at <= stamp)
    BY <1>1 DEF Waiting
  <2>3. \A q \in Requests : round'[q].pc \in {"file", "push", "stamp"} =>
          mail[m].in = "folder" \/ m \in round'[q].found \/ mail[m].at <= round'[q].since
    BY <1>3, <2>1, Resting DEF Noticed
  <2> QED BY <1>1, <1>3, <2>1, <2>2, <2>3 DEF Noticed
<1>9. ASSUME NEW m \in Mails
      PROVE  Once(m)'
  <2>1. Told(r, m) => m \in repeated'
    BY <1>1 DEF Told
  <2>2. Once(m) /\ (m \notin repeated' => m \notin repeated)
    BY <1>4 DEF MailInv
  <2> QED BY <1>1, <1>3, <2>1, <2>2 DEF Once
<1> QED BY <1>5, <1>6, <1>7, <1>8, <1>9 DEF MailInv

LEMMA UpgradeStays == ASSUME MailInv, NEW r \in Requests, Mailbox!Upgrade(r) PROVE MailInv'
<1>1. native' = TRUE /\ UNCHANGED <<minute, linked, stamp, mail, round, announced, missed, repeated>>
  BY DEF Mailbox!Upgrade
<1>2. MailTypes' /\ InTime' /\ FoundArrived' /\ ToldAlready'
  BY <1>1 DEF MailInv, MailTypes, InTime, FoundArrived, ToldAlready, Told, Mailbox!Arrived
<1>3. ASSUME NEW m \in Mails
      PROVE  Noticed(m)' /\ Once(m)'
  BY <1>1 DEF MailInv, Noticed, Once, Waiting, Told, Mailbox!Arrived
<1> QED BY <1>2, <1>3 DEF MailInv

LEMMA MailBegins == ASSUME WorkspaceInit PROVE MailInv
<1>1. /\ minute = 1 /\ stamp = 0 /\ linked = TRUE /\ mail = [m \in Mails |-> Mailbox!Absent] /\ native \in BOOLEAN
      /\ round = [r \in Requests |-> Mailbox!Idle] /\ announced = [m \in Mails |-> 0] /\ missed = {} /\ repeated = {}
  BY DEF WorkspaceInit, Mailbox!MailInit, Mailbox!Never
<1>2. Mailbox!Arrived = {}
  BY <1>1 DEF Mailbox!Arrived
<1>3. MailTypes
  BY <1>1, Resting, MailConstants DEF MailTypes, Minutes
<1>4. InTime /\ FoundArrived /\ ToldAlready
  BY <1>1, <1>2, Resting DEF InTime, FoundArrived, ToldAlready, Told
<1>5. \A m \in Mails : Noticed(m) /\ Once(m)
  BY <1>1, <1>2, Resting DEF Noticed, Once, Waiting
<1> QED BY <1>3, <1>4, <1>5 DEF MailInv

LEMMA MailStays ==
  ASSUME MailInv, [WorkspaceNext]_<<part, access, posting, signing, mailbox, sorting, places, pushing>>
  PROVE  MailInv'
<1>1. CASE UNCHANGED mailbox
  <2>1. UNCHANGED <<minute, linked, stamp, mail, native, round, announced, missed, repeated>>
    BY <1>1 DEF mailbox
  <2>2. MailTypes' /\ InTime' /\ FoundArrived' /\ ToldAlready'
    BY <2>1 DEF MailInv, MailTypes, InTime, FoundArrived, ToldAlready, Told, Mailbox!Arrived
  <2>3. ASSUME NEW m \in Mails
        PROVE  Noticed(m)' /\ Once(m)'
    BY <2>1 DEF MailInv, Noticed, Once, Waiting, Told, Mailbox!Arrived
  <2> QED BY <2>2, <2>3 DEF MailInv
<1>2. CASE Mailbox!MailNext
  BY <1>2, TickStays, LeaveStays, ConnectStays, ArriveStays, BeginStays, StampStays, FindsStays, FileStays, AnnounceStays,
     FailStays, UpgradeStays DEF Mailbox!MailNext
<1> QED BY <1>1, <1>2 DEF WorkspaceNext

LEMMA MailShows ==
  ASSUME MailInv
  PROVE  Mailbox!MailTypeOK /\ Mailbox!AnnouncedUnlessMissed /\ Mailbox!AnnouncedOnceUnlessRepeated
<1>1. Mailbox!MailTypeOK
  <2>1. \A m \in Mails : mail[m] = Mailbox!Absent \/ mail[m] \in [at : 1..LastMinute, in : {"inbox", "folder"}]
    BY DEF MailInv, MailTypes, Letter, Minutes
  <2>2. ASSUME NEW r \in Requests
        PROVE  round[r] \in [pc : {"idle", "ask", "file", "push", "stamp"}, since : 0..LastMinute, found : SUBSET Mails]
    <3>1. round[r] \in Round
      BY TimesAre DEF MailInv
    <3> QED BY <3>1, MailConstants DEF Round, Minutes
  <2>3. stamp \in 0..LastMinute
    BY MailConstants DEF MailInv, MailTypes, Minutes
  <2> QED BY <2>1, <2>2, <2>3 DEF MailInv, MailTypes, Minutes, Mailbox!MailTypeOK, Mailbox!Never
<1>2. Mailbox!AnnouncedUnlessMissed
  <2> SUFFICES ASSUME NEW m \in Mailbox!Arrived, mail[m].at <= stamp, m \notin missed
               PROVE  announced[m] > 0 \/ \E r \in Requests : Waiting(r, m)
    BY DEF Mailbox!AnnouncedUnlessMissed, Waiting
  <2>1. m \in Mails /\ Noticed(m)
    BY DEF Mailbox!Arrived, MailInv
  <2>2. announced[m] \in 0..2
    BY <2>1 DEF MailInv, MailTypes
  <2> QED BY <2>1, <2>2 DEF Noticed
<1>3. Mailbox!AnnouncedOnceUnlessRepeated
  BY LetterFields DEF MailInv, Once, Mailbox!AnnouncedOnceUnlessRepeated
<1> QED BY <1>1, <1>2, <1>3

-----------------------------------------------------------------------------
(* Smart folders. *)

RuleIds  == 1..MaxRules
RuleRefs == 0..MaxRules

\* What a request carries at each of its steps.
Job ==
  {m \in [pc : {"free", "update", "rule", "store", "forget", "unrule", "unbox", "grant", "set"},
          f : Folders \cup {"none"}, from : SUBSET Authors, rule : RuleRefs, new : BOOLEAN] :
     /\ m.pc = "free" => m = Sorting!Free
     /\ m.pc # "free" => m.f \in Folders
     /\ m.pc \in {"update", "rule", "store", "grant", "set"} => m.from # {}
     /\ m.pc \in {"update", "unrule"} => m.rule # 0}

FolderDoc == [from : Sorting!Matches, rule : RuleRefs]
InboxRule == [f : Folders, from : Sorting!Matches]

FolderTypes ==
  /\ smart \in [Folders -> {Sorting!NoDoc} \cup FolderDoc]
  /\ boxes \subseteq Folders
  /\ rules \in [RuleIds -> {Sorting!Dropped} \cup InboxRule]
  /\ req \in [Requests -> Job]
  /\ rulesMade \in RuleRefs
  /\ tangled \subseteq Folders

\* Rules are numbered as they are made, and who names one names one of its own folder.
OwnRules ==
  /\ \A f \in Folders : smart[f].rule <= rulesMade
  /\ \A f \in Folders : smart[f].rule # 0 => rules[smart[f].rule].f \in {f, "none"}
  /\ \A h \in Requests : req[h].rule <= rulesMade
  /\ \A h \in Requests : req[h].rule # 0 => rules[req[h].rule].f \in {req[h].f, "none"}

\* One request holds a folder, or it is tangled.
HeldOnce ==
  \A g, h \in Requests : g # h /\ req[h].pc # "free" /\ req[g].f = req[h].f => req[h].f \in tangled

\* The rules into a folder, while nobody holds it and at each step of who does.
Into(f) == {i \in RuleIds : rules[i].f = f}

Settled(f) ==
  f \notin tangled /\ (\A h \in Requests : req[h].f # f) =>
    \A i \in Into(f) : smart[f].from = rules[i].from /\ smart[f].rule = i

AtWork(h) ==
  LET f == req[h].f IN
  req[h].pc # "free" /\ f \notin tangled =>
    /\ req[h].pc \in {"rule", "unbox", "grant"} => Into(f) = {}
    /\ req[h].pc \in {"update", "forget", "unrule"} => \A i \in Into(f) : i = req[h].rule
    /\ req[h].pc \in {"store", "set"} => \A i \in Into(f) : i = req[h].rule /\ rules[i].from = req[h].from
    /\ req[h].pc \in {"update", "rule", "store"} => req[h].new \/ Sorting!Kept(f)
    /\ req[h].pc \in {"grant", "set"} => Sorting!Kept(f) /\ smart[f].from = req[h].from

FollowsFolders == (\A f \in Folders : Settled(f)) /\ (\A h \in Requests : AtWork(h))

FolderInv == FolderTypes /\ OwnRules /\ HeldOnce /\ FollowsFolders

LEMMA MatchesAre == \A s : s \in Sorting!Matches <=> s \in SUBSET Authors /\ s # {}
<1>1. ASSUME NEW s
      PROVE  s \in Sorting!Matches <=> s \in SUBSET Authors /\ s \notin {{}}
  BY DEF Sorting!Matches
<1>2. ASSUME NEW s
      PROVE  s \notin {{}} <=> s # {}
  OBVIOUS
<1> QED BY <1>1, <1>2

LEMMA NothingHeld ==
  /\ Sorting!Free \in Job /\ Sorting!Free.pc = "free" /\ Sorting!Free.f = "none" /\ Sorting!Free.rule = 0
  /\ Sorting!NoDoc.rule = 0 /\ Sorting!NoDoc.from = {} /\ Sorting!Dropped.f = "none"
  /\ Sorting!Dropped \notin InboxRule /\ Sorting!NoDoc \notin FolderDoc
<1>1. 0 \in RuleRefs
  BY FolderConstants DEF RuleRefs
<1>2. Sorting!Free \in Job
  BY <1>1 DEF Sorting!Free, Sorting!NoRule, Job
<1>3. Sorting!Free.pc = "free" /\ Sorting!Free.f = "none" /\ Sorting!Free.rule = 0
  BY DEF Sorting!Free, Sorting!NoRule
<1>4. Sorting!NoDoc.rule = 0 /\ Sorting!NoDoc.from = {} /\ Sorting!Dropped.f = "none"
  BY DEF Sorting!NoDoc, Sorting!Dropped, Sorting!NoRule
<1>5. Sorting!Dropped \notin InboxRule
  BY <1>4, FolderConstants DEF InboxRule
<1>6. Sorting!NoDoc \notin FolderDoc
  BY <1>4, MatchesAre DEF FolderDoc
<1> QED BY <1>2, <1>3, <1>4, <1>5, <1>6

LEMMA JobFields ==
  ASSUME FolderTypes, NEW h \in Requests
  PROVE  /\ req[h] \in Job /\ req[h].from \in SUBSET Authors /\ req[h].rule \in RuleRefs /\ req[h].rule \in Nat
         /\ req[h].new \in BOOLEAN
         /\ req[h].pc \in {"free", "update", "rule", "store", "forget", "unrule", "unbox", "grant", "set"}
         /\ req[h].pc = "free" => req[h] = Sorting!Free /\ req[h].f = "none" /\ req[h].rule = 0
         /\ req[h].pc # "free" => req[h].f \in Folders
         /\ req[h].pc \in {"update", "rule", "store", "grant", "set"} => req[h].from \in Sorting!Matches
         /\ req[h].pc \in {"update", "unrule"} => req[h].rule \in RuleIds
<1>1. req[h] \in Job
  BY DEF FolderTypes
<1>2. req[h].rule \in RuleRefs
  BY <1>1 DEF Job
<1>3. req[h].rule \in Nat /\ (req[h].rule # 0 => req[h].rule \in RuleIds)
  BY <1>2, FolderConstants DEF RuleRefs, RuleIds
<1>4. req[h].from \in SUBSET Authors /\ req[h].new \in BOOLEAN
  BY <1>1 DEF Job
<1>5. req[h].pc \in {"free", "update", "rule", "store", "forget", "unrule", "unbox", "grant", "set"}
  BY <1>1 DEF Job
<1>6. req[h].pc = "free" => req[h] = Sorting!Free /\ req[h].f = "none" /\ req[h].rule = 0
  BY <1>1, NothingHeld DEF Job
<1>7. req[h].pc # "free" => req[h].f \in Folders
  BY <1>1 DEF Job
<1>8. req[h].pc \in {"update", "rule", "store", "grant", "set"} => req[h].from \in Sorting!Matches
  BY <1>1, <1>4, MatchesAre DEF Job
<1>9. req[h].pc \in {"update", "unrule"} => req[h].rule \in RuleIds
  BY <1>1, <1>3 DEF Job
<1> QED BY <1>1, <1>2, <1>3, <1>4, <1>5, <1>6, <1>7, <1>8, <1>9

LEMMA DocFields ==
  ASSUME FolderTypes, NEW f \in Folders
  PROVE  /\ smart[f].rule \in RuleRefs /\ smart[f].rule \in Nat
         /\ Sorting!Kept(f) => smart[f] \in FolderDoc /\ smart[f].from \in Sorting!Matches
         /\ ~Sorting!Kept(f) => smart[f].rule = 0
<1>1. smart[f] = Sorting!NoDoc \/ smart[f] \in FolderDoc
  BY DEF FolderTypes
<1>2. smart[f].rule \in RuleRefs
  BY <1>1, NothingHeld, FolderConstants DEF FolderDoc, RuleRefs
<1>3. smart[f].rule \in Nat
  BY <1>2, FolderConstants DEF RuleRefs
<1> QED BY <1>1, <1>2, <1>3, NothingHeld DEF FolderDoc, Sorting!Kept

\* A step of a request changes its own job.
JobOf(h, m) == req' \in [Requests -> Job] /\ req'[h] = m /\ \A q \in Requests : q # h => req'[q] = req[q]

LEMMA JobUpdate ==
  ASSUME FolderTypes, NEW h \in Requests, NEW m \in Job, req' = [req EXCEPT ![h] = m]
  PROVE  JobOf(h, m)
BY DEF FolderTypes, JobOf

\* The job that a request has taken hold of.
JobTaken(h, f, pc, from, rule) ==
  \E m \in Job : JobOf(h, m) /\ m.pc = pc /\ m.f = f /\ m.from = from /\ m.rule = rule /\ m.new = (~Sorting!Kept(f))

LEMMA HoldDoes ==
  ASSUME FolderTypes, NEW h \in Requests, NEW f \in Folders, NEW pc \in {"rule", "update", "forget", "grant"},
         NEW from \in SUBSET Authors, NEW rule \in RuleRefs,
         pc # "forget" => from # {}, pc = "update" => rule # 0, Sorting!Hold(h, f, pc, from, rule)
  PROVE  /\ JobTaken(h, f, pc, from, rule)
         /\ req[h].pc = "free"
         /\ tangled \subseteq tangled' /\ tangled' \subseteq Folders
         /\ (\E q \in Requests : req[q].f = f) => f \in tangled'
<1> DEFINE m == [pc |-> pc, f |-> f, from |-> from, rule |-> rule, new |-> ~Sorting!Kept(f)]
<1>1. m \in Job
  BY DEF Job
<1>2. m.pc = pc /\ m.f = f /\ m.from = from /\ m.rule = rule /\ m.new = (~Sorting!Kept(f))
  OBVIOUS
<1>3. req' = [req EXCEPT ![h] = m] /\ req[h].pc = "free"
  BY NothingHeld DEF Sorting!Hold
<1>4. /\ tangled \subseteq tangled' /\ tangled' \subseteq Folders
      /\ (\E q \in Requests : req[q].f = f) => f \in tangled'
  BY DEF Sorting!Hold, Sorting!Holders, FolderTypes
<1> HIDE DEF m
<1>5. JobTaken(h, f, pc, from, rule)
  BY <1>1, <1>2, <1>3, JobUpdate DEF JobTaken
<1> QED BY <1>3, <1>4, <1>5

LEMMA GoDoes ==
  ASSUME FolderTypes, NEW h \in Requests, NEW pc \in {"rule", "store", "unrule", "unbox"}, req[h].pc # "free",
         pc \in {"rule", "store"} => req[h].from # {}, pc = "unrule" => req[h].rule # 0, Sorting!Go(h, pc)
  PROVE  \E m \in Job : /\ JobOf(h, m) /\ m.pc = pc /\ m.f = req[h].f /\ m.from = req[h].from
                        /\ m.rule = req[h].rule /\ m.new = req[h].new
<1> DEFINE m == [req[h] EXCEPT !.pc = pc]
<1>1. req[h] \in Job /\ req[h].f \in Folders
  BY JobFields
<1>2. m \in Job
  BY <1>1 DEF Job
<1>3. m.pc = pc /\ m.f = req[h].f /\ m.from = req[h].from /\ m.rule = req[h].rule /\ m.new = req[h].new
  BY <1>1 DEF Job
<1>4. req' = [req EXCEPT ![h] = m]
  BY DEF Sorting!Go, FolderTypes
<1> HIDE DEF m
<1> QED BY <1>2, <1>3, <1>4, JobUpdate

LEMMA DoneDoes ==
  ASSUME FolderTypes, NEW h \in Requests, Sorting!Done(h)
  PROVE  JobOf(h, Sorting!Free)
BY NothingHeld, JobUpdate DEF Sorting!Done

\* A request that has made a rule carries its number.
Numbered(h, pc, rule) == req' = [req EXCEPT ![h].pc = pc, ![h].rule = rule]

LEMMA MadeDoes ==
  ASSUME FolderTypes, NEW h \in Requests, NEW pc \in {"store", "set"}, NEW rule \in RuleRefs,
         req[h].pc # "free", req[h].from # {},
         Numbered(h, pc, rule)
  PROVE  \E m \in Job : /\ JobOf(h, m) /\ m.pc = pc /\ m.f = req[h].f /\ m.from = req[h].from
                        /\ m.rule = rule /\ m.new = req[h].new
<1> DEFINE m == [req[h] EXCEPT !.pc = pc, !.rule = rule]
<1>1. req[h] \in Job /\ req[h].f \in Folders
  BY JobFields
<1>2. m \in Job
  BY <1>1 DEF Job
<1>3. m.pc = pc /\ m.f = req[h].f /\ m.from = req[h].from /\ m.rule = rule /\ m.new = req[h].new
  BY <1>1 DEF Job
<1>4. req' = [req EXCEPT ![h] = m]
  BY DEF FolderTypes, Numbered
<1> HIDE DEF m
<1> QED BY <1>2, <1>3, <1>4, JobUpdate

\* What a step of a request at work on a folder leaves alone.
Frame(h, f) ==
  /\ \A g \in Folders : g # f => smart'[g] = smart[g]
  /\ \A i \in RuleIds : rules'[i] = rules[i] \/ rules'[i].f \in {f, "none"}
  /\ \A q \in Requests : q # h => req'[q] = req[q]
  /\ req[h].f \in {f, "none"} /\ req'[h].f \in {f, "none"} /\ f \in {req[h].f, req'[h].f}
  /\ tangled \subseteq tangled'

LEMMA OthersAtWork ==
  ASSUME FolderTypes, FolderTypes', HeldOnce, HeldOnce', FollowsFolders, NEW h \in Requests, NEW f \in Folders, Frame(h, f)
  PROVE  /\ \A g \in Folders : g # f => Settled(g)'
         /\ \A q \in Requests : q # h => AtWork(q)'
<1>1. f # "none" /\ \A g \in Folders : g # "none"
  BY FolderConstants
<1>2. ASSUME NEW g \in Folders, g # f
      PROVE  /\ Into(g)' \subseteq Into(g) /\ smart'[g] = smart[g]
             /\ \A i \in Into(g)' : rules'[i] = rules[i]
  BY <1>1, <1>2 DEF Frame, Into
<1>3. ASSUME NEW g \in Folders, g # f
      PROVE  Settled(g)'
  <2>1. Settled(g)
    BY DEF FollowsFolders
  <2>2. (\A q \in Requests : req'[q].f # g) => (\A q \in Requests : req[q].f # g)
    BY <1>1, <1>3 DEF Frame
  <2>3. g \notin tangled' => g \notin tangled
    BY DEF Frame
  <2> QED BY <1>2, <1>3, <2>1, <2>2, <2>3 DEF Settled
<1>4. ASSUME NEW q \in Requests, q # h
      PROVE  AtWork(q)'
  <2>1. AtWork(q) /\ req'[q] = req[q]
    BY <1>4 DEF FollowsFolders, Frame
  <2>2. CASE req[q].f = f /\ req[q].pc # "free"
    <3>1. f \in tangled'
      BY <1>4, <2>1, <2>2 DEF HeldOnce, Frame
    <3> QED BY <2>1, <2>2, <3>1 DEF AtWork
  <2>3. CASE req[q].f # f /\ req[q].pc # "free"
    <3>1. req[q].f \in Folders
      BY <2>3, JobFields
    <3>2. req[q].f \notin tangled' => req[q].f \notin tangled
      BY DEF Frame
    <3>3. /\ Into(req[q].f)' \subseteq Into(req[q].f) /\ smart'[req[q].f] = smart[req[q].f]
          /\ \A i \in Into(req[q].f)' : rules'[i] = rules[i]
      BY <1>2, <2>1, <2>3, <3>1
    <3> QED BY <2>1, <2>3, <3>1, <3>2, <3>3 DEF AtWork, Sorting!Kept
  <2> QED BY <2>1, <2>2, <2>3 DEF AtWork
<1> QED BY <1>3, <1>4

LEMMA HeldOnceStays ==
  ASSUME FolderTypes, FolderTypes', HeldOnce, tangled \subseteq tangled',
         \A q \in Requests : req'[q].pc = "free" \/ (req'[q].f = req[q].f /\ req[q].pc # "free")
  PROVE  HeldOnce'
<1> SUFFICES ASSUME NEW g \in Requests, NEW h \in Requests, g # h, req'[h].pc # "free", req'[g].f = req'[h].f
             PROVE  req'[h].f \in tangled'
  BY DEF HeldOnce
<1>1. req'[g].pc = "free" => req'[g].f = "none"
  BY NothingHeld DEF FolderTypes, Job
<1>2. req'[h].f = req[h].f /\ req[h].f \in Folders /\ req[h].pc # "free"
  BY JobFields
<1>3. req'[g].f = req[g].f
  BY <1>1, <1>2, FolderConstants
<1> QED BY <1>2, <1>3 DEF HeldOnce

LEMMA OwnRulesStay ==
  ASSUME FolderTypes, FolderTypes', OwnRules, rulesMade <= rulesMade',
         \A i \in RuleIds : i <= rulesMade => rules'[i].f \in {rules[i].f, "none"},
         \A g \in Folders : \/ smart'[g].rule \in {smart[g].rule, 0}
                            \/ \E h \in Requests : req[h].f = g /\ smart'[g].rule = req[h].rule,
         \A q \in Requests : \/ req'[q].rule = 0
                             \/ req'[q].rule = req[q].rule /\ req'[q].f = req[q].f
                             \/ req'[q].f \in Folders /\ req'[q].rule = smart[req'[q].f].rule
                             \/ req'[q].rule = rulesMade' /\ rules'[rulesMade'].f = req'[q].f
  PROVE  OwnRules'
<1>0. rulesMade \in Nat /\ rulesMade' \in Nat
  BY FolderConstants DEF FolderTypes, RuleRefs
<1>1. \A i \in RuleRefs : i # 0 => i \in RuleIds
  BY FolderConstants DEF RuleRefs, RuleIds
<1>2. ASSUME NEW g \in Folders
      PROVE  smart'[g].rule <= rulesMade' /\ (smart'[g].rule # 0 => rules'[smart'[g].rule].f \in {g, "none"})
  BY <1>0, <1>1, <1>2, DocFields, JobFields DEF OwnRules
<1>3. ASSUME NEW q \in Requests
      PROVE  req'[q].rule <= rulesMade' /\ (req'[q].rule # 0 => rules'[req'[q].rule].f \in {req'[q].f, "none"})
  BY <1>0, <1>1, <1>3, DocFields, JobFields DEF OwnRules
<1> QED BY <1>2, <1>3 DEF OwnRules

LEMMA StepKeeps ==
  ASSUME FolderInv, FolderTypes', OwnRules', HeldOnce', NEW h \in Requests, NEW f \in Folders, Frame(h, f),
         Settled(f)', AtWork(h)'
  PROVE  FolderInv'
BY OthersAtWork DEF FolderInv, FollowsFolders

\* A request that takes hold of a folder.
LEMMA HoldKeeps ==
  ASSUME FolderInv, NEW h \in Requests, NEW f \in Folders, NEW m \in Job, JobOf(h, m), m.f = f, m.pc # "free",
         m.rule \in {0, smart[f].rule}, req[h].pc = "free", tangled \subseteq tangled', tangled' \subseteq Folders,
         (\E q \in Requests : req[q].f = f) => f \in tangled',
         UNCHANGED <<smart, rules, rulesMade>>, boxes' \subseteq Folders,
         f \notin tangled' => AtWork(h)'
  PROVE  FolderInv'
<1>1. FolderTypes'
  BY DEF FolderInv, FolderTypes, JobOf
<1>2. OwnRules'
  <2>1. \A q \in Requests : \/ req'[q].rule = 0
                            \/ req'[q].rule = req[q].rule /\ req'[q].f = req[q].f
                            \/ req'[q].f \in Folders /\ req'[q].rule = smart[req'[q].f].rule
    BY DEF JobOf
  <2>2. rulesMade <= rulesMade'
    BY FolderConstants DEF FolderInv, FolderTypes, RuleRefs
  <2> QED BY <1>1, <2>1, <2>2, OwnRulesStay DEF FolderInv
<1>3. HeldOnce'
  <2> SUFFICES ASSUME NEW g \in Requests, NEW q \in Requests, g # q, req'[q].pc # "free", req'[g].f = req'[q].f
               PROVE  req'[q].f \in tangled'
    BY DEF HeldOnce
  <2> QED BY DEF FolderInv, HeldOnce, JobOf
<1>4. Frame(h, f)
  <2>1. req[h].f = "none"
    BY JobFields DEF FolderInv
  <2> QED BY <2>1 DEF Frame, JobOf
<1>5. Settled(f)'
  BY DEF Settled, JobOf
<1>6. AtWork(h)'
  BY DEF AtWork, JobOf
<1> QED BY <1>1, <1>2, <1>3, <1>4, <1>5, <1>6, StepKeeps

\* A request that goes on with its folder, or is done with it.
LEMMA GoKeeps ==
  ASSUME FolderInv, NEW h \in Requests, NEW f \in Folders, NEW m \in Job, JobOf(h, m), req[h].f = f, req[h].pc # "free",
         m = Sorting!Free \/ m.f = f,
         smart' \in [Folders -> {Sorting!NoDoc} \cup FolderDoc], boxes' \subseteq Folders,
         rules' \in [RuleIds -> {Sorting!Dropped} \cup InboxRule], rulesMade' \in RuleRefs,
         tangled \subseteq tangled', tangled' \subseteq Folders, rulesMade <= rulesMade',
         \A g \in Folders : g # f => smart'[g] = smart[g],
         smart'[f].rule \in {smart[f].rule, req[h].rule, 0},
         \A i \in RuleIds : rules'[i] = rules[i] \/ rules'[i].f \in {f, "none"},
         \A i \in RuleIds : i <= rulesMade => rules'[i].f \in {rules[i].f, "none"},
         m.rule \in {0, req[h].rule} \/ (m.rule = rulesMade' /\ rules'[rulesMade'].f = m.f),
         m.pc # "free" => AtWork(h)', m.pc = "free" => Settled(f)'
  PROVE  FolderInv'
<1>2. FolderTypes'
  BY DEF FolderInv, FolderTypes, JobOf
<1>3. OwnRules'
  <2>1. \A g \in Folders : \/ smart'[g].rule \in {smart[g].rule, 0}
                           \/ \E q \in Requests : req[q].f = g /\ smart'[g].rule = req[q].rule
    OBVIOUS
  <2>2. \A q \in Requests : \/ req'[q].rule = 0
                            \/ req'[q].rule = req[q].rule /\ req'[q].f = req[q].f
                            \/ req'[q].rule = rulesMade' /\ rules'[rulesMade'].f = req'[q].f
    BY NothingHeld DEF JobOf
  <2> QED BY <1>2, <2>1, <2>2, OwnRulesStay DEF FolderInv
<1>4. HeldOnce'
  <2>1. \A q \in Requests : req'[q].pc = "free" \/ (req'[q].f = req[q].f /\ req[q].pc # "free")
    <3> SUFFICES ASSUME NEW q \in Requests, req'[q].pc # "free"
                 PROVE  req'[q].f = req[q].f /\ req[q].pc # "free"
      OBVIOUS
    <3> QED BY NothingHeld DEF JobOf
  <2> QED BY <1>2, <2>1, HeldOnceStays DEF FolderInv
<1>5. Frame(h, f)
  <2>1. req'[h].f \in {f, "none"}
    BY NothingHeld DEF JobOf
  <2> QED BY <2>1 DEF Frame, JobOf
<1>6. Settled(f)' /\ AtWork(h)'
  <2>1. CASE m.pc = "free"
    <3>1. AtWork(h)'
      BY <2>1 DEF AtWork, JobOf
    <3> QED BY <2>1, <3>1
  <2>2. CASE m.pc # "free"
    <3>1. req'[h].f = f
      BY <2>2, NothingHeld DEF JobOf
    <3>2. Settled(f)'
      BY <3>1 DEF Settled
    <3> QED BY <2>2, <3>2
  <2> QED BY <2>1, <2>2
<1> QED BY <1>2, <1>3, <1>4, <1>5, <1>6, StepKeeps

LEMMA RuleNumbers ==
  /\ \A i \in RuleIds : i # 0 /\ i \in Nat /\ i \in RuleRefs
  /\ \A n \in RuleRefs : n \in Nat /\ n <= n /\ (n < MaxRules => n + 1 \in RuleIds /\ n + 1 \in RuleRefs)
BY FolderConstants DEF RuleIds, RuleRefs

\* Taking hold.
LEMMA HoldStays ==
  ASSUME FolderInv, NEW h \in Requests, NEW f \in Folders,
         \/ \E from \in Sorting!Matches : Sorting!Create(h, f, from) \/ Sorting!Patch(h, f, from)
         \/ Sorting!Delete(h, f) \/ Sorting!Notice(h, f)
  PROVE  FolderInv'
<1> USE DEF Sorting!NoRule
<1>1. FolderTypes /\ (\A q \in Requests : AtWork(q)) /\ Settled(f) /\ boxes \subseteq Folders
  BY DEF FolderInv, FollowsFolders, FolderTypes
<1>2. /\ smart[f].rule \in RuleRefs
      /\ Sorting!Kept(f) => smart[f].from \in Sorting!Matches
      /\ 0 \in RuleRefs /\ \A i \in RuleIds : i # 0
  BY <1>1, DocFields, RuleNumbers, FolderConstants DEF RuleRefs
<1>3. ASSUME NEW from \in Sorting!Matches, Sorting!Create(h, f, from)
      PROVE  FolderInv'
  <2>1. /\ Sorting!Hold(h, f, "rule", from, 0) /\ boxes' = boxes \cup {f} /\ UNCHANGED <<smart, rules, rulesMade>>
        /\ ~Sorting!Kept(f) /\ \A i \in RuleIds : rules[i].f # f
    BY <1>3 DEF Sorting!Create, RuleIds
  <2>2. from \in SUBSET Authors /\ from # {}
    BY MatchesAre
  <2>7. JobTaken(h, f, "rule", from, 0)
    BY <1>1, <1>2, <2>1, <2>2, HoldDoes
  <2>3. PICK m \in Job : JobOf(h, m) /\ m.pc = "rule" /\ m.f = f /\ m.from = from /\ m.rule = 0 /\ m.new = (~Sorting!Kept(f))
    BY <2>7, Zenon DEF JobTaken
  <2>4. AtWork(h)'
    BY <2>1, <2>3 DEF AtWork, Into, JobOf, Sorting!Kept
  <2>5. req[h].pc = "free" /\ tangled \subseteq tangled' /\ tangled' \subseteq Folders /\ ((\E q \in Requests : req[q].f = f) => f \in tangled')
    BY <1>1, <1>2, <2>1, <2>2, HoldDoes
  <2>6. boxes' \subseteq Folders
    BY <1>1, <2>1
  <2> QED BY <2>1, <2>3, <2>4, <2>5, <2>6, HoldKeeps
<1>4. ASSUME NEW pc \in {"rule", "update", "forget", "grant"}, NEW from \in SUBSET Authors, NEW rule \in {0, smart[f].rule},
             Sorting!Kept(f), pc # "forget" => from # {}, pc = "update" => rule # 0,
             pc \in {"update", "forget"} => rule = smart[f].rule, pc \in {"rule", "grant"} => smart[f].rule = 0,
             pc = "grant" => from = smart[f].from,
             Sorting!Hold(h, f, pc, from, rule), UNCHANGED <<smart, boxes, rules, rulesMade>>
      PROVE  FolderInv'
  <2>0. rule \in RuleRefs
    BY <1>2, <1>4
  <2>4. JobTaken(h, f, pc, from, rule)
    BY <1>1, <1>4, <2>0, HoldDoes
  <2>1. PICK m \in Job : JobOf(h, m) /\ m.pc = pc /\ m.f = f /\ m.from = from /\ m.rule = rule /\ m.new = (~Sorting!Kept(f))
    BY <2>4, Zenon DEF JobTaken
  <2>2. req[h].pc = "free" /\ tangled \subseteq tangled' /\ tangled' \subseteq Folders /\ ((\E q \in Requests : req[q].f = f) => f \in tangled')
    BY <1>1, <1>4, <2>0, HoldDoes
  <2>3. ASSUME f \notin tangled'
        PROVE  AtWork(h)'
    <3>1. \A i \in Into(f) : smart[f].rule = i
      BY <1>1, <2>2, <2>3 DEF Settled
    <3>2. Into(f)' = Into(f) /\ Sorting!Kept(f)'
      BY <1>4 DEF Into, Sorting!Kept
    <3>3. pc \in {"rule", "grant"} => Into(f) = {}
      BY <1>2, <1>4, <3>1 DEF Into
    <3> QED BY <1>4, <2>1, <3>1, <3>2, <3>3 DEF AtWork, JobOf
  <2> QED BY <1>1, <1>4, <2>1, <2>2, <2>3, HoldKeeps
<1>5. ASSUME NEW from \in Sorting!Matches, Sorting!Patch(h, f, from)
      PROVE  FolderInv'
  <2>1. from \in SUBSET Authors /\ from # {} /\ Sorting!Kept(f) /\ UNCHANGED <<smart, boxes, rules, rulesMade>>
    BY <1>5, MatchesAre DEF Sorting!Patch
  <2>2. CASE smart[f].rule = 0
    <3>1. Sorting!Hold(h, f, "rule", from, smart[f].rule)
      BY <1>5, <2>2 DEF Sorting!Patch
    <3> QED BY <1>4, <2>1, <2>2, <3>1
  <2>3. CASE smart[f].rule # 0
    <3>1. Sorting!Hold(h, f, "update", from, smart[f].rule)
      BY <1>5, <2>3 DEF Sorting!Patch
    <3> QED BY <1>4, <2>1, <2>3, <3>1
  <2> QED BY <2>2, <2>3
<1>6. ASSUME Sorting!Delete(h, f)
      PROVE  FolderInv'
  <2>1. Sorting!Kept(f) /\ Sorting!Hold(h, f, "forget", {}, smart[f].rule) /\ UNCHANGED <<smart, boxes, rules, rulesMade>>
    BY <1>6 DEF Sorting!Delete, Sorting!RuleToDrop
  <2>2. {} \in SUBSET Authors
    OBVIOUS
  <2> QED BY <1>4, <2>1, <2>2
<1>7. ASSUME Sorting!Notice(h, f)
      PROVE  FolderInv'
  <2>1. /\ Sorting!Kept(f) /\ smart[f].rule = 0 /\ Sorting!Hold(h, f, "grant", smart[f].from, 0)
        /\ UNCHANGED <<smart, boxes, rules, rulesMade>>
    BY <1>7 DEF Sorting!Notice
  <2>2. smart[f].from \in SUBSET Authors /\ smart[f].from # {}
    BY <1>2, <2>1, MatchesAre
  <2> QED BY <1>4, <2>1, <2>2
<1> QED BY <1>3, <1>5, <1>6, <1>7

\* What a step at work on a folder may rely on.
LEMMA AtWorkKnows ==
  ASSUME FolderInv, NEW h \in Requests, req[h].pc # "free"
  PROVE  /\ FolderTypes /\ AtWork(h) /\ req[h].f \in Folders /\ req[h].f # "none"
         /\ smart \in [Folders -> {Sorting!NoDoc} \cup FolderDoc] /\ boxes \subseteq Folders
         /\ rules \in [RuleIds -> {Sorting!Dropped} \cup InboxRule] /\ rulesMade \in RuleRefs /\ rulesMade <= rulesMade
         /\ tangled \subseteq Folders
         /\ req[h].rule \in RuleRefs /\ req[h].rule <= rulesMade
         /\ req[h].rule # 0 => req[h].rule \in RuleIds /\ rules[req[h].rule].f \in {req[h].f, "none"}
<1>1. FolderTypes /\ AtWork(h) /\ OwnRules
  BY DEF FolderInv, FollowsFolders
<1>2. req[h].f \in Folders /\ req[h].rule \in RuleRefs
  BY <1>1, JobFields
<1>3. req[h].rule # 0 => req[h].rule \in RuleIds
  BY <1>2, FolderConstants DEF RuleRefs, RuleIds
<1> QED BY <1>1, <1>2, <1>3, RuleNumbers, FolderConstants DEF FolderTypes, OwnRules

\* A rule that is made, rewritten or dropped.
LEMMA RuleUpdate ==
  ASSUME FolderTypes, NEW i \in RuleIds, NEW x \in {Sorting!Dropped} \cup InboxRule, rules' = [rules EXCEPT ![i] = x]
  PROVE  /\ rules' \in [RuleIds -> {Sorting!Dropped} \cup InboxRule] /\ rules'[i] = x
         /\ \A j \in RuleIds : j # i => rules'[j] = rules[j]
BY DEF FolderTypes

LEMMA MakeRuleStays ==
  ASSUME FolderInv, NEW h \in Requests, Sorting!MakeRule(h) \/ Sorting!Grant(h)
  PROVE  FolderInv'
<1> USE DEF Sorting!NoRule
<1>1. req[h].pc \in {"rule", "grant"} /\ UNCHANGED <<smart, boxes, tangled>>
  BY DEF Sorting!MakeRule, Sorting!Grant
<1>2. AtWork(h) /\ FolderTypes
  BY <1>1, AtWorkKnows
<1>3. PICK f \in Folders : f = req[h].f /\ f # "none"
  BY <1>1, AtWorkKnows
<1>4. req[h].from \in Sorting!Matches /\ req[h].from # {}
  BY <1>1, <1>2, JobFields, MatchesAre
<1>5. f \notin tangled => Into(f) = {}
  BY <1>1, <1>2, <1>3 DEF AtWork
<1>6. CASE req' = [req EXCEPT ![h].pc = "store", ![h].rule = 0] /\ UNCHANGED <<rulesMade, rules>> /\ req[h].pc = "rule"
  <2>1. 0 \in RuleRefs
    BY FolderConstants DEF RuleRefs
  <2>2. PICK m \in Job : /\ JobOf(h, m) /\ m.pc = "store" /\ m.f = req[h].f /\ m.from = req[h].from
                         /\ m.rule = 0 /\ m.new = req[h].new
    <3>1. FolderTypes /\ req[h].pc # "free" /\ req[h].from # {}
      BY <1>1, <1>2, <1>4
    <3>2. Numbered(h, "store", 0)
      BY <1>6 DEF Numbered
    <3> QED BY <2>1, <3>1, <3>2, MadeDoes
  <2>3. AtWork(h)'
    BY <1>1, <1>2, <1>3, <1>5, <1>6, <2>2 DEF AtWork, JobOf, Into, Sorting!Kept
  <2> QED BY <1>1, <1>3, <1>6, <2>2, <2>3, AtWorkKnows, GoKeeps
<1>7. ASSUME NEW pc \in {"store", "set"}, rulesMade < MaxRules, rulesMade' = rulesMade + 1,
             req[h].pc = "rule" <=> pc = "store",
             rules' = [rules EXCEPT ![rulesMade + 1] = [f |-> req[h].f, from |-> req[h].from]],
             req' = [req EXCEPT ![h].pc = pc, ![h].rule = rulesMade + 1]
      PROVE  FolderInv'
  <2>1. rulesMade + 1 \in RuleIds /\ rulesMade + 1 \in RuleRefs /\ rulesMade \in Nat
    BY <1>2, <1>7, RuleNumbers DEF FolderTypes
  <2>2. PICK m \in Job : /\ JobOf(h, m) /\ m.pc = pc /\ m.f = req[h].f /\ m.from = req[h].from
                         /\ m.rule = rulesMade + 1 /\ m.new = req[h].new
    <3>1. FolderTypes /\ req[h].pc # "free" /\ req[h].from # {}
      BY <1>1, <1>2, <1>4
    <3>2. Numbered(h, pc, rulesMade + 1)
      BY <1>7 DEF Numbered
    <3> QED BY <2>1, <3>1, <3>2, MadeDoes
  <2> DEFINE x == [f |-> req[h].f, from |-> req[h].from]
  <2>3. x \in InboxRule /\ x.f = f /\ x.from = req[h].from
    BY <1>3, <1>4 DEF InboxRule
  <2>4. rules' = [rules EXCEPT ![rulesMade + 1] = x]
    BY <1>7
  <2> HIDE DEF x
  <2>5. /\ rules' \in [RuleIds -> {Sorting!Dropped} \cup InboxRule] /\ rules'[rulesMade + 1] = x
        /\ \A j \in RuleIds : j # rulesMade + 1 => rules'[j] = rules[j]
    BY <1>2, <2>1, <2>3, <2>4, RuleUpdate
  <2>6. f \notin tangled => \A i \in Into(f)' : i = rulesMade + 1 /\ rules'[i].from = req[h].from
    BY <1>5, <2>3, <2>5 DEF Into
  <2>7. AtWork(h)'
    BY <1>1, <1>2, <1>3, <1>7, <2>2, <2>6 DEF AtWork, JobOf, Sorting!Kept
  <2>8. \A i \in RuleIds : i <= rulesMade => rules'[i].f \in {rules[i].f, "none"}
    BY <2>1, <2>5
  <2>9. m.rule = rulesMade' /\ rules'[rulesMade'].f = m.f /\ rulesMade <= rulesMade' /\ rulesMade' \in RuleRefs
    BY <1>3, <1>7, <2>1, <2>2, <2>3, <2>5
  <2>10. \A i \in RuleIds : rules'[i] = rules[i] \/ rules'[i].f \in {f, "none"}
    BY <2>3, <2>5
  <2>11. req[h].pc # "free" /\ m.f = f /\ m.pc # "free" /\ smart'[f].rule = smart[f].rule /\ req[h].f = f
    BY <1>1, <1>3, <2>2
  <2>12. /\ smart' \in [Folders -> {Sorting!NoDoc} \cup FolderDoc] /\ boxes' \subseteq Folders
         /\ tangled \subseteq tangled' /\ tangled' \subseteq Folders /\ \A g \in Folders : g # f => smart'[g] = smart[g]
    BY <1>1, AtWorkKnows
  <2> QED BY <2>2, <2>5, <2>7, <2>8, <2>9, <2>10, <2>11, <2>12, GoKeeps
<1>8. CASE Sorting!MakeRule(h)
  <2>1. req[h].pc = "rule"
    BY <1>8 DEF Sorting!MakeRule
  <2> QED BY <1>6, <1>7, <1>8, <2>1 DEF Sorting!MakeRule
<1>9. CASE Sorting!Grant(h)
  <2>1. req[h].pc = "grant"
    BY <1>9 DEF Sorting!Grant
  <2> QED BY <1>7, <1>9, <2>1 DEF Sorting!Grant
<1> QED BY <1>8, <1>9

LEMMA StoreStays ==
  ASSUME FolderInv, NEW h \in Requests, Sorting!Store(h) \/ Sorting!SetRuleId(h)
  PROVE  FolderInv'
<1>1. req[h].pc \in {"store", "set"} /\ UNCHANGED <<boxes, rules, rulesMade, tangled>>
  BY DEF Sorting!Store, Sorting!SetRuleId
<1>2. AtWork(h) /\ FolderTypes
  BY <1>1, AtWorkKnows
<1>3. PICK f \in Folders : f = req[h].f /\ f # "none"
  BY <1>1, AtWorkKnows
<1>4. JobOf(h, Sorting!Free)
  BY <1>2, DoneDoes DEF Sorting!Store, Sorting!SetRuleId
<1>5. f \notin tangled => \A i \in Into(f) : i = req[h].rule /\ rules[i].from = req[h].from
  BY <1>1, <1>2, <1>3 DEF AtWork
<1>6. req[h].from \in Sorting!Matches /\ req[h].rule \in RuleRefs
  BY <1>1, <1>2, JobFields
<1>7. ASSUME NEW d \in FolderDoc, d.rule = req[h].rule, f \notin tangled => d.from = req[h].from,
             smart' = [smart EXCEPT ![f] = d]
      PROVE  FolderInv'
  <2>1. /\ smart' \in [Folders -> {Sorting!NoDoc} \cup FolderDoc] /\ smart'[f] = d
        /\ \A g \in Folders : g # f => smart'[g] = smart[g]
    BY <1>2, <1>7 DEF FolderTypes
  <2>2. Settled(f)'
    BY <1>1, <1>5, <1>7, <2>1 DEF Settled, Into
  <2> QED BY <1>1, <1>3, <1>4, <1>7, <2>1, <2>2, NothingHeld, AtWorkKnows, GoKeeps
<1>8. ASSUME UNCHANGED smart, f \in tangled
      PROVE  FolderInv'
  <2>1. Settled(f)'
    BY <1>1, <1>8 DEF Settled
  <2> QED BY <1>1, <1>3, <1>4, <1>8, <2>1, NothingHeld, AtWorkKnows, GoKeeps
<1>9. CASE Sorting!Store(h)
  <2>1. CASE req[h].new \/ Sorting!Kept(req[h].f)
    <3> DEFINE d == [from |-> req[h].from, rule |-> req[h].rule]
    <3>1. d \in FolderDoc /\ d.rule = req[h].rule /\ d.from = req[h].from
      BY <1>6 DEF FolderDoc
    <3>2. smart' = [smart EXCEPT ![f] = d]
      BY <1>3, <1>9, <2>1 DEF Sorting!Store
    <3> HIDE DEF d
    <3> QED BY <1>7, <3>1, <3>2
  <2>2. CASE ~(req[h].new \/ Sorting!Kept(req[h].f))
    <3>1. UNCHANGED smart /\ req[h].pc = "store"
      BY <1>9, <2>2 DEF Sorting!Store
    <3>2. f \in tangled
      BY <1>2, <1>3, <2>2, <3>1 DEF AtWork
    <3> QED BY <1>8, <3>1, <3>2
  <2> QED BY <2>1, <2>2
<1>10. CASE Sorting!SetRuleId(h)
  <2>0. req[h].pc = "set"
    BY <1>10 DEF Sorting!SetRuleId
  <2>1. CASE Sorting!Kept(req[h].f)
    <3> DEFINE d == [smart[f] EXCEPT !.rule = req[h].rule]
    <3>1. smart[f] \in FolderDoc
      BY <1>2, <1>3, <2>1, DocFields
    <3>2. d \in FolderDoc /\ d.rule = req[h].rule /\ d.from = smart[f].from
      BY <1>6, <3>1 DEF FolderDoc
    <3>3. smart' = [smart EXCEPT ![f] = d]
      BY <1>2, <1>3, <1>10, <2>1 DEF Sorting!SetRuleId, FolderTypes
    <3>4. f \notin tangled => d.from = req[h].from
      BY <1>2, <1>3, <2>0, <3>2 DEF AtWork
    <3> HIDE DEF d
    <3> QED BY <1>7, <3>2, <3>3, <3>4
  <2>2. CASE ~Sorting!Kept(req[h].f)
    <3>1. UNCHANGED smart
      BY <1>10, <2>2 DEF Sorting!SetRuleId
    <3>2. f \in tangled
      BY <1>2, <1>3, <2>0, <2>2 DEF AtWork
    <3> QED BY <1>8, <3>1, <3>2
  <2> QED BY <2>1, <2>2
<1> QED BY <1>9, <1>10

LEMMA UpdateRuleStays ==
  ASSUME FolderInv, NEW h \in Requests, Sorting!UpdateRule(h)
  PROVE  FolderInv'
<1>1. req[h].pc = "update" /\ UNCHANGED <<smart, boxes, rulesMade>>
  BY DEF Sorting!UpdateRule
<1>2. AtWork(h) /\ FolderTypes
  BY <1>1, AtWorkKnows
<1>3. PICK f \in Folders : f = req[h].f /\ f # "none"
  BY <1>1, AtWorkKnows
<1>4. PICK i \in RuleIds : i = req[h].rule /\ rules[i].f \in {f, "none"} /\ req[h].from \in Sorting!Matches /\ req[h].from # {}
  BY <1>1, <1>2, <1>3, JobFields, RuleNumbers, MatchesAre, AtWorkKnows
<1>5. f \notin tangled => (\A j \in Into(f) : j = i) /\ (req[h].new \/ Sorting!Kept(f))
  BY <1>1, <1>2, <1>3, <1>4 DEF AtWork
<1>6. CASE rules[i] # Sorting!Dropped /\ rules' = [rules EXCEPT ![i].from = req[h].from] /\ Sorting!Go(h, "store") /\ UNCHANGED tangled
  <2> DEFINE x == [rules[i] EXCEPT !.from = req[h].from]
  <2>1. x \in InboxRule /\ x.f = rules[i].f /\ x.from = req[h].from
    BY <1>2, <1>4, <1>6 DEF FolderTypes, InboxRule
  <2>2. rules' = [rules EXCEPT ![i] = x]
    BY <1>6
  <2> HIDE DEF x
  <2>3. /\ rules' \in [RuleIds -> {Sorting!Dropped} \cup InboxRule] /\ rules'[i] = x
        /\ \A j \in RuleIds : j # i => rules'[j] = rules[j]
    BY <1>2, <2>1, <2>2, RuleUpdate
  <2>4. PICK m \in Job : /\ JobOf(h, m) /\ m.pc = "store" /\ m.f = f /\ m.from = req[h].from
                         /\ m.rule = req[h].rule /\ m.new = req[h].new
    BY <1>1, <1>2, <1>3, <1>4, <1>6, GoDoes
  <2>5. f \notin tangled => \A j \in Into(f)' : j = i /\ rules'[j].from = req[h].from
    BY <1>5, <2>1, <2>3 DEF Into
  <2>6. AtWork(h)'
    BY <1>1, <1>3, <1>4, <1>5, <1>6, <2>4, <2>5 DEF AtWork, JobOf, Sorting!Kept
  <2>7. \A j \in RuleIds : rules'[j].f = rules[j].f /\ (rules'[j] = rules[j] \/ rules'[j].f \in {f, "none"})
    BY <1>4, <2>1, <2>3
  <2>8. req[h].pc # "free" /\ m.rule = req[h].rule /\ m.pc # "free"
    BY <1>1, <2>4
  <2> QED BY <1>1, <1>3, <1>6, <2>3, <2>4, <2>6, <2>7, <2>8, AtWorkKnows, GoKeeps
<1>7. CASE /\ Sorting!Go(h, "rule") /\ UNCHANGED rules
           /\ IF rules[i] # Sorting!Dropped THEN Sorting!Tangle(h) ELSE UNCHANGED tangled
  <2>1. PICK m \in Job : /\ JobOf(h, m) /\ m.pc = "rule" /\ m.f = f /\ m.from = req[h].from
                         /\ m.rule = req[h].rule /\ m.new = req[h].new
    BY <1>1, <1>2, <1>3, <1>4, <1>7, GoDoes
  <2>2. tangled \subseteq tangled' /\ tangled' \subseteq Folders /\ (f \notin tangled' => f \notin tangled /\ rules[i] = Sorting!Dropped)
    BY <1>2, <1>3, <1>7 DEF Sorting!Tangle, FolderTypes
  <2>3. f \notin tangled' => Into(f) = {}
    BY <1>3, <1>5, <2>2, NothingHeld DEF Into
  <2>4. AtWork(h)'
    BY <1>1, <1>3, <1>5, <1>7, <2>1, <2>2, <2>3 DEF AtWork, JobOf, Into, Sorting!Kept
  <2>5. req[h].pc # "free" /\ m.rule = req[h].rule /\ m.pc # "free"
    BY <1>1, <2>1
  <2> QED BY <1>1, <1>3, <1>7, <2>1, <2>2, <2>4, <2>5, AtWorkKnows, GoKeeps
<1> QED BY <1>3, <1>4, <1>6, <1>7 DEF Sorting!UpdateRule, Sorting!Rewritten

LEMMA ForgetStays ==
  ASSUME FolderInv, NEW h \in Requests, Sorting!Forget(h)
  PROVE  FolderInv'
<1> USE DEF Sorting!NoRule
<1>1. req[h].pc = "forget" /\ UNCHANGED <<boxes, rules, rulesMade, tangled>>
  BY DEF Sorting!Forget
<1>2. AtWork(h) /\ FolderTypes
  BY <1>1, AtWorkKnows
<1>3. PICK f \in Folders : f = req[h].f /\ f # "none"
  BY <1>1, AtWorkKnows
<1>4. /\ smart' \in [Folders -> {Sorting!NoDoc} \cup FolderDoc] /\ smart'[f].rule = 0
      /\ \A g \in Folders : g # f => smart'[g] = smart[g]
  BY <1>2, <1>3, NothingHeld DEF Sorting!Forget, FolderTypes
<1>5. ASSUME NEW pc \in {"unbox", "unrule"}, Sorting!Go(h, pc), pc = "unrule" <=> req[h].rule # 0
      PROVE  FolderInv'
  <2>1. PICK m \in Job : /\ JobOf(h, m) /\ m.pc = pc /\ m.f = f /\ m.from = req[h].from
                         /\ m.rule = req[h].rule /\ m.new = req[h].new
    BY <1>1, <1>2, <1>3, <1>5, GoDoes
  <2>2. f \notin tangled => \A j \in Into(f) : j = req[h].rule /\ j # 0
    BY <1>1, <1>2, <1>3, RuleNumbers DEF AtWork, Into
  <2>3. AtWork(h)'
    BY <1>1, <1>3, <1>5, <2>1, <2>2 DEF AtWork, JobOf, Into
  <2>4. req[h].pc # "free" /\ m.rule = req[h].rule /\ m.pc # "free"
    BY <1>1, <1>5, <2>1
  <2> QED BY <1>1, <1>3, <1>4, <2>1, <2>3, <2>4, AtWorkKnows, GoKeeps
<1>6. CASE req[h].rule = 0
  <2>1. Sorting!Go(h, "unbox")
    BY <1>6 DEF Sorting!Forget
  <2> QED BY <1>5, <1>6, <2>1
<1>7. CASE req[h].rule # 0
  <2>1. Sorting!Go(h, "unrule")
    BY <1>7 DEF Sorting!Forget
  <2> QED BY <1>5, <1>7, <2>1
<1> QED BY <1>6, <1>7

LEMMA DropRuleStays ==
  ASSUME FolderInv, NEW h \in Requests, Sorting!DropRule(h)
  PROVE  FolderInv'
<1>1. req[h].pc = "unrule" /\ UNCHANGED <<smart, boxes, rulesMade>> /\ Sorting!Go(h, "unbox")
  BY DEF Sorting!DropRule
<1>2. AtWork(h) /\ FolderTypes
  BY <1>1, AtWorkKnows
<1>3. PICK f \in Folders : f = req[h].f /\ f # "none"
  BY <1>1, AtWorkKnows
<1>4. PICK i \in RuleIds : i = req[h].rule
  BY <1>1, <1>2, JobFields
<1>5. f \notin tangled => \A j \in Into(f) : j = i
  BY <1>1, <1>2, <1>3, <1>4 DEF AtWork
<1>6. PICK m \in Job : /\ JobOf(h, m) /\ m.pc = "unbox" /\ m.f = f /\ m.from = req[h].from
                       /\ m.rule = req[h].rule /\ m.new = req[h].new
  BY <1>1, <1>2, <1>3, GoDoes
<1>7. req[h].pc # "free" /\ m.rule = req[h].rule /\ m.pc # "free"
  BY <1>1, <1>6
<1>8. CASE rules' = [rules EXCEPT ![i] = Sorting!Dropped] /\ UNCHANGED tangled
  <2>1. /\ rules' \in [RuleIds -> {Sorting!Dropped} \cup InboxRule] /\ rules'[i].f = "none"
        /\ \A j \in RuleIds : j # i => rules'[j] = rules[j]
    BY <1>2, <1>8, RuleUpdate, NothingHeld
  <2>2. f \notin tangled' => Into(f)' = {}
    BY <1>3, <1>5, <1>8, <2>1 DEF Into
  <2>3. AtWork(h)'
    BY <1>1, <1>6, <2>2 DEF AtWork, JobOf
  <2>4. \A j \in RuleIds : rules'[j] = rules[j] \/ rules'[j].f = "none"
    BY <2>1
  <2> QED BY <1>1, <1>3, <1>6, <1>7, <1>8, <2>1, <2>3, <2>4, AtWorkKnows, GoKeeps
<1>9. CASE UNCHANGED rules /\ Sorting!Tangle(h)
  <2>1. tangled \subseteq tangled' /\ tangled' \subseteq Folders /\ f \in tangled'
    BY <1>2, <1>3, <1>9 DEF Sorting!Tangle, FolderTypes
  <2>2. AtWork(h)'
    BY <1>6, <2>1 DEF AtWork, JobOf
  <2> QED BY <1>1, <1>3, <1>6, <1>7, <1>9, <2>1, <2>2, AtWorkKnows, GoKeeps
<1> QED BY <1>4, <1>8, <1>9 DEF Sorting!DropRule

LEMMA DropBoxStays ==
  ASSUME FolderInv, NEW h \in Requests, Sorting!DropBox(h) \/ Sorting!Die(h)
  PROVE  FolderInv'
<1>1. UNCHANGED <<smart, rules, rulesMade>> /\ Sorting!Done(h) /\ boxes' \subseteq boxes
  BY DEF Sorting!DropBox, Sorting!Die
<1>2. req[h].pc # "free"
  BY JobFields DEF Sorting!DropBox, Sorting!Die, FolderInv
<1>3. AtWork(h) /\ FolderTypes /\ boxes' \subseteq Folders
  BY <1>1, <1>2, AtWorkKnows
<1>4. PICK f \in Folders : f = req[h].f /\ f # "none"
  BY <1>2, AtWorkKnows
<1>5. tangled \subseteq tangled' /\ tangled' \subseteq Folders /\ (f \notin tangled' => f \notin tangled /\ req[h].pc = "unbox")
  BY <1>3, <1>4 DEF Sorting!DropBox, Sorting!Die, Sorting!Tangle, FolderTypes
<1>6. Settled(f)'
  <2>1. f \notin tangled' => Into(f)' = {}
    BY <1>1, <1>3, <1>4, <1>5 DEF AtWork, Into
  <2> QED BY <2>1 DEF Settled
<1>7. JobOf(h, Sorting!Free)
  BY <1>1, <1>3, DoneDoes
<1> QED BY <1>1, <1>2, <1>3, <1>4, <1>5, <1>6, <1>7, NothingHeld, AtWorkKnows, GoKeeps

LEMMA UserDropsStays ==
  ASSUME FolderInv, NEW i \in RuleIds, Sorting!UserDrops(i)
  PROVE  FolderInv'
<1>1. rules' = [rules EXCEPT ![i] = Sorting!Dropped] /\ UNCHANGED <<smart, boxes, req, rulesMade, tangled>> /\ FolderTypes
  BY DEF Sorting!UserDrops, FolderInv
<1>2. /\ rules' \in [RuleIds -> {Sorting!Dropped} \cup InboxRule]
      /\ \A j \in RuleIds : rules'[j] = rules[j] \/ rules'[j].f = "none"
  BY <1>1, RuleUpdate, NothingHeld
<1>3. FolderTypes'
  BY <1>1, <1>2 DEF FolderTypes
<1>4. OwnRules'
  <2>1. rulesMade <= rulesMade'
    BY <1>1, RuleNumbers DEF FolderTypes
  <2> QED BY <1>1, <1>2, <1>3, <2>1, OwnRulesStay DEF FolderInv
<1>5. HeldOnce'
  BY <1>1 DEF FolderInv, HeldOnce
<1>6. ASSUME NEW f \in Folders
      PROVE  Into(f)' \subseteq Into(f) /\ \A j \in Into(f)' : rules'[j] = rules[j]
  BY <1>2, <1>6, FolderConstants DEF Into
<1>7. ASSUME NEW f \in Folders
      PROVE  Settled(f)'
  BY <1>1, <1>6 DEF FolderInv, FollowsFolders, Settled
<1>8. ASSUME NEW h \in Requests
      PROVE  AtWork(h)'
  <2>1. AtWork(h) /\ (req[h].pc # "free" => req[h].f \in Folders)
    BY <1>1, JobFields DEF FolderInv, FollowsFolders
  <2> QED BY <1>1, <1>6, <2>1 DEF AtWork, Sorting!Kept
<1> QED BY <1>3, <1>4, <1>5, <1>7, <1>8 DEF FolderInv, FollowsFolders

LEMMA FoldersStay ==
  ASSUME FolderInv, [WorkspaceNext]_<<part, access, posting, signing, mailbox, sorting, places, pushing>>
  PROVE  FolderInv'
<1>1. CASE UNCHANGED sorting
  <2>1. UNCHANGED <<smart, boxes, rules, req, rulesMade, tangled>>
    BY <1>1 DEF sorting
  <2>2. FolderTypes' /\ OwnRules' /\ HeldOnce'
    BY <2>1 DEF FolderInv, FolderTypes, OwnRules, HeldOnce
  <2>3. FollowsFolders'
    BY <2>1 DEF FolderInv, FollowsFolders, Settled, AtWork, Into, Sorting!Kept
  <2> QED BY <2>2, <2>3 DEF FolderInv
<1>2. CASE Sorting!FoldersNext
  BY <1>2, HoldStays, MakeRuleStays, StoreStays, UpdateRuleStays, ForgetStays, DropRuleStays, DropBoxStays,
     UserDropsStays DEF Sorting!FoldersNext, RuleIds
<1> QED BY <1>1, <1>2 DEF WorkspaceNext

LEMMA FoldersBegin == ASSUME WorkspaceInit PROVE FolderInv
<1>1. /\ smart = [f \in Folders |-> Sorting!NoDoc] /\ boxes = {} /\ rules = [i \in RuleIds |-> Sorting!Dropped]
      /\ req = [h \in Requests |-> Sorting!Free] /\ rulesMade = 0 /\ tangled = {}
  BY DEF WorkspaceInit, Sorting!FoldersInit, RuleIds
<1>2. FolderTypes
  <2>1. 0 \in RuleRefs
    BY FolderConstants DEF RuleRefs
  <2> QED BY <1>1, <2>1, NothingHeld DEF FolderTypes
<1>3. OwnRules /\ HeldOnce
  BY <1>1, NothingHeld DEF OwnRules, HeldOnce
<1>4. FollowsFolders
  <2>1. \A f \in Folders : Into(f) = {}
    BY <1>1, NothingHeld, FolderConstants DEF Into
  <2> QED BY <1>1, <2>1, NothingHeld DEF FollowsFolders, Settled, AtWork
<1> QED BY <1>2, <1>3, <1>4 DEF FolderInv

LEMMA FoldersShow ==
  ASSUME FolderInv
  PROVE  Sorting!FoldersTypeOK /\ Sorting!RulesFollowFoldersUnlessTangled
<1>1. Sorting!FoldersTypeOK
  <2>1. \A i \in 1..MaxRules : rules[i] = Sorting!Dropped \/ rules[i] \in [f : Folders, from : Sorting!Matches]
    BY DEF FolderInv, FolderTypes, RuleIds, InboxRule
  <2>2. \A h \in Requests : req[h].pc \in {"free", "update", "rule", "store", "forget", "unrule", "unbox", "grant", "set"}
    BY JobFields DEF FolderInv
  <2> QED BY <2>1, <2>2 DEF FolderInv, FolderTypes, Sorting!FoldersTypeOK, Sorting!SmartFolderDoc, FolderDoc, RuleRefs
<1>2. ASSUME NEW i \in RuleIds, NEW f \in Folders, f \notin tangled, rules[i].f = f, Sorting!Holders(f) = {}
      PROVE  smart[f] = [from |-> rules[i].from, rule |-> i]
  <2>1. smart[f].from = rules[i].from /\ smart[f].rule = i
    BY <1>2 DEF FolderInv, FollowsFolders, Settled, Into, Sorting!Holders
  <2>2. smart[f] \in FolderDoc
    BY <2>1, RuleNumbers, NothingHeld DEF FolderInv, FolderTypes
  <2> QED BY <2>1, <2>2 DEF FolderDoc
<1> QED BY <1>1, <1>2 DEF Sorting!RulesFollowFoldersUnlessTangled, RuleIds

\* email.poll.ts and the smart folders, for any messages, rounds at once, folders and rules:
\* what the account's stamp has passed is announced unless no round could have seen it, twice
\* only where rounds overlapped or one was cut short before its stamp, and once nobody is at
\* work on a folder Outlook's rule for it is the one its document names, unless a call failed
\* or two requests met on it.
THEOREM MailboxKeepsItsWord == WorkspaceSpec => []MailboxHolds
<1>1. WorkspaceInit => MailInv /\ FolderInv
  BY MailBegins, FoldersBegin
<1>2. MailInv /\ FolderInv /\ [WorkspaceNext]_<<part, access, posting, signing, mailbox, sorting, places, pushing>> => MailInv' /\ FolderInv'
  BY MailStays, FoldersStay
<1>3. MailInv /\ FolderInv => MailboxHolds
  BY MailShows, FoldersShow DEF MailboxHolds
<1> QED BY <1>1, <1>2, <1>3, PTL DEF WorkspaceSpec

-----------------------------------------------------------------------------
(* How phones are reached. *)

Steps       == {"rest", "mutes", "read", "send", "expo", "done"}
SenderState == [pc : Steps, left : SUBSET Phones, sent : Nat]
TokenRows        == [Phones -> Owners \cup {"none"}]
Ways        == {"fcm", "voip"} \X Phones

PushTypes ==
  /\ user \in [Phones -> Owners] /\ live \subseteq Phones
  /\ fcmRows \in TokenRows /\ voipRows \in TokenRows /\ expoRows \in TokenRows
  /\ firebase \subseteq Phones
  /\ \A p \in Phones : /\ voipRows[p] # "none" => p \in CallKit
                       /\ fcmRows[p] # "none" => p \in firebase
  /\ sender \in [Pushing!Senders -> SenderState]
  /\ \A s \in Pushing!Senders : sender[s].pc = "rest" => sender[s] = Pushing!Rest
  /\ \A s \in Pushing!Senders : /\ sender[s].left # {} => sender[s].pc = "send"
                                /\ sender[s].pc \in {"mutes", "expo"} => s = "chat"
  /\ pruning \subseteq Ways
  /\ call \in [stage : {"none", "offline", "rung"}, over : BOOLEAN, hasVoip : BOOLEAN]
  /\ hushed \subseteq {"blocks", "mutes"} /\ rethought \in BOOLEAN
  /\ rung \in [Phones -> SUBSET {"expo", "ringVoip", "ringFcm"}]
  /\ rings \subseteq Phones /\ unsteady \subseteq Phones /\ belated \subseteq Phones

\* A phone that nothing happened to has its tokens, and they are its person's.
Steady(p) ==
  p \notin unsteady =>
    /\ user[p] = Callee /\ expoRows[p] = Callee
    /\ p \in firebase => fcmRows[p] = Callee
    /\ p \in CallKit => voipRows[p] = Callee
    /\ <<"fcm", p>> \notin pruning /\ <<"voip", p>> \notin pruning

\* Who sends was asked to, of those and no others, and says so.
Working(s) == sender[s].pc \notin {"rest", "done"}

AskedFor ==
  /\ Working("ringFcm") => keys.fcm /\ call.stage = "rung"
  /\ Working("ringVoip") => keys.voip /\ call.hasVoip
  /\ call.stage = "none" => ~call.hasVoip /\ rings = {} /\ \A p \in Phones : rung[p] = {}
  /\ call.stage # "rung" =>
       /\ ~call.hasVoip /\ (call.stage = "offline" => ~keys.fcm)
       /\ \A s \in Pushing!Rings : ~Working(s)
       /\ \A p \in Phones : rung[p] = {}
  /\ call.stage = "rung" /\ keys.fcm => sender["ringFcm"].pc # "rest"
  /\ call.hasVoip => sender["ringVoip"].pc # "rest"
  /\ \A s \in Pushing!Senders : s # "chat" /\ sender[s].pc = "done" => unsteady = Phones

\* The VoIP push is for CallKit builds, and the alert for other phones with Firebase if there is one.
Aimed(s, p) == IF s = "ringVoip" THEN call.hasVoip /\ p \in CallKit
               ELSE p \in firebase /\ ~(call.hasVoip /\ p \in Pushing!NamedIos)

AimedOnly ==
  \A s \in Pushing!Rings, p \in Phones :
    /\ p \in sender[s].left => Aimed(s, p)
    /\ s \in rung[p] => Aimed(s, p) /\ "expo" \notin rung[p]

ExpoAlone == \A p \in Phones : "expo" \in rung[p] => \A s \in Pushing!Rings : ~Working(s)

RungOrLeft(p) ==
  p \notin unsteady =>
    \A s \in Pushing!Rings : sender[s].pc = "send" /\ Aimed(s, p) => p \in sender[s].left \/ s \in rung[p]

\* What rings on a phone came over a transport whose cancellations will find it.
Cancelled(s, p) == IF s = "cancelVoip" THEN keys.voip /\ p \in CallKit ELSE keys.fcm /\ p \in firebase

ToBeCancelled(p) ==
  p \in rings =>
    /\ \E s \in Pushing!Cancels : Cancelled(s, p)
    /\ call.over /\ p \notin unsteady \cup belated =>
         \E s \in Pushing!Cancels : /\ Cancelled(s, p)
                                   /\ \/ sender[s].pc = "read"
                                      \/ sender[s].pc = "send" /\ p \in sender[s].left

\* A message on its way is from somebody heard, and over Firebase or Expo.
Heard ==
  /\ sender["chat"].pc = "rest" => reached = {}
  /\ ~rethought => /\ sender["chat"].pc = "mutes" => "blocks" \notin hushed
                   /\ (sender["chat"].pc \in {"read", "send", "expo"} \/ reached # {}) => hushed = {}

OneTransport ==
  /\ sender["chat"].pc \in {"mutes", "read"} => reached = {}
  /\ sender["chat"].pc \in {"send", "expo"} => \A p \in Phones : <<"expo", p>> \notin reached
  /\ sender["chat"].pc = "expo" \/ (sender["chat"].pc = "send" /\ sender["chat"].sent = 0) =>
       \A p \in Phones : <<"fcm", p>> \notin reached
  /\ \A p, q \in Phones : ~(<<"fcm", p>> \in reached /\ <<"expo", q>> \in reached)

Delivered(p) ==
  p \in firebase \ unsteady /\ keys.fcm =>
    /\ sender["chat"].pc = "send" => p \in sender["chat"].left \/ <<"fcm", p>> \in reached
    /\ sender["chat"].pc = "expo" => <<"fcm", p>> \in reached
    /\ sender["chat"].pc = "done" /\ hushed = {} /\ ~rethought => <<"fcm", p>> \in reached

PushInv ==
  /\ PushTypes /\ AskedFor /\ AimedOnly /\ ExpoAlone /\ Heard /\ OneTransport
  /\ \A p \in Phones : Steady(p) /\ RungOrLeft(p) /\ ToBeCancelled(p) /\ Delivered(p)

LEMMA SenderNames ==
  /\ Pushing!Rings = {"ringVoip", "ringFcm"} /\ Pushing!Cancels = {"cancelVoip", "cancelFcm"}
  /\ Pushing!Senders = {"ringVoip", "ringFcm", "cancelVoip", "cancelFcm", "chat"}
BY DEF Pushing!Senders, Pushing!Rings, Pushing!Cancels

LEMMA AtRest ==
  /\ Pushing!Rest \in SenderState /\ Pushing!Rest.pc = "rest" /\ Pushing!Rest.left = {} /\ Pushing!Rest.sent = 0
  /\ Pushing!Done \in SenderState /\ Pushing!Done.pc = "done" /\ Pushing!Done.left = {} /\ Pushing!Done.sent = 0
  /\ Pushing!Read \in SenderState /\ Pushing!Read.pc = "read" /\ Pushing!Read.left = {} /\ Pushing!Read.sent = 0
BY DEF Pushing!Rest, Pushing!Done, Pushing!Read, SenderState, Steps

LEMMA SenderFields ==
  ASSUME PushTypes, NEW s \in Pushing!Senders
  PROVE  /\ sender[s] \in SenderState /\ sender[s].pc \in Steps /\ sender[s].left \subseteq Phones /\ sender[s].sent \in Nat
         /\ sender[s].pc = "rest" => sender[s] = Pushing!Rest
         /\ sender[s].left # {} => sender[s].pc = "send"
         /\ sender[s].pc \in {"mutes", "expo"} => s = "chat"
<1>1. sender[s] \in SenderState
  BY DEF PushTypes
<1> QED BY <1>1 DEF PushTypes, SenderState

\* A step that changes one sender.
SenderOf(s, x) == sender' \in [Pushing!Senders -> SenderState] /\ sender'[s] = x /\ \A t \in Pushing!Senders : t # s => sender'[t] = sender[t]

LEMMA SenderUpdate ==
  ASSUME PushTypes, NEW s \in Pushing!Senders, NEW x \in SenderState, sender' = [sender EXCEPT ![s] = x],
         x.pc # "rest", x.left # {} => x.pc = "send", x.pc \in {"mutes", "expo"} => s = "chat"
  PROVE  /\ SenderOf(s, x)
         /\ \A t \in Pushing!Senders : /\ sender'[t].pc = "rest" => sender'[t] = Pushing!Rest
                                       /\ sender'[t].left # {} => sender'[t].pc = "send"
                                       /\ sender'[t].pc \in {"mutes", "expo"} => t = "chat"
<1>1. SenderOf(s, x)
  BY DEF PushTypes, SenderOf
<1> QED BY <1>1 DEF PushTypes, SenderOf

-----------------------------------------------------------------------------
(* Phones and their tokens. *)

\* Steps on phones: what senders have left to do, and what they did, stays.
LEMMA SendersRest ==
  ASSUME PushInv, UNCHANGED <<keys, firebase, sender, call, rung, rings, reached, belated, hushed, rethought>>,
         unsteady \subseteq unsteady', unsteady' \subseteq Phones
  PROVE  /\ AskedFor' /\ AimedOnly' /\ ExpoAlone' /\ Heard' /\ OneTransport'
         /\ \A p \in Phones : RungOrLeft(p)' /\ ToBeCancelled(p)' /\ Delivered(p)'
<1>1. AskedFor'
  BY DEF PushInv, AskedFor, Working
<1>2. \A s, p : Aimed(s, p)' = Aimed(s, p)
  BY DEF Aimed
<1>3. AimedOnly' /\ ExpoAlone'
  BY <1>2 DEF PushInv, AimedOnly, ExpoAlone, Working
<1>4. Heard' /\ OneTransport'
  BY DEF PushInv, Heard, OneTransport
<1>5. ASSUME NEW p \in Phones
      PROVE  RungOrLeft(p)' /\ ToBeCancelled(p)' /\ Delivered(p)'
  <2>1. RungOrLeft(p)'
    BY <1>2 DEF PushInv, RungOrLeft
  <2>2. \A s : Cancelled(s, p)' = Cancelled(s, p)
    BY DEF Cancelled
  <2>3. ToBeCancelled(p)'
    BY <2>2 DEF PushInv, ToBeCancelled
  <2>4. Delivered(p)'
    BY DEF PushInv, Delivered
  <2> QED BY <2>1, <2>3, <2>4
<1> QED BY <1>1, <1>3, <1>4, <1>5

\* And what a step on a phone may do to it.
LEMMA PhonesStay ==
  ASSUME PushInv, NEW p \in Phones,
         UNCHANGED <<keys, firebase, sender, call, rung, rings, reached, belated, hushed, rethought>>,
         unsteady' \in {unsteady, unsteady \cup {p}},
         user' \in [Phones -> Owners], live' \subseteq Phones,
         fcmRows' \in TokenRows, voipRows' \in TokenRows, expoRows' \in TokenRows, pruning' \subseteq pruning,
         \A q \in Phones : /\ voipRows'[q] # "none" => q \in CallKit
                           /\ fcmRows'[q] # "none" => q \in firebase,
         \A q \in Phones : q # p => /\ user'[q] = user[q] /\ fcmRows'[q] = fcmRows[q]
                                  /\ voipRows'[q] = voipRows[q] /\ expoRows'[q] = expoRows[q],
         Steady(p)'
  PROVE  PushInv'
<1>1. PushTypes
  BY DEF PushInv
<1>2. unsteady \subseteq unsteady' /\ unsteady' \subseteq Phones
  BY <1>1 DEF PushTypes
<1>3. pruning' \subseteq Ways
  BY <1>1 DEF PushTypes
<1>4. PushTypes'
  BY <1>1, <1>2, <1>3 DEF PushTypes
<1>5. ASSUME NEW q \in Phones
      PROVE  Steady(q)'
  <2>1. CASE q = p
    BY <2>1
  <2>2. CASE q # p
    BY <1>2, <2>2 DEF PushInv, Steady
  <2> QED BY <2>1, <2>2
<1> QED BY <1>2, <1>4, <1>5, SendersRest DEF PushInv

LEMMA SignInStays == ASSUME PushInv, NEW p \in Phones, NEW u \in Owners, Pushing!SignIn(p, u) PROVE PushInv'
<1>1. /\ user' = [user EXCEPT ![p] = u] /\ live' = live \cup {p} /\ unsteady' = unsteady \cup {p}
      /\ UNCHANGED <<keys, firebase, sender, call, rung, rings, reached, belated, hushed, rethought>>
      /\ UNCHANGED <<fcmRows, voipRows, expoRows, pruning>>
  BY DEF Pushing!SignIn, Pushing!Sees
<1>2. PushTypes
  BY DEF PushInv
<1>3. user' \in [Phones -> Owners] /\ \A q \in Phones : q # p => user'[q] = user[q]
  BY <1>1, <1>2 DEF PushTypes
<1>4. Steady(p)'
  BY <1>1 DEF Steady
<1>5. live' \subseteq Phones
  BY <1>1, <1>2 DEF PushTypes
<1> QED BY <1>1, <1>2, <1>3, <1>4, <1>5, PhonesStay DEF PushTypes

LEMMA RemoveAppStays == ASSUME PushInv, NEW p \in Phones, Pushing!RemoveApp(p) PROVE PushInv'
<1>1. /\ live' = live \ {p} /\ unsteady' = unsteady \cup {p}
      /\ UNCHANGED <<keys, firebase, sender, call, rung, rings, reached, belated, hushed, rethought>>
      /\ UNCHANGED <<user, fcmRows, voipRows, expoRows, pruning>>
  BY DEF Pushing!RemoveApp, Pushing!Sees
<1>2. PushTypes
  BY DEF PushInv
<1>3. Steady(p)'
  BY <1>1 DEF Steady
<1>4. live' \subseteq Phones
  BY <1>1, <1>2 DEF PushTypes
<1> QED BY <1>1, <1>2, <1>3, <1>4, PhonesStay DEF PushTypes

LEMMA RegisterStays ==
  ASSUME PushInv, NEW p \in Phones, Pushing!registerDevice(p) \/ Pushing!registerFcm(p) \/ Pushing!registerVoip(p)
  PROVE  PushInv'
<1>1. /\ UNCHANGED <<keys, firebase, sender, call, rung, rings, reached, belated, hushed, rethought>>
      /\ UNCHANGED <<user, live, unsteady, pruning>>
  BY DEF Pushing!registerDevice, Pushing!registerFcm, Pushing!registerVoip, Pushing!Sees
<1>2. PushTypes /\ Steady(p)
  BY DEF PushInv
<1>3. user[p] \in Owners \cup {"none"} /\ user \in [Phones -> Owners] /\ live \subseteq Phones
      /\ fcmRows \in TokenRows /\ voipRows \in TokenRows /\ expoRows \in TokenRows
  BY <1>2 DEF PushTypes
<1>4. ASSUME Pushing!registerDevice(p)
      PROVE  PushInv'
  <2>1. expoRows' = [expoRows EXCEPT ![p] = user[p]] /\ UNCHANGED <<fcmRows, voipRows>>
    BY <1>4 DEF Pushing!registerDevice
  <2>2. expoRows' \in TokenRows /\ expoRows'[p] = user[p] /\ \A q \in Phones : q # p => expoRows'[q] = expoRows[q]
    BY <1>3, <2>1 DEF TokenRows
  <2>3. Steady(p)'
    BY <1>1, <1>2, <2>1, <2>2 DEF Steady
  <2> QED BY <1>1, <1>2, <1>3, <2>1, <2>2, <2>3, PhonesStay DEF PushTypes
<1>5. ASSUME Pushing!registerFcm(p)
      PROVE  PushInv'
  <2>1. p \in firebase /\ fcmRows' = [fcmRows EXCEPT ![p] = user[p]] /\ UNCHANGED <<expoRows, voipRows>>
    BY <1>5 DEF Pushing!registerFcm
  <2>2. fcmRows' \in TokenRows /\ fcmRows'[p] = user[p] /\ \A q \in Phones : q # p => fcmRows'[q] = fcmRows[q]
    BY <1>3, <2>1 DEF TokenRows
  <2>3. Steady(p)'
    BY <1>1, <1>2, <2>1, <2>2 DEF Steady
  <2>4. \A q \in Phones : /\ voipRows'[q] # "none" => q \in CallKit
                          /\ fcmRows'[q] # "none" => q \in firebase
    BY <1>2, <2>1, <2>2 DEF PushTypes
  <2> QED BY <1>1, <1>2, <1>3, <2>1, <2>2, <2>3, <2>4, PhonesStay
<1>6. ASSUME Pushing!registerVoip(p)
      PROVE  PushInv'
  <2>1. p \in CallKit /\ voipRows' = [voipRows EXCEPT ![p] = user[p]] /\ UNCHANGED <<expoRows, fcmRows>>
    BY <1>6 DEF Pushing!registerVoip
  <2>2. voipRows' \in TokenRows /\ voipRows'[p] = user[p] /\ \A q \in Phones : q # p => voipRows'[q] = voipRows[q]
    BY <1>3, <2>1 DEF TokenRows
  <2>3. Steady(p)'
    BY <1>1, <1>2, <2>1, <2>2 DEF Steady
  <2>4. \A q \in Phones : /\ voipRows'[q] # "none" => q \in CallKit
                          /\ fcmRows'[q] # "none" => q \in firebase
    BY <1>2, <2>1, <2>2 DEF PushTypes
  <2> QED BY <1>1, <1>2, <1>3, <2>1, <2>2, <2>3, <2>4, PhonesStay
<1> QED BY <1>4, <1>5, <1>6

LEMMA RemoveStays ==
  ASSUME PushInv, NEW p \in Phones, Pushing!removeByToken(p) \/ Pushing!remove(p)
  PROVE  PushInv'
<1>1. /\ UNCHANGED <<keys, firebase, sender, call, rung, rings, reached, belated, hushed, rethought>>
      /\ UNCHANGED <<user, live, unsteady, expoRows>> /\ pruning' \subseteq pruning
      /\ <<"fcm", p>> \in pruning \/ <<"voip", p>> \in pruning
      /\ fcmRows' \in {fcmRows, [fcmRows EXCEPT ![p] = "none"]}
      /\ voipRows' \in {voipRows, [voipRows EXCEPT ![p] = "none"]}
  BY DEF Pushing!removeByToken, Pushing!remove, Pushing!Sees, Pushing!None
<1>2. PushTypes /\ Steady(p)
  BY DEF PushInv
<1>3. Steady(p)'
  BY <1>1, <1>2 DEF Steady
<1>4. /\ fcmRows' \in TokenRows /\ \A q \in Phones : q # p => fcmRows'[q] = fcmRows[q]
      /\ voipRows' \in TokenRows /\ \A q \in Phones : q # p => voipRows'[q] = voipRows[q]
      /\ voipRows'[p] \in {voipRows[p], "none"} /\ fcmRows'[p] \in {fcmRows[p], "none"}
  BY <1>1, <1>2 DEF PushTypes, TokenRows
<1>5. \A q \in Phones : /\ voipRows'[q] # "none" => q \in CallKit
                        /\ fcmRows'[q] # "none" => q \in firebase
  BY <1>2, <1>4 DEF PushTypes
<1> QED BY <1>1, <1>2, <1>3, <1>4, <1>5, PhonesStay DEF PushTypes

-----------------------------------------------------------------------------
(* Sending. *)

LEMMA SendsDoes ==
  ASSUME PushInv, NEW s \in Pushing!Senders, NEW p \in Phones, NEW via \in {"fcm", "voip"}, NEW r,
         Pushing!Sends(s, p, via, r)
  PROVE  /\ sender[s].pc = "send" /\ p \in sender[s].left
         /\ sender' \in [Pushing!Senders -> SenderState] /\ \A t \in Pushing!Senders : t # s => sender'[t] = sender[t]
         /\ sender'[s].pc = "send" /\ sender'[s].left = sender[s].left \ {p}
         /\ r = "taken" => sender'[s].sent # 0
         /\ r # "taken" => sender'[s].sent = sender[s].sent /\ p \in unsteady'
         /\ r = "taken" => unsteady' = unsteady
         /\ unsteady \subseteq unsteady' /\ unsteady' \subseteq Phones
         /\ \A q \in Phones : q # p => (q \in unsteady' <=> q \in unsteady)
         /\ \A q \in Phones : Steady(q)'
         /\ UNCHANGED <<keys, firebase, user, live, fcmRows, voipRows, expoRows, production, hushed, rethought>>
         /\ \A t \in Pushing!Senders : /\ sender'[t].pc = "rest" => sender'[t] = Pushing!Rest
                                       /\ sender'[t].left # {} => sender'[t].pc = "send"
                                       /\ sender'[t].pc \in {"mutes", "expo"} => t = "chat"
         /\ pruning' \subseteq Ways
<1>1. /\ sender[s].pc = "send" /\ p \in sender[s].left
      /\ sender' = [sender EXCEPT ![s].left = @ \ {p}, ![s].sent = IF r = "taken" THEN @ + 1 ELSE @]
      /\ pruning' = IF r = "gone" THEN pruning \cup {<<via, p>>} ELSE pruning
      /\ unsteady' = IF r = "taken" THEN unsteady ELSE unsteady \cup {p}
      /\ UNCHANGED <<keys, firebase, user, live, fcmRows, voipRows, expoRows, production, hushed, rethought>>
  BY DEF Pushing!Sends
<1>2. PushTypes /\ sender[s] \in SenderState /\ sender[s].sent \in Nat
  BY SenderFields DEF PushInv
<1>3. sender \in [Pushing!Senders -> SenderState]
  BY <1>2 DEF PushTypes
<1>4. /\ sender' \in [Pushing!Senders -> SenderState] /\ \A t \in Pushing!Senders : t # s => sender'[t] = sender[t]
      /\ sender'[s].pc = "send" /\ sender'[s].left = sender[s].left \ {p}
      /\ r = "taken" => sender'[s].sent # 0
      /\ r # "taken" => sender'[s].sent = sender[s].sent
  <2>1. CASE r = "taken"
    BY <1>1, <1>2, <1>3, <2>1 DEF SenderState
  <2>2. CASE r # "taken"
    BY <1>1, <1>2, <1>3, <2>2 DEF SenderState
  <2> QED BY <2>1, <2>2
<1>6. \A t \in Pushing!Senders : /\ sender'[t].pc = "rest" => sender'[t] = Pushing!Rest
                                 /\ sender'[t].left # {} => sender'[t].pc = "send"
                                 /\ sender'[t].pc \in {"mutes", "expo"} => t = "chat"
  BY <1>2, <1>4 DEF PushTypes
<1>7. unsteady \subseteq unsteady' /\ unsteady' \subseteq Phones /\ \A q \in Phones : q # p => (q \in unsteady' <=> q \in unsteady)
  BY <1>1, <1>2 DEF PushTypes
<1>8. ASSUME NEW q \in Phones
      PROVE  Steady(q)'
  <2>1. Steady(q)
    BY DEF PushInv
  <2>2. r = "gone" => r # "taken"
    OBVIOUS
  <2>3. CASE r = "gone"
    BY <1>1, <1>7, <2>1, <2>2, <2>3 DEF Steady
  <2>4. CASE r # "gone"
    BY <1>1, <1>7, <2>1, <2>4 DEF Steady
  <2> QED BY <2>3, <2>4
<1>9. pruning' \subseteq Ways
  BY <1>1, <1>2 DEF PushTypes, Ways
<1>10. /\ sender[s].pc = "send" /\ p \in sender[s].left
       /\ r # "taken" => p \in unsteady'
       /\ r = "taken" => unsteady' = unsteady
       /\ UNCHANGED <<keys, firebase, user, live, fcmRows, voipRows, expoRows, production, hushed, rethought>>
  BY <1>1
<1> QED BY <1>4, <1>6, <1>7, <1>8, <1>9, <1>10

LEMMA RingStays ==
  ASSUME PushInv, NEW s \in Pushing!Senders, NEW p \in Phones, Pushing!sendIncomingCall(s, p)
  PROVE  PushInv'
<1>0. PICK r :
        /\ s \in Pushing!Rings /\ Pushing!Sends(s, p, IF s = "ringVoip" THEN "voip" ELSE "fcm", r)
        /\ rung' = IF r = "taken" THEN [rung EXCEPT ![p] = @ \cup {s}] ELSE rung
        /\ rings' = IF r = "taken" THEN rings \cup {p} ELSE rings
        /\ belated' = IF r = "taken" /\ call.over THEN belated \cup {p} ELSE belated
        /\ UNCHANGED <<call, reached>>
  BY ZenonT(30) DEF Pushing!sendIncomingCall
<1>1. PICK via \in {"fcm", "voip"} :
        /\ s \in Pushing!Rings /\ Pushing!Sends(s, p, via, r)
        /\ rung' = IF r = "taken" THEN [rung EXCEPT ![p] = @ \cup {s}] ELSE rung
        /\ rings' = IF r = "taken" THEN rings \cup {p} ELSE rings
        /\ belated' = IF r = "taken" /\ call.over THEN belated \cup {p} ELSE belated
        /\ UNCHANGED <<call, reached>>
  <2>1. PICK via \in {"fcm", "voip"} : via = IF s = "ringVoip" THEN "voip" ELSE "fcm"
    OBVIOUS
  <2> QED BY <1>0, <2>1
<1>2. /\ sender[s].pc = "send" /\ p \in sender[s].left
      /\ sender' \in [Pushing!Senders -> SenderState] /\ \A t \in Pushing!Senders : t # s => sender'[t] = sender[t]
      /\ sender'[s].pc = "send" /\ sender'[s].left = sender[s].left \ {p}
  BY <1>1, SendsDoes
<1>3. /\ r # "taken" => p \in unsteady'
      /\ r = "taken" => unsteady' = unsteady
      /\ unsteady \subseteq unsteady' /\ unsteady' \subseteq Phones
      /\ \A q \in Phones : q # p => (q \in unsteady' <=> q \in unsteady)
  BY <1>1, SendsDoes
<1>4. /\ \A q \in Phones : Steady(q)'
      /\ UNCHANGED <<keys, firebase, user, live, fcmRows, voipRows, expoRows, hushed, rethought>>
      /\ \A t \in Pushing!Senders : /\ sender'[t].pc = "rest" => sender'[t] = Pushing!Rest
                                    /\ sender'[t].left # {} => sender'[t].pc = "send"
                                    /\ sender'[t].pc \in {"mutes", "expo"} => t = "chat"
      /\ pruning' \subseteq Ways
  BY <1>1, SendsDoes
<1>5. PushTypes /\ s \in {"ringVoip", "ringFcm"} /\ sender'["chat"] = sender["chat"]
      /\ \A c \in Pushing!Cancels : sender'[c] = sender[c]
  BY <1>1, <1>2, SenderNames DEF PushInv
<1>6. /\ rung' \in [Phones -> SUBSET {"expo", "ringVoip", "ringFcm"}]
      /\ rung'[p] \in {rung[p], rung[p] \cup {s}} /\ (r = "taken" => s \in rung'[p])
      /\ \A q \in Phones : q # p => rung'[q] = rung[q]
  BY <1>1, <1>5 DEF PushTypes
<1>7. PushTypes'
  <2>1. rings' \subseteq Phones /\ belated' \subseteq Phones
    BY <1>1, <1>5 DEF PushTypes
  <2> QED BY <1>1, <1>2, <1>3, <1>4, <1>5, <1>6, <2>1 DEF PushTypes
<1>8. \A t \in Pushing!Senders : Working(t)' = Working(t) /\ sender'[t].pc = sender[t].pc
  BY <1>2 DEF Working
<1>9. Working(s) /\ call.stage = "rung" /\ Aimed(s, p)
  BY <1>1, <1>2 DEF PushInv, AskedFor, Working, AimedOnly
<1>10. AskedFor'
  <2>1. \A t \in Pushing!Senders : t # "chat" /\ sender'[t].pc = "done" => unsteady' = Phones
    BY <1>3, <1>8 DEF PushInv, AskedFor
  <2> QED BY <1>1, <1>4, <1>8, <1>9, <2>1, SenderNames DEF PushInv, AskedFor
<1>11. \A t, q : Aimed(t, q)' = Aimed(t, q)
  BY <1>1, <1>4 DEF Aimed
<1>12. "expo" \notin rung[p]
  BY <1>1, <1>9 DEF PushInv, ExpoAlone
<1>13. AimedOnly'
  <2>1. ASSUME NEW t \in Pushing!Rings, NEW q \in Phones, q \in sender'[t].left
        PROVE  Aimed(t, q)
    <3>1. q \in sender[t].left
      BY <1>2, <2>1, SenderNames
    <3> QED BY <2>1, <3>1 DEF PushInv, AimedOnly
  <2>2. ASSUME NEW t \in Pushing!Rings, NEW q \in Phones, t \in rung'[q]
        PROVE  Aimed(t, q) /\ "expo" \notin rung'[q]
    <3>1. CASE q # p
      BY <1>6, <2>2, <3>1 DEF PushInv, AimedOnly
    <3>2. CASE q = p
      BY <1>1, <1>5, <1>6, <1>9, <1>12, <2>2, <3>2 DEF PushInv, AimedOnly
    <3> QED BY <3>1, <3>2
  <2> QED BY <1>11, <2>1, <2>2 DEF AimedOnly
<1>14. ExpoAlone'
  <2>1. \A q \in Phones : "expo" \notin rung[q]
    BY <1>1, <1>9 DEF PushInv, ExpoAlone
  <2>2. \A q \in Phones : "expo" \notin rung'[q]
    BY <1>5, <1>6, <2>1
  <2> QED BY <2>2 DEF ExpoAlone
<1>15. Heard' /\ OneTransport'
  BY <1>1, <1>4, <1>5 DEF PushInv, Heard, OneTransport
<1>16. ASSUME NEW q \in Phones
       PROVE  RungOrLeft(q)'
  <2> SUFFICES ASSUME q \notin unsteady', NEW t \in Pushing!Rings, sender'[t].pc = "send", Aimed(t, q)
               PROVE  q \in sender'[t].left \/ t \in rung'[q]
    BY <1>11 DEF RungOrLeft
  <2>1. q \in sender[t].left \/ t \in rung[q]
    BY <1>3, <1>8, SenderNames DEF PushInv, RungOrLeft
  <2>2. CASE q = p /\ t = s
    BY <1>3, <1>6, <2>2
  <2>3. CASE q # p \/ t # s
    BY <1>2, <1>6, <2>1, <2>3, SenderNames
  <2> QED BY <2>2, <2>3
<1>17. ASSUME NEW q \in Phones
       PROVE  ToBeCancelled(q)'
  <2>1. \A c : Cancelled(c, q)' = Cancelled(c, q)
    BY <1>4 DEF Cancelled
  <2>2. CASE q # p \/ r # "taken"
    <3>1. /\ q \in rings' => q \in rings
          /\ q \notin unsteady' \cup belated' => q \notin unsteady \cup belated
      BY <1>1, <1>3, <2>2
    <3> QED BY <1>1, <1>5, <2>1, <3>1 DEF PushInv, ToBeCancelled
  <2>3. CASE q = p /\ r = "taken"
    <3>1. call.over => q \in belated'
      BY <1>1, <2>3
    <3>2. \E c \in Pushing!Cancels : Cancelled(c, p)
      <4>1. CASE s = "ringVoip"
        <5>1. keys.voip /\ p \in CallKit
          BY <1>9, <4>1 DEF PushInv, AskedFor, Aimed
        <5> QED BY <5>1, SenderNames DEF Cancelled
      <4>2. CASE s = "ringFcm"
        <5>1. keys.fcm /\ p \in firebase
          BY <1>9, <4>2 DEF PushInv, AskedFor, Aimed
        <5> QED BY <5>1, SenderNames DEF Cancelled
      <4> QED BY <1>5, <4>1, <4>2
    <3> QED BY <1>1, <2>1, <2>3, <3>1, <3>2 DEF ToBeCancelled
  <2> QED BY <2>2, <2>3
<1>18. ASSUME NEW q \in Phones
       PROVE  Delivered(q)'
  BY <1>1, <1>3, <1>4, <1>5 DEF PushInv, Delivered
<1> QED BY <1>4, <1>7, <1>10, <1>13, <1>14, <1>15, <1>16, <1>17, <1>18 DEF PushInv

LEMMA CancelStays ==
  ASSUME PushInv, NEW s \in Pushing!Senders, NEW p \in Phones, Pushing!sendCancel(s, p)
  PROVE  PushInv'
<1>0. PICK r :
        /\ s \in Pushing!Cancels /\ Pushing!Sends(s, p, IF s = "cancelVoip" THEN "voip" ELSE "fcm", r)
        /\ rings' = IF r = "taken" THEN rings \ {p} ELSE rings
        /\ UNCHANGED <<call, rung, reached, belated>>
  BY ZenonT(30) DEF Pushing!sendCancel
<1>1. PICK via \in {"fcm", "voip"} :
        /\ s \in Pushing!Cancels /\ Pushing!Sends(s, p, via, r)
        /\ rings' = IF r = "taken" THEN rings \ {p} ELSE rings
        /\ UNCHANGED <<call, rung, reached, belated>>
  <2>1. PICK via \in {"fcm", "voip"} : via = IF s = "cancelVoip" THEN "voip" ELSE "fcm"
    OBVIOUS
  <2> QED BY <1>0, <2>1
<1>2. /\ sender[s].pc = "send" /\ p \in sender[s].left
      /\ sender' \in [Pushing!Senders -> SenderState] /\ \A t \in Pushing!Senders : t # s => sender'[t] = sender[t]
      /\ sender'[s].pc = "send" /\ sender'[s].left = sender[s].left \ {p}
  BY <1>1, SendsDoes
<1>3. /\ r # "taken" => p \in unsteady'
      /\ unsteady \subseteq unsteady' /\ unsteady' \subseteq Phones
  BY <1>1, SendsDoes
<1>4. /\ \A q \in Phones : Steady(q)'
      /\ UNCHANGED <<keys, firebase, user, live, fcmRows, voipRows, expoRows, hushed, rethought>>
      /\ \A t \in Pushing!Senders : /\ sender'[t].pc = "rest" => sender'[t] = Pushing!Rest
                                    /\ sender'[t].left # {} => sender'[t].pc = "send"
                                    /\ sender'[t].pc \in {"mutes", "expo"} => t = "chat"
      /\ pruning' \subseteq Ways
  BY <1>1, SendsDoes
<1>5. PushTypes /\ s \in {"cancelVoip", "cancelFcm"} /\ sender'["chat"] = sender["chat"]
      /\ \A c \in Pushing!Rings : sender'[c] = sender[c]
  BY <1>1, <1>2, SenderNames DEF PushInv
<1>6. rings' \subseteq rings /\ (r = "taken" => p \notin rings')
  BY <1>1
<1>7. PushTypes'
  BY <1>1, <1>2, <1>3, <1>4, <1>5, <1>6 DEF PushTypes
<1>8. \A t \in Pushing!Senders : Working(t)' = Working(t) /\ sender'[t].pc = sender[t].pc
  BY <1>2 DEF Working
<1>9. AskedFor'
  <2>1. \A t \in Pushing!Senders : t # "chat" /\ sender'[t].pc = "done" => unsteady' = Phones
    BY <1>3, <1>8 DEF PushInv, AskedFor
  <2>2. rings = {} => rings' = {}
    BY <1>6
  <2> QED BY <1>1, <1>4, <1>8, <2>1, <2>2, SenderNames DEF PushInv, AskedFor
<1>10. \A t, q : Aimed(t, q)' = Aimed(t, q)
  BY <1>1, <1>4 DEF Aimed
<1>11. AimedOnly' /\ ExpoAlone'
  BY <1>1, <1>5, <1>8, <1>10, SenderNames DEF PushInv, AimedOnly, ExpoAlone
<1>12. Heard' /\ OneTransport'
  BY <1>1, <1>4, <1>5 DEF PushInv, Heard, OneTransport
<1>13. ASSUME NEW q \in Phones
       PROVE  RungOrLeft(q)' /\ Delivered(q)'
  <2>1. RungOrLeft(q)'
    BY <1>1, <1>3, <1>5, <1>10 DEF PushInv, RungOrLeft
  <2>2. Delivered(q)'
    BY <1>1, <1>3, <1>4, <1>5 DEF PushInv, Delivered
  <2> QED BY <2>1, <2>2
<1>14. ASSUME NEW q \in Phones
       PROVE  ToBeCancelled(q)'
  <2>1. \A c : Cancelled(c, q)' = Cancelled(c, q)
    BY <1>4 DEF Cancelled
  <2>2. ToBeCancelled(q)
    BY DEF PushInv
  <2>3. CASE q # p
    <3>1. ASSUME NEW c \in Pushing!Cancels
          PROVE  /\ sender[c].pc = "read" => sender'[c].pc = "read"
                 /\ sender[c].pc = "send" /\ q \in sender[c].left => sender'[c].pc = "send" /\ q \in sender'[c].left
      BY <1>2, <1>8, <2>3, SenderNames
    <3> QED BY <1>1, <1>3, <1>6, <2>1, <2>2, <3>1 DEF ToBeCancelled
  <2>4. CASE q = p
    BY <1>1, <1>3, <1>6, <2>1, <2>2, <2>4 DEF ToBeCancelled
  <2> QED BY <2>3, <2>4
<1> QED BY <1>4, <1>7, <1>9, <1>11, <1>12, <1>13, <1>14 DEF PushInv

LEMMA NotifyStays ==
  ASSUME PushInv, NEW p \in Phones, Pushing!notifyNewMessage(p)
  PROVE  PushInv'
<1>1. PICK r :
        /\ Pushing!Sends("chat", p, "fcm", r)
        /\ reached' = IF r = "taken" THEN reached \cup {<<"fcm", p>>} ELSE reached
        /\ UNCHANGED <<call, rung, rings, belated>>
  BY DEF Pushing!notifyNewMessage
<1>0. "chat" \in Pushing!Senders
  BY SenderNames
<1>2. /\ sender["chat"].pc = "send" /\ p \in sender["chat"].left
      /\ sender' \in [Pushing!Senders -> SenderState] /\ \A t \in Pushing!Senders : t # "chat" => sender'[t] = sender[t]
      /\ sender'["chat"].pc = "send" /\ sender'["chat"].left = sender["chat"].left \ {p}
      /\ r = "taken" => sender'["chat"].sent # 0
      /\ r # "taken" => sender'["chat"].sent = sender["chat"].sent
  BY <1>0, <1>1, SendsDoes
<1>3. /\ r # "taken" => p \in unsteady'
      /\ unsteady \subseteq unsteady' /\ unsteady' \subseteq Phones
  BY <1>0, <1>1, SendsDoes
<1>4. /\ \A q \in Phones : Steady(q)'
      /\ UNCHANGED <<keys, firebase, user, live, fcmRows, voipRows, expoRows, hushed, rethought>>
      /\ \A t \in Pushing!Senders : /\ sender'[t].pc = "rest" => sender'[t] = Pushing!Rest
                                    /\ sender'[t].left # {} => sender'[t].pc = "send"
                                    /\ sender'[t].pc \in {"mutes", "expo"} => t = "chat"
      /\ pruning' \subseteq Ways
  BY <1>0, <1>1, SendsDoes
<1>5. PushTypes /\ \A c \in Pushing!Rings \cup Pushing!Cancels : sender'[c] = sender[c]
  BY <1>1, <1>2, SenderNames DEF PushInv
<1>6. PushTypes'
  BY <1>1, <1>2, <1>3, <1>4, <1>5 DEF PushTypes
<1>7. \A t \in Pushing!Senders : Working(t)' = Working(t) /\ sender'[t].pc = sender[t].pc
  BY <1>2 DEF Working
<1>8. AskedFor'
  <2>1. \A t \in Pushing!Senders : t # "chat" /\ sender'[t].pc = "done" => unsteady' = Phones
    BY <1>3, <1>7 DEF PushInv, AskedFor
  <2> QED BY <1>1, <1>4, <1>7, <2>1, SenderNames DEF PushInv, AskedFor
<1>9. \A t, q : Aimed(t, q)' = Aimed(t, q)
  BY <1>1, <1>4 DEF Aimed
<1>10. AimedOnly' /\ ExpoAlone'
  BY <1>1, <1>5, <1>7, <1>9, SenderNames DEF PushInv, AimedOnly, ExpoAlone
<1>11. Heard'
  BY <1>1, <1>2, <1>4 DEF PushInv, Heard
<1>12. OneTransport'
  <2>1. /\ \A q \in Phones : <<"expo", q>> \notin reached
        /\ sender["chat"].sent = 0 => \A q \in Phones : <<"fcm", q>> \notin reached
    BY <1>2 DEF PushInv, OneTransport
  <2>2. \A q \in Phones : <<"expo", q>> \notin reached'
    BY <1>1, <2>1
  <2>3. sender'["chat"].sent = 0 => \A q \in Phones : <<"fcm", q>> \notin reached'
    BY <1>1, <1>2, <2>1
  <2> QED BY <1>2, <2>2, <2>3 DEF OneTransport
<1>13. ASSUME NEW q \in Phones
       PROVE  RungOrLeft(q)' /\ ToBeCancelled(q)'
  <2>1. RungOrLeft(q)'
    BY <1>1, <1>3, <1>5, <1>9 DEF PushInv, RungOrLeft
  <2>2. \A c : Cancelled(c, q)' = Cancelled(c, q)
    BY <1>4 DEF Cancelled
  <2>3. ToBeCancelled(q)'
    BY <1>1, <1>3, <1>5, <2>2 DEF PushInv, ToBeCancelled
  <2> QED BY <2>1, <2>3
<1>14. ASSUME NEW q \in Phones
       PROVE  Delivered(q)'
  <2> SUFFICES ASSUME q \in firebase, q \notin unsteady', keys.fcm
               PROVE  q \in sender'["chat"].left \/ <<"fcm", q>> \in reached'
    BY <1>2, <1>4 DEF Delivered
  <2>1. q \in sender["chat"].left \/ <<"fcm", q>> \in reached
    BY <1>2, <1>3 DEF PushInv, Delivered
  <2> QED BY <1>1, <1>2, <1>3, <2>1
<1> QED BY <1>4, <1>6, <1>8, <1>10, <1>11, <1>12, <1>13, <1>14 DEF PushInv

-----------------------------------------------------------------------------
(* A message on its way. *)

\* A step of the message's sender leaves the call and the phones alone.
LEMMA ChatSteps ==
  ASSUME PushInv, NEW x \in SenderState, sender["chat"].pc \notin {"send"} \/ x.pc # "send",
         sender' = [sender EXCEPT !["chat"] = x], x.pc # "rest", x.left # {} => x.pc = "send",
         UNCHANGED <<keys, firebase, user, live, fcmRows, voipRows, expoRows, pruning, hushed, call, rung, rings, belated, rethought>>,
         unsteady \subseteq unsteady', unsteady' \subseteq Phones
  PROVE  /\ PushTypes' /\ AskedFor' /\ AimedOnly' /\ ExpoAlone' /\ sender'["chat"] = x
         /\ \A p \in Phones : Steady(p)' /\ RungOrLeft(p)' /\ ToBeCancelled(p)'
<1>1. PushTypes /\ "chat" \in Pushing!Senders
  BY SenderNames DEF PushInv
<1>2. /\ SenderOf("chat", x)
      /\ \A t \in Pushing!Senders : /\ sender'[t].pc = "rest" => sender'[t] = Pushing!Rest
                                    /\ sender'[t].left # {} => sender'[t].pc = "send"
                                    /\ sender'[t].pc \in {"mutes", "expo"} => t = "chat"
  BY <1>1, SenderUpdate
<1>3. PushTypes'
  BY <1>1, <1>2 DEF PushTypes, SenderOf
<1>4. \A t \in Pushing!Senders : t # "chat" => sender'[t] = sender[t] /\ Working(t)' = Working(t)
  BY <1>2 DEF SenderOf, Working
<1>5. AskedFor'
  <2>1. \A t \in Pushing!Senders : t # "chat" /\ sender'[t].pc = "done" => unsteady' = Phones
    BY <1>4 DEF PushInv, AskedFor
  <2> QED BY <1>4, <2>1, SenderNames DEF PushInv, AskedFor
<1>6. \A t, q : Aimed(t, q)' = Aimed(t, q)
  BY DEF Aimed
<1>7. AimedOnly' /\ ExpoAlone'
  BY <1>4, <1>6, SenderNames DEF PushInv, AimedOnly, ExpoAlone
<1>8. ASSUME NEW p \in Phones
      PROVE  Steady(p)' /\ RungOrLeft(p)' /\ ToBeCancelled(p)'
  <2>1. Steady(p)'
    BY DEF PushInv, Steady
  <2>2. RungOrLeft(p)'
    BY <1>4, <1>6, SenderNames DEF PushInv, RungOrLeft
  <2>3. \A c : Cancelled(c, p)' = Cancelled(c, p)
    BY DEF Cancelled
  <2>4. ToBeCancelled(p)'
    BY <1>4, <2>3, SenderNames DEF PushInv, ToBeCancelled
  <2> QED BY <2>1, <2>2, <2>4
<1> QED BY <1>2, <1>3, <1>5, <1>7, <1>8 DEF SenderOf

\* At(pc), step by step.
LEMMA AtDoes ==
  ASSUME PushInv, NEW pc \in Steps \ {"rest", "send"}, sender["chat"].left = {}, Pushing!At(pc),
         UNCHANGED <<keys, firebase, user, live, fcmRows, voipRows, expoRows, pruning, hushed, call, rung, rings, belated, rethought>>,
         unsteady \subseteq unsteady', unsteady' \subseteq Phones
  PROVE  /\ PushTypes' /\ AskedFor' /\ AimedOnly' /\ ExpoAlone' /\ sender'["chat"].pc = pc
         /\ \A p \in Phones : Steady(p)' /\ RungOrLeft(p)' /\ ToBeCancelled(p)'
<1>1. sender["chat"] \in SenderState
  BY SenderNames, SenderFields DEF PushInv
<1> DEFINE x == [sender["chat"] EXCEPT !.pc = pc]
<1>2. sender' = [sender EXCEPT !["chat"] = x]
  BY DEF Pushing!At
<1>3. x \in SenderState /\ x.pc = pc /\ x.left = {}
  BY <1>1 DEF SenderState
<1> HIDE DEF x
<1> QED BY <1>2, <1>3, ChatSteps

LEMMA BlockersStays == ASSUME PushInv, Pushing!blockers PROVE PushInv'
<1>1. /\ sender["chat"] = Pushing!Rest /\ Pushing!At(IF "blocks" \in hushed THEN "done" ELSE "mutes") /\ UNCHANGED reached
      /\ UNCHANGED <<keys, firebase, user, live, fcmRows, voipRows, expoRows, pruning, hushed, call, rung, rings, unsteady, belated, rethought>>
  BY DEF Pushing!blockers, Pushing!Idle, Pushing!ChatStep, Pushing!Still
<1>2. PICK pc \in {"done", "mutes"} : pc = IF "blocks" \in hushed THEN "done" ELSE "mutes"
  OBVIOUS
<1>3. sender["chat"].left = {} /\ sender["chat"].pc = "rest" /\ pc \in Steps \ {"rest", "send"}
  BY <1>1, AtRest DEF Steps
<1>4. /\ PushTypes' /\ AskedFor' /\ AimedOnly' /\ ExpoAlone' /\ sender'["chat"].pc = pc
      /\ \A p \in Phones : Steady(p)' /\ RungOrLeft(p)' /\ ToBeCancelled(p)'
  <2>1. unsteady \subseteq unsteady' /\ unsteady' \subseteq Phones
    BY <1>1 DEF PushInv, PushTypes
  <2> QED BY <1>1, <1>2, <1>3, <2>1, AtDoes
<1>5. reached = {}
  BY <1>3 DEF PushInv, Heard
<1>6. Heard' /\ OneTransport'
  BY <1>1, <1>2, <1>4, <1>5 DEF Heard, OneTransport
<1>7. ASSUME NEW p \in Phones
      PROVE  Delivered(p)'
  BY <1>1, <1>2, <1>4 DEF Delivered
<1> QED BY <1>4, <1>6, <1>7 DEF PushInv

LEMMA MutesStays == ASSUME PushInv, Pushing!mutes PROVE PushInv'
<1>1. /\ sender["chat"].pc = "mutes" /\ UNCHANGED reached
      /\ Pushing!At(IF "mutes" \in hushed THEN "done" ELSE IF keys.fcm THEN "read" ELSE "expo")
      /\ UNCHANGED <<keys, firebase, user, live, fcmRows, voipRows, expoRows, pruning, hushed, call, rung, rings, unsteady, belated, rethought>>
  BY DEF Pushing!mutes, Pushing!ChatStep, Pushing!Still
<1>2. PICK pc \in {"done", "read", "expo"} : pc = IF "mutes" \in hushed THEN "done" ELSE IF keys.fcm THEN "read" ELSE "expo"
  OBVIOUS
<1>3. sender["chat"].left = {} /\ pc \in Steps \ {"rest", "send"}
  BY <1>1, SenderNames, SenderFields DEF Steps, PushInv
<1>4. /\ PushTypes' /\ AskedFor' /\ AimedOnly' /\ ExpoAlone' /\ sender'["chat"].pc = pc
      /\ \A p \in Phones : Steady(p)' /\ RungOrLeft(p)' /\ ToBeCancelled(p)'
  <2>1. unsteady \subseteq unsteady' /\ unsteady' \subseteq Phones
    BY <1>1 DEF PushInv, PushTypes
  <2> QED BY <1>1, <1>2, <1>3, <2>1, AtDoes
<1>5. reached = {} /\ (~rethought => "blocks" \notin hushed) /\ hushed \subseteq {"blocks", "mutes"}
  BY <1>1 DEF PushInv, Heard, OneTransport, PushTypes
<1>6. Heard' /\ OneTransport'
  BY <1>1, <1>2, <1>4, <1>5 DEF Heard, OneTransport
<1>7. ASSUME NEW p \in Phones
      PROVE  Delivered(p)'
  BY <1>1, <1>2, <1>4 DEF Delivered
<1> QED BY <1>4, <1>6, <1>7 DEF PushInv

LEMMA FallThroughStays == ASSUME PushInv, Pushing!fallThrough PROVE PushInv'
<1>1. /\ sender["chat"].pc = "send" /\ sender["chat"].left = {} /\ UNCHANGED reached
      /\ UNCHANGED <<keys, firebase, user, live, fcmRows, voipRows, expoRows, pruning, hushed, call, rung, rings, unsteady, belated, rethought>>
  BY DEF Pushing!fallThrough, Pushing!ChatStep, Pushing!Still
<1>2. PICK pc \in {"done", "expo"} : Pushing!At(pc) /\ (pc = "expo" => sender["chat"].sent = 0)
  <2>1. sender["chat"].sent \in Nat
    BY SenderNames, SenderFields DEF PushInv
  <2>2. CASE sender["chat"].sent > 0
    <3>1. Pushing!At("done")
      BY <2>2 DEF Pushing!fallThrough
    <3> QED BY <3>1
  <2>3. CASE ~(sender["chat"].sent > 0)
    <3>1. Pushing!At("expo")
      BY <2>3 DEF Pushing!fallThrough
    <3>2. sender["chat"].sent = 0
      BY <2>1, <2>3
    <3> QED BY <3>1, <3>2
  <2> QED BY <2>2, <2>3
<1>3. pc \in Steps \ {"rest", "send"}
  BY DEF Steps
<1>4. /\ PushTypes' /\ AskedFor' /\ AimedOnly' /\ ExpoAlone' /\ sender'["chat"].pc = pc
      /\ \A p \in Phones : Steady(p)' /\ RungOrLeft(p)' /\ ToBeCancelled(p)'
  <2>1. unsteady \subseteq unsteady' /\ unsteady' \subseteq Phones
    BY <1>1 DEF PushInv, PushTypes
  <2> QED BY <1>1, <1>2, <1>3, <2>1, AtDoes
<1>5. Heard' /\ OneTransport'
  BY <1>1, <1>2, <1>4 DEF PushInv, Heard, OneTransport
<1>6. ASSUME NEW p \in Phones
      PROVE  Delivered(p)'
  BY <1>1, <1>2, <1>4 DEF PushInv, Delivered
<1> QED BY <1>4, <1>5, <1>6 DEF PushInv

LEMMA PostStays == ASSUME PushInv, Pushing!postToExpo PROVE PushInv'
<1>1. PICK taken \in SUBSET (Pushing!Of(expoRows) \cap live) :
      /\ sender["chat"].pc = "expo" /\ Pushing!At("done")
      /\ reached' = reached \cup {<<"expo", p>> : p \in taken}
      /\ unsteady' \in {unsteady, Phones, unsteady \cup (Pushing!Of(expoRows) \ taken)}
      /\ UNCHANGED <<keys, firebase, user, live, fcmRows, voipRows, expoRows, pruning, hushed, call, rung, rings, belated, rethought>>
  BY DEF Pushing!postToExpo, Pushing!ChatStep, Pushing!Still
<1>2. PushTypes /\ sender["chat"].left = {} /\ "done" \in Steps \ {"rest", "send"}
  BY <1>1, SenderNames, SenderFields DEF Steps, PushInv
<1>0. unsteady \subseteq unsteady' /\ unsteady' \subseteq Phones
  BY <1>1, <1>2 DEF PushTypes, Pushing!Of
<1>3. /\ PushTypes' /\ AskedFor' /\ AimedOnly' /\ ExpoAlone' /\ sender'["chat"].pc = "done"
      /\ \A p \in Phones : Steady(p)' /\ RungOrLeft(p)' /\ ToBeCancelled(p)'
  BY <1>0, <1>1, <1>2, AtDoes
<1>4. Heard'
  BY <1>1, <1>3 DEF PushInv, Heard
<1>5. /\ reached \subseteq reached' /\ \A p \in Phones : <<"fcm", p>> \notin reached
      /\ \A p \in Phones : <<"fcm", p>> \notin reached'
  BY <1>1 DEF PushInv, OneTransport
<1>6. OneTransport'
  BY <1>3, <1>5 DEF OneTransport
<1>7. ASSUME NEW p \in Phones
      PROVE  Delivered(p)'
  BY <1>0, <1>1, <1>3, <1>5 DEF PushInv, Delivered
<1> QED BY <1>3, <1>4, <1>6, <1>7 DEF PushInv

LEMMA HushStays == ASSUME PushInv, NEW how \in {"blocks", "mutes"}, Pushing!Hush(how) PROVE PushInv'
<1>1. /\ hushed' = IF how \in hushed THEN hushed \ {how} ELSE hushed \cup {how}
      /\ rethought' = (rethought \/ sender["chat"] # Pushing!Rest)
      /\ UNCHANGED <<keys, firebase, sender, call, rung, rings, reached, belated, user, live, fcmRows, voipRows, expoRows, pruning, unsteady>>
  BY DEF Pushing!Hush, Pushing!Sees
<1>2. PushTypes
  BY DEF PushInv
<1>3. hushed' \subseteq {"blocks", "mutes"} /\ rethought' \in BOOLEAN
  BY <1>1, <1>2 DEF PushTypes
<1>4. PushTypes'
  BY <1>1, <1>2, <1>3 DEF PushTypes
<1>5. AskedFor' /\ ExpoAlone' /\ OneTransport'
  BY <1>1 DEF PushInv, AskedFor, ExpoAlone, OneTransport, Working
<1>6. \A t, q : Aimed(t, q)' = Aimed(t, q)
  BY <1>1 DEF Aimed
<1>7. AimedOnly'
  BY <1>1, <1>6 DEF PushInv, AimedOnly
<1>8. ~rethought' => sender["chat"].pc = "rest" /\ reached = {}
  BY <1>1, AtRest DEF PushInv, Heard
<1>9. Heard'
  BY <1>1, <1>8 DEF PushInv, Heard
<1>10. ASSUME NEW p \in Phones
       PROVE  Steady(p)' /\ RungOrLeft(p)' /\ ToBeCancelled(p)' /\ Delivered(p)'
  <2>1. Steady(p)'
    BY <1>1 DEF PushInv, Steady
  <2>2. RungOrLeft(p)'
    BY <1>1, <1>6 DEF PushInv, RungOrLeft
  <2>3. \A c : Cancelled(c, p)' = Cancelled(c, p)
    BY <1>1 DEF Cancelled
  <2>4. ToBeCancelled(p)'
    BY <1>1, <2>3 DEF PushInv, ToBeCancelled
  <2>5. Delivered(p)'
    BY <1>1, <1>8 DEF PushInv, Delivered
  <2> QED BY <2>1, <2>2, <2>4, <2>5
<1> QED BY <1>4, <1>5, <1>7, <1>9, <1>10 DEF PushInv

-----------------------------------------------------------------------------
(* Authors begin, and a call begins and ends. *)

LEMMA BeginsDoes ==
  ASSUME PushInv, NEW s \in Pushing!Senders, Pushing!Begin(s)
  PROVE  /\ sender[s].pc = "read" /\ sender' \in [Pushing!Senders -> SenderState]
         /\ \A t \in Pushing!Senders : t # s => sender'[t] = sender[t]
         /\ sender'[s].pc = "send" /\ sender'[s].left = Pushing!Tokens(s) /\ Pushing!Tokens(s) \subseteq Phones
         /\ UNCHANGED <<keys, firebase, user, live, fcmRows, voipRows, expoRows, pruning, hushed, call, rung, rings, reached,
                        unsteady, belated, rethought>>
         /\ PushTypes'
<1>1. /\ sender[s].pc = "read"
      /\ sender' = [sender EXCEPT ![s] = [@ EXCEPT !.pc = "send", !.left = Pushing!Tokens(s)]]
      /\ UNCHANGED <<keys, firebase, user, live, fcmRows, voipRows, expoRows, pruning, hushed, call, rung, rings, reached,
                     unsteady, belated, rethought>>
  BY DEF Pushing!Begin, Pushing!Still
<1>2. PushTypes /\ sender[s] \in SenderState
  BY SenderFields DEF PushInv
<1>3. Pushing!Tokens(s) \subseteq Phones
  BY SenderNames DEF Pushing!Tokens, Pushing!Of
<1>4. PICK left \in SUBSET Phones : left = Pushing!Tokens(s)
  BY <1>3
<1> DEFINE x == [sender[s] EXCEPT !.pc = "send", !.left = left]
<1>5. sender' = [sender EXCEPT ![s] = x]
  BY <1>1, <1>4
<1>6. x \in SenderState /\ x.pc = "send" /\ x.left = left
  BY <1>2 DEF SenderState, Steps
<1> HIDE DEF x
<1>7. /\ SenderOf(s, x)
      /\ \A t \in Pushing!Senders : /\ sender'[t].pc = "rest" => sender'[t] = Pushing!Rest
                                    /\ sender'[t].left # {} => sender'[t].pc = "send"
                                    /\ sender'[t].pc \in {"mutes", "expo"} => t = "chat"
  BY <1>2, <1>5, <1>6, SenderUpdate
<1>8. PushTypes'
  BY <1>1, <1>2, <1>7 DEF PushTypes, SenderOf
<1>9. /\ sender[s].pc = "read"
      /\ UNCHANGED <<keys, firebase, user, live, fcmRows, voipRows, expoRows, pruning, hushed, call, rung, rings, reached,
                     unsteady, belated, rethought>>
  BY <1>1
<1> QED BY <1>3, <1>4, <1>6, <1>7, <1>8, <1>9 DEF SenderOf

\* The tokens a sender finds are those of the phones it is for.
LEMMA TokensAre ==
  ASSUME PushInv, NEW s \in Pushing!Senders, NEW p \in Phones
  PROVE  /\ s \in Pushing!Rings /\ Working(s) /\ p \in Pushing!Tokens(s) => Aimed(s, p)
         /\ s \in Pushing!Rings /\ p \notin unsteady /\ Aimed(s, p) => p \in Pushing!Tokens(s)
         /\ s \in Pushing!Cancels /\ p \notin unsteady /\ Cancelled(s, p) => p \in Pushing!Tokens(s)
         /\ s = "chat" /\ p \in firebase \ unsteady => p \in Pushing!Tokens(s)
<1>1. /\ p \notin unsteady => (p \in firebase => fcmRows[p] = Callee) /\ (p \in CallKit => voipRows[p] = Callee)
      /\ (voipRows[p] = Callee => p \in CallKit) /\ (fcmRows[p] = Callee => p \in firebase)
  <2>1. Steady(p)
    BY DEF PushInv
  <2>2. (voipRows[p] # "none" => p \in CallKit) /\ (fcmRows[p] # "none" => p \in firebase)
    BY DEF PushInv, PushTypes
  <2>3. Callee # "none"
    BY PushConstants
  <2> QED BY <2>1, <2>2, <2>3 DEF Steady
<1>2. /\ Pushing!Tokens("ringVoip") = Pushing!Of(voipRows) /\ Pushing!Tokens("cancelVoip") = Pushing!Of(voipRows)
      /\ Pushing!Tokens("cancelFcm") = Pushing!Of(fcmRows) /\ Pushing!Tokens("chat") = Pushing!Of(fcmRows)
      /\ Pushing!Tokens("ringFcm") = IF call.hasVoip THEN Pushing!Of(fcmRows) \ Pushing!NamedIos ELSE Pushing!Of(fcmRows)
  BY DEF Pushing!Tokens
<1>3. /\ p \in Pushing!Of(fcmRows) <=> fcmRows[p] = Callee
      /\ p \in Pushing!Of(voipRows) <=> voipRows[p] = Callee
  BY DEF Pushing!Of
<1>4. CASE s = "ringVoip"
  BY <1>1, <1>2, <1>3, <1>4, SenderNames DEF Aimed, PushInv, AskedFor
<1>5. CASE s = "ringFcm"
  BY <1>1, <1>2, <1>3, <1>5, SenderNames DEF Aimed
<1>6. CASE s = "cancelVoip"
  BY <1>1, <1>2, <1>3, <1>6, SenderNames DEF Cancelled
<1>7. CASE s = "cancelFcm"
  BY <1>1, <1>2, <1>3, <1>7, SenderNames DEF Cancelled
<1>8. CASE s = "chat"
  BY <1>1, <1>2, <1>3, <1>8, SenderNames
<1> QED BY <1>4, <1>5, <1>6, <1>7, <1>8, SenderNames

LEMMA BeginsStays == ASSUME PushInv, NEW s \in Pushing!Senders, Pushing!Begin(s) PROVE PushInv'
<1>1. /\ sender[s].pc = "read" /\ sender' \in [Pushing!Senders -> SenderState]
      /\ \A t \in Pushing!Senders : t # s => sender'[t] = sender[t]
      /\ sender'[s].pc = "send" /\ sender'[s].left = Pushing!Tokens(s)
      /\ UNCHANGED <<keys, firebase, user, live, fcmRows, voipRows, expoRows, pruning, hushed, call, rung, rings, reached,
                     unsteady, belated, rethought>>
      /\ PushTypes'
  BY BeginsDoes
<1>2. PICK left \in SUBSET Phones : left = Pushing!Tokens(s)
  BY BeginsDoes
<1>3. /\ \A t \in Pushing!Senders : Working(t)' = Working(t)
      /\ \A t \in Pushing!Senders : (sender'[t].pc \in {"rest", "done"} => sender'[t] = sender[t])
      /\ \A t \in Pushing!Senders : (sender[t].pc \in {"rest", "done"} => sender'[t] = sender[t])
  BY <1>1 DEF Working
<1>4. AskedFor'
  <2>1. \A t \in Pushing!Senders : t # "chat" /\ sender'[t].pc = "done" => unsteady' = Phones
    BY <1>1, <1>3 DEF PushInv, AskedFor
  <2>2. (call.stage = "rung" /\ keys.fcm => sender'["ringFcm"].pc # "rest") /\ (call.hasVoip => sender'["ringVoip"].pc # "rest")
    BY <1>3, SenderNames DEF PushInv, AskedFor
  <2> QED BY <1>1, <1>3, <2>1, <2>2, SenderNames DEF PushInv, AskedFor
<1>5. \A t, p : Aimed(t, p)' = Aimed(t, p)
  BY <1>1 DEF Aimed
<1>6. Working(s)
  BY <1>1 DEF Working
<1>7. AimedOnly'
  <2>1. ASSUME NEW t \in Pushing!Rings, NEW p \in Phones, p \in sender'[t].left
        PROVE  Aimed(t, p)
    <3>1. CASE t = s
      BY <1>1, <1>6, <2>1, <3>1, TokensAre
    <3>2. CASE t # s
      BY <1>1, <2>1, <3>2, SenderNames DEF PushInv, AimedOnly
    <3> QED BY <3>1, <3>2
  <2> QED BY <1>1, <1>5, <2>1 DEF PushInv, AimedOnly
<1>8. ExpoAlone'
  BY <1>1, <1>3, SenderNames DEF PushInv, ExpoAlone
<1>9. Heard' /\ OneTransport'
  <2>1. sender'["chat"] = sender["chat"] \/ (sender["chat"].pc = "read" /\ sender'["chat"].pc = "send")
    BY <1>1, SenderNames
  <2> QED BY <1>1, <2>1 DEF PushInv, Heard, OneTransport
<1>10. ASSUME NEW p \in Phones
       PROVE  Steady(p)' /\ RungOrLeft(p)' /\ ToBeCancelled(p)' /\ Delivered(p)'
  <2>1. Steady(p)'
    BY <1>1 DEF PushInv, Steady
  <2>2. RungOrLeft(p)'
    <3> SUFFICES ASSUME p \notin unsteady, NEW t \in Pushing!Rings, sender'[t].pc = "send", Aimed(t, p)
                 PROVE  p \in sender'[t].left \/ t \in rung[p]
      BY <1>1, <1>5 DEF RungOrLeft
    <3>1. CASE t = s
      BY <1>1, <3>1, TokensAre
    <3>2. CASE t # s
      BY <1>1, <3>2, SenderNames DEF PushInv, RungOrLeft
    <3> QED BY <3>1, <3>2
  <2>3. \A c : Cancelled(c, p)' = Cancelled(c, p)
    BY <1>1 DEF Cancelled
  <2>4. ToBeCancelled(p)'
    <3> SUFFICES ASSUME p \in rings, call.over, p \notin unsteady \cup belated
                 PROVE  \E c \in Pushing!Cancels : /\ Cancelled(c, p)
                                                  /\ \/ sender'[c].pc = "read"
                                                     \/ sender'[c].pc = "send" /\ p \in sender'[c].left
      BY <1>1, <2>3 DEF PushInv, ToBeCancelled
    <3>1. PICK c \in Pushing!Cancels : /\ Cancelled(c, p)
                                       /\ \/ sender[c].pc = "read"
                                          \/ sender[c].pc = "send" /\ p \in sender[c].left
      BY DEF PushInv, ToBeCancelled
    <3>2. CASE c = s
      BY <1>1, <3>1, <3>2, TokensAre
    <3>3. CASE c # s
      BY <1>1, <3>1, <3>3, SenderNames
    <3> QED BY <3>2, <3>3
  <2>5. Delivered(p)'
    <3>1. CASE s = "chat"
      BY <1>1, <3>1, TokensAre DEF Delivered
    <3>2. CASE s # "chat"
      BY <1>1, <3>2, SenderNames DEF PushInv, Delivered
    <3> QED BY <3>1, <3>2
  <2> QED BY <2>1, <2>2, <2>4, <2>5
<1> QED BY <1>1, <1>4, <1>7, <1>8, <1>9, <1>10 DEF PushInv

\* A call's senders are asked.
LEMMA StartDoes ==
  ASSUME PushInv, NEW starts \in SUBSET (Pushing!Rings \cup Pushing!Cancels), Pushing!Start(starts)
  PROVE  /\ sender' \in [Pushing!Senders -> SenderState] /\ sender'["chat"] = sender["chat"]
         /\ \A t \in starts : sender'[t].pc = "read" /\ sender'[t].left = {}
         /\ \A t \in Pushing!Senders : t \notin starts => sender'[t] = sender[t]
         /\ \A t \in Pushing!Senders : /\ sender'[t].pc = "rest" => sender'[t] = Pushing!Rest
                                       /\ sender'[t].left # {} => sender'[t].pc = "send"
                                       /\ sender'[t].pc \in {"mutes", "expo"} => t = "chat"
<1>1. PushTypes /\ sender' = [t \in Pushing!Senders |-> IF t \in starts THEN Pushing!Read ELSE sender[t]]
  BY DEF PushInv, Pushing!Start
<1>2. /\ starts \subseteq Pushing!Senders /\ "chat" \notin starts /\ "chat" \in Pushing!Senders
  BY SenderNames
<1>3. \A t \in Pushing!Senders : sender'[t] = IF t \in starts THEN Pushing!Read ELSE sender[t]
  BY <1>1
<1>4. \A t \in Pushing!Senders : sender[t] \in SenderState
  BY <1>1 DEF PushTypes
<1>5. sender' \in [Pushing!Senders -> SenderState]
  BY <1>1, <1>4, AtRest
<1>6. \A t \in starts : sender'[t].pc = "read" /\ sender'[t].left = {}
  BY <1>2, <1>3, AtRest
<1>7. \A t \in Pushing!Senders : t \notin starts => sender'[t] = sender[t]
  BY <1>3
<1>8. \A t \in Pushing!Senders : /\ sender'[t].pc = "rest" => sender'[t] = Pushing!Rest
                                 /\ sender'[t].left # {} => sender'[t].pc = "send"
                                 /\ sender'[t].pc \in {"mutes", "expo"} => t = "chat"
  BY <1>1, <1>6, <1>7 DEF PushTypes
<1> QED BY <1>2, <1>5, <1>6, <1>7, <1>8

LEMMA InitiateStays == ASSUME PushInv, Pushing!initiate PROVE PushInv'
<1>1. PICK has \in BOOLEAN :
        /\ has => keys.voip
        /\ call' = [stage |-> IF keys.fcm \/ has THEN "rung" ELSE "offline", over |-> FALSE, hasVoip |-> has]
        /\ Pushing!Start((IF has THEN {"ringVoip"} ELSE {}) \cup (IF keys.fcm THEN {"ringFcm"} ELSE {}))
  <2>1. CASE keys.voip /\ Pushing!Of(voipRows) # {}
    BY <2>1 DEF Pushing!initiate
  <2>2. CASE ~(keys.voip /\ Pushing!Of(voipRows) # {})
    BY <2>2 DEF Pushing!initiate
  <2> QED BY <2>1, <2>2
<1>2. /\ call.stage = "none" /\ sender["chat"] = Pushing!Rest
      /\ UNCHANGED <<keys, firebase, user, live, fcmRows, voipRows, expoRows, pruning, hushed, rung, rings, reached, unsteady, belated, rethought>>
  BY DEF Pushing!initiate, Pushing!Idle, Pushing!Still
<1>3. PICK starts \in SUBSET (Pushing!Rings \cup Pushing!Cancels) :
        /\ Pushing!Start(starts) /\ starts \subseteq Pushing!Rings
        /\ ("ringVoip" \in starts <=> has) /\ ("ringFcm" \in starts <=> keys.fcm)
  <2>1. PICK starts \in SUBSET (Pushing!Rings \cup Pushing!Cancels) :
          starts = (IF has THEN {"ringVoip"} ELSE {}) \cup (IF keys.fcm THEN {"ringFcm"} ELSE {})
    BY SenderNames
  <2> QED BY <1>1, <2>1, SenderNames
<1>4. /\ sender' \in [Pushing!Senders -> SenderState] /\ sender'["chat"] = sender["chat"]
      /\ \A t \in starts : sender'[t].pc = "read" /\ sender'[t].left = {}
      /\ \A t \in Pushing!Senders : t \notin starts => sender'[t] = sender[t]
  BY <1>3, StartDoes
<1>5. \A t \in Pushing!Senders : /\ sender'[t].pc = "rest" => sender'[t] = Pushing!Rest
                                 /\ sender'[t].left # {} => sender'[t].pc = "send"
                                 /\ sender'[t].pc \in {"mutes", "expo"} => t = "chat"
  BY <1>3, StartDoes
<1>6. /\ call'.stage \in {"rung", "offline"} /\ (call'.stage = "rung" <=> keys.fcm \/ has)
      /\ call'.over = FALSE /\ call'.hasVoip = has
      /\ call' \in [stage : {"none", "offline", "rung"}, over : BOOLEAN, hasVoip : BOOLEAN]
  BY <1>1
<1>7. PushTypes /\ rings = {} /\ \A p \in Phones : rung[p] = {}
  BY <1>2 DEF PushInv, AskedFor
<1>8. PushTypes'
  BY <1>2, <1>4, <1>5, <1>6, <1>7 DEF PushTypes
<1>9. \A t \in Pushing!Rings : sender[t].pc \in {"rest", "done"} /\ sender[t].left = {}
  BY <1>2, <1>7, SenderNames DEF PushInv, AskedFor, Working, PushTypes
<1>10. \A t \in Pushing!Rings : /\ sender'[t].left = {} /\ sender'[t].pc \in {"rest", "read", "done"}
                                /\ Working(t)' => t \in starts
                                /\ t \in starts => sender'[t].pc = "read"
  BY <1>4, <1>9, SenderNames DEF Working
<1>11. AskedFor'
  <2>1. \A t \in Pushing!Senders : t # "chat" /\ sender'[t].pc = "done" => unsteady' = Phones
    BY <1>2, <1>4 DEF PushInv, AskedFor
  <2> QED BY <1>1, <1>2, <1>3, <1>6, <1>7, <1>10, <2>1, SenderNames DEF AskedFor
<1>12. AimedOnly' /\ ExpoAlone'
  BY <1>2, <1>7, <1>10 DEF AimedOnly, ExpoAlone
<1>13. Heard' /\ OneTransport'
  BY <1>2, <1>4 DEF PushInv, Heard, OneTransport
<1>14. ASSUME NEW p \in Phones
       PROVE  Steady(p)' /\ RungOrLeft(p)' /\ ToBeCancelled(p)' /\ Delivered(p)'
  <2>1. Steady(p)'
    BY <1>2 DEF PushInv, Steady
  <2>2. RungOrLeft(p)' /\ ToBeCancelled(p)'
    BY <1>2, <1>7, <1>10 DEF RungOrLeft, ToBeCancelled
  <2>3. Delivered(p)'
    BY <1>2, <1>4 DEF PushInv, Delivered
  <2> QED BY <2>1, <2>2, <2>3
<1> QED BY <1>8, <1>11, <1>12, <1>13, <1>14 DEF PushInv

LEMMA RingExpoStays == ASSUME PushInv, Pushing!ringExpo PROVE PushInv'
<1>1. /\ call.stage = "offline" /\ call' = [call EXCEPT !.stage = "rung"]
      /\ UNCHANGED <<keys, firebase, user, live, fcmRows, voipRows, expoRows, pruning, hushed, sender, rings, reached, unsteady, belated, rethought>>
  BY DEF Pushing!ringExpo, Pushing!Still
<1>2. PushTypes /\ ~keys.fcm /\ ~call.hasVoip /\ (\A t \in Pushing!Rings : ~Working(t)) /\ \A p \in Phones : rung[p] = {}
  BY <1>1 DEF PushInv, AskedFor
<1>3. /\ rung' \in [Phones -> SUBSET {"expo", "ringVoip", "ringFcm"}]
      /\ \A p \in Phones : rung'[p] \subseteq {"expo"}
  <2>1. CASE rung' = rung
    BY <1>2, <2>1 DEF PushTypes
  <2>2. CASE rung' = [p \in Phones |-> IF p \in Pushing!Of(expoRows) \cap live THEN {"expo"} ELSE {}]
    BY <2>2
  <2> QED BY <2>1, <2>2 DEF Pushing!ringExpo
<1>4. /\ call' \in [stage : {"none", "offline", "rung"}, over : BOOLEAN, hasVoip : BOOLEAN]
      /\ call'.stage = "rung" /\ call'.over = call.over /\ call'.hasVoip = call.hasVoip
  BY <1>1, <1>2 DEF PushTypes
<1>5. PushTypes'
  BY <1>1, <1>2, <1>3, <1>4 DEF PushTypes
<1>6. \A t : Working(t)' = Working(t)
  BY <1>1 DEF Working
<1>7. AskedFor'
  BY <1>1, <1>2, <1>4, <1>6, SenderNames DEF PushInv, AskedFor
<1>8. \A t, q : Aimed(t, q)' = Aimed(t, q)
  BY <1>1, <1>4 DEF Aimed
<1>9. AimedOnly'
  BY <1>1, <1>3, <1>8, SenderNames DEF PushInv, AimedOnly
<1>10. ExpoAlone'
  BY <1>2, <1>6 DEF ExpoAlone
<1>11. Heard' /\ OneTransport'
  BY <1>1 DEF PushInv, Heard, OneTransport
<1>12. ASSUME NEW p \in Phones
       PROVE  Steady(p)' /\ RungOrLeft(p)' /\ ToBeCancelled(p)' /\ Delivered(p)'
  <2>1. Steady(p)'
    BY <1>1 DEF PushInv, Steady
  <2>2. RungOrLeft(p)'
    BY <1>1, <1>2 DEF RungOrLeft, Working
  <2>3. \A c : Cancelled(c, p)' = Cancelled(c, p)
    BY <1>1 DEF Cancelled
  <2>4. ToBeCancelled(p)'
    BY <1>1, <1>4, <2>3 DEF PushInv, ToBeCancelled
  <2>5. Delivered(p)'
    BY <1>1 DEF PushInv, Delivered
  <2> QED BY <2>1, <2>2, <2>4, <2>5
<1> QED BY <1>5, <1>7, <1>9, <1>10, <1>11, <1>12 DEF PushInv

LEMMA FinalizeStays == ASSUME PushInv, Pushing!finalize PROVE PushInv'
<1>1. /\ call.stage = "rung" /\ call' = [call EXCEPT !.over = TRUE]
      /\ Pushing!Start((IF keys.fcm THEN {"cancelFcm"} ELSE {}) \cup (IF keys.voip THEN {"cancelVoip"} ELSE {}))
      /\ UNCHANGED <<keys, firebase, user, live, fcmRows, voipRows, expoRows, pruning, hushed, rung, rings, reached, unsteady, belated, rethought>>
  BY DEF Pushing!finalize, Pushing!Still
<1>2. PICK starts \in SUBSET (Pushing!Rings \cup Pushing!Cancels) :
        /\ Pushing!Start(starts) /\ starts \subseteq Pushing!Cancels
        /\ (keys.voip => "cancelVoip" \in starts) /\ (keys.fcm => "cancelFcm" \in starts)
  <2>1. PICK starts \in SUBSET (Pushing!Rings \cup Pushing!Cancels) :
          starts = (IF keys.fcm THEN {"cancelFcm"} ELSE {}) \cup (IF keys.voip THEN {"cancelVoip"} ELSE {})
    BY SenderNames
  <2> QED BY <1>1, <2>1, SenderNames
<1>3. /\ sender' \in [Pushing!Senders -> SenderState] /\ sender'["chat"] = sender["chat"]
      /\ \A t \in starts : sender'[t].pc = "read" /\ sender'[t].left = {}
      /\ \A t \in Pushing!Senders : t \notin starts => sender'[t] = sender[t]
  BY <1>2, StartDoes
<1>4. \A t \in Pushing!Senders : /\ sender'[t].pc = "rest" => sender'[t] = Pushing!Rest
                                 /\ sender'[t].left # {} => sender'[t].pc = "send"
                                 /\ sender'[t].pc \in {"mutes", "expo"} => t = "chat"
  BY <1>2, StartDoes
<1>5. PushTypes /\ \A t \in Pushing!Rings : sender'[t] = sender[t] /\ Working(t)' = Working(t)
  BY <1>2, <1>3, SenderNames DEF PushInv, Working
<1>6. /\ call' \in [stage : {"none", "offline", "rung"}, over : BOOLEAN, hasVoip : BOOLEAN]
      /\ call'.stage = "rung" /\ call'.hasVoip = call.hasVoip
  BY <1>1, <1>5 DEF PushTypes
<1>7. PushTypes'
  BY <1>1, <1>3, <1>4, <1>5, <1>6 DEF PushTypes
<1>8. AskedFor'
  <2>1. \A t \in Pushing!Senders : t # "chat" /\ sender'[t].pc = "done" => unsteady' = Phones
    BY <1>1, <1>3 DEF PushInv, AskedFor
  <2> QED BY <1>1, <1>5, <1>6, <2>1, SenderNames DEF PushInv, AskedFor
<1>9. \A t, q : Aimed(t, q)' = Aimed(t, q)
  BY <1>1, <1>6 DEF Aimed
<1>10. AimedOnly' /\ ExpoAlone'
  BY <1>1, <1>5, <1>9, SenderNames DEF PushInv, AimedOnly, ExpoAlone
<1>11. Heard' /\ OneTransport'
  BY <1>1, <1>3 DEF PushInv, Heard, OneTransport
<1>12. ASSUME NEW p \in Phones
       PROVE  Steady(p)' /\ RungOrLeft(p)' /\ ToBeCancelled(p)' /\ Delivered(p)'
  <2>1. Steady(p)'
    BY <1>1 DEF PushInv, Steady
  <2>2. RungOrLeft(p)'
    BY <1>1, <1>5, <1>9 DEF PushInv, RungOrLeft
  <2>3. \A c : Cancelled(c, p)' = Cancelled(c, p)
    BY <1>1 DEF Cancelled
  <2>4. ASSUME p \in rings
        PROVE  \E c \in Pushing!Cancels : Cancelled(c, p) /\ sender'[c].pc = "read"
    <3>1. PICK c \in Pushing!Cancels : Cancelled(c, p)
      BY <2>4 DEF PushInv, ToBeCancelled
    <3>2. c \in starts
      BY <1>2, <3>1, SenderNames DEF Cancelled
    <3> QED BY <1>3, <3>1, <3>2
  <2>5. ToBeCancelled(p)'
    BY <1>1, <2>3, <2>4 DEF ToBeCancelled
  <2>6. Delivered(p)'
    BY <1>1, <1>3 DEF PushInv, Delivered
  <2> QED BY <2>1, <2>2, <2>5, <2>6
<1> QED BY <1>7, <1>8, <1>10, <1>11, <1>12 DEF PushInv

LEMMA DieStays == ASSUME PushInv, Pushing!Die PROVE PushInv'
<1>1. /\ sender' = [t \in Pushing!Senders |-> Pushing!Done] /\ pruning' = {} /\ unsteady' = Phones
      /\ UNCHANGED <<keys, firebase, user, live, fcmRows, voipRows, expoRows, call, hushed, rung, rings, reached, belated, rethought>>
  BY DEF Pushing!Die
<1>2. PushTypes
  BY DEF PushInv
<1>3. /\ sender' \in [Pushing!Senders -> SenderState]
      /\ \A t \in Pushing!Senders : sender'[t].pc = "done" /\ sender'[t].left = {}
  BY <1>1, AtRest
<1>4. PushTypes'
  BY <1>1, <1>2, <1>3 DEF PushTypes
<1>5. \A t \in Pushing!Senders : ~Working(t)'
  BY <1>3 DEF Working
<1>6. AskedFor'
  BY <1>1, <1>3, <1>5, SenderNames DEF PushInv, AskedFor
<1>7. \A t, q : Aimed(t, q)' = Aimed(t, q)
  BY <1>1 DEF Aimed
<1>8. AimedOnly' /\ ExpoAlone'
  BY <1>1, <1>3, <1>5, <1>7, SenderNames DEF PushInv, AimedOnly, ExpoAlone
<1>9. Heard' /\ OneTransport'
  BY <1>1, <1>3, SenderNames DEF PushInv, Heard, OneTransport
<1>10. ASSUME NEW p \in Phones
       PROVE  Steady(p)' /\ RungOrLeft(p)' /\ ToBeCancelled(p)' /\ Delivered(p)'
  <2>1. \A c : Cancelled(c, p)' = Cancelled(c, p)
    BY <1>1 DEF Cancelled
  <2>2. ToBeCancelled(p)'
    BY <1>1, <2>1 DEF PushInv, ToBeCancelled
  <2> QED BY <1>1, <2>2 DEF Steady, RungOrLeft, Delivered
<1> QED BY <1>4, <1>6, <1>8, <1>9, <1>10 DEF PushInv

-----------------------------------------------------------------------------
LEMMA PushBegins == ASSUME WorkspaceInit PROVE PushInv
<1>1. /\ user = [p \in Phones |-> Callee] /\ live = Phones /\ expoRows = user /\ firebase \subseteq Phones
      /\ fcmRows = [p \in Phones |-> IF p \in firebase THEN Callee ELSE "none"]
      /\ voipRows = [p \in Phones |-> IF p \in CallKit THEN Callee ELSE "none"]
      /\ sender = [s \in Pushing!Senders |-> Pushing!Rest] /\ pruning = {}
      /\ call = [stage |-> "none", over |-> FALSE, hasVoip |-> FALSE]
      /\ hushed = {} /\ rung = [p \in Phones |-> {}] /\ rings = {} /\ reached = {}
      /\ unsteady = {} /\ belated = {} /\ rethought = FALSE
  BY DEF WorkspaceInit, Pushing!PushInit, Pushing!None
<1>2. \A s \in Pushing!Senders : sender[s].pc = "rest" /\ sender[s].left = {} /\ ~Working(s) /\ sender[s] = Pushing!Rest
  BY <1>1, AtRest DEF Working
<1>3. PushTypes
  <2>1. user \in [Phones -> Owners] /\ fcmRows \in TokenRows /\ voipRows \in TokenRows /\ expoRows \in TokenRows
    BY <1>1, PushConstants DEF TokenRows
  <2>2. sender \in [Pushing!Senders -> SenderState]
    BY <1>1, AtRest
  <2> QED BY <1>1, <1>2, <2>1, <2>2 DEF PushTypes
<1>4. AskedFor /\ AimedOnly /\ ExpoAlone
  BY <1>1, <1>2, SenderNames DEF AskedFor, AimedOnly, ExpoAlone
<1>5. Heard /\ OneTransport
  BY <1>1, <1>2, SenderNames DEF Heard, OneTransport
<1>6. ASSUME NEW p \in Phones
      PROVE  Steady(p) /\ RungOrLeft(p) /\ ToBeCancelled(p) /\ Delivered(p)
  BY <1>1, <1>2, SenderNames DEF Steady, RungOrLeft, ToBeCancelled, Delivered
<1> QED BY <1>3, <1>4, <1>5, <1>6 DEF PushInv

LEMMA PushStays ==
  ASSUME PushInv, [WorkspaceNext]_<<part, access, posting, signing, mailbox, sorting, places, pushing>>
  PROVE  PushInv'
<1>1. CASE UNCHANGED pushing
  <2>1. /\ UNCHANGED <<keys, firebase, sender, call, rung, rings, reached, belated, hushed, rethought>>
        /\ UNCHANGED <<user, live, fcmRows, voipRows, expoRows, pruning, unsteady>>
    BY <1>1 DEF pushing
  <2>2. PushTypes' /\ \A p \in Phones : Steady(p)'
    BY <2>1 DEF PushInv, PushTypes, Steady
  <2>3. unsteady \subseteq unsteady' /\ unsteady' \subseteq Phones
    BY <2>1 DEF PushInv, PushTypes
  <2> QED BY <2>1, <2>2, <2>3, SendersRest DEF PushInv
<1>2. CASE Pushing!PushNext
  BY <1>2, SignInStays, RemoveAppStays, RegisterStays, RemoveStays, NotifyStays, RingStays, CancelStays, BeginsStays,
     InitiateStays, RingExpoStays, FinalizeStays, BlockersStays, MutesStays, FallThroughStays, PostStays, HushStays, DieStays
     DEF Pushing!PushNext
<1> QED BY <1>1, <1>2 DEF WorkspaceNext

-----------------------------------------------------------------------------
(* The phones that Expo is to reach. *)

\* Who sends over Firebase has a key, and what was sent has arrived somewhere.
FirebaseFirst ==
  /\ sender["chat"].pc \in {"read", "send"} => keys.fcm
  /\ sender["chat"].sent # 0 => \E q \in Phones : <<"fcm", q>> \in reached

\* A message that is through has come over Expo, unless Firebase took it or Expo is off.
OverExpo(p) ==
  (sender["chat"].pc = "done" /\ hushed = {} /\ ~rethought /\ p \notin unsteady) =>
    <<"expo", p>> \in reached \/ Pushing!LeftToFirebase \/ ~keys.expo

ExpoInv == FirebaseFirst /\ \A p \in Phones : OverExpo(p)

\* A step that does not bring the message to its end.
LEMMA ExpoRest ==
  ASSUME ExpoInv, FirebaseFirst', UNCHANGED <<keys, hushed, rethought>>,
         reached \subseteq reached', unsteady \subseteq unsteady',
         sender'["chat"].pc = "done" => sender["chat"].pc = "done"
  PROVE  ExpoInv'
<1>1. Pushing!LeftToFirebase => Pushing!LeftToFirebase'
  BY DEF Pushing!LeftToFirebase
<1>2. ASSUME NEW p \in Phones
      PROVE  OverExpo(p)'
  BY <1>1 DEF ExpoInv, OverExpo
<1> QED BY <1>2 DEF ExpoInv

\* Nor one of somebody else.
LEMMA ExpoQuiet ==
  ASSUME ExpoInv, UNCHANGED <<keys, hushed, rethought, reached>>, sender'["chat"] = sender["chat"],
         unsteady \subseteq unsteady'
  PROVE  ExpoInv'
<1>1. FirebaseFirst'
  BY DEF ExpoInv, FirebaseFirst
<1> QED BY <1>1, ExpoRest

LEMMA ExpoPhones ==
  ASSUME PushInv, ExpoInv, NEW p \in Phones,
         \/ \E u \in Owners : Pushing!SignIn(p, u)
         \/ Pushing!RemoveApp(p) \/ Pushing!registerDevice(p) \/ Pushing!registerFcm(p)
         \/ Pushing!registerVoip(p) \/ Pushing!removeByToken(p) \/ Pushing!remove(p)
  PROVE  ExpoInv'
<1>1. UNCHANGED <<keys, sender, reached, hushed, rethought>> /\ unsteady \subseteq unsteady'
  BY DEF Pushing!SignIn, Pushing!RemoveApp, Pushing!registerDevice, Pushing!registerFcm, Pushing!registerVoip,
         Pushing!removeByToken, Pushing!remove, Pushing!Sees
<1> QED BY <1>1, ExpoQuiet

LEMMA ExpoCalls ==
  ASSUME PushInv, ExpoInv, NEW s \in Pushing!Senders, NEW p \in Phones,
         Pushing!sendIncomingCall(s, p) \/ Pushing!sendCancel(s, p)
  PROVE  ExpoInv'
<1>1. CASE Pushing!sendIncomingCall(s, p)
  <2>1. PICK r : /\ s \in Pushing!Rings /\ UNCHANGED reached
                 /\ Pushing!Sends(s, p, IF s = "ringVoip" THEN "voip" ELSE "fcm", r)
    BY <1>1, ZenonT(30) DEF Pushing!sendIncomingCall
  <2>2. PICK via \in {"fcm", "voip"} : via = IF s = "ringVoip" THEN "voip" ELSE "fcm"
    OBVIOUS
  <2>3. Pushing!Sends(s, p, via, r)
    BY <2>1, <2>2
  <2>4. (\A t \in Pushing!Senders : t # s => sender'[t] = sender[t]) /\ unsteady \subseteq unsteady'
        /\ UNCHANGED <<keys, hushed, rethought>>
    BY <2>3, SendsDoes
  <2> QED BY <2>1, <2>4, SenderNames, ExpoQuiet
<1>2. CASE Pushing!sendCancel(s, p)
  <2>1. PICK r : /\ s \in Pushing!Cancels /\ UNCHANGED reached
                 /\ Pushing!Sends(s, p, IF s = "cancelVoip" THEN "voip" ELSE "fcm", r)
    BY <1>2, ZenonT(30) DEF Pushing!sendCancel
  <2>2. PICK via \in {"fcm", "voip"} : via = IF s = "cancelVoip" THEN "voip" ELSE "fcm"
    OBVIOUS
  <2>3. Pushing!Sends(s, p, via, r)
    BY <2>1, <2>2
  <2>4. (\A t \in Pushing!Senders : t # s => sender'[t] = sender[t]) /\ unsteady \subseteq unsteady'
        /\ UNCHANGED <<keys, hushed, rethought>>
    BY <2>3, SendsDoes
  <2> QED BY <2>1, <2>4, SenderNames, ExpoQuiet
<1> QED BY <1>1, <1>2

LEMMA ExpoCallBeginsEnds ==
  ASSUME PushInv, ExpoInv, Pushing!initiate \/ Pushing!ringExpo \/ Pushing!finalize
  PROVE  ExpoInv'
<1>1. UNCHANGED <<keys, hushed, rethought, reached, unsteady>>
  BY DEF Pushing!initiate, Pushing!ringExpo, Pushing!finalize, Pushing!Still
<1>2. "chat" \in Pushing!Senders /\ \A starts \in SUBSET (Pushing!Rings \cup Pushing!Cancels) : "chat" \notin starts
  BY SenderNames
<1>3. ASSUME NEW starts \in SUBSET (Pushing!Rings \cup Pushing!Cancels), Pushing!Start(starts)
      PROVE  sender'["chat"] = sender["chat"]
  BY <1>2, <1>3 DEF Pushing!Start
<1>4. sender'["chat"] = sender["chat"]
  <2>1. CASE Pushing!initiate
    <3>1. PICK starts \in SUBSET (Pushing!Rings \cup Pushing!Cancels) : Pushing!Start(starts)
      <4>1. CASE keys.voip /\ Pushing!Of(voipRows) # {}
        <5>1. PICK starts \in SUBSET Pushing!Rings : starts = {"ringVoip"} \cup (IF keys.fcm THEN {"ringFcm"} ELSE {})
          BY SenderNames
        <5>2. Pushing!Start(starts)
          BY <2>1, <4>1, <5>1 DEF Pushing!initiate
        <5> QED BY <5>2
      <4>2. CASE ~(keys.voip /\ Pushing!Of(voipRows) # {})
        <5>1. PICK starts \in SUBSET Pushing!Rings : starts = {} \cup (IF keys.fcm THEN {"ringFcm"} ELSE {})
          BY SenderNames
        <5>2. Pushing!Start(starts)
          BY <2>1, <4>2, <5>1 DEF Pushing!initiate
        <5> QED BY <5>2
      <4> QED BY <4>1, <4>2
    <3> QED BY <1>3, <3>1
  <2>2. CASE Pushing!ringExpo
    BY <2>2 DEF Pushing!ringExpo
  <2>3. CASE Pushing!finalize
    <3>1. PICK starts \in SUBSET Pushing!Cancels :
            starts = (IF keys.fcm THEN {"cancelFcm"} ELSE {}) \cup (IF keys.voip THEN {"cancelVoip"} ELSE {})
      BY SenderNames
    <3>2. Pushing!Start(starts)
      BY <2>3, <3>1 DEF Pushing!finalize
    <3> QED BY <1>3, <3>2
  <2> QED BY <2>1, <2>2, <2>3
<1> QED BY <1>1, <1>4, ExpoQuiet

LEMMA ExpoBegin == ASSUME PushInv, ExpoInv, NEW s \in Pushing!Senders, Pushing!Begin(s) PROVE ExpoInv'
<1>1. UNCHANGED <<keys, hushed, rethought, reached, unsteady>>
      /\ (\A t \in Pushing!Senders : t # s => sender'[t] = sender[t])
      /\ sender[s].pc = "read" /\ sender'[s].pc = "send"
  BY BeginsDoes
<1>2. CASE s # "chat"
  BY <1>1, <1>2, SenderNames, ExpoQuiet
<1>3. CASE s = "chat"
  <2>1. sender' = [sender EXCEPT ![s] = [@ EXCEPT !.pc = "send", !.left = Pushing!Tokens(s)]]
    BY DEF Pushing!Begin
  <2>2. sender[s] \in SenderState /\ sender \in [Pushing!Senders -> SenderState]
    BY DEF PushInv, PushTypes
  <2>3. sender'[s].sent = sender[s].sent
    BY <2>1, <2>2 DEF SenderState
  <2>4. FirebaseFirst'
    BY <1>1, <1>3, <2>3 DEF ExpoInv, FirebaseFirst
  <2> QED BY <1>1, <1>3, <2>4, ExpoRest
<1> QED BY <1>2, <1>3

LEMMA ExpoNotify == ASSUME PushInv, ExpoInv, NEW p \in Phones, Pushing!notifyNewMessage(p) PROVE ExpoInv'
<1>1. PICK r : /\ Pushing!Sends("chat", p, "fcm", r)
               /\ reached' = IF r = "taken" THEN reached \cup {<<"fcm", p>>} ELSE reached
  BY DEF Pushing!notifyNewMessage
<1>2. /\ sender["chat"].pc = "send" /\ sender'["chat"].pc = "send"
      /\ r # "taken" => sender'["chat"].sent = sender["chat"].sent
      /\ unsteady \subseteq unsteady' /\ UNCHANGED <<keys, hushed, rethought>>
  BY <1>1, SendsDoes, SenderNames
<1>3. FirebaseFirst'
  BY <1>1, <1>2 DEF ExpoInv, FirebaseFirst
<1> QED BY <1>1, <1>2, <1>3, ExpoRest

\* At(pc) with what it leaves alone.
LEMMA AtKeeps ==
  ASSUME PushInv, NEW pc \in Steps, Pushing!At(pc)
  PROVE  sender'["chat"].pc = pc /\ sender'["chat"].sent = sender["chat"].sent
<1>1. sender \in [Pushing!Senders -> SenderState] /\ sender["chat"] \in SenderState /\ "chat" \in Pushing!Senders
  BY SenderNames DEF PushInv, PushTypes
<1> QED BY <1>1 DEF Pushing!At, SenderState

LEMMA ExpoSilence == ASSUME PushInv, ExpoInv, Pushing!blockers \/ Pushing!mutes PROVE ExpoInv'
<1>1. UNCHANGED <<keys, hushed, rethought, reached, unsteady>>
  BY DEF Pushing!blockers, Pushing!mutes, Pushing!ChatStep, Pushing!Still
<1>2. PICK pc \in {"done", "mutes", "read", "expo"} :
        Pushing!At(pc) /\ (pc = "done" => hushed # {}) /\ (pc = "read" => keys.fcm)
  <2>1. CASE Pushing!blockers
    <3>1. PICK pc \in {"done", "mutes"} : pc = IF "blocks" \in hushed THEN "done" ELSE "mutes"
      OBVIOUS
    <3>2. Pushing!At(pc)
      BY <2>1, <3>1 DEF Pushing!blockers
    <3> QED BY <3>1, <3>2
  <2>2. CASE Pushing!mutes
    <3>1. PICK pc \in {"done", "read", "expo"} : pc = IF "mutes" \in hushed THEN "done" ELSE IF keys.fcm THEN "read" ELSE "expo"
      OBVIOUS
    <3>2. Pushing!At(pc)
      BY <2>2, <3>1 DEF Pushing!mutes
    <3> QED BY <3>1, <3>2
  <2> QED BY <2>1, <2>2
<1>3. sender'["chat"].pc = pc /\ sender'["chat"].sent = sender["chat"].sent
  BY <1>2, AtKeeps DEF Steps
<1>4. FirebaseFirst'
  BY <1>1, <1>2, <1>3 DEF ExpoInv, FirebaseFirst
<1>5. CASE pc = "done"
  BY <1>1, <1>2, <1>4, <1>5 DEF ExpoInv, OverExpo
<1>6. CASE pc # "done"
  BY <1>1, <1>3, <1>4, <1>6, ExpoRest
<1> QED BY <1>5, <1>6

LEMMA ExpoFalls == ASSUME PushInv, ExpoInv, Pushing!fallThrough PROVE ExpoInv'
<1>1. sender["chat"].pc = "send" /\ UNCHANGED <<keys, hushed, rethought, reached, unsteady>>
  BY DEF Pushing!fallThrough, Pushing!ChatStep, Pushing!Still
<1>2. PICK pc \in {"done", "expo"} : Pushing!At(pc) /\ (pc = "done" => sender["chat"].sent # 0)
  <2>1. sender["chat"].sent \in Nat
    BY SenderNames, SenderFields DEF PushInv
  <2>2. CASE sender["chat"].sent > 0
    <3>1. Pushing!At("done")
      BY <2>2 DEF Pushing!fallThrough
    <3>2. sender["chat"].sent # 0
      BY <2>1, <2>2
    <3> QED BY <3>1, <3>2
  <2>3. CASE ~(sender["chat"].sent > 0)
    <3>1. Pushing!At("expo")
      BY <2>3 DEF Pushing!fallThrough
    <3> QED BY <3>1
  <2> QED BY <2>2, <2>3
<1>3. sender'["chat"].pc = pc /\ sender'["chat"].sent = sender["chat"].sent
  BY <1>2, AtKeeps DEF Steps
<1>4. FirebaseFirst'
  BY <1>1, <1>2, <1>3 DEF ExpoInv, FirebaseFirst
<1>5. CASE pc = "done"
  <2>1. Pushing!LeftToFirebase'
    BY <1>1, <1>2, <1>5 DEF ExpoInv, FirebaseFirst, Pushing!LeftToFirebase
  <2> QED BY <1>4, <2>1 DEF ExpoInv, OverExpo
<1>6. CASE pc # "done"
  BY <1>1, <1>3, <1>4, <1>6, ExpoRest
<1> QED BY <1>5, <1>6

LEMMA ExpoPosts == ASSUME PushInv, ExpoInv, Pushing!postToExpo PROVE ExpoInv'
<1>1. PICK taken \in SUBSET (Pushing!Of(expoRows) \cap live) :
        /\ Pushing!At("done") /\ UNCHANGED <<keys, hushed, rethought>>
        /\ reached' = reached \cup {<<"expo", p>> : p \in taken}
        /\ keys.expo => IF taken = {} THEN unsteady' = Phones
                                     ELSE unsteady' = unsteady \cup (Pushing!Of(expoRows) \ taken)
  BY DEF Pushing!postToExpo, Pushing!ChatStep, Pushing!Still
<1>2. sender'["chat"].pc = "done" /\ sender'["chat"].sent = sender["chat"].sent
  BY <1>1, AtKeeps DEF Steps
<1>3. FirebaseFirst'
  BY <1>1, <1>2 DEF ExpoInv, FirebaseFirst
<1>4. ASSUME NEW p \in Phones
      PROVE  OverExpo(p)'
  <2> SUFFICES ASSUME keys.expo, p \notin unsteady'
               PROVE  <<"expo", p>> \in reached'
    BY <1>1 DEF OverExpo
  <2>1. p \notin unsteady /\ (p \in Pushing!Of(expoRows) => p \in taken)
    BY <1>1
  <2>2. p \in Pushing!Of(expoRows)
    BY <2>1 DEF PushInv, Steady, Pushing!Of
  <2> QED BY <1>1, <2>1, <2>2
<1> QED BY <1>3, <1>4 DEF ExpoInv

LEMMA ExpoHush == ASSUME PushInv, ExpoInv, NEW how \in {"blocks", "mutes"}, Pushing!Hush(how) PROVE ExpoInv'
<1>1. /\ rethought' = (rethought \/ sender["chat"] # Pushing!Rest)
      /\ UNCHANGED <<keys, sender, reached>>
  BY DEF Pushing!Hush, Pushing!Sees
<1>2. FirebaseFirst'
  BY <1>1 DEF ExpoInv, FirebaseFirst
<1>3. ASSUME NEW p \in Phones
      PROVE  OverExpo(p)'
  BY <1>1, AtRest DEF OverExpo
<1> QED BY <1>2, <1>3 DEF ExpoInv

LEMMA ExpoDies == ASSUME PushInv, ExpoInv, Pushing!Die PROVE ExpoInv'
<1>1. sender' = [t \in Pushing!Senders |-> Pushing!Done] /\ unsteady' = Phones
  BY DEF Pushing!Die
<1>2. sender'["chat"].pc = "done" /\ sender'["chat"].sent = 0
  BY <1>1, AtRest, SenderNames
<1> QED BY <1>1, <1>2 DEF ExpoInv, FirebaseFirst, OverExpo

LEMMA ExpoStays ==
  ASSUME PushInv, ExpoInv, [WorkspaceNext]_<<part, access, posting, signing, mailbox, sorting, places, pushing>>
  PROVE  ExpoInv'
<1>1. CASE UNCHANGED pushing
  BY <1>1, ExpoQuiet DEF pushing
<1>2. CASE Pushing!PushNext
  BY <1>2, ExpoPhones, ExpoCalls, ExpoCallBeginsEnds, ExpoBegin, ExpoNotify, ExpoSilence, ExpoFalls, ExpoPosts,
     ExpoHush, ExpoDies DEF Pushing!PushNext
<1> QED BY <1>1, <1>2 DEF WorkspaceNext

LEMMA PushShows == ASSUME PushInv, ExpoInv PROVE PushHolds
<1>1. Pushing!PushTypeOK
  BY DEF PushInv, PushTypes, Pushing!PushTypeOK, Pushing!None, TokenRows, Ways
<1>2. Pushing!RungOneWay
  <2> SUFFICES ASSUME NEW p \in Phones \ Unnamed, NEW s \in rung[p], NEW t \in rung[p], s # t
               PROVE  FALSE
    BY DEF Pushing!RungOneWay
  <2>1. s \in {"expo", "ringVoip", "ringFcm"} /\ t \in {"expo", "ringVoip", "ringFcm"}
    BY DEF PushInv, PushTypes
  <2>2. "expo" \notin rung[p]
    BY <2>1, SenderNames DEF PushInv, AimedOnly
  <2>3. Aimed("ringVoip", p) /\ Aimed("ringFcm", p)
    BY <2>1, <2>2, SenderNames DEF PushInv, AimedOnly
  <2> QED BY <2>3, PushConstants DEF Aimed, Pushing!NamedIos
<1>3. Pushing!LeftOutOnlyIfShadowed
  <2> SUFFICES ASSUME keys.fcm, call.stage = "rung", \A s \in Pushing!Rings : Pushing!Over(s),
                      NEW p \in Pushing!Of(fcmRows) \ unsteady
               PROVE  rung[p] # {} \/ (call.hasVoip /\ p \in Pushing!NamedIos \ Pushing!Of(voipRows))
    BY DEF Pushing!LeftOutOnlyIfShadowed
  <2>1. p \in Phones /\ p \notin unsteady
    BY DEF Pushing!Of
  <2>2. \A s \in Pushing!Rings : sender[s].left = {} /\ sender[s].pc # "read"
    BY DEF Pushing!Over
  <2>3. ASSUME NEW s \in Pushing!Rings, sender[s].pc # "rest", Aimed(s, p)
        PROVE  rung[p] # {}
    <3>1. s \in Pushing!Senders /\ s # "chat"
      BY SenderNames
    <3>2. sender[s].pc # "done"
      BY <2>1, <3>1 DEF PushInv, AskedFor
    <3>3. sender[s].pc = "send"
      BY <2>2, <2>3, <3>1, <3>2, SenderFields DEF PushInv, Steps
    <3> QED BY <2>1, <2>2, <2>3, <3>3 DEF PushInv, RungOrLeft
  <2>4. CASE ~(call.hasVoip /\ p \in Pushing!NamedIos)
    <3>1. p \in firebase
      BY <2>1, PushConstants DEF PushInv, PushTypes, Pushing!Of
    <3>2. Aimed("ringFcm", p) /\ sender["ringFcm"].pc # "rest" /\ "ringFcm" \in Pushing!Rings
      BY <2>4, <3>1, SenderNames DEF PushInv, AskedFor, Aimed
    <3> QED BY <2>3, <3>2
  <2>5. CASE call.hasVoip /\ p \in Pushing!Of(voipRows)
    <3>1. voipRows[p] # "none"
      BY <2>1, <2>5, PushConstants DEF Pushing!Of
    <3>2. Aimed("ringVoip", p) /\ sender["ringVoip"].pc # "rest" /\ "ringVoip" \in Pushing!Rings
      BY <2>1, <2>5, <3>1, SenderNames DEF PushInv, PushTypes, AskedFor, Aimed
    <3> QED BY <2>3, <3>2
  <2> QED BY <2>4, <2>5
<1>4. Pushing!StopsRingingUnlessLate
  <2> SUFFICES ASSUME call.over, \A s \in Pushing!Rings \cup Pushing!Cancels : Pushing!Over(s),
                      NEW p \in rings, p \notin unsteady \cup belated
               PROVE  FALSE
    BY DEF Pushing!StopsRingingUnlessLate
  <2>1. p \in Phones
    BY DEF PushInv, PushTypes
  <2>2. PICK c \in Pushing!Cancels : sender[c].pc = "read" \/ p \in sender[c].left
    BY <2>1 DEF PushInv, ToBeCancelled
  <2> QED BY <2>2 DEF Pushing!Over
<1>5. Pushing!PushedUnlessSilencedOrLeftToFirebase
  <2>1. reached # {} => hushed = {} \/ rethought
    BY DEF PushInv, Heard
  <2>2. (keys.fcm /\ sender["chat"].pc = "done" /\ hushed = {} /\ ~rethought) =>
          \A p \in Pushing!Of(fcmRows) \ unsteady : <<"fcm", p>> \in reached
    <3> SUFFICES ASSUME keys.fcm, sender["chat"].pc = "done", hushed = {}, ~rethought,
                        NEW p \in Pushing!Of(fcmRows) \ unsteady
                 PROVE  <<"fcm", p>> \in reached
      OBVIOUS
    <3>1. p \in Phones /\ fcmRows[p] = Callee /\ Callee # "none"
      BY PushConstants DEF Pushing!Of
    <3>2. p \in firebase
      BY <3>1 DEF PushInv, PushTypes
    <3> QED BY <3>1, <3>2 DEF PushInv, Delivered
  <2>4. (sender["chat"].pc = "done" /\ hushed = {} /\ ~rethought) =>
          \A p \in Pushing!Of(expoRows) \ unsteady : <<"expo", p>> \in reached \/ Pushing!LeftToFirebase \/ ~keys.expo
    BY DEF ExpoInv, OverExpo, Pushing!Of
  <2>3. (\E p \in Phones : <<"expo", p>> \in reached) => ~\E p \in Phones : <<"fcm", p>> \in reached
    BY DEF PushInv, OneTransport
  <2> QED BY <2>1, <2>2, <2>3, <2>4 DEF Pushing!PushedUnlessSilencedOrLeftToFirebase
<1> QED BY <1>1, <1>2, <1>3, <1>4, <1>5 DEF PushHolds

\* The senders of push.service.ts over FCM, VoIP and Expo tokens, for any people and phones, any
\* builds among them without Firebase, and however tokens move: a phone that named its platform
\* rings in one way, one with a Firebase token is left out only where it has no VoIP token and
\* another of the person has, ringing stops with the call unless it began later, and a message
\* goes to nobody who has silenced its author and to every phone with a token of anybody else,
\* but for those left to Firebase because another phone of theirs has it, those that only a
\* disabled Expo could reach, and what changed or failed on the way.
THEOREM PhonesKeepTheirWord == WorkspaceSpec => []PushHolds
<1>1. WorkspaceInit => PushInv /\ ExpoInv
  <2>1. ASSUME WorkspaceInit
        PROVE  ExpoInv
    <3>1. sender = [s \in Pushing!Senders |-> Pushing!Rest] /\ unsteady = {}
      BY <2>1 DEF WorkspaceInit, Pushing!PushInit
    <3>2. sender["chat"].pc = "rest" /\ sender["chat"].sent = 0
      BY <3>1, AtRest, SenderNames
    <3> QED BY <3>2 DEF ExpoInv, FirebaseFirst, OverExpo
  <2> QED BY <2>1, PushBegins
<1>2. PushInv /\ ExpoInv /\ [WorkspaceNext]_<<part, access, posting, signing, mailbox, sorting, places, pushing>> =>
        PushInv' /\ ExpoInv'
  BY PushStays, ExpoStays
<1>3. PushInv /\ ExpoInv => PushHolds
  BY PushShows
<1> QED BY <1>1, <1>2, <1>3, PTL DEF WorkspaceSpec

-----------------------------------------------------------------------------
(* Who sees an alert and who is pushed one. *)

Grants     == SUBSET Channels
Watching   == [taken : {TRUE}, role : [Staff -> Access!Roles], at : [Staff -> SUBSET BranchIds],
               active : SUBSET Staff, off : SUBSET Staff]
GrantAsk   == [phase : {"wanted", "clean"}, person : Staff, alerts : Grants, asked : Grants, unasked : Grants]
RecordedPush == [phase : {"recorded"}, event : Access!Events, by : Staff \cup {"nobody"}]
AimedPush    == [phase : {"aimed", "sent"}, event : Access!Events, by : Staff \cup {"nobody"}, to : SUBSET Staff,
               stale : SUBSET Staff, blind : BOOLEAN]

AccessTypes ==
  /\ role \in [Staff -> Access!Roles] /\ at \in [Staff -> SUBSET BranchIds]
  /\ active \subseteq Staff /\ off \subseteq Staff /\ stale \subseteq Staff /\ crossed \subseteq Staff
  /\ stored \in [Staff -> SUBSET (Channels \ BranchWide)] /\ said \in [Staff -> Grants]
  /\ muted \subseteq Staff \X Channels
  /\ cache \in {Access!NoReading} \cup Watching
  /\ handler \in [Granting -> {Access!Idle} \cup GrantAsk]
  /\ \A h \in Granting : handler[h].phase = "clean" => handler[h].alerts \cap BranchWide = {}
  /\ push \in [Pushes -> {Access!Idle} \cup RecordedPush \cup AimedPush]
  /\ changes \in 0..MaxGrants

\* What was read of those whose rows did not change since is what the rows say.
ReadOf(p) == /\ cache.role[p] = role[p] /\ cache.at[p] = at[p]
             /\ (p \in cache.active <=> p \in active) /\ (p \in cache.off <=> p \in off)

CacheTells == cache.taken => \A p \in Staff \ stale : ReadOf(p)

\* A push that has read its audience is for those entitled to it.
MayHear(e, p) == Access!Entitled(p, push[e].event, push[e].by)
Unmuted(e, p) == push[e].blind \/ <<p, Access!MuteKey(push[e].event)>> \notin muted

AimedWell(e) ==
  push[e].phase \in {"aimed", "sent"} =>
    \A p \in Staff \ push[e].stale :
      p \in push[e].to <=> MayHear(e, p) /\ (push[e].phase = "sent" => Unmuted(e, p))

\* Requests for one person at a time, and what one of them is about to store was asked for.
Alone ==
  \A h, o \in Granting :
    h # o /\ handler[h].phase # "idle" /\ handler[o].phase # "idle" /\ handler[h].person = handler[o].person =>
      handler[h].person \in crossed

AsksFor(h) ==
  handler[h].phase # "idle" /\ handler[h].person \notin crossed =>
    handler[h].alerts \subseteq (said[handler[h].person] \cup handler[h].asked) \ handler[h].unasked

AccessInv ==
  /\ AccessTypes /\ CacheTells /\ \A e \in Pushes : AimedWell(e)
  /\ Alone /\ \A h \in Granting : AsksFor(h)
  /\ \A p \in Staff \ crossed : stored[p] \subseteq said[p]

LEMMA AtIdle ==
  /\ Access!Idle.phase = "idle" /\ Access!NoReading.taken = FALSE
  /\ \A m \in RecordedPush : m.phase = "recorded" /\ m.event \in Access!Events
  /\ \A m \in GrantAsk : m.phase \in {"wanted", "clean"}
  /\ \A w \in Watching : w.taken
BY DEF Access!Idle, Access!NoReading, RecordedPush, GrantAsk, Watching

LEMMA AimedFields ==
  ASSUME NEW m \in AimedPush
  PROVE  /\ m.phase \in {"aimed", "sent"} /\ m.event \in Access!Events /\ m.by \in Staff \cup {"nobody"}
         /\ m.to \subseteq Staff /\ m.stale \subseteq Staff /\ m.blind \in BOOLEAN
BY DEF AimedPush

LEMMA PushKinds ==
  ASSUME AccessTypes, NEW e \in Pushes
  PROVE  /\ push[e].phase = "idle" => push[e] = Access!Idle
         /\ push[e].phase = "recorded" => push[e] \in RecordedPush
         /\ push[e].phase \in {"aimed", "sent"} => push[e] \in AimedPush
         /\ push[e].phase \in {"idle", "recorded", "aimed", "sent"}
<1>1. push[e] = Access!Idle \/ push[e] \in RecordedPush \/ push[e] \in AimedPush
  BY DEF AccessTypes
<1> QED BY <1>1, AtIdle, AimedFields

LEMMA HandlerKinds ==
  ASSUME AccessTypes, NEW h \in Granting
  PROVE  /\ handler[h].phase = "idle" <=> handler[h] = Access!Idle
         /\ handler[h].phase # "idle" => /\ handler[h] \in GrantAsk /\ handler[h].phase \in {"wanted", "clean"}
                                         /\ handler[h].person \in Staff /\ handler[h].alerts \subseteq Channels
                                         /\ handler[h].asked \subseteq Channels /\ handler[h].unasked \subseteq Channels
<1>1. handler[h] = Access!Idle \/ handler[h] \in GrantAsk
  BY DEF AccessTypes
<1>2. CASE handler[h] = Access!Idle
  BY <1>2, AtIdle
<1>3. CASE handler[h] \in GrantAsk
  BY <1>3, AtIdle DEF GrantAsk, Grants
<1> QED BY <1>1, <1>2, <1>3

-----------------------------------------------------------------------------
(* The feed and the push agree. *)

\* A branch's members, by what was read of them.
LEMMA MembersAre ==
  ASSUME NEW aud \in Watching, NEW code, NEW p \in Staff
  PROVE  p \in Access!Members(aud, code) <=>
           p \in aud.active /\ (Access!SeesCompany(aud.role[p]) \/ code \in Access!Codes(aud.at[p]))
<1>1. aud.at[p] \subseteq BranchIds
  BY DEF Watching
<1>2. code \in Access!Codes(aud.at[p]) <=> aud.at[p] \cap {b \in BranchIds : Alias[CodeOf[b]] = code} # {}
  BY <1>1 DEF Access!Codes
<1> QED BY <1>2 DEF Access!Members

\* Of somebody whose rows were read as they are, the audience says what the feed lists.
LEMMA AudienceIs ==
  ASSUME AccessTypes, NEW aud \in Watching, NEW c \in Channels, NEW p \in Staff,
         aud.role[p] = role[p], aud.at[p] = at[p], p \in aud.active <=> p \in active
  PROVE  p \in Access!Audience(aud, c, {q \in Staff : c \in stored[q]}) <=> p \in active /\ c \in Access!Visible(p)
<1>1. p \in Access!Members(aud, ChannelBranch[c]) <=>
        p \in active /\ (Access!SeesCompany(role[p]) \/ ChannelBranch[c] \in Access!Codes(at[p]))
  BY MembersAre
<1>2. stored[p] \subseteq Channels \ BranchWide
  BY DEF AccessTypes
<1>3. p \in Access!Audience(aud, c, {q \in Staff : c \in stored[q]}) <=>
        /\ p \in active
        /\ \/ Access!IsSuper(role[p])
           \/ IF c \in CompanyWide THEN c \in stored[p]
              ELSE IF c \in BranchWide THEN Access!SeesCompany(role[p]) \/ ChannelBranch[c] \in Access!Codes(at[p])
              ELSE c \in stored[p] /\ (Access!SeesCompany(role[p]) \/ ChannelBranch[c] \in Access!Codes(at[p]))
  BY <1>1 DEF Access!Audience
<1>4. c \in Access!Effective(stored[p], role[p], at[p]) <=>
        \/ c \in stored[p] /\ (Access!SeesCompany(role[p]) \/ c \in CompanyWide \/ ChannelBranch[c] \in Access!Codes(at[p]))
        \/ c \in BranchWide /\ (Access!SeesCompany(role[p]) \/ ChannelBranch[c] \in Access!Codes(at[p]))
  BY <1>2 DEF Access!Effective, Access!WithinBranches, Access!ByBranch
<1>5. c \in Access!Visible(p) <=> Access!IsSuper(role[p]) \/ c \in Access!Effective(stored[p], role[p], at[p])
  BY DEF Access!Visible
<1> QED BY <1>2, <1>3, <1>4, <1>5, AccessConstants

LEMMA ReachedAre ==
  ASSUME AccessTypes, NEW aud \in Watching, NEW ev \in Access!Events, NEW by
  PROVE  /\ Access!Reached(ev, by, aud) \subseteq Staff
         /\ \A p \in Staff : (/\ aud.role[p] = role[p] /\ aud.at[p] = at[p]
                              /\ (p \in aud.active <=> p \in active) /\ (p \in aud.off <=> p \in off)) =>
              (p \in Access!Reached(ev, by, aud) <=> Access!Entitled(p, ev, by))
<1>1. aud.active \subseteq Staff /\ active \subseteq Staff
  BY DEF Watching, AccessTypes
<1>2. CASE ev.kind = "channel"
  <2>1. ev.channel \in Channels
    BY <1>2 DEF Access!Events
  <2>2. Access!Reached(ev, by, aud) = Access!Audience(aud, ev.channel, {p \in Staff : ev.channel \in stored[p]}) \ (aud.off \cup {by})
    BY <1>2 DEF Access!Reached
  <2>3. \A p : Access!Entitled(p, ev, by) <=> p # by /\ p \notin off /\ p \in active /\ ev.channel \in Access!Visible(p)
    BY <1>2 DEF Access!Entitled, Access!Admitted
  <2>4. Access!Audience(aud, ev.channel, {p \in Staff : ev.channel \in stored[p]}) \subseteq Staff
    BY <1>1 DEF Access!Audience, Access!Members
  <2> QED BY <2>1, <2>2, <2>3, <2>4, AudienceIs
<1>3. CASE ev.kind = "announcement"
  <2>1. Access!Reached(ev, by, aud) = active \ (aud.off \cup {by})
    BY <1>3 DEF Access!Reached
  <2>2. \A p : Access!Entitled(p, ev, by) <=> p # by /\ p \notin off /\ p \in active
    BY <1>3 DEF Access!Entitled
  <2> QED BY <1>1, <2>1, <2>2
<1>4. CASE ev.kind \in {"named", "personal"}
  <2>1. Access!Reached(ev, by, aud) = ev.to \ (aud.off \cup {by})
    BY <1>4 DEF Access!Reached
  <2>2. \A p : Access!Entitled(p, ev, by) <=> p # by /\ p \notin off /\ p \in ev.to
    BY <1>4 DEF Access!Entitled
  <2>3. ev.to \subseteq Staff
    BY <1>4 DEF Access!Events
  <2> QED BY <2>1, <2>2, <2>3
<1>5. ev.kind \in {"channel", "announcement", "named", "personal"}
  BY DEF Access!Events
<1> QED BY <1>2, <1>3, <1>4, <1>5

LEMMA EntitledSame ==
  ASSUME NEW p, NEW ev, NEW by, role'[p] = role[p], at'[p] = at[p], stored'[p] = stored[p],
         p \in active' <=> p \in active, p \in off' <=> p \in off
  PROVE  Access!Entitled(p, ev, by)' <=> Access!Entitled(p, ev, by)
<1>1. Access!Visible(p)' = Access!Visible(p)
  BY DEF Access!Visible
<1> QED BY <1>1 DEF Access!Entitled, Access!Admitted

-----------------------------------------------------------------------------
(* Rows change. *)

LEMMA ChangedDoes ==
  ASSUME AccessTypes, NEW p \in Staff, Access!Changed(p)
  PROVE  /\ changes' \in 0..MaxGrants /\ stale' = stale \cup {p} /\ stale' \subseteq Staff
         /\ push' \in [Pushes -> {Access!Idle} \cup RecordedPush \cup AimedPush]
         /\ \A e \in Pushes : push'[e].phase \in {"aimed", "sent"} =>
              /\ push'[e].phase = push[e].phase /\ push'[e].event = push[e].event /\ push'[e].by = push[e].by
              /\ push'[e].to = push[e].to /\ push'[e].blind = push[e].blind /\ push'[e].stale = push[e].stale \cup {p}
<1>1. /\ changes < MaxGrants /\ changes' = changes + 1 /\ stale' = stale \cup {p}
      /\ push' = [e \in Pushes |-> IF push[e].phase \in {"idle", "recorded"} THEN push[e]
                                   ELSE [push[e] EXCEPT !.stale = @ \cup {p}]]
  BY DEF Access!Changed
<1>2. changes' \in 0..MaxGrants /\ stale' \subseteq Staff
  BY <1>1, AccessConstants DEF AccessTypes
<1>3. ASSUME NEW e \in Pushes
      PROVE  /\ push'[e] \in {Access!Idle} \cup RecordedPush \cup AimedPush
             /\ push'[e].phase \in {"aimed", "sent"} =>
                  /\ push'[e].phase = push[e].phase /\ push'[e].event = push[e].event /\ push'[e].by = push[e].by
                  /\ push'[e].to = push[e].to /\ push'[e].blind = push[e].blind /\ push'[e].stale = push[e].stale \cup {p}
  <2>1. CASE push[e].phase \in {"idle", "recorded"}
    <3>1. push'[e] = push[e]
      BY <1>1, <2>1
    <3> QED BY <2>1, <3>1 DEF AccessTypes
  <2>2. CASE push[e].phase \notin {"idle", "recorded"}
    <3>1. push[e] \in AimedPush
      BY <2>2, PushKinds
    <3>2. push'[e] = [push[e] EXCEPT !.stale = @ \cup {p}]
      BY <1>1, <2>2
    <3>3. PICK m \in AimedPush : m = push[e]
      BY <3>1
    <3>4. push'[e] = [m EXCEPT !.stale = m.stale \cup {p}]
      BY <3>2, <3>3
    <3> QED BY <3>3, <3>4 DEF AimedPush
  <2> QED BY <2>1, <2>2
<1> QED BY <1>1, <1>2, <1>3

\* A change is of one person.
LEMMA OthersHear ==
  ASSUME AccessInv, NEW p \in Staff, Access!Changed(p), cache' = cache,
         \A q \in Staff \ {p} : /\ role'[q] = role[q] /\ at'[q] = at[q] /\ stored'[q] = stored[q]
                                /\ (q \in active' <=> q \in active) /\ (q \in off' <=> q \in off)
                                /\ \A c : <<q, c>> \in muted' <=> <<q, c>> \in muted
  PROVE  CacheTells' /\ \A e \in Pushes : AimedWell(e)'
<1>1. AccessTypes /\ stale' = stale \cup {p}
  BY ChangedDoes DEF AccessInv
<1>2. CacheTells'
  BY <1>1 DEF AccessInv, CacheTells, ReadOf
<1>3. ASSUME NEW e \in Pushes
      PROVE  AimedWell(e)'
  <2> SUFFICES ASSUME push'[e].phase \in {"aimed", "sent"}, NEW q \in Staff \ push'[e].stale
               PROVE  q \in push'[e].to <=> MayHear(e, q)' /\ (push'[e].phase = "sent" => Unmuted(e, q)')
    BY DEF AimedWell
  <2>1. /\ push'[e].phase = push[e].phase /\ push'[e].event = push[e].event /\ push'[e].by = push[e].by
        /\ push'[e].to = push[e].to /\ push'[e].blind = push[e].blind /\ push'[e].stale = push[e].stale \cup {p}
    BY <1>1, ChangedDoes
  <2>2. q \in push[e].to <=> MayHear(e, q) /\ (push[e].phase = "sent" => Unmuted(e, q))
    BY <2>1 DEF AccessInv, AimedWell
  <2>3. PICK ev : ev = push[e].event
    OBVIOUS
  <2>4. PICK by : by = push[e].by
    OBVIOUS
  <2>5. Access!Entitled(q, ev, by)' <=> Access!Entitled(q, ev, by)
    BY <2>1, EntitledSame
  <2>6. MayHear(e, q)' <=> MayHear(e, q)
    BY <2>1, <2>3, <2>4, <2>5 DEF MayHear
  <2>7. Unmuted(e, q)' <=> Unmuted(e, q)
    BY <2>1, <2>3 DEF Unmuted
  <2> QED BY <2>1, <2>2, <2>6, <2>7
<1> QED BY <1>2, <1>3

\* And what requests are about stays.
LEMMA AsksStay ==
  ASSUME AccessInv, UNCHANGED <<handler, said, crossed>>
  PROVE  Alone' /\ \A h \in Granting : AsksFor(h)'
BY DEF AccessInv, Alone, AsksFor

LEMMA HireStays == ASSUME AccessInv, NEW p \in Staff, Access!Hire(p) PROVE AccessInv'
<1>1. Access!Changed(p) /\ UNCHANGED <<stored, off, muted, cache, handler, said, crossed>>
  BY DEF Access!Hire
<1>2. AccessTypes
  BY DEF AccessInv
<1>3. /\ role' \in [Staff -> Access!Roles] /\ at' \in [Staff -> SUBSET BranchIds] /\ active' \subseteq Staff
      /\ \A q \in Staff \ {p} : role'[q] = role[q] /\ at'[q] = at[q] /\ (q \in active' <=> q \in active)
  <2>1. CASE role' \in {[role EXCEPT ![p] = r] : r \in Access!Roles \ {role[p]}} /\ UNCHANGED <<at, active>>
    BY <1>2, <2>1 DEF AccessTypes
  <2>2. CASE at' \in {[at EXCEPT ![p] = ids] : ids \in (SUBSET BranchIds) \ {at[p]}} /\ UNCHANGED <<role, active>>
    BY <1>2, <2>2 DEF AccessTypes
  <2>3. CASE active' = (IF p \in active THEN active \ {p} ELSE active \cup {p}) /\ UNCHANGED <<role, at>>
    BY <1>2, <2>3 DEF AccessTypes
  <2> QED BY <2>1, <2>2, <2>3 DEF Access!Hire
<1>4. AccessTypes'
  BY <1>1, <1>2, <1>3, ChangedDoes DEF AccessTypes
<1>5. CacheTells' /\ \A e \in Pushes : AimedWell(e)'
  BY <1>1, <1>3, OthersHear
<1> QED BY <1>1, <1>4, <1>5, AsksStay DEF AccessInv

LEMMA SetEnabledStays == ASSUME AccessInv, NEW p \in Staff, NEW on \in BOOLEAN, Access!SetEnabled(p, on) PROVE AccessInv'
<1>1. /\ Access!Changed(p) /\ UNCHANGED <<role, at, active, stored, muted, cache, handler, said, crossed>>
      /\ off' = IF on THEN off \ {p} ELSE off \cup {p}
  BY DEF Access!SetEnabled
<1>2. AccessTypes
  BY DEF AccessInv
<1>3. off' \subseteq Staff /\ \A q \in Staff \ {p} : q \in off' <=> q \in off
  BY <1>1, <1>2 DEF AccessTypes
<1>4. AccessTypes'
  BY <1>1, <1>2, <1>3, ChangedDoes DEF AccessTypes
<1>5. CacheTells' /\ \A e \in Pushes : AimedWell(e)'
  BY <1>1, <1>3, OthersHear
<1> QED BY <1>1, <1>4, <1>5, AsksStay DEF AccessInv

LEMMA MuteStays ==
  ASSUME AccessInv, NEW p \in Staff, NEW c \in Channels, NEW on \in BOOLEAN, Access!Mute(p, c, on)
  PROVE  AccessInv'
<1>1. /\ Access!Changed(p) /\ UNCHANGED <<role, at, active, stored, off, cache, handler, said, crossed>>
      /\ muted' = IF on THEN muted \cup {<<p, c>>} ELSE muted \ {<<p, c>>}
  BY DEF Access!Mute
<1>2. AccessTypes
  BY DEF AccessInv
<1>3. muted' \subseteq Staff \X Channels /\ \A q \in Staff \ {p} : \A d : <<q, d>> \in muted' <=> <<q, d>> \in muted
  BY <1>1, <1>2 DEF AccessTypes
<1>4. AccessTypes'
  BY <1>1, <1>2, <1>3, ChangedDoes DEF AccessTypes
<1>5. CacheTells' /\ \A e \in Pushes : AimedWell(e)'
  BY <1>1, <1>3, OthersHear
<1> QED BY <1>1, <1>4, <1>5, AsksStay DEF AccessInv

-----------------------------------------------------------------------------
(* Setting grants. *)

\* Steps of a request leave what is known of people, and the pushes, alone.
LEMMA HearingSame ==
  ASSUME AccessInv, UNCHANGED <<role, at, active, stored, off, muted, cache, push, stale>>
  PROVE  CacheTells' /\ \A e \in Pushes : AimedWell(e)'
<1>1. CacheTells'
  BY DEF AccessInv, CacheTells, ReadOf
<1>2. \A p, ev, by : Access!Entitled(p, ev, by)' <=> Access!Entitled(p, ev, by)
  BY EntitledSame
<1>3. \A e, p : (MayHear(e, p)' <=> MayHear(e, p)) /\ (Unmuted(e, p)' <=> Unmuted(e, p))
  BY <1>2 DEF MayHear, Unmuted
<1>4. \A e \in Pushes : AimedWell(e)'
  BY <1>3 DEF AccessInv, AimedWell
<1> QED BY <1>1, <1>4

\* A request h for p takes up what it is about to store.
LEMMA AskStays ==
  ASSUME AccessInv, NEW h \in Granting, NEW p \in Staff, NEW x \in GrantAsk, handler[h] = Access!Idle,
         handler' = [handler EXCEPT ![h] = x], Access!Overlap(h, p), x.person = p, x.phase = "wanted",
         p \notin crossed => x.alerts \subseteq (said[p] \cup x.asked) \ x.unasked,
         UNCHANGED <<role, at, active, stored, off, muted, cache, push, changes, stale, said>>
  PROVE  AccessInv'
<1>1. AccessTypes /\ handler[h].phase = "idle"
  BY AtIdle DEF AccessInv
<1>2. /\ handler' \in [Granting -> {Access!Idle} \cup GrantAsk] /\ handler'[h] = x
      /\ \A o \in Granting : o # h => handler'[o] = handler[o]
  BY <1>1 DEF AccessTypes
<1>3. /\ crossed \subseteq crossed' /\ crossed' \subseteq Staff
      /\ \A o \in Granting \ {h} : handler[o].phase # "idle" /\ handler[o].person = p => p \in crossed'
  <2>1. \A o \in Granting : handler[o].phase # "idle" => handler[o] # Access!Idle
    BY AtIdle
  <2> QED BY <1>1, <2>1 DEF Access!Overlap, AccessTypes
<1>4. AccessTypes'
  BY <1>1, <1>2, <1>3 DEF AccessTypes
<1>5. CacheTells' /\ \A e \in Pushes : AimedWell(e)'
  BY HearingSame
<1>6. Alone'
  <2> SUFFICES ASSUME NEW g \in Granting, NEW o \in Granting, g # o, handler'[g].phase # "idle", handler'[o].phase # "idle",
                      handler'[g].person = handler'[o].person
               PROVE  handler'[g].person \in crossed'
    BY DEF Alone
  <2>1. CASE g = h
    BY <1>2, <1>3, <2>1
  <2>2. CASE o = h
    BY <1>2, <1>3, <2>2
  <2>3. CASE g # h /\ o # h
    BY <1>2, <1>3, <2>3 DEF AccessInv, Alone
  <2> QED BY <2>1, <2>2, <2>3
<1>7. ASSUME NEW o \in Granting
      PROVE  AsksFor(o)'
  <2>1. CASE o = h
    BY <1>2, <1>3, <2>1 DEF AsksFor
  <2>2. CASE o # h
    BY <1>2, <1>3, <2>2 DEF AccessInv, AsksFor
  <2> QED BY <2>1, <2>2
<1>8. \A q \in Staff \ crossed' : stored'[q] \subseteq said'[q]
  BY <1>3 DEF AccessInv
<1> QED BY <1>4, <1>5, <1>6, <1>7, <1>8 DEF AccessInv

LEMMA FlipStays ==
  ASSUME AccessInv, NEW h \in Granting, NEW p \in Staff, NEW c \in Channels, NEW on \in BOOLEAN, Access!Flip(h, p, c, on)
  PROVE  AccessInv'
<1> DEFINE x == [phase |-> "wanted", person |-> p, alerts |-> IF on THEN stored[p] \cup {c} ELSE stored[p] \ {c},
                 asked |-> IF on THEN {c} ELSE {}, unasked |-> IF on THEN {} ELSE {c}]
<1>1. /\ handler[h] = Access!Idle /\ handler' = [handler EXCEPT ![h] = x] /\ Access!Overlap(h, p)
      /\ UNCHANGED <<role, at, active, stored, off, muted, cache, push, changes, stale, said>>
  BY DEF Access!Flip
<1>2. stored[p] \subseteq Channels /\ (p \notin crossed => stored[p] \subseteq said[p])
  BY DEF AccessInv, AccessTypes
<1>3. x \in GrantAsk /\ x.person = p /\ x.phase = "wanted"
  BY <1>2 DEF GrantAsk, Grants
<1>4. p \notin crossed => x.alerts \subseteq (said[p] \cup x.asked) \ x.unasked
  BY <1>2
<1> HIDE DEF x
<1> QED BY <1>1, <1>3, <1>4, AskStays

LEMMA AssignStays ==
  ASSUME AccessInv, NEW h \in Granting, NEW p \in Staff, NEW list \in Lists, Access!Assign(h, p, list)
  PROVE  AccessInv'
<1> DEFINE x == [phase |-> "wanted", person |-> p, alerts |-> list, asked |-> list, unasked |-> Channels \ list]
<1>1. /\ handler[h] = Access!Idle /\ handler' = [handler EXCEPT ![h] = x] /\ Access!Overlap(h, p)
      /\ UNCHANGED <<role, at, active, stored, off, muted, cache, push, changes, stale, said>>
  BY DEF Access!Assign
<1>2. list \subseteq Channels
  BY AccessConstants
<1>3. x \in GrantAsk /\ x.person = p /\ x.phase = "wanted"
  BY <1>2 DEF GrantAsk, Grants
<1>4. p \notin crossed => x.alerts \subseteq (said[p] \cup x.asked) \ x.unasked
  BY <1>2
<1> HIDE DEF x
<1> QED BY <1>1, <1>3, <1>4, AskStays

LEMMA CleanGrantsStays == ASSUME AccessInv, NEW h \in Granting, Access!CleanGrants(h) PROVE AccessInv'
<1> DEFINE clean == Access!WithinBranches(handler[h].alerts \ BranchWide, role[handler[h].person], at[handler[h].person])
<1>1. /\ handler[h].phase = "wanted" /\ handler' = [handler EXCEPT ![h].phase = "clean", ![h].alerts = clean]
      /\ UNCHANGED <<role, at, active, stored, off, muted, cache, push, changes, stale, said, crossed>>
  BY DEF Access!CleanGrants
<1>2. AccessTypes /\ handler[h] \in GrantAsk /\ handler[h].alerts \subseteq Channels
  BY <1>1, HandlerKinds DEF AccessInv
<1>3. clean \subseteq handler[h].alerts /\ clean \cap BranchWide = {}
  BY DEF Access!WithinBranches
<1>4. PICK kept \in Grants : kept = clean
  BY <1>2, <1>3 DEF Grants
<1> HIDE DEF clean
<1>5. /\ handler' \in [Granting -> {Access!Idle} \cup GrantAsk]
      /\ \A o \in Granting : o # h => handler'[o] = handler[o]
      /\ handler'[h].phase = "clean" /\ handler'[h].alerts = kept /\ handler'[h].person = handler[h].person
      /\ handler'[h].asked = handler[h].asked /\ handler'[h].unasked = handler[h].unasked
  <2>1. PICK m \in GrantAsk : m = handler[h]
    BY <1>2
  <2>2. handler' = [handler EXCEPT ![h] = [m EXCEPT !.phase = "clean", !.alerts = kept]]
    BY <1>1, <1>2, <1>4, <2>1 DEF AccessTypes
  <2> DEFINE x == [m EXCEPT !.phase = "clean", !.alerts = kept]
  <2>3. /\ x \in GrantAsk /\ x.phase = "clean" /\ x.alerts = kept /\ x.person = m.person
        /\ x.asked = m.asked /\ x.unasked = m.unasked
    BY DEF GrantAsk
  <2> HIDE DEF x
  <2>4. handler' = [handler EXCEPT ![h] = x]
    BY <2>2 DEF x
  <2> QED BY <1>2, <2>1, <2>3, <2>4 DEF AccessTypes
<1>6. AccessTypes'
  <2>1. \A o \in Granting : handler'[o].phase = "clean" => handler'[o].alerts \cap BranchWide = {}
    BY <1>2, <1>3, <1>4, <1>5 DEF AccessTypes
  <2>2. UNCHANGED <<role, at, active, stored, off, muted, cache, push, changes, stale, said, crossed>>
    BY <1>1
  <2> QED BY <1>2, <1>5, <2>1, <2>2 DEF AccessTypes
<1>7. CacheTells' /\ \A e \in Pushes : AimedWell(e)'
  BY <1>1, HearingSame
<1>8. \A o \in Granting : (handler'[o].phase # "idle" <=> handler[o].phase # "idle") /\ handler'[o].person = handler[o].person
  BY <1>1, <1>5
<1>9. Alone'
  <2>1. crossed' = crossed
    BY <1>1
  <2> QED BY <1>8, <2>1 DEF AccessInv, Alone
<1>10. ASSUME NEW o \in Granting
       PROVE  AsksFor(o)'
  <2>1. CASE o = h
    BY <1>1, <1>3, <1>4, <1>5, <2>1 DEF AccessInv, AsksFor
  <2>2. CASE o # h
    BY <1>1, <1>5, <2>2 DEF AccessInv, AsksFor
  <2> QED BY <2>1, <2>2
<1> QED BY <1>1, <1>6, <1>7, <1>9, <1>10 DEF AccessInv

LEMMA StoreGrantsStays == ASSUME AccessInv, NEW h \in Granting, Access!StoreGrants(h) PROVE AccessInv'
<1>1. PICK p \in Staff :
        /\ p = handler[h].person
        /\ stored' = [stored EXCEPT ![p] = handler[h].alerts]
        /\ said' = [said EXCEPT ![p] = (@ \cup handler[h].asked) \ handler[h].unasked]
        /\ Access!Changed(p)
  <2>1. handler[h].phase = "clean"
    BY DEF Access!StoreGrants
  <2> QED BY <2>1, HandlerKinds DEF Access!StoreGrants, AccessInv
<1>2. /\ handler[h].phase = "clean" /\ handler' = [handler EXCEPT ![h] = Access!Idle]
      /\ UNCHANGED <<role, at, active, off, muted, cache, crossed>>
  BY DEF Access!StoreGrants
<1>3. /\ AccessTypes /\ handler[h].alerts \subseteq Channels \ BranchWide
      /\ handler[h].asked \subseteq Channels
  BY <1>2, HandlerKinds DEF AccessInv, AccessTypes
<1>4. /\ handler' \in [Granting -> {Access!Idle} \cup GrantAsk] /\ handler'[h].phase = "idle"
      /\ \A o \in Granting : o # h => handler'[o] = handler[o]
  BY <1>2, <1>3, AtIdle DEF AccessTypes
<1>5. /\ stored' \in [Staff -> SUBSET (Channels \ BranchWide)] /\ stored'[p] = handler[h].alerts
      /\ \A q \in Staff : q # p => stored'[q] = stored[q]
  BY <1>1, <1>3 DEF AccessTypes
<1>6. /\ said' \in [Staff -> Grants] /\ said'[p] = (said[p] \cup handler[h].asked) \ handler[h].unasked
      /\ \A q \in Staff : q # p => said'[q] = said[q]
  BY <1>1, <1>3 DEF AccessTypes, Grants
<1>7. AccessTypes'
  BY <1>1, <1>2, <1>3, <1>4, <1>5, <1>6, ChangedDoes DEF AccessTypes
<1>8. CacheTells' /\ \A e \in Pushes : AimedWell(e)'
  BY <1>1, <1>2, <1>5, OthersHear
<1>9. Alone'
  BY <1>2, <1>4 DEF AccessInv, Alone
<1>10. ASSUME NEW o \in Granting
       PROVE  AsksFor(o)'
  <2> SUFFICES ASSUME o # h, handler[o].phase # "idle", handler[o].person \notin crossed
               PROVE  handler[o].alerts \subseteq (said'[handler[o].person] \cup handler[o].asked) \ handler[o].unasked
    BY <1>2, <1>4 DEF AsksFor
  <2>1. handler[o].person # p /\ handler[o].person \in Staff
    BY <1>1, <1>2, <1>3, HandlerKinds DEF AccessInv, Alone
  <2> QED BY <1>6, <2>1 DEF AccessInv, AsksFor
<1>11. ASSUME NEW q \in Staff \ crossed
       PROVE  stored'[q] \subseteq said'[q]
  <2>1. CASE q = p
    BY <1>1, <1>2, <1>5, <1>6, <2>1 DEF AccessInv, AsksFor
  <2>2. CASE q # p
    BY <1>5, <1>6, <2>2 DEF AccessInv
  <2> QED BY <2>1, <2>2
<1> QED BY <1>2, <1>7, <1>8, <1>9, <1>10, <1>11 DEF AccessInv

-----------------------------------------------------------------------------
(* Pushing. *)

\* What a step makes of one push.
LEMMA PushUpdate ==
  ASSUME AccessInv, NEW e \in Pushes, NEW x \in {Access!Idle} \cup RecordedPush \cup AimedPush, push' = [push EXCEPT ![e] = x],
         UNCHANGED <<role, at, active, stored, off, muted, handler, changes, said, crossed>>,
         cache' \in {Access!NoReading} \cup Watching, stale' \subseteq Staff, CacheTells', AimedWell(e)'
  PROVE  AccessInv'
<1>1. AccessTypes
  BY DEF AccessInv
<1>2. /\ push' \in [Pushes -> {Access!Idle} \cup RecordedPush \cup AimedPush]
      /\ \A d \in Pushes : d # e => push'[d] = push[d]
  BY <1>1 DEF AccessTypes
<1>3. AccessTypes'
  BY <1>1, <1>2 DEF AccessTypes
<1>4. \A p, ev, by : Access!Entitled(p, ev, by)' <=> Access!Entitled(p, ev, by)
  BY EntitledSame
<1>5. ASSUME NEW d \in Pushes, d # e
      PROVE  AimedWell(d)'
  <2>1. push'[d] = push[d]
    BY <1>2, <1>5
  <2>2. PICK m : m = push[d]
    OBVIOUS
  <2>3. \A p : (MayHear(d, p)' <=> MayHear(d, p)) /\ (Unmuted(d, p)' <=> Unmuted(d, p))
    BY <1>4, <2>1, <2>2 DEF MayHear, Unmuted
  <2> QED BY <2>1, <2>3 DEF AccessInv, AimedWell
<1> QED BY <1>3, <1>5, AsksStay DEF AccessInv

LEMMA RecordStays ==
  ASSUME AccessInv, NEW e \in Pushes, NEW ev \in Access!Events, NEW by \in Staff \cup {"nobody"}, Access!Record(e, ev, by)
  PROVE  AccessInv'
<1> DEFINE x == [phase |-> "recorded", event |-> ev, by |-> by]
<1>1. /\ push' = [push EXCEPT ![e] = x]
      /\ UNCHANGED <<role, at, active, stored, off, muted, cache, handler, changes, stale, said, crossed>>
  BY DEF Access!Record
<1>2. x \in RecordedPush /\ x.phase = "recorded"
  BY DEF RecordedPush
<1> HIDE DEF x
<1>3. push'[e] = x
  BY <1>1 DEF AccessInv, AccessTypes
<1>4. AimedWell(e)'
  BY <1>2, <1>3 DEF AimedWell
<1>5. CacheTells' /\ cache' \in {Access!NoReading} \cup Watching /\ stale' \subseteq Staff
  BY <1>1 DEF AccessInv, AccessTypes, CacheTells, ReadOf
<1> QED BY <1>1, <1>2, <1>4, <1>5, PushUpdate

LEMMA ReadAudienceStays == ASSUME AccessInv, NEW e \in Pushes, Access!ReadAudience(e) PROVE AccessInv'
<1>1. /\ push[e].phase = "recorded"
      /\ cache' = IF cache.taken THEN cache ELSE Access!Reading
      /\ stale' = IF cache.taken THEN stale ELSE {}
      /\ push' = [push EXCEPT ![e] =
           [phase |-> "aimed", event |-> push[e].event, by |-> push[e].by,
            to |-> Access!Reached(push[e].event, push[e].by, cache'), stale |-> stale', blind |-> FALSE]]
      /\ UNCHANGED <<role, at, active, stored, off, muted, handler, changes, said, crossed>>
  BY DEF Access!ReadAudience
<1>2. AccessTypes /\ push[e] \in RecordedPush
  BY <1>1, PushKinds DEF AccessInv
<1>3. PICK ev \in Access!Events, by \in Staff \cup {"nobody"} : ev = push[e].event /\ by = push[e].by
  BY <1>2 DEF RecordedPush
<1>4. PICK aud \in Watching : /\ aud = cache'
                              /\ \A p \in Staff \ stale' : /\ aud.role[p] = role[p] /\ aud.at[p] = at[p]
                                                           /\ (p \in aud.active <=> p \in active) /\ (p \in aud.off <=> p \in off)
  <2>1. CASE cache.taken
    <3>1. cache \in Watching /\ cache' = cache /\ stale' = stale
      BY <1>1, <1>2, <2>1, AtIdle DEF AccessTypes
    <3> QED BY <2>1, <3>1 DEF AccessInv, CacheTells, ReadOf
  <2>2. CASE ~cache.taken
    <3>1. Access!Reading \in Watching
      BY <1>2 DEF Access!Reading, Watching, AccessTypes
    <3>2. cache' = Access!Reading
      BY <1>1, <2>2
    <3> QED BY <3>1, <3>2 DEF Access!Reading
  <2> QED BY <2>1, <2>2
<1>5. PICK behind \in SUBSET Staff : behind = stale'
  <2>1. stale' \subseteq Staff
    BY <1>1, <1>2 DEF AccessTypes
  <2> QED BY <2>1
<1>6. PICK to \in SUBSET Staff : to = Access!Reached(ev, by, aud)
  BY <1>2, ReachedAre
<1> DEFINE x == [phase |-> "aimed", event |-> ev, by |-> by, to |-> to, stale |-> behind, blind |-> FALSE]
<1>7. push' = [push EXCEPT ![e] = x]
  BY <1>1, <1>3, <1>4, <1>5, <1>6
<1>8. /\ x \in AimedPush /\ x.phase = "aimed" /\ x.event = ev /\ x.by = by /\ x.to = to /\ x.stale = behind
  BY DEF AimedPush
<1> HIDE DEF x
<1>9. push'[e] = x
  BY <1>2, <1>7 DEF AccessTypes
<1>10. AimedWell(e)'
  <2> SUFFICES ASSUME NEW p \in Staff \ behind
               PROVE  p \in to <=> Access!Entitled(p, ev, by)'
    BY <1>8, <1>9 DEF AimedWell, MayHear
  <2>1. Access!Entitled(p, ev, by)' <=> Access!Entitled(p, ev, by)
    BY <1>1, EntitledSame
  <2> QED BY <1>2, <1>4, <1>5, <1>6, <2>1, ReachedAre
<1>11. CacheTells'
  BY <1>1, <1>4 DEF CacheTells, ReadOf
<1>12. cache' \in {Access!NoReading} \cup Watching /\ stale' \subseteq Staff
  BY <1>4, <1>5
<1>13. UNCHANGED <<role, at, active, stored, off, muted, handler, changes, said, crossed>>
  BY <1>1
<1> QED BY <1>7, <1>8, <1>10, <1>11, <1>12, <1>13, PushUpdate

LEMMA SendToUsersStays == ASSUME AccessInv, NEW e \in Pushes, Access!SendToUsers(e) PROVE AccessInv'
<1>1. /\ push[e].phase = "aimed"
      /\ UNCHANGED <<role, at, active, stored, off, muted, cache, handler, changes, stale, said, crossed>>
  BY DEF Access!SendToUsers
<1>2. AccessTypes /\ push[e] \in AimedPush
  BY <1>1, PushKinds DEF AccessInv
<1>3. PICK blind \in BOOLEAN :
        push' = [push EXCEPT ![e].phase = "sent", ![e].blind = blind,
                   ![e].to = IF blind THEN @ ELSE {p \in @ : <<p, Access!MuteKey(push[e].event)>> \notin muted}]
  BY DEF Access!SendToUsers
<1>4. PICK m \in AimedPush : m = push[e]
  BY <1>2
<1>5. PICK to \in SUBSET Staff : to = IF blind THEN m.to ELSE {p \in m.to : <<p, Access!MuteKey(m.event)>> \notin muted}
  BY AimedFields
<1> DEFINE x == [m EXCEPT !.phase = "sent", !.blind = blind, !.to = to]
<1>6. push' = [push EXCEPT ![e] = x]
  BY <1>2, <1>3, <1>4, <1>5 DEF AccessTypes
<1>7. x \in AimedPush /\ x.phase = "sent" /\ x.event = m.event /\ x.by = m.by /\ x.to = to /\ x.stale = m.stale /\ x.blind = blind
  BY DEF AimedPush
<1> HIDE DEF x
<1>8. push'[e] = x
  BY <1>2, <1>6 DEF AccessTypes
<1>9. AimedWell(e)'
  <2>1. PICK ev : ev = m.event
    OBVIOUS
  <2>2. PICK by : by = m.by
    OBVIOUS
  <2> SUFFICES ASSUME NEW p \in Staff \ m.stale
               PROVE  p \in to <=> Access!Entitled(p, ev, by)' /\ (blind \/ <<p, Access!MuteKey(ev)>> \notin muted)
    BY <1>1, <1>7, <1>8, <2>1, <2>2 DEF AimedWell, MayHear, Unmuted
  <2>3. Access!Entitled(p, ev, by)' <=> Access!Entitled(p, ev, by)
    BY <1>1, EntitledSame
  <2>4. p \in m.to <=> Access!Entitled(p, ev, by)
    BY <1>1, <1>4, <2>1, <2>2 DEF AccessInv, AimedWell, MayHear
  <2> QED BY <1>5, <2>1, <2>3, <2>4
<1>10. CacheTells' /\ cache' \in {Access!NoReading} \cup Watching /\ stale' \subseteq Staff
  BY <1>1, <1>2 DEF AccessInv, AccessTypes, CacheTells, ReadOf
<1> QED BY <1>1, <1>6, <1>7, <1>9, <1>10, PushUpdate

LEMMA CacheExpiresStays == ASSUME AccessInv, Access!CacheExpires PROVE AccessInv'
<1>1. /\ cache' = Access!NoReading
      /\ UNCHANGED <<role, at, active, stored, off, muted, handler, push, changes, stale, said, crossed>>
  BY DEF Access!CacheExpires
<1>2. AccessTypes'
  BY <1>1 DEF AccessInv, AccessTypes
<1>3. CacheTells'
  BY <1>1, AtIdle DEF CacheTells
<1>4. \A p, ev, by : Access!Entitled(p, ev, by)' <=> Access!Entitled(p, ev, by)
  BY <1>1, EntitledSame
<1>5. \A e, p : (MayHear(e, p)' <=> MayHear(e, p)) /\ (Unmuted(e, p)' <=> Unmuted(e, p))
  BY <1>1, <1>4 DEF MayHear, Unmuted
<1>6. \A e \in Pushes : AimedWell(e)'
  BY <1>1, <1>5 DEF AccessInv, AimedWell
<1> QED BY <1>1, <1>2, <1>3, <1>6, AsksStay DEF AccessInv

-----------------------------------------------------------------------------
LEMMA AccessBegins == ASSUME WorkspaceInit PROVE AccessInv
<1>1. /\ role \in [Staff -> Access!Roles] /\ at \in [Staff -> Postings] /\ active = Staff
      /\ stored = [p \in Staff |-> {}] /\ off = {} /\ muted = {} /\ cache = Access!NoReading
      /\ handler = [h \in Granting |-> Access!Idle] /\ push = [e \in Pushes |-> Access!Idle]
      /\ changes = 0 /\ stale = {} /\ said = [p \in Staff |-> {}] /\ crossed = {}
  BY DEF WorkspaceInit, Access!AccessInit
<1>2. (\A h \in Granting : handler[h].phase = "idle") /\ \A e \in Pushes : push[e].phase = "idle"
  BY <1>1, AtIdle
<1>3. AccessTypes
  BY <1>1, <1>2, AccessConstants DEF AccessTypes, Grants
<1>4. CacheTells /\ Alone
  BY <1>1, <1>2, AtIdle DEF CacheTells, Alone
<1> QED BY <1>1, <1>2, <1>3, <1>4 DEF AccessInv, AimedWell, AsksFor

LEMMA AccessStays ==
  ASSUME AccessInv, [WorkspaceNext]_<<part, access, posting, signing, mailbox, sorting, places, pushing>>
  PROVE  AccessInv'
<1>1. ASSUME UNCHANGED <<role, at, active, stored, off, muted, cache, handler, push, changes, stale, said, crossed>>
      PROVE  AccessInv'
  <2>2. AccessTypes'
    BY <1>1 DEF AccessInv, AccessTypes
  <2> QED BY <1>1, <2>2, HearingSame, AsksStay DEF AccessInv
<1>3. CASE UNCHANGED access
  BY <1>1, <1>3 DEF access
<1>4. ASSUME NEW e \in Pushes, NEW p \in Staff, Access!Bury(p, e)
      PROVE  AccessInv'
  BY <1>1, <1>4 DEF Access!Bury
<1>2. CASE Access!AccessNext
  BY <1>2, <1>4, HireStays, SetEnabledStays, MuteStays, FlipStays, AssignStays, CleanGrantsStays, StoreGrantsStays,
     RecordStays, ReadAudienceStays, SendToUsersStays, CacheExpiresStays DEF Access!AccessNext
<1> QED BY <1>2, <1>3 DEF WorkspaceNext

\* What is off a feed is a push's.
LEMMA BuriedStays ==
  ASSUME buried \subseteq Staff \X Pushes,
         [WorkspaceNext]_<<part, access, posting, signing, mailbox, sorting, places, pushing>>
  PROVE  buried' \subseteq Staff \X Pushes
<1>1. CASE UNCHANGED access
  BY <1>1 DEF access
<1>2. ASSUME NEW e \in Pushes, NEW p \in Staff, Access!Bury(p, e)
      PROVE  buried' \subseteq Staff \X Pushes
  BY <1>2 DEF Access!Bury
<1>3. CASE Access!AccessNext
  BY <1>2, <1>3 DEF Access!AccessNext, Access!Hire, Access!SetEnabled, Access!Mute, Access!Flip, Access!Assign,
     Access!CleanGrants, Access!StoreGrants, Access!Record, Access!ReadAudience, Access!SendToUsers, Access!CacheExpires
<1> QED BY <1>1, <1>3 DEF WorkspaceNext

\* Who was pushed an alert finds it.
LEMMA HeardIsAdmitted ==
  ASSUME AccessTypes, NEW p \in Staff, NEW ev \in Access!Events, NEW by, Access!Entitled(p, ev, by)
  PROVE  Access!Admitted(p, ev) /\ (ev.kind = "personal" \/ Access!Opens(p, ev))
<1>1. CASE ev.kind = "channel"
  <2>1. ev.channel \in Access!Visible(p)
    BY <1>1 DEF Access!Entitled, Access!Admitted
  <2> QED BY <1>1, <2>1 DEF Access!Admitted, Access!Opens, Access!Visible
<1>2. CASE ev.kind = "announcement"
  <2>1. p \in ev.to
    BY <1>2 DEF Access!Events
  <2> QED BY <1>2, <2>1 DEF Access!Admitted, Access!Opens
<1>3. CASE ev.kind \in {"named", "personal"}
  BY <1>3 DEF Access!Entitled, Access!Admitted, Access!Opens
<1>4. ev.kind \in {"channel", "announcement", "named", "personal"}
  BY DEF Access!Events
<1> QED BY <1>1, <1>2, <1>3, <1>4

LEMMA AccessShows ==
  ASSUME AccessInv, buried \subseteq Staff \X Pushes
  PROVE  /\ Access!AccessTypeOK /\ Access!PushReachesViewersUnlessChanged
         /\ Access!TappedAlertOpensUnlessChangedOrBuried /\ Access!OpenedBySwitchUnlessCrossed
<1>1. AccessTypes
  BY DEF AccessInv
<1>2. Access!AccessTypeOK
  <2>1. cache = Access!NoReading \/ cache.active \subseteq Staff
    BY <1>1 DEF AccessTypes, Watching
  <2>2. \A h \in Granting : handler[h] = Access!Idle \/ handler[h].phase \in {"wanted", "clean"}
    BY <1>1, HandlerKinds
  <2>3. \A e \in Pushes : push[e] = Access!Idle \/ push[e].phase \in {"recorded", "aimed", "sent"}
    BY <1>1, PushKinds
  <2> QED BY <1>1, <2>1, <2>2, <2>3 DEF AccessTypes, Access!AccessTypeOK, Grants
<1>3. ASSUME NEW e \in Pushes, push[e].phase = "sent"
      PROVE  /\ push[e].event \in Access!Events /\ push[e].to \subseteq Staff
             /\ \A p \in Staff \ push[e].stale :
                  p \in push[e].to <=> Access!Entitled(p, push[e].event, push[e].by)
                                       /\ (push[e].blind \/ <<p, Access!MuteKey(push[e].event)>> \notin muted)
  BY <1>1, <1>3, PushKinds, AimedFields DEF AccessInv, AimedWell, MayHear, Unmuted
<1>4. Access!PushReachesViewersUnlessChanged
  BY <1>3 DEF Access!PushReachesViewersUnlessChanged
<1>5. Access!TappedAlertOpensUnlessChangedOrBuried
  BY <1>1, <1>3, HeardIsAdmitted DEF Access!TappedAlertOpensUnlessChangedOrBuried, Access!Listed
<1> QED BY <1>2, <1>4, <1>5 DEF AccessInv, Access!OpenedBySwitchUnlessCrossed

-----------------------------------------------------------------------------
(* Posts of the ERP and the CRM, and their files. *)

Paths   == {"ingest", "post", "media"}
EventOf == [key : Keys, file : Attempts \cup {"none"}, age : {"kept", "due"}]
NoteOf  == [key : Keys, room : Rooms, by : Attempts, file : Attempts \cup {"none"}]
Phases  == {"look", "save", "record", "resolve", "find", "deliver", "create"}

\* What the handler of a post knows at each of its steps: its own file once it is stored, and
\* the room once it is resolved.
Handling ==
  {m \in [phase : Phases, key : Keys, route : Paths, file : BOOLEAN, room : Rooms \cup {"none"},
          stored : Attempts \cup {"none"}] :
     /\ m.phase \in {"look", "record"} => m.route = "ingest"
     /\ m.phase \in {"resolve", "find", "deliver", "create"} => m.route # "ingest"
     /\ m.phase = "find" => m.route = "media"
     /\ m.phase \in {"find", "deliver", "create"} \/ (m.phase = "save" /\ m.route # "ingest") <=> m.room # "none"
     /\ m.phase \in {"look", "save", "resolve", "find"} => m.stored = "none"}

PostTypes ==
  /\ events \subseteq EventOf /\ messages \subseteq NoteOf
  /\ files \subseteq Attempts /\ lost \subseteq Attempts /\ cut \subseteq Attempts
  /\ busiest \in Rooms /\ found \in Rooms \cup {"none"}
  /\ attempt \in [Attempts -> {Posts!Waiting, Posts!Done} \cup Handling]
  /\ reaping \subseteq events /\ \A ev \in reaping : ev.file # "none" /\ ev.age = "due"
  /\ sounded \in [Keys -> 0..2]
  /\ racing \subseteq Keys /\ moved \subseteq Keys

\* A file is its attempt's, which holds it until something refers to it.
OwnFile(a) ==
  /\ Posts!Busy(a) => attempt[a].stored \in {"none", a} /\ (attempt[a].stored = a <=> a \in files)
  /\ attempt[a].phase = "waiting" => a \notin files

\* An event's file is that of an attempt that is over, and of no other event.
FileOfOne ==
  /\ \A ev \in events : ev.file # "none" => attempt[ev.file].phase = "done"
  /\ \A e, f \in events : e.file # "none" /\ e.file = f.file => e = f

OneEvent == \A e, f \in events : e.key = f.key => e = f

\* Attempts that overlap are told.
Unmet(a) == \A b \in Attempts : a # b /\ Posts!Busy(a) /\ Posts!Busy(b) /\ attempt[a].key = attempt[b].key =>
              attempt[a].key \in racing

\* One that nobody overlapped is still right in what it looked up.
NoEventYet(a) ==
  Posts!Busy(a) /\ attempt[a].route = "ingest" /\ attempt[a].phase \in {"save", "record"} /\ attempt[a].key \notin racing =>
    ~Posts!Recorded(attempt[a].key)

NoMessageYet(a) ==
  Posts!Busy(a) /\ attempt[a].route = "media" /\ attempt[a].phase \in {"save", "deliver"} /\ attempt[a].key \notin racing =>
    ~Posts!Posted(attempt[a].key, attempt[a].room)

\* And its room is that of the messages of its key; when it creates one, there is none.
SameRoom(a) ==
  Posts!Busy(a) /\ attempt[a].key \notin racing \cup moved =>
    \A m \in messages : m.key = attempt[a].key =>
      /\ attempt[a].room # "none" => m.room = attempt[a].room
      /\ attempt[a].phase # "create"

PostInv ==
  /\ PostTypes /\ FileOfOne /\ OneEvent
  /\ \A a \in Attempts : OwnFile(a) /\ Unmet(a) /\ NoEventYet(a) /\ NoMessageYet(a) /\ SameRoom(a)
  /\ Posts!LandsOnceUnlessMoved /\ Posts!FilesAreReferredToUnlessCut /\ Posts!LinksOpenUnlessSwept

LEMMA AttemptKinds ==
  ASSUME PostTypes, NEW a \in Attempts
  PROVE  /\ attempt[a] \in {Posts!Waiting, Posts!Done} \cup Handling
         /\ Posts!Busy(a) <=> attempt[a] \in Handling
         /\ Posts!Busy(a) <=> attempt[a].phase \in Phases
         /\ attempt[a].phase \in {"waiting", "done"} \cup Phases
<1>1. attempt[a] \in {Posts!Waiting, Posts!Done} \cup Handling
  BY DEF PostTypes
<1>2. \A m \in Handling : m.phase \in Phases
  BY DEF Handling
<1>3. Posts!Waiting.phase = "waiting" /\ Posts!Done.phase = "done"
  BY DEF Posts!Waiting, Posts!Done
<1>4. Posts!Busy(a) <=> attempt[a].phase \notin {"waiting", "done"}
  BY DEF Posts!Busy
<1> QED BY <1>1, <1>2, <1>3, <1>4 DEF Phases

LEMMA HandlingFields ==
  ASSUME NEW m \in Handling
  PROVE  /\ m.phase \in Phases /\ m.key \in Keys /\ m.route \in Paths /\ m.file \in BOOLEAN
         /\ m.room \in Rooms \cup {"none"} /\ m.stored \in Attempts \cup {"none"}
         /\ m.phase \in {"look", "record"} => m.route = "ingest"
         /\ m.phase \in {"resolve", "find", "deliver", "create"} => m.route # "ingest"
         /\ m.phase = "find" => m.route = "media"
         /\ m.phase \in {"find", "deliver", "create"} \/ (m.phase = "save" /\ m.route # "ingest") <=> m.room # "none"
         /\ m.phase \in {"look", "save", "resolve", "find"} => m.stored = "none"
BY DEF Handling

LEMMA DoneIs == Posts!Done.phase = "done" /\ Posts!Waiting.phase = "waiting"
BY DEF Posts!Done, Posts!Waiting

\* A step of the handler of a.
StepOf(a, x) == /\ attempt' \in [Attempts -> {Posts!Waiting, Posts!Done} \cup Handling]
                /\ attempt'[a] = x /\ \A b \in Attempts : b # a => attempt'[b] = attempt[b]

LEMMA AttemptUpdate ==
  ASSUME PostTypes, NEW a \in Attempts, NEW x \in {Posts!Waiting, Posts!Done} \cup Handling, attempt' = [attempt EXCEPT ![a] = x]
  PROVE  StepOf(a, x)
BY DEF PostTypes, StepOf

-----------------------------------------------------------------------------
(* What a step of one leaves alone. *)

LEMMA OthersStay ==
  ASSUME PostInv, NEW b \in Attempts, attempt'[b] = attempt[b], racing \subseteq racing', moved \subseteq moved',
         b \in files' => b \in files, Posts!Busy(b) /\ b \in files => b \in files',
         Posts!Busy(b) /\ attempt[b].key \notin racing' =>
           /\ Posts!Recorded(attempt[b].key)' => Posts!Recorded(attempt[b].key)
           /\ \A m \in messages' : m.key = attempt[b].key => m \in messages
  PROVE  OwnFile(b)' /\ NoEventYet(b)' /\ NoMessageYet(b)' /\ SameRoom(b)'
<1>1. Posts!Busy(b)' <=> Posts!Busy(b)
  BY DEF Posts!Busy
<1>2. OwnFile(b)'
  BY <1>1 DEF PostInv, OwnFile
<1>3. NoEventYet(b)'
  <2>1. PICK k : k = attempt[b].key
    OBVIOUS
  <2>2. Posts!Busy(b) /\ k \notin racing' => (Posts!Recorded(k)' => Posts!Recorded(k))
    BY <2>1 DEF Posts!Recorded
  <2> QED BY <1>1, <2>1, <2>2 DEF PostInv, NoEventYet
<1>4. NoMessageYet(b)'
  BY <1>1 DEF PostInv, NoMessageYet, Posts!Posted
<1>5. SameRoom(b)'
  BY <1>1 DEF PostInv, SameRoom
<1> QED BY <1>2, <1>3, <1>4, <1>5

LEMMA UnmetStays ==
  ASSUME PostInv, NEW a \in Attempts, NEW x, StepOf(a, x), racing \subseteq racing',
         Posts!Busy(a)' => \/ Posts!Busy(a) /\ x.key = attempt[a].key
                           \/ \A b \in Attempts : b # a /\ Posts!Busy(b) /\ attempt[b].key = x.key => x.key \in racing'
  PROVE  \A b \in Attempts : Unmet(b)'
<1> SUFFICES ASSUME NEW b \in Attempts, NEW c \in Attempts, b # c, Posts!Busy(b)', Posts!Busy(c)',
                    attempt'[b].key = attempt'[c].key
             PROVE  attempt'[b].key \in racing'
  BY DEF Unmet
<1>1. \A d \in Attempts : d # a => (Posts!Busy(d)' <=> Posts!Busy(d)) /\ attempt'[d].key = attempt[d].key
  BY DEF StepOf, Posts!Busy
<1>2. attempt'[a].key = x.key
  BY DEF StepOf
<1>3. CASE b # a /\ c # a
  BY <1>1, <1>3 DEF PostInv, Unmet
<1>4. CASE b = a
  BY <1>1, <1>2, <1>4 DEF PostInv, Unmet
<1>5. CASE c = a
  BY <1>1, <1>2, <1>5 DEF PostInv, Unmet
<1> QED BY <1>3, <1>4, <1>5

LEMMA DoneRests ==
  ASSUME NEW a \in Attempts, attempt'[a] = Posts!Done
  PROVE  ~Posts!Busy(a)' /\ OwnFile(a)' /\ NoEventYet(a)' /\ NoMessageYet(a)' /\ SameRoom(a)'
<1>1. ~Posts!Busy(a)' /\ attempt'[a].phase # "waiting"
  BY DoneIs DEF Posts!Busy
<1> QED BY <1>1 DEF OwnFile, NoEventYet, NoMessageYet, SameRoom

\* Events stay, and those whose attempt was over are as they were.
LEMMA FilesOfEventsStay ==
  ASSUME PostInv, NEW a \in Attempts, NEW x, StepOf(a, x), attempt[a].phase = "done" => x.phase = "done", events' = events
  PROVE  FileOfOne' /\ OneEvent'
<1>1. \A b \in Attempts : attempt[b].phase = "done" => attempt'[b].phase = "done"
  BY DEF StepOf
<1>2. \A ev \in events : ev.file # "none" => ev.file \in Attempts
  BY DEF PostInv, PostTypes, EventOf
<1> QED BY <1>1, <1>2 DEF PostInv, FileOfOne, OneEvent

\* What the attempts and events promise in the end stays, but for what a makes of its file.
LEMMA PromisesStay ==
  ASSUME PostInv, NEW a \in Attempts, NEW x, StepOf(a, x), racing \subseteq racing', moved \subseteq moved',
         lost \subseteq lost', files \subseteq files', files' \subseteq files \cup {a},
         a \in files' => a \in lost' \/ Posts!Busy(a)' \/ (\E ev \in events : ev.file = a) \/ \E m \in messages : m.file = a,
         UNCHANGED <<events, messages, reaping, cut>>
  PROVE  /\ Posts!LandsOnceUnlessMoved' /\ Posts!FilesAreReferredToUnlessCut' /\ Posts!LinksOpenUnlessSwept'
<1>1. Posts!LandsOnceUnlessMoved'
  BY DEF PostInv, Posts!LandsOnceUnlessMoved
<1>2. Posts!FilesAreReferredToUnlessCut'
  <2> SUFFICES ASSUME NEW b \in files', b \notin lost'
               PROVE  (\E ev \in events : ev.file = b) \/ (\E m \in messages : m.file = b) \/ Posts!Busy(b)'
    BY DEF Posts!FilesAreReferredToUnlessCut
  <2>1. CASE b = a
    BY <2>1
  <2>2. CASE b # a
    <3>1. b \in Attempts /\ b \in files \ lost
      BY <2>2 DEF PostInv, PostTypes
    <3>2. Posts!Busy(b)' <=> Posts!Busy(b)
      BY <2>2, <3>1 DEF StepOf, Posts!Busy
    <3> QED BY <3>1, <3>2 DEF PostInv, Posts!FilesAreReferredToUnlessCut
  <2> QED BY <2>1, <2>2
<1>3. Posts!LinksOpenUnlessSwept'
  BY DEF PostInv, Posts!LinksOpenUnlessSwept
<1> QED BY <1>1, <1>2, <1>3

\* A step of a that neither records nor sends anything.
LEMMA QuietStays ==
  ASSUME PostInv, NEW a \in Attempts, NEW x \in {Posts!Waiting, Posts!Done} \cup Handling, StepOf(a, x),
         attempt[a].phase # "done",
         racing \subseteq racing', moved \subseteq moved', lost \subseteq lost', files \subseteq files', files' \subseteq files \cup {a},
         racing' \subseteq Keys, moved' \subseteq Keys, lost' \subseteq Attempts, found' \in Rooms \cup {"none"},
         a \in files' => a \in lost' \/ Posts!Busy(a)' \/ (\E ev \in events : ev.file = a) \/ \E m \in messages : m.file = a,
         Posts!Busy(a)' => \/ Posts!Busy(a) /\ x.key = attempt[a].key
                           \/ \A b \in Attempts : b # a /\ Posts!Busy(b) /\ attempt[b].key = x.key => x.key \in racing',
         OwnFile(a)', NoEventYet(a)', NoMessageYet(a)', SameRoom(a)',
         UNCHANGED <<events, messages, busiest, reaping, sounded, cut>>
  PROVE  PostInv'
<1>1. PostTypes'
  BY DEF PostInv, PostTypes, StepOf
<1>2. \A b \in Attempts : Unmet(b)'
  BY UnmetStays
<1>3. FileOfOne' /\ OneEvent'
  BY FilesOfEventsStay
<1>4. Posts!LandsOnceUnlessMoved' /\ Posts!FilesAreReferredToUnlessCut' /\ Posts!LinksOpenUnlessSwept'
  BY PromisesStay
<1>5. ASSUME NEW b \in Attempts, b # a
      PROVE  OwnFile(b)' /\ NoEventYet(b)' /\ NoMessageYet(b)' /\ SameRoom(b)'
  <2>1. attempt'[b] = attempt[b] /\ (b \in files' <=> b \in files)
    BY <1>5 DEF StepOf
  <2>2. Posts!Recorded(attempt[b].key)' => Posts!Recorded(attempt[b].key)
    BY <2>1 DEF Posts!Recorded
  <2> QED BY <2>1, <2>2, OthersStay
<1> QED BY <1>1, <1>2, <1>3, <1>4, <1>5 DEF PostInv

-----------------------------------------------------------------------------
(* Posts come in and are looked up. *)

LEMMA ReceiveStays ==
  ASSUME PostInv, NEW a \in Attempts, NEW k \in Keys, NEW route \in Paths, NEW file \in BOOLEAN, Posts!Receive(a, k, route, file)
  PROVE  PostInv'
<1> DEFINE x == [phase |-> IF route = "ingest" THEN "look" ELSE "resolve",
                 key |-> k, route |-> route, file |-> file, room |-> "none", stored |-> "none"]
<1>1. /\ attempt[a] = Posts!Waiting /\ attempt' = [attempt EXCEPT ![a] = x]
      /\ racing' = IF Posts!Under(k) # {} THEN racing \cup {k} ELSE racing
      /\ UNCHANGED <<events, messages, files, busiest, found, reaping, sounded, restarts, lost, moved, cut>>
  BY DEF Posts!Receive
<1>2. PostTypes /\ attempt[a].phase = "waiting" /\ a \notin files
  BY <1>1, DoneIs DEF PostInv, OwnFile
<1>3. /\ x \in Handling /\ x.key = k /\ x.room = "none" /\ x.stored = "none"
      /\ x.phase \in {"look", "resolve"}
  BY DEF Handling, Phases, Paths
<1> HIDE DEF x
<1>4. StepOf(a, x)
  BY <1>1, <1>2, <1>3, AttemptUpdate
<1>5. attempt'[a] = x
  BY <1>4 DEF StepOf
<1>6. \A b \in Attempts : Posts!Busy(b) /\ attempt[b].key = k => k \in racing'
  BY <1>1 DEF Posts!Under
<1>7. racing \subseteq racing' /\ racing' \subseteq Keys
  BY <1>1, <1>2 DEF PostTypes
<1>8. OwnFile(a)'
  BY <1>1, <1>2, <1>3, <1>5, PostConstants DEF OwnFile
<1>9. NoEventYet(a)' /\ NoMessageYet(a)' /\ SameRoom(a)'
  BY <1>3, <1>5 DEF NoEventYet, NoMessageYet, SameRoom
<1>10. /\ UNCHANGED <<events, messages, files, busiest, found, reaping, sounded, lost, moved, cut>>
       /\ lost' \subseteq Attempts /\ moved' \subseteq Keys /\ found' \in Rooms \cup {"none"}
  BY <1>1, <1>2 DEF PostTypes
<1> QED BY <1>2, <1>3, <1>4, <1>6, <1>7, <1>8, <1>9, <1>10, QuietStays

\* An attempt that ends without a file, or leaves it behind.
LEMMA FinishStays ==
  ASSUME PostInv, NEW a \in Attempts, Posts!Busy(a), Posts!Finish(a), lost \subseteq lost', lost' \subseteq Attempts,
         files \subseteq files', files' \subseteq files \cup {a}, a \in files' => a \in lost',
         UNCHANGED <<events, messages, busiest, found, reaping, sounded, racing, moved, cut>>
  PROVE  PostInv'
<1>1. PostTypes /\ attempt[a].phase # "done"
  BY DEF PostInv, Posts!Busy
<1>2. StepOf(a, Posts!Done)
  BY <1>1, AttemptUpdate DEF Posts!Finish
<1>3. attempt'[a] = Posts!Done
  BY <1>2 DEF StepOf
<1>4. ~Posts!Busy(a)' /\ OwnFile(a)' /\ NoEventYet(a)' /\ NoMessageYet(a)' /\ SameRoom(a)'
  BY <1>3, DoneRests
<1>5. racing' \subseteq Keys /\ moved' \subseteq Keys /\ found' \in Rooms \cup {"none"}
  BY <1>1 DEF PostTypes
<1> QED BY <1>1, <1>2, <1>4, <1>5, QuietStays

\* And one that goes on with what it has looked up.
LEMMA GoesOnStays ==
  ASSUME PostInv, NEW a \in Attempts, Posts!Busy(a), NEW x \in Handling, attempt' = [attempt EXCEPT ![a] = x],
         x.key = attempt[a].key, x.stored = attempt[a].stored \/ x.stored = a,
         files' = IF x.stored = a THEN files \cup {a} ELSE files,
         moved \subseteq moved', moved' \subseteq Keys, found' \in Rooms \cup {"none"},
         NoEventYet(a)', NoMessageYet(a)', SameRoom(a)',
         UNCHANGED <<events, messages, busiest, reaping, sounded, lost, racing, cut>>
  PROVE  PostInv'
<1>1. PostTypes /\ attempt[a].phase # "done"
  BY DEF PostInv, Posts!Busy
<1>2. StepOf(a, x)
  BY <1>1, AttemptUpdate
<1>3. attempt'[a] = x /\ x.phase \in Phases
  BY <1>2, HandlingFields DEF StepOf
<1>4. Posts!Busy(a)' /\ attempt'[a].phase # "waiting"
  BY <1>3 DEF Posts!Busy, Phases
<1>5. OwnFile(a) /\ files \subseteq files' /\ files' \subseteq files \cup {a}
  BY DEF PostInv
<1>6. OwnFile(a)'
  BY <1>3, <1>4, <1>5, PostConstants DEF OwnFile
<1>7. racing' \subseteq Keys /\ lost' \subseteq Attempts
  BY <1>1 DEF PostTypes
<1> QED BY <1>1, <1>2, <1>4, <1>5, <1>6, <1>7, QuietStays

LEMMA HasEventStays == ASSUME PostInv, NEW a \in Attempts, Posts!HasEvent(a) PROVE PostInv'
<1>1. /\ attempt[a].phase = "look"
      /\ UNCHANGED <<events, messages, files, busiest, found, reaping, sounded, restarts, lost, racing, moved, cut>>
  BY DEF Posts!HasEvent
<1>2. PostTypes /\ Posts!Busy(a) /\ attempt[a] \in Handling
  BY <1>1, AttemptKinds DEF PostInv, Phases
<1>3. /\ attempt[a].stored = "none" /\ a \notin files /\ attempt[a].route = "ingest" /\ attempt[a].room = "none"
  BY <1>1, <1>2, HandlingFields, PostConstants DEF PostInv, OwnFile
<1>4. UNCHANGED <<events, messages, files, busiest, found, reaping, sounded, lost, racing, moved, cut>>
      /\ lost' \subseteq Attempts /\ moved' \subseteq Keys /\ found' \in Rooms \cup {"none"}
  BY <1>1, <1>2 DEF PostTypes
<1>5. CASE Posts!Finish(a)
  BY <1>2, <1>3, <1>4, <1>5, FinishStays
<1>6. CASE ~Posts!Recorded(attempt[a].key) /\ attempt' = [attempt EXCEPT ![a].phase = IF attempt[a].file THEN "save" ELSE "record"]
  <2>1. PICK m \in Handling : m = attempt[a]
    BY <1>2
  <2>2. PICK ph \in {"save", "record"} : ph = IF attempt[a].file THEN "save" ELSE "record"
    OBVIOUS
  <2> DEFINE x == [m EXCEPT !.phase = ph]
  <2>3. attempt' = [attempt EXCEPT ![a] = x]
    BY <1>2, <1>6, <2>1, <2>2 DEF PostTypes
  <2>4. /\ x \in Handling /\ x.key = m.key /\ x.stored = m.stored /\ x.route = "ingest" /\ x.room = "none" /\ x.phase = ph
    BY <1>3, <2>1 DEF Handling, Phases
  <2> HIDE DEF x
  <2>5. attempt'[a] = x
    BY <1>2, <2>3 DEF PostTypes
  <2>6. PICK k : k = attempt[a].key
    OBVIOUS
  <2>7. ~Posts!Recorded(k)'
    BY <1>4, <1>6, <2>6 DEF Posts!Recorded
  <2>8. NoEventYet(a)'
    BY <2>1, <2>4, <2>5, <2>6, <2>7 DEF NoEventYet
  <2>9. NoMessageYet(a)' /\ SameRoom(a)'
    BY <2>4, <2>5 DEF NoMessageYet, SameRoom
  <2>10. x.stored # a
    BY <1>3, <2>1, <2>4, PostConstants
  <2> QED BY <1>2, <1>4, <2>1, <2>3, <2>4, <2>8, <2>9, <2>10, GoesOnStays
<1> QED BY <1>5, <1>6 DEF Posts!HasEvent

LEMMA SaveFileStays == ASSUME PostInv, NEW a \in Attempts, Posts!SaveFile(a) PROVE PostInv'
<1>1. /\ attempt[a].phase = "save"
      /\ UNCHANGED <<events, messages, busiest, found, reaping, sounded, restarts, racing, moved, cut>>
  BY DEF Posts!SaveFile
<1>2. PostTypes /\ Posts!Busy(a) /\ attempt[a] \in Handling
  BY <1>1, AttemptKinds DEF PostInv, Phases
<1>3. attempt[a].stored = "none" /\ a \notin files
  BY <1>1, <1>2, HandlingFields, PostConstants DEF PostInv, OwnFile
<1>4. UNCHANGED <<events, messages, busiest, found, reaping, sounded, racing, moved, cut>>
      /\ lost \subseteq Attempts /\ moved' \subseteq Keys /\ found' \in Rooms \cup {"none"}
  BY <1>1, <1>2 DEF PostTypes
<1>5. CASE Posts!Finish(a) /\ UNCHANGED <<files, lost>>
  BY <1>2, <1>3, <1>4, <1>5, FinishStays
<1>7. CASE Posts!Finish(a) /\ files' = files \cup {a} /\ lost' = lost \cup {a}
  BY <1>2, <1>4, <1>7, FinishStays
<1>6. CASE /\ files' = files \cup {a} /\ UNCHANGED lost
           /\ attempt' = [attempt EXCEPT ![a].stored = a, ![a].phase = IF attempt[a].route = "ingest" THEN "record" ELSE "deliver"]
  <2>1. PICK m \in Handling : m = attempt[a]
    BY <1>2
  <2>2. PICK ph \in {"record", "deliver"} : ph = IF m.route = "ingest" THEN "record" ELSE "deliver"
    OBVIOUS
  <2> DEFINE x == [m EXCEPT !.stored = a, !.phase = ph]
  <2>3. attempt' = [attempt EXCEPT ![a] = x]
    BY <1>2, <1>6, <2>1, <2>2 DEF PostTypes
  <2>4. /\ x \in Handling /\ x.key = m.key /\ x.stored = a /\ x.route = m.route /\ x.room = m.room /\ x.phase = ph
    BY <1>1, <2>1, <2>2 DEF Handling, Phases
  <2> HIDE DEF x
  <2>5. attempt'[a] = x
    BY <1>2, <2>3 DEF PostTypes
  <2>6. PICK k : k = attempt[a].key
    OBVIOUS
  <2>7. Posts!Recorded(k)' <=> Posts!Recorded(k)
    BY <1>4 DEF Posts!Recorded
  <2>8. NoEventYet(a)'
    BY <1>1, <1>2, <1>4, <2>1, <2>4, <2>5, <2>6, <2>7 DEF PostInv, NoEventYet
  <2>9. NoMessageYet(a)'
    <3>1. PICK rm : rm = attempt[a].room
      OBVIOUS
    <3>2. Posts!Posted(k, rm)' <=> Posts!Posted(k, rm)
      BY <1>4 DEF Posts!Posted
    <3> QED BY <1>1, <1>2, <1>4, <2>1, <2>4, <2>5, <2>6, <3>1, <3>2 DEF PostInv, NoMessageYet
  <2>10. SameRoom(a)'
    BY <1>1, <1>2, <1>4, <2>1, <2>2, <2>4, <2>5 DEF PostInv, SameRoom
  <2> QED BY <1>2, <1>4, <1>6, <2>1, <2>3, <2>4, <2>8, <2>9, <2>10, GoesOnStays
<1> QED BY <1>5, <1>6, <1>7 DEF Posts!SaveFile

LEMMA FailAttemptStays == ASSUME PostInv, NEW a \in Attempts, Posts!FailAttempt(a) PROVE PostInv'
<1>1. /\ Posts!Busy(a) /\ Posts!Finish(a) /\ lost' = lost \cup ({attempt[a].stored} \ {"none"})
      /\ UNCHANGED <<events, messages, files, busiest, found, reaping, sounded, restarts, racing, moved, cut>>
  BY DEF Posts!FailAttempt
<1>2. PostTypes /\ attempt[a].stored \in {"none", a} /\ (attempt[a].stored = a <=> a \in files)
  BY <1>1 DEF PostInv, OwnFile
<1>3. lost \subseteq lost' /\ lost' \subseteq Attempts /\ (a \in files => a \in lost')
  BY <1>1, <1>2, PostConstants DEF PostTypes
<1> QED BY <1>1, <1>3, FinishStays

LEMMA ResolveStays == ASSUME PostInv, NEW a \in Attempts, Posts!Resolve(a) PROVE PostInv'
<1>1. /\ attempt[a].phase = "resolve" /\ found' = IF found # "none" THEN found ELSE busiest
      /\ attempt' = [attempt EXCEPT ![a].room = found',
           ![a].phase = IF attempt[a].route = "media" THEN "find" ELSE IF attempt[a].file THEN "save" ELSE "deliver"]
      /\ moved' = IF \/ \E m \in messages : m.key = attempt[a].key /\ m.room # found'
                     \/ \E o \in Posts!Under(attempt[a].key) \ {a} : attempt[o].room \notin {"none", found'}
                  THEN moved \cup {attempt[a].key} ELSE moved
      /\ UNCHANGED <<events, messages, files, busiest, reaping, sounded, restarts, lost, racing, cut>>
  BY DEF Posts!Resolve
<1>2. PostTypes /\ Posts!Busy(a) /\ attempt[a] \in Handling
  BY <1>1, AttemptKinds DEF PostInv, Phases
<1>3. attempt[a].stored = "none" /\ attempt[a].route # "ingest" /\ attempt[a].key \in Keys
  BY <1>1, <1>2, HandlingFields
<1>4. PICK r \in Rooms : r = found'
  BY <1>1, <1>2 DEF PostTypes
<1>5. /\ moved \subseteq moved' /\ moved' \subseteq Keys
      /\ attempt[a].key \notin moved' => \A m \in messages : m.key = attempt[a].key => m.room = r
  BY <1>1, <1>2, <1>3, <1>4 DEF PostTypes
<1>6. PICK m \in Handling : m = attempt[a]
  BY <1>2
<1>7. PICK ph \in {"find", "save", "deliver"} :
        /\ ph = IF attempt[a].route = "media" THEN "find" ELSE IF attempt[a].file THEN "save" ELSE "deliver"
        /\ ph = "find" <=> m.route = "media"
  <2>1. CASE m.route = "media"
    BY <1>6, <2>1
  <2>2. CASE m.route # "media" /\ m.file
    BY <1>6, <2>2
  <2>3. CASE m.route # "media" /\ ~m.file
    BY <1>6, <2>3
  <2> QED BY <2>1, <2>2, <2>3
<1> DEFINE x == [m EXCEPT !.room = r, !.phase = ph]
<1>8. attempt' = [attempt EXCEPT ![a] = x]
  BY <1>1, <1>2, <1>4, <1>6, <1>7 DEF PostTypes
<1>9. x.key = m.key /\ x.stored = m.stored /\ x.route = m.route /\ x.room = r /\ x.phase = ph
  BY DEF Handling
<1>10. x \in Handling
  <2>1. x \in [phase : Phases, key : Keys, route : Paths, file : BOOLEAN, room : Rooms \cup {"none"},
               stored : Attempts \cup {"none"}]
    BY DEF Handling, Phases
  <2>2. x.stored = "none" /\ r # "none" /\ x.route # "ingest"
    BY <1>3, <1>6, <1>9, PostConstants
  <2>3. ph \in {"find", "save", "deliver"} /\ (ph = "find" => x.route = "media")
    BY <1>7, <1>9
  <2> HIDE DEF x
  <2>4. x.phase \in {"find", "deliver", "create"} \/ (x.phase = "save" /\ x.route # "ingest")
    BY <1>9, <2>2, <2>3
  <2> QED BY <1>9, <2>1, <2>2, <2>3, <2>4 DEF Handling
<1> HIDE DEF x
<1>11. attempt'[a] = x
  BY <1>2, <1>8 DEF PostTypes
<1>12. NoEventYet(a)' /\ NoMessageYet(a)'
  BY <1>3, <1>6, <1>7, <1>9, <1>11 DEF NoEventYet, NoMessageYet
<1>13. SameRoom(a)'
  BY <1>1, <1>5, <1>6, <1>7, <1>9, <1>11 DEF SameRoom
<1>14. /\ UNCHANGED <<events, messages, files, busiest, reaping, sounded, lost, racing, cut>> /\ found' \in Rooms \cup {"none"}
  BY <1>1, <1>4
<1>15. x.stored # a
  BY <1>3, <1>6, <1>9, PostConstants
<1> QED BY <1>2, <1>5, <1>6, <1>8, <1>9, <1>10, <1>12, <1>13, <1>14, <1>15, GoesOnStays

LEMMA FindServiceMessageStays == ASSUME PostInv, NEW a \in Attempts, Posts!FindServiceMessage(a) PROVE PostInv'
<1>1. /\ attempt[a].phase = "find"
      /\ UNCHANGED <<events, messages, files, busiest, found, reaping, sounded, restarts, lost, racing, moved, cut>>
  BY DEF Posts!FindServiceMessage
<1>2. PostTypes /\ Posts!Busy(a) /\ attempt[a] \in Handling
  BY <1>1, AttemptKinds DEF PostInv, Phases
<1>3. attempt[a].stored = "none" /\ a \notin files /\ attempt[a].route = "media" /\ attempt[a].room # "none"
  BY <1>1, <1>2, HandlingFields, PostConstants DEF PostInv, OwnFile
<1>4. UNCHANGED <<events, messages, files, busiest, found, reaping, sounded, lost, racing, moved, cut>>
      /\ lost' \subseteq Attempts /\ moved' \subseteq Keys /\ found' \in Rooms \cup {"none"}
  BY <1>1, <1>2 DEF PostTypes
<1>5. CASE Posts!Finish(a)
  BY <1>2, <1>3, <1>4, <1>5, FinishStays
<1>6. CASE ~Posts!Posted(attempt[a].key, attempt[a].room) /\ attempt' = [attempt EXCEPT ![a].phase = "save"]
  <2>1. PICK m \in Handling : m = attempt[a]
    BY <1>2
  <2> DEFINE x == [m EXCEPT !.phase = "save"]
  <2>2. attempt' = [attempt EXCEPT ![a] = x]
    BY <1>2, <1>6, <2>1 DEF PostTypes
  <2>3. /\ x \in Handling /\ x.key = m.key /\ x.stored = m.stored /\ x.route = "media" /\ x.room = m.room /\ x.phase = "save"
    BY <1>1, <1>3, <2>1 DEF Handling, Phases
  <2> HIDE DEF x
  <2>4. attempt'[a] = x
    BY <1>2, <2>2 DEF PostTypes
  <2>5. NoEventYet(a)'
    BY <2>3, <2>4 DEF NoEventYet
  <2>6. NoMessageYet(a)'
    BY <1>4, <1>6, <2>1, <2>3, <2>4 DEF NoMessageYet, Posts!Posted
  <2>7. SameRoom(a)'
    BY <1>2, <1>4, <2>1, <2>3, <2>4 DEF PostInv, SameRoom
  <2>8. x.stored # a
    BY <1>3, <2>1, <2>3, PostConstants
  <2> QED BY <1>2, <1>4, <2>1, <2>2, <2>3, <2>5, <2>6, <2>7, <2>8, GoesOnStays
<1> QED BY <1>5, <1>6 DEF Posts!FindServiceMessage

LEMMA DeliverStays == ASSUME PostInv, NEW a \in Attempts, Posts!Deliver(a) PROVE PostInv'
<1>1. /\ attempt[a].phase = "deliver"
      /\ UNCHANGED <<events, messages, files, busiest, found, reaping, sounded, restarts, racing, moved, cut>>
  BY DEF Posts!Deliver
<1>2. PostTypes /\ Posts!Busy(a) /\ attempt[a] \in Handling
  BY <1>1, AttemptKinds DEF PostInv, Phases
<1>3. /\ attempt[a].route \in {"post", "media"} /\ attempt[a].room # "none"
      /\ a \in files => attempt[a].stored = a
  BY <1>1, <1>2, HandlingFields DEF PostInv, OwnFile, Paths
<1>4. UNCHANGED <<events, messages, files, busiest, found, reaping, sounded, racing, moved, cut>>
      /\ lost \subseteq Attempts /\ moved' \subseteq Keys /\ found' \in Rooms \cup {"none"}
  BY <1>1, <1>2 DEF PostTypes
<1>5. CASE Posts!Posted(attempt[a].key, attempt[a].room)
  <2>1. /\ Posts!Finish(a)
        /\ lost' = IF attempt[a].route = "post" \/ attempt[a].key \in racing
                   THEN lost \cup ({attempt[a].stored} \ {"none"}) ELSE lost
    BY <1>5 DEF Posts!Deliver
  <2>2. attempt[a].route = "post" \/ attempt[a].key \in racing
    BY <1>1, <1>2, <1>3, <1>5 DEF PostInv, NoMessageYet
  <2>3. lost \subseteq lost' /\ lost' \subseteq Attempts /\ (a \in files => a \in lost')
    BY <1>2, <1>3, <1>4, <2>1, <2>2, HandlingFields, PostConstants
  <2> QED BY <1>2, <1>4, <2>1, <2>3, FinishStays
<1>6. CASE ~Posts!Posted(attempt[a].key, attempt[a].room)
  <2>1. attempt' = [attempt EXCEPT ![a].phase = "create"] /\ UNCHANGED lost
    BY <1>6 DEF Posts!Deliver
  <2>2. PICK m \in Handling : m = attempt[a]
    BY <1>2
  <2> DEFINE x == [m EXCEPT !.phase = "create"]
  <2>3. attempt' = [attempt EXCEPT ![a] = x]
    BY <1>2, <2>1, <2>2 DEF PostTypes
  <2>4. /\ x \in Handling /\ x.key = m.key /\ x.stored = m.stored /\ x.route = m.route /\ x.room = m.room /\ x.phase = "create"
    BY <1>1, <1>3, <2>2 DEF Handling, Phases
  <2> HIDE DEF x
  <2>5. attempt'[a] = x
    BY <1>2, <2>3 DEF PostTypes
  <2>6. NoEventYet(a)' /\ NoMessageYet(a)'
    BY <2>4, <2>5 DEF NoEventYet, NoMessageYet
  <2>7. SameRoom(a)'
    BY <1>2, <1>3, <1>4, <1>6, <2>2, <2>4, <2>5 DEF PostInv, SameRoom, Posts!Posted
  <2>8. files' = IF x.stored = a THEN files \cup {a} ELSE files
    BY <1>2, <1>4, <2>2, <2>4 DEF PostInv, OwnFile
  <2> QED BY <1>2, <1>4, <2>1, <2>2, <2>3, <2>4, <2>6, <2>7, <2>8, GoesOnStays
<1> QED BY <1>5, <1>6

-----------------------------------------------------------------------------
(* What a post leaves. *)

LEMMA RecordEventStays == ASSUME PostInv, NEW a \in Attempts, Posts!Record(a) PROVE PostInv'
<1>1. /\ attempt[a].phase = "record" /\ Posts!Finish(a)
      /\ UNCHANGED <<messages, files, busiest, found, reaping, restarts, racing, moved, cut>>
  BY DEF Posts!Record
<1>2. PostTypes /\ Posts!Busy(a) /\ attempt[a] \in Handling
  BY <1>1, AttemptKinds DEF PostInv, Phases
<1>3. PICK k \in Keys, st \in {"none", a} : k = attempt[a].key /\ st = attempt[a].stored
  BY <1>2, HandlingFields DEF PostInv, OwnFile
<1>4. attempt[a].route = "ingest" /\ (st = a <=> a \in files)
  BY <1>1, <1>2, <1>3, HandlingFields DEF PostInv, OwnFile
<1>5. UNCHANGED <<messages, files, busiest, found, reaping, racing, moved, cut>>
      /\ moved' \subseteq Keys /\ found' \in Rooms \cup {"none"} /\ lost \subseteq Attempts
  BY <1>1, <1>2 DEF PostTypes
<1>6. CASE Posts!Recorded(k)
  <2>1. UNCHANGED <<events, sounded>> /\ lost' = IF k \in racing THEN lost \cup ({st} \ {"none"}) ELSE lost
    BY <1>3, <1>6 DEF Posts!Record
  <2>2. k \in racing
    BY <1>1, <1>2, <1>3, <1>4, <1>6 DEF PostInv, NoEventYet
  <2>3. lost \subseteq lost' /\ lost' \subseteq Attempts /\ (a \in files => a \in lost')
    BY <1>3, <1>4, <1>5, <2>1, <2>2, PostConstants
  <2> QED BY <1>1, <1>2, <1>5, <2>1, <2>3, FinishStays
<1>7. CASE ~Posts!Recorded(k)
  <2> DEFINE n == [key |-> k, file |-> st, age |-> "kept"]
  <2>1. /\ UNCHANGED lost /\ events' = events \cup {n}
        /\ sounded' \in {sounded, [sounded EXCEPT ![k] = IF @ < 2 THEN @ + 1 ELSE @]}
    BY <1>3, <1>7 DEF Posts!Record
  <2>2. n \in EventOf /\ n.key = k /\ n.file = st
    BY <1>3 DEF EventOf
  <2> HIDE DEF n
  <2>3. StepOf(a, Posts!Done)
    BY <1>1, <1>2, AttemptUpdate DEF Posts!Finish
  <2>4. attempt'[a] = Posts!Done /\ \A b \in Attempts : b # a => attempt'[b] = attempt[b]
    BY <2>3 DEF StepOf
  <2>5. ~Posts!Busy(a)' /\ OwnFile(a)' /\ NoEventYet(a)' /\ NoMessageYet(a)' /\ SameRoom(a)'
    BY <2>4, DoneRests
  <2>6. sounded' \in [Keys -> 0..2]
    <3>1. sounded[k] \in 0..2 /\ sounded \in [Keys -> 0..2]
      BY <1>2, <1>3 DEF PostTypes
    <3>2. PICK i : i = IF sounded[k] < 2 THEN sounded[k] + 1 ELSE sounded[k]
      OBVIOUS
    <3>3. i \in 0..2
      BY <3>1, <3>2
    <3>4. sounded' = sounded \/ sounded' = [sounded EXCEPT ![k] = i]
      BY <2>1, <3>2
    <3> QED BY <3>1, <3>3, <3>4
  <2>7. PostTypes'
    BY <1>2, <1>5, <2>1, <2>2, <2>3, <2>6 DEF PostTypes, StepOf
  <2>8. \A e \in events : e.file # a /\ e.key # k
    BY <1>1, <1>7, PostConstants DEF PostInv, FileOfOne, Posts!Recorded
  <2>9. OneEvent'
    BY <2>1, <2>2, <2>8 DEF PostInv, OneEvent
  <2>10. FileOfOne'
    <3>1. \A b \in Attempts : attempt[b].phase = "done" => attempt'[b].phase = "done"
      BY <1>1, <2>4
    <3>2. \A ev \in events : ev.file # "none" => ev.file \in Attempts
      BY <1>2 DEF PostTypes, EventOf
    <3>3. \A ev \in events' : ev.file # "none" => attempt'[ev.file].phase = "done"
      BY <1>3, <2>1, <2>2, <2>4, <3>1, <3>2, DoneIs DEF PostInv, FileOfOne
    <3>4. \A e, f \in events' : e.file # "none" /\ e.file = f.file => e = f
      BY <1>3, <2>1, <2>2, <2>8 DEF PostInv, FileOfOne
    <3> QED BY <3>3, <3>4 DEF FileOfOne
  <2>11. \A b \in Attempts : Unmet(b)'
    BY <1>5, <2>3, <2>5, UnmetStays
  <2>12. ASSUME NEW b \in Attempts, b # a
         PROVE  OwnFile(b)' /\ NoEventYet(b)' /\ NoMessageYet(b)' /\ SameRoom(b)'
    <3>1. attempt'[b] = attempt[b] /\ racing \subseteq racing' /\ moved \subseteq moved'
      BY <1>5, <2>4, <2>12
    <3>2. ASSUME Posts!Busy(b), attempt[b].key \notin racing'
          PROVE  Posts!Recorded(attempt[b].key)' => Posts!Recorded(attempt[b].key)
      <4>1. attempt[b].key # k
        BY <1>2, <1>3, <1>5, <2>12, <3>2 DEF PostInv, Unmet
      <4> QED BY <2>1, <2>2, <3>1, <4>1 DEF Posts!Recorded
    <3> QED BY <1>5, <3>1, <3>2, OthersStay
  <2>13. Posts!LandsOnceUnlessMoved'
    BY <1>5, <2>9 DEF PostInv, OneEvent, Posts!LandsOnceUnlessMoved
  <2>14. Posts!FilesAreReferredToUnlessCut'
    <3> SUFFICES ASSUME NEW b \in files, b \notin lost
                 PROVE  (\E ev \in events' : ev.file = b) \/ (\E m \in messages : m.file = b) \/ Posts!Busy(b)'
      BY <1>5, <2>1 DEF Posts!FilesAreReferredToUnlessCut
    <3>1. CASE b = a
      BY <1>4, <2>1, <2>2, <3>1
    <3>2. CASE b # a
      <4>1. b \in Attempts /\ (Posts!Busy(b)' <=> Posts!Busy(b))
        BY <1>2, <2>4, <3>2 DEF PostTypes, Posts!Busy
      <4> QED BY <2>1, <4>1 DEF PostInv, Posts!FilesAreReferredToUnlessCut
    <3> QED BY <3>1, <3>2
  <2>15. Posts!LinksOpenUnlessSwept'
    BY <1>3, <1>4, <1>5, <2>1, <2>2 DEF PostInv, Posts!LinksOpenUnlessSwept
  <2> QED BY <2>5, <2>7, <2>9, <2>10, <2>11, <2>12, <2>13, <2>14, <2>15 DEF PostInv
<1> QED BY <1>6, <1>7

LEMMA CreateMessageStays == ASSUME PostInv, NEW a \in Attempts, Posts!CreateMessage(a) PROVE PostInv'
<1>1. /\ attempt[a].phase = "create" /\ Posts!Finish(a)
      /\ messages' = messages \cup {[key |-> attempt[a].key, room |-> attempt[a].room, by |-> a, file |-> attempt[a].stored]}
      /\ busiest' \in {busiest, attempt[a].room}
      /\ UNCHANGED <<events, files, found, reaping, sounded, restarts, lost, racing, moved, cut>>
  BY DEF Posts!CreateMessage
<1>2. PostTypes /\ Posts!Busy(a) /\ attempt[a] \in Handling
  BY <1>1, AttemptKinds DEF PostInv, Phases
<1>3. PICK k \in Keys, rm \in Rooms, st \in {"none", a} : k = attempt[a].key /\ rm = attempt[a].room /\ st = attempt[a].stored
  BY <1>1, <1>2, HandlingFields DEF PostInv, OwnFile
<1>4. st = a <=> a \in files
  BY <1>2, <1>3 DEF PostInv, OwnFile
<1> DEFINE n == [key |-> k, room |-> rm, by |-> a, file |-> st]
<1>5. messages' = messages \cup {n}
  BY <1>1, <1>3
<1>6. n \in NoteOf /\ n.key = k /\ n.file = st /\ n.room = rm
  BY <1>3 DEF NoteOf
<1> HIDE DEF n
<1>7. /\ UNCHANGED <<events, files, found, reaping, sounded, lost, racing, moved, cut>>
      /\ racing \subseteq racing' /\ moved \subseteq moved' /\ busiest' \in Rooms
  BY <1>1, <1>2, <1>3 DEF PostTypes
<1>8. StepOf(a, Posts!Done)
  BY <1>1, <1>2, AttemptUpdate DEF Posts!Finish
<1>9. attempt'[a] = Posts!Done /\ \A b \in Attempts : b # a => attempt'[b] = attempt[b]
  BY <1>8 DEF StepOf
<1>10. ~Posts!Busy(a)' /\ OwnFile(a)' /\ NoEventYet(a)' /\ NoMessageYet(a)' /\ SameRoom(a)'
  BY <1>9, DoneRests
<1>11. PostTypes'
  BY <1>2, <1>5, <1>6, <1>7, <1>8 DEF PostTypes, StepOf
<1>12. FileOfOne' /\ OneEvent'
  BY <1>1, <1>7, <1>8, FilesOfEventsStay
<1>13. \A b \in Attempts : Unmet(b)'
  BY <1>7, <1>8, <1>10, UnmetStays
<1>14. ASSUME NEW b \in Attempts, b # a
       PROVE  OwnFile(b)' /\ NoEventYet(b)' /\ NoMessageYet(b)' /\ SameRoom(b)'
  <2>1. attempt'[b] = attempt[b]
    BY <1>9, <1>14
  <2>2. ASSUME Posts!Busy(b), attempt[b].key \notin racing'
        PROVE  \A m \in messages' : m.key = attempt[b].key => m \in messages
    <3>1. attempt[b].key # k
      BY <1>2, <1>3, <1>7, <1>14, <2>2 DEF PostInv, Unmet
    <3> QED BY <1>5, <1>6, <3>1
  <2>3. Posts!Recorded(attempt[b].key)' => Posts!Recorded(attempt[b].key)
    BY <1>7, <2>1 DEF Posts!Recorded
  <2> QED BY <1>7, <2>1, <2>2, <2>3, OthersStay
<1>15. Posts!LandsOnceUnlessMoved'
  <2>1. k \notin racing \cup moved => \A m \in messages : m.key # k
    BY <1>1, <1>2, <1>3 DEF PostInv, SameRoom
  <2>2. \A i, j \in messages' : i.key = j.key /\ i.key \notin racing \cup moved => i = j
    BY <1>5, <1>6, <2>1 DEF PostInv, Posts!LandsOnceUnlessMoved
  <2> QED BY <1>7, <2>2 DEF PostInv, Posts!LandsOnceUnlessMoved
<1>16. Posts!FilesAreReferredToUnlessCut'
  <2> SUFFICES ASSUME NEW b \in files, b \notin lost
               PROVE  (\E ev \in events : ev.file = b) \/ (\E m \in messages' : m.file = b) \/ Posts!Busy(b)'
    BY <1>7 DEF Posts!FilesAreReferredToUnlessCut
  <2>1. CASE b = a
    BY <1>4, <1>5, <1>6, <2>1
  <2>2. CASE b # a
    <3>1. b \in Attempts /\ (Posts!Busy(b)' <=> Posts!Busy(b))
      BY <1>2, <1>9, <2>2 DEF PostTypes, Posts!Busy
    <3> QED BY <1>5, <3>1 DEF PostInv, Posts!FilesAreReferredToUnlessCut
  <2> QED BY <2>1, <2>2
<1>17. Posts!LinksOpenUnlessSwept'
  BY <1>7 DEF PostInv, Posts!LinksOpenUnlessSwept
<1> QED BY <1>10, <1>11, <1>12, <1>13, <1>14, <1>15, <1>16, <1>17 DEF PostInv

-----------------------------------------------------------------------------
(* Events grow old, rooms are written in, and the server is restarted. *)

LEMMA AttemptsRest ==
  ASSUME PostInv, PostTypes', FileOfOne', OneEvent', UNCHANGED <<attempt, messages, racing, moved>>,
         files' \subseteq files, \A a \in Attempts : Posts!Busy(a) /\ a \in files => a \in files',
         \A ev \in events' : \E e \in events : e.key = ev.key,
         Posts!FilesAreReferredToUnlessCut', Posts!LinksOpenUnlessSwept'
  PROVE  PostInv'
<1>1. ASSUME NEW b \in Attempts
      PROVE  OwnFile(b)' /\ NoEventYet(b)' /\ NoMessageYet(b)' /\ SameRoom(b)'
  <2>1. Posts!Recorded(attempt[b].key)' => Posts!Recorded(attempt[b].key)
    BY DEF Posts!Recorded
  <2>2. attempt'[b] = attempt[b] /\ racing \subseteq racing' /\ moved \subseteq moved'
    OBVIOUS
  <2> QED BY <2>1, <2>2, OthersStay
<1>2. \A b \in Attempts : Unmet(b)'
  BY DEF PostInv, Unmet, Posts!Busy
<1>3. Posts!LandsOnceUnlessMoved'
  BY DEF PostInv, OneEvent, Posts!LandsOnceUnlessMoved
<1> QED BY <1>1, <1>2, <1>3 DEF PostInv

LEMMA RoomsMoveStays ==
  ASSUME PostInv, busiest' \in Rooms, found' \in Rooms \cup {"none"},
         UNCHANGED <<events, messages, files, attempt, reaping, sounded, lost, racing, moved, cut>>
  PROVE  PostInv'
<1>1. PostTypes' /\ FileOfOne' /\ OneEvent'
  BY DEF PostInv, PostTypes, FileOfOne, OneEvent
<1>2. Posts!FilesAreReferredToUnlessCut' /\ Posts!LinksOpenUnlessSwept'
  BY DEF PostInv, Posts!FilesAreReferredToUnlessCut, Posts!LinksOpenUnlessSwept, Posts!Busy
<1> QED BY <1>1, <1>2, AttemptsRest

LEMMA WriteStays == ASSUME PostInv, NEW r \in Rooms, Posts!Write(r) PROVE PostInv'
<1>1. found' \in Rooms \cup {"none"}
  BY DEF PostInv, PostTypes, Posts!Write
<1> QED BY <1>1, RoomsMoveStays DEF Posts!Write

LEMMA RoomCacheExpiresStays == ASSUME PostInv, Posts!CacheExpires PROVE PostInv'
<1>1. busiest' \in Rooms
  BY DEF PostInv, PostTypes, Posts!CacheExpires
<1> QED BY <1>1, RoomsMoveStays DEF Posts!CacheExpires

LEMMA AgeStays == ASSUME PostInv, NEW ev \in events, Posts!Age(ev) PROVE PostInv'
<1> DEFINE g == [ev EXCEPT !.age = "due"]
<1>1. /\ ev.age = "kept" /\ events' = (events \ {ev}) \cup {g}
      /\ UNCHANGED <<messages, files, busiest, found, attempt, reaping, sounded, restarts, lost, racing, moved, cut>>
  BY DEF Posts!Age
<1>2. PostTypes /\ g \in EventOf /\ g.key = ev.key /\ g.file = ev.file /\ g.age = "due"
  BY DEF PostInv, PostTypes, EventOf
<1> HIDE DEF g
<1>3. ev \notin reaping
  BY <1>1, <1>2 DEF PostTypes
<1>4. PostTypes'
  BY <1>1, <1>2, <1>3 DEF PostTypes
<1>5. FileOfOne' /\ OneEvent'
  BY <1>1, <1>2 DEF PostInv, FileOfOne, OneEvent
<1>6. Posts!FilesAreReferredToUnlessCut'
  BY <1>1, <1>2 DEF PostInv, Posts!FilesAreReferredToUnlessCut, Posts!Busy
<1>7. Posts!LinksOpenUnlessSwept'
  BY <1>1, <1>2, <1>3 DEF PostInv, Posts!LinksOpenUnlessSwept
<1>8. \A e \in events' : \E f \in events : f.key = e.key
  BY <1>1, <1>2
<1> QED BY <1>1, <1>4, <1>5, <1>6, <1>7, <1>8, AttemptsRest

LEMMA StartSweepStays == ASSUME PostInv, Posts!StartSweep PROVE PostInv'
<1>1. /\ reaping = {} /\ reaping' = {ev \in events : ev.age = "due" /\ ev.file # "none"}
      /\ UNCHANGED <<events, messages, files, busiest, found, attempt, sounded, restarts, lost, racing, moved, cut>>
  BY DEF Posts!StartSweep
<1>2. PostTypes' /\ FileOfOne' /\ OneEvent'
  BY <1>1 DEF PostInv, PostTypes, FileOfOne, OneEvent
<1>3. Posts!FilesAreReferredToUnlessCut' /\ Posts!LinksOpenUnlessSwept'
  BY <1>1 DEF PostInv, Posts!FilesAreReferredToUnlessCut, Posts!LinksOpenUnlessSwept, Posts!Busy
<1> QED BY <1>1, <1>2, <1>3, AttemptsRest

LEMMA DeleteFileStays == ASSUME PostInv, NEW ev \in events, Posts!DeleteFile(ev) PROVE PostInv'
<1>1. /\ ev \in reaping /\ ev.file \in files
      /\ \/ files' = files \ {ev.file} /\ UNCHANGED lost
         \/ lost' = lost \cup {ev.file} /\ UNCHANGED files
      /\ UNCHANGED <<events, messages, busiest, found, attempt, reaping, sounded, restarts, racing, moved, cut>>
  BY DEF Posts!DeleteFile
<1>2. PostTypes /\ ev.file # "none" /\ ev.file \in Attempts
  BY <1>1 DEF PostInv, PostTypes
<1>3. ~Posts!Busy(ev.file)
  BY <1>2 DEF PostInv, FileOfOne, Posts!Busy
<1>4. PostTypes' /\ FileOfOne' /\ OneEvent'
  BY <1>1, <1>2 DEF PostInv, PostTypes, FileOfOne, OneEvent
<1>5. Posts!FilesAreReferredToUnlessCut'
  BY <1>1 DEF PostInv, Posts!FilesAreReferredToUnlessCut, Posts!Busy
<1>6. Posts!LinksOpenUnlessSwept'
  BY <1>1, <1>2 DEF PostInv, FileOfOne, Posts!LinksOpenUnlessSwept
<1>7. files' \subseteq files /\ \A a \in Attempts : Posts!Busy(a) /\ a \in files => a \in files'
  BY <1>1, <1>3
<1> QED BY <1>1, <1>4, <1>5, <1>6, <1>7, AttemptsRest

LEMMA ReapFailsStays == ASSUME PostInv, NEW ev \in events, Posts!ReapFails(ev) PROVE PostInv'
<1>1. /\ ev \in reaping /\ reaping' = reaping \ {ev} /\ cut' = cut \cup ({ev.file} \ files)
      /\ UNCHANGED <<events, messages, files, busiest, found, attempt, sounded, restarts, lost, racing, moved>>
  BY DEF Posts!ReapFails
<1>2. PostTypes /\ ev.file \in Attempts
  BY <1>1 DEF PostInv, PostTypes, EventOf
<1>3. PostTypes' /\ FileOfOne' /\ OneEvent'
  BY <1>1, <1>2 DEF PostInv, PostTypes, FileOfOne, OneEvent
<1>4. Posts!FilesAreReferredToUnlessCut'
  BY <1>1 DEF PostInv, Posts!FilesAreReferredToUnlessCut, Posts!Busy
<1>5. Posts!LinksOpenUnlessSwept'
  BY <1>1 DEF PostInv, Posts!LinksOpenUnlessSwept
<1> QED BY <1>1, <1>3, <1>4, <1>5, AttemptsRest

LEMMA UnsetAttachmentStays == ASSUME PostInv, NEW ev \in events, Posts!UnsetAttachment(ev) PROVE PostInv'
<1> DEFINE g == [ev EXCEPT !.file = "none"]
<1>1. /\ ev \in reaping /\ (ev.file \notin files \/ ev.file \in lost)
      /\ events' = (events \ {ev}) \cup {g} /\ reaping' = reaping \ {ev}
      /\ UNCHANGED <<messages, files, busiest, found, attempt, sounded, restarts, lost, racing, moved, cut>>
  BY DEF Posts!UnsetAttachment
<1>2. PostTypes /\ g \in EventOf /\ g.key = ev.key /\ g.file = "none"
  BY DEF PostInv, PostTypes, EventOf
<1> HIDE DEF g
<1>3. PostTypes'
  BY <1>1, <1>2 DEF PostTypes
<1>4. FileOfOne' /\ OneEvent'
  BY <1>1, <1>2 DEF PostInv, FileOfOne, OneEvent
<1>5. Posts!FilesAreReferredToUnlessCut'
  BY <1>1, <1>2 DEF PostInv, Posts!FilesAreReferredToUnlessCut, Posts!Busy
<1>6. Posts!LinksOpenUnlessSwept'
  BY <1>1, <1>2 DEF PostInv, Posts!LinksOpenUnlessSwept
<1>7. \A e \in events' : \E f \in events : f.key = e.key
  BY <1>1, <1>2
<1> QED BY <1>1, <1>3, <1>4, <1>5, <1>6, <1>7, AttemptsRest

LEMMA ExpireStays == ASSUME PostInv, NEW ev \in events, Posts!Expire(ev) PROVE PostInv'
<1>1. /\ ev \notin reaping /\ events' = events \ {ev} /\ lost' = lost \cup ({ev.file} \ {"none"})
      /\ UNCHANGED <<messages, files, busiest, found, attempt, reaping, sounded, restarts, racing, moved, cut>>
  BY DEF Posts!Expire
<1>2. PostTypes /\ ev.file \in Attempts \cup {"none"}
  BY DEF PostInv, PostTypes, EventOf
<1>3. PostTypes' /\ FileOfOne' /\ OneEvent'
  BY <1>1, <1>2 DEF PostInv, PostTypes, FileOfOne, OneEvent
<1>4. Posts!FilesAreReferredToUnlessCut' /\ Posts!LinksOpenUnlessSwept'
  BY <1>1, <1>2, PostConstants DEF PostInv, PostTypes, Posts!FilesAreReferredToUnlessCut, Posts!LinksOpenUnlessSwept, Posts!Busy
<1> QED BY <1>1, <1>3, <1>4, AttemptsRest

LEMMA MessageGoesStays == ASSUME PostInv, NEW m \in messages, Posts!MessageGoes(m) PROVE PostInv'
<1>1. /\ messages' = messages \ {m} /\ lost' = lost \cup ({m.file} \ {"none"})
      /\ UNCHANGED <<events, files, busiest, found, attempt, reaping, sounded, restarts, racing, moved, cut>>
  BY DEF Posts!MessageGoes
<1>2. PostTypes /\ m.file \in Attempts \cup {"none"}
  BY DEF PostInv, PostTypes, NoteOf
<1>3. PostTypes' /\ FileOfOne' /\ OneEvent'
  BY <1>1, <1>2 DEF PostInv, PostTypes, FileOfOne, OneEvent
<1>4. ASSUME NEW b \in Attempts
      PROVE  OwnFile(b)' /\ NoEventYet(b)' /\ NoMessageYet(b)' /\ SameRoom(b)'
  <2>1. /\ attempt'[b] = attempt[b] /\ racing \subseteq racing' /\ moved \subseteq moved'
        /\ \A n \in messages' : n \in messages
    BY <1>1
  <2>2. Posts!Recorded(attempt[b].key)' => Posts!Recorded(attempt[b].key)
    BY <1>1 DEF Posts!Recorded
  <2> QED BY <1>1, <2>1, <2>2, OthersStay
<1>5. \A b \in Attempts : Unmet(b)'
  BY <1>1 DEF PostInv, Unmet, Posts!Busy
<1>6. Posts!LandsOnceUnlessMoved'
  BY <1>1 DEF PostInv, Posts!LandsOnceUnlessMoved
<1>7. Posts!FilesAreReferredToUnlessCut'
  <2> SUFFICES ASSUME NEW b \in files, b \notin lost'
               PROVE  (\E ev \in events : ev.file = b) \/ (\E n \in messages' : n.file = b) \/ Posts!Busy(b)'
    BY <1>1 DEF Posts!FilesAreReferredToUnlessCut
  <2>1. b \in Attempts /\ b # "none" /\ b # m.file /\ b \in files \ lost
    BY <1>1, <1>2, PostConstants DEF PostTypes
  <2>2. Posts!Busy(b)' <=> Posts!Busy(b)
    BY <1>1 DEF Posts!Busy
  <2> QED BY <1>1, <2>1, <2>2 DEF PostInv, Posts!FilesAreReferredToUnlessCut
<1>8. Posts!LinksOpenUnlessSwept'
  BY <1>1 DEF PostInv, Posts!LinksOpenUnlessSwept
<1> QED BY <1>3, <1>4, <1>5, <1>6, <1>7, <1>8 DEF PostInv

LEMMA ServerRestartStays == ASSUME PostInv, Posts!Restart PROVE PostInv'
<1>1. /\ attempt' = [a \in Attempts |-> IF Posts!Busy(a) THEN Posts!Done ELSE attempt[a]]
      /\ reaping' = {} /\ found' = "none"
      /\ cut' = cut \cup ({ev.file : ev \in reaping} \ files) /\ lost' = lost \cup {a \in files : Posts!Busy(a)}
      /\ UNCHANGED <<events, messages, files, busiest, sounded, racing, moved>>
  BY DEF Posts!Restart
<1>2. PostTypes
  BY DEF PostInv
<1>3. ASSUME NEW a \in Attempts
      PROVE  /\ ~Posts!Busy(a)' /\ attempt'[a] \in {Posts!Waiting, Posts!Done} \cup Handling
             /\ attempt'[a].phase = "waiting" => attempt[a].phase = "waiting"
             /\ attempt[a].phase = "done" => attempt'[a].phase = "done"
  <2>1. attempt'[a] = IF Posts!Busy(a) THEN Posts!Done ELSE attempt[a]
    BY <1>1
  <2>2. CASE Posts!Busy(a)
    BY <2>1, <2>2, DoneIs DEF Posts!Busy
  <2>3. CASE ~Posts!Busy(a)
    BY <1>2, <2>1, <2>3 DEF PostTypes, Posts!Busy
  <2> QED BY <2>2, <2>3
<1>4. attempt' \in [Attempts -> {Posts!Waiting, Posts!Done} \cup Handling]
  BY <1>1, <1>3
<1>5. \A ev \in events : ev.file # "none" => ev.file \in Attempts
  BY <1>2 DEF PostTypes, EventOf
<1>6. PostTypes'
  BY <1>1, <1>2, <1>4, <1>5 DEF PostTypes
<1>7. FileOfOne' /\ OneEvent'
  BY <1>1, <1>3, <1>5 DEF PostInv, FileOfOne, OneEvent
<1>8. \A a \in Attempts : OwnFile(a)' /\ Unmet(a)' /\ NoEventYet(a)' /\ NoMessageYet(a)' /\ SameRoom(a)'
  BY <1>1, <1>3 DEF PostInv, OwnFile, Unmet, NoEventYet, NoMessageYet, SameRoom
<1>9. Posts!LandsOnceUnlessMoved'
  BY <1>1 DEF PostInv, Posts!LandsOnceUnlessMoved
<1>10. Posts!FilesAreReferredToUnlessCut'
  BY <1>1 DEF PostInv, Posts!FilesAreReferredToUnlessCut
<1>11. Posts!LinksOpenUnlessSwept'
  BY <1>1 DEF PostInv, Posts!LinksOpenUnlessSwept
<1> QED BY <1>6, <1>7, <1>8, <1>9, <1>10, <1>11 DEF PostInv

-----------------------------------------------------------------------------
LEMMA FeedBegins == ASSUME WorkspaceInit PROVE PostInv
<1>1. Posts!FeedInit
  BY DEF WorkspaceInit
<1>2. /\ events = {} /\ messages = {} /\ files = {} /\ reaping = {} /\ lost = {} /\ racing = {} /\ moved = {} /\ cut = {}
      /\ busiest \in Rooms /\ found = "none"
      /\ attempt = [a \in Attempts |-> Posts!Waiting] /\ sounded = [k \in Keys |-> 0]
  BY <1>1 DEF Posts!FeedInit
<1>3. \A a \in Attempts : attempt[a].phase = "waiting" /\ ~Posts!Busy(a)
  BY <1>2, DoneIs DEF Posts!Busy
<1>4. PostTypes
  BY <1>2 DEF PostTypes
<1>5. FileOfOne /\ OneEvent
  BY <1>2 DEF FileOfOne, OneEvent
<1>6. \A a \in Attempts : OwnFile(a) /\ Unmet(a) /\ NoEventYet(a) /\ NoMessageYet(a) /\ SameRoom(a)
  BY <1>2, <1>3 DEF OwnFile, Unmet, NoEventYet, NoMessageYet, SameRoom
<1>7. Posts!LandsOnceUnlessMoved /\ Posts!FilesAreReferredToUnlessCut /\ Posts!LinksOpenUnlessSwept
  BY <1>2 DEF Posts!LandsOnceUnlessMoved, Posts!FilesAreReferredToUnlessCut, Posts!LinksOpenUnlessSwept
<1> QED BY <1>4, <1>5, <1>6, <1>7 DEF PostInv

LEMMA FeedNextStays == ASSUME PostInv, Posts!FeedNext PROVE PostInv'
<1>1. ASSUME NEW a \in Attempts, NEW k \in Keys, NEW route \in Posts!Routes, NEW file \in BOOLEAN, Posts!Receive(a, k, route, file)
      PROVE  PostInv'
  BY <1>1, ReceiveStays DEF Posts!Routes, Paths
<1>2. ASSUME NEW a \in Attempts,
             \/ Posts!HasEvent(a) \/ Posts!SaveFile(a) \/ Posts!Record(a) \/ Posts!Resolve(a)
             \/ Posts!FindServiceMessage(a) \/ Posts!Deliver(a) \/ Posts!CreateMessage(a) \/ Posts!FailAttempt(a)
      PROVE  PostInv'
  BY <1>2, HasEventStays, SaveFileStays, RecordEventStays, ResolveStays, FindServiceMessageStays, DeliverStays,
     CreateMessageStays, FailAttemptStays
<1>3. ASSUME NEW ev \in events,
             \/ Posts!Age(ev) \/ Posts!DeleteFile(ev) \/ Posts!UnsetAttachment(ev) \/ Posts!ReapFails(ev) \/ Posts!Expire(ev)
      PROVE  PostInv'
  BY <1>3, AgeStays, DeleteFileStays, UnsetAttachmentStays, ReapFailsStays, ExpireStays
<1> QED BY <1>1, <1>2, <1>3, MessageGoesStays, WriteStays, RoomCacheExpiresStays, StartSweepStays, ServerRestartStays DEF Posts!FeedNext

LEMMA FeedStays == ASSUME PostInv, [WorkspaceNext]_<<part, access, posting, signing, mailbox, sorting, places, pushing>> PROVE PostInv'
<1>1. CASE UNCHANGED posting
  <2>1. UNCHANGED <<events, messages, files, busiest, found, attempt, reaping, sounded, lost, racing, moved, cut>>
    BY <1>1 DEF posting
  <2>2. busiest' \in Rooms /\ found' \in Rooms \cup {"none"}
    BY <2>1 DEF PostInv, PostTypes
  <2> QED BY <2>1, <2>2, RoomsMoveStays
<1>2. CASE Posts!FeedNext
  BY <1>2, FeedNextStays
<1> QED BY <1>1, <1>2 DEF WorkspaceNext

LEMMA FeedShows ==
  ASSUME PostInv
  PROVE  /\ Posts!FeedTypeOK /\ Posts!LandsOnceUnlessMoved /\ Posts!FilesAreReferredToUnlessCut /\ Posts!LinksOpenUnlessSwept
<1>1. PostTypes /\ \A a \in Attempts : attempt[a].phase \in {"waiting", "done"} \cup Phases
  BY AttemptKinds DEF PostInv
<1>2. Posts!FeedTypeOK
  BY <1>1 DEF PostTypes, Posts!FeedTypeOK, Phases, EventOf, NoteOf
<1> QED BY <1>2 DEF PostInv

\* An alert reaches the phones of those it opens for and opens there, and a switch in Team &
\* Users grants what it says, but for what changed on the way and for feeds that newer alerts
\* filled; and a post of the ERP or the CRM lands once, its file is referred to and its link
\* opens a file, but for attempts that overlapped or failed, rooms that changed, restarts,
\* sweeps that failed, deletes the storage swallowed and messages that are gone.  For any
\* people, channels, posts, keys, rooms and restarts.
THEOREM AlertsKeepTheirWord == WorkspaceSpec => []AlertsHold
<1> DEFINE Inv == AccessInv /\ PostInv /\ buried \subseteq Staff \X Pushes
<1>1. WorkspaceInit => Inv
  BY AccessBegins, FeedBegins DEF WorkspaceInit, Access!AccessInit
<1>2. Inv /\ [WorkspaceNext]_<<part, access, posting, signing, mailbox, sorting, places, pushing>> => Inv'
  BY AccessStays, BuriedStays, FeedStays
<1>3. Inv => AlertsHold
  BY AccessShows, FeedShows DEF AlertsHold
<1> HIDE DEF Inv
<1> QED BY <1>1, <1>2, <1>3, PTL DEF WorkspaceSpec

=============================================================================
