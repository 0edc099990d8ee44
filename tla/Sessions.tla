------------------------------ MODULE Sessions ------------------------------
(***************************************************************************)
(* Signing in, staying signed in and being switched off (mongo/auth.ts,    *)
(* appAccess.ts, POST /admin/user-access).                                 *)
(*                                                                         *)
(* One person with several devices.  A device keeps the refresh token it   *)
(* stored last; it may be killed after the server answered a refresh and   *)
(* before it stored the new pair, and then comes back with the old token.  *)
(* The server rotates a token by shortening its life to the grace period.  *)
(* An administrator switches the person off: first the switch, then the    *)
(* revocation of every session.  Whether somebody is switched off is read  *)
(* through a cache, which one request may fill with what it read earlier.  *)
(***************************************************************************)
EXTENDS Naturals, FiniteSets

CONSTANTS
    Devices,
    MaxTokens,    \* bound: refresh tokens issued in a behaviour
    MaxTime,      \* bound: the clock, in grace periods
    Life,         \* a refresh token's life
    Grace,        \* ROTATION_GRACE_MS
    MaxSwitches   \* bound: times access is switched

VARIABLES
    now,
    sessions,   \* [1..MaxTokens -> app_sessions document, or None]
    issued,     \* tokens issued
    device,     \* [Devices -> [phase, token kept, token answered, ...]]
    enabled,    \* app_access: is the person switched on?
    revoking,   \* switched off, sessions not yet revoked
    cached,     \* disabledCache: "none", or the answer it gives
    fetch,      \* a request that read app_access and has not filled the cache
    switches,   \* switches so far
    stale,      \* history: the cached answer was read before the last switch
    slipped,    \* history: tokens issued by requests that passed the gate before
    twice       \* history: tokens refreshed twice at a time

sessVars == <<now, sessions, issued, device, enabled, revoking, cached, fetch,
              switches, stale, slipped, twice>>

Tokens == 1..MaxTokens
NoToken == 0
None == [live |-> FALSE, expires |-> 0, born |-> 0, rotated |-> 0]
OfAnswer == {"on", "off"}
Answer == IF enabled THEN "on" ELSE "off"

SignedOut == [phase |-> "out", kept |-> NoToken, new |-> NoToken, read |-> 0, crossed |-> FALSE]

\* A stored session that refresh accepts.
Usable(t) == t # NoToken /\ sessions[t].live /\ now <= sessions[t].expires

SessInit ==
    /\ now = 0
    /\ sessions = [t \in Tokens |-> None]
    /\ issued = 0
    /\ device = [d \in Devices |-> SignedOut]
    /\ enabled = TRUE /\ revoking = FALSE
    /\ cached = "none" /\ fetch = "none"
    /\ switches = 0
    /\ stale = FALSE /\ slipped = {} /\ twice = {}

----------------------------------------------------------------------------
(* isDisabled: the cached answer, or a reading that fills the cache.       *)
Gate(passed, refused) ==
    LET answer == IF cached = "none" THEN Answer ELSE cached
    IN  /\ cached' = answer
        /\ stale' = (stale /\ cached # "none")
        /\ IF answer = "on" THEN passed ELSE refused

(* Another request misses the cache: it reads ...                          *)
FetchDisabled ==
    /\ cached = "none" /\ fetch = "none"
    /\ fetch' = Answer
    /\ UNCHANGED <<now, sessions, issued, device, enabled, revoking, cached,
                   switches, stale, slipped, twice>>

(* ... and fills it.                                                       *)
FillCache ==
    /\ fetch # "none"
    /\ cached' = fetch
    /\ stale' = (fetch # Answer)
    /\ fetch' = "none"
    /\ UNCHANGED <<now, sessions, issued, device, enabled, revoking, switches,
                   slipped, twice>>

CacheExpires ==
    /\ cached # "none"
    /\ cached' = "none" /\ stale' = FALSE
    /\ UNCHANGED <<now, sessions, issued, device, enabled, revoking, fetch,
                   switches, slipped, twice>>

----------------------------------------------------------------------------
(* login: the credentials and the ERP's allow-list hold, and the gate.     *)
Login(d) ==
    /\ device[d].phase = "out"
    /\ issued < MaxTokens
    /\ Gate(device' = [device EXCEPT ![d].phase = "passed", ![d].crossed = stale'],
            UNCHANGED device)
    /\ UNCHANGED <<now, sessions, issued, enabled, revoking, fetch, switches,
                   slipped, twice>>

(* refresh: the device presents the token it kept.                         *)
Refresh(d) ==
    /\ device[d].phase = "in"
    /\ issued < MaxTokens
    /\ LET t == device[d].kept IN
       device' = [device EXCEPT ![d] =
           IF Usable(t) THEN [@ EXCEPT !.phase = "read", !.read = sessions[t].expires]
           ELSE SignedOut]
    /\ UNCHANGED <<now, sessions, issued, enabled, revoking, cached, fetch,
                   switches, stale, slipped, twice>>

RefreshGate(d) ==
    /\ device[d].phase = "read"
    /\ Gate(device' = [device EXCEPT ![d].phase = "gated", ![d].crossed = stale'],
            device' = [device EXCEPT ![d] = SignedOut])
    /\ UNCHANGED <<now, sessions, issued, enabled, revoking, fetch, switches,
                   slipped, twice>>

\* Rotation that revokes the old token at once.
RotateAtOnce(d) ==
    /\ device[d].phase = "gated"
    /\ sessions' = [sessions EXCEPT ![device[d].kept].live = FALSE,
                                    ![device[d].kept].rotated = now + 1]
    /\ device' = [device EXCEPT ![d].phase = "passed"]
    /\ UNCHANGED <<now, issued, enabled, revoking, cached, fetch, switches,
                   stale, slipped, twice>>

\* Rotation that starts a new grace period at every refresh.
RotateAgain(d) ==
    /\ device[d].phase = "gated"
    /\ LET t == device[d].kept IN
       sessions' = [sessions EXCEPT ![t].expires = now + Grace,
                      ![t].rotated = IF @ = 0 THEN now + 1 ELSE @]
    /\ device' = [device EXCEPT ![d].phase = "passed"]
    /\ UNCHANGED <<now, issued, enabled, revoking, cached, fetch, switches,
                   stale, slipped, twice>>

(* The old token is left the grace period, by the expiry that was read.    *)
(* rotated is the time of its first rotation, plus one.                    *)
Rotate(d) ==
    /\ device[d].phase = "gated"
    /\ LET t == device[d].kept IN
       sessions' = [sessions EXCEPT
           ![t].expires = IF device[d].read > now + Grace THEN now + Grace ELSE @,
           ![t].rotated = IF @ = 0 THEN now + 1 ELSE @]
    /\ device' = [device EXCEPT ![d].phase = "passed"]
    /\ UNCHANGED <<now, issued, enabled, revoking, cached, fetch, switches,
                   stale, slipped, twice>>

(* issueTokens, for a login or a refresh.                                  *)
IssueTokens(d) ==
    /\ device[d].phase = "passed"
    /\ issued < MaxTokens
    /\ issued' = issued + 1
    /\ sessions' = [sessions EXCEPT ![issued'] =
                      [live |-> TRUE, expires |-> now + Life, born |-> now, rotated |-> 0]]
    /\ device' = [device EXCEPT ![d].phase = "answered", ![d].new = issued']
    /\ slipped' = IF device[d].crossed THEN slipped \cup {issued'} ELSE slipped
    /\ UNCHANGED <<now, enabled, revoking, cached, fetch, switches, stale, twice>>

(* The device stores the pair; or it was killed before it did, and comes   *)
(* back with what it had.                                                  *)
Persist(d) ==
    /\ device[d].phase = "answered"
    /\ device' = [device EXCEPT ![d] =
                    [SignedOut EXCEPT !.phase = "in", !.kept = device[d].new]]
    /\ UNCHANGED <<now, sessions, issued, enabled, revoking, cached, fetch,
                   switches, stale, slipped, twice>>

Kill(d) ==
    /\ device[d].phase = "answered"
    /\ device' = [device EXCEPT ![d] =
           IF @.kept = NoToken THEN SignedOut
           ELSE [SignedOut EXCEPT !.phase = "in", !.kept = device[d].kept]]
    /\ UNCHANGED <<now, sessions, issued, enabled, revoking, cached, fetch,
                   switches, stale, slipped, twice>>

(* A device killed with a refresh on the way asks again while the server   *)
(* is still at the first: the token is being refreshed twice.              *)
Replay(d, e) ==
    /\ device[d].phase \in {"read", "gated"}
    /\ device[e].phase = "out"
    /\ Usable(device[d].kept)
    /\ device' = [device EXCEPT ![e] = [SignedOut EXCEPT !.phase = "read",
                     !.kept = device[d].kept, !.read = sessions[device[d].kept].expires]]
    /\ twice' = twice \cup {device[d].kept}
    /\ UNCHANGED <<now, sessions, issued, enabled, revoking, cached, fetch,
                   switches, stale, slipped>>

Logout(d) ==
    /\ device[d].phase = "in"
    /\ sessions' = [sessions EXCEPT ![device[d].kept].live = FALSE]
    /\ device' = [device EXCEPT ![d] = SignedOut]
    /\ UNCHANGED <<now, issued, enabled, revoking, cached, fetch, switches,
                   stale, slipped, twice>>

----------------------------------------------------------------------------
\* The switch without the cache being dropped.
SetEnabledCached ==
    /\ ~revoking /\ switches < MaxSwitches
    /\ enabled' = ~enabled
    /\ revoking' = enabled
    /\ device' = [d \in Devices |-> [device[d] EXCEPT !.crossed =
                    @ \/ device[d].phase \in {"gated", "passed"}]]
    /\ switches' = switches + 1
    /\ UNCHANGED <<now, sessions, issued, cached, fetch, stale, slipped, twice>>

(* appAccess.setEnabled; switching off goes on to revoke.                  *)
SetEnabled ==
    /\ ~revoking /\ switches < MaxSwitches
    /\ enabled' = ~enabled
    /\ revoking' = enabled
    /\ cached' = "none" /\ stale' = FALSE
    /\ device' = [d \in Devices |-> [device[d] EXCEPT !.crossed =
                    @ \/ device[d].phase \in {"gated", "passed"}]]
    /\ switches' = switches + 1
    /\ UNCHANGED <<now, sessions, issued, fetch, slipped, twice>>

RevokeAllSessions ==
    /\ revoking
    /\ sessions' = [t \in Tokens |-> [sessions[t] EXCEPT !.live = FALSE]]
    /\ revoking' = FALSE
    /\ UNCHANGED <<now, issued, device, enabled, cached, fetch, switches,
                   stale, slipped, twice>>

Tick ==
    /\ now < MaxTime
    /\ now' = now + 1
    /\ UNCHANGED <<sessions, issued, device, enabled, revoking, cached, fetch,
                   switches, stale, slipped, twice>>

SessNext ==
    \/ FetchDisabled \/ FillCache \/ CacheExpires
    \/ SetEnabled \/ RevokeAllSessions
    \/ Tick
    \/ \E d \in Devices :
          \/ Login(d) \/ Refresh(d) \/ RefreshGate(d) \/ Rotate(d) \/ IssueTokens(d)
          \/ Persist(d) \/ Kill(d) \/ Logout(d)
          \/ \E e \in Devices : Replay(d, e)

SessSpec == SessInit /\ [][SessNext]_sessVars

----------------------------------------------------------------------------
\* Type invariant.
SessTypeOK ==
    /\ now \in 0..MaxTime
    /\ sessions \in [Tokens -> [live : BOOLEAN, expires : 0..(MaxTime + Life),
                                born : 0..MaxTime, rotated : 0..(MaxTime + 1)]]
    /\ issued \in 0..MaxTokens
    /\ device \in [Devices -> [phase : {"out", "in", "read", "gated", "passed", "answered"},
                               kept : 0..MaxTokens, new : 0..MaxTokens,
                               read : 0..(MaxTime + Life), crossed : BOOLEAN]]
    /\ enabled \in BOOLEAN /\ revoking \in BOOLEAN
    /\ cached \in {"none"} \cup OfAnswer /\ fetch \in {"none"} \cup OfAnswer
    /\ switches \in 0..MaxSwitches
    /\ slipped \subseteq Tokens /\ twice \subseteq Tokens

\* A killed app comes back with the token it had and stays signed in: the
\* "randomly logged out" bug the grace period was made for.  A kept token works
\* until the grace period after its first rotation is over, unless it died of
\* age or the person's sessions were revoked (switched off, or logged out
\* together with another device that kept the same token).
RelaunchStaysSignedIn ==
    \A d \in Devices :
        LET t == device[d].kept
            s == sessions[t]
            held == {e \in Devices : device[e].kept = t}
        IN  (/\ device[d].phase = "in" /\ t \notin twice /\ switches = 0
             /\ now <= s.born + Life
             /\ s.rotated # 0 => now <= (s.rotated - 1) + Grace)
            => Usable(t)

\* A rotated token does not outlive the grace period after its first rotation,
\* however often it is replayed; only two refreshes of it at a time can write a
\* later end over an earlier one.
RotatedTokenDiesUnlessTwice ==
    \A t \in Tokens \ twice :
        sessions[t].rotated # 0 => sessions[t].expires <= (sessions[t].rotated - 1) + Grace

\* Once a person is switched off and the sessions revoked, no session is left,
\* but for those of requests past the gate at the switch, or let through by a
\* cached answer that was read before it and stored after it.
NoSessionOutlivesSwitchUnlessInFlight ==
    ~enabled /\ ~revoking => \A t \in Tokens \ slipped : ~sessions[t].live
=============================================================================
