---------------------------- MODULE AlertAccess ----------------------------
(***************************************************************************)
(* Who sees a system alert and who is pushed one.                          *)
(*                                                                         *)
(* The feed (alertGrants.effectiveFor, alertChannels.visibleChannelIds)    *)
(* and the push (alert.push.channelAudience) compute the same audience     *)
(* along two separate paths: the feed from one user's own row, the push    *)
(* from a reading of every row that it keeps for a minute.  The module     *)
(* models both, the rows they read and the two requests that set a grant.  *)
(* A grant is named by the channel it opens, one to one as in the code.    *)
(*                                                                         *)
(* The reading baseAudience makes of roles, users, branches and switched-  *)
(* off users is one step; the rows change freely before and after it.      *)
(***************************************************************************)
EXTENDS Naturals, FiniteSets

CONSTANTS
    People,         \* app users
    BranchIds,      \* rows of the branches collection
    CodeOf,         \* [BranchIds -> code], the code a row carries now
    Alias,          \* [code -> code], canonicalBranchCode
    Channels,       \* registered channels
    ChannelBranch,  \* [Channels -> canonical code]
    BranchWide,     \* channels every member of the branch sees
    CompanyWide,    \* channels of the company, whose grant knows no branch
    Handlers,       \* requests that set a grant
    Pushes,         \* alerts pushed in a behaviour
    Nobody,         \* no acting user
    Postings,       \* bound: the sets of branch rows a user starts with
    Lists,          \* bound: the lists Team & Users may post
    MaxChanges      \* bound: changes of rows and switches in a behaviour

VARIABLES
    role,      \* [People -> Roles]
    at,        \* [People -> SUBSET BranchIds]
    active,    \* people whose CRM row is active and not barred from the app
    stored,    \* [People -> SUBSET Channels], the alert_grants documents
    off,       \* people switched off in Team & Users (app_access)
    muted,     \* <<person, channel>> pairs muted now
    cache,     \* the reading of everybody kept by baseAudience, or NoReading
    handler,   \* [Handlers -> request state]
    push,      \* [Pushes -> push state]
    changes,   \* changes made so far
    stale,     \* history: people changed since the cached reading
    said,      \* history: [People -> switches last asked to be on]
    crossed,   \* history: people two requests set grants of at a time
    buried     \* <<person, push>> pairs whose event the person's feed has no room for

accessVars == <<role, at, active, stored, off, muted, cache, handler, push,
                changes, stale, said, crossed, buried>>

----------------------------------------------------------------------------
(* Roles, as deriveAccess tells them apart: level 1; level 5 with the      *)
(* permission '*'; level 2; any other.                                     *)

Roles == {"super", "starred", "manager", "member"}
IsSuper(r) == r \in {"super", "starred"}
SeesCompany(r) == r \in {"super", "manager"}

NoReading == [taken |-> FALSE]
Idle == [phase |-> "idle"]

\* Codes of a user's branches, in the app's spelling.
Codes(ids) == {Alias[CodeOf[b]] : b \in ids}

\* A grant counts only for those with access to its channel's branch.
WithinBranches(grants, r, ids) ==
    IF SeesCompany(r) THEN grants
    ELSE {c \in grants : c \in CompanyWide \/ ChannelBranch[c] \in Codes(ids)}

\* Channels a user has by belonging to a branch.
ByBranch(r, ids) ==
    {c \in BranchWide : SeesCompany(r) \/ ChannelBranch[c] \in Codes(ids)}

Grantable(r, ids) == WithinBranches(Channels \ BranchWide, r, ids)

Effective(grants, r, ids) ==
    WithinBranches(grants \ BranchWide, r, ids) \cup ByBranch(r, ids)

\* What the feed lists for p.
Visible(p) == IF IsSuper(role[p]) THEN Channels
              ELSE Effective(stored[p], role[p], at[p])

----------------------------------------------------------------------------
(* The push's own computation, from a reading of everybody.                *)

Reading == [taken |-> TRUE, role |-> role, at |-> at, active |-> active, off |-> off]

\* The same without canonicalBranchCode: a renamed branch matches no channel.
MembersAsSpelt(aud, code) ==
    LET rows == {b \in BranchIds : CodeOf[b] = code}
    IN  {p \in aud.active : SeesCompany(aud.role[p]) \/ aud.at[p] \cap rows # {}}

\* Members of a branch: the company-wide roles and those with a row of it.
Members(aud, code) ==
    LET rows == {b \in BranchIds : Alias[CodeOf[b]] = code}
    IN  {p \in aud.active : SeesCompany(aud.role[p]) \/ aud.at[p] \cap rows # {}}

\* The same without the branch rule for grant holders.
AudienceOfHolders(aud, c, holders) ==
    {p \in aud.active : IsSuper(aud.role[p])}
    \cup (IF c \in BranchWide THEN Members(aud, ChannelBranch[c])
          ELSE holders \cap aud.active)

\* Whom an event of channel c reaches.
Audience(aud, c, holders) ==
    {p \in aud.active : IsSuper(aud.role[p])}
    \cup (IF c \in CompanyWide THEN holders \cap aud.active
          ELSE IF c \in BranchWide THEN Members(aud, ChannelBranch[c])
          ELSE holders \cap Members(aud, ChannelBranch[c]))

----------------------------------------------------------------------------
AccessInit ==
    /\ role \in [People -> Roles]
    /\ at \in [People -> Postings]
    /\ active = People
    /\ stored = [p \in People |-> {}]
    /\ off = {}
    /\ muted = {}
    /\ cache = NoReading
    /\ handler = [h \in Handlers |-> Idle]
    /\ push = [e \in Pushes |-> Idle]
    /\ changes = 0
    /\ stale = {}
    /\ said = [p \in People |-> {}]
    /\ crossed = {}
    /\ buried = {}

\* p's rows changed: every reading made before is stale about p.
Changed(p) ==
    /\ changes < MaxChanges
    /\ changes' = changes + 1
    /\ stale' = stale \cup {p}
    /\ push' = [e \in Pushes |->
                  IF push[e].phase \in {"idle", "recorded"} THEN push[e]
                  ELSE [push[e] EXCEPT !.stale = @ \cup {p}]]

(* The CRM gives a user another role or other branches, or retires the row;  *)
(* here and below, a call that changes nothing is left out.                *)
Hire(p) ==
    /\ \/ role' \in {[role EXCEPT ![p] = r] : r \in Roles \ {role[p]}} /\ UNCHANGED <<at, active>>
       \/ at' \in {[at EXCEPT ![p] = ids] : ids \in (SUBSET BranchIds) \ {at[p]}}
          /\ UNCHANGED <<role, active>>
       \/ active' = (IF p \in active THEN active \ {p} ELSE active \cup {p}) /\ UNCHANGED <<role, at>>
    /\ Changed(p)
    /\ UNCHANGED <<stored, off, muted, cache, handler, said, crossed, buried>>

(* appAccess.setEnabled.  The audience cached by the push is left alone.   *)
SetEnabled(p, on) ==
    /\ on <=> p \in off
    /\ off' = IF on THEN off \ {p} ELSE off \cup {p}
    /\ Changed(p)
    /\ UNCHANGED <<role, at, active, stored, muted, cache, handler, said, crossed, buried>>

(* alertMutes.set, or a timed mute running out.                            *)
Mute(p, c, on) ==
    /\ on <=> <<p, c>> \notin muted
    /\ muted' = IF on THEN muted \cup {<<p, c>>} ELSE muted \ {<<p, c>>}
    /\ Changed(p)
    /\ UNCHANGED <<role, at, active, stored, off, cache, handler, said, crossed, buried>>

----------------------------------------------------------------------------
(* Setting grants.                                                         *)

Overlap(h, p) ==
    crossed' = IF \E o \in Handlers \ {h} : handler[o] # Idle /\ handler[o].person = p
               THEN crossed \cup {p} ELSE crossed

(* POST /alert-access/grant: one switch, from the stored list it read.     *)
Flip(h, p, c, on) ==
    /\ handler[h] = Idle
    /\ p \in active \ off
    /\ c \in Grantable(role[p], at[p])
    /\ handler' = [handler EXCEPT ![h] =
           [phase |-> "wanted", person |-> p,
            alerts |-> IF on THEN stored[p] \cup {c} ELSE stored[p] \ {c},
            asked |-> IF on THEN {c} ELSE {}, unasked |-> IF on THEN {} ELSE {c}]]
    /\ Overlap(h, p)
    /\ UNCHANGED <<role, at, active, stored, off, muted, cache, push, changes, stale, said, buried>>

(* POST /admin/alert-visibility: the whole list at once.                   *)
Assign(h, p, list) ==
    /\ handler[h] = Idle
    /\ handler' = [handler EXCEPT ![h] =
           [phase |-> "wanted", person |-> p, alerts |-> list,
            asked |-> list, unasked |-> Channels \ list]]
    /\ Overlap(h, p)
    /\ UNCHANGED <<role, at, active, stored, off, muted, cache, push, changes, stale, said, buried>>

(* alertGrants.setGrants reads the branches the user has access to ...     *)
CleanGrants(h) ==
    /\ handler[h].phase = "wanted"
    /\ LET p == handler[h].person
           clean == WithinBranches(handler[h].alerts \ BranchWide, role[p], at[p])
       IN  handler' = [handler EXCEPT ![h].phase = "clean", ![h].alerts = clean]
    /\ UNCHANGED <<role, at, active, stored, off, muted, cache, push, changes,
                   stale, said, crossed, buried>>

\* An empty list deletes the document; this form forgets to.
StoreGrantsOrKeep(h) ==
    /\ handler[h].phase = "clean"
    /\ LET p == handler[h].person IN
       /\ stored' = IF handler[h].alerts = {} THEN stored
                    ELSE [stored EXCEPT ![p] = handler[h].alerts]
       /\ said' = [said EXCEPT ![p] =
                     (@ \cup handler[h].asked) \ handler[h].unasked]
       /\ Changed(p)
    /\ handler' = [handler EXCEPT ![h] = Idle]
    /\ UNCHANGED <<role, at, active, off, muted, cache, crossed, buried>>

(* ... and stores what is left.                                            *)
StoreGrants(h) ==
    /\ handler[h].phase = "clean"
    /\ LET p == handler[h].person IN
       /\ stored' = [stored EXCEPT ![p] = handler[h].alerts]
       /\ said' = [said EXCEPT ![p] =
                     (@ \cup handler[h].asked) \ handler[h].unasked]
       /\ Changed(p)
    /\ handler' = [handler EXCEPT ![h] = Idle]
    /\ UNCHANGED <<role, at, active, off, muted, cache, crossed, buried>>

----------------------------------------------------------------------------
(* Pushing.                                                                *)

(* alertService.record, createAnnouncement and recordUserAlert hand over   *)
(* an event and go on.                                                     *)
Events ==
    [kind : {"channel"}, channel : Channels, to : {{}}]
    \cup [kind : {"announcement"}, channel : {Nobody}, to : {People}]
    \cup [kind : {"named", "personal"}, channel : {Nobody}, to : {{p} : p \in People}]

Record(e, ev, by) ==
    /\ push[e] = Idle
    /\ ev.kind = "personal" => by = Nobody
    /\ push' = [push EXCEPT ![e] = [phase |-> "recorded", event |-> ev, by |-> by]]
    /\ UNCHANGED <<role, at, active, stored, off, muted, cache, handler, changes,
                   stale, said, crossed, buried>>

\* The people an event is for, as sendChannelAlert, sendAnnouncement and
\* sendUserAlert compute them from a reading.
Reached(ev, by, aud) ==
    LET named == CASE ev.kind = "channel" ->
                          Audience(aud, ev.channel, {p \in People : ev.channel \in stored[p]})
                   [] ev.kind = "announcement" -> active
                   [] OTHER -> ev.to
    IN  named \ (aud.off \cup {by})

(* baseAudience: the cached reading, or a new one.                         *)
ReadAudience(e) ==
    /\ push[e].phase = "recorded"
    /\ cache' = IF cache.taken THEN cache ELSE Reading
    /\ stale' = IF cache.taken THEN stale ELSE {}
    /\ push' = [push EXCEPT ![e] =
           [phase |-> "aimed", event |-> push[e].event, by |-> push[e].by,
            to |-> Reached(push[e].event, push[e].by, cache'),
            stale |-> stale', blind |-> FALSE]]
    /\ UNCHANGED <<role, at, active, stored, off, muted, handler, changes, said, crossed, buried>>

MuteKey(ev) == IF ev.kind = "channel" THEN ev.channel ELSE ev.kind

(* sendToUsers leaves out those who muted the channel; when the look-up    *)
(* fails it leaves out nobody.                                             *)
SendToUsers(e) ==
    /\ push[e].phase = "aimed"
    /\ \E blind \in BOOLEAN :
         push' = [push EXCEPT ![e].phase = "sent", ![e].blind = blind,
                    ![e].to = IF blind THEN @
                              ELSE {p \in @ : <<p, MuteKey(push[e].event)>> \notin muted}]
    /\ UNCHANGED <<role, at, active, stored, off, muted, cache, handler, changes,
                   stale, said, crossed, buried>>

(* Sixty seconds after the reading it is not used any more.                *)
CacheExpires ==
    /\ cache.taken
    /\ cache' = NoReading
    /\ UNCHANGED <<role, at, active, stored, off, muted, handler, push, changes,
                   stale, said, crossed, buried>>

----------------------------------------------------------------------------
(* What p finds in the app after the push.                                 *)

(* listFor's filter: the events of p's channels and those addressed to p;  *)
(* announcements to others are history a super-admin sees.                 *)
Admitted(p, ev) ==
    CASE ev.kind = "channel" -> ev.channel \in Visible(p)
      [] ev.kind = "personal" -> p \in ev.to
      [] OTHER -> IsSuper(role[p]) \/ p \in ev.to

(* Fifty newer ones of its channel that pass p's filter, or fifteen        *)
(* hundred of all, push the event off p's feed; or ninety days have passed.*)
Bury(p, e) ==
    /\ push[e] # Idle
    /\ buried' = buried \cup {<<p, e>>}
    /\ UNCHANGED <<role, at, active, stored, off, muted, cache, handler, push,
                   changes, stale, said, crossed>>

Listed(p, e) == Admitted(p, push[e].event) /\ <<p, e>> \notin buried

(* attachmentUrlFor: may p open the file an event carries?  Personal alerts *)
(* carry none.                                                             *)
Opens(p, ev) ==
    \/ IsSuper(role[p])
    \/ ev.kind = "channel" /\ ev.channel \in Effective(stored[p], role[p], at[p])
    \/ ev.kind \in {"announcement", "named"} /\ p \in ev.to

----------------------------------------------------------------------------
AccessNext ==
    \/ \E p \in People : Hire(p) \/ \E on \in BOOLEAN : SetEnabled(p, on)
    \/ \E p \in People, c \in Channels, on \in BOOLEAN :
          Mute(p, c, on) \/ \E h \in Handlers : Flip(h, p, c, on)
    \/ \E h \in Handlers :
          \/ \E p \in People, list \in Lists : Assign(h, p, list)
          \/ CleanGrants(h)
          \/ StoreGrants(h)
    \/ \E e \in Pushes :
          \/ \E ev \in Events, by \in People \cup {Nobody} : Record(e, ev, by)
          \/ ReadAudience(e)
          \/ SendToUsers(e)
          \/ \E p \in People : Bury(p, e)
    \/ CacheExpires

AccessSpec == AccessInit /\ [][AccessNext]_accessVars

----------------------------------------------------------------------------
\* Type invariant.
AccessTypeOK ==
    /\ role \in [People -> Roles]
    /\ at \in [People -> SUBSET BranchIds]
    /\ active \subseteq People
    /\ stored \in [People -> SUBSET (Channels \ BranchWide)]
    /\ off \subseteq People
    /\ muted \subseteq People \X Channels
    /\ cache = NoReading \/ cache.active \subseteq People
    /\ \A h \in Handlers : handler[h] = Idle \/ handler[h].phase \in {"wanted", "clean"}
    /\ \A e \in Pushes : push[e] = Idle \/ push[e].phase \in {"recorded", "aimed", "sent"}
    /\ changes \in 0..MaxChanges
    /\ stale \subseteq People
    /\ said \in [People -> SUBSET Channels]
    /\ crossed \subseteq People
    /\ buried \subseteq People \X Pushes

\* May p be told of this event at all, by what the rows say now?
Entitled(p, ev, by) ==
    /\ p # by /\ p \notin off
    /\ CASE ev.kind = "channel" -> p \in active /\ Admitted(p, ev)
         [] ev.kind = "announcement" -> p \in active
         [] OTHER -> p \in ev.to

\* A push goes to exactly those whose feed's filter admits the event, less the acting
\* user, the switched off and those who muted it.  The feed and the push find
\* them along separate paths (effectiveFor and visibleChannelIds; channelAudience),
\* so the equality is the property; it may only fail for someone whose rows,
\* switch, grants or mutes changed since the audience was read.
PushReachesViewersUnlessChanged ==
    \A e \in Pushes : push[e].phase = "sent" =>
        \A p \in People \ push[e].stale :
            p \in push[e].to <=>
                /\ Entitled(p, push[e].event, push[e].by)
                /\ push[e].blind \/ <<p, MuteKey(push[e].event)>> \notin muted

\* An alert that is tapped is there: whoever was pushed one finds it in the feed and
\* may open its file, unless their rows, switch, grants or mutes changed since the
\* audience was read; in the feed, unless newer ones have pushed it off.
TappedAlertOpensUnlessChangedOrBuried ==
    \A e \in Pushes : push[e].phase = "sent" =>
        \A p \in push[e].to \ push[e].stale :
            /\ Listed(p, e) \/ <<p, e>> \in buried
            /\ push[e].event.kind = "personal" \/ Opens(p, push[e].event)

\* A grant that opens a channel was switched on and not off again since: the
\* service route rewrites the list it read before, so only two requests for one
\* person at a time may bring a switched-off grant back.
OpenedBySwitchUnlessCrossed ==
    \A p \in People \ crossed : stored[p] \subseteq said[p]
=============================================================================
