----------------------------- MODULE PgReminders -----------------------------
(***************************************************************************)
(* Reminders in the Postgres back end (src/src/modules/reminders,          *)
(* src/src/domain/logic/{canSee,reminderGrouping}.ts).  A reminder is read *)
(* and then written over, whatever has become of it meanwhile.             *)
(***************************************************************************)
EXTENDS PgRequests

CONSTANTS
  Reminders,             \* bound: rows there may be
  Viewers,               \* reminder identities
  Meta,                  \* [Viewers -> [role, branches, dept]]
  RoleRank,                  \* [roles -> 0..5], lower is higher
  Text, Texts, Sections  \* inputs: of new reminders, and of edits

VARIABLES
  rem,       \* the reminders table
  meant,     \* history: what the text and section of each were last set to
  overtaken  \* history: reminders edited by a request that had read them before another edit

reminding == <<rem, meant, overtaken>>

NoRem == [pc |-> "none"]
Gone  == [pc |-> "gone"]

RemindersInit ==
  /\ AsksInit
  /\ rem = [x \in Reminders |-> NoRem] /\ meant = [x \in Reminders |-> NoRem] /\ overtaken = {}

create(r, by, for, section) ==
  /\ Ask(r, [pc |-> "insertReminder", by |-> by, for |-> for, text |-> Text, section |-> section])
  /\ UNCHANGED reminding

InsertReminder(r) ==
  LET m == req[r]
  IN /\ m.pc = "insertReminder"
     /\ \E x \in Reminders :
          /\ rem[x] = NoRem
          /\ rem' = [rem EXCEPT ![x] = [pc |-> "up", by |-> m.by, for |-> m.for, state |-> "pending",
                                        text |-> m.text, section |-> m.section]]
          /\ meant' = [meant EXCEPT ![x] = [text |-> m.text, section |-> m.section]]
     /\ Written(r)
     /\ UNCHANGED overtaken

Reading(r, x, m) ==
  /\ rem[x].pc = "up"
  /\ Ask(r, [rem |-> x, of |-> rem[x]] @@ m)
  /\ UNCHANGED reminding

\* One's own is archived at once.
complete(r, x) ==
  Reading(r, x, [pc |-> "saveState",
                 state |-> IF rem[x].by = rem[x].for THEN "approved" ELSE "review"])
approve(r, x) == Reading(r, x, [pc |-> "saveState", state |-> "approved"])
edit(r, x, patch) == Reading(r, x, [pc |-> "saveFields", patch |-> patch])

SaveState(r) ==
  LET m == req[r]
  IN /\ m.pc = "saveState"
     /\ IF rem[m.rem].pc # "up" THEN Fail(r) /\ UNCHANGED rem
        ELSE rem' = [rem EXCEPT ![m.rem].state = m.state] /\ Written(r)
     /\ UNCHANGED <<meant, overtaken>>

\* What the patch leaves out is written as it was read.
SaveFields(r) ==
  LET m == req[r]
  IN /\ m.pc = "saveFields"
     /\ IF rem[m.rem].pc # "up" THEN Fail(r) /\ UNCHANGED <<rem, meant, overtaken>>
        ELSE /\ rem' = [rem EXCEPT ![m.rem] = m.patch @@ [text |-> m.of.text, section |-> m.of.section] @@ @]
             /\ meant' = [meant EXCEPT ![m.rem] = m.patch @@ @]
             /\ overtaken' = IF <<rem[m.rem].text, rem[m.rem].section>> # <<m.of.text, m.of.section>>
                             THEN overtaken \cup {m.rem} ELSE overtaken
             /\ Written(r)

\* By its creator, or by somebody who manages.
remove(r, v, canManage, x) ==
  /\ Reading(r, x, [pc |-> "delete"])
  /\ rem[x].by = v \/ canManage

DeleteReminder(r) ==
  LET x == req[r].rem
  IN /\ req[r].pc = "delete"
     /\ IF rem[x].pc # "up" THEN Fail(r) /\ UNCHANGED rem
        ELSE rem' = [rem EXCEPT ![x] = Gone] /\ Written(r)
     /\ UNCHANGED <<meant, overtaken>>

Audit(r)       == writeAudit(r, TRUE) /\ UNCHANGED reminding
DropRequest(r) == Die(r) /\ UNCHANGED reminding

RemindersNext ==
  \E r \in Requests :
    \/ \E v, w \in Viewers : create(r, v, w, "today")
    \/ \E x \in Reminders :
         \/ complete(r, x) \/ approve(r, x)
         \/ \E text \in Texts : edit(r, x, [text |-> text])
         \/ \E section \in Sections : edit(r, x, [section |-> section])
         \/ \E v \in Viewers : remove(r, v, Meta[v].role \in {"SUPER_ADMIN", "DIRECTOR"}, x)
    \/ InsertReminder(r) \/ SaveState(r) \/ SaveFields(r) \/ DeleteReminder(r)
    \/ Audit(r) \/ DropRequest(r)

-----------------------------------------------------------------------------
(* What a person sees. *)

roleOf(v) == IF v \in DOMAIN Meta THEN Meta[v].role ELSE "EMPLOYEE"

\* Reminders for a person may be seen by those strictly above them whose scope they are in.
makeCanSee(viewer, target) ==
  LET v == Meta[viewer]
      t == Meta[target]
  IN \/ target = viewer
     \/ /\ RoleRank[t.role] > RoleRank[v.role]
        /\ \/ v.role \in {"SUPER_ADMIN", "DIRECTOR"}
           \/ v.branches \cap t.branches # {} /\ (v.role = "HOD" => t.dept = v.dept)

Live == {x \in Reminders : rem[x].pc = "up" /\ rem[x].state # "approved"}

forme(v)       == {x \in Live : rem[x].state = "pending" /\ rem[x].for = v}
iset(v)        == {x \in Live : rem[x].state = "pending" /\ rem[x].by = v /\ rem[x].for # v}
review(v)      == {x \in Live : rem[x].state = "review" /\ rem[x].by = v}
applyCanSee(v) == {x \in Live : makeCanSee(v, rem[x].for)}

\* By person, or by the role of the person it is for.
ByPerson(visible) == {{x \in visible : rem[x].for = v} : v \in {rem[x].for : x \in visible}}
ByRole(visible)   == {{x \in visible : roleOf(rem[x].for) = k} : k \in DOMAIN RoleRank} \ {{}}

-----------------------------------------------------------------------------
RemindersTypeOK ==
  /\ AsksTypeOK
  /\ \A x \in Reminders : rem[x].pc = "up" => rem[x].state \in {"pending", "review", "approved"}
  /\ overtaken \subseteq Reminders

\* What awaits approval was set by somebody else, and whatever is live is on a tab of one of
\* its two people (reminders.service.ts:72).
LiveIsOnATab ==
  \A x \in Live :
    /\ rem[x].state = "review" => rem[x].by # rem[x].for
    /\ x \in forme(rem[x].for) \cup iset(rem[x].by) \cup review(rem[x].by)

\* A reminder's text and section are what they were last set to, unless an edit that had read it before
\* another one wrote both (reminders.service.ts:136).
EditsStandUnlessOvertaken ==
  \A x \in Reminders : rem[x].pc = "up" /\ x \notin overtaken =>
    rem[x].text = meant[x].text /\ rem[x].section = meant[x].section

\* Grouping loses nothing and repeats nothing; and nobody is shown the reminders of somebody who is
\* shown theirs (reminderGrouping.ts:18, canSee.ts:15).
GroupsHoldEverythingOnce ==
  \A v \in Viewers :
    LET visible == applyCanSee(v)
    IN /\ \A groups \in {ByPerson(visible), ByRole(visible)} :
            /\ UNION groups = visible
            /\ \A g, h \in groups : g = h \/ g \cap h = {}
       /\ \A x \in visible : rem[x].for # v => ~makeCanSee(rem[x].for, v)
=============================================================================
