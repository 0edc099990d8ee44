---------------------------- MODULE SmartFolders ----------------------------
(***************************************************************************)
(* Smart folders (src/src/email/email.router.ts, smartFolder.model.ts):    *)
(* the app's own document, the folder in Outlook and Outlook's own inbox   *)
(* rule are three stores, written one after the other by a request, and    *)
(* by the polling round that gives an older folder its rule                *)
(* (email.poll.ts).  Any call to Outlook may fail, and most failures are   *)
(* swallowed.                                                              *)
(***************************************************************************)
EXTENDS Naturals, FiniteSets

CONSTANTS
  Folders,    \* Outlook folder ids, each given out once
  Senders,    \* what a rule may match
  Requests,   \* requests and polling rounds in progress at once
  MaxRules    \* bound on the rules ever made

VARIABLES
  docs,       \* the app's documents, by folder
  boxes,      \* folders that exist in Outlook
  rules,      \* Outlook's inbox rules, by id
  req,        \* what each request has read and done
  made,       \* rules made so far
  tangled     \* history: folders two requests held at once, or a call failed on

folderVars == <<docs, boxes, rules, req, made, tangled>>

NoRule == 0
NoDoc  == [from |-> {}, rule |-> NoRule]
Matches == (SUBSET Senders) \ {{}}
Dropped == [f |-> "none", from |-> {}]
Free    == [pc |-> "free", f |-> "none", from |-> {}, rule |-> NoRule, new |-> FALSE]

\* A folder's document: what its rule matches, and Outlook's rule, once there is one.
SmartFolderDoc == [from : Matches, rule : 0..MaxRules]

FoldersTypeOK ==
  /\ docs \in [Folders -> {NoDoc} \cup SmartFolderDoc]
  /\ boxes \subseteq Folders
  /\ \A i \in 1..MaxRules : rules[i] = Dropped \/ rules[i] \in [f : Folders, from : Matches]
  /\ \A h \in Requests : req[h].pc \in {"free", "update", "rule", "store", "forget", "unrule", "unbox", "grant", "set"}
  /\ made \in 0..MaxRules
  /\ tangled \subseteq Folders

FoldersInit ==
  /\ docs = [f \in Folders |-> NoDoc]
  /\ boxes = {}
  /\ rules = [i \in 1..MaxRules |-> Dropped]
  /\ req = [h \in Requests |-> Free]
  /\ made = 0
  /\ tangled = {}

Kept(f) == docs[f] # NoDoc
Holders(f) == {h \in Requests : req[h].f = f}
\* A request takes hold of a folder it has read; another may hold it already.
Hold(h, f, pc, from, rule) ==
  /\ req[h] = Free
  /\ req' = [req EXCEPT ![h] = [pc |-> pc, f |-> f, from |-> from, rule |-> rule, new |-> ~Kept(f)]]
  /\ tangled' = IF Holders(f) # {} THEN tangled \cup {f} ELSE tangled
Go(h, pc)   == req' = [req EXCEPT ![h].pc = pc]
Done(h)     == req' = [req EXCEPT ![h] = Free]
Tangle(h)   == tangled' = tangled \cup {req[h].f}

-----------------------------------------------------------------------------
(* POST /email/folders: folder, rule, document. *)

Create(h, f, from) ==
  /\ f \notin boxes /\ ~Kept(f) /\ \A i \in 1..MaxRules : rules[i].f # f
  /\ Holders(f) = {}
  /\ Hold(h, f, "rule", from, NoRule)
  /\ boxes' = boxes \cup {f}
  /\ UNCHANGED <<docs, rules, made>>

\* graph.createInboxRule; without a rule the poll files the mail instead.
MakeRule(h) ==
  /\ req[h].pc = "rule"
  /\ \/ /\ made < MaxRules
        /\ made' = made + 1
        /\ rules' = [rules EXCEPT ![made + 1] = [f |-> req[h].f, from |-> req[h].from]]
        /\ req' = [req EXCEPT ![h].pc = "store", ![h].rule = made + 1]
     \/ /\ req' = [req EXCEPT ![h].pc = "store", ![h].rule = NoRule]
        /\ UNCHANGED <<made, rules>>
  /\ UNCHANGED <<docs, boxes, tangled>>

\* create, or findOneAndUpdate for a patch, which finds nothing once the document is gone.
Store(h) ==
  /\ req[h].pc = "store"
  /\ docs' = IF req[h].new \/ Kept(req[h].f)
               THEN [docs EXCEPT ![req[h].f] = [from |-> req[h].from, rule |-> req[h].rule]]
               ELSE docs
  /\ Done(h)
  /\ UNCHANGED <<boxes, rules, made, tangled>>

-----------------------------------------------------------------------------
(* PATCH /email/folders/:id. *)

Patch(h, f, from) ==
  /\ Kept(f)
  /\ Hold(h, f, IF docs[f].rule = NoRule THEN "rule" ELSE "update", from, docs[f].rule)
  /\ UNCHANGED <<docs, boxes, rules, made>>

\* The rule is updated in place, or made again when the update fails; a failure on a
\* rule that is still there leaves it behind.
RewrittenNameOnly(i, from) == rules
Rewritten(i, from) == [rules EXCEPT ![i].from = from]
UpdateRule(h) ==
  /\ req[h].pc = "update"
  /\ LET i == req[h].rule
     IN \/ /\ rules[i] # Dropped
           /\ rules' = Rewritten(i, req[h].from)
           /\ Go(h, "store")
           /\ UNCHANGED tangled
        \/ /\ Go(h, "rule")
           /\ IF rules[i] # Dropped THEN Tangle(h) ELSE UNCHANGED tangled
           /\ UNCHANGED rules
  /\ UNCHANGED <<docs, boxes, made>>

-----------------------------------------------------------------------------
(* DELETE /email/folders/:id: read, remove, then rule and folder at best effort. *)

RuleToDrop(f) == docs[f].rule
Delete(h, f) ==
  /\ Kept(f)
  /\ Hold(h, f, "forget", {}, RuleToDrop(f))
  /\ UNCHANGED <<docs, boxes, rules, made>>

Forget(h) ==
  /\ req[h].pc = "forget"
  /\ docs' = [docs EXCEPT ![req[h].f] = NoDoc]
  /\ Go(h, IF req[h].rule = NoRule THEN "unbox" ELSE "unrule")
  /\ UNCHANGED <<boxes, rules, made, tangled>>

DropRule(h) ==
  /\ req[h].pc = "unrule"
  /\ \/ rules' = [rules EXCEPT ![req[h].rule] = Dropped] /\ UNCHANGED tangled
     \/ UNCHANGED rules /\ Tangle(h)
  /\ Go(h, "unbox")
  /\ UNCHANGED <<docs, boxes, made>>

\* A folder that could not be deleted stays in Outlook, with no rule into it.
DropBox(h) ==
  /\ req[h].pc = "unbox"
  /\ boxes' \in {boxes, boxes \ {req[h].f}}
  /\ Done(h)
  /\ UNCHANGED <<docs, rules, made, tangled>>

-----------------------------------------------------------------------------
(* The polling round gives a folder without a rule one (email.poll.ts). *)

Notice(h, f) ==
  /\ Kept(f) /\ docs[f].rule = NoRule
  /\ Hold(h, f, "grant", docs[f].from, NoRule)
  /\ UNCHANGED <<docs, boxes, rules, made>>

Grant(h) ==
  /\ req[h].pc = "grant" /\ made < MaxRules
  /\ made' = made + 1
  /\ rules' = [rules EXCEPT ![made + 1] = [f |-> req[h].f, from |-> req[h].from]]
  /\ req' = [req EXCEPT ![h].pc = "set", ![h].rule = made + 1]
  /\ UNCHANGED <<docs, boxes, tangled>>

\* smartFolderRepo.setRuleId matches nothing once the document is gone.
SetRuleId(h) ==
  /\ req[h].pc = "set"
  /\ docs' = IF Kept(req[h].f) THEN [docs EXCEPT ![req[h].f].rule = req[h].rule] ELSE docs
  /\ Done(h)
  /\ UNCHANGED <<boxes, rules, made, tangled>>

-----------------------------------------------------------------------------
\* The user deletes a rule in Outlook itself.
UserDrops(i) ==
  /\ rules[i] # Dropped
  /\ rules' = [rules EXCEPT ![i] = Dropped]
  /\ UNCHANGED <<docs, boxes, req, made, tangled>>

\* A request dies on an error it does not swallow, or with the process.
Die(h) ==
  /\ req[h] # Free
  /\ Done(h) /\ Tangle(h)
  /\ UNCHANGED <<docs, boxes, rules, made>>

FoldersNext ==
  \/ \E i \in 1..MaxRules : UserDrops(i)
  \/ \E h \in Requests :
       \/ MakeRule(h) \/ Store(h) \/ UpdateRule(h) \/ Forget(h) \/ DropRule(h) \/ DropBox(h)
       \/ Grant(h) \/ SetRuleId(h) \/ Die(h)
       \/ \E f \in Folders :
            \/ Delete(h, f) \/ Notice(h, f)
            \/ \E from \in Matches : Create(h, f, from) \/ Patch(h, f, from)

FoldersSpec == FoldersInit /\ [][FoldersNext]_folderVars

-----------------------------------------------------------------------------
(* Properties. *)

\* Nobody at work on it, an Outlook rule into a folder is the one its document names
\* and files what its document says; a deleted folder has none.  Only a failed call, or
\* two requests on one folder, breaks this.
RulesFollowFoldersUnlessTangled ==
  \A i \in 1..MaxRules : \A f \in Folders \ tangled :
    rules[i].f = f /\ Holders(f) = {} => docs[f] = [from |-> rules[i].from, rule |-> i]
=============================================================================
