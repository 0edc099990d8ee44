----------------------------- MODULE MCWorkspace -----------------------------
(***************************************************************************)
(* What comes into the workspace and who may see it: alert channels and    *)
(* grants, the alerts the ERP posts, sessions and the switch in Team &     *)
(* Users, the mailbox poll and its smart folders, businesses and branches, *)
(* and how phones are reached.                                             *)
(* They share no state, so a behaviour follows one of them, and the others *)
(* rest as they began.                                                     *)
(***************************************************************************)
EXTENDS Naturals, FiniteSets, TLC

CONSTANTS
  Requests,                                     \* at once: devices, rounds and requests
  Staff, BranchIds, CodeOf, Alias, Channels, ChannelBranch, BranchWide, CompanyWide,
  Granting, Pushes, Postings, Lists, MaxGrants,                      \* AlertAccess
  Attempts, Keys, Rooms, MaxOutages,                                 \* AlertFeed
  MaxTokens, LastTick, Life, Grace, MaxSwitches,                     \* Sessions
  Mails, Wanted, Top, LastMinute,                                    \* MailPoll
  Folders, Authors, MaxRules,                                        \* SmartFolders
  Employees, Wide, Companies, BranchRows, Names, BranchCodes, Kbiz, KbizCode, MaxProvisions,  \* Directory
  Owners, Callee, Phones, Ios, CallKit, Unnamed, MaxChanges          \* Push

\* No channel is both of a branch and of the company, and lists are of channels.
ASSUME AccessConstants ==
  /\ BranchWide \cap CompanyWide = {} /\ Lists \subseteq SUBSET Channels
  /\ Postings \subseteq SUBSET BranchIds /\ MaxGrants \in Nat

\* No file and no room is called what stands for none.
ASSUME PostConstants == "none" \notin Attempts /\ "none" \notin Rooms

\* Bounds, and times from 0.
ASSUME SessionConstants ==
  /\ MaxTokens \in Nat /\ LastTick \in Nat /\ Life \in Nat /\ Grace \in Nat /\ MaxSwitches \in Nat

\* The company's own business and branch are named like the others, and people have names
\* that departments have not.
ASSUME DirectoryConstants ==
  Kbiz \in Names /\ KbizCode \in BranchCodes /\ MaxProvisions \in Nat /\ "department" \notin Employees

\* The clock of the mailbox starts at 1.
ASSUME MailConstants == LastMinute \in Nat \ {0}

\* No folder is called what stands for none.
ASSUME FolderConstants == MaxRules \in Nat /\ "none" \notin Folders

\* Some iPhones take calls as VoIP pushes; an older build does not, nor does an Android phone.
\* Nobody is called what stands for nobody.
ASSUME PushConstants ==
  /\ Callee \in Owners /\ "none" \notin Owners /\ Ios \subseteq Phones /\ CallKit \subseteq Ios

VARIABLES
  part,                                                              \* what is followed
  role, at, active, stored, off, muted, cache, handler, push, changes, stale, said, crossed, buried,
  events, messages, files, busiest, found, attempt, reaping, sounded, restarts,
  lost, racing, moved, cut,
  instant, sessions, issued, device, enabled, revoking, cached, fetch, switches,
  outdated, slipped, twice,
  minute, linked, stamp, mail, native, round, announced, missed, repeated,
  smart, boxes, rules, req, rulesMade, tangled,
  company, branch, users, branchIds, businesses, departments, provisioning, asked, named,
  orphaned, rejoined,
  keys, firebase, user, live, fcmRows, voipRows, expoRows, production, sender, pruning, call, hushed,
  rung, rings, reached, resigned, unsteady, belated, rethought

Access ==
  INSTANCE AlertAccess WITH People <- Staff, Handlers <- Granting, Nobody <- "nobody",
    MaxChanges <- MaxGrants

Posts ==
  INSTANCE AlertFeed WITH None <- "none", MaxRestarts <- MaxOutages, pushed <- sounded

Signing ==
  INSTANCE Sessions WITH Devices <- Requests, MaxTime <- LastTick, now <- instant,
    stale <- outdated

Mailbox ==
  INSTANCE MailPoll WITH Rounds <- Requests, MaxTime <- LastMinute, now <- minute,
    pushed <- announced

Sorting ==
  INSTANCE SmartFolders WITH Senders <- Authors, docs <- smart, made <- rulesMade

Places ==
  INSTANCE Directory WITH Users <- Employees, Codes <- BranchCodes, MaxAsks <- MaxProvisions,
    req <- provisioning, crossed <- orphaned, overtaken <- rejoined

Pushing ==
  INSTANCE Push WITH Users <- Owners, changes <- resigned, late <- belated

access  == <<role, at, active, stored, off, muted, cache, handler, push, changes,
             stale, said, crossed, buried>>
posting    == <<events, messages, files, busiest, found, attempt, reaping, sounded, restarts,
             lost, racing, moved, cut>>
signing == <<instant, sessions, issued, device, enabled, revoking, cached, fetch, switches,
             outdated, slipped, twice>>
mailbox == <<minute, linked, stamp, mail, native, round, announced, missed, repeated>>
sorting == <<smart, boxes, rules, req, rulesMade, tangled>>
places  == <<company, branch, users, branchIds, businesses, departments, provisioning, asked,
             named, orphaned, rejoined>>
pushing == <<keys, firebase, user, live, fcmRows, voipRows, expoRows, production, sender, pruning, call,
             hushed, rung, rings, reached, resigned, unsteady, belated, rethought>>

\* Only what is followed has more than one way to begin.
WorkspaceInit ==
  /\ part \in {"access", "feed", "sessions", "mail", "folders", "directory", "push"}
  /\ Access!AccessInit
  /\ role = [p \in Staff |-> "member"]
  /\ Posts!FeedInit
  /\ Signing!SessInit
  /\ Mailbox!MailInit
  /\ part # "mail" => native = FALSE
  /\ Sorting!FoldersInit
  /\ Places!DirInit
  /\ part # "directory" => Places!Up(CHOOSE c \in Companies : TRUE)
  /\ Pushing!PushInit
  /\ \A p \in CallKit : production[p] = keys.fcm
  /\ firebase \in {Phones, CallKit, {}}
  /\ part # "push" => keys.fcm /\ keys.voip /\ keys.expo /\ firebase = Phones

\* Bounds.  Where a third token is issued the switch and the clock are not both used; and
\* something changes or fails on one phone, or on all of them at once.
SigningBound == issued <= 2 \/ instant = 0 \/ switches = 0

PushingBound == Cardinality(unsteady) <= 1 \/ unsteady = Phones

WorkspaceNext ==
  \/ part = "access" /\ Access!AccessNext
     /\ UNCHANGED <<part, posting, signing, mailbox, sorting, places, pushing>>
  \/ part = "feed" /\ Posts!FeedNext
     /\ UNCHANGED <<part, access, signing, mailbox, sorting, places, pushing>>
  \/ part = "sessions" /\ Signing!SessNext /\ SigningBound'
     /\ UNCHANGED <<part, access, posting, mailbox, sorting, places, pushing>>
  \/ part = "mail" /\ Mailbox!MailNext
     /\ UNCHANGED <<part, access, posting, signing, sorting, places, pushing>>
  \/ part = "folders" /\ Sorting!FoldersNext
     /\ UNCHANGED <<part, access, posting, signing, mailbox, places, pushing>>
  \/ part = "directory" /\ Places!DirNext
     /\ UNCHANGED <<part, access, posting, signing, mailbox, sorting, pushing>>
  \/ part = "push" /\ Pushing!PushNext /\ PushingBound'
     /\ UNCHANGED <<part, access, posting, signing, mailbox, sorting, places>>

WorkspaceSpec ==
  WorkspaceInit /\ [][WorkspaceNext]_<<part, access, posting, signing, mailbox, sorting, places, pushing>>

\* Two rows of one branch, whose code the ERP spells in two ways.
MCCodeOf == [b \in {"bom", "hnbo"} |-> IF b = "hnbo" THEN "HNBO" ELSE "BOM"]
MCAlias  == [c \in {"HNBO", "BOM", "NBO"} |-> IF c = "HNBO" THEN "NBO" ELSE c]
MCChannelBranch == [c \in {"nbo_erp", "nbo_crm", "kgd"} |-> IF c = "kgd" THEN "KGD" ELSE "NBO"]

Symmetry == Permutations(Requests) \cup Permutations(Rooms)

-----------------------------------------------------------------------------
\* An alert reaches the phones of those whose feed admits it and opens there, until newer ones
\* push it off the feed, and a switch in Team & Users opens and closes what it says, unless
\* something changed on the way.  An alert posted again lands once, in one room; files are
\* referred to unless something failed or is gone, and links open a file unless a sweep was
\* cut short.
AlertsHold ==
  /\ part = "access" =>
       /\ Access!AccessTypeOK
       /\ Access!PushReachesViewersUnlessChanged
       /\ Access!TappedAlertOpensUnlessChangedOrBuried
       /\ Access!OpenedBySwitchUnlessCrossed
  /\ part = "feed" =>
       /\ Posts!FeedTypeOK
       /\ Posts!LandsOnceUnlessMoved
       /\ Posts!FilesAreReferredToUnlessCut
       /\ Posts!LinksOpenUnlessSwept

\* A call rings on a phone in one way, misses no phone with a Firebase token but those that
\* another shadows, and stops; a message reaches no phone of whoever has silenced its author, and
\* every other with a token but those left to Firebase.
PushHolds ==
  part = "push" =>
    /\ Pushing!PushTypeOK
    /\ Pushing!RungOneWay
    /\ Pushing!LeftOutOnlyIfShadowed
    /\ Pushing!StopsRingingUnlessLate
    /\ Pushing!PushedUnlessSilencedOrLeftToFirebase

\* A device that lost the answer to its refresh stays signed in, a token that was
\* rotated dies, and nothing outlives the switch.
SessionsHold ==
  part = "sessions" =>
    /\ Signing!SessTypeOK
    /\ Signing!RelaunchStaysSignedIn
    /\ Signing!RotatedTokenDiesUnlessTwice
    /\ Signing!NoSessionOutlivesSwitchUnlessInFlight

\* A message is announced, and once; Outlook's rules are those of the app's folders.
MailboxHolds ==
  /\ part = "mail" => /\ Mailbox!MailTypeOK
                       /\ Mailbox!AnnouncedUnlessMissed
                       /\ Mailbox!AnnouncedOnceUnlessRepeated
  /\ part = "folders" => /\ Sorting!FoldersTypeOK
                          /\ Sorting!RulesFollowFoldersUnlessTangled

\* Branches have their business, people their branches, and names and codes are unique.
DirectoryHolds ==
  part = "directory" =>
    /\ Places!DirTypeOK
    /\ Places!ShownBranchHasShownBusinessUnlessCrossed
    /\ Places!NothingNamesGoneBranchUnlessOvertaken
    /\ Places!NamesAreUniqueUnlessAtOnce
=============================================================================
