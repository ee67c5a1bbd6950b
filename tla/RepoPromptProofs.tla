-------------------------- MODULE RepoPromptProofs --------------------------
(***************************************************************************)
(* The migration prompt of the repository flows: for any number of         *)
(* handlers, users and remotes, and however often the remote or the        *)
(* account changes, no handler asks twice about one change of identity.    *)
(***************************************************************************)
EXTENDS RepoIdentityProofs

Uploads == {"put", "init", "exists?", "creating?", "tracked?", "listing",
            "posting"}
Syncs == {"exists", "register", "creating", "list", "sync", "clear",
          "clearing", "saving"}

(* Whether a handler cannot have asked yet.                                *)
Unasked(l) ==
  \/ l.pc \in {"new"} \cup Uploads
  \/ l.kind = "upload"
  \/ (l.pc \in {"resolve", "detect"} /\ l.stage = "first" /\ ~l.again)
  \/ (l.pc = "detect" /\ l.stage \in {"command", "named"})

(* Whether a check has made, or is about to look past, what it asked about.*)
Behind(l) ==
  /\ l.stage = "first"
  /\ (l.pc = "telling" /\ ~l.again) \/ l.pc \in {"resolve", "detect"}

(* What a handler has asked about, given the last active id: nothing yet,  *)
(* the change it is at, or changes that were made or recorded since.       *)
AskedOK(l, last) ==
  /\ Unasked(l) => l.asked = {}
  /\ l.kind = "upload" => l.pc \in Uploads \cup {"clearing", "saving"}
  /\ l.pc \in {"new", "resolve"} => l.stage = "first"
  /\ l.pc \in {"ask", "moving"} /\ l.stage = "first" /\ ~l.again
       => l.asked \subseteq {<<l.old, l.to>>} /\ l.old # l.to
  /\ Behind(l)
       => \A p \in l.asked : p[1] # last
  /\ l.pc \in Syncs \/ (l.pc = "detect" /\ l.stage = "second")
       => l.asked = {} \/ last \in {l.repo, None}
AskedInv == \A h \in Handlers : AskedOK(flow[h], identity.lastActive)

-----------------------------------------------------------------------------
(* What a step of a handler has to keep: its own account of what it asked, *)
(* and, where it records an id, that of nobody else.                       *)
KeepsAsked(h) ==
  /\ AskedOK(flow'[h], identity'.lastActive)
  /\ \/ identity'.lastActive \in {identity.lastActive, None}
     \/ \A g \in Handlers \ {h} : flow'[g].asked = {}

LEMMA OverAsked == \A last : AskedOK(Over, last)
<1>1. Over.pc = "over" /\ Over.kind = "none" /\ Over.asked = {}
  BY DEF Over, New
<1> QED
  BY <1>1 DEF AskedOK, Behind, Unasked, Uploads, Syncs

LEMMA NothingAsked ==
  ASSUME NEW l, NEW last, l.asked = {},
         l.pc \notin {"new", "resolve", "ask", "moving"},
         l.kind = "upload" => l.pc \in Uploads \cup {"clearing", "saving"}
  PROVE AskedOK(l, last)
BY DEF AskedOK, Behind

(* Most steps leave the last active id alone.                              *)
LEMMA SameLast ==
  ASSUME IInv
  PROVE /\ Remembered.lastActive = identity.lastActive
        /\ \A r \in RepoOrNone, b \in BOOLEAN :
             /\ [identity EXCEPT !.manual = r].lastActive = identity.lastActive
             /\ [Remembered EXCEPT !.sub = b].lastActive
                  = identity.lastActive
             /\ [identity EXCEPT !.lastActive = r].lastActive = r
             /\ [identity EXCEPT !.manual = None,
                                 !.lastActive = None].lastActive = None
<1>1. Remembered \in Identities /\ identity \in Identities
      /\ Remembered.lastActive = identity.lastActive
  BY IdentityTyped DEF IInv, Typed, WindowOK
<1> HIDE DEF Remembered
<1> QED
  BY <1>1 DEF Identities

(* A handler that goes somewhere with its locals as they are.              *)
LEMMA GoesOn ==
  ASSUME IInv, NEW h \in Handlers, NEW pc, Go(h, pc)
  PROVE IF pc = "over" THEN flow'[h] = Over
        ELSE /\ flow'[h].pc = pc /\ flow'[h].kind = flow[h].kind
             /\ flow'[h].stage = flow[h].stage
             /\ flow'[h].again = flow[h].again
             /\ flow'[h].asked = flow[h].asked /\ flow'[h].old = flow[h].old
             /\ flow'[h].to = flow[h].to /\ flow'[h].repo = flow[h].repo
BY MineOK DEF IInv, Typed, FlowOK, Go, Placed, Locals

(* What only moves a handler within its check keeps what it resolved.      *)
SameButPlace(h, l) ==
  /\ l.kind = flow[h].kind /\ l.repo = flow[h].repo
  /\ l.asked = flow[h].asked
  /\ l.pc \in Syncs \/ (l.pc = "detect" /\ l.stage = "second")

LEMMA Locally ==
  ASSUME FlowOK, NEW h \in Handlers, NEW l, flow' = [flow EXCEPT ![h] = l]
  PROVE flow'[h] = l
BY DEF FlowOK

(* While a check registers, lists and adopts, it keeps what it resolved.   *)
LEMMA SyncsOn ==
  ASSUME AskedInv, NEW h \in Handlers, flow[h].pc \in Syncs,
         flow[h].kind # "upload", SameButPlace(h, flow'[h]),
         identity'.lastActive = identity.lastActive
  PROVE AskedOK(flow'[h], identity'.lastActive)
<1>1. flow[h].asked = {} \/ identity.lastActive \in {flow[h].repo, None}
  BY DEF AskedInv, AskedOK
<1> QED
  BY <1>1 DEF SameButPlace, AskedOK, Behind, Unasked, Uploads, Syncs

-----------------------------------------------------------------------------
(* The initial check.                                                      *)
LEMMA StartKeepsAsked ==
  ASSUME IInv, AskedInv, NEW h \in Handlers, NEW force \in BOOLEAN,
         CheckStarts(h, force)
  PROVE KeepsAsked(h)
<1>1. /\ flow'[h].pc = "resolve" /\ flow'[h].kind = "check"
      /\ flow'[h].stage = flow[h].stage /\ flow'[h].asked = flow[h].asked
  BY MineOK DEF IInv, Typed, FlowOK, CheckStarts, Locals
<1>2. flow[h].stage = "first" /\ flow[h].asked = {}
  BY DEF CheckStarts, At, AskedInv, AskedOK, Behind, Unasked
<1>3. identity' = identity
  BY DEF CheckStarts, OnlyFlow
<1> QED
  BY <1>1, <1>2, <1>3 DEF KeepsAsked, AskedOK, Behind, Unasked, Uploads, Syncs

LEMMA ResolveKeepsAsked ==
  ASSUME IInv, AskedInv, NEW h \in Handlers, Resolve(h)
  PROVE KeepsAsked(h)
<1>1. /\ flow'[h].pc \in {"detect", "activate"}
      /\ flow'[h].kind = flow[h].kind /\ flow'[h].stage = flow[h].stage
      /\ flow'[h].again = flow[h].again /\ flow'[h].asked = flow[h].asked
  BY MineOK DEF IInv, Typed, FlowOK, Resolve, Locals
<1>2. identity'.lastActive = identity.lastActive
  BY SameLast DEF Resolve
<1>3. flow[h].pc = "resolve" /\ AskedOK(flow[h], identity.lastActive)
  BY DEF Resolve, At, AskedInv
<1> QED
  BY <1>1, <1>2, <1>3 DEF KeepsAsked, AskedOK, Behind, Unasked, Uploads, Syncs

LEMMA ActivateKeepsAsked ==
  ASSUME IInv, AskedInv, NEW h \in Handlers, Activate(h)
  PROVE KeepsAsked(h)
<1>1. flow[h] \in Locals /\ FlowOK
  BY MineOK DEF IInv, Typed
<1>2. \A g \in Handlers \ {h} : flow'[g].asked = {}
  BY <1>1 DEF Activate, OthersForget, FlowOK, Locals
<1>3. /\ flow'[h].pc = "exists" /\ flow'[h].kind = flow[h].kind
      /\ flow'[h].repo = flow[h].repo
  BY <1>1 DEF Activate, OthersForget, FlowOK, Locals
<1>4. identity'.lastActive = flow[h].repo
  BY <1>1, SameLast DEF Activate, Locals
<1>5. flow[h].kind # "upload"
  BY DEF Activate, At, AskedInv, AskedOK, Uploads
<1> QED
  BY <1>2, <1>3, <1>4, <1>5
  DEF KeepsAsked, AskedOK, Behind, Unasked, Uploads, Syncs

(* From the existence check to the second look.                            *)
SyncStep(h) ==
  \/ Existence(h) \/ Decline(h) \/ LeaveUnnamed(h) \/ Register(h)
  \/ Registered(h) \/ Listed(h) \/ AdoptClears(h) \/ AdoptSaves(h)
  \/ Adopted(h) \/ SyncEnds(h) \/ \E f \in Files : Adopt(h, f)

LEMMA SyncKeepsAsked ==
  ASSUME IInv, AskedInv, NEW h \in Handlers, SyncStep(h)
  PROVE KeepsAsked(h)
<1>1. flow[h] \in Locals /\ FlowOK
  BY MineOK DEF IInv, Typed
<1>2. identity'.lastActive = identity.lastActive
  BY SameLast
  DEF SyncStep, Existence, Decline, LeaveUnnamed, Register, Registered,
      Listed, AdoptClears, AdoptSaves, Adopted, SyncEnds, Adopt, OnlyFlow
<1>3. flow[h].pc \in Syncs
  BY DEF SyncStep, Existence, Decline, LeaveUnnamed, Register, Registered,
         Listed, AdoptClears, AdoptSaves, Adopted, SyncEnds, Adopt, At, Syncs
<1>4. flow[h].kind # "upload"
  BY <1>3
  DEF SyncStep, Existence, Decline, LeaveUnnamed, Register, Registered,
      Listed, AdoptClears, AdoptSaves, Adopted, SyncEnds, Adopt, At, Syncs,
      AskedInv, AskedOK, Uploads
<1>5. CASE \E pc \in Syncs \cup {"over"} : Go(h, pc)
  <2>1. flow'[h] = Over \/ SameButPlace(h, flow'[h])
    BY <1>5, GoesOn DEF SameButPlace
  <2> QED
    BY <1>2, <1>3, <1>4, <2>1, OverAsked, SyncsOn DEF KeepsAsked
<1>6. CASE ~ \E pc \in Syncs \cup {"over"} : Go(h, pc)
  <2>1. ASSUME Existence(h) PROVE SameButPlace(h, flow'[h])
    <3> DEFINE l == [flow[h] EXCEPT !.pc = "register", !.seen = skipped]
    <3>1. flow' = [flow EXCEPT ![h] = l]
      BY <1>1, <1>6, <2>1 DEF Existence, Syncs
    <3>2. SameButPlace(h, l)
      BY <1>1 DEF SameButPlace, Syncs, Locals
    <3> HIDE DEF l
    <3> QED
      BY <1>1, <3>1, <3>2, Locally
  <2>2. ASSUME Registered(h) PROVE SameButPlace(h, flow'[h])
    <3> DEFINE l == [flow[h] EXCEPT !.pc = "list", !.seen = {}]
    <3>1. flow' = [flow EXCEPT ![h] = l]
      BY <1>1, <1>6, <2>2 DEF Registered, Syncs
    <3>2. SameButPlace(h, l)
      BY <1>1 DEF SameButPlace, Syncs, Locals
    <3> HIDE DEF l
    <3> QED
      BY <1>1, <3>1, <3>2, Locally
  <2>3. ASSUME Listed(h) PROVE SameButPlace(h, flow'[h])
    <3> DEFINE l(fs) == [flow[h] EXCEPT !.pc = "sync", !.files = fs]
    <3>1. \E fs : flow' = [flow EXCEPT ![h] = l(fs)]
      BY <1>1, <2>3 DEF Listed
    <3>2. \A fs : SameButPlace(h, l(fs))
      BY <1>1 DEF SameButPlace, Syncs, Locals
    <3> HIDE DEF l
    <3> QED
      BY <1>1, <3>1, <3>2, Locally
  <2>4. ASSUME SyncEnds(h) PROVE SameButPlace(h, flow'[h])
    <3> DEFINE l == [flow[h] EXCEPT !.pc = "detect", !.stage = "second"]
    <3>1. flow' = [flow EXCEPT ![h] = l]
      BY <1>1, <2>4 DEF SyncEnds
    <3>2. SameButPlace(h, l)
      BY <1>1 DEF SameButPlace, Syncs, Locals
    <3> HIDE DEF l
    <3> QED
      BY <1>1, <3>1, <3>2, Locally
  <2>5. ASSUME AdoptSaves(h) PROVE SameButPlace(h, flow'[h])
    <3> DEFINE u == Unprompted(flow[h])
               left == flow[h].files \ {flow[h].file}
               l == [u EXCEPT !.pc = "saving", !.files = left,
                              !.file = None, !.hash = None]
    <3>1. flow' = [flow EXCEPT ![h] = l]
      BY <1>1, <2>5 DEF AdoptSaves
    <3>2. /\ u \in Locals /\ u.kind = flow[h].kind
          /\ u.repo = flow[h].repo /\ u.asked = flow[h].asked
      BY <1>1 DEF Unprompted, Locals, RepoOrNone
    <3> HIDE DEF u, left
    <3>3. SameButPlace(h, l)
      BY <3>2 DEF SameButPlace, Syncs, Locals
    <3> HIDE DEF l
    <3> QED
      BY <1>1, <3>1, <3>3, Locally
  <2>6. ASSUME NEW f \in Files, Adopt(h, f) PROVE SameButPlace(h, flow'[h])
    <3> DEFINE left == flow[h].files \ {f}
               l1 == [flow[h] EXCEPT !.files = left]
               l2(old, hash) == [flow[h] EXCEPT !.pc = "clear", !.old = old,
                                                !.file = f, !.hash = hash]
    <3>1. \/ flow' = [flow EXCEPT ![h] = l1]
          \/ \E old, hash : flow' = [flow EXCEPT ![h] = l2(old, hash)]
      BY <1>1, <2>6 DEF Adopt
    <3> HIDE DEF left
    <3>2. SameButPlace(h, l1) /\ \A old, hash : SameButPlace(h, l2(old, hash))
      BY <1>1, <1>3 DEF SameButPlace, Syncs, Locals
    <3> HIDE DEF l1, l2
    <3> QED
      BY <1>1, <3>1, <3>2, Locally
  <2>7. SameButPlace(h, flow'[h])
    BY <1>6, <2>1, <2>2, <2>3, <2>4, <2>5, <2>6
    DEF SyncStep, Decline, LeaveUnnamed, Register, AdoptClears, Adopted,
        Syncs
  <2> QED
    BY <1>2, <1>3, <1>4, <2>7, SyncsOn DEF KeepsAsked
<1> QED
  BY <1>5, <1>6

-----------------------------------------------------------------------------
(* The prompt.                                                             *)
LEMMA DetectKeepsAsked ==
  ASSUME IInv, AskedInv, NEW h \in Handlers, Detect(h)
  PROVE KeepsAsked(h)
<1>1. flow[h] \in Locals /\ FlowOK
  BY MineOK DEF IInv, Typed
<1>2. identity'.lastActive = identity.lastActive
  BY SameLast DEF Detect
<1>3. flow[h].pc = "detect" /\ AskedOK(flow[h], identity.lastActive)
  BY DEF Detect, At, AskedInv
<1>4. CASE Changed
  <2>1. /\ flow'[h].pc = "ask" /\ flow'[h].kind = flow[h].kind
        /\ flow'[h].stage = flow[h].stage /\ flow'[h].again = flow[h].again
        /\ flow'[h].old = identity.lastActive /\ flow'[h].to = CurrentId
        /\ flow'[h].asked
             = flow[h].asked \cup {<<identity.lastActive, CurrentId>>}
    BY <1>1, <1>4 DEF Detect, FlowOK, Locals
  <2>2. identity.lastActive # CurrentId
    BY <1>4 DEF Changed
  <2> QED
    BY <1>2, <1>3, <2>1, <2>2
    DEF KeepsAsked, AskedOK, Behind, Unasked, Uploads, Syncs
<1>5. CASE ~Changed
  <2>1. Go(h, AfterPrompt(h))
    BY <1>1, <1>5 DEF Detect, Go, FlowOK
  <2>2. flow'[h] = Over
        \/ (flow'[h].pc = "activate" /\ flow'[h].kind = flow[h].kind)
    BY <2>1, GoesOn DEF AfterPrompt
  <2>3. flow[h].kind # "upload"
    BY <1>3 DEF AskedOK, Uploads
  <2> QED
    BY <1>2, <2>2, <2>3, OverAsked
    DEF KeepsAsked, AskedOK, Behind, Unasked, Uploads, Syncs
<1> QED
  BY <1>4, <1>5

LEMMA DecidedAsked ==
  ASSUME IInv, AskedInv, NEW h \in Handlers, flow[h].pc \in {"ask", "telling"},
         flow' = [flow EXCEPT ![h] = Placed(Unprompted(@), AfterPrompt(h))]
  PROVE AskedOK(flow'[h], identity'.lastActive)
<1>1. flow[h] \in Locals /\ FlowOK
  BY MineOK DEF IInv, Typed
<1>2. CASE AfterPrompt(h) = "over"
  BY <1>1, <1>2, OverAsked DEF Placed, FlowOK
<1>3. CASE AfterPrompt(h) = "activate"
  <2>1. /\ flow'[h].pc = "activate" /\ flow'[h].kind = flow[h].kind
    BY <1>1, <1>3 DEF Placed, Unprompted, FlowOK, Locals
  <2>2. flow[h].kind # "upload"
    BY DEF AskedInv, AskedOK, Uploads
  <2> QED
    BY <2>1, <2>2 DEF AskedOK, Behind, Unasked, Uploads, Syncs
<1> QED
  BY <1>2, <1>3 DEF AfterPrompt

LEMMA ChooseKeepsAsked ==
  ASSUME IInv, AskedInv, NEW h \in Handlers,
         ChooseMigrate(h) \/ ChooseKeep(h) \/ ChooseLater(h)
  PROVE KeepsAsked(h)
<1>1. flow[h] \in Locals /\ flow[h].pc = "ask"
      /\ AskedOK(flow[h], identity.lastActive)
  BY MineOK DEF ChooseMigrate, ChooseKeep, ChooseLater, At, AskedInv
<1>2. identity'.lastActive = identity.lastActive
  BY <1>1, SameLast DEF ChooseMigrate, ChooseKeep, ChooseLater, OnlyFlow, Locals
<1>3. CASE ChooseMigrate(h)
  <2>1. Go(h, "moving")
    BY <1>3 DEF ChooseMigrate
  <2> QED
    BY <1>1, <1>2, <2>1, GoesOn
    DEF KeepsAsked, AskedOK, Behind, Unasked, Uploads, Syncs
<1>4. CASE ChooseKeep(h) \/ ChooseLater(h)
  BY <1>1, <1>2, <1>4, DecidedAsked
  DEF ChooseKeep, ChooseLater, Decided, KeepsAsked
<1> QED
  BY <1>3, <1>4

(* The new id becomes the last active one: what was asked is behind.       *)
LEMMA MovedKeepsAsked ==
  ASSUME IInv, AskedInv, NEW h \in Handlers, Moved(h)
  PROVE KeepsAsked(h)
<1>1. flow[h] \in Locals /\ FlowOK /\ flow[h].pc = "moving"
      /\ AskedOK(flow[h], identity.lastActive)
  BY MineOK DEF IInv, Typed, Moved, At, AskedInv
<1>2. \A g \in Handlers \ {h} : flow'[g].asked = {}
  BY <1>1 DEF Moved, OthersForget, FlowOK, Locals
<1>3. /\ flow'[h].pc = "telling" /\ flow'[h].kind = flow[h].kind
      /\ flow'[h].stage = flow[h].stage /\ flow'[h].again = flow[h].again
      /\ flow'[h].asked = flow[h].asked
  BY <1>1 DEF Moved, OthersForget, FlowOK, Locals
<1>4. identity'.lastActive = flow[h].to
  BY <1>1, SameLast DEF Moved, LastActiveMoved, Locals
<1>5. flow[h].kind # "upload"
  BY <1>1 DEF AskedOK, Uploads
<1>6. flow[h].stage = "first" /\ ~flow[h].again =>
        \A p \in flow[h].asked : p[1] # flow[h].to
  BY <1>1 DEF AskedOK
<1> QED
  BY <1>2, <1>3, <1>4, <1>5, <1>6
  DEF KeepsAsked, AskedOK, Behind, Unasked, Uploads, Syncs

LEMMA ToldKeepsAsked ==
  ASSUME IInv, AskedInv, NEW h \in Handlers, Told(h)
  PROVE KeepsAsked(h)
<1>1. flow[h] \in Locals /\ FlowOK /\ flow[h].pc = "telling"
      /\ AskedOK(flow[h], identity.lastActive)
  BY MineOK DEF IInv, Typed, Told, At, AskedInv
<1>2. identity' = identity
  BY DEF Told, OnlyFlow
<1>3. CASE flow[h].stage = "first" /\ ~flow[h].again
  <2>1. /\ flow'[h].pc = "resolve" /\ flow'[h].kind = flow[h].kind
        /\ flow'[h].stage = "first" /\ flow'[h].again = TRUE
        /\ flow'[h].asked = flow[h].asked
    BY <1>1, <1>3 DEF Told, Unprompted, FlowOK, Locals
  <2> QED
    BY <1>1, <1>2, <1>3, <2>1
    DEF KeepsAsked, AskedOK, Behind, Unasked, Uploads, Syncs
<1>4. CASE ~(flow[h].stage = "first" /\ ~flow[h].again)
  BY <1>1, <1>2, <1>4, DecidedAsked DEF Told, KeepsAsked
<1> QED
  BY <1>3, <1>4

LEMMA MigrationKeepsAsked ==
  ASSUME IInv, AskedInv, NEW h \in Handlers, MigrationStep(h)
  PROVE KeepsAsked(h)
BY DetectKeepsAsked, MovedKeepsAsked, ToldKeepsAsked, ChooseKeepsAsked
DEF MigrationStep

LEMMA CheckKeepsAsked ==
  ASSUME IInv, AskedInv, NEW h \in Handlers, CheckStep(h)
  PROVE KeepsAsked(h)
BY ResolveKeepsAsked, ActivateKeepsAsked, SyncKeepsAsked
DEF CheckStep, SyncStep
-----------------------------------------------------------------------------
(* The commands.                                                           *)
LEMMA NamedKeepsAsked ==
  ASSUME IInv, AskedInv, NEW h \in Handlers, Named(h) \/ NameDismissed(h)
  PROVE KeepsAsked(h)
<1>1. /\ flow[h] \in Locals /\ Ready(flow[h]) /\ flow[h].pc = "naming"
      /\ AskedOK(flow[h], identity.lastActive)
  BY MineOK DEF Named, NameDismissed, At, AskedInv
<1>2. flow[h].stage = "named" /\ flow[h].kind # "upload"
  BY <1>1 DEF Ready, ReadyAt, AskedOK, Uploads
<1>3. identity'.lastActive = identity.lastActive
  BY SameLast, IdentityAssumption DEF Named, NameDismissed, OnlyFlow, RepoOrNone
<1>4. Go(h, "ask") \/ Go(h, "over")
  BY DEF Named, NameDismissed
<1>5. \/ flow'[h] = Over
      \/ /\ flow'[h].pc = "ask" /\ flow'[h].kind = flow[h].kind
         /\ flow'[h].stage = flow[h].stage
  BY <1>4, GoesOn
<1> QED
  BY <1>2, <1>3, <1>5, OverAsked
  DEF KeepsAsked, AskedOK, Behind, Unasked, Uploads, Syncs

LEMMA GivenKeepsAsked ==
  ASSUME IInv, AskedInv, NEW h \in Handlers,
         \/ MigrateCommand(h) \/ NameCommand(h)
         \/ SubProjectCommand(h) \/ ResetCommand(h)
  PROVE KeepsAsked(h)
<1>1. flow[h] \in Locals /\ FlowOK
  BY MineOK DEF IInv, Typed
<1>2. flow[h].asked = {}
  BY DEF MigrateCommand, NameCommand, SubProjectCommand, ResetCommand, Given,
         At, AskedInv, AskedOK, Behind, Unasked
<1>3. identity'.lastActive \in {identity.lastActive, None}
  BY SameLast, IdentityAssumption
  DEF MigrateCommand, NameCommand, SubProjectCommand, ResetCommand, RepoOrNone
<1>4. CASE SubProjectCommand(h) \/ ResetCommand(h)
  <2>1. Go(h, "over")
    BY <1>4 DEF SubProjectCommand, ResetCommand
  <2> QED
    BY <1>3, <2>1, GoesOn, OverAsked DEF KeepsAsked
<1>5. CASE MigrateCommand(h)
  <2>1. /\ flow'[h].pc = "detect" /\ flow'[h].kind = "command"
        /\ flow'[h].stage = "command" /\ flow'[h].asked = {}
    BY <1>1, <1>2, <1>5 DEF MigrateCommand, FlowOK, Locals
  <2> QED
    BY <1>3, <2>1, NothingAsked DEF KeepsAsked
<1>6. CASE NameCommand(h)
  <2>1. /\ flow'[h].pc = "naming" /\ flow'[h].kind = "command"
        /\ flow'[h].asked = {}
    BY <1>1, <1>2, <1>6 DEF NameCommand, FlowOK, Locals
  <2> QED
    BY <1>3, <2>1, NothingAsked DEF KeepsAsked
<1> QED
  BY <1>4, <1>5, <1>6

LEMMA CommandKeepsAsked ==
  ASSUME IInv, AskedInv, NEW h \in Handlers, CommandStep(h)
  PROVE KeepsAsked(h)
BY NamedKeepsAsked, GivenKeepsAsked DEF CommandStep

-----------------------------------------------------------------------------
(* Uploads ask nothing of the kind.                                        *)
LEMMA UploadKeepsAsked ==
  ASSUME IInv, AskedInv, NEW h \in Handlers, UploadStep(h)
  PROVE KeepsAsked(h)
<1>1. flow[h] \in Locals /\ FlowOK /\ Ready(flow[h])
  BY MineOK DEF IInv, Typed
<1>2. identity'.lastActive = identity.lastActive
  BY SameLast
  DEF UploadStep, Uploaded, Cleansed, InitStarts, InitExistence,
      InitRegistered, InitChecks, InitPrompts, InitPosted, Saved, OnlyFlow,
      UploadStarts
<1>3. CASE \E f \in Files : UploadStarts(h, f)
  <2>1. flow[h].asked = {}
    BY <1>3 DEF UploadStarts, At, AskedInv, AskedOK, Behind, Unasked
  <2>2. PICK f \in Files : UploadStarts(h, f)
    BY <1>3
  <2> DEFINE l1 == [flow[h] EXCEPT !.pc = "init", !.kind = "upload",
                                   !.file = f]
             l2(r) == [flow[h] EXCEPT !.pc = "put", !.kind = "upload",
                                      !.repo = r, !.file = f]
  <2>3. \/ flow' = [flow EXCEPT ![h] = l1]
        \/ \E r : flow' = [flow EXCEPT ![h] = l2(r)]
    BY <1>1, <2>2 DEF UploadStarts
  <2>4. \/ flow'[h] = l1
        \/ \E r : flow'[h] = l2(r)
    BY <1>1, <2>3, Locally
  <2>5. /\ l1.pc = "init" /\ l1.asked = {}
        /\ \A r : l2(r).pc = "put" /\ l2(r).asked = {}
    BY <1>1, <2>1 DEF Locals
  <2>6. flow'[h].pc \in {"init", "put"} /\ flow'[h].asked = {}
    BY <2>4, <2>5
  <2> QED
    BY <1>2, <2>6, NothingAsked DEF KeepsAsked, Uploads
<1>4. CASE ~ \E f \in Files : UploadStarts(h, f)
  <2>1. flow[h].pc \in Uploads \/ flow[h].kind = "upload"
    BY <1>4
    DEF UploadStep, Uploaded, Cleansed, InitStarts, InitExistence,
        InitRegistered, InitChecks, InitPrompts, InitPosted, Saved, At, Uploads
  <2>2. flow[h].asked = {}
    BY <2>1 DEF AskedInv, AskedOK, Behind, Unasked
  <2>3. \/ \E pc \in Uploads \cup {"over"} : Go(h, pc)
        \/ Go(h, "saving") \/ Go(h, "clearing")
        \/ \E r : flow' = [flow EXCEPT ![h].pc = "exists?", ![h].repo = r]
    BY <1>1, <1>4
    DEF UploadStep, Uploaded, Cleansed, InitStarts, InitExistence,
        InitRegistered, InitChecks, InitPrompts, InitPosted, Saved, Uploads,
        Ready, ReadyAt, At
  <2>4. \/ flow'[h] = Over
        \/ /\ flow'[h].pc \in Uploads \cup {"clearing", "saving"}
           /\ flow'[h].asked = {}
    <3>1. CASE \E r : flow' = [flow EXCEPT ![h].pc = "exists?",
                                           ![h].repo = r]
      BY <1>1, <2>2, <3>1 DEF FlowOK, Locals, Uploads
    <3>2. CASE \E pc \in Uploads \cup {"over", "saving", "clearing"} :
                 Go(h, pc)
      BY <2>2, <3>2, GoesOn
    <3> QED
      BY <2>3, <3>1, <3>2
  <2> QED
    BY <1>2, <2>4, OverAsked, NothingAsked DEF KeepsAsked, Uploads
<1> QED
  BY <1>3, <1>4

-----------------------------------------------------------------------------
LEMMA HandlerKeepsAsked ==
  ASSUME IInv, AskedInv, NEW h \in Handlers,
         HandlerStep(h) \/ \E force \in BOOLEAN : CheckStarts(h, force)
  PROVE AskedInv'
<1>1. KeepsAsked(h)
  BY StartKeepsAsked, CheckKeepsAsked, CommandKeepsAsked, UploadKeepsAsked,
     MigrationKeepsAsked DEF HandlerStep
<1>2. Does(h)
  BY CheckDoes, CommandDoes, UploadDoes, MigrationDoes, CheckStartsDoes
  DEF HandlerStep
<1>3. ASSUME NEW g \in Handlers \ {h}
      PROVE AskedOK(flow'[g], identity'.lastActive)
  <2>1. /\ flow[g] \in Locals /\ AskedOK(flow[g], identity.lastActive)
    BY MineOK DEF AskedInv
  <2>2. \/ flow'[g] = flow[g]
        \/ flow'[g] = [flow[g] EXCEPT !.asked = {}]
    BY <1>2 DEF Does, Steps
  <2>3. flow'[g] = flow[g] \/ flow'[g].asked = {}
    BY <2>1, <2>2 DEF Locals
  <2>4. /\ flow'[g].pc = flow[g].pc /\ flow'[g].kind = flow[g].kind
        /\ flow'[g].stage = flow[g].stage /\ flow'[g].again = flow[g].again
        /\ flow'[g].old = flow[g].old /\ flow'[g].to = flow[g].to
        /\ flow'[g].repo = flow[g].repo
    BY <2>1, <2>2 DEF Locals
  <2>5. CASE flow'[g].asked = {}
    BY <2>1, <2>4, <2>5 DEF AskedOK, Behind, Unasked
  <2>6. CASE flow'[g] = flow[g] /\ flow'[g].asked # {}
    <3>1. identity'.lastActive \in {identity.lastActive, None}
      BY <1>1, <2>6 DEF KeepsAsked
    <3>2. \A p \in flow[g].asked : p[1] # None
      BY <2>1, IdentityAssumption DEF Locals
    <3> QED
      BY <2>1, <2>6, <3>1, <3>2 DEF AskedOK, Behind, Unasked
  <2> QED
    BY <2>3, <2>5, <2>6
<1> QED
  BY <1>1, <1>3 DEF AskedInv, KeepsAsked

LEMMA NextKeepsAsked ==
  ASSUME IInv, AskedInv, [Next]_vars
  PROVE AskedInv'
<1>1. CASE flow' = flow /\ identity'.lastActive \in {identity.lastActive, None}
  <2>1. ASSUME NEW h \in Handlers
        PROVE AskedOK(flow'[h], identity'.lastActive)
    <3>1. flow[h] \in Locals /\ AskedOK(flow[h], identity.lastActive)
      BY MineOK DEF AskedInv
    <3>2. \A p \in flow[h].asked : p[1] # None
      BY <3>1, IdentityAssumption DEF Locals
    <3> QED
      BY <1>1, <3>1, <3>2 DEF AskedOK
  <2> QED
    BY <2>1 DEF AskedInv
<1>2. CASE Reload
  <2>1. ASSUME NEW h \in Handlers
        PROVE AskedOK(flow'[h], identity'.lastActive)
    BY <1>2, OverAsked DEF Reload, AskedInv
  <2> QED
    BY <2>1 DEF AskedInv
<1>3. ASSUME NEW u \in Users, AccountSwitches(u)
      PROVE flow' = flow /\ identity'.lastActive = None
  BY <1>3 DEF AccountSwitches, ClearedIdentity
<1>4. ASSUME \/ WriterStep \/ AccountSwitched \/ UNCHANGED vars
             \/ \E r \in Remotes \cup {None} : RemoteChanges(r)
             \/ \E h \in Handlers : ServeStep(h) \/ RequestFails(h)
      PROVE flow' = flow /\ identity' = identity
  BY <1>4 DEF WriterStep, AccountSwitched, RemoteChanges, ServeStep,
              RequestFails, vars, idVars
<1> QED
  BY <1>1, <1>2, <1>3, <1>4, HandlerKeepsAsked DEF Next

(* From the look at the identity to the prompt there is one way.           *)
LEMMA DetectAsks ==
  ASSUME IInv, [Next]_vars, NEW h \in Handlers,
         flow[h].pc = "detect", flow'[h].pc = "ask"
  PROVE /\ Changed
        /\ flow'[h].old = identity.lastActive /\ flow'[h].to = CurrentId
<1>1. FlowOK /\ flow[h] \in Locals
  BY MineOK DEF IInv, Typed
<1>2. CASE Detect(h)
  <2>1. CASE Changed
    BY <1>1, <1>2, <2>1 DEF Detect, FlowOK, Locals
  <2>2. CASE ~Changed
    BY <1>1, <1>2, <2>2 DEF Detect, Placed, Over, New, AfterPrompt, FlowOK,
                            Locals
  <2> QED
    BY <2>1, <2>2
<1>3. ASSUME NEW g \in Handlers,
             HandlerStep(g) \/ \E force \in BOOLEAN : CheckStarts(g, force)
      PROVE Detect(h)
  <2>1. Does(g)
    BY <1>3, CheckDoes, CommandDoes, UploadDoes, MigrationDoes,
       CheckStartsDoes DEF HandlerStep
  <2>2. g = h
    BY <1>1, <2>1 DEF Does, Steps, Locals
  <2> QED
    BY <1>3, <2>2
    DEF HandlerStep, CheckStep, CommandStep, UploadStep, MigrationStep,
        CheckStarts, Resolve, Activate, Existence, Decline, LeaveUnnamed,
        Register, Registered, Listed, AdoptClears, AdoptSaves, Adopted,
        SyncEnds, Adopt, Moved, Told, ChooseMigrate, ChooseKeep, ChooseLater,
        MigrateCommand, NameCommand, Named, NameDismissed, SubProjectCommand,
        ResetCommand, Given, Uploaded, Cleansed, InitStarts, InitExistence,
        InitRegistered, InitChecks, InitPrompts, InitPosted, Saved,
        UploadStarts, At
<1>4. ASSUME \/ WriterStep \/ AccountSwitched \/ UNCHANGED vars
             \/ \E r \in Remotes \cup {None} : RemoteChanges(r)
             \/ \E u \in Users : AccountSwitches(u)
             \/ \E g \in Handlers : ServeStep(g) \/ RequestFails(g)
      PROVE flow' = flow
  BY <1>4 DEF WriterStep, AccountSwitched, RemoteChanges, AccountSwitches,
              ServeStep, RequestFails, vars, idVars
<1>5. ASSUME Reload PROVE flow'[h].pc # "ask"
  BY <1>1, <1>5, OverOK DEF Reload
<1> QED
  BY <1>1, <1>2, <1>3, <1>4, <1>5 DEF Next

(* Nobody is asked twice about one change of identity, whatever the        *)
(* handlers of the window and its remote do in between, but for a check    *)
(* that comes back with an id it resolved before the change.               *)
THEOREM NobodyIsAskedTwice == Spec => AskedOncePerChange
<1>1. Init => AskedInv
  <2>1. ASSUME Init, NEW h \in Handlers
        PROVE AskedOK(flow[h], identity.lastActive)
    <3>1. /\ flow[h].pc = "new" /\ flow[h].kind = "none"
          /\ flow[h].stage = "first" /\ flow[h].asked = {}
      BY <2>1 DEF Init, New
    <3> QED
      BY <3>1 DEF AskedOK, Behind, Unasked, Syncs
  <2> QED
    BY <2>1 DEF AskedInv
<1>2. IInv /\ AskedInv /\ [Next]_vars => AskedInv'
  BY NextKeepsAsked
<1> DEFINE Anew ==
      \A h \in Handlers :
        At(h, "detect") /\ At(h, "ask")' /\ ~ResolvedBefore(h) =>
          <<flow'[h].old, flow'[h].to>> \notin flow[h].asked
<1>3. ASSUME IInv, AskedInv, [Next]_vars
      PROVE [Anew]_vars
  <2> SUFFICES ASSUME NEW h \in Handlers,
                      At(h, "detect"), At(h, "ask")', ~ResolvedBefore(h)
               PROVE <<flow'[h].old, flow'[h].to>> \notin flow[h].asked
    OBVIOUS
  <2>1. Changed
        /\ flow'[h].old = identity.lastActive /\ flow'[h].to = CurrentId
    BY <1>3, DetectAsks DEF At
  <2>2. AskedOK(flow[h], identity.lastActive) /\ flow[h] \in Locals
    BY <1>3, MineOK DEF AskedInv
  <2>3. identity.lastActive \notin {None, CurrentId}
    BY <2>1 DEF Changed
  <2>4. flow[h].stage = "second" => flow[h].asked = {}
    BY <1>3, <2>2, <2>3 DEF AskedOK, At, ResolvedBefore
  <2>5. flow[h].stage = "first" =>
          \A p \in flow[h].asked : p[1] # identity.lastActive
    BY <1>3, <2>2 DEF AskedOK, Behind, At
  <2>6. flow[h].stage \in {"command", "named"} => flow[h].asked = {}
    BY <1>3, <2>2 DEF AskedOK, Unasked, At
  <2> QED
    BY <2>1, <2>2, <2>4, <2>5, <2>6 DEF Locals
<1> QED
  BY <1>1, <1>2, <1>3, IdentityInvariant, PTL DEF Spec, AskedOncePerChange
=============================================================================
