------------------------ MODULE RepoIdentityProofs -------------------------
(***************************************************************************)
(* The repository flows, the store and the API together: whatever the      *)
(* handlers, users, remotes and identities, the flows use the store as its *)
(* proofs allow, so what is proved of the store holds in the window, and   *)
(* nothing of one account reaches the next.                                *)
(***************************************************************************)
EXTENDS RepoIdentity, MetadataStoreProofs

RepoOrNone == RepoIds \cup {None}
Identities == [manual : RepoOrNone, sub : BOOLEAN, lastActive : RepoOrNone,
               stored : Remotes \cup {None}]
Locals ==
  [pc : PlaceNames, kind : {"none", "check", "command", "upload"},
   repo : RepoOrNone, old : RepoOrNone, to : RepoOrNone,
   file : Files \cup {None}, force : BOOLEAN, again : BOOLEAN,
   stage : {"first", "second", "command", "named"},
   hash : Hashes \cup {None}, asked : SUBSET (RepoIds \X RepoIds),
   seen : SUBSET RepoIds, files : SUBSET Files]
Calls ==
  [st : {"none", "asked", "counted", "checked", "copied", "done"},
   op : {"none", "exists", "createRepo", "migrate", "list", "createEnv",
         "update"},
   user : Users \cup {None}, repo : RepoOrNone, to : RepoOrNone,
   file : Files \cup {None}, files : SUBSET Files,
   res : {"none", "yes", "no", "ok", "refused", "missing", "failed"}]

(* Where a handler needs which of its locals.                              *)
Ends == {"new", "over"}
Awaits == {"moving", "clearing", "saving"}
HasRepo ==
  {"activate", "exists", "register", "creating", "list", "sync", "clear",
   "clearing", "saving", "put", "exists?", "creating?", "tracked?",
   "listing", "posting"}
Prompts == {"detect", "ask", "moving", "telling"}
HasChange == {"ask", "moving", "naming"}
HasFile == {"clear", "clearing", "put", "init", "exists?", "creating?",
            "tracked?", "listing", "posting"}

ReadyAt(l, pc) ==
  /\ pc \in HasRepo \/ (pc \in Prompts /\ l.stage = "first")
       => l.repo \in RepoIds
  /\ pc \in HasChange \cup {"clear"} => l.old \in RepoIds
  /\ pc \in HasChange => l.to \in RepoIds
  /\ pc \in HasFile => l.file \in Files
  /\ pc = "clear" \/ (pc = "clearing" /\ l.kind = "check")
       => l.hash \in Hashes
  /\ pc = "put" => l.kind = "upload"
  /\ pc = "naming" => l.stage = "named"
  /\ pc \in Ends => l.repo = None /\ l.old = None /\ l.to = None
Ready(l) == ReadyAt(l, l.pc)

FlowOK == flow \in [Handlers -> Locals] /\ \A h \in Handlers : Ready(flow[h])
CallOK == /\ call \in [Callers -> Calls]
          /\ \A c \in Callers : call[c].st # "none" => call[c].user \in Users
RowsOK == /\ owner \in [RepoIds -> Users \cup {None}]
          /\ rows \in [Ids -> Users \cup {None}]
WindowOK ==
  /\ user \in Users /\ scope \in Users /\ switching \in BOOLEAN
  /\ remote \in Remotes \cup {None}
  /\ identity \in Identities
  /\ skipped \subseteq RepoIds /\ overtaken \subseteq Handlers

Typed == FlowOK /\ CallOK /\ RowsOK /\ WindowOK

(* What belongs to the user in scope, as long as no handler of the user    *)
(* before went on.                                                         *)
Ours(r) == r \in RepoIds => Theirs(r)
LocalOurs(l) == Ours(l.repo) /\ Ours(l.old) /\ Ours(l.to)
MapOurs(m) == \A id \in Ids : m[id] # None => Theirs(id[1])
WriteOurs(w) == /\ w.op = "save" => Theirs(w.id[1])
                /\ w.op = "migrate" => Theirs(w.new)
AllOurs ==
  /\ Ours(identity.lastActive)
  /\ \A h \in Handlers : LocalOurs(flow[h])
  /\ MapOurs(stored) /\ MapOurs(disk)
  /\ \A i \in DOMAIN writeQueue : WriteOurs(writeQueue[i])

(* Who waits for a write is where a handler waits, or is the switch.       *)
WaitsInPlace ==
  /\ \A h \in Handlers : Waiting(h) => flow[h].pc \in Awaits
  /\ ~switching => ~Waiting(activation)

(* While a switch that overtook no handler is under way none runs, and the *)
(* clear it waits for is in the queue or done.                             *)
NoneRuns == \A h \in Handlers : flow[h].pc \in Ends
SwitchAlone ==
  /\ NoneRuns /\ identity = ClearedIdentity
  /\ \A i \in DOMAIN writeQueue : writeQueue[i].op = "clearAll"
  /\ writeQueue = <<>> => \A id \in Ids : stored[id] = None

IInv ==
  /\ StoreInv /\ Typed /\ WaitsInPlace
  /\ overtaken = {} => AllOurs /\ (switching => SwitchAlone)

-----------------------------------------------------------------------------
(* The identity is always hashed for the user in scope.                    *)
LEMMA IdentityTyped ==
  ASSUME WindowOK
  PROVE /\ CurrentId \in RepoIds /\ Theirs(CurrentId)
        /\ Remembered \in Identities
        /\ Remembered.lastActive = identity.lastActive
        /\ Changed => identity.lastActive \in RepoIds
<1>1. Source \in Sources
  BY IdentityAssumption DEF WindowOK, Identities, RepoOrNone, Source, Sources
<1>2. identity.sub \in BOOLEAN /\ scope \in Users
  BY DEF WindowOK, Identities
<1>3. <<scope, Source, identity.sub>> \in Users \X Sources \X BOOLEAN
  BY <1>1, <1>2
<1>4. CurrentId \in RepoIds
  BY <1>3, IdentityAssumption DEF CurrentId
<1>5. scope \in Scoped(CurrentId)
  BY <1>1, <1>2 DEF CurrentId, Scoped
<1>6. /\ Remembered \in Identities
      /\ Remembered.lastActive = identity.lastActive
  BY DEF Remembered, WindowOK, Identities
<1>7. Changed => identity.lastActive \in RepoIds
  BY DEF Changed, WindowOK, Identities, RepoOrNone
<1> QED
  BY <1>4, <1>5, <1>6, <1>7 DEF Theirs

(***************************************************************************)
(* What every step of a handler does.  Its own locals stay ready for where *)
(* it goes; those of others are left alone, but for history.               *)
(***************************************************************************)
Steps(h) ==
  /\ FlowOK'
  /\ overtaken = {} => LocalOurs(flow'[h])
  /\ \A g \in Handlers \ {h} :
       flow'[g] = flow[g] \/ flow'[g] = [flow[g] EXCEPT !.asked = {}]
Quiet(h) == /\ storeUnchanged \/ LookUp
            /\ flow[h].pc \in Awaits => ~Waiting(h)
Asks(h) == \E w \in Writes : /\ Request(w) /\ w.by = h
                             /\ flow'[h].pc \in Awaits
                             /\ overtaken = {} => WriteOurs(w)
Does(h) ==
  /\ Steps(h) /\ CallOK' /\ RowsOK' /\ WindowOK'
  /\ scope' = scope /\ switching' = switching
  /\ overtaken \subseteq overtaken'
  /\ overtaken = {} => Ours(identity'.lastActive)
  /\ switching /\ flow[h].pc \in Ends => overtaken' # {}
  /\ Quiet(h) \/ Asks(h)

LEMMA OneSteps ==
  ASSUME IInv, NEW h \in Handlers, NEW l \in Locals, Ready(l),
         overtaken = {} => LocalOurs(l), flow' = [flow EXCEPT ![h] = l]
  PROVE Steps(h) /\ flow'[h] = l
<1>1. FlowOK
  BY DEF IInv, Typed
<1>2. flow' \in [Handlers -> Locals] /\ flow'[h] = l
      /\ \A g \in Handlers \ {h} : flow'[g] = flow[g]
  BY <1>1 DEF FlowOK
<1> QED
  BY <1>1, <1>2 DEF FlowOK, Steps

LEMMA MineOK ==
  ASSUME IInv, NEW h \in Handlers
  PROVE /\ flow[h] \in Locals /\ Ready(flow[h])
        /\ overtaken = {} => LocalOurs(flow[h])
  BY DEF IInv, Typed, FlowOK, AllOurs

(* What the identity computes is the user's, and so is what it recorded.   *)
LEMMA IdentityOurs ==
  ASSUME IInv
  PROVE /\ WindowOK /\ CurrentId \in RepoIds /\ Ours(CurrentId)
        /\ Changed => identity.lastActive \in RepoIds
        /\ overtaken = {} => Ours(identity.lastActive)
  BY IdentityTyped DEF IInv, Typed, AllOurs, Ours

LEMMA OverOK == /\ Over \in Locals /\ Ready(Over) /\ LocalOurs(Over)
                /\ Over.pc = "over"
<1>1. New \in Locals
  BY DEF New, Locals, PlaceNames, RepoOrNone
<1>2. Over \in Locals
  BY <1>1 DEF Over, Locals, PlaceNames
<1>3. /\ Over.pc = "over" /\ Over.stage = "first"
      /\ Over.repo = None /\ Over.old = None /\ Over.to = None
  BY <1>1 DEF Over, New, Locals
<1>4. Ready(Over)
  BY <1>3 DEF Ready, ReadyAt, Ends, HasRepo, HasChange, HasFile, Prompts
<1>5. LocalOurs(Over)
  BY <1>3, IdentityAssumption DEF LocalOurs, Ours
<1> QED
  BY <1>2, <1>3, <1>4, <1>5

LEMMA GoSteps ==
  ASSUME IInv, NEW h \in Handlers, NEW pc \in PlaceNames, Go(h, pc),
         pc = "over" \/ ReadyAt(flow[h], pc)
  PROVE Steps(h) /\ flow'[h].pc = pc
<1>1. CASE pc = "over"
  BY <1>1, OverOK, OneSteps DEF Go, Placed
<1>2. CASE pc # "over"
  <2> DEFINE l == [flow[h] EXCEPT !.pc = pc]
  <2>1. flow[h] \in Locals /\ (overtaken = {} => LocalOurs(flow[h]))
    BY MineOK
  <2>2. /\ l \in Locals /\ l.pc = pc /\ l.repo = flow[h].repo
        /\ l.old = flow[h].old /\ l.to = flow[h].to /\ l.file = flow[h].file
        /\ l.hash = flow[h].hash /\ l.kind = flow[h].kind
        /\ l.stage = flow[h].stage
    BY <2>1 DEF Locals
  <2>3. flow' = [flow EXCEPT ![h] = l]
    BY <1>2 DEF Go, Placed
  <2> HIDE DEF l
  <2>4. Ready(l)
    BY <1>2, <2>2 DEF Ready, ReadyAt
  <2>5. overtaken = {} => LocalOurs(l)
    BY <2>1, <2>2 DEF LocalOurs
  <2> QED
    BY <2>2, <2>3, <2>4, <2>5, OneSteps
<1> QED
  BY <1>1, <1>2

(* Most steps are a handler's own: they change no more of the window than  *)
(* the remembered remote and the flags.                                    *)
OwnStep(h) ==
  /\ flow[h].pc \in Ends => ~switching
  /\ Restrained /\ identity' \in {identity, Remembered}
  /\ skipped' \subseteq RepoIds /\ UNCHANGED <<owner, rows>>

LEMMA OwnDoes ==
  ASSUME IInv, NEW h \in Handlers, OwnStep(h), Steps(h), CallOK',
         Quiet(h) \/ Asks(h)
  PROVE Does(h)
<1>1. WindowOK /\ RowsOK
  BY DEF IInv, Typed
<1>2. /\ identity' \in Identities
      /\ identity'.lastActive = identity.lastActive
  BY <1>1, IdentityTyped DEF OwnStep, WindowOK
<1>3. WindowOK' /\ RowsOK'
  BY <1>1, <1>2 DEF OwnStep, Restrained, Kept, WindowOK, RowsOK
<1>4. overtaken = {} => Ours(identity'.lastActive)
  BY <1>2 DEF IInv, AllOurs
<1> QED
  BY <1>3, <1>4 DEF Does, OwnStep, Restrained, Kept

(* Requests to the API are well formed.                                    *)
LEMMA SendOK ==
  ASSUME IInv, NEW h \in Handlers, NEW request \in Calls,
         request.user \in Users, Send(h, request)
  PROVE CallOK' /\ UNCHANGED <<owner, rows>>
  BY IdentityAssumption DEF IInv, Typed, CallOK, Send

LEMMA TakeOK ==
  ASSUME IInv, NEW h \in Handlers, Take(h)
  PROVE CallOK' /\ UNCHANGED <<owner, rows>>
<1>1. NoCall \in Calls /\ NoCall.st = "none"
  BY DEF NoCall, Calls, RepoOrNone
<1> QED
  BY <1>1, IdentityAssumption DEF IInv, Typed, CallOK, Take

LEMMA SameCallOK ==
  ASSUME IInv, apiUnchanged
  PROVE CallOK' /\ UNCHANGED <<owner, rows>>
  BY DEF IInv, Typed, CallOK, apiUnchanged, apiVars

LEMMA AskingOK ==
  ASSUME NEW op \in {"exists", "createRepo", "migrate", "list", "createEnv",
                     "update"}, NEW u \in Users, NEW r \in RepoIds
  PROVE Asking(op, u, r) \in Calls /\ Asking(op, u, r).user = u
<1>1. NoCall \in Calls
  BY DEF NoCall, Calls, RepoOrNone
<1> QED
  BY <1>1 DEF Asking, Calls, RepoOrNone

LEMMA GoDoes ==
  ASSUME IInv, NEW h \in Handlers, NEW pc \in PlaceNames, Go(h, pc),
         pc = "over" \/ ReadyAt(flow[h], pc), OwnStep(h), CallOK',
         Quiet(h) \/ Asks(h)
  PROVE Does(h)
BY GoSteps, OwnDoes

(* The prompt is over, and what it was about forgotten.                    *)
LEMMA DecidedSteps ==
  ASSUME IInv, NEW h \in Handlers, flow[h].pc \in Prompts,
         Decided(h)
  PROVE Steps(h)
<1> DEFINE l == [flow[h] EXCEPT !.old = None, !.to = None, !.pc = "activate"]
<1>1. /\ flow[h] \in Locals /\ Ready(flow[h])
      /\ overtaken = {} => LocalOurs(flow[h])
  BY MineOK
<1>2. CASE AfterPrompt(h) = "over"
  BY <1>2, OverOK, OneSteps DEF Decided, Placed
<1>3. CASE AfterPrompt(h) = "activate"
  <2>1. flow[h].stage = "first" /\ flow[h].repo \in RepoIds
    BY <1>1, <1>3 DEF AfterPrompt, Ready, ReadyAt
  <2>2. /\ l \in Locals /\ l.pc = "activate" /\ l.repo = flow[h].repo
        /\ l.old = None /\ l.to = None
    BY <1>1 DEF Locals, PlaceNames, RepoOrNone
  <2>3. flow' = [flow EXCEPT ![h] = l]
    BY <1>1, <1>3 DEF Decided, Placed, Unprompted, Locals
  <2> HIDE DEF l
  <2>4. Ready(l)
    BY <2>1, <2>2 DEF Ready, ReadyAt, Ends, HasRepo, HasFile, HasChange, Prompts
  <2>5. overtaken = {} => LocalOurs(l)
    BY <1>1, <2>2, IdentityAssumption DEF LocalOurs, Ours
  <2> QED
    BY <2>2, <2>3, <2>4, <2>5, OneSteps
<1> QED
  BY <1>2, <1>3 DEF AfterPrompt

(* An id becomes the last active one, and the others forget.               *)
LEMMA ForgetSteps ==
  ASSUME IInv, NEW h \in Handlers, NEW pc \in PlaceNames,
         ReadyAt(flow[h], pc), flow' = [OthersForget(h) EXCEPT ![h].pc = pc]
  PROVE Steps(h)
<1>1. /\ flow \in [Handlers -> Locals] /\ \A g \in Handlers : Ready(flow[g])
      /\ overtaken = {} => LocalOurs(flow[h])
  BY MineOK DEF IInv, Typed, FlowOK
<1>2. flow'[h] = [flow[h] EXCEPT !.pc = pc]
      /\ \A g \in Handlers \ {h} : flow'[g] = [flow[g] EXCEPT !.asked = {}]
  BY <1>1 DEF OthersForget
<1>3. ASSUME NEW g \in Handlers \ {h}
      PROVE flow'[g] \in Locals /\ Ready(flow'[g])
  <2> DEFINE l == [flow[g] EXCEPT !.asked = {}]
  <2>1. /\ l \in Locals /\ l.pc = flow[g].pc /\ l.repo = flow[g].repo
        /\ l.old = flow[g].old /\ l.to = flow[g].to /\ l.file = flow[g].file
        /\ l.hash = flow[g].hash /\ l.kind = flow[g].kind
        /\ l.stage = flow[g].stage
    BY <1>1 DEF Locals
  <2> HIDE DEF l
  <2>2. Ready(l)
    BY <1>1, <2>1 DEF Ready, ReadyAt
  <2> QED
    BY <1>2, <2>1, <2>2 DEF l
<1>4. /\ flow'[h] \in Locals /\ Ready(flow'[h])
      /\ overtaken = {} => LocalOurs(flow'[h])
  <2> DEFINE l == [flow[h] EXCEPT !.pc = pc]
  <2>1. /\ l \in Locals /\ l.pc = pc /\ l.repo = flow[h].repo
        /\ l.old = flow[h].old /\ l.to = flow[h].to /\ l.file = flow[h].file
        /\ l.hash = flow[h].hash /\ l.kind = flow[h].kind
        /\ l.stage = flow[h].stage
    BY <1>1 DEF Locals
  <2> HIDE DEF l
  <2>2. Ready(l) /\ (overtaken = {} => LocalOurs(l))
    BY <1>1, <2>1 DEF Ready, ReadyAt, LocalOurs
  <2> QED
    BY <1>2, <2>1, <2>2 DEF l
<1>5. DOMAIN flow' = Handlers /\ flow' = [g \in Handlers |-> flow'[g]]
  BY <1>1 DEF OthersForget
<1> QED
  BY <1>2, <1>3, <1>4, <1>5 DEF Steps, FlowOK

-----------------------------------------------------------------------------
(* The migration prompt and what follows.                                  *)
LEMMA DetectDoes ==
  ASSUME IInv, NEW h \in Handlers, Detect(h)
  PROVE Does(h)
<1> DEFINE l == [flow[h] EXCEPT !.pc = "ask", !.old = identity.lastActive,
                     !.to = CurrentId,
                     !.asked = @ \cup {<<identity.lastActive, CurrentId>>}]
           pc == AfterPrompt(h)
<1>1. /\ flow[h].pc = "detect" /\ flow[h] \in Locals /\ Ready(flow[h])
      /\ overtaken = {} => LocalOurs(flow[h])
  BY MineOK DEF Detect, At
<1>2. OwnStep(h) /\ Quiet(h) /\ CallOK'
  BY <1>1, SameCallOK, IdentityOurs
  DEF Detect, OwnStep, Quiet, Ends, Awaits, WindowOK
<1>3. CASE Changed
  <2>1. CurrentId \in RepoIds /\ identity.lastActive \in RepoIds
    BY <1>3, IdentityOurs
  <2> DEFINE a == flow[h].asked \cup {<<identity.lastActive, CurrentId>>}
  <2>2. a \in SUBSET (RepoIds \X RepoIds)
    BY <1>1, <2>1 DEF Locals
  <2>3. l = [flow[h] EXCEPT !.pc = "ask", !.old = identity.lastActive,
                     !.to = CurrentId, !.asked = a]
    OBVIOUS
  <2>4. l \in Locals
    <3> HIDE DEF a, l
    <3> QED BY <1>1, <2>1, <2>2, <2>3 DEF Locals, RepoOrNone, PlaceNames
  <2>5. /\ l.pc = "ask" /\ l.old = identity.lastActive /\ l.to = CurrentId
        /\ l.repo = flow[h].repo /\ l.stage = flow[h].stage
    BY <1>1 DEF Locals
  <2>6. Ready(l)
    BY <1>1, <2>1, <2>5
    DEF Ready, ReadyAt, Ends, HasRepo, HasFile, HasChange, Prompts
  <2>7. overtaken = {} => LocalOurs(l)
    BY <1>1, <2>5, IdentityOurs DEF LocalOurs
  <2>8. flow' = [flow EXCEPT ![h] = l]
    BY <1>3 DEF Detect
  <2>9. Steps(h)
    <3> HIDE DEF l
    <3> QED BY <2>4, <2>6, <2>7, <2>8, OneSteps
  <2> QED
    BY <1>2, <2>9, OwnDoes
<1>4. CASE ~Changed
  <2>1. pc \in PlaceNames /\ (pc = "over" \/ ReadyAt(flow[h], pc))
    BY <1>1 DEF AfterPrompt, PlaceNames, Ready, ReadyAt, Ends, HasRepo,
                HasFile, HasChange, Prompts
  <2>2. Go(h, pc)
    BY <1>4 DEF Detect, Go
  <2> QED
    BY <1>2, <2>1, <2>2, GoDoes
<1> QED
  BY <1>3, <1>4

(* What a handler may ask the store for.                                   *)
LEMMA WriteKinds ==
  ASSUME NEW h \in Handlers
  PROVE /\ \A o, n \in RepoIds : /\ MigrateOf(h, o, n) \in Writes
                                 /\ MigrateOf(h, o, n).op = "migrate"
                                 /\ MigrateOf(h, o, n).by = h
                                 /\ MigrateOf(h, o, n).new = n
        /\ \A id \in Ids : /\ ClearOf(h, id) \in Writes
                           /\ ClearOf(h, id).op = "clear"
                           /\ ClearOf(h, id).by = h
        /\ \A id \in Ids, x \in Hashes : /\ SaveOf(h, id, x) \in Writes
                                         /\ SaveOf(h, id, x).op = "save"
                                         /\ SaveOf(h, id, x).by = h
                                         /\ SaveOf(h, id, x).id = id
<1>1. h \in Callers
  BY IdentityAssumption
<1> QED
  BY <1>1 DEF MigrateOf, ClearOf, SaveOf, Writes, Migrates, Clears, Saves

LEMMA ChooseMigrateDoes ==
  ASSUME IInv, NEW h \in Handlers, ChooseMigrate(h)
  PROVE Does(h)
<1> DEFINE w == MigrateOf(h, flow[h].old, flow[h].to)
<1>1. /\ flow[h].pc = "ask" /\ Ready(flow[h]) /\ Go(h, "moving")
      /\ Request(w) /\ (overtaken = {} => LocalOurs(flow[h]))
  BY MineOK DEF ChooseMigrate, At
<1>2. flow[h].old \in RepoIds /\ flow[h].to \in RepoIds
  BY <1>1 DEF Ready, ReadyAt, HasChange
<1>3. "moving" \in PlaceNames /\ ReadyAt(flow[h], "moving")
  BY <1>1 DEF PlaceNames, Ready, ReadyAt, Ends, HasRepo, HasFile, HasChange,
              Prompts
<1>4. flow'[h].pc = "moving"
  BY <1>1, <1>3, GoSteps
<1>5. Asks(h)
  BY <1>1, <1>2, <1>4, WriteKinds DEF Asks, Awaits, WriteOurs, LocalOurs, Ours
<1>6. OwnStep(h) /\ CallOK'
  BY <1>1, SameCallOK, IdentityOurs
  DEF ChooseMigrate, OnlyFlow, OwnStep, Ends, WindowOK
<1> QED
  BY <1>1, <1>3, <1>5, <1>6, GoDoes

LEMMA ChooseLaterDoes ==
  ASSUME IInv, NEW h \in Handlers, ChooseLater(h)
  PROVE Does(h)
<1>1. flow[h].pc = "ask" /\ Decided(h)
  BY DEF ChooseLater, At
<1>2. OwnStep(h) /\ CallOK' /\ Quiet(h)
  BY <1>1, SameCallOK, IdentityOurs
  DEF ChooseLater, OnlyFlow, OwnStep, Ends, Awaits, WindowOK, Quiet
<1> QED
  BY <1>1, <1>2, DecidedSteps, OwnDoes DEF Prompts

LEMMA ChooseKeepDoes ==
  ASSUME IInv, NEW h \in Handlers, ChooseKeep(h)
  PROVE Does(h)
<1>1. flow[h].pc = "ask" /\ Decided(h) /\ flow[h].old \in RepoIds
  BY MineOK DEF ChooseKeep, At, Ready, ReadyAt, HasChange
<1>2. /\ identity' \in Identities
      /\ identity'.lastActive = identity.lastActive
  BY <1>1, IdentityOurs DEF ChooseKeep, WindowOK, Identities, RepoOrNone
<1>3. CallOK' /\ Quiet(h) /\ WindowOK' /\ RowsOK'
  BY <1>1, <1>2, SameCallOK, IdentityOurs
  DEF ChooseKeep, Restrained, Kept, Awaits, WindowOK, Quiet, RowsOK, IInv,
      Typed
<1>4. Steps(h)
  BY <1>1, DecidedSteps DEF Prompts
<1> QED
  BY <1>1, <1>2, <1>3, <1>4, IdentityOurs
  DEF Does, ChooseKeep, Restrained, Kept, Ends

(* The new id becomes the last active one: by a migration, by a check.     *)
LEMMA MovedDoes ==
  ASSUME IInv, NEW h \in Handlers, Moved(h)
  PROVE Does(h)
<1> DEFINE asked == Asking("migrate", user, flow[h].old)
           request == [asked EXCEPT !.to = flow[h].to]
<1>1. /\ flow[h].pc = "moving" /\ Ready(flow[h])
      /\ overtaken = {} => LocalOurs(flow[h])
  BY MineOK DEF Moved, At
<1>2. flow[h].old \in RepoIds /\ flow[h].to \in RepoIds
  BY <1>1 DEF Ready, ReadyAt, HasChange
<1>3. /\ identity' \in Identities /\ identity'.lastActive = flow[h].to
  BY <1>2, IdentityOurs
  DEF Moved, LastActiveMoved, WindowOK, Identities, RepoOrNone
<1>4. "telling" \in PlaceNames /\ ReadyAt(flow[h], "telling")
  BY <1>1 DEF PlaceNames, Ready, ReadyAt, Ends, HasRepo, HasFile, HasChange,
              Prompts
<1>5. Steps(h)
  BY <1>4, ForgetSteps DEF Moved
<1>6. asked \in Calls /\ asked.user = user /\ user \in Users
  BY <1>2, AskingOK, IdentityOurs DEF WindowOK
<1>7. CallOK' /\ UNCHANGED <<owner, rows>>
  <2>1. request \in Calls /\ request.user \in Users
    <3> HIDE DEF asked
    <3> QED BY <1>2, <1>6 DEF Calls, RepoOrNone
  <2> QED
    BY <2>1, SendOK DEF Moved
<1>8. Quiet(h) /\ WindowOK' /\ RowsOK'
  BY <1>1, <1>3, <1>7, IdentityOurs
  DEF Moved, Restrained, Kept, WindowOK, Quiet, RowsOK, IInv, Typed
<1> QED
  BY <1>1, <1>3, <1>5, <1>7, <1>8
  DEF Does, Moved, Restrained, Kept, Ends, LocalOurs

LEMMA ActivateDoes ==
  ASSUME IInv, NEW h \in Handlers, Activate(h)
  PROVE Does(h)
<1>1. /\ flow[h].pc = "activate" /\ Ready(flow[h])
      /\ overtaken = {} => LocalOurs(flow[h])
  BY MineOK DEF Activate, At
<1>2. flow[h].repo \in RepoIds
  BY <1>1 DEF Ready, ReadyAt, HasRepo
<1>3. identity' \in Identities /\ identity'.lastActive = flow[h].repo
  BY <1>2, IdentityOurs DEF Activate, WindowOK, Identities, RepoOrNone
<1>4. "exists" \in PlaceNames /\ ReadyAt(flow[h], "exists")
  BY <1>1, <1>2 DEF PlaceNames, Ready, ReadyAt, Ends, HasRepo, HasFile,
                    HasChange, Prompts
<1>5. Steps(h)
  BY <1>4, ForgetSteps DEF Activate
<1>6. CallOK' /\ UNCHANGED <<owner, rows>>
  BY <1>2, AskingOK, SendOK, IdentityOurs DEF Activate, WindowOK
<1>7. Quiet(h) /\ WindowOK' /\ RowsOK'
  BY <1>1, <1>3, <1>6, IdentityOurs
  DEF Activate, Restrained, Kept, WindowOK, Quiet, RowsOK, IInv, Typed, Awaits
<1> QED
  BY <1>1, <1>3, <1>5, <1>6, <1>7
  DEF Does, Activate, Restrained, Kept, Ends, LocalOurs

LEMMA ToldDoes ==
  ASSUME IInv, NEW h \in Handlers, Told(h)
  PROVE Does(h)
<1> DEFINE l == [flow[h] EXCEPT !.old = None, !.to = None, !.pc = "resolve",
                                !.again = TRUE]
           again == flow[h].stage = "first" /\ ~flow[h].again
<1>1. /\ flow[h].pc = "telling" /\ flow[h] \in Locals /\ Ready(flow[h])
      /\ overtaken = {} => LocalOurs(flow[h])
  BY MineOK DEF Told, At
<1>2. OwnStep(h) /\ Quiet(h) /\ CallOK'
  BY <1>1, TakeOK, IdentityOurs
  DEF Told, OnlyFlow, OwnStep, Ends, Awaits, WindowOK, Quiet
<1>3. CASE again
  <2>1. /\ l \in Locals /\ l.pc = "resolve" /\ l.repo = flow[h].repo
        /\ l.old = None /\ l.to = None
    BY <1>1 DEF Locals, PlaceNames, RepoOrNone
  <2>2. flow' = [flow EXCEPT ![h] = l]
    BY <1>1, <1>3 DEF Told, Unprompted, Locals
  <2> HIDE DEF l
  <2>3. Ready(l)
    BY <2>1 DEF Ready, ReadyAt, Ends, HasRepo, HasFile, HasChange, Prompts
  <2>4. overtaken = {} => LocalOurs(l)
    BY <1>1, <2>1, IdentityAssumption DEF LocalOurs, Ours
  <2> QED
    BY <1>2, <2>1, <2>2, <2>3, <2>4, OneSteps, OwnDoes
<1>4. CASE ~again
  <2>1. Decided(h)
    BY <1>4 DEF Told, Decided
  <2> QED
    BY <1>1, <1>2, <2>1, DecidedSteps, OwnDoes DEF Prompts
<1> QED
  BY <1>3, <1>4

-----------------------------------------------------------------------------
(* performInitialCheck.                                                    *)
LEMMA CheckStartsDoes ==
  ASSUME IInv, NEW h \in Handlers, NEW force \in BOOLEAN,
         CheckStarts(h, force)
  PROVE Does(h)
<1> DEFINE l == [flow[h] EXCEPT !.pc = "resolve", !.kind = "check",
                                !.force = force]
<1>1. /\ flow[h].pc = "new" /\ flow[h] \in Locals
      /\ overtaken = {} => LocalOurs(flow[h])
  BY MineOK DEF CheckStarts, At
<1>2. OwnStep(h) /\ Quiet(h) /\ CallOK'
  BY <1>1, SameCallOK, IdentityOurs
  DEF CheckStarts, OnlyFlow, OwnStep, Awaits, WindowOK, Quiet
<1>3. /\ l \in Locals /\ l.pc = "resolve" /\ l.repo = flow[h].repo
      /\ l.old = flow[h].old /\ l.to = flow[h].to
  BY <1>1 DEF Locals, PlaceNames
<1>4. flow' = [flow EXCEPT ![h] = l]
  BY <1>1 DEF CheckStarts
<1> HIDE DEF l
<1>5. Ready(l) /\ (overtaken = {} => LocalOurs(l))
  BY <1>1, <1>3 DEF Ready, ReadyAt, Ends, HasRepo, HasFile, HasChange,
                    Prompts, LocalOurs
<1> QED
  BY <1>2, <1>3, <1>4, <1>5, OneSteps, OwnDoes

LEMMA ResolveDoes ==
  ASSUME IInv, NEW h \in Handlers, Resolve(h)
  PROVE Does(h)
<1> DEFINE pc == IF Changed THEN "detect" ELSE "activate"
           l == [flow[h] EXCEPT !.repo = CurrentId, !.pc = pc]
<1>1. /\ flow[h].pc = "resolve" /\ flow[h] \in Locals
      /\ overtaken = {} => LocalOurs(flow[h])
  BY MineOK DEF Resolve, At
<1>2. OwnStep(h) /\ Quiet(h) /\ CallOK'
  BY <1>1, SameCallOK, IdentityOurs
  DEF Resolve, OwnStep, Ends, Awaits, WindowOK, Quiet
<1>3. CurrentId \in RepoIds /\ Ours(CurrentId)
  BY IdentityOurs
<1>4. pc \in {"detect", "activate"}
  OBVIOUS
<1>5. flow' = [flow EXCEPT ![h] = l]
  BY <1>1 DEF Resolve
<1> HIDE DEF pc
<1>6. /\ l \in Locals /\ l.pc = pc /\ l.repo = CurrentId
      /\ l.old = flow[h].old /\ l.to = flow[h].to
  BY <1>1, <1>3, <1>4 DEF Locals, PlaceNames, RepoOrNone
<1> HIDE DEF l
<1>7. Ready(l) /\ (overtaken = {} => LocalOurs(l))
  BY <1>1, <1>3, <1>4, <1>6 DEF Ready, ReadyAt, Ends, HasRepo, HasFile,
                                HasChange, Prompts, LocalOurs
<1> QED
  BY <1>2, <1>5, <1>6, <1>7, OneSteps, OwnDoes

LEMMA ExistenceDoes ==
  ASSUME IInv, NEW h \in Handlers, Existence(h)
  PROVE Does(h)
<1> DEFINE l == [flow[h] EXCEPT !.pc = "register", !.seen = skipped]
<1>1. /\ flow[h].pc = "exists" /\ flow[h] \in Locals /\ Ready(flow[h])
      /\ flow[h].repo \in RepoIds
      /\ overtaken = {} => LocalOurs(flow[h])
  BY MineOK DEF Existence, At, Ready, ReadyAt, HasRepo
<1>2. Quiet(h)
  BY <1>1 DEF Existence, Awaits, Quiet
<1>3. CallOK' /\ UNCHANGED <<owner, rows>>
  BY <1>1, AskingOK, SendOK, TakeOK, IdentityOurs
  DEF Existence, ListNext, WindowOK
<1>4. OwnStep(h)
  BY <1>1, <1>3, IdentityOurs DEF Existence, OnlyFlow, OwnStep, Ends, WindowOK
<1>5. CASE Go(h, "list") \/ Go(h, "over")
  <2>1. /\ "list" \in PlaceNames /\ "over" \in PlaceNames
        /\ ReadyAt(flow[h], "list")
    BY <1>1 DEF PlaceNames, ReadyAt, Ends, HasRepo, HasFile, HasChange,
                Prompts
  <2> QED
    BY <1>2, <1>3, <1>4, <1>5, <2>1, GoDoes
<1>6. CASE flow' = [flow EXCEPT ![h].pc = "register", ![h].seen = skipped]
  <2>1. /\ l \in Locals /\ l.pc = "register" /\ l.repo = flow[h].repo
        /\ l.old = flow[h].old /\ l.to = flow[h].to
    BY <1>1, IdentityOurs DEF Locals, PlaceNames, WindowOK
  <2>2. flow' = [flow EXCEPT ![h] = l]
    BY <1>1, <1>6
  <2> HIDE DEF l
  <2>3. Ready(l) /\ (overtaken = {} => LocalOurs(l))
    BY <1>1, <2>1 DEF Ready, ReadyAt, Ends, HasRepo, HasFile, HasChange,
                      Prompts, LocalOurs
  <2> QED
    BY <1>2, <1>3, <1>4, <2>1, <2>2, <2>3, OneSteps, OwnDoes
<1> QED
  BY <1>5, <1>6 DEF Existence

LEMMA RegisterPromptDoes ==
  ASSUME IInv, NEW h \in Handlers,
         Decline(h) \/ LeaveUnnamed(h) \/ Register(h)
  PROVE Does(h)
<1>1. /\ flow[h].pc = "register" /\ flow[h].repo \in RepoIds
      /\ Ready(flow[h]) /\ flow[h].seen \subseteq RepoIds
  BY MineOK
  DEF Decline, LeaveUnnamed, Register, At, Ready, ReadyAt, HasRepo, Locals
<1>2. Quiet(h)
  BY <1>1 DEF Decline, LeaveUnnamed, Register, Awaits, Quiet
<1>3. CallOK' /\ UNCHANGED <<owner, rows>>
  BY <1>1, AskingOK, SendOK, SameCallOK, IdentityOurs
  DEF Decline, LeaveUnnamed, Register, WindowOK
<1>4. OwnStep(h)
  BY <1>1, <1>3, IdentityOurs
  DEF Decline, LeaveUnnamed, Register, OnlyFlow, OwnStep, Ends, WindowOK
<1>5. /\ "creating" \in PlaceNames /\ "over" \in PlaceNames
      /\ ReadyAt(flow[h], "creating")
  BY <1>1 DEF PlaceNames, ReadyAt, Ends, HasRepo, HasFile, HasChange, Prompts
<1> QED
  BY <1>2, <1>3, <1>4, <1>5, GoDoes DEF Decline, LeaveUnnamed, Register

LEMMA RegisteredDoes ==
  ASSUME IInv, NEW h \in Handlers, Registered(h)
  PROVE Does(h)
<1> DEFINE l == [flow[h] EXCEPT !.pc = "list", !.seen = {}]
<1>1. /\ flow[h].pc = "creating" /\ flow[h] \in Locals /\ Ready(flow[h])
      /\ flow[h].repo \in RepoIds
      /\ overtaken = {} => LocalOurs(flow[h])
  BY MineOK DEF Registered, At, Ready, ReadyAt, HasRepo
<1>2. Quiet(h)
  BY <1>1 DEF Registered, Awaits, Quiet
<1>3. CallOK' /\ UNCHANGED <<owner, rows>>
  BY <1>1, AskingOK, SendOK, TakeOK, IdentityOurs
  DEF Registered, ListNext, WindowOK
<1>4. OwnStep(h)
  BY <1>1, <1>3, IdentityOurs DEF Registered, OwnStep, Ends, WindowOK
<1>5. CASE call[h].res # "ok"
  BY <1>2, <1>3, <1>4, <1>5, GoDoes DEF Registered, PlaceNames
<1>6. CASE call[h].res = "ok"
  <2>1. /\ l \in Locals /\ l.pc = "list" /\ l.repo = flow[h].repo
        /\ l.old = flow[h].old /\ l.to = flow[h].to
    BY <1>1 DEF Locals, PlaceNames
  <2>2. flow' = [flow EXCEPT ![h] = l]
    BY <1>1, <1>6 DEF Registered
  <2> HIDE DEF l
  <2>3. Ready(l) /\ (overtaken = {} => LocalOurs(l))
    BY <1>1, <2>1 DEF Ready, ReadyAt, Ends, HasRepo, HasFile, HasChange,
                      Prompts, LocalOurs
  <2> QED
    BY <1>2, <1>3, <1>4, <2>1, <2>2, <2>3, OneSteps, OwnDoes
<1> QED
  BY <1>5, <1>6

LEMMA ListedDoes ==
  ASSUME IInv, NEW h \in Handlers, Listed(h)
  PROVE Does(h)
<1> DEFINE files == IF call[h].res = "ok" THEN call[h].files ELSE {}
           l == [flow[h] EXCEPT !.pc = "sync", !.files = files]
<1>1. /\ flow[h].pc = "list" /\ flow[h] \in Locals /\ Ready(flow[h])
      /\ flow[h].repo \in RepoIds
      /\ overtaken = {} => LocalOurs(flow[h])
  BY MineOK DEF Listed, At, Ready, ReadyAt, HasRepo
<1>2. files \in SUBSET Files
  BY IdentityAssumption DEF IInv, Typed, CallOK, Calls
<1>3. CallOK' /\ Quiet(h) /\ OwnStep(h)
  BY <1>1, TakeOK, IdentityOurs
  DEF Listed, Awaits, Quiet, OnlyFlow, OwnStep, Ends, WindowOK
<1>4. flow' = [flow EXCEPT ![h] = l]
  BY <1>1 DEF Listed
<1> HIDE DEF files
<1>5. /\ l \in Locals /\ l.pc = "sync" /\ l.repo = flow[h].repo
      /\ l.old = flow[h].old /\ l.to = flow[h].to
  BY <1>1, <1>2 DEF Locals, PlaceNames
<1> HIDE DEF l
<1>6. Ready(l) /\ (overtaken = {} => LocalOurs(l))
  BY <1>1, <1>5 DEF Ready, ReadyAt, Ends, HasRepo, HasFile, HasChange,
                    Prompts, LocalOurs
<1> QED
  BY <1>3, <1>4, <1>5, <1>6, OneSteps, OwnDoes

(* Metadata that is found has an id of the user's, and a hash.             *)
LEMMA ExistingOK ==
  ASSUME IInv, NEW repo \in RepoIds, NEW f \in Files,
         Reads(repo, f) \/ LookUp, Existing(repo, f) # None
  PROVE /\ Existing(repo, f) \in Ids
        /\ stored[Existing(repo, f)] \in Hashes
        /\ overtaken = {} => Theirs(Existing(repo, f)[1])
<1>1. StoreTypeOK
  BY DEF IInv, StoreInv
<1>2. CASE stored[computeEnvId(repo, f)] # None
  <2>1. computeEnvId(repo, f) \in Ids
    BY DEF computeEnvId, Ids
  <2> QED
    BY <1>1, <1>2, <2>1 DEF Existing, StoreTypeOK, Maps, IInv, AllOurs, MapOurs
<1>3. CASE stored[computeEnvId(repo, f)] = None
  <2>1. LookUp
    BY <1>3 DEF Reads
  <2>2. fileNameIndex' \in Indexes
    BY <1>1, <2>1, LookUpType
  <2>3. /\ Existing(repo, f) = fileNameIndex'[f]
        /\ fileNameIndex'[f] \in Ids /\ stored[fileNameIndex'[f]] # None
    BY <1>3, <2>2 DEF Existing, Found, Indexes
  <2> QED
    BY <1>1, <2>3 DEF StoreTypeOK, Maps, IInv, AllOurs, MapOurs
<1> QED
  BY <1>2, <1>3

LEMMA AdoptDoes ==
  ASSUME IInv, NEW h \in Handlers, NEW f \in Files, Adopt(h, f)
  PROVE Does(h)
<1> DEFINE id == Existing(CurrentId, f)
           repo == flow[h].repo
           left == flow[h].files \ {f}
           rest == [flow[h] EXCEPT !.files = left]
           l == [flow[h] EXCEPT !.pc = "clear", !.old = id[1], !.file = f,
                                !.hash = stored[id]]
           known == id \in {None, computeEnvId(repo, f)}
<1>1. /\ flow[h].pc = "sync" /\ flow[h] \in Locals /\ Ready(flow[h])
      /\ repo \in RepoIds /\ left \in SUBSET Files
      /\ overtaken = {} => LocalOurs(flow[h])
  BY MineOK DEF Adopt, At, Ready, ReadyAt, HasRepo, Locals
<1>2. CallOK' /\ Quiet(h) /\ OwnStep(h)
  BY <1>1, SameCallOK, IdentityOurs
  DEF Adopt, Reads, Awaits, Quiet, OwnStep, Ends, WindowOK
<1>3. CASE known
  <2>1. flow' = [flow EXCEPT ![h] = rest]
    BY <1>1, <1>3 DEF Adopt
  <2> HIDE DEF left
  <2>2. /\ rest \in Locals /\ rest.pc = "sync" /\ rest.repo = repo
        /\ rest.old = flow[h].old /\ rest.to = flow[h].to
    BY <1>1 DEF Locals, PlaceNames
  <2> HIDE DEF rest
  <2>3. Ready(rest) /\ (overtaken = {} => LocalOurs(rest))
    BY <1>1, <2>2 DEF Ready, ReadyAt, Ends, HasRepo, HasFile, HasChange,
                      Prompts, LocalOurs
  <2> QED
    BY <1>2, <2>1, <2>2, <2>3, OneSteps, OwnDoes
<1>4. CASE ~known
  <2>1. /\ id \in Ids /\ stored[id] \in Hashes
        /\ overtaken = {} => Theirs(id[1])
    BY <1>4, IdentityOurs, ExistingOK DEF Adopt
  <2>2. id[1] \in RepoIds
    BY <2>1 DEF Ids
  <2>3. flow' = [flow EXCEPT ![h] = l]
    BY <1>1, <1>4 DEF Adopt
  <2> HIDE DEF id, known
  <2>4. /\ l \in Locals /\ l.pc = "clear" /\ l.repo = repo
        /\ l.old = id[1] /\ l.to = flow[h].to /\ l.file = f
        /\ l.hash = stored[id]
    BY <1>1, <2>1, <2>2 DEF Locals, PlaceNames, RepoOrNone
  <2> HIDE DEF l
  <2>5. Ready(l) /\ (overtaken = {} => LocalOurs(l))
    BY <1>1, <2>1, <2>2, <2>4
    DEF Ready, ReadyAt, Ends, HasRepo, HasFile, HasChange, Prompts,
        LocalOurs, Ours
  <2> QED
    BY <1>2, <2>3, <2>4, <2>5, OneSteps, OwnDoes
<1> QED
  BY <1>3, <1>4

LEMMA AdoptClearsDoes ==
  ASSUME IInv, NEW h \in Handlers, AdoptClears(h)
  PROVE Does(h)
<1> DEFINE id == computeEnvId(flow[h].old, flow[h].file)
<1>1. flow[h].pc = "clear" /\ Ready(flow[h])
  BY MineOK DEF AdoptClears, At
<1>2. id \in Ids
  BY <1>1 DEF Ready, ReadyAt, HasFile, computeEnvId, Ids
<1>3. "clearing" \in PlaceNames /\ ReadyAt(flow[h], "clearing")
  BY <1>1 DEF PlaceNames, Ready, ReadyAt, Ends, HasRepo, HasFile, HasChange,
              Prompts
<1>4. Go(h, "clearing") /\ flow'[h].pc = "clearing"
  BY <1>3, GoSteps DEF AdoptClears
<1> HIDE DEF id
<1>5. Asks(h)
  BY <1>2, <1>4, WriteKinds DEF AdoptClears, Asks, Awaits, WriteOurs, id
<1>6. OwnStep(h) /\ CallOK'
  BY <1>1, SameCallOK, IdentityOurs
  DEF AdoptClears, OnlyFlow, OwnStep, Ends, WindowOK
<1> QED
  BY <1>3, <1>4, <1>5, <1>6, GoDoes

LEMMA AdoptSavesDoes ==
  ASSUME IInv, NEW h \in Handlers, AdoptSaves(h)
  PROVE Does(h)
<1> DEFINE id == computeEnvId(flow[h].repo, flow[h].file)
           left == flow[h].files \ {flow[h].file}
           u == Unprompted(flow[h])
           l == [u EXCEPT !.pc = "saving", !.files = left, !.file = None,
                          !.hash = None]
<1>1. /\ flow[h].pc = "clearing" /\ flow[h].kind = "check"
      /\ flow[h] \in Locals /\ Ready(flow[h])
      /\ overtaken = {} => LocalOurs(flow[h])
  BY MineOK DEF AdoptSaves, At
<1>2. /\ flow[h].repo \in RepoIds /\ flow[h].file \in Files
      /\ flow[h].hash \in Hashes /\ left \in SUBSET Files
  BY <1>1 DEF Ready, ReadyAt, HasRepo, HasFile, Locals
<1>3. id \in Ids /\ id[1] = flow[h].repo
  BY <1>2 DEF computeEnvId, Ids
<1>4. /\ u \in Locals /\ u.repo = flow[h].repo /\ u.files = flow[h].files
      /\ u.old = None /\ u.to = None
  BY <1>1 DEF Unprompted, Locals, RepoOrNone
<1>5. flow' = [flow EXCEPT ![h] = l]
  BY <1>1 DEF AdoptSaves
<1> HIDE DEF left, u
<1>6. /\ l \in Locals /\ l.pc = "saving" /\ l.repo = flow[h].repo
      /\ l.old = None /\ l.to = None
  BY <1>4, <1>2 DEF Locals, PlaceNames
<1> HIDE DEF l, id
<1>7. Ready(l) /\ (overtaken = {} => LocalOurs(l))
  BY <1>1, <1>2, <1>6, IdentityAssumption
  DEF Ready, ReadyAt, Ends, HasRepo, HasFile, HasChange, Prompts, LocalOurs,
      Ours
<1>8. Steps(h) /\ flow'[h] = l
  BY <1>5, <1>6, <1>7, OneSteps
<1>9. Asks(h)
  BY <1>1, <1>2, <1>3, <1>6, <1>8, WriteKinds
  DEF AdoptSaves, Asks, Awaits, WriteOurs, id, LocalOurs, Ours
<1>10. OwnStep(h) /\ CallOK'
  BY <1>1, SameCallOK, IdentityOurs
  DEF AdoptSaves, OnlyFlow, OwnStep, Ends, WindowOK
<1> QED
  BY <1>8, <1>9, <1>10, OwnDoes

LEMMA SyncGoesOn ==
  ASSUME IInv, NEW h \in Handlers, Adopted(h) \/ SyncEnds(h)
  PROVE Does(h)
<1>1. /\ flow[h] \in Locals /\ Ready(flow[h])
      /\ overtaken = {} => LocalOurs(flow[h])
  BY MineOK
<1>2. flow[h].pc \in {"saving", "sync"}
  BY DEF Adopted, SyncEnds, At
<1>3. /\ flow[h].pc \in {"saving", "sync"} /\ flow[h] \in Locals
      /\ Ready(flow[h]) /\ (overtaken = {} => LocalOurs(flow[h]))
  BY <1>1, <1>2
<1>4. CallOK' /\ Quiet(h) /\ OwnStep(h)
  BY <1>3, SameCallOK, IdentityOurs
  DEF Adopted, SyncEnds, At, Awaits, Quiet, OnlyFlow, OwnStep, Ends, WindowOK
<1>5. CASE Adopted(h)
  <2>1. flow[h].pc = "saving" /\ Go(h, "sync")
    BY <1>5 DEF Adopted, At
  <2>2. "sync" \in PlaceNames /\ ReadyAt(flow[h], "sync")
    BY <1>3, <2>1 DEF PlaceNames, Ready, ReadyAt, Ends, HasRepo, HasFile,
                      HasChange, Prompts
  <2> QED
    BY <1>4, <2>1, <2>2, GoDoes
<1>6. CASE SyncEnds(h)
  <2> DEFINE l == [flow[h] EXCEPT !.pc = "detect", !.stage = "second"]
  <2>1. flow' = [flow EXCEPT ![h] = l]
    BY <1>3, <1>6 DEF SyncEnds
  <2>2. /\ l \in Locals /\ l.pc = "detect" /\ l.stage = "second"
        /\ l.repo = flow[h].repo /\ l.old = flow[h].old /\ l.to = flow[h].to
    BY <1>3 DEF Locals, PlaceNames
  <2> HIDE DEF l
  <2>3. Ready(l) /\ (overtaken = {} => LocalOurs(l))
    BY <1>3, <2>2 DEF Ready, ReadyAt, Ends, HasRepo, HasFile, HasChange,
                      Prompts, LocalOurs
  <2> QED
    BY <1>4, <2>1, <2>2, <2>3, OneSteps, OwnDoes
<1> QED
  BY <1>5, <1>6

LEMMA CheckDoes ==
  ASSUME IInv, NEW h \in Handlers, CheckStep(h)
  PROVE Does(h)
BY ResolveDoes, ActivateDoes, ExistenceDoes, RegisterPromptDoes,
   RegisteredDoes, ListedDoes, AdoptClearsDoes, AdoptSavesDoes, SyncGoesOn,
   AdoptDoes
DEF CheckStep

LEMMA MigrationDoes ==
  ASSUME IInv, NEW h \in Handlers, MigrationStep(h)
  PROVE Does(h)
BY DetectDoes, MovedDoes, ToldDoes, ChooseMigrateDoes, ChooseKeepDoes,
   ChooseLaterDoes
DEF MigrationStep

-----------------------------------------------------------------------------
(* The identity commands.                                                  *)
LEMMA GivenDoes ==
  ASSUME IInv, NEW h \in Handlers, Given(h), Steps(h), storeUnchanged,
         apiUnchanged, skipped' = skipped, identity' \in Identities,
         identity'.lastActive \in {identity.lastActive, None}
  PROVE Does(h)
<1>1. CallOK' /\ UNCHANGED <<owner, rows>>
  BY SameCallOK
<1>2. WindowOK' /\ RowsOK'
  BY <1>1, IdentityOurs
  DEF Given, Kept, WindowOK, RowsOK, IInv, Typed
<1>3. overtaken = {} => Ours(identity'.lastActive)
  BY IdentityOurs, IdentityAssumption DEF Ours
<1>4. Quiet(h) /\ flow[h].pc = "new"
  BY DEF Given, At, Quiet, Awaits
<1> QED
  BY <1>1, <1>2, <1>3, <1>4 DEF Does, Given, Kept, Ends

LEMMA CommandDoes ==
  ASSUME IInv, NEW h \in Handlers, CommandStep(h)
  PROVE Does(h)
<1>1. /\ flow[h] \in Locals /\ Ready(flow[h])
      /\ overtaken = {} => LocalOurs(flow[h])
  BY MineOK
<1>2. /\ identity \in Identities /\ Remembered \in Identities
      /\ Remembered.lastActive = identity.lastActive
  BY IdentityTyped, IdentityOurs DEF WindowOK
<1>3. CASE MigrateCommand(h)
  <2> DEFINE l == [flow[h] EXCEPT !.pc = "detect", !.kind = "command",
                                  !.stage = "command"]
  <2>1. flow' = [flow EXCEPT ![h] = l] /\ flow[h].pc = "new"
    BY <1>1, <1>3 DEF MigrateCommand, Given, At
  <2>2. /\ l \in Locals /\ l.pc = "detect" /\ l.stage = "command"
        /\ l.repo = flow[h].repo /\ l.old = flow[h].old /\ l.to = flow[h].to
    BY <1>1 DEF Locals, PlaceNames
  <2> HIDE DEF l
  <2>3. Ready(l) /\ (overtaken = {} => LocalOurs(l))
    BY <1>1, <2>2 DEF Ready, ReadyAt, Ends, HasRepo, HasFile, HasChange,
                      Prompts, LocalOurs
  <2>4. Steps(h)
    BY <2>1, <2>2, <2>3, OneSteps
  <2> QED
    BY <1>2, <1>3, <2>4, GivenDoes DEF MigrateCommand
<1>4. CASE NameCommand(h)
  <2> DEFINE l == [flow[h] EXCEPT !.pc = "naming", !.kind = "command",
                     !.stage = "named", !.old = CurrentId, !.to = Custom]
  <2>1. CurrentId \in RepoIds /\ Ours(CurrentId) /\ Custom \in RepoIds
        /\ Ours(Custom)
    BY IdentityOurs, IdentityAssumption DEF Ours, Theirs
  <2>2. flow' = [flow EXCEPT ![h] = l] /\ flow[h].pc = "new"
    BY <1>1, <1>4 DEF NameCommand, Given, At
  <2>3. /\ l \in Locals /\ l.pc = "naming" /\ l.repo = flow[h].repo
        /\ l.old = CurrentId /\ l.to = Custom /\ l.stage = "named"
    BY <1>1, <2>1 DEF Locals, PlaceNames, RepoOrNone
  <2> HIDE DEF l
  <2>4. Ready(l) /\ (overtaken = {} => LocalOurs(l))
    BY <1>1, <2>1, <2>3 DEF Ready, ReadyAt, Ends, HasRepo, HasFile,
                            HasChange, Prompts, LocalOurs
  <2>5. Steps(h)
    BY <2>2, <2>3, <2>4, OneSteps
  <2> QED
    BY <1>2, <1>4, <2>5, GivenDoes DEF NameCommand
<1>5. CASE Named(h)
  <2>1. flow[h].pc = "naming"
    BY <1>5 DEF Named, At
  <2>2. ReadyAt(flow[h], "ask") /\ {"ask", "over"} \subseteq PlaceNames
    BY <1>1, <2>1 DEF Ready, ReadyAt, PlaceNames, Ends, HasRepo, HasFile,
                      HasChange, Prompts
  <2>3. \E pc \in {"ask", "over"} : Go(h, pc)
    BY <1>5 DEF Named
  <2>4. Steps(h)
    BY <2>2, <2>3, GoSteps
  <2>5. /\ identity' \in Identities
        /\ identity'.lastActive = identity.lastActive
    BY <1>2, <1>5, IdentityAssumption DEF Named, Identities, RepoOrNone
  <2>6. CallOK' /\ Quiet(h) /\ WindowOK' /\ RowsOK'
    BY <1>5, <2>1, <2>5, SameCallOK, IdentityOurs
    DEF Named, Awaits, Quiet, Restrained, Kept, WindowOK, RowsOK, IInv, Typed
  <2> QED
    BY <1>5, <2>1, <2>4, <2>5, <2>6, IdentityOurs
    DEF Does, Named, Restrained, Kept, Ends
<1>6. CASE NameDismissed(h)
  <2>1. flow[h].pc = "naming" /\ Go(h, "over") /\ "over" \in PlaceNames
    BY <1>6 DEF NameDismissed, At, PlaceNames
  <2>2. CallOK' /\ Quiet(h) /\ OwnStep(h)
    BY <1>6, <2>1, SameCallOK, IdentityOurs
    DEF NameDismissed, Awaits, Quiet, OnlyFlow, OwnStep, Ends, WindowOK
  <2> QED
    BY <2>1, <2>2, GoDoes
<1>7. CASE SubProjectCommand(h) \/ ResetCommand(h)
  <2>1. Go(h, "over") /\ "over" \in PlaceNames
    BY <1>7 DEF SubProjectCommand, ResetCommand, PlaceNames
  <2>2. /\ identity' \in Identities
        /\ identity'.lastActive \in {identity.lastActive, None}
    BY <1>2, <1>7
    DEF SubProjectCommand, ResetCommand, Identities, RepoOrNone
  <2> QED
    BY <1>7, <2>1, <2>2, GoSteps, GivenDoes DEF SubProjectCommand, ResetCommand
<1> QED
  BY <1>3, <1>4, <1>5, <1>6, <1>7 DEF CommandStep

-----------------------------------------------------------------------------
(* A save or create event of an env file.                                  *)
LEMMA UploadStartsDoes ==
  ASSUME IInv, NEW h \in Handlers, NEW f \in Files, UploadStarts(h, f)
  PROVE Does(h)
<1> DEFINE id == Existing(CurrentId, f)
           new == [flow[h] EXCEPT !.pc = "init", !.kind = "upload",
                                  !.file = f]
           l == [flow[h] EXCEPT !.pc = "put", !.kind = "upload",
                                !.repo = id[1], !.file = f]
           asked == Asking("update", user, id[1])
           request == [asked EXCEPT !.file = f]
<1>1. /\ flow[h].pc = "new" /\ flow[h] \in Locals
      /\ overtaken = {} => LocalOurs(flow[h])
  BY MineOK DEF UploadStarts, At
<1>2. Quiet(h)
  BY <1>1 DEF UploadStarts, Reads, Awaits, Quiet
<1>3. CASE id = None
  <2>1. CallOK' /\ OwnStep(h)
    BY <1>1, <1>3, SameCallOK, IdentityOurs
    DEF UploadStarts, OwnStep, WindowOK
  <2>2. flow' = [flow EXCEPT ![h] = new]
    BY <1>1, <1>3 DEF UploadStarts
  <2>3. /\ new \in Locals /\ new.pc = "init" /\ new.repo = flow[h].repo
        /\ new.old = flow[h].old /\ new.to = flow[h].to /\ new.file = f
    BY <1>1 DEF Locals, PlaceNames
  <2> HIDE DEF new
  <2>4. Ready(new) /\ (overtaken = {} => LocalOurs(new))
    BY <1>1, <2>3 DEF Ready, ReadyAt, Ends, HasRepo, HasFile, HasChange,
                      Prompts, LocalOurs
  <2> QED
    BY <1>2, <2>1, <2>2, <2>3, <2>4, OneSteps, OwnDoes
<1>4. CASE id # None
  <2>1. id \in Ids /\ (overtaken = {} => Theirs(id[1]))
    BY <1>4, IdentityOurs, ExistingOK DEF UploadStarts
  <2>2. id[1] \in RepoIds
    BY <2>1 DEF Ids
  <2>3. flow' = [flow EXCEPT ![h] = l] /\ Send(h, request)
    BY <1>1, <1>4 DEF UploadStarts
  <2> HIDE DEF id
  <2>4. asked \in Calls /\ asked.user \in Users
    BY <2>2, AskingOK, IdentityOurs DEF WindowOK
  <2>5. CallOK' /\ UNCHANGED <<owner, rows>>
    <3>1. request \in Calls /\ request.user \in Users
      <4> HIDE DEF asked
      <4> QED BY <2>4 DEF Calls
    <3> QED
      BY <2>3, <3>1, SendOK
  <2>6. OwnStep(h)
    BY <1>1, <2>5, IdentityOurs DEF UploadStarts, OwnStep, WindowOK
  <2>7. /\ l \in Locals /\ l.pc = "put" /\ l.repo = id[1]
        /\ l.old = flow[h].old /\ l.to = flow[h].to /\ l.file = f
        /\ l.kind = "upload"
    BY <1>1, <2>2 DEF Locals, PlaceNames, RepoOrNone
  <2> HIDE DEF l
  <2>8. Ready(l) /\ (overtaken = {} => LocalOurs(l))
    BY <1>1, <2>1, <2>2, <2>7
    DEF Ready, ReadyAt, Ends, HasRepo, HasFile, HasChange, Prompts,
        LocalOurs, Ours
  <2> QED
    BY <1>2, <2>3, <2>5, <2>6, <2>7, <2>8, OneSteps, OwnDoes
<1> QED
  BY <1>3, <1>4

(* A save under the id of the handler's repository and file.               *)
LEMMA SaveAsked ==
  ASSUME IInv, NEW h \in Handlers, flow[h].pc \in HasRepo,
         flow[h].file \in Files, NEW x \in Hashes, flow'[h].pc = "saving",
         Request(SaveOf(h, computeEnvId(flow[h].repo, flow[h].file), x))
  PROVE Asks(h)
<1> DEFINE id == computeEnvId(flow[h].repo, flow[h].file)
<1>1. flow[h].repo \in RepoIds /\ (overtaken = {} => Ours(flow[h].repo))
  BY MineOK DEF Ready, ReadyAt, LocalOurs
<1>2. id \in Ids /\ id[1] = flow[h].repo
  BY <1>1 DEF computeEnvId, Ids
<1> HIDE DEF id
<1> QED
  BY <1>1, <1>2, WriteKinds DEF Asks, Awaits, WriteOurs, Ours, id

LEMMA UploadedDoes ==
  ASSUME IInv, NEW h \in Handlers, Uploaded(h)
  PROVE Does(h)
<1> DEFINE id == computeEnvId(flow[h].repo, flow[h].file)
<1>1. /\ flow[h].pc = "put" /\ Ready(flow[h]) /\ flow[h].repo \in RepoIds
      /\ flow[h].file \in Files
  BY MineOK DEF Uploaded, At, Ready, ReadyAt, HasRepo, HasFile
<1>2. CallOK' /\ OwnStep(h)
  BY <1>1, TakeOK, IdentityOurs
  DEF Uploaded, OnlyFlow, OwnStep, Ends, WindowOK
<1>3. /\ {"saving", "clearing", "over"} \subseteq PlaceNames
      /\ ReadyAt(flow[h], "saving") /\ ReadyAt(flow[h], "clearing")
  BY <1>1 DEF PlaceNames, Ready, ReadyAt, Ends, HasRepo, HasFile, HasChange,
              Prompts
<1>4. ASSUME NEW x \in Hashes, Go(h, "saving"), Request(SaveOf(h, id, x))
      PROVE Does(h)
  <2>1. flow'[h].pc = "saving"
    BY <1>3, <1>4, GoSteps
  <2> QED
    BY <1>1, <1>2, <1>3, <1>4, <2>1, SaveAsked, GoDoes DEF HasRepo
<1>5. ASSUME Go(h, "clearing"), Request(ClearOf(h, id))
      PROVE Does(h)
  <2>1. flow'[h].pc = "clearing"
    BY <1>3, <1>5, GoSteps
  <2>2. id \in Ids
    BY <1>1 DEF computeEnvId, Ids
  <2>3. Asks(h)
    <3> HIDE DEF id
    <3> QED BY <1>5, <2>1, <2>2, WriteKinds DEF Asks, Awaits, WriteOurs
  <2> QED
    BY <1>2, <1>3, <1>5, <2>3, GoDoes
<1>6. ASSUME Go(h, "over"), storeUnchanged
      PROVE Does(h)
  BY <1>1, <1>2, <1>3, <1>6, GoDoes DEF Quiet, Awaits
<1> QED
  BY <1>4, <1>5, <1>6 DEF Uploaded

LEMMA WaitEnds ==
  ASSUME IInv, NEW h \in Handlers, Cleansed(h) \/ Saved(h)
  PROVE Does(h)
<1>1. flow[h].pc \in {"clearing", "saving"}
  BY DEF Cleansed, Saved, At
<1>2. CallOK' /\ Quiet(h) /\ OwnStep(h)
  BY <1>1, SameCallOK, IdentityOurs
  DEF Cleansed, Saved, OnlyFlow, OwnStep, Ends, WindowOK, Quiet
<1>3. CASE Go(h, "over")
  BY <1>2, <1>3, GoDoes DEF PlaceNames
<1>4. CASE Cleansed(h) /\ Go(h, "init")
  <2>1. flow[h].pc = "clearing" /\ Ready(flow[h])
    BY <1>4, MineOK DEF Cleansed, At
  <2>2. "init" \in PlaceNames /\ ReadyAt(flow[h], "init")
    BY <2>1 DEF PlaceNames, Ready, ReadyAt, Ends, HasRepo, HasFile,
                HasChange, Prompts
  <2> QED
    BY <1>2, <1>4, <2>2, GoDoes
<1> QED
  BY <1>3, <1>4 DEF Cleansed, Saved

LEMMA InitStartsDoes ==
  ASSUME IInv, NEW h \in Handlers, InitStarts(h)
  PROVE Does(h)
<1> DEFINE l == [flow[h] EXCEPT !.pc = "exists?", !.repo = CurrentId]
<1>1. /\ flow[h].pc = "init" /\ flow[h] \in Locals /\ Ready(flow[h])
      /\ overtaken = {} => LocalOurs(flow[h])
  BY MineOK DEF InitStarts, At
<1>2. CurrentId \in RepoIds /\ Ours(CurrentId) /\ user \in Users
  BY IdentityOurs DEF WindowOK
<1>3. CallOK' /\ UNCHANGED <<owner, rows>>
  BY <1>2, AskingOK, SendOK, SameCallOK DEF InitStarts
<1>4. OwnStep(h) /\ Quiet(h)
  BY <1>1, <1>3, IdentityOurs
  DEF InitStarts, OwnStep, Ends, WindowOK, Quiet, Awaits
<1>5. CASE CurrentId \in skipped
  BY <1>3, <1>4, <1>5, GoDoes DEF InitStarts, PlaceNames
<1>6. CASE CurrentId \notin skipped
  <2>1. flow' = [flow EXCEPT ![h] = l]
    BY <1>1, <1>6 DEF InitStarts
  <2>2. /\ l \in Locals /\ l.pc = "exists?" /\ l.repo = CurrentId
        /\ l.old = flow[h].old /\ l.to = flow[h].to
        /\ l.file = flow[h].file
    BY <1>1, <1>2 DEF Locals, PlaceNames, RepoOrNone
  <2> HIDE DEF l
  <2>3. Ready(l) /\ (overtaken = {} => LocalOurs(l))
    BY <1>1, <1>2, <2>2 DEF Ready, ReadyAt, Ends, HasRepo, HasFile,
                            HasChange, Prompts, LocalOurs
  <2> QED
    BY <1>3, <1>4, <2>1, <2>2, <2>3, OneSteps, OwnDoes
<1> QED
  BY <1>5, <1>6

(* Up to its prompt, the initialization only asks the API.                 *)
LEMMA InitAsksDoes ==
  ASSUME IInv, NEW h \in Handlers,
         InitExistence(h) \/ InitRegistered(h) \/ InitChecks(h)
  PROVE Does(h)
<1>1. flow[h].pc \in {"exists?", "creating?", "tracked?"}
  BY DEF InitExistence, InitRegistered, InitChecks, At
<1>2. Ready(flow[h]) /\ flow[h].repo \in RepoIds /\ flow[h].file \in Files
  BY <1>1, MineOK DEF Ready, ReadyAt, HasRepo, HasFile
<1>3. CallOK' /\ UNCHANGED <<owner, rows>>
  BY <1>2, AskingOK, SendOK, TakeOK, SameCallOK, IdentityOurs
  DEF InitExistence, InitRegistered, InitChecks, ListNext, WindowOK
<1>4. OwnStep(h) /\ Quiet(h)
  BY <1>1, <1>3, IdentityOurs
  DEF InitExistence, InitRegistered, InitChecks, OnlyFlow, OwnStep, Ends,
      WindowOK, Quiet, Awaits
<1>5. \A pc \in {"tracked?", "creating?", "listing", "over"} :
        pc \in PlaceNames /\ (pc = "over" \/ ReadyAt(flow[h], pc))
  BY <1>2 DEF PlaceNames, ReadyAt, Ends, HasRepo, HasFile, HasChange, Prompts
<1>6. \E pc \in {"tracked?", "creating?", "listing", "over"} : Go(h, pc)
  BY DEF InitExistence, InitRegistered, InitChecks
<1> QED
  BY <1>3, <1>4, <1>5, <1>6, GoDoes

LEMMA InitEndsDoes ==
  ASSUME IInv, NEW h \in Handlers, InitPrompts(h) \/ InitPosted(h)
  PROVE Does(h)
<1> DEFINE id == computeEnvId(flow[h].repo, flow[h].file)
           asked == Asking("createEnv", user, flow[h].repo)
           request == [asked EXCEPT !.file = flow[h].file]
<1>1. flow[h].pc \in {"listing", "posting"}
  BY DEF InitPrompts, InitPosted, At
<1>2. Ready(flow[h]) /\ flow[h].repo \in RepoIds /\ flow[h].file \in Files
  BY <1>1, MineOK DEF Ready, ReadyAt, HasRepo, HasFile
<1>3. request \in Calls /\ request.user \in Users
  <2>1. asked \in Calls /\ asked.user \in Users
    BY <1>2, AskingOK, IdentityOurs DEF WindowOK
  <2> HIDE DEF asked
  <2> QED
    BY <1>2, <2>1 DEF Calls
<1>4. CallOK' /\ UNCHANGED <<owner, rows>>
  <2>1. Take(h) \/ Send(h, request)
    BY DEF InitPrompts, InitPosted
  <2> HIDE DEF request
  <2> QED
    BY <1>3, <2>1, SendOK, TakeOK
<1>5. OwnStep(h)
  BY <1>1, <1>4, IdentityOurs
  DEF InitPrompts, InitPosted, OnlyFlow, OwnStep, Ends, WindowOK
<1>6. /\ {"posting", "saving", "over"} \subseteq PlaceNames
      /\ ReadyAt(flow[h], "posting") /\ ReadyAt(flow[h], "saving")
  BY <1>2 DEF PlaceNames, ReadyAt, Ends, HasRepo, HasFile, HasChange, Prompts
<1>7. ASSUME NEW x \in Hashes, Go(h, "saving"), Request(SaveOf(h, id, x))
      PROVE Does(h)
  <2>1. flow'[h].pc = "saving"
    BY <1>6, <1>7, GoSteps
  <2> QED
    BY <1>1, <1>2, <1>4, <1>5, <1>6, <1>7, <2>1, SaveAsked, GoDoes DEF HasRepo
<1>8. ASSUME Go(h, "over") \/ Go(h, "posting"), storeUnchanged
      PROVE Does(h)
  BY <1>1, <1>4, <1>5, <1>6, <1>8, GoDoes DEF Quiet, Awaits
<1> QED
  BY <1>7, <1>8 DEF InitPrompts, InitPosted

LEMMA UploadDoes ==
  ASSUME IInv, NEW h \in Handlers, UploadStep(h)
  PROVE Does(h)
BY UploadStartsDoes, UploadedDoes, WaitEnds, InitStartsDoes, InitAsksDoes,
   InitEndsDoes
DEF UploadStep

-----------------------------------------------------------------------------
(* Who waits after a step of the store.                                    *)
LEMMA RequestWaits ==
  ASSUME StoreTypeOK, NEW w \in Writes, Request(w), NEW c \in Callers
  PROVE Waiting(c)' => Waiting(c) \/ w.by = c
<1>1. writing' = writing /\ writeQueue \in Seq(Writes)
      /\ writeQueue' = Append(writeQueue, w)
  BY DEF Request, StoreTypeOK
<1>2. \A i \in DOMAIN writeQueue' :
        \/ i \in DOMAIN writeQueue /\ writeQueue'[i] = writeQueue[i]
        \/ writeQueue'[i] = w
  BY <1>1
<1> QED
  BY <1>1, <1>2 DEF Waiting

LEMMA TailOfQueue ==
  ASSUME StoreTypeOK, writeQueue # <<>>
  PROVE /\ 1 \in DOMAIN writeQueue /\ Head(writeQueue) = writeQueue[1]
        /\ \A i \in DOMAIN Tail(writeQueue) :
             /\ i + 1 \in DOMAIN writeQueue
             /\ Tail(writeQueue)[i] = writeQueue[i + 1]
BY DEF StoreTypeOK

LEMMA WriterWaits ==
  ASSUME StoreTypeOK, StartWrite \/ EndWrite, NEW c \in Callers
  PROVE Waiting(c)' => Waiting(c)
<1>1. CASE StartWrite
  <2> DEFINE w == Head(writeQueue)
  <2>1. w \in Writes /\ writeQueue' = Tail(writeQueue)
    BY <1>1, HeadOfQueue DEF StartWrite
  <2>2. [w EXCEPT !.op = "cleared"].by = w.by
    BY <2>1 DEF Writes, Saves, Clears, ClearAlls, Migrates
  <2>3. writing' # None => writing'.by = w.by
    <3>1. writing' \in {None, w, [w EXCEPT !.op = "cleared"]}
      BY <1>1 DEF StartWrite
    <3> HIDE DEF w
    <3> QED
      BY <2>2, <3>1
  <2>4. /\ 1 \in DOMAIN writeQueue /\ w = writeQueue[1]
        /\ \A i \in DOMAIN writeQueue' :
             /\ i + 1 \in DOMAIN writeQueue
             /\ writeQueue'[i] = writeQueue[i + 1]
    BY <1>1, <2>1, TailOfQueue DEF StartWrite
  <2> HIDE DEF w
  <2>5. CASE writing' # None /\ writing'.by = c
    BY <2>3, <2>4, <2>5 DEF Waiting
  <2>6. CASE \E i \in DOMAIN writeQueue' : writeQueue'[i].by = c
    BY <2>4, <2>6 DEF Waiting
  <2> QED
    BY <2>5, <2>6 DEF Waiting
<1>2. CASE EndWrite
  BY <1>2 DEF EndWrite, Waiting
<1> QED
  BY <1>1, <1>2

(* What a step of a handler does keeps the invariant.                      *)
LEMMA DoesKeepsInv ==
  ASSUME IInv, NEW h \in Handlers, Does(h)
  PROVE IInv'
<1>1. StoreInv' /\ [StoreStep]_storeVars
  BY StepKeepsInv
  DEF IInv, Does, Quiet, Asks, StoreStep, storeUnchanged
<1>2. Typed'
  BY DEF Does, Steps, Typed
<1>3. WaitsInPlace'
  <2>1. ASSUME NEW c \in Callers, Waiting(c)'
        PROVE Waiting(c) \/ (Asks(h) /\ c = h)
    <3>1. CASE Quiet(h)
      BY <2>1, <3>1 DEF Quiet, storeUnchanged, storeVars, LookUp, Waiting
    <3>2. CASE Asks(h)
      BY <2>1, <3>2, RequestWaits DEF Asks, IInv, StoreInv
    <3> QED
      BY <3>1, <3>2 DEF Does
  <2>2. ASSUME NEW g \in Handlers \ {h} PROVE flow'[g].pc = flow[g].pc
    BY MineOK DEF Does, Steps, Locals
  <2>3. ASSUME NEW g \in Handlers, Waiting(g)' PROVE flow'[g].pc \in Awaits
    <3>1. CASE g # h
      BY <2>1, <2>2, <2>3, <3>1, IdentityAssumption DEF IInv, WaitsInPlace
    <3>2. CASE g = h /\ Asks(h)
      BY <3>2 DEF Asks
    <3>3. CASE g = h /\ ~Asks(h)
      <4>1. Waiting(h) /\ Quiet(h)
        BY <2>1, <2>3, <3>3, IdentityAssumption DEF Does
      <4> QED
        BY <4>1 DEF Quiet, IInv, WaitsInPlace
    <3> QED
      BY <3>1, <3>2, <3>3
  <2>4. ~switching' => ~Waiting(activation)'
    BY <2>1, IdentityAssumption DEF Does, IInv, WaitsInPlace
  <2> QED
    BY <2>3, <2>4 DEF WaitsInPlace
<1>4. ASSUME overtaken' = {} PROVE AllOurs' /\ ~switching'
  <2>1. overtaken = {} /\ AllOurs /\ scope' = scope
    BY <1>4 DEF Does, IInv
  <2>2. \A r : (Theirs(r)' <=> Theirs(r)) /\ (Ours(r)' <=> Ours(r))
    BY <2>1 DEF Theirs, Ours
  <2>3. ASSUME NEW g \in Handlers PROVE LocalOurs(flow'[g])
    <3>1. CASE g = h
      BY <2>1, <3>1 DEF Does, Steps
    <3>2. CASE g # h
      <4>1. flow'[g] = flow[g] \/ flow'[g] = [flow[g] EXCEPT !.asked = {}]
        BY <3>2 DEF Does, Steps
      <4>2. LET l == [flow[g] EXCEPT !.asked = {}] IN
            l.repo = flow[g].repo /\ l.old = flow[g].old /\ l.to = flow[g].to
        BY MineOK DEF Locals
      <4> QED
        BY <2>1, <4>1, <4>2 DEF AllOurs, LocalOurs
    <3> QED
      BY <3>1, <3>2
  <2>4. /\ stored' = stored /\ disk' = disk
        /\ \A i \in DOMAIN writeQueue' : WriteOurs(writeQueue'[i])
    <3>1. CASE Quiet(h)
      BY <2>1, <3>1 DEF Quiet, storeUnchanged, storeVars, LookUp, AllOurs
    <3>2. CASE Asks(h)
      <4>1. PICK w \in Writes : Request(w) /\ WriteOurs(w)
        BY <2>1, <3>2 DEF Asks
      <4>2. writeQueue \in Seq(Writes)
        BY DEF IInv, StoreInv, StoreTypeOK
      <4>3. \A i \in DOMAIN writeQueue' :
              \/ i \in DOMAIN writeQueue /\ writeQueue'[i] = writeQueue[i]
              \/ writeQueue'[i] = w
        BY <4>1, <4>2 DEF Request
      <4> QED
        BY <2>1, <4>1, <4>3 DEF Request, AllOurs
    <3> QED
      BY <3>1, <3>2 DEF Does
  <2>5. AllOurs'
    BY <2>1, <2>2, <2>3, <2>4
    DEF Does, AllOurs, LocalOurs, MapOurs, WriteOurs
  <2>6. ~switching
    BY <1>4, <2>1 DEF Does, IInv, SwitchAlone, NoneRuns
  <2> QED
    BY <2>5, <2>6 DEF Does
<1> QED
  BY <1>1, <1>2, <1>3, <1>4 DEF IInv

-----------------------------------------------------------------------------
(* The API answers, or a caller gives up.                                  *)
Answers == {"yes", "no", "ok", "refused", "missing", "failed"}
Stages == {"counted", "checked", "copied", "done"}
Answer(c, st, res, files) ==
  \/ call' = [call EXCEPT ![c].st = st]
  \/ call' = [call EXCEPT ![c].st = st, ![c].res = res]
  \/ call' = [call EXCEPT ![c].st = st, ![c].files = files]
  \/ call' = [call EXCEPT ![c].st = st, ![c].res = res, ![c].files = files]

LEMMA AnswerOK ==
  ASSUME IInv, NEW h \in Handlers, call[h].st # "none", NEW st \in Stages,
         NEW res \in Answers, NEW files \in SUBSET Files,
         Answer(h, st, res, files)
  PROVE CallOK'
<1>1. /\ call \in [Callers -> Calls] /\ h \in Callers
      /\ \A d \in Callers : call[d].st # "none" => call[d].user \in Users
  BY IdentityAssumption DEF IInv, Typed, CallOK
<1> DEFINE c == call[h]
           c1 == [c EXCEPT !.st = st]
           c2 == [c EXCEPT !.st = st, !.res = res]
           c3 == [c EXCEPT !.st = st, !.files = files]
           c4 == [c EXCEPT !.st = st, !.res = res, !.files = files]
<1>2. \A d \in {c1, c2, c3, c4} : d \in Calls /\ d.user = c.user
  <2>1. c1 \in Calls /\ c1.user = c.user
    BY <1>1 DEF Calls, Stages
  <2>2. c2 \in Calls /\ c2.user = c.user
    BY <1>1 DEF Calls, Stages, Answers
  <2>3. c3 \in Calls /\ c3.user = c.user
    BY <1>1 DEF Calls, Stages
  <2>4. c4 \in Calls /\ c4.user = c.user
    BY <1>1 DEF Calls, Stages, Answers
  <2> HIDE DEF c1, c2, c3, c4
  <2> QED
    BY <2>1, <2>2, <2>3, <2>4
<1>3. \E d \in {c1, c2, c3, c4} : call' = [call EXCEPT ![h] = d]
  BY DEF Answer
<1> HIDE DEF c1, c2, c3, c4
<1>4. PICK d \in {c1, c2, c3, c4} : call' = [call EXCEPT ![h] = d]
  BY <1>3
<1>5. d \in Calls /\ d.user \in Users
  BY <1>1, <1>2
<1> QED
  BY <1>1, <1>4, <1>5 DEF CallOK

LEMMA ServeOK ==
  ASSUME IInv, NEW h \in Handlers, ServerStep(h) \/ CallFails(h)
  PROVE CallOK' /\ RowsOK'
<1> DEFINE files == FilesOf(call[h].user, call[h].repo)
<1>1. /\ call[h] \in Calls /\ RowsOK
      /\ call[h].st # "none" => call[h].user \in Users
  BY IdentityAssumption DEF IInv, Typed, CallOK
<1>2. call[h].st # "none"
  BY DEF ServerStep, ServeExists, ServeList, ServeUpdate, CreateRepoCounts,
         CreateRepoInserts, CreateEnvCounts, CreateEnvInserts, MigrateChecks,
         MigrateCopies, MigrateCommits, CallFails, Asked
<1>3. files \in SUBSET Files
  BY DEF FilesOf
<1>4. CallOK'
  <2>2. \/ \E st \in Stages : call' = [call EXCEPT ![h].st = st]
        \/ \E res \in Answers :
             call' = [call EXCEPT ![h].st = "done", ![h].res = res]
        \/ call' = [call EXCEPT ![h].st = "copied", ![h].files = files]
        \/ call' = [call EXCEPT ![h].st = "done", ![h].res = "ok",
                                ![h].files = files]
    <3>1. CASE ServeExists(h) \/ ServeUpdate(h) \/ MigrateCommits(h)
               \/ CallFails(h)
      BY <3>1
      DEF Reply, ServeExists, ServeUpdate, MigrateCommits, CallFails, Answers
    <3>2. CASE CreateRepoCounts(h) \/ CreateEnvCounts(h) \/ MigrateChecks(h)
      <4>1. Reply(h, "refused") \/ Reply(h, "ok") \/ Pass(h, "counted")
            \/ Pass(h, "checked")
        BY <3>2 DEF CreateRepoCounts, CreateEnvCounts, MigrateChecks
      <4> QED
        BY <4>1 DEF Reply, Pass, Answers, Stages
    <3>3. CASE CreateRepoInserts(h) \/ CreateEnvInserts(h)
      <4>1. Reply(h, "refused") \/ Reply(h, "ok")
        BY <3>3 DEF CreateRepoInserts, CreateEnvInserts
      <4> QED
        BY <4>1 DEF Reply, Answers
    <3>4. CASE MigrateCopies(h) \/ ServeList(h)
      BY <3>4 DEF MigrateCopies, ServeList, Answers, Reply
    <3> QED
      BY <3>1, <3>2, <3>3, <3>4 DEF ServerStep
  <2>3. {"ok"} \subseteq Answers /\ {"copied", "done"} \subseteq Stages
    BY DEF Answers, Stages
  <2>4. \E st \in Stages, res \in Answers : Answer(h, st, res, files)
    <3> HIDE DEF files
    <3> QED BY <2>2, <2>3 DEF Answer
  <2> QED
    BY <1>2, <1>3, <2>4, AnswerOK
<1>5. RowsOK'
  BY <1>1, <1>2
  DEF RowsOK, ServerStep, ServeExists, ServeList, ServeUpdate,
      CreateRepoCounts, CreateRepoInserts, CreateEnvCounts, CreateEnvInserts,
      MigrateChecks, MigrateCopies, MigrateCommits, CallFails, Reply, Pass,
      computeEnvId
<1> QED
  BY <1>4, <1>5

(* A step that leaves the flows, the store and the window alone.           *)
LEMMA ApiKeepsInv ==
  ASSUME IInv, CallOK', RowsOK', storeUnchanged,
         UNCHANGED <<user, scope, switching, remote, identity, skipped, flow,
                     overtaken>>
  PROVE IInv'
<1>1. StoreInv'
  BY StepKeepsInv DEF IInv, storeUnchanged
<1>2. Typed' /\ WaitsInPlace'
  BY DEF IInv, Typed, FlowOK, WindowOK, WaitsInPlace, Waiting,
         storeUnchanged, storeVars
<1>3. overtaken' = {} => AllOurs' /\ (switching' => SwitchAlone')
  BY DEF IInv, AllOurs, Ours, LocalOurs, MapOurs, WriteOurs, Theirs,
         SwitchAlone, NoneRuns, storeUnchanged, storeVars
<1> QED
  BY <1>1, <1>2, <1>3 DEF IInv

-----------------------------------------------------------------------------
(* The queue works off a write.                                            *)
LEMMA WriterKeepsInv ==
  ASSUME IInv, WriterStep
  PROVE IInv'
<1>1. StoreInv' /\ StoreTypeOK
  BY StepKeepsInv DEF IInv, WriterStep, StoreStep, StoreInv
<1>2. UNCHANGED idVars /\ UNCHANGED apiVars
  BY DEF WriterStep, apiUnchanged
<1>3. Typed'
  BY <1>2 DEF IInv, Typed, FlowOK, CallOK, RowsOK, WindowOK, idVars, apiVars
<1>4. WaitsInPlace'
  BY <1>1, <1>2, WriterWaits, IdentityAssumption
  DEF IInv, WaitsInPlace, WriterStep, idVars
<1>5. ASSUME AllOurs PROVE AllOurs'
  <2>1. /\ \A r : (Theirs(r)' <=> Theirs(r)) /\ (Ours(r)' <=> Ours(r))
        /\ flow' = flow /\ identity' = identity
    BY <1>2 DEF Theirs, Ours, idVars
  <2>2. CASE StartWrite
    <3> DEFINE w == Head(writeQueue)
    <3>1. /\ w \in Writes /\ stored' = Applied(w) /\ disk' = disk
          /\ writeQueue # <<>> /\ writeQueue' = Tail(writeQueue)
      BY <1>1, <2>2, HeadOfQueue DEF StartWrite
    <3>2. WriteOurs(w) /\ \A i \in DOMAIN writeQueue' :
                            WriteOurs(writeQueue'[i])
      BY <1>1, <1>5, <3>1, TailOfQueue DEF AllOurs
    <3> HIDE DEF w
    <3>3. \A id \in Ids : id[1] \in RepoIds /\ id = <<id[1], id[2]>>
      BY DEF Ids
    <3>4. MapOurs(stored) /\ stored \in Maps
      BY <1>1, <1>5 DEF AllOurs, StoreTypeOK
    <3>5. ASSUME NEW id \in Ids, stored'[id] # None PROVE Theirs(id[1])
      <4>1. CASE w \in Saves
        BY <3>1, <3>2, <3>4, <3>5, <4>1
        DEF Saves, Applied, WriteOurs, MapOurs, Maps
      <4>2. CASE w \in Clears
        BY <3>1, <3>4, <3>5, <4>2 DEF Clears, Applied, MapOurs, Maps
      <4>3. CASE w \in ClearAlls
        BY <3>1, <3>5, <4>3 DEF ClearAlls, Applied
      <4>4. CASE w \in Migrates
        BY <3>1, <3>2, <3>4, <3>5, <4>4
        DEF Migrates, Applied, Migrated, WriteOurs, MapOurs
      <4> QED
        BY <3>1, <4>1, <4>2, <4>3, <4>4 DEF Writes
    <3> QED
      BY <1>5, <2>1, <3>1, <3>2, <3>5
      DEF AllOurs, MapOurs, LocalOurs, WriteOurs
  <2>3. CASE EndWrite
    BY <1>5, <2>1, <2>3
    DEF EndWrite, AllOurs, MapOurs, LocalOurs, WriteOurs
  <2> QED
    BY <2>2, <2>3 DEF WriterStep
<1>6. ASSUME SwitchAlone PROVE SwitchAlone'
  <2>1. NoneRuns' /\ identity' = ClearedIdentity'
    BY <1>2, <1>6 DEF SwitchAlone, NoneRuns, idVars, ClearedIdentity
  <2>2. CASE StartWrite
    <3> DEFINE w == Head(writeQueue)
    <3>1. /\ stored' = Applied(w)
          /\ writeQueue # <<>> /\ writeQueue' = Tail(writeQueue)
      BY <2>2 DEF StartWrite
    <3>2. w.op = "clearAll" /\ \A i \in DOMAIN writeQueue' :
                                 writeQueue'[i].op = "clearAll"
      BY <1>1, <1>6, <3>1, TailOfQueue DEF SwitchAlone
    <3>3. \A id \in Ids : stored'[id] = None
      BY <3>1, <3>2 DEF Applied
    <3> QED
      BY <2>1, <3>2, <3>3 DEF SwitchAlone
  <2>3. CASE EndWrite
    BY <1>6, <2>1, <2>3 DEF EndWrite, SwitchAlone
  <2> QED
    BY <2>2, <2>3 DEF WriterStep
<1> QED
  BY <1>1, <1>2, <1>3, <1>4, <1>5, <1>6 DEF IInv, idVars

(* The remote changes: what handlers have asked is forgotten.              *)
LEMMA RemoteKeepsInv ==
  ASSUME IInv, NEW r \in Remotes \cup {None}, RemoteChanges(r)
  PROVE IInv'
<1>1. StoreInv' /\ UNCHANGED storeVars /\ UNCHANGED apiVars
      /\ UNCHANGED <<user, scope, switching, identity, skipped, flow,
                     overtaken>>
  BY StepKeepsInv DEF IInv, RemoteChanges, storeUnchanged, apiUnchanged
<1>2. Typed'
  BY <1>1
  DEF IInv, Typed, CallOK, RowsOK, WindowOK, FlowOK, apiVars, RemoteChanges
<1>3. WaitsInPlace'
  BY <1>1 DEF IInv, WaitsInPlace, Waiting, storeVars
<1>4. \A r1 : (Theirs(r1)' <=> Theirs(r1)) /\ (Ours(r1)' <=> Ours(r1))
  BY <1>1 DEF Theirs, Ours
<1>5. ASSUME overtaken' = {} PROVE AllOurs' /\ (switching' => SwitchAlone')
  <2>1. AllOurs'
    BY <1>1, <1>4, <1>5
    DEF IInv, AllOurs, MapOurs, LocalOurs, WriteOurs, storeVars
  <2>2. switching' => SwitchAlone'
    BY <1>1, <1>5 DEF IInv, SwitchAlone, NoneRuns, storeVars, ClearedIdentity
  <2> QED
    BY <2>1, <2>2
<1> QED
  BY <1>1, <1>2, <1>3, <1>5 DEF IInv

(* Another user signs in.  If that overtakes no handler, nobody else has   *)
(* asked the store for anything, and its clear comes first.                *)
LEMMA SwitchKeepsInv ==
  ASSUME IInv, NEW u \in Users, AccountSwitches(u)
  PROVE IInv'
<1> DEFINE w == ClearAllOf(activation)
<1>1. w \in Writes /\ w.op = "clearAll" /\ w.by = activation
      /\ activation \in Callers /\ activation \notin Handlers
  BY IdentityAssumption DEF ClearAllOf, Writes, ClearAlls
<1>2. Request(w) /\ UNCHANGED apiVars /\ UNCHANGED <<scope, remote, flow>>
      /\ ~switching /\ switching'
  BY DEF AccountSwitches, apiUnchanged
<1> HIDE DEF w
<1>3. StoreInv' /\ StoreTypeOK
  BY <1>1, <1>2, StepKeepsInv DEF IInv, StoreStep, StoreInv
<1>4. identity' \in Identities /\ identity'.lastActive = None
  BY DEF AccountSwitches, ClearedIdentity, Identities, RepoOrNone
<1>5. Typed'
  BY <1>2, <1>4
  DEF IInv, Typed, FlowOK, CallOK, RowsOK, WindowOK, apiVars,
      AccountSwitches, Running
<1>6. WaitsInPlace'
  BY <1>1, <1>2, <1>3, RequestWaits, IdentityAssumption
  DEF IInv, WaitsInPlace
<1>7. ASSUME overtaken' = {} PROVE AllOurs' /\ SwitchAlone'
  <2>1. overtaken = {} /\ NoneRuns
    BY <1>7 DEF AccountSwitches, Running, NoneRuns, Ends
  <2>2. \A c \in Callers : ~Waiting(c)
    BY <1>2, <2>1, IdentityAssumption
    DEF IInv, WaitsInPlace, NoneRuns, Ends, Awaits
  <2>3. writeQueue = <<>>
    <3>1. \A i \in DOMAIN writeQueue : writeQueue[i].by \in Callers
      BY <1>3 DEF StoreTypeOK, Writes, Saves, Clears, ClearAlls, Migrates
    <3>2. DOMAIN writeQueue = {}
      BY <2>2, <3>1 DEF Waiting
    <3> QED
      BY <1>3, <3>2 DEF StoreTypeOK
  <2>4. writeQueue' = <<w>> /\ stored' = stored /\ disk' = disk
    BY <1>2, <2>3 DEF Request
  <2>5. \A r : (Theirs(r)' <=> Theirs(r)) /\ (Ours(r)' <=> Ours(r))
    BY <1>2 DEF Theirs, Ours
  <2>6. AllOurs'
    BY <1>1, <1>2, <1>4, <2>1, <2>4, <2>5, IdentityAssumption
    DEF IInv, AllOurs, MapOurs, LocalOurs, WriteOurs, Ours
  <2>7. SwitchAlone'
    BY <1>1, <1>2, <2>1, <2>4
    DEF SwitchAlone, NoneRuns, AccountSwitches, ClearedIdentity
  <2> QED
    BY <2>6, <2>7
<1> QED
  BY <1>3, <1>5, <1>6, <1>7 DEF IInv

(* The clears are done: nothing is left that was the user's before.        *)
LEMMA SwitchedKeepsInv ==
  ASSUME IInv, AccountSwitched
  PROVE IInv'
<1>1. StoreInv' /\ UNCHANGED storeVars /\ UNCHANGED apiVars
      /\ UNCHANGED <<user, remote, identity, skipped, flow, overtaken>>
  BY StepKeepsInv DEF IInv, AccountSwitched, storeUnchanged, apiUnchanged
<1>2. switching /\ switching' = FALSE /\ ~Waiting(activation)
      /\ scope' = user
  BY DEF AccountSwitched, ClearsDone, ClearsUnawaited
<1>3. Typed'
  BY <1>1, <1>2
  DEF IInv, Typed, FlowOK, CallOK, RowsOK, WindowOK, apiVars
<1>4. WaitsInPlace'
  BY <1>1, <1>2 DEF IInv, WaitsInPlace, Waiting, storeVars
<1>5. ASSUME overtaken' = {} PROVE AllOurs'
  <2>1. SwitchAlone /\ AllOurs
    BY <1>1, <1>2, <1>5 DEF IInv
  <2>2. \A c \in Callers : ~Waiting(c)
    BY <1>2, <2>1, IdentityAssumption
    DEF IInv, WaitsInPlace, SwitchAlone, NoneRuns, Ends, Awaits
  <2>3. /\ \A i \in DOMAIN writeQueue : writeQueue[i].by \in Callers
        /\ writing # None => writing.by \in Callers
        /\ writeQueue \in Seq(Writes)
    BY DEF IInv, StoreInv, StoreTypeOK, Writes, Cleared, Saves, Clears,
           ClearAlls, Migrates
  <2>4. writing = None /\ writeQueue = <<>>
    BY <2>2, <2>3 DEF Waiting
  <2>5. \A id \in Ids : stored[id] = None /\ disk[id] = None
    BY <2>1, <2>4 DEF SwitchAlone, IInv, StoreInv, Settled
  <2>6. identity.lastActive = None
    BY <2>1 DEF SwitchAlone, ClearedIdentity
  <2>7. ASSUME NEW h \in Handlers
        PROVE flow[h].repo = None /\ flow[h].old = None /\ flow[h].to = None
    BY <2>1, MineOK DEF SwitchAlone, NoneRuns, Ready, ReadyAt
  <2> QED
    BY <1>1, <2>4, <2>5, <2>6, <2>7, IdentityAssumption
    DEF AllOurs, Ours, LocalOurs, MapOurs, WriteOurs, storeVars
<1> QED
  BY <1>1, <1>2, <1>3, <1>4, <1>5 DEF IInv

(* The window is reloaded.                                                 *)
LEMMA ReloadKeepsInv ==
  ASSUME IInv, Reload
  PROVE IInv'
<1>1. StoreInv' /\ StoreReload /\ UNCHANGED apiVars /\ ~switching'
      /\ switching' \in BOOLEAN
      /\ UNCHANGED <<user, scope, remote, identity, skipped, overtaken>>
  BY StepKeepsInv DEF IInv, Reload, StoreStep, apiUnchanged
<1>2. ASSUME NEW h \in Handlers
      PROVE flow'[h] = flow[h] \/ flow'[h] = Over
  BY DEF Reload
<1>3. FlowOK'
  <2>1. flow' \in [Handlers -> Locals]
    BY <1>2, MineOK, OverOK DEF Reload
  <2> QED
    BY <1>2, <2>1, MineOK, OverOK DEF FlowOK
<1>4. Typed'
  BY <1>1, <1>3 DEF IInv, Typed, CallOK, RowsOK, WindowOK, apiVars
<1>5. \A c \in Callers : ~Waiting(c)'
  BY <1>1 DEF StoreReload, Waiting
<1>6. WaitsInPlace'
  BY <1>5, IdentityAssumption DEF WaitsInPlace
<1>7. ASSUME overtaken' = {} PROVE AllOurs'
  <2>1. AllOurs /\ \A r : (Theirs(r)' <=> Theirs(r)) /\ (Ours(r)' <=> Ours(r))
    BY <1>1, <1>7 DEF IInv, Theirs, Ours
  <2>2. \A h \in Handlers : LocalOurs(flow'[h])
    BY <1>2, <2>1, OverOK DEF AllOurs
  <2>3. stored' \in {stored, disk} /\ disk' = stored' /\ writeQueue' = <<>>
    BY <1>1 DEF StoreReload
  <2> QED
    BY <1>1, <2>1, <2>2, <2>3 DEF AllOurs, LocalOurs, MapOurs
<1> QED
  BY <1>1, <1>4, <1>6, <1>7 DEF IInv

-----------------------------------------------------------------------------
LEMMA InitHoldsAll ==
  ASSUME Init
  PROVE IInv
<1>1. New \in Locals /\ Ready(New) /\ LocalOurs(New) /\ New.pc = "new"
  <2>1. New \in Locals
    BY DEF New, Locals, PlaceNames, RepoOrNone
  <2>2. /\ New.pc = "new" /\ New.repo = None /\ New.old = None
        /\ New.to = None /\ New.stage = "first"
    BY DEF New
  <2> QED
    BY <2>1, <2>2, IdentityAssumption
    DEF Ready, ReadyAt, Ends, HasRepo, HasChange, HasFile, Prompts,
        LocalOurs, Ours
<1>2. FlowOK
  BY <1>1 DEF Init, FlowOK
<1>3. PICK known \in BOOLEAN, before \in Remotes \cup {None},
           files \in SUBSET Files :
        LET id == computeStableRepoId[
                    <<user, IF before = None THEN Content ELSE before, FALSE>>]
            ids == IF known THEN {id} \X files ELSE {}
        IN /\ \E x \in Hashes :
                StoreInit([i \in Ids |-> IF i \in ids THEN x ELSE None])
           /\ ApiInit([r \in RepoIds |-> IF known /\ r = id THEN user
                                         ELSE None], ids)
           /\ identity = [manual |-> None, sub |-> FALSE,
                          stored |-> IF known THEN before ELSE None,
                          lastActive |-> IF known THEN id ELSE None]
  BY DEF Init
<1> DEFINE source == IF before = None THEN Content ELSE before
           id == computeStableRepoId[<<user, source, FALSE>>]
           ids == IF known THEN {id} \X files ELSE {}
           owners == [r \in RepoIds |-> IF known /\ r = id THEN user ELSE None]
<1>4. user \in Users /\ scope = user /\ source \in Sources
  BY DEF Init, Sources
<1>5. id \in RepoIds /\ Theirs(id)
  <2>1. <<user, source, FALSE>> \in Users \X Sources \X BOOLEAN
    BY <1>4
  <2>2. id \in RepoIds
    BY <2>1, IdentityAssumption
  <2>3. scope \in Scoped(id)
    BY <1>4 DEF Scoped
  <2> QED
    BY <2>2, <2>3 DEF Theirs
<1>6. PICK x \in Hashes :
        StoreInit([i \in Ids |-> IF i \in ids THEN x ELSE None])
  BY <1>3
<1>7. /\ ApiInit(owners, ids)
      /\ identity = [manual |-> None, sub |-> FALSE,
                     stored |-> IF known THEN before ELSE None,
                     lastActive |-> IF known THEN id ELSE None]
  BY <1>3
<1>8. \A i \in ids : i[1] = id
  OBVIOUS
<1> HIDE DEF id, ids, owners
<1>9. owners \in [RepoIds -> Users \cup {None}]
  BY <1>4 DEF owners
<1>10. StoreInv
  <2>1. [i \in Ids |-> IF i \in ids THEN x ELSE None] \in Maps
    BY <1>6 DEF Maps
  <2> QED
    BY <1>6, <2>1, InitHoldsInv
<1>11. RowsOK
  <2>1. \A i \in Ids : i[1] \in RepoIds
    BY DEF Ids
  <2> QED
    BY <1>7, <1>9, <2>1 DEF ApiInit, RowsOK
<1>12. CallOK
  <2>1. NoCall \in Calls /\ NoCall.st = "none"
    BY DEF NoCall, Calls, RepoOrNone
  <2> QED
    BY <1>7, <2>1 DEF ApiInit, CallOK
<1>13. /\ identity \in Identities
       /\ identity.lastActive \in {id, None}
  BY <1>5, <1>7 DEF Identities, RepoOrNone
<1>14. WindowOK
  BY <1>13 DEF Init, WindowOK
<1>15. /\ stored = [i \in Ids |-> IF i \in ids THEN x ELSE None]
       /\ disk = stored /\ writing = None /\ writeQueue = <<>>
  BY <1>6 DEF StoreInit
<1>16. WaitsInPlace
  BY <1>15 DEF WaitsInPlace, Waiting
<1>17. MapOurs(stored) /\ MapOurs(disk)
  BY <1>5, <1>8, <1>15 DEF MapOurs
<1>18. AllOurs
  BY <1>1, <1>5, <1>13, <1>15, <1>17, IdentityAssumption
  DEF AllOurs, Ours, Init
<1> QED
  BY <1>2, <1>10, <1>11, <1>12, <1>14, <1>16, <1>18 DEF IInv, Typed, Init

LEMMA NextKeepsInv ==
  ASSUME IInv, [Next]_vars
  PROVE IInv'
<1>1. ASSUME NEW h \in Handlers,
             HandlerStep(h) \/ \E force \in BOOLEAN : CheckStarts(h, force)
      PROVE IInv'
  BY <1>1, CheckDoes, CommandDoes, UploadDoes, MigrationDoes,
     CheckStartsDoes, DoesKeepsInv DEF HandlerStep
<1>2. ASSUME NEW h \in Handlers, ServeStep(h) \/ RequestFails(h)
      PROVE IInv'
  BY <1>2, ServeOK, ApiKeepsInv DEF ServeStep, RequestFails, idVars
<1>3. CASE UNCHANGED vars
  <2>1. CallOK' /\ RowsOK'
    BY <1>3 DEF vars, apiVars, IInv, Typed, CallOK, RowsOK
  <2> QED
    BY <1>3, <2>1, ApiKeepsInv DEF vars, idVars, storeUnchanged
<1> QED
  BY <1>1, <1>2, <1>3, WriterKeepsInv, RemoteKeepsInv, SwitchKeepsInv,
     SwitchedKeepsInv, ReloadKeepsInv DEF Next

(* The flows, the store and the API together keep their invariant, for any *)
(* number of handlers, users, remotes and files.                           *)
THEOREM IdentityInvariant == Spec => []IInv
<1>1. Init => IInv
  BY InitHoldsAll
<1>2. IInv /\ [Next]_vars => IInv'
  BY NextKeepsInv
<1> QED
  BY <1>1, <1>2, PTL DEF Spec

(* To the store every step is one of its own, or none.                     *)
LEMMA NextIsStoreStep ==
  ASSUME IInv, [Next]_vars
  PROVE [StoreStep]_storeVars
<1>1. ASSUME NEW h \in Handlers,
             HandlerStep(h) \/ \E force \in BOOLEAN : CheckStarts(h, force)
      PROVE [StoreStep]_storeVars
  <2>1. Does(h)
    BY <1>1, CheckDoes, CommandDoes, UploadDoes, MigrationDoes,
       CheckStartsDoes DEF HandlerStep
  <2> QED
    BY <2>1 DEF Does, Quiet, Asks, StoreStep, storeUnchanged
<1>2. ASSUME NEW h \in Handlers, ServeStep(h) \/ RequestFails(h)
      PROVE UNCHANGED storeVars
  BY <1>2 DEF ServeStep, RequestFails, storeUnchanged
<1>3. ASSUME WriterStep \/ Reload PROVE StoreStep
  BY <1>3 DEF WriterStep, Reload, StoreStep
<1>4. ASSUME NEW r \in Remotes \cup {None}, RemoteChanges(r)
      PROVE UNCHANGED storeVars
  BY <1>4 DEF RemoteChanges, storeUnchanged
<1>5. ASSUME NEW u \in Users, AccountSwitches(u) PROVE StoreStep
  <2>1. ClearAllOf(activation) \in Writes
    BY IdentityAssumption DEF ClearAllOf, Writes, ClearAlls
  <2> QED
    BY <1>5, <2>1 DEF AccountSwitches, StoreStep
<1>6. AccountSwitched \/ UNCHANGED vars => UNCHANGED storeVars
  BY DEF AccountSwitched, storeUnchanged, vars
<1> QED
  BY <1>1, <1>2, <1>3, <1>4, <1>5, <1>6 DEF Next

(* So the flows see the atomic map: their writes take effect one at a      *)
(* time, none is lost to another, and a reload undoes at most one.         *)
THEOREM WindowImplementsMap == Spec => ImplementsMap
<1>1. Init => Map!Init
  <2>1. ASSUME Init PROVE stored \in Maps /\ disk = stored
    <3>1. IInv
      BY <2>1, InitHoldsAll
    <3>2. writing = None
      BY <2>1 DEF Init, StoreInit
    <3> QED
      BY <3>1, <3>2 DEF IInv, StoreInv, StoreTypeOK, Settled
  <2> QED
    BY <2>1 DEF Map!Init, Map!Maps, Map!Ids, Maps, Ids
<1>2. IInv /\ [Next]_vars => [Map!Next]_(Map!vars)
  BY NextIsStoreStep, StepRefines DEF IInv
<1> QED
  BY <1>1, <1>2, IdentityInvariant, PTL DEF Spec, ImplementsMap, Map!Spec

(* Types of the window and of the rows of the API.                         *)
THEOREM IdentityTypes == Spec => []TypeOK
<1>1. IInv => TypeOK
  <2>1. ASSUME IInv, NEW h \in Handlers
        PROVE /\ flow[h].pc \in PlaceNames
              /\ {flow[h].repo, flow[h].old, flow[h].to}
                   \subseteq RepoIds \cup {None}
              /\ flow[h].files \subseteq Files
    BY <2>1, MineOK DEF Locals, RepoOrNone
  <2> QED
    BY <2>1 DEF IInv, StoreInv, Typed, RowsOK, WindowOK, TypeOK, Identities,
                RepoOrNone
<1> QED
  BY <1>1, IdentityInvariant, PTL

(* In the window, too, an index lookup finds what is tracked.              *)
THEOREM WindowFindsTracked == Spec => []IndexFindsTracked
<1>1. IInv => IndexFindsTracked
  BY DEF IInv, StoreInv, IndexFindsTracked, IndexRight, Stale, SaveUnderWay,
         Right
<1> QED
  BY <1>1, IdentityInvariant, PTL

(* The metadata and the last active id of a window are those of the user   *)
(* it is scoped to, as long as no handler of a user before goes on: a      *)
(* switch clears before it rescopes, and nothing asked for earlier is left *)
(* to be written after the clear.                                          *)
THEOREM WindowIsScoped == Spec => []StateIsScoped
<1>1. IInv => StateIsScoped
  <2>1. ASSUME IInv, overtaken = {}, identity.lastActive # None
        PROVE Theirs(identity.lastActive)
    BY <2>1 DEF IInv, AllOurs, Ours, Typed, WindowOK, Identities, RepoOrNone
  <2>2. ASSUME IInv, overtaken = {}, NEW id \in Ids, stored[id] # None
        PROVE Theirs(id[1])
    BY <2>2 DEF IInv, AllOurs, MapOurs
  <2> QED
    BY <2>1, <2>2 DEF StateIsScoped
<1> QED
  BY <1>1, IdentityInvariant, PTL

(* Whoever is offered a migration is offered one between ids of one user.  *)
THEOREM MigrationsAreOnes == Spec => []NoCrossUserMigration
<1>1. IInv => NoCrossUserMigration
  <2>1. ASSUME IInv, overtaken = {}, NEW h \in Handlers, At(h, "ask"),
               Custom \notin {flow[h].old, flow[h].to}
        PROVE Scoped(flow[h].old) \cap Scoped(flow[h].to) # {}
    <3>1. flow[h].old \in RepoIds /\ flow[h].to \in RepoIds
      BY <2>1, MineOK DEF At, Ready, ReadyAt, HasChange
    <3>2. Theirs(flow[h].old) /\ Theirs(flow[h].to)
      BY <2>1, <3>1, MineOK DEF LocalOurs, Ours
    <3> QED
      BY <2>1, <3>2 DEF Theirs
  <2> QED
    BY <2>1 DEF NoCrossUserMigration
<1> QED
  BY <1>1, IdentityInvariant, PTL
=============================================================================
