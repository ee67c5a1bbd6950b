---------------------------- MODULE RepoIdentity ----------------------------
(***************************************************************************)
(* Which repository a workspace is: the identity computed from a manual    *)
(* override, the git remote or the content; the initial check that notices *)
(* a change, offers a migration, registers the repository and adopts the   *)
(* API's env ids; the identity commands; and, beside them, saves of an env *)
(* file and a change of account, all in one window over MetadataStore and  *)
(* RepoApi.  The prompts of EnvInitService are left to EnvInit.            *)
(***************************************************************************)
EXTENDS MetadataStore, RepoApi

CONSTANTS Remotes,            \* normalized URLs the git remote may have
          Content,            \* the content signature
          Custom,             \* an identity the user types in, also a RepoId
          Handlers,           \* invocations, each of one of three kinds
          activation,         \* the caller that clears on an account switch
          computeStableRepoId,
          MaxDisturbances     \* bound: remote or account changes, reloads,
                              \* failed requests

Sources == Remotes \cup {Content} \cup RepoIds

ASSUME IdentityAssumption ==
  /\ Callers = Handlers \cup {activation} /\ activation \notin Handlers
  /\ Custom \in RepoIds /\ None \notin RepoIds
  /\ computeStableRepoId \in [Users \X Sources \X BOOLEAN -> RepoIds]

VARIABLES user,      \* secrets: who is signed in
          scope,     \* globalState: LAST_AUTHENTICATED_USER_KEY
          switching, \* the account switch is waiting for its clears
          remote,    \* the live git remote, or None
          identity,  \* RepoIdentityStore's entry for the workspace
          skipped,   \* REPO_REGISTRATION_SKIPPED_KEY
          flow,      \* each handler's place and locals
          overtaken, \* history: handlers running when the account changed
          disturbances  \* how many there were, up to MaxDisturbances

idVars == <<user, scope, switching, remote, identity, skipped, flow,
            overtaken, disturbances>>
vars == <<storeVars, apiVars, idVars>>
storeUnchanged == UNCHANGED storeVars
apiUnchanged == UNCHANGED apiVars

New == [pc |-> "new", kind |-> "none", repo |-> None, old |-> None,
        to |-> None, file |-> None, force |-> FALSE, again |-> FALSE,
        stage |-> "first", hash |-> None, asked |-> {}, seen |-> {},
        files |-> {}]

(* A workspace never seen before, or one whose repository an earlier       *)
(* session has registered, under the remote it had then, with some of its  *)
(* files tracked.                                                          *)
Init ==
  /\ user \in Users /\ scope = user /\ switching = FALSE
  /\ remote \in Remotes \cup {None}
  /\ \E known \in BOOLEAN, before \in Remotes \cup {None},
        files \in SUBSET Files :
       LET id == computeStableRepoId[
                   <<user, IF before = None THEN Content ELSE before, FALSE>>]
           ids == IF known THEN {id} \X files ELSE {}
       IN /\ \E h \in Hashes :
               StoreInit([i \in Ids |-> IF i \in ids THEN h ELSE None])
          /\ ApiInit([r \in RepoIds |-> IF known /\ r = id THEN user
                                        ELSE None], ids)
          /\ identity = [manual |-> None, sub |-> FALSE,
                         stored |-> IF known THEN before ELSE None,
                         lastActive |-> IF known THEN id ELSE None]
  /\ skipped = {}
  /\ flow = [h \in Handlers |-> New]
  /\ overtaken = {} /\ disturbances = 0

-----------------------------------------------------------------------------
(* getCurrentWorkspaceId: manual override, live remote, stored remote,     *)
(* content signature.  A live remote is remembered.                        *)
Source ==
  IF identity.manual # None THEN identity.manual
  ELSE IF remote # None THEN remote
  ELSE IF identity.stored # None THEN identity.stored ELSE Content
CurrentId == computeStableRepoId[<<scope, Source, identity.sub>>]
Remembered ==
  IF identity.manual = None /\ remote # None
  THEN [identity EXCEPT !.stored = remote] ELSE identity

(* buildMigrationInfo: the id changed since the last check, not by hand.   *)
Changed == /\ identity.manual = None
           /\ identity.lastActive \notin {None, CurrentId}

At(h, pc) == flow[h].pc = pc
OthersForget(h) ==
  [g \in Handlers |->
     IF g = h THEN flow[g] ELSE [flow[g] EXCEPT !.asked = {}]]
(* A handler's locals are forgotten where it ends.                         *)
Over == [New EXCEPT !.pc = "over"]
Placed(local, pc) == IF pc = "over" THEN Over ELSE [local EXCEPT !.pc = pc]
Go(h, pc) == flow' = [flow EXCEPT ![h] = Placed(flow[h], pc)]
Kept == UNCHANGED <<user, scope, switching, remote, disturbances>>
Restrained == Kept /\ UNCHANGED overtaken
OnlyFlow == Restrained /\ UNCHANGED <<identity, skipped>>

-----------------------------------------------------------------------------
(***************************************************************************)
(* performInitialCheck, on activation, sign-in or by command (force).      *)
(***************************************************************************)
CheckStarts(k, force) ==
  /\ At(k, "new") /\ ~switching
  /\ flow' = [flow EXCEPT ![k].pc = "resolve", ![k].kind = "check",
                          ![k].force = force]
  /\ OnlyFlow /\ storeUnchanged /\ apiUnchanged

Resolve(k) ==
  /\ At(k, "resolve")
  /\ identity' = Remembered
  /\ flow' = [flow EXCEPT ![k].repo = CurrentId,
                          ![k].pc = IF Changed THEN "detect" ELSE "activate"]
  /\ Restrained /\ storeUnchanged /\ apiUnchanged /\ UNCHANGED skipped

(* What the prompt was about is forgotten, but for history's sake.         *)
Unprompted(local) == [local EXCEPT !.old = None, !.to = None]
(* Where a handler goes on when the migration prompt led to nothing.       *)
AfterPrompt(h) == IF flow[h].stage = "first" THEN "activate" ELSE "over"

Decided(h) ==
  flow' = [flow EXCEPT ![h] = Placed(Unprompted(@), AfterPrompt(h))]

(* handleAutomaticMigrationPrompt computes the identity anew before it     *)
(* asks; so does the migrate command.                                      *)
Detect(h) ==
  /\ At(h, "detect")
  /\ identity' = Remembered
  /\ flow' = IF Changed
             THEN [flow EXCEPT
                     ![h].pc = "ask", ![h].old = identity.lastActive,
                     ![h].to = CurrentId,
                     ![h].asked = @ \cup {<<identity.lastActive, CurrentId>>}]
             ELSE [flow EXCEPT ![h] = Placed(@, AfterPrompt(h))]
  /\ Restrained /\ storeUnchanged /\ apiUnchanged /\ UNCHANGED skipped

(* "Migrate Now": performMigration starts with the metadata.               *)
ChooseMigrate(h) ==
  /\ At(h, "ask")
  /\ Request(MigrateOf(h, flow[h].old, flow[h].to))
  /\ Go(h, "moving")
  /\ OnlyFlow /\ apiUnchanged

ChooseKeep(h) ==
  /\ At(h, "ask") /\ flow[h].stage # "named"
  /\ identity' = [identity EXCEPT !.manual = flow[h].old]
  /\ Decided(h)
  /\ Restrained /\ storeUnchanged /\ apiUnchanged /\ UNCHANGED skipped

(* "Remind Me Later", or the prompt is dismissed.                          *)
ChooseLater(h) ==
  /\ At(h, "ask")
  /\ Decided(h)
  /\ OnlyFlow /\ storeUnchanged /\ apiUnchanged

(* The metadata is moved: the new id becomes the last active one, "to      *)
(* prevent re-detection of migration needed", and the API is told.         *)
LastActiveKept(h) == identity
LastActiveMoved(h) == [identity EXCEPT !.lastActive = flow[h].to]
Moved(h) ==
  /\ At(h, "moving") /\ ~Waiting(h)
  /\ identity' = LastActiveMoved(h)
  /\ Send(h, [Asking("migrate", user, flow[h].old) EXCEPT !.to = flow[h].to])
  /\ flow' = [OthersForget(h) EXCEPT ![h].pc = "telling"]
  /\ Restrained /\ storeUnchanged /\ UNCHANGED skipped

(* Whatever the API says the migration counts as done; the initial check   *)
(* starts over, once.                                                      *)
Told(h) ==
  /\ At(h, "telling") /\ Answered(h, "migrate")
  /\ Take(h)
  /\ flow' = IF flow[h].stage = "first" /\ ~flow[h].again
             THEN [flow EXCEPT ![h] = [Unprompted(@) EXCEPT !.pc = "resolve",
                                                           !.again = TRUE]]
             ELSE [flow EXCEPT ![h] = Placed(Unprompted(@), AfterPrompt(h))]
  /\ OnlyFlow /\ storeUnchanged

(* updateLastActiveRepoId with what resolve found, and                     *)
(* ensureRepoRegistered.                                                   *)
Activate(k) ==
  /\ At(k, "activate")
  /\ identity' = [identity EXCEPT !.lastActive = flow[k].repo]
  /\ Send(k, Asking("exists", user, flow[k].repo))
  /\ flow' = [OthersForget(k) EXCEPT ![k].pc = "exists"]
  /\ Restrained /\ storeUnchanged /\ UNCHANGED skipped

ListNext(k) == Asking("list", user, flow[k].repo)
Existence(k) ==
  /\ At(k, "exists") /\ Answered(k, "exists")
  /\ \/ /\ call[k].res = "yes"
        /\ Send(k, ListNext(k)) /\ Go(k, "list")
     \/ /\ call[k].res = "no" /\ (flow[k].force \/ flow[k].repo \notin skipped)
        /\ flow' = [flow EXCEPT ![k].pc = "register", ![k].seen = skipped]
        /\ Take(k)
     \/ /\ \/ call[k].res = "failed"
           \/ call[k].res = "no" /\ ~flow[k].force /\ flow[k].repo \in skipped
        /\ Go(k, "over") /\ Take(k)
  /\ OnlyFlow /\ storeUnchanged

(* Declined: the flag joins the flags read before the prompt.              *)
Decline(k) ==
  /\ At(k, "register")
  /\ skipped' = flow[k].seen \cup {flow[k].repo}
  /\ Go(k, "over")
  /\ Restrained /\ storeUnchanged /\ apiUnchanged /\ UNCHANGED identity

(* Agreed, but no name given, or named.                                    *)
LeaveUnnamed(k) ==
  /\ At(k, "register")
  /\ Go(k, "over")
  /\ OnlyFlow /\ storeUnchanged /\ apiUnchanged

Register(k) ==
  /\ At(k, "register")
  /\ Send(k, Asking("createRepo", user, flow[k].repo))
  /\ Go(k, "creating")
  /\ OnlyFlow /\ storeUnchanged

Registered(k) ==
  /\ At(k, "creating") /\ Answered(k, "createRepo")
  /\ IF call[k].res = "ok"
     THEN /\ skipped' = skipped \ {flow[k].repo}
          /\ Send(k, ListNext(k))
          /\ flow' = [flow EXCEPT ![k].pc = "list", ![k].seen = {}]
     ELSE skipped' = skipped /\ Take(k) /\ Go(k, "over")
  /\ Restrained /\ storeUnchanged /\ UNCHANGED identity

(* syncRepoEnvs: a failed list counts as an empty one.                     *)
Listed(k) ==
  /\ At(k, "list") /\ Answered(k, "list")
  /\ flow' = [flow EXCEPT ![k].pc = "sync",
                ![k].files = IF call[k].res = "ok" THEN call[k].files ELSE {}]
  /\ Take(k)
  /\ OnlyFlow /\ storeUnchanged

(* loadEnvMetadata by computed id, else by file name.                      *)
Existing(repo, f) ==
  IF stored[computeEnvId(repo, f)] # None THEN computeEnvId(repo, f)
  ELSE Found(fileNameIndex', f)

(* The lookup by name builds the index, the one by id does not need it.    *)
Reads(repo, f) ==
  IF stored[computeEnvId(repo, f)] # None THEN storeUnchanged
  ELSE LookUp

(* reconcileEnvFile of a file the API has and the workspace too: metadata  *)
(* under another id moves to the API's, "otherwise every save PUTs to the  *)
(* wrong id".                                                              *)
Adopt(k, f) ==
  /\ At(k, "sync") /\ f \in flow[k].files
  /\ identity' = Remembered
  /\ Reads(CurrentId, f)
  /\ LET id == Existing(CurrentId, f) IN
     flow' = IF id \in {None, computeEnvId(flow[k].repo, f)}
             THEN [flow EXCEPT ![k].files = @ \ {f}]
             ELSE [flow EXCEPT ![k].pc = "clear", ![k].old = id[1],
                               ![k].file = f, ![k].hash = stored[id]]
  /\ Restrained /\ apiUnchanged /\ UNCHANGED skipped

AdoptClears(k) ==
  /\ At(k, "clear")
  /\ Request(ClearOf(k, computeEnvId(flow[k].old, flow[k].file)))
  /\ Go(k, "clearing")
  /\ OnlyFlow /\ apiUnchanged

AdoptSaves(k) ==
  /\ flow[k].kind = "check" /\ At(k, "clearing") /\ ~Waiting(k)
  /\ Request(SaveOf(k, computeEnvId(flow[k].repo, flow[k].file), flow[k].hash))
  /\ flow' = [flow EXCEPT ![k] = [Unprompted(@) EXCEPT !.pc = "saving",
                 !.files = flow[k].files \ {flow[k].file},
                 !.file = None, !.hash = None]]
  /\ OnlyFlow /\ apiUnchanged

Adopted(k) ==
  /\ flow[k].kind = "check" /\ At(k, "saving") /\ ~Waiting(k)
  /\ Go(k, "sync")
  /\ OnlyFlow /\ storeUnchanged /\ apiUnchanged

(* The second look at the identity, after the envs.                        *)
SyncEnds(k) ==
  /\ At(k, "sync") /\ flow[k].files = {}
  /\ flow' = [flow EXCEPT ![k].pc = "detect", ![k].stage = "second"]
  /\ OnlyFlow /\ storeUnchanged /\ apiUnchanged

CheckStep(k) ==
  \/ Resolve(k) \/ Activate(k) \/ Existence(k)
  \/ Decline(k) \/ LeaveUnnamed(k) \/ Register(k) \/ Registered(k)
  \/ Listed(k) \/ AdoptClears(k) \/ AdoptSaves(k) \/ Adopted(k) \/ SyncEnds(k)
  \/ \E f \in Files : Adopt(k, f)

(* The migration prompt and what follows, of checks and commands alike.    *)
MigrationStep(h) ==
  \/ Detect(h) \/ Moved(h) \/ Told(h)
  \/ ChooseMigrate(h) \/ ChooseKeep(h) \/ ChooseLater(h)

-----------------------------------------------------------------------------
(***************************************************************************)
(* The identity commands, which can be given at any time.                  *)
(***************************************************************************)
Given(m) == /\ At(m, "new") /\ Kept
            /\ overtaken' = IF switching THEN overtaken \cup {m} ELSE overtaken

MigrateCommand(m) ==
  /\ Given(m)
  /\ flow' = [flow EXCEPT ![m].pc = "detect", ![m].kind = "command",
                          ![m].stage = "command"]
  /\ UNCHANGED <<identity, skipped>> /\ storeUnchanged /\ apiUnchanged

(* setManualRepoIdentity shows the current id while the user types.        *)
NameCommand(m) ==
  /\ Given(m)
  /\ identity' = Remembered
  /\ flow' = [flow EXCEPT ![m].pc = "naming", ![m].kind = "command",
                          ![m].stage = "named",
                          ![m].old = CurrentId, ![m].to = Custom]
  /\ storeUnchanged /\ apiUnchanged /\ UNCHANGED skipped

(* The typed name is stored; metadata of the former id may follow, to the  *)
(* name itself as an id.                                                   *)
Named(m) ==
  /\ At(m, "naming") /\ flow[m].old # Custom
  /\ identity' = [identity EXCEPT !.manual = Custom]
  /\ Go(m, IF \E f \in Files : stored[computeEnvId(flow[m].old, f)] # None
           THEN "ask" ELSE "over")
  /\ Restrained /\ storeUnchanged /\ apiUnchanged /\ UNCHANGED skipped

NameDismissed(m) ==
  /\ At(m, "naming")
  /\ Go(m, "over")
  /\ OnlyFlow /\ storeUnchanged /\ apiUnchanged

(* setSubProjectPath reads the identity twice after storing the path, so   *)
(* it never sees a difference and offers no migration.                     *)
SubProjectCommand(m) ==
  /\ Given(m)
  /\ identity' = [Remembered EXCEPT !.sub = TRUE]
  /\ Go(m, "over")
  /\ storeUnchanged /\ apiUnchanged /\ UNCHANGED skipped

ResetCommand(m) ==
  /\ Given(m)
  /\ identity' = [identity EXCEPT !.manual = None, !.lastActive = None]
  /\ Go(m, "over")
  /\ storeUnchanged /\ apiUnchanged /\ UNCHANGED skipped

CommandStep(m) ==
  \/ MigrateCommand(m) \/ NameCommand(m) \/ Named(m) \/ NameDismissed(m)
  \/ SubProjectCommand(m) \/ ResetCommand(m)

-----------------------------------------------------------------------------
(***************************************************************************)
(* A save or create event of an env file, which the watcher brings unless  *)
(* an account switch has stopped it: what handleEnvFileSave and            *)
(* maybeInitializeOrRestore do with ids, the rest is SyncManager's and     *)
(* EnvInit's.                                                              *)
(***************************************************************************)
UploadStarts(u, f) ==
  /\ At(u, "new") /\ ~switching
  /\ identity' = Remembered
  /\ Reads(CurrentId, f)
  /\ LET id == Existing(CurrentId, f) IN
     IF id = None
     THEN /\ flow' = [flow EXCEPT ![u].pc = "init", ![u].kind = "upload",
                                  ![u].file = f]
          /\ apiUnchanged
     ELSE /\ flow' = [flow EXCEPT ![u].pc = "put", ![u].kind = "upload",
                                  ![u].repo = id[1], ![u].file = f]
          /\ Send(u, [Asking("update", user, id[1]) EXCEPT !.file = f])
  /\ Restrained /\ UNCHANGED skipped

(* An answer, the hash it makes known, a row that is gone, or an error.    *)
Uploaded(u) ==
  /\ At(u, "put") /\ Answered(u, "update")
  /\ Take(u)
  /\ LET id == computeEnvId(flow[u].repo, flow[u].file) IN
     \/ /\ call[u].res = "ok" /\ Go(u, "saving")
        /\ \E h \in Hashes : Request(SaveOf(u, id, h))
     \/ /\ call[u].res = "missing" /\ Go(u, "clearing")
        /\ Request(ClearOf(u, id))
     \/ call[u].res = "failed" /\ Go(u, "over") /\ storeUnchanged
  /\ OnlyFlow

(* The file is taken for a new one, unless 404s have come too often.       *)
Cleansed(u) ==
  /\ flow[u].kind = "upload" /\ At(u, "clearing") /\ ~Waiting(u)
  /\ \E pc \in {"init", "over"} : Go(u, pc)
  /\ OnlyFlow /\ storeUnchanged /\ apiUnchanged

(* A repository declined at the initial check is left alone.               *)
InitStarts(u) ==
  /\ At(u, "init")
  /\ identity' = Remembered
  /\ IF CurrentId \in skipped
     THEN Go(u, "over") /\ apiUnchanged
     ELSE /\ flow' = [flow EXCEPT ![u].pc = "exists?", ![u].repo = CurrentId]
          /\ Send(u, Asking("exists", user, CurrentId))
  /\ Restrained /\ storeUnchanged /\ UNCHANGED skipped

InitExistence(u) ==
  /\ At(u, "exists?") /\ Answered(u, "exists")
  /\ \/ call[u].res = "yes" /\ Take(u) /\ Go(u, "tracked?")
     \/ /\ call[u].res = "no" /\ Go(u, "creating?")
        /\ Send(u, Asking("createRepo", user, flow[u].repo))
     \/ call[u].res \in {"no", "failed"} /\ Take(u) /\ Go(u, "over")
  /\ OnlyFlow /\ storeUnchanged

InitRegistered(u) ==
  /\ At(u, "creating?") /\ Answered(u, "createRepo")
  /\ Take(u) /\ Go(u, IF call[u].res = "ok" THEN "tracked?" ELSE "over")
  /\ OnlyFlow /\ storeUnchanged

InitChecks(u) ==
  /\ At(u, "tracked?")
  /\ LookUp
  /\ IF Existing(flow[u].repo, flow[u].file) # None
     THEN Go(u, "over") /\ apiUnchanged
     ELSE Send(u, ListNext(u)) /\ Go(u, "listing")
  /\ OnlyFlow

(* With a row: restore or first-time sync.  Without: initialize.  Either   *)
(* may be declined.                                                        *)
InitPrompts(u) ==
  /\ At(u, "listing") /\ Answered(u, "list")
  /\ \/ /\ flow[u].file \in call[u].files /\ call[u].res = "ok"
        /\ \E h \in Hashes :
             Request(SaveOf(u, computeEnvId(flow[u].repo, flow[u].file), h))
        /\ Take(u) /\ Go(u, "saving")
     \/ /\ flow[u].file \notin call[u].files \/ call[u].res = "failed"
        /\ Send(u, [Asking("createEnv", user, flow[u].repo)
                      EXCEPT !.file = flow[u].file])
        /\ Go(u, "posting") /\ storeUnchanged
     \/ Take(u) /\ Go(u, "over") /\ storeUnchanged
  /\ OnlyFlow

InitPosted(u) ==
  /\ At(u, "posting") /\ Answered(u, "createEnv")
  /\ Take(u)
  /\ IF call[u].res = "ok"
     THEN /\ Go(u, "saving")
          /\ \E h \in Hashes :
               Request(SaveOf(u, computeEnvId(flow[u].repo, flow[u].file), h))
     ELSE Go(u, "over") /\ storeUnchanged
  /\ OnlyFlow

Saved(u) ==
  /\ flow[u].kind = "upload" /\ At(u, "saving") /\ ~Waiting(u)
  /\ Go(u, "over")
  /\ OnlyFlow /\ storeUnchanged /\ apiUnchanged

UploadStep(u) ==
  \/ Uploaded(u) \/ Cleansed(u) \/ InitStarts(u) \/ InitExistence(u)
  \/ InitRegistered(u) \/ InitChecks(u) \/ InitPrompts(u) \/ InitPosted(u)
  \/ Saved(u)
  \/ \E f \in Files : UploadStarts(u, f)

-----------------------------------------------------------------------------
(***************************************************************************)
(* The environment, and the window's life.                                 *)
(***************************************************************************)
Disturb == /\ disturbances < MaxDisturbances
           /\ disturbances' = disturbances + 1
Running == {h \in Handlers : flow[h].pc \notin {"new", "over"}}

RemoteChanges(r) ==
  /\ r # remote /\ Disturb
  /\ remote' = r
  /\ storeUnchanged /\ apiUnchanged
  /\ UNCHANGED <<user, scope, switching, identity, skipped, flow, overtaken>>

RequestFails(h) ==
  /\ Disturb /\ CallFails(h)
  /\ storeUnchanged
  /\ UNCHANGED <<user, scope, switching, remote, identity, skipped, flow,
                 overtaken>>

(* clearAll of the identity store; before it, a clear that forgets only    *)
(* the override, for comparison.                                           *)
ClearedOverride == [identity EXCEPT !.manual = None]
ClearedIdentity == [manual |-> None, lastActive |-> None, stored |-> None,
                    sub |-> FALSE]

(* Another user signs in: clearUserScopedWorkspaceState starts.  Handlers  *)
(* of the user before go on.                                               *)
AccountSwitches(u) ==
  /\ u # user /\ ~switching /\ Disturb
  /\ user' = u /\ switching' = TRUE
  /\ Request(ClearAllOf(activation))
  /\ identity' = ClearedIdentity
  /\ skipped' = {}
  /\ overtaken' = overtaken \cup Running
  /\ apiUnchanged /\ UNCHANGED <<scope, remote, flow>>

(* The clears are done: the new user's id scopes identities from now on    *)
(* (ClearsUnawaited: a switch that forgets to await them, for comparison). *)
ClearsUnawaited == switching
ClearsDone == switching /\ ~Waiting(activation)
AccountSwitched ==
  /\ ClearsDone
  /\ scope' = user /\ switching' = FALSE
  /\ storeUnchanged /\ apiUnchanged
  /\ UNCHANGED <<user, remote, identity, skipped, flow, overtaken,
                 disturbances>>

(* A reload ends every handler; what they asked the API for goes on.  The  *)
(* scope is only seeded where none is stored.                              *)
Reload ==
  /\ Disturb
  /\ StoreReload
  /\ flow' = [h \in Handlers |->
                IF h \in Running THEN Over ELSE flow[h]]
  /\ switching' = FALSE
  /\ apiUnchanged
  /\ UNCHANGED <<user, scope, remote, identity, skipped, overtaken>>

WriterStep == /\ StartWrite \/ EndWrite
              /\ apiUnchanged /\ UNCHANGED idVars
ServeStep(h) == ServerStep(h) /\ storeUnchanged /\ UNCHANGED idVars

HandlerStep(h) ==
  \/ CheckStep(h) \/ CommandStep(h) \/ UploadStep(h) \/ MigrationStep(h)

Next ==
  \/ \E h \in Handlers :
       \/ HandlerStep(h) \/ ServeStep(h) \/ RequestFails(h)
       \/ \E force \in BOOLEAN : CheckStarts(h, force)
  \/ WriterStep
  \/ \E r \in Remotes \cup {None} : RemoteChanges(r)
  \/ \E u \in Users : AccountSwitches(u)
  \/ AccountSwitched \/ Reload

Spec == Init /\ [][Next]_vars
-----------------------------------------------------------------------------
PlaceNames ==
  {"new", "resolve", "detect", "ask", "moving", "telling", "activate",
   "exists", "register", "creating", "list", "sync", "clear", "clearing",
   "saving", "naming", "put", "init", "exists?", "creating?", "tracked?",
   "listing", "posting", "over"}

TypeOK ==
  /\ StoreTypeOK
  /\ owner \in [RepoIds -> Users \cup {None}]
  /\ rows \in [Ids -> Users \cup {None}]
  /\ user \in Users /\ scope \in Users /\ switching \in BOOLEAN
  /\ remote \in Remotes \cup {None}
  /\ identity \in [manual : RepoIds \cup {None}, sub : BOOLEAN,
                   lastActive : RepoIds \cup {None},
                   stored : Remotes \cup {None}]
  /\ skipped \subseteq RepoIds /\ overtaken \subseteq Handlers
  /\ \A h \in Handlers :
       /\ flow[h].pc \in PlaceNames
       /\ {flow[h].repo, flow[h].old, flow[h].to} \subseteq RepoIds \cup {None}
       /\ flow[h].files \subseteq Files

(* Within one check or command nobody is asked twice about one change of   *)
(* identity: a migration that was made, declined or put off is not offered *)
(* again by the second look or the restarted check, whatever changes in    *)
(* between, unless another handler has recorded an id since.  A check that *)
(* still holds an id resolved before a change records that as the last     *)
(* active one (performInitialCheck's updateLastActiveRepoId), and may ask  *)
(* again.                                                                  *)
ResolvedBefore(h) == flow[h].repo \notin {None, CurrentId}
AskedOncePerChange ==
  [][\A h \in Handlers :
       At(h, "detect") /\ At(h, "ask")' /\ ~ResolvedBefore(h) =>
         <<flow'[h].old, flow'[h].to>> \notin flow[h].asked]_vars

(* A window's metadata and its identity belong to the account the window   *)
(* is scoped to, also while a switch of the account clears them and when a *)
(* reload interrupts that, unless a handler of the user before goes on     *)
(* (clearUserScopedWorkspaceState): or one user's ids are offered, shown   *)
(* and sent as another's.                                                  *)
Scoped(r) == {u \in Users : \E x \in Sources, b \in BOOLEAN :
                              computeStableRepoId[<<u, x, b>>] = r}
Theirs(r) == r = Custom \/ scope \in Scoped(r)
StateIsScoped ==
  overtaken = {} =>
    /\ identity.lastActive # None => Theirs(identity.lastActive)
    /\ \A id \in Ids : stored[id] # None => Theirs(id[1])

(* Nobody is offered to migrate from another user's repository, or to one, *)
(* which is why the identity is cleared on an account switch               *)
(* (extension.ts:193): the two ids are hashed for one user, unless one was *)
(* typed in.  It holds unless a handler of the user before went on.        *)
NoCrossUserMigration ==
  overtaken = {} =>
    \A h \in Handlers :
      At(h, "ask") /\ Custom \notin {flow[h].old, flow[h].to} =>
        Scoped(flow[h].old) \cap Scoped(flow[h].to) # {}
=============================================================================
