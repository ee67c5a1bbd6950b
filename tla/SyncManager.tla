---------------------------- MODULE SyncManager -----------------------------
(***************************************************************************)
(* SyncManager (watchers/env-sync-manager.ts): the watcher's events, the   *)
(* poll, the manual push and the replay of the offline queue, and what     *)
(* each does with the API's answers.  activeSyncs is the per-env lock.     *)
(***************************************************************************)
EXTENDS EnvInit

(* An invocation of h may start: h is idle in this window.                 *)
CanStart(d, h) == h \in Handlers /\ At(d, h, "idle")

(* readFileChecked: the file is there (an oversized one counts as missing).*)
(* Mutant: the null it returns is not looked at.                           *)
ReadableAlways(d) == TRUE
Readable(d) == file[d] # None

Lock(d) == activeSyncs' = activeSyncs \cup {d}

(* The invocation h of d uploads the file against the synced hash.         *)
Upload(d) == [Idle EXCEPT !.pc = "put", !.mine = file[d], !.theirs = meta[d]]

(***************************************************************************)
(* handleEnvFileSave, from the change timer or from setImmediate.  Between *)
(* the metadata read and the lock nothing else runs.                       *)
(***************************************************************************)
SaveEvents(d) == due[d] \cap {"change", "immediate"}
Fired(d, e) == [due EXCEPT ![d] = @ \ {e}]

SaveOffline(d, e) ==
  /\ e \in SaveEvents(d) /\ d \notin online
  /\ queued' = queued \cup {d}
  /\ due' = Fired(d, e)
  /\ UNCHANGED <<file, meta, ignored, memVars, online, flow, used>>
  /\ serverUnchanged

(* Mutant: a save that meets the lock is dropped.                          *)
SaveDropped(d, e) ==
  /\ e \in SaveEvents(d) /\ d \in online /\ d \in activeSyncs
  /\ due' = Fired(d, e)
  /\ UNCHANGED <<file, storeVars, memVars, online, flow, used>>
  /\ serverUnchanged

SaveCoalesced(d, e) ==
  /\ e \in SaveEvents(d) /\ d \in online /\ d \in activeSyncs
  /\ pendingSyncs' = pendingSyncs \cup {d}
  /\ due' = Fired(d, e)
  /\ UNCHANGED <<file, storeVars, activeSyncs, consecutive404s, replay,
                 online, flow, used>>
  /\ serverUnchanged

(* A missing file returns before the try: nothing is drained.              *)
SaveNoFile(d, e) ==
  /\ e \in SaveEvents(d) /\ d \in online /\ d \notin activeSyncs
  /\ ~Readable(d)
  /\ due' = Fired(d, e)
  /\ UNCHANGED <<file, storeVars, memVars, online, flow, used>>
  /\ serverUnchanged

(* Nothing to upload: locked and unlocked in one turn, draining a pending. *)
SaveUnchanged(d, e) ==
  /\ e \in SaveEvents(d) /\ d \in online /\ d \notin activeSyncs
  /\ Readable(d) /\ file[d] = meta[d]
  /\ due' = IF d \in pendingSyncs
            THEN [due EXCEPT ![d] = (@ \ {e}) \cup {"immediate"}]
            ELSE Fired(d, e)
  /\ pendingSyncs' = pendingSyncs \ {d}
  /\ UNCHANGED <<file, storeVars, activeSyncs, consecutive404s, replay,
                 online, flow, used>>
  /\ serverUnchanged

SaveStart(d, e) ==
  /\ e \in SaveEvents(d) /\ d \in online /\ d \notin activeSyncs
  /\ Readable(d) /\ file[d] # meta[d]
  /\ CanStart(d, "save")
  /\ Lock(d)
  /\ IF meta[d] = None THEN StartInit(d, "save")
     ELSE Become(d, "save", Upload(d))
  /\ due' = Fired(d, e)
  /\ UNCHANGED <<file, storeVars, pendingSyncs, consecutive404s, replay,
                 online, used>>
  /\ serverUnchanged

(* handleNewEnvFile and handleDeletedEnvFile; neither takes the lock.      *)
CreateEvent(d) ==
  /\ "create" \in due[d] /\ CanStart(d, "create")
  /\ StartInit(d, "create")
  /\ due' = Fired(d, "create")
  /\ UNCHANGED <<file, storeVars, memVars, online, used>>
  /\ serverUnchanged

DeleteEvent(d) ==
  /\ "delete" \in due[d] /\ CanStart(d, "delete")
  /\ IF d \in online /\ meta[d] # None
     THEN Become(d, "delete", [Idle EXCEPT !.pc = "del"])
     ELSE UNCHANGED flow
  /\ due' = Fired(d, "delete")
  /\ UNCHANGED <<file, storeVars, memVars, online, used>>
  /\ serverUnchanged

(***************************************************************************)
(* Uploads of a save or a push, after the API has answered.                *)
(***************************************************************************)
(* Mutant: the hash recorded is that of the file as it is by now.          *)
UploadDoneRereads(d, h) ==
  /\ At(d, h, "acked")
  /\ EndSynced(d, h, file[d])
  /\ UNCHANGED ignored

UploadDone(d, h) ==
  /\ At(d, h, "acked")
  /\ meta' = [meta EXCEPT ![d] = flow[d][h].mine]
  /\ consecutive404s' = [consecutive404s EXCEPT ![d] =
       IF h = "save" /\ ~flow[d][h].inInit THEN 0 ELSE @]
  /\ Release(d, h, TRUE)
  /\ serverUnchanged /\ UNCHANGED <<file, queued, ignored, online, used>>

(* handle404OnSave: forget the env, and try to set it up again unless this *)
(* is the Max404-th 404 in a row.                                          *)
Save404(d) ==
  /\ At(d, "save", "gone") /\ ~flow[d]["save"].inInit
  /\ meta' = [meta EXCEPT ![d] = None]
  /\ IF consecutive404s[d] + 1 >= Max404
     THEN /\ consecutive404s' = [consecutive404s EXCEPT ![d] = 0]
          /\ Release(d, "save", TRUE)
     ELSE /\ consecutive404s' = [consecutive404s EXCEPT ![d] = @ + 1]
          /\ StartInit(d, "save")
          /\ UNCHANGED <<due, activeSyncs, pendingSyncs, replay>>
  /\ serverUnchanged /\ UNCHANGED <<file, queued, ignored, online, used>>

(* pushEnv logs any other error than a conflict and resolves.              *)
Push404(d) == At(d, "push", "gone") /\ End(d, "push")

(* handle412OnSave and handle412OnPush ask the user.                       *)
UploadRefused(d, h) ==
  At(d, h, "refused") /\ ~flow[d][h].inInit /\ Await(d, h, "ask412")

UseLocal(d, h) == flow[d][h].pc \in {"ask412", "conflict"}
                    /\ Await(d, h, "override")
UseRemote(d, h) == \/ At(d, h, "ask412") /\ Await(d, h, "pull")
                   \/ At(d, h, "conflict") /\ Await(d, h, "write")
Dismiss(d, h) == flow[d][h].pc \in {"ask412", "conflict"} /\ End(d, h)

(* "Use Local" and "Force Push" call pushEnv, which finds the env in        *)
(* activeSyncs, put there by the handler that is asking, and returns.      *)
Override(d, h) == At(d, h, "override") /\ d \in activeSyncs /\ End(d, h)

(* handle412OnPush applies only if the env is still tracked.               *)
Pulled(d, h) ==
  /\ At(d, h, "pulled")
  /\ IF h = "push" /\ meta[d] = None THEN End(d, h) ELSE Await(d, h, "write")

(* applyRemoteUpdate: the document is opened, replaced and saved, whatever *)
(* it holds by then; opening a missing file throws.                        *)
ApplyRemote(d, h) ==
  /\ At(d, h, "write")
  /\ IF file[d] = None THEN Goto(d, h, "failed") /\ UNCHANGED <<file, due>>
     ELSE WriteFile(d, flow[d][h].theirs) /\ Goto(d, h, "meta")
  /\ serverUnchanged /\ UNCHANGED <<storeVars, memVars, online, used>>

(***************************************************************************)
(* pollRemoteChanges.  "loop": the tracked envs are listed and the ones    *)
(* before this one are being handled.                                      *)
(***************************************************************************)
PollStart(d) ==
  /\ CanStart(d, "poll") /\ d \in online /\ meta[d] # None
  /\ Await(d, "poll", "loop")

(* Mutant: the lock is claimed without looking.                            *)
PollVisitBlindly(d) ==
  /\ At(d, "poll", "loop")
  /\ Goto(d, "poll", "fetch") /\ Lock(d)
  /\ serverUnchanged
  /\ UNCHANGED <<file, due, storeVars, pendingSyncs, consecutive404s, replay,
                 online, used>>

PollVisit(d) ==
  /\ At(d, "poll", "loop")
  /\ IF d \in activeSyncs
     THEN Become(d, "poll", Idle) /\ UNCHANGED activeSyncs
     ELSE Goto(d, "poll", "fetch") /\ Lock(d)
  /\ serverUnchanged
  /\ UNCHANGED <<file, due, storeVars, pendingSyncs, consecutive404s, replay,
                 online, used>>

PollMissing(d) ==
  /\ At(d, "poll", "missing")
  /\ StartInit(d, "poll")
  /\ serverUnchanged /\ clientUnchanged /\ UNCHANGED used

(* The remote content is one this device has not synced.                   *)
(* Mutant: only looked at when the local file has changed as well.         *)
RemoteIsNewsIfDirty(d, theirs) ==
  meta[d] \notin {None, theirs} /\ file[d] # meta[d]
RemoteIsNews(d, theirs) == meta[d] \notin {None, theirs}

PollFetched(d) ==
  LET theirs == flow[d]["poll"].theirs
      Found(p) ==
        /\ Become(d, "poll", [flow[d]["poll"] EXCEPT !.pc = p,
                                                     !.mine = file[d]])
        /\ serverUnchanged /\ clientUnchanged /\ UNCHANGED used
  IN /\ At(d, "poll", "fetched")
     /\ \/ ~RemoteIsNews(d, theirs) /\ End(d, "poll")
        \/ /\ RemoteIsNews(d, theirs) /\ file[d] = None
           /\ StartInit(d, "poll")
           /\ serverUnchanged /\ clientUnchanged /\ UNCHANGED used
        \/ /\ RemoteIsNews(d, theirs) /\ file[d] # None
           /\ Found(IF file[d] = meta[d] THEN "write" ELSE "conflict")

(***************************************************************************)
(* pushEnv, from the command, and from the queue once back online.         *)
(***************************************************************************)
(* Mutant: the lock is claimed without looking.                            *)
PushStartBlindly(d) ==
  /\ d \in online /\ meta[d] # None /\ Readable(d)
  /\ CanStart(d, "push")
  /\ Become(d, "push", Upload(d))
  /\ Lock(d)
  /\ UNCHANGED <<file, due, storeVars, pendingSyncs, consecutive404s,
                 online, used>>
  /\ serverUnchanged

PushStart(d) ==
  /\ d \in online /\ d \notin activeSyncs /\ meta[d] # None /\ Readable(d)
  /\ CanStart(d, "push")
  /\ Become(d, "push", Upload(d))
  /\ Lock(d)
  /\ UNCHANGED <<file, due, storeVars, pendingSyncs, consecutive404s,
                 online, used>>
  /\ serverUnchanged

PushCommand(d) == PushStart(d) /\ UNCHANGED replay

PushOffline(d) ==
  /\ "push" \in Handlers
  /\ d \notin online /\ d \notin activeSyncs /\ meta[d] # None
  /\ queued' = queued \cup {d}
  /\ UNCHANGED <<file, due, meta, ignored, memVars, online, flow, used>>
  /\ serverUnchanged

(* processAll reaches the queued push.  pushEnv resolves at once when it   *)
(* finds the lock taken, no metadata, no file, or the window offline.      *)
ReplayPush(d) ==
  /\ replay[d] = "due"
  /\ \/ /\ PushStart(d)
        /\ replay' = [replay EXCEPT ![d] = "running"]
     \/ /\ d \in activeSyncs \/ meta[d] = None \/ d \notin online
             \/ ~Readable(d)
        /\ queued' = IF d \notin activeSyncs /\ meta[d] # None
                        /\ d \notin online
                     THEN queued \cup {d} ELSE queued
        /\ replay' = [replay EXCEPT ![d] = "succeeded"]
        /\ UNCHANGED <<file, due, meta, ignored, activeSyncs, pendingSyncs,
                       consecutive404s, online, flow, used>>
        /\ serverUnchanged

(* processAll removes the ids that succeeded from the queue as it is now.  *)
ReplayEnd(d) ==
  /\ replay[d] \in {"succeeded", "failed"}
  /\ queued' = IF replay[d] = "succeeded" THEN queued \ {d} ELSE queued
  /\ replay' = [replay EXCEPT ![d] = "idle"]
  /\ UNCHANGED <<file, due, meta, ignored, activeSyncs, pendingSyncs,
                 consecutive404s, online, flow, used>>
  /\ serverUnchanged

SaveEvent(d) ==
  \E e \in SaveEvents(d) :
    \/ SaveOffline(d, e) \/ SaveCoalesced(d, e) \/ SaveNoFile(d, e)
    \/ SaveUnchanged(d, e) \/ SaveStart(d, e)
SyncStep(d, h) ==
  \/ UploadDone(d, h) \/ UploadRefused(d, h)
  \/ UseLocal(d, h) \/ UseRemote(d, h) \/ Dismiss(d, h)
  \/ Override(d, h) \/ Pulled(d, h) \/ ApplyRemote(d, h)
DeviceStep(d) ==
  \/ SaveEvent(d) \/ CreateEvent(d) \/ DeleteEvent(d)
  \/ Save404(d) \/ Push404(d)
  \/ PollStart(d) \/ PollVisit(d) \/ PollMissing(d) \/ PollFetched(d)
  \/ PushCommand(d) \/ PushOffline(d) \/ ReplayPush(d) \/ ReplayEnd(d)
=============================================================================
