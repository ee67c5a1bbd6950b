------------------------------ MODULE EnvSync -------------------------------
(***************************************************************************)
(* The whole: devices running SyncManager and EnvInitService against one   *)
(* API, with users who edit, a network that fails, and windows that are    *)
(* reloaded.                                                               *)
(***************************************************************************)
EXTENDS SyncManager

CONSTANT InitialRow   \* what every device has synced at first, or None

ASSUME InitialRowAssumption == InitialRow \in Contents \cup {None}

Init ==
  /\ server = InitialRow
  /\ held = {InitialRow} \ {None}
  /\ abandoned = {}
  /\ file = [d \in Devices |-> InitialRow]
  /\ due = [d \in Devices |-> {}]
  /\ meta = [d \in Devices |-> InitialRow]
  /\ queued = {} /\ ignored = {}
  /\ activeSyncs = {} /\ pendingSyncs = {}
  /\ consecutive404s = [d \in Devices |-> 0]
  /\ replay = [d \in Devices |-> "idle"]
  /\ online = Devices
  /\ flow = [d \in Devices |-> [h \in Syncing \cup Unlocked |-> Idle]]
  /\ used = [edits |-> 0, faults |-> 0, flaps |-> 0, restarts |-> 0]

(***************************************************************************)
(* The environment: users, connectivity, reloads.                          *)
(***************************************************************************)
Edit(d, c) ==
  /\ c # file[d]
  /\ Spend("edits")
  /\ WriteFile(d, c)
  /\ serverUnchanged /\ UNCHANGED <<storeVars, memVars, online, flow>>

RemoveFile(d) ==
  /\ "delete" \in Handlers /\ file[d] # None
  /\ Spend("edits")
  /\ file' = [file EXCEPT ![d] = None]
  /\ due' = [due EXCEPT ![d] = @ \cup {"delete"}]
  /\ serverUnchanged /\ UNCHANGED <<storeVars, memVars, online, flow>>

GoOffline(d) ==
  /\ d \in online
  /\ Spend("flaps")
  /\ online' = online \ {d}
  /\ serverUnchanged /\ UNCHANGED <<file, due, storeVars, memVars, flow>>

(* The online event: extension.ts replays the queue, unless it is still    *)
(* being processed (isProcessing); the poll may start from now on.         *)
GoOnline(d) ==
  /\ d \notin online
  /\ online' = online \cup {d}
  /\ replay' = [replay EXCEPT ![d] =
       IF d \in queued /\ @ = "idle" THEN "due" ELSE @]
  /\ serverUnchanged
  /\ UNCHANGED <<file, due, storeVars, activeSyncs, pendingSyncs,
                 consecutive404s, flow, used>>

(* A reload loses everything in memory; the API may go on with updates.    *)
Reload(d) ==
  /\ "boot" \in Handlers
  /\ Spend("restarts")
  /\ flow' = [flow EXCEPT ![d] = [h \in Syncing \cup Unlocked |->
       IF h = "boot" THEN [Idle EXCEPT !.pc = "init", !.inInit = TRUE]
       ELSE Idle]]
  /\ abandoned' = abandoned \cup
                  UNION {InFlight(d, h) : h \in Syncing \cup Unlocked}
  /\ due' = [due EXCEPT ![d] = {}]
  /\ activeSyncs' = activeSyncs \ {d}
  /\ pendingSyncs' = pendingSyncs \ {d}
  /\ consecutive404s' = [consecutive404s EXCEPT ![d] = 0]
  /\ replay' = [replay EXCEPT ![d] = "idle"]
  /\ online' = online \cup {d}
  /\ UNCHANGED <<server, held, file, storeVars>>

ServerStep(d, h) ==
  \/ ServeGet(d, h) \/ ServeList(d, h)
  \/ CheckUpdate(d, h) \/ ApplyUpdate(d, h)
  \/ ServeCreate(d, h) \/ ServeDelete(d, h)
Fault(d, h) == RetryWrite(d, h) \/ GiveUpWrite(d, h) \/ FailRequest(d, h)
HandlerStep(d, h) == ServerStep(d, h) \/ SyncStep(d, h) \/ InitStep(d, h)
User(d) ==
  \/ \E c \in Contents : Edit(d, c)
  \/ RemoveFile(d) \/ GoOffline(d) \/ Reload(d)

Next ==
  \/ \E d \in Devices :
       \/ User(d) \/ GoOnline(d) \/ DeviceStep(d) \/ BootStep(d)
       \/ \E h \in Handlers : HandlerStep(d, h) \/ Fault(d, h)
  \/ \E r \in abandoned : FinishAbandoned(r) \/ DropAbandoned(r)

Spec == Init /\ [][Next]_vars

-----------------------------------------------------------------------------
(***************************************************************************)
(* Safety.                                                                 *)
(***************************************************************************)
(* Every variable has the shape its declaration says.                      *)
TypeOK ==
  /\ server \in Contents \cup {None}
  /\ held \subseteq Contents
  /\ abandoned \subseteq Abandoned
  /\ file \in [Devices -> Contents \cup {None}]
  /\ due \in [Devices -> SUBSET {"change", "immediate", "create", "delete"}]
  /\ meta \in [Devices -> Contents \cup {None}]
  /\ queued \subseteq Devices /\ ignored \subseteq Devices
  /\ activeSyncs \subseteq Devices /\ pendingSyncs \subseteq Devices
  /\ consecutive404s \in [Devices -> Nat]
  /\ replay \in [Devices -> {"idle", "due", "running", "succeeded", "failed"}]
  /\ online \subseteq Devices
  /\ flow \in [Devices -> [Syncing \cup Unlocked -> Flow]]
  /\ used \in [{"edits", "faults", "flaps", "restarts"} -> Nat]

(* The invocation h of d is between its activeSyncs.add and its finally.   *)
Locked(d, h) == h \in Syncing /\ flow[d][h].pc \notin {"idle", "loop"}

(* A save, a poll and a push of one env never overlap on one device, from  *)
(* the lock to the finally block, whatever prompts and retries lie between *)
(* and although each handler unlocks on its own; and the lock is held      *)
(* exactly then (env-sync-manager.ts:47, "Prevents concurrent syncs").     *)
OneSyncAtATime ==
  \A d \in Devices :
    /\ \A g, h \in Syncing : Locked(d, g) /\ Locked(d, h) => g = h
    /\ d \in activeSyncs <=> \E h \in Syncing : Locked(d, h)

(* What a device records as synced is a content the API did hold: it is    *)
(* the common ancestor conflict detection compares with.  It must survive  *)
(* answers that are lost, delayed, or overtaken by another device.         *)
SyncedHashWasHeld == \A d \in Devices : meta[d] \in held \cup {None}

(* A lone device whose requests are all answered never disagrees with the  *)
(* row it syncs: while it tracks the env, row and metadata differ only as  *)
(* long as the answer to its own write is on its way.  Coalesced saves,    *)
(* polls, pushes, the queue and a deleted row all have to keep this up.    *)
LoneDeviceAgrees ==
  \A d \in Devices :
    meta[d] # None /\ server \notin {None, meta[d]} =>
      \E h \in Handlers : /\ flow[d][h].pc \in {"acked", "created"}
                         /\ flow[d][h].mine = server

(* A deleted env comes back only through an initialization the user has    *)
(* confirmed (POST): an update that was checked before the deletion, even  *)
(* one whose client gave up long ago, does not bring the row back.         *)
NoResurrection ==
  [][server = None /\ server' # None =>
       \/ \E d \in Devices, h \in Handlers :
            At(d, h, "post") /\ flow'[d][h].pc = "created"
       \/ \E r \in abandoned : r.base = None /\ r \notin abandoned']_vars

(* An auto-pull without a prompt destroys only what the API already has or *)
(* an edit whose save is still to be handled (watcher timer, coalesced, or *)
(* queued): never a content whose save has been handled and dropped.       *)
PullDestroysNothingHandled ==
  [][\A d \in Devices :
       /\ At(d, "poll", "write") /\ flow'[d]["poll"].pc = "meta"
       /\ flow[d]["poll"].mine = meta[d]
       => \/ file[d] \in held
          \/ due[d] \cap {"change", "immediate"} # {}
          \/ d \in pendingSyncs \cup queued]_vars

-----------------------------------------------------------------------------
(***************************************************************************)
(* Liveness.  Timers fire, requests are answered, prompts are answered     *)
(* (with any answer) and connectivity comes back; nobody has to edit.      *)
(***************************************************************************)
Fairness ==
  \A d \in Devices :
    /\ WF_vars(SaveEvent(d)) /\ WF_vars(CreateEvent(d))
    /\ WF_vars(DeleteEvent(d))
    /\ WF_vars(Save404(d)) /\ WF_vars(Push404(d))
    /\ WF_vars(PollStart(d))
    /\ WF_vars(PollVisit(d) \/ PollMissing(d) \/ PollFetched(d))
    /\ WF_vars(ReplayPush(d)) /\ WF_vars(ReplayEnd(d))
    /\ WF_vars(GoOnline(d)) /\ WF_vars(BootStep(d))
    /\ \A h \in Handlers : WF_vars(HandlerStep(d, h))

FairSpec == Spec /\ Fairness

(* A device that has not changed its file since it last synced ends up     *)
(* with what the API has, whatever the other devices do meanwhile.         *)
CleanDeviceCatchesUp ==
  \A d \in Devices :
    (meta[d] # None /\ file[d] = meta[d]) ~>
      \/ server = None
      \/ file[d] = server
      \/ file[d] # meta[d]

(* Whatever a handler meets (a conflict, a 404, a missing file, an error), *)
(* the env does not stay locked: later saves and polls get their turn.     *)
LockIsReleased == \A d \in Devices : d \in activeSyncs ~> d \notin activeSyncs

(* Once the user stops editing, the last save has reached the API, however *)
(* saves were coalesced (env-sync-manager.ts:52, "we always upload the     *)
(* final version").  Refuted when a save is coalesced behind the poll.     *)
LastSaveIsUploaded ==
  \A d \in Devices : <>[](file[d] = meta[d] /\ server = meta[d])

(* A change queued while offline leaves the queue again, also when it was  *)
(* queued before a sign-out or a reload (extension.ts:216-217).            *)
QueueIsReplayed == \A d \in Devices : d \in queued ~> d \notin queued

-----------------------------------------------------------------------------
(***************************************************************************)
(* What the repository says of the program and the program does not do:    *)
(* each is refuted by a run of its own.                                    *)
(***************************************************************************)
(* The base hash detects every conflict (env.schemas.ts:75): an update is  *)
(* written only over the content it was based on.                          *)
UpdateReplacesItsBase ==
  [][\A d \in Devices, h \in Handlers :
       At(d, h, "checked") /\ flow'[d][h].pc = "acked"
         => server = flow[d][h].theirs]_vars

(* "Back online - synced n queued changes" (env-sync-manager.ts:676): a    *)
(* change leaves the queue only if the API has had the content of the      *)
(* file, a sync under way carries it, or an edit is still to be handled.   *)
QueuedChangeIsSynced ==
  [][\A d \in Devices :
       d \in queued /\ d \notin queued'
         => \/ file[d] \in held \cup {None}
            \/ \E h \in Handlers : /\ flow[d][h].pc \in UpdatePCs
                                   /\ flow[d][h].mine = file[d]
            \/ due[d] # {} \/ d \in pendingSyncs]_vars
=============================================================================
