------------------------------ MODULE EnvInit -------------------------------
(***************************************************************************)
(* EnvInitService (services/env-init.ts): deciding, from the row, the file *)
(* and the metadata, whether to initialize, restore or reconcile.  It is   *)
(* reached from a save without metadata, from a 404, from a ghost file,    *)
(* from the watcher's create event and from startup ("boot"), and takes no *)
(* lock of its own.  The repository is registered and not skipped.         *)
(***************************************************************************)
EXTENDS EnvApi

(* A step that only touches the flow.                                      *)
Await(d, h, p) ==
  /\ Goto(d, h, p)
  /\ serverUnchanged /\ clientUnchanged /\ UNCHANGED used

(* The handler ends; nothing persistent changes.                           *)
End(d, h) ==
  /\ Release(d, h, TRUE)
  /\ UNCHANGED <<file, storeVars, consecutive404s, online, used>>
  /\ serverUnchanged

(* The handler ends by recording c as the synced content.                  *)
EndSynced(d, h, c) ==
  /\ meta' = [meta EXCEPT ![d] = c]
  /\ Release(d, h, TRUE)
  /\ UNCHANGED <<file, queued, consecutive404s, online, used>>
  /\ serverUnchanged

(* fs.writeFileSync of the remote content, then the metadata.              *)
Overwrite(d, h) ==
  /\ WriteFile(d, flow[d][h].theirs)
  /\ Goto(d, h, "meta")
  /\ serverUnchanged /\ UNCHANGED <<storeVars, memVars, online, used>>

(***************************************************************************)
(* Entry points and decisions.                                             *)
(***************************************************************************)
StartInit(d, h) ==
  Become(d, h, [Idle EXCEPT !.pc = "init", !.inInit = TRUE])

(* maybeInitializeOrRestore, once checkRepoExists has answered: metadata   *)
(* that exists by now ends it.  At startup, the local files are listed.    *)
InitChecked(d, h) ==
  /\ At(d, h, "init")
  /\ IF h # "boot" /\ meta[d] # None
     THEN End(d, h)
     ELSE /\ Become(d, h, [flow[d][h] EXCEPT !.pc = "list",
                 !.mine = IF h = "boot" THEN file[d] ELSE None])
          /\ serverUnchanged /\ clientUnchanged /\ UNCHANGED used

(* promptAndInitialize: a recent decline suppresses the prompt, unless the *)
(* ignore interval has passed.                                             *)
PromptInit(d, h) ==
  \/ /\ d \in ignored
     /\ End(d, h)
  \/ /\ Goto(d, h, "askInit")
     /\ ignored' = ignored \ {d}
     /\ serverUnchanged
     /\ UNCHANGED <<file, due, meta, queued, memVars, online, used>>

(* No metadata: restore, initialize, or reconcile the two sides.           *)
Untracked(d, h, local, remote) ==
  \/ ~local /\ remote /\ Await(d, h, "askRestore")
  \/ local /\ ~remote /\ PromptInit(d, h)
  \/ /\ local /\ remote
     /\ Become(d, h, [flow[d][h] EXCEPT !.pc = "first", !.mine = file[d]])
     /\ serverUnchanged /\ clientUnchanged /\ UNCHANGED used
  \/ ~local /\ ~remote /\ End(d, h)

Listed(d, h) ==
  /\ At(d, h, "listed") /\ h # "boot"
  /\ Untracked(d, h, file[d] # None, flow[d][h].theirs # None)

(* reconcileEnvFile, for a file that is in the local or the remote list.   *)
Reconcile(d) ==
  LET f == flow[d]["boot"]
      local == f.mine # None /\ file[d] # None
      remote == f.theirs # None
      Zombie ==
        \/ d \in ignored /\ End(d, "boot")
        \/ /\ Goto(d, "boot", "askZombie")
           /\ ignored' = ignored \ {d}
           /\ serverUnchanged
           /\ UNCHANGED <<file, due, meta, queued, memVars, online, used>>
      Forget == EndSynced(d, "boot", None) /\ UNCHANGED ignored
  IN /\ At(d, "boot", "listed")
     /\ \/ f.mine = None /\ ~remote /\ End(d, "boot")
        \/ /\ f.mine # None \/ remote
           /\ IF meta[d] = None
              THEN Untracked(d, "boot", local, remote)
              ELSE \/ local /\ remote /\ End(d, "boot")
                   \/ local /\ ~remote /\ Zombie
                   \/ ~local /\ remote /\ Await(d, "boot", "askRestore")
                   \/ ~local /\ ~remote /\ Forget

(***************************************************************************)
(* Answers to prompts.                                                     *)
(***************************************************************************)
(* "initialize" reads the file, which may be gone, or blank, which has to  *)
(* be confirmed, and sends the POST.                                       *)
AcceptInit(d, h) ==
  /\ flow[d][h].pc \in {"askInit", "askReinit"}
  /\ \/ file[d] \in {None, Empty} /\ End(d, h)
     \/ /\ file[d] # None
        /\ Become(d, h, [flow[d][h] EXCEPT !.pc = "post", !.mine = file[d]])
        /\ serverUnchanged /\ clientUnchanged /\ UNCHANGED used

DeclineInit(d, h) ==
  /\ At(d, h, "askInit")
  /\ ignored' = ignored \cup {d}
  /\ Release(d, h, TRUE)
  /\ serverUnchanged
  /\ UNCHANGED <<file, meta, queued, consecutive404s, online, used>>

AcceptRestore(d, h) == At(d, h, "askRestore") /\ Await(d, h, "restore")
DeclineRestore(d, h) == At(d, h, "askRestore") /\ End(d, h)

(* showFirstTimeSyncPrompt: "useLocal" sends what was read before the      *)
(* prompt, against the remote hash fetched before it.                      *)
FirstUseLocal(d, h) == At(d, h, "askFirst") /\ Await(d, h, "put")
FirstUseRemote(d, h) == At(d, h, "askFirst") /\ Overwrite(d, h)
FirstCancel(d, h) == At(d, h, "askFirst") /\ End(d, h)

(* The zombie prompt: "reinitialize" goes through the init prompt too,     *)
(* "deleteLocal" unlinks the file and forgets it, "skip" ignores it.       *)
ZombieReinitialize(d) ==
  At(d, "boot", "askZombie") /\ Await(d, "boot", "askReinit")

(* reconcileEnvFile clears the ignore mark that the decline has just set,  *)
(* or that another handler has set meanwhile and that hides the prompt.    *)
DeclineReinit(d) ==
  /\ \/ At(d, "boot", "askReinit")
     \/ At(d, "boot", "askZombie") /\ d \in ignored
  /\ ignored' = ignored \ {d}
  /\ Become(d, "boot", Idle)
  /\ serverUnchanged
  /\ UNCHANGED <<file, due, meta, queued, memVars, online, used>>

ZombieDeleteLocal(d) ==
  /\ At(d, "boot", "askZombie")
  /\ IF file[d] = None THEN UNCHANGED <<file, due, meta>>
     ELSE /\ file' = [file EXCEPT ![d] = None]
          /\ due' = [due EXCEPT ![d] = @ \cup {"delete"}]
          /\ meta' = [meta EXCEPT ![d] = None]
  /\ Become(d, "boot", Idle)
  /\ serverUnchanged
  /\ UNCHANGED <<queued, ignored, memVars, online, used>>

ZombieSkip(d) ==
  /\ At(d, "boot", "askZombie")
  /\ ignored' = ignored \cup {d}
  /\ Become(d, "boot", Idle)
  /\ serverUnchanged
  /\ UNCHANGED <<file, due, meta, queued, memVars, online, used>>

(***************************************************************************)
(* Answers to requests.                                                    *)
(***************************************************************************)
(* Mutant: the hash is computed from the file after the request.           *)
CreatedRereads(d, h) ==
  /\ At(d, h, "created")
  /\ EndSynced(d, h, file[d])
  /\ ignored' = ignored \ {d}

Created(d, h) ==
  /\ At(d, h, "created")
  /\ EndSynced(d, h, flow[d][h].mine)
  /\ ignored' = ignored \ {d}

CreateRefused(d, h) == At(d, h, "exists") /\ End(d, h)

Restored(d, h) == At(d, h, "restored") /\ Overwrite(d, h)

(* handleFirstTimeSync: equal sides are adopted, a blank side yields, and  *)
(* otherwise the user is asked.                                            *)
FirstGot(d, h) ==
  LET mine == flow[d][h].mine
      theirs == flow[d][h].theirs
  IN /\ At(d, h, "firstGot")
     /\ \/ mine = theirs /\ EndSynced(d, h, mine) /\ UNCHANGED ignored
        \/ mine # theirs /\ mine = Empty /\ Overwrite(d, h)
        \/ mine # theirs /\ theirs = Empty /\ Await(d, h, "put")
        \/ mine # theirs /\ Empty \notin {mine, theirs}
             /\ Await(d, h, "askFirst")

(* handleFirstTimeSync logs a refused or a failed update and ends.         *)
FirstUpdateFails(d, h) ==
  /\ flow[d][h].pc \in {"refused", "gone"} /\ flow[d][h].inInit
  /\ End(d, h)

(* saveEnvMetadataSync after a remote content was written to the file.     *)
SaveMeta(d, h) ==
  /\ At(d, h, "meta")
  /\ EndSynced(d, h, flow[d][h].theirs)
  /\ UNCHANGED ignored

(* Mutant: the error path leaves without the finally block.                *)
FailedKeepsLock(d, h) ==
  /\ At(d, h, "failed")
  /\ Become(d, h, Idle)
  /\ serverUnchanged /\ clientUnchanged /\ UNCHANGED used

(* An awaited call threw: the handler ends.  Out of handle412OnPush the    *)
(* error rejects pushEnv itself; everywhere else it is caught.             *)
Failed(d, h) ==
  /\ At(d, h, "failed")
  /\ Release(d, h, h # "push")
  /\ serverUnchanged
  /\ UNCHANGED <<file, storeVars, consecutive404s, online, used>>

InitStep(d, h) ==
  \/ InitChecked(d, h) \/ Listed(d, h)
  \/ AcceptInit(d, h) \/ DeclineInit(d, h)
  \/ AcceptRestore(d, h) \/ DeclineRestore(d, h)
  \/ FirstUseLocal(d, h) \/ FirstUseRemote(d, h) \/ FirstCancel(d, h)
  \/ Created(d, h) \/ CreateRefused(d, h) \/ Restored(d, h)
  \/ FirstGot(d, h) \/ FirstUpdateFails(d, h)
  \/ SaveMeta(d, h) \/ Failed(d, h)
BootStep(d) ==
  \/ Reconcile(d)
  \/ ZombieReinitialize(d) \/ DeclineReinit(d)
  \/ ZombieDeleteLocal(d) \/ ZombieSkip(d)
=============================================================================
