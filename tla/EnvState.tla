------------------------------ MODULE EnvState ------------------------------
(***************************************************************************)
(* The state of the sync system, for one tracked .env file: the row the    *)
(* API keeps for it, and, per device (a VS Code window), the file, what    *)
(* the extension persists about it, what it holds in memory, and the       *)
(* handlers that are running.                                              *)
(*                                                                         *)
(* hashEnv is injective on Contents, so a content stands for its hash; the *)
(* row's content and latestHash are always written together, so the row is *)
(* one content.  None stands for "no row", "no file" and "no metadata".    *)
(*                                                                         *)
(* The extension is single-threaded: a step runs from one awaited event    *)
(* (a timer, an HTTP answer, the user's answer to a prompt) to the next.   *)
(* Reads of workspaceState resolve in a microtask, so they belong to the   *)
(* step that makes them.                                                   *)
(***************************************************************************)
EXTENDS Naturals, FiniteSets

CONSTANTS
  Devices,      \* VS Code windows signed in to one account
  Contents,     \* what a .env file may hold
  Empty,        \* the blank content
  None,         \* no row, no file, no metadata
  Handlers,     \* the handlers the environment triggers in this instance
  Max404,       \* MAX_CONSECUTIVE_404S
  MaxEdits, MaxFaults, MaxFlaps, MaxRestarts  \* bounds on the environment

(* The handlers that claim activeSyncs, and those that do not.             *)
Syncing  == {"save", "poll", "push"}
Unlocked == {"create", "delete", "boot"}

ASSUME ConstantsAssumption ==
  /\ None \notin Contents
  /\ Empty # None
  /\ Handlers \subseteq Syncing \cup Unlocked
  /\ Max404 \in Nat \ {0}
  /\ MaxEdits \in Nat /\ MaxFaults \in Nat
  /\ MaxFlaps \in Nat /\ MaxRestarts \in Nat

VARIABLES
  server,           \* the environment row: a content, or None
  held,             \* history: every content the row has held
  abandoned,        \* updates the API still works on for a client that gave up
  file,             \* file[d]: the content on disk
  due,              \* due[d]: watcher timers and immediates that will fire
  meta,             \* meta[d]: lastSyncedHash, persisted in workspaceState
  queued,           \* devices whose persisted queue holds a push
  ignored,          \* devices that declined the init prompt lately
  activeSyncs,      \* devices whose activeSyncs set holds the env
  pendingSyncs,     \* devices with a coalesced save
  consecutive404s,  \* consecutive404s[d]
  replay,           \* replay[d]: how far processQueuedOperations has come
  online,           \* devices whose ConnectionMonitor reports online
  flow,             \* flow[d][h]: the running invocation of handler h
  used              \* how much of each bound the environment has used

serverVars == <<server, held, abandoned>>
storeVars  == <<meta, queued, ignored>>
memVars    == <<activeSyncs, pendingSyncs, consecutive404s, replay>>
vars == <<serverVars, file, due, storeVars, memVars, online, flow, used>>

(***************************************************************************)
(* Where a handler waits.                                                  *)
(*   requests    fetch, pull, restore, first: GET one env; list: GET all;  *)
(*               init: checkRepoExists; put, checked: PUT before and after *)
(*               the API's check; post: POST; del: DELETE                  *)
(*   answers     fetched, pulled, restored, firstGot, missing, listed,     *)
(*               acked, refused, gone, created, exists, failed             *)
(*   prompts     conflict, ask412, askInit, askReinit, askRestore, askFirst,*)
(*               askZombie                                                 *)
(*   the rest    loop (a poll before this env), override (pushEnv called   *)
(*               by a prompt), write and meta (an update being applied)    *)
(***************************************************************************)
GetPCs    == {"fetch", "pull", "restore", "first"}
UpdatePCs == {"put", "checked", "acked", "refused", "gone"}
CreatePCs == {"post", "created", "exists"}
PromptPCs == {"conflict", "ask412", "askInit", "askRestore", "askFirst",
              "askZombie", "askReinit"}
PCs == GetPCs \cup UpdatePCs \cup CreatePCs \cup PromptPCs \cup
       {"idle", "loop", "fetched", "pulled", "restored", "firstGot",
        "missing", "failed", "init", "list", "listed", "override", "write",
        "meta", "del"}

(* mine: the local content read; theirs: the remote content (or its hash,  *)
(* sent as baseHash); inInit: running inside EnvInitService.               *)
Flow == [pc: PCs, mine: Contents \cup {None}, theirs: Contents \cup {None},
         inInit: BOOLEAN]
Idle == [pc |-> "idle", mine |-> None, theirs |-> None, inInit |-> FALSE]

Bound == [edits |-> MaxEdits, faults |-> MaxFaults, flaps |-> MaxFlaps,
          restarts |-> MaxRestarts]
Spend(k) == used[k] < Bound[k] /\ used' = [used EXCEPT ![k] = @ + 1]

At(d, h, p) == flow[d][h].pc = p
Goto(d, h, p) == flow' = [flow EXCEPT ![d][h].pc = p]
Become(d, h, f) == flow' = [flow EXCEPT ![d][h] = f]

(***************************************************************************)
(* The finally blocks: unlock, and, in handleEnvFileSave only, hand the    *)
(* coalesced save to setImmediate.  When the push was started by the queue,*)
(* processAll learns whether pushEnv resolved or rejected.                 *)
(***************************************************************************)
Drain(d, h) ==
  IF h = "save" /\ d \in pendingSyncs
  THEN /\ pendingSyncs' = pendingSyncs \ {d}
       /\ due' = [due EXCEPT ![d] = @ \cup {"immediate"}]
  ELSE UNCHANGED <<pendingSyncs, due>>

Settle(d, h, resolved) ==
  replay' = [replay EXCEPT ![d] =
    IF h = "push" /\ @ = "running"
    THEN IF resolved THEN "succeeded" ELSE "failed"
    ELSE @]

Release(d, h, resolved) ==
  /\ Become(d, h, Idle)
  /\ activeSyncs' = IF h \in Syncing THEN activeSyncs \ {d} ELSE activeSyncs
  /\ Drain(d, h)
  /\ Settle(d, h, resolved)

(* A content written to disk fires the watcher: create or change.          *)
WriteFile(d, c) ==
  /\ file' = [file EXCEPT ![d] = c]
  /\ due' = [due EXCEPT ![d] =
       IF file[d] = None THEN @ \cup {"create"}
       ELSE IF file[d] # c THEN @ \cup {"change"} ELSE @]
=============================================================================
