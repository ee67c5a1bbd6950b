# Envval in TLA+

Envval keeps `.env` files in sync between the machines of a user: a VS Code
extension encrypts them and talks to an API that stores one row per file. This
directory specifies how the two keep a file consistent, model-checks the
specifications with TLC and proves the main invariants with TLAPS.

    tlc -workers 2 -config CatchUp.cfg MCEnvSync        # one run
    tlapm EnvSyncProofs.tla                              # the proofs: also
    # EnvAgreementProofs, ServicesProofs, ApiClientProofs, DeviceLoginProofs, MetadataStoreProofs,
    # RepoIdentityProofs, RepoPromptProofs

`PROJECT.json` lists the runs, the definition-to-source map, the hazards the
properties are aimed at, the disagreements found, and the theorems.

## 1. Inventory

Paths are under `apps/extension/src` (E) and `apps/api/src` (A).

| Component | State | Operations | Correct when |
|---|---|---|---|
| SyncManager (E `watchers/env-sync-manager.ts`) | `activeSyncs`, `pendingSyncs`, `consecutive404s`, poll timer | save, create and delete events, poll, conflict prompts, push, replay | one sync of a file at a time; the last save is uploaded; nothing is overwritten that only this device has; a clean device catches up |
| EnvInitService (E `services/env-init.ts`) | none; the prompts it waits in | initialize, restore, first-time sync, startup reconciliation | the hash it records is one the API holds; a deleted row comes back only on request |
| Environments API (A `modules/envs`) | the `environment` row | GET, list, POST, PUT with a base hash, DELETE | no update is lost; 50 rows per repository |
| API client (E `api/client.ts`) | retry count, circuit breaker, refresh promise | retry, break, refresh the session once | a retry does no harm; an open circuit is tried again; one refresh at a time |
| OperationQueueService (E `services/operation-queue.ts`) | the persisted queue, `isProcessing` | enqueue, processAll, clear | what is queued is attempted, once per change, in priority order |
| ConnectionMonitor (E `services/connection-monitor.ts`) | state, failures, two timers | start, stop, check, debounced transition | reports what the checks saw; recovers; stops |
| EnvvalMetadataStore, PromptIgnoreStore (E `services`) | workspaceState, write queue, file-name index | serialized writes, migration of ids | no lost update; index agrees with the store |
| EnvFileWatcher (E `watchers/env-file-watcher.ts`) | one timer per file and kind | debounce, start, stop | the last event of a burst is delivered |
| Activation, commands (E `extension.ts`, `commands`) | last user, notification time | start and stop services, account switch | no state of one user reaches the next |
| Device login, session refresh (E `providers/auth-provider.ts`, A `api/auth/extension.api.ts`, `modules/auth`) | device codes, sessions, secrets | poll for the token, refresh with rotation, sign out | one session per device; a lost answer does not sign the user out |
| Key material, devices (A `modules/auth`, `modules/devices`) | wrapped key per user, device rows | deliver, revoke, quota of 20 | every device of a user derives the same key |
| Repositories (A `modules/repo`) | repo rows, slugs | register (at most 50), rename, migrate in a transaction | one owner per id; a migration is all or nothing |
| Repository identity (E `services/repo-identity-store.ts`, `services/repo-migration.ts`, `utils/repo-detection.ts`, `commands/repo-identity.ts`) | override, remote history, last active id | compute, detect a change, migrate, override, reset | a change is offered once; ids never cross accounts |
| E-mail queue (A `shared/lib/email`, `packages/queue`, `apps/email-worker`) | jobs | enqueue, send, retry | one mail per event |
| Env cache, hover and tree views; web application; cryptography; middleware | derived or presentational | | see PROJECT.json |

**How they interact.** The watcher's debounced events, the poll timer, the
monitor's online event and commands call SyncManager; SyncManager calls
EnvInitService on a save without metadata, a 404 or a vanished file; both call
the API through the client and record the hash they agree on in the metadata
store. The API knows devices only by their requests. The operation queue holds
pushes made while offline and is replayed on the online event.

**What is hard.** The extension is single-threaded but every `await` lets other
handlers run, prompts can stay open for hours, and each handler unlocks in its
own `finally`. Requests are retried after a 10 s timeout although the first
attempt may still be applied. PUT checks the base hash and writes in two
statements. The lock, the coalesced saves and the connection state are lost with
the window, the queue and the metadata are not. `hazards` in `PROJECT.json`
lists these at their lines.

## 2. What is modelled now

Five systems. `EnvSync`: one tracked file, any
number of devices, all of SyncManager, all of EnvInitService for that file, and
the five requests they make. `Services`: one window, its connection monitor, and
when its services run; the two meet in the online event. `ApiClient`: the
requests of a user's windows and the session they share; `EnvSync` sees of it
that a request may be repeated, lost or given up. `RepoIdentity`: which repository
a workspace is, over the window's metadata store and the repositories API, where
`EnvSync` takes the id as given; its store implements the atomic map `EnvSync`
takes it for. `DeviceLogin`: how a window comes by its token and key
material, where `ApiClient` has one step `SignIn`.

| Module | Models |
|---|---|
| `EnvState` | the variables, where a handler can wait, the `finally` blocks |
| `EnvApi` | GET, list, PUT (`CheckUpdate`, then `ApplyUpdate`), POST, DELETE; lost answers, retries, giving up, attempts that outlive their client |
| `EnvInit` | `maybeInitializeOrRestore`, `promptAndInitialize`, `promptAndRestore`, `handleFirstTimeSync`, `reconcileEnvFile` |
| `SyncManager` | `handleEnvFileSave`, 404 and 412 handling, `pollRemoteChanges`, `pushEnv`, `processQueuedOperations` |
| `EnvSync` | devices and API together, users, connectivity, reloads; the properties |
| `MCEnvSync` | instances for TLC, symmetry |
| `EnvSyncProofs`, `EnvAgreementProofs` | the theorems about `EnvSync` |
| `ConnectionMonitor` | the repeated health check, checks in flight, the debounced transition, retries |
| `Services` | signing in and out, `startServices`, `stopServices`, the poll's timer; the properties |
| `ServicesProofs` | the theorems about `Services` |
| `SessionApi` | the session row: what it lets in, the refresh in its two statements, expiry, revocation |
| `ApiClient` | requests, `handleRetry`, the circuit breaker, the 401 interceptor, `refreshSession`, sign-out, reloads; the properties |
| `ApiClientProofs` | the theorems about `ApiClient` |
| `RepoIds` | `computeEnvId`, shared by the extension and the API |
| `MetadataMap` | abstract: one map from env ids to metadata, changed by atomic writes |
| `MetadataStore` | `EnvvalMetadataStore`: `workspaceState`, the write queue, the file-name index, reloads; `ImplementsMap` |
| `MetadataStoreProofs` | the theorems about `MetadataStore`, refinement included |
| `RepoApi` | exists, register, migrate, list, create and update envs, each statement or transaction a step |
| `RepoIdentity` | `getCurrentWorkspaceId`, `performInitialCheck`, `RepoMigrationService`, the identity commands, saves and creates of files, the account switch; the properties |
| `RepoIdentityProofs`, `RepoPromptProofs` | the theorems about `RepoIdentity` |
| `MCRepoIdentity` | instances for TLC: ids as what is hashed, symmetry |
| `DeviceApi` | the device code, its exchange, the quota |
| `DeviceLogin` | `initiateLogin`, `pollForToken`, `cancelPolling`, `logout`, the shared secrets; the properties |
| `DeviceLoginProofs` | the theorems about `DeviceLogin` |

State and code:

| Variable | Code |
|---|---|
| `server` | the row: content and `latestHash`, written together |
| `held` | history variable: every content the row has had |
| `abandoned` | updates the API is still working on for a client that timed out or went away |
| `file`, `due` | the file on disk; the watcher's timers (`change`, `create`, `delete`) and the `setImmediate` of a coalesced save (`immediate`) |
| `meta` | `lastSyncedHash` in workspaceState (None: not tracked) |
| `queued`, `ignored` | the persisted push of this file; a recent decline |
| `activeSyncs`, `pendingSyncs`, `consecutive404s` | the fields of the same names |
| `replay` | how far `processAll` has come with this file's operation |
| `online` | `ConnectionMonitor.isOnline` |
| `flow[d][h]` | the running invocation of handler `h`: the await it waits in (`pc`), the local content it read (`mine`), the remote one it got (`theirs`) |

`state`, `failures` (`consecutiveFailures`), `checkTimer` and `debounceTimer` are
the monitor's fields, the timers as the ticks they have left; `checks` holds the
health checks awaiting an answer. `entering` and `starting` count the handlers
before and after `connectionMonitor.start()` that wait for an `await`;
`watching` and `polling` say that the watchers and the poll's interval exist.
`EnvSync`'s `GoOnline` and `GoOffline` abstract `ConnectionChanges`.

In `ApiClient`, `session` is the row of the session table and `secret` the stored
access token; a token is only known as the row's (`current`) or one that it was
once (`stale`). `req[w][r]` is a call of `get`, `post`, `put` or `delete` in window
`w` with its `__retryCount` and `__isAuthRetry`, and `pc` says what it awaits:
the answer (`sent`), the delay (`backoff`), its 401 (`refused`), another request's
refresh (`waiting`), its own (`refresh`, `found` and `rotated`: the API has read the
row, has replaced the token), or `handleTokenRefreshFailure` (`leaving`). `circuit`,
`failures` and `refreshPromise` are the fields of the client; `cooled` says that
the 30 s since `circuitOpenedAt` are over.

In `MetadataStore`, `stored` is what `workspaceState.get` returns and `disk` what a
reload would read; `writeQueue` and `writing` are the chain of promises and the write
whose `update` is under way. In `RepoIdentity`, `identity` is the workspace's entry of
`RepoIdentityStore` (`manualIdentity`, `subProjectPath`, the newest of
`gitRemoteHistory`, `lastActiveRepoId`), `scope` is `LAST_AUTHENTICATED_USER_KEY` and
`user` the account of the stored secrets; `flow[h]` is a running check, command or
save with the await it waits in, and `call[h]` its request to the API. A handler is
one invocation of any of the three kinds. In `DeviceLogin`, `login[a]` is one
run through `initiateLogin` and `pollForToken` in a window, `isPolling` and
`controller` are the provider's fields, and `secrets` the `SecretStorage` that all
windows share: keys, token and wrapped key material stand as the login they
came from. `overtaken`, `doubled`, `hindered` and `crowded` are history variables.

**Abstractions.**

- `hashEnv` and encryption are injective, so a content stands for its hash, its
  ciphertext and the content itself.
- A step runs from one awaited event to the next. Reads of workspaceState
  resolve in a microtask (`metadata-store.ts:45-47`), so they belong to the step
  that makes them. Metadata writes wait in a write queue, so they are steps of
  their own (`acked`, `created`, `meta`). Recording a hash and leaving through
  `finally` is one step. That `pushEnv` checks the lock a microtask before it
  takes it is harmless: the poll that starts with the same online event takes
  one turn more.
- Each handler has one invocation at a time per device. More of them cannot hold
  the lock; several prompts of the same kind at once are not modelled.
- The repository is registered and not skipped; the id the server computes is the
  one the client computes; an oversized file counts as missing.
- A failed GET, list or DELETE has no effect. A PUT or POST that fails may have
  been applied, may be applied later (`FinishAbandoned`), or never. A DELETE that
  arrives late is not modelled.
- POST looks and inserts in one step: a second insert of the same primary key
  fails, is retried, and then meets the row.
- The ignore interval may end at any moment between a decline and the next
  prompt. If the POST of a re-initialization fails while another handler has just
  marked the file ignored, the code clears that mark and the model keeps it.
- A reload starts online, with no online event: a fresh monitor starts as
  `online` (`connection-monitor.ts:21`).

- Time in `Services` advances in ticks of 5 s, the greatest common divisor of the
  four periods in `lib/constants.ts:46-50`, and never past a timer that is due; what is due
  at the same instant happens in any order. A check may see the network of its
  start or of its end. `failures` is not counted beyond `Threshold`. A
  request of a signed-in or still running service may be rejected and sign out
  at any time; `LOGOUT` reloads the window instead.
- `ApiClient`: an answer that is not served is a transient failure (retried) or a
  4xx; a refresh that fails has not reached the API or has lost its answer. A
  session does not expire again under the requests it was refreshed for, since it
  lives for days; a session past its maximum age counts as revoked when it
  expires. When a repeated request ends in a sign-out, the interceptor of the
  first attempt signs out once more: the second time clears nothing. A reload
  finds the API between the refresh's two statements as good as after them. The
  device-code flow is the step `SignIn`, taken when nothing is under way.
- `MetadataStore`: the synced hash stands for all of an entry; `saveAllMetadata`, which
  nothing calls, is left out. With a file under two ids, either may end up in a
  newly built index.
- `RepoIdentity`: a sub-project changes the id as in a monorepo (without one, the
  content signature ignores it); in the runs an id is what is hashed. Prompts for a
  file end in a saved hash, a created row, or nothing (`EnvInit` has them in full);
  an upload ends with a hash, a missing row or an error (`EnvSync` has the
  conflicts). `envval.promptForMigration` is on. A request that fails may or may not
  have been served. `CurrentId` and `Changed` read the stored identity and the remote at
  one moment, while `getCurrentWorkspaceId` reads the former, awaits git and goes on
  with what it read (`repo-detection.ts:461-515`). What another handler records in
  between is thus seen by the next look only; such a record makes every other handler's
  questions forgotten in `AskedOncePerChange`, and the ids are the scoped user's either
  way, so the stated properties do not depend on it. Reconciling a listed file
  (`Adopt`) follows the branch that moves its metadata to the API's id; the others are
  in `EnvInit`.
- `DeviceLogin`: one account; rounds of polling stand for `totalWaitTime`, so backoff
  is left out; generating keys and RSA are the identity of the login. The
  selection of a device id never collides. Reading the key material, wrapping it and
  updating the session (`extension.api.ts:136-159`) are one step with the insert of the
  device, which ends in the answer or in an error (`ApiFails`).

**Bounds** on the environment only: `MaxEdits` (changes by users), `MaxFaults`
(failed requests), `MaxFlaps` (connection losses), `MaxRestarts` (reloads). What
the extension does is not bounded. `Max404` is 2 instead of 3 in the runs.
`Services` bounds `MaxLogins` and `MaxRetries`; the network changes without bound.
`ApiClient` has no bound but the code's own limits, set to 1 retry and 2 failures
(3 and 5 in `client.ts`): outages, expiry, revocations and reloads recur for ever.
`RepoIdentity` bounds `MaxDisturbances` (changes of remote or account, reloads,
failed requests); its number of handlers bounds what is done in a session. In
`DeviceLogin` the number of logins does; cancels, sign-outs and reloads are free.
`MaxRepos`, `MaxEnvs` and `MaxDevices` are the code's limits (50, 50 and 20 in
`system-limits.ts`) made small, and so are the rounds of polling until a code's time
is up, `MaxRounds`.

## 3. The runs

| Run | Instance | Shows |
|---|---|---|
| `CatchUp` | 2 devices, 3 contents, save, poll, 2 edits, 1 fault, fairness | `OneSyncAtATime`; `PullDestroysNothingHandled`: an auto-pull overwrites only what the API has had or what is still to be saved; `CleanDeviceCatchesUp`, `LockIsReleased` |
| `LoneDevice` | 1 device, save, poll, push, delete, 3 edits, 1 connection loss | `TypeOK`; `LoneDeviceAgrees`: without faults a lone device never drifts from its row |
| `SetUp` | 1 device, no row at first, a blank content, save, create, delete and startup, 1 fault, 1 reload, 3 edits | `SyncedHashWasHeld` and `NoResurrection` through initialization, restore, first-time sync and deletion, which take no lock, with updates retried, late or unseen |
| `Services` | the code's periods, 2 sign-ins, 1 manual retry, fairness | `PollsWhileOnline`, `ChecksKeepPace`, `OfflineIsEarned`, `RecoversWithTheNetwork`, `NoticesTheLoss` |
| `ApiClient` | 1 window, 2 requests, 1 retry, 2 failures, fairness | `OneRefreshAtATime`; `LoneWindowKeepsItsSession`: the window's token goes stale only by a revocation or a lost answer; `RequestsSettle`, `OpenCircuitIsProbed` |
| `Repositories` | 2 handlers, 2 users, 1 remote, 1 file, 1 disturbance | `IndexFindsTracked`: between writes a lookup by name finds what is tracked; `ImplementsMap`; `AskedOncePerChange`: a check or command offers a change of identity once; `StateIsScoped`, `NoCrossUserMigration`: nothing of one account reaches the next, unless a handler of the former was running when it changed |
| `Login` | 2 logins, 2 windows, 2 rounds, 1 device, fairness | `FlagHasLoop`: a window that says it is polling has a loop that is; `QuotaHolds`: the quota is exceeded at most by the logins let in beside another's insert; `StoredKeysOpen`: a login not hindered verifies key material it can open; `LoginsEnd`; `ApprovedLoginSignsIn`: an approved code signs in with key material the window can open, unless the login was hindered in a named way |

Why these are enough: a conflict takes two devices, one edit each; a third
content tells "mine", "theirs" and "older" apart; a save coalesced behind another
takes two edits; a stale start of services takes a second sign-in; an update
applied twice or late takes one fault; a late 401 or a shared refresh takes two
requests; a write overtaking another, a prompt overtaken by a command and a
migration racing a POST take two handlers; a change of account takes one
disturbance, and so does each thing that may interrupt it; two loops in one window,
a key pair replaced by another login's, and two counts before either insert
take two logins. One file is enough for ids and index, since files meet only in
the write queue, which the proof covers for any number of them. What larger
instances of the safety properties would show, the theorems of section 4 say for all of them.

All contents that are neither the initial nor the blank one are symmetric, and so
are the devices; handlers of `RepoIdentity` are, and its users, whose ids are built
alike. The runs with liveness use no symmetry.

**Fairness** (`Fairness` in `EnvSync`): timers fire, requests are answered,
prompts are answered with any answer, connectivity comes back, the poll recurs.
Users need not edit and faults need not occur. The poll's timer is a
`setInterval`, the client has a 10 s timeout, prompts are the user's: an
unanswered prompt does keep a file locked, and that is what the code does.
`CatchUp` has no manual pushes, since a user who pushes over and over can keep
the poll from ever finding the lock free.

In `Services`, timers fire, checks end, the initial check returns (its prompts
are answered) and time passes. Retries are bounded for a reason: a user who
retries faster than the debounce keeps a transition off for as long as they do.

In `ApiClient`, the cooldown passes, somebody calls again (the poll does), and each
request goes on: it is answered, times out after 10 s, or its handler runs. That
is one condition per request, since an API that comes and goes must not keep a
request waiting. The online event, which also closes the circuit, need not come.

In `DeviceLogin`, each login goes on: its timer fires, the secret storage answers,
and the API answers or the client times out. Users need not approve anything,
and whether a request is lost is not fair either way. `RepoIdentity` has no liveness
property: its handlers wait for prompts, which a user may leave open.

### Disagreements with what the repository says

Each of these is shown by a run that TLC must find violated.

| Run | What happens |
|---|---|
| `LostUpdate` | two updates pass the base-hash check before either is written (`env.service.ts:156-186`); the second replaces the first silently |
| `PollDropsSave` | a save that meets the poll's lock is coalesced, but the poll's `finally` does not hand it on (`env-sync-manager.ts:305`) |
| `QueueStranded` | what was queued before a restart is replayed only after the connection is lost and regained |
| `NeedlessSignOut` | of two requests with the same expired token, one has been refreshed and is repeated when the other's 401 arrives: its refresh rotates the token again, the repeated request is refused, and the user is signed out of a live session |
| `ReplayDropped` | a queued edit is replayed while a push of the content before it holds the env: the replay returns at once (`env-sync-manager.ts:560`), counts as done and leaves the queue as "synced" |

One more is proved, for every instance, rather than shown by a run: "Use Local
(overwrite remote)" and "Force Push (overwrite remote)" (`env-sync-manager.ts:520`, 628)
call `pushEnv` under the caller's own lock, and nothing is sent
(`OverrideMeetsItsOwnLock`).

Seen while modelling, and without a run of their own: a replayed push whose
upload fails resolves (`env-sync-manager.ts:608-614`) and leaves the queue as
"synced", which violates `QueuedChangeIsSynced` too (in `ReplayDropped.cfg`, set
`Handlers` to `{"push"}`, `MaxEdits` to 1 and `MaxFaults` to 1); a retried update whose
first answer was lost conflicts with itself, and a lone user is told of another
device; the reconciliation the poll starts on a 404 ends at once because the
metadata still exists (`PollMissing`, `InitChecked`); `consecutive404s` is
reset by a save only (`UploadDone`); an edit between the poll's read and its
write is overwritten (`ApplyRemote`), and its save, still to come, finds nothing
left to upload; when the lock that a replayed push meets is the poll's
(`ReplayDropped` shows it with a push's), the poll then overwrites the edit,
which is why `CatchUp` has no flaps and `PullIsSafe` excludes them; a file removed
and created anew between two polls
is not uploaded until it changes again, since `handleNewEnvFile` returns when
metadata exists. A health check in flight when the monitor is stopped still
counts, and may ask for a transition (`Stop`, `CheckEnds`): that schedules checks
again and, on "online", starts the poll of a signed-out window, until the poll's
first request is rejected and signs out once more. A healthy answer does not take
a pending "reconnecting" back (`Wanted`), so the debounce delays a flapping state
but does not suppress it. A poll started by `startServices` while the
connection is lost runs idle, since `pollRemoteChanges` returns at once offline.
A half-open circuit lets every call through, not the "single probe" of
`client.ts:211`, and since only a closed circuit opens, failures leave it half open
until one call succeeds; every error counts as a failure of the service, a 404
or a 409 too (`RecordFailure`). A refresh that fails for want of a network signs
out (`RefreshFails`). Two windows refresh independently: if both have
found the row before either update, the second goes by the row's id
(`extension.api.ts:297`), so a token already replaced earns a new one, against the
comment at 214, and the one that the first window was given is worth nothing.
A token stored after another request has signed out (`StoreToken`, `Logout`) leaves
a window signed in without its key material.

Of repositories and their identity: "Remind Me Later" is never asked again, since
the check goes on to record the new id as the last active one
(`repo-migration.ts:196-198`, `env-init.ts:140`). "Keep Current Identity" stores the old
id as an override, which is hashed again and gives a third id. A typed name moves
the metadata to the name itself, while the workspace becomes its hash (`Named`).
`setSubProjectPath` computes both ids after it has stored the path, so it never
offers its migration (`repo-identity.ts:298-299`); a reset forgets the last active id,
so the change it brings about is not offered either. A migration that the API
refuses or does not answer leaves the metadata under ids the API does not have
(`Moved`, `Told`) and is not tried again. An upload under way during a migration saves
its hash under the old id, from which the migration was to move all metadata
(`repo-migration.ts:67`), and clearing either of the two entries then
drops the index entry of the other (`metadata-store.ts:170`): the exception in
`IndexFindsTracked`. A reload after the new user's secrets are stored and before
`LAST_AUTHENTICATED_USER_KEY` is leaves the window scoped to the former user:
activation seeds that key only when it is missing (`extension.ts:283`). A check that
resolved an id before the remote changed records that id as the last active one
(`env-init.ts:140`) and then offers the change from it, even if the same check had
asked about it: the exception in `AskedOncePerChange`, which takes two remotes. A decline
writes back the flags it read before its prompt (`env-init.ts:217-233`). On the
server, what a POST or PUT writes between a migration's read of the environments
and its delete of the old repository is deleted with it, two migrations of one
repository to two ids leave the environments under both, two POSTs can exceed
either cap, and a POST of an environment does not ask whose repository it names.

Of the login: `post()` wraps every error in an `ApiError` (`client.ts:283-285`), so the
branches of `pollForToken` for a denied, an expired and an aborted login
(`auth-provider.ts:254-316`) are never taken, and such a login polls on until
its time is up; pending answers are 400s, which open the circuit breaker of the
`AuthApiClient`. A login cancelled and begun anew while the old loop sleeps leaves
two loops: the old one finds `isPolling` true again and goes on, and when it ends it
clears the flag of the new one (`Finally`). Two windows that log in at a
time overwrite each other's key pair, so that the wrapped key opens with neither, and
nothing in the code prevents it (`StoredKeysOpen` and `ApprovedLoginSignsIn` except
overlapping logins); a sign-out in one window takes away the key pair of a login in
another. Two logins that are both counted before either device is inserted exceed
the quota by one (`device.service.ts:40-54`), which `QuotaHolds` allows for. The code
is used up when the quota refuses the device, when the API fails after the exchange
(`ApiFails`), or when the answer is lost; a failure after the insert also leaves a
device that nobody uses and that counts (`InsertDevice`). The token is stored before
the key material (`StoreToken`, `StoreWrapped`): a reload in between leaves a window
that counts as signed in.

## 4. The proofs

`EnvSyncProofs` proves, for every set of devices and contents, every selection of
handlers and every bound, from the two assumptions on the constants:

| Theorem | Says |
|---|---|
| `Invariance` | `Spec => []IInv` |
| `TypeCorrect` | `Spec => []TypeOK` |
| `MutualExclusion` | `Spec => []OneSyncAtATime` |
| `SyncedHashIsReal` | `Spec => []SyncedHashWasHeld` |
| `DeletedStaysDeleted` | `Spec => NoResurrection` |

None of the properties is inductive. `IInv` adds `FlowsSound`: a handler that may
come to send a content has read one (else `None` could be written to the row);
what a handler got from the API, or knows to be acknowledged, has been held by
the row, which is what makes the hash it records later a real one; and only the
delete handler waits for a DELETE, so that ending there without unlocking is
right. `RowHeld` ties the row to the history. The lock half,
`d \in activeSyncs <=> \E h : Locked(d, h)`, is needed for mutual exclusion
itself: a handler starts only if the lock is free.

The proof follows the structure of `Next`: lemmas about what replacing one
handler's state does to each conjunct (`SoundStep`, `LockKept`, `LockTaken`,
`LockReleased`), from them a lemma per way a handler goes on (`Await...`,
`End...`, `EndSynced...`, `Release...`), and one lemma per group of actions with
one step per action. `NoResurrection` is an action property: `OnlyTheApiWrites`
lists the actions that can make a row appear, and of those only a POST finds
none.

`EnvAgreementProofs` goes on from `IInv` and relates the file, the handlers and
the row. `StepShape` brings every step into a few shapes once and for all: a
handler moves on quietly, records a content as synced, has the row written or
removed; a fault; a reload; a late attempt. The invariants look only at these.

| Theorem | Says | Under |
|---|---|---|
| `EveryHandlerInPlace` | `Spec => []HandlersInPlace` | any constants |
| `OverrideMeetsItsOwnLock` | whoever is about to send "Use Local" or "Force Push" finds the env locked, by itself | any constants |
| `LoneDeviceIsInStep` | `Spec => []LoneDeviceAgrees` | `AloneAndAnswered` |
| `LoneUpdateReplacesItsBase` | `Spec => UpdateReplacesItsBase` | `AloneAndAnswered` |
| `PullIsSafe` | `Spec => PullDestroysNothingHandled` | `StaysConnected` |
| `OnlyPollAndPushStrand` | a coalesced save loses the sync that would hand it on only when a poll or a push of its env ends | any constants |
| `SavesAloneStrandNone` | no coalesced save is without a sync to hand it on | no poll, no push |

`OverrideMeetsItsOwnLock` is stronger than a run that TLC finds violated would be: such
a run shows one execution that sends nothing, the theorem that none sends anything.
`LoneUpdateReplacesItsBase` is the other side of `LostUpdate`: the base hash does
what its comment says as long as one client writes and none of its attempts
outlives it. The last two say how far `PollDropsSave` goes: the `finally` blocks of the
poll and of a push are the only ones that leave a save behind.

The hypotheses are on the constants, so each selects a class of instances, and
but for the last condition of the second each is there because TLC finds the
property violated without it:

- `AloneAndAnswered`: one device, no faults, handlers among save, poll, push and
  delete; contents, edits, flaps and prompts are free. With `create`, a create
  event running beside a save, which no lock prevents, records its content over
  the save's (four edits, or three if there is no row at first). With `boot`, a
  reload leaves an attempt with the API, as a lost answer does.
- `StaysConnected`: any number of devices, save, poll, push and create, with any
  faults, and no flaps: the run `CatchUp` is an instance. A flap loses the queued
  edit as told above. With `delete`, a file removed and created again under a poll
  raises only a create event, which uploads nothing. With `boot`, reloads are
  covered as well, but the row must exist and requests be answered, since a startup
  check that cannot list the row takes it for deleted and offers to remove the file:
  sufficient for the argument, though no run has shown it necessary.

`Agreement` is the invariant of the first: with `LoneDeviceAgrees` itself, what a
handler takes for the row's content is the row's, or the row is gone
(`NothingIsStale`), and no attempt is with the API alone (`abandoned = {}`).
`Undisturbed` is that of the second: a poll that weighs a content (`conflict`,
`write`) read it from the file, and the file still holds it, or holds what the row
has had, or a save of it is due, coalesced or queued (`PollIsSafe`). A save that
meets the poll's lock joins `pendingSyncs`, which nothing empties before a save
holds the lock itself (a reload does, and ends the poll). `Local` says what a step of one device may do to the
files of all, so that this is proved per device. Both were checked
with TLC as invariants of small instances before they were proved.

`ServicesProofs` proves, for all periods, thresholds and bounds, that
`Services` keeps its types, `PollsWhileOnline`, `ChecksKeepPace` and
`OfflineIsEarned`. The last needs the strengthening `PendingOfflineIsEarned`: a
pending "offline" waits in "reconnecting" with its failures behind it, since a
healthy answer there replaces it. The others are inductive with the types. The
proof goes by the monitor's own steps (`MonitorStepKeeps`), transitions
(`ApplyKeeps`) and the services' actions (`StepKeeps`).

`ApiClientProofs` proves, for all windows, requests, retries and thresholds, that
`ApiClient` keeps its types, `OneRefreshAtATime` and `LoneWindowKeepsItsSession`.
The last needs `RotatedTokenIsCurrent`: the token a lone window is about to store
is the row's, because no second refresh can have rotated it meanwhile, which
is where mutual exclusion enters. `SerialRequestsStaySignedIn` is the other side of
`NeedlessSignOut`: with one window, one request at a time and an API that answers
(`Serial`), `SignsOutOnlyIfRevoked` holds, so it takes two requests under way
together, a second window or an outage to lose a live session. Its invariant
`OneByOne` follows the one request: as long as there is a session to keep,
the request has the row's token or is about to store it, and once it is sent again
after a refresh the session lives, so no second 401 can come. Steps that neither begin nor end a refresh
are covered by one lemma (`CalmKeeps`); `SettledKeepsOneRefresh` covers the end of
a refresh.

`MetadataStoreProofs` proves `Spec => []IndexFindsTracked` and `Spec => ImplementsMap`
for the store by itself, whatever its callers ask for and when. The
invariant `StoreInv` says what the index and the entries have to do with each other
between writes and in the middle of each kind of write: a save or clear is
seen in the entries at once and in the index only when its `update` is done
(`SaveInSight`, `ClearInSight`, `AllClearInSight`), so a lookup in between may miss a
file that is being saved, and no other (`IndexRight`); a file under two ids, of
which a clear makes the index forget both, is known (`DoubledKnown`). Refinement goes step by step: the map changes
where a write's `update` begins, and everything else stutters, but for a reload,
which takes an unfinished write back or leaves it.

`RepoIdentityProofs` composes the flows, the store and the API, for any number of
handlers, users, remotes and files:

| Theorem | Says |
|---|---|
| `IdentityInvariant` | `Spec => []IInv` |
| `IdentityTypes` | `Spec => []TypeOK` |
| `WindowFindsTracked`, `WindowImplementsMap` | every step of the flows is one of the store or leaves it alone: `[]IndexFindsTracked`, `ImplementsMap` |
| `WindowIsScoped` | `Spec => []StateIsScoped` |
| `MigrationsAreOnes` | `Spec => []NoCrossUserMigration` |

`IInv` adds to `StoreInv`: a handler has the locals it will use where it goes next
(`Ready`), so that every id it asks a write for is an id; whoever waits for a
write is where a handler waits (`WaitsInPlace`), so where none runs nothing is queued; and, as
long as no handler of the former account goes on, every id in the metadata, on
disk, in queued writes, in the locals and in `lastActiveRepoId` is one of the scoped
user (`AllOurs`). The last is not kept by an account switch alone: the former
user's metadata is cleared after the user has changed, and the scope changes after
that. `SwitchAlone` closes the gap: a switch that found no handler running has the
queue for itself, so when its clear is done nothing is left. One definition,
`Does(h)`, says what any step of a handler does to shared state; each action is
shown to do no more (`...Does`), and `DoesKeepsInv` uses nothing else.

`RepoPromptProofs` proves `Spec => AskedOncePerChange` (`NobodyIsAskedTwice`) from
that. `AskedInv` follows what a check or command has asked: nothing before its first
look; at the prompt only the change it is at; after a migration nothing that
starts from the last active id, since that has moved on (`Behind`); and after
`Activate` the last active id is the one the check resolved, so the second look
finds a change only from that. Another handler's record makes everybody forget
(`OthersForget`), as the property's "since" demands.

`DeviceLoginProofs` proves, for all logins, windows and limits, the types,
`FlagHasLoop`, `QuotaHolds` and `StoredKeysOpen`. `RoundsLeft` keeps the count of polls in bounds;
`RoomForAll` says that the devices, together with those still to be inserted, fit the
quota and the logins let in while another was inserting (`crowded`): the first
login let in has found room for itself, and every further one is counted
(`CountedOnce`). So an excess has no other cause than overlapping counts. That a window which says it is polling has a loop is
inductive once it is seen that a loop ends only with the flag cleared
(`EndKeepsLoops`) and otherwise goes on as one (`MoveKeepsLoops`).
`StoredKeysOpen` needs `AloneKeyed`: a login that nothing has come in the way of is
the only one under way, and every key, token and wrapped material it has stored or
read so far is its own. It is the safety half of `ApprovedLoginSignsIn`: a fair run
of such a login comes to the verification, and there it succeeds.

Every safety property that a passing run checks is stated by a theorem. Left to TLC
is all liveness: `CleanDeviceCatchesUp`, `LockIsReleased`, `RecoversWithTheNetwork`,
`NoticesTheLoss`, `RequestsSettle`, `OpenCircuitIsProbed`, `LoginsEnd` and
`ApprovedLoginSignsIn` (fairness and ENABLED are beyond the prover).

## 5. Not modelled

About half of the repository's code is presentation: the web application, the
component library, e-mail templates, and the extension's views. Its state is React's
and its calls to the API are those modelled for devices, so there is nothing in it
for these methods beyond single components. The logic is in the extension and the
API, some 14,000 lines, much of which is I/O, schemas, wording and logging; the map
covers the parts that keep state across an `await`.

Of that logic the following is left out:

- **Env value cache** (`env-cache.ts`): parsed files by name for hovers and
  trees, rebuilt from disk by the watcher's events; a stale entry shows an old value
  and no other state depends on it.
- **E-mail queue**: the retries are BullMQ's, and the mails follow from single
  statements; what is to be guaranteed lies in the library.
- **Operation queue, several files**: a file's push is in `EnvSync`. Eviction at
  100 cannot happen, since a repository has at most 50 files and only pushes are
  queued; files meet in `isProcessing` alone, which makes an online event during a
  replay do nothing: what is queued meanwhile waits for the next one, as in
  `QueueStranded`.
- **Key material for the web client** (`key-material.api.ts`): its "delivered once" is
  read and recorded in two statements, and two requests may both be served.
- **Slugs, renaming and deletion of repositories, users, onboarding, statistics**:
  single statements behind the ORM.
- **Cryptography, reading of git remotes, workspace validation, rate limits**:
  libraries, string handling and the file system. The models use that hashes and
  encryption are injective.
