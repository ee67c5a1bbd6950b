------------------------------ MODULE Services ------------------------------
(***************************************************************************)
(* The services of one window (extension.ts): signing in and out starts    *)
(* and stops the file watcher, the connection monitor and the poll, and    *)
(* SyncManager's listener (env-sync-manager.ts) starts and stops the poll  *)
(* with the connection.                                                    *)
(***************************************************************************)
EXTENDS ConnectionMonitor

CONSTANTS MaxLogins   \* bound: completed sign-ins

VARIABLES
  signedIn,           \* has the last auth event been fire(true)?
  entering,           \* auth handlers before startServices
  starting,           \* startServices waiting for the initial check
  watching,           \* EnvFileWatcher has watchers
  polling,            \* SyncManager.pollInterval is set
  logins              \* sign-ins so far

serviceVars == <<signedIn, entering, starting, watching, polling, logins>>
vars == <<monitorVars, serviceVars>>

(* Activation: startServices runs at once if a token is stored.            *)
Init ==
  /\ MonitorInit
  /\ signedIn \in BOOLEAN
  /\ entering = IF signedIn THEN 1 ELSE 0
  /\ starting = 0 /\ logins = 0
  /\ watching = FALSE /\ polling = FALSE

(* fire(true): the handler reads the user ids before startServices.        *)
SignIn ==
  /\ ~signedIn /\ logins < MaxLogins
  /\ signedIn' = TRUE
  /\ entering' = entering + 1
  /\ logins' = logins + 1
  /\ UNCHANGED <<starting, watching, polling, monitorVars>>

StartServices ==
  /\ entering > 0
  /\ entering' = entering - 1
  /\ starting' = starting + 1
  /\ watching' = TRUE
  /\ Start
  /\ UNCHANGED <<signedIn, polling, logins>>

(* performInitialCheck has returned: startPolling, whatever happened.      *)
(* Mutant: the poll is left to the connection event.                       *)
InitialCheckDoneQuietly ==
  /\ starting > 0
  /\ starting' = starting - 1
  /\ UNCHANGED <<signedIn, entering, watching, polling, logins, monitorVars>>
InitialCheckDone ==
  /\ starting > 0
  /\ starting' = starting - 1
  /\ polling' = TRUE
  /\ UNCHANGED <<signedIn, entering, watching, logins, monitorVars>>

(* fire(false), from a request whose session cannot be refreshed: one made *)
(* by the services of a user, or by one that still runs without a user.    *)
SignOut ==
  /\ signedIn \/ polling \/ watching \/ starting > 0
  /\ signedIn' = FALSE
  /\ watching' = FALSE
  /\ polling' = FALSE
  /\ Stop
  /\ UNCHANGED <<entering, starting, logins>>

(* The debounced transition and the connection event it fires.             *)
(* Mutant: the listener only pauses the poll.                              *)
ConnectionPauses ==
  /\ ApplyTransition
  /\ polling' = (polling /\ (state = "online" => state' = "online"))
  /\ UNCHANGED <<signedIn, entering, starting, watching, logins>>
ConnectionChanges ==
  /\ ApplyTransition
  /\ polling' = IF (state = "online") = (state' = "online") THEN polling
                ELSE state' = "online"
  /\ UNCHANGED <<signedIn, entering, starting, watching, logins>>

Next ==
  \/ SignIn
  \/ StartServices
  \/ InitialCheckDone
  \/ SignOut
  \/ ConnectionChanges
  \/ MonitorStep /\ UNCHANGED serviceVars

Spec == Init /\ [][Next]_vars

-----------------------------------------------------------------------------
(* Types: the monitor's (counters, timers, checks in flight) and the       *)
(* services' (handlers under way).                                         *)
TypeOK ==
  /\ MonitorTypeOK
  /\ retries \in Nat /\ logins \in Nat
  /\ signedIn \in BOOLEAN /\ watching \in BOOLEAN /\ polling \in BOOLEAN
  /\ entering \in Nat /\ starting \in Nat

(* The connection is called lost only after Threshold failed checks in a   *)
(* row: late answers, manual retries and checks that outlive a sign-out    *)
(* included, a healthy answer takes a pending "offline" back.              *)
OfflineIsEarned ==
  [][state # "offline" /\ state' = "offline" => failures >= Threshold]_vars

(* Once a signed-in user's services have started, the poll runs whenever   *)
(* the connection is online, whatever was signed out, lost or regained     *)
(* while they were starting.                                               *)
Started == signedIn /\ entering = 0 /\ starting = 0
PollsWhileOnline == Started /\ IsOnline => polling

(* A user's window never waits longer for its next check than the state    *)
(* of its connection allows.                                               *)
ChecksKeepPace ==
  signedIn /\ entering = 0 =>
    checkTimer # Off /\ checkTimer <= CheckInterval(state)

(* Timers fire, checks end at their timeout at the latest, the initial     *)
(* check returns, and time passes.                                         *)
Fairness ==
  /\ WF_vars(StartServices) /\ WF_vars(InitialCheckDone)
  /\ WF_vars(ConnectionChanges)
  /\ WF_vars(IntervalFires /\ UNCHANGED serviceVars)
  /\ WF_vars(/\ \E i \in DOMAIN checks, healthy \in BOOLEAN :
                  CheckEnds(i, healthy)
             /\ UNCHANGED serviceVars)
  /\ WF_vars(Tick /\ UNCHANGED serviceVars)

FairSpec == Spec /\ Fairness

(* A signed-in window whose network stays up ends up online and polling,   *)
(* from whatever state, timers and checks in flight.                       *)
RecoversWithTheNetwork ==
  <>[](signedIn /\ net = "up") => <>[](IsOnline /\ polling)

(* A signed-in window whose network stays down ends up offline, although   *)
(* every failed check that wants a transition starts its debounce anew.    *)
NoticesTheLoss ==
  <>[](signedIn /\ net = "down") => <>[](state = "offline")
=============================================================================
