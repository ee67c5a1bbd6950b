------------------------- MODULE ConnectionMonitor --------------------------
(***************************************************************************)
(* ConnectionMonitor (services/connection-monitor.ts): a repeating health  *)
(* check, several of which may be in flight at once, drives a state that   *)
(* changes only after a debounce.  Time advances in ticks (5 s in the      *)
(* runs) and never past a timer that is due.                               *)
(***************************************************************************)
EXTENDS Integers, SequencesExt

CONSTANTS
  HealthInterval,     \* ticks between checks while online
  RecoveryInterval,   \* ticks between checks otherwise
  Stability,          \* ticks a transition is debounced
  Timeout,            \* ticks until a check is aborted
  Threshold,          \* failures in a row before "offline"
  Off,                \* no timer
  MaxRetries          \* bound: manual retries of the user

ASSUME TicksAreNumbers ==
  /\ HealthInterval \in Nat \ {0} /\ RecoveryInterval \in Nat \ {0}
  /\ Stability \in Nat /\ Timeout \in Nat /\ Threshold \in Nat \ {0}

ASSUME OffIsNoTimer == Off \notin Nat /\ Off \notin [to : STRING, left : Nat]

VARIABLES
  state,              \* _state
  failures,           \* consecutiveFailures, counted up to Threshold
  checkTimer,         \* ticks until the interval fires
  debounceTimer,      \* the pending transition and its ticks
  checks,             \* the checks in flight: ticks left, net at the start
  net,                \* does the API answer?
  retries             \* manual retries so far

monitorVars == <<state, failures, checkTimer, debounceTimer, checks, net,
                 retries>>

ConnectionState == {"online", "reconnecting", "offline"}
IsOnline == state = "online"

Check == [left : 0..Timeout, net : {"up", "down"}]
Transition == [to : ConnectionState, left : 0..Stability]

(* The period scheduleCheck gives the interval timer in state s.           *)
CheckInterval(s) == IF s = "online" THEN HealthInterval ELSE RecoveryInterval

MonitorInit ==
  /\ state = "online" /\ failures = 0
  /\ checkTimer = Off /\ debounceTimer = Off
  /\ checks = << >>
  /\ net \in {"up", "down"}
  /\ retries = 0

PerformCheck == checks' = Append(checks, [left |-> Timeout, net |-> net])

(* start() schedules the interval and checks at once.                      *)
(* Mutant: it only checks.                                                 *)
StartOnce ==
  /\ PerformCheck
  /\ UNCHANGED <<state, failures, checkTimer, debounceTimer, net, retries>>
Start ==
  /\ checkTimer' = CheckInterval(state)
  /\ PerformCheck
  /\ UNCHANGED <<state, failures, debounceTimer, net, retries>>

(* clearTimers: both timers stop; checks in flight go on.                  *)
Stop ==
  /\ checkTimer' = Off
  /\ debounceTimer' = Off
  /\ UNCHANGED <<state, failures, checks, net, retries>>

RetryNow ==
  /\ retries < MaxRetries
  /\ retries' = retries + 1
  /\ PerformCheck
  /\ UNCHANGED <<state, failures, checkTimer, debounceTimer, net>>

IntervalFires ==
  /\ checkTimer = 0
  /\ checkTimer' = CheckInterval(state)
  /\ PerformCheck
  /\ UNCHANGED <<state, failures, debounceTimer, net, retries>>

(* The transition performCheck asks for after the n-th failure in a row    *)
(* (n = 0: a healthy answer), if any.                                      *)
(* Mutant: the failures in a row are not looked at.                        *)
WantedAtOnce(n) == {s \in ConnectionState :
  \/ s = "online" /\ state # "online" /\ n = 0
  \/ s = "reconnecting" /\ state = "online" /\ n > 0
  \/ s = "offline" /\ state = "reconnecting" /\ n > 0}
Wanted(n) == {s \in ConnectionState :
  \/ s = "online" /\ state # "online" /\ n = 0
  \/ s = "reconnecting" /\ state = "online" /\ n > 0
  \/ s = "offline" /\ state = "reconnecting" /\ n >= Threshold}

(* transitionTo: the debounce starts anew; otherwise it goes on.           *)
TransitionTo(wanted) ==
  \/ wanted = {} /\ UNCHANGED debounceTimer
  \/ \E s \in wanted : debounceTimer' = [to |-> s, left |-> Stability]

(* Counting stops at Threshold, beyond which the code tells no difference. *)
OneMore(n) == IF n < Threshold THEN n + 1 ELSE n

(* A check in flight sees the network of its start or of its end.          *)
CheckEnds(i, healthy) ==
  /\ (IF healthy THEN "up" ELSE "down") \in {checks[i].net, net}
  /\ checks' = RemoveAt(checks, i)
  /\ failures' = IF healthy THEN 0 ELSE OneMore(failures)
  /\ TransitionTo(Wanted(failures'))
  /\ UNCHANGED <<state, checkTimer, net, retries>>

(* applyTransition; scheduleCheck restarts the interval, running or not.   *)
(* Mutant: the interval keeps the period of the state that was left.       *)
ApplyKeepsInterval ==
  /\ debounceTimer # Off /\ debounceTimer.left = 0
  /\ state' = debounceTimer.to
  /\ debounceTimer' = Off
  /\ UNCHANGED <<failures, checkTimer, checks, net, retries>>
ApplyTransition ==
  /\ debounceTimer # Off /\ debounceTimer.left = 0
  /\ state' = debounceTimer.to
  /\ debounceTimer' = Off
  /\ checkTimer' = IF state' = state THEN checkTimer ELSE CheckInterval(state')
  /\ UNCHANGED <<failures, checks, net, retries>>

-----------------------------------------------------------------------------
(* The network, and time.                                                  *)
NetChanges ==
  /\ net' \in {"up", "down"} \ {net}
  /\ UNCHANGED <<state, failures, checkTimer, debounceTimer, checks, retries>>

NothingDue ==
  /\ checkTimer # 0
  /\ debounceTimer # Off => debounceTimer.left > 0
  /\ \A i \in DOMAIN checks : checks[i].left > 0

Tick ==
  /\ NothingDue
  /\ checkTimer' = IF checkTimer = Off THEN Off ELSE checkTimer - 1
  /\ debounceTimer' = IF debounceTimer = Off THEN Off
                      ELSE [debounceTimer EXCEPT !.left = @ - 1]
  /\ checks' = [i \in DOMAIN checks |-> [checks[i] EXCEPT !.left = @ - 1]]
  /\ UNCHANGED <<state, failures, net, retries>>

MonitorStep ==
  \/ RetryNow
  \/ IntervalFires
  \/ \E i \in DOMAIN checks, healthy \in BOOLEAN : CheckEnds(i, healthy)
  \/ NetChanges
  \/ Tick

MonitorTypeOK ==
  /\ state \in ConnectionState
  /\ failures \in 0..Threshold
  /\ checkTimer \in 0..HealthInterval \cup 0..RecoveryInterval \cup {Off}
  /\ debounceTimer \in Transition \cup {Off}
  /\ checks \in Seq(Check)
  /\ net \in {"up", "down"}
=============================================================================
