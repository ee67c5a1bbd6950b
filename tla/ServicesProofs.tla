--------------------------- MODULE ServicesProofs ---------------------------
(***************************************************************************)
(* Theorems about Services, for every choice of intervals, debounce,       *)
(* timeout, threshold and bounds.                                          *)
(***************************************************************************)
EXTENDS Services, TLAPS

(* A pending "offline" has its failures behind it, and waits in            *)
(* "reconnecting": a healthy answer would have replaced it.                *)
PendingOfflineIsEarned ==
  debounceTimer # Off /\ debounceTimer.to = "offline" =>
    state = "reconnecting" /\ failures >= Threshold

IInv == TypeOK /\ PendingOfflineIsEarned /\ PollsWhileOnline /\ ChecksKeepPace

-----------------------------------------------------------------------------
(* A check that ends leaves the others in flight as they are.              *)
LEMMA RemoveAtType ==
  ASSUME NEW S, NEW s \in Seq(S), NEW i \in DOMAIN s
  PROVE  RemoveAt(s, i) \in Seq(S)
  BY DEF RemoveAt

(* The interval of every state is one a timer can hold.                    *)
LEMMA IntervalType ==
  ASSUME NEW s
  PROVE  /\ CheckInterval(s) \in Nat \ {0}
         /\ CheckInterval(s) \in 0..HealthInterval \cup 0..RecoveryInterval
  BY TicksAreNumbers DEF CheckInterval

(* What performCheck may ask for, state by state.                          *)
LEMMA WantedStates ==
  ASSUME state \in ConnectionState, NEW n \in Nat
  PROVE  /\ Wanted(n) \subseteq ConnectionState
         /\ n = 0 /\ state # "online" => Wanted(n) = {"online"}
         /\ "offline" \in Wanted(n) => state = "reconnecting" /\ n >= Threshold
  BY TicksAreNumbers DEF Wanted, ConnectionState

LEMMA Initially == Init => IInv
<1> SUFFICES ASSUME Init PROVE IInv
  OBVIOUS
<1> USE DEF Init, MonitorInit
<1>1. MonitorTypeOK
  BY TicksAreNumbers DEF MonitorTypeOK, ConnectionState
<1>2. TypeOK
  BY <1>1 DEF TypeOK
<1>3. PendingOfflineIsEarned
  BY DEF PendingOfflineIsEarned
<1>4. PollsWhileOnline /\ ChecksKeepPace
  BY DEF PollsWhileOnline, Started, ChecksKeepPace
<1> QED
  BY <1>2, <1>3, <1>4 DEF IInv

-----------------------------------------------------------------------------
(* What starting and stopping the monitor do to its part of the invariant. *)
LEMMA StartKeeps ==
  ASSUME MonitorTypeOK, retries \in Nat, Start
  PROVE  MonitorTypeOK' /\ retries' \in Nat
<1>1. checks' \in Seq(Check)
  BY TicksAreNumbers DEF MonitorTypeOK, Start, PerformCheck, Check
<1>2. checkTimer' \in 0..HealthInterval \cup 0..RecoveryInterval
  BY IntervalType DEF Start
<1> QED
  BY <1>1, <1>2 DEF MonitorTypeOK, Start

(* The monitor's own steps only shorten or restart a timer, and a pending  *)
(* "offline" stays earned.                                                 *)
LEMMA MonitorStepKeeps ==
  ASSUME MonitorTypeOK, retries \in Nat, PendingOfflineIsEarned, MonitorStep
  PROVE  /\ MonitorTypeOK' /\ retries' \in Nat
         /\ PendingOfflineIsEarned'
         /\ state' = state
         /\ checkTimer # Off =>
              /\ checkTimer' # Off
              /\ \/ checkTimer' <= checkTimer
                 \/ checkTimer' = CheckInterval(state)
<1>1. CASE RetryNow
  <2>1. checks' \in Seq(Check)
    BY <1>1, TicksAreNumbers DEF MonitorTypeOK, RetryNow, PerformCheck, Check
  <2> QED
    BY <1>1, <2>1, OffIsNoTimer
    DEF RetryNow, MonitorTypeOK, PendingOfflineIsEarned
<1>2. CASE IntervalFires
  <2>1. checks' \in Seq(Check)
    BY <1>2, TicksAreNumbers
    DEF MonitorTypeOK, IntervalFires, PerformCheck, Check
  <2>2. /\ checkTimer' \in Nat
        /\ checkTimer' \in 0..HealthInterval \cup 0..RecoveryInterval
        /\ checkTimer' = CheckInterval(state)
    BY <1>2, IntervalType DEF IntervalFires
  <2> QED
    BY <1>2, <2>1, <2>2, OffIsNoTimer
    DEF IntervalFires, MonitorTypeOK, PendingOfflineIsEarned
<1>3. ASSUME NEW i \in DOMAIN checks, NEW healthy \in BOOLEAN,
             CheckEnds(i, healthy)
      PROVE  /\ MonitorTypeOK'
             /\ PendingOfflineIsEarned'
             /\ UNCHANGED <<state, checkTimer, retries>>
  <2>1. checks' \in Seq(Check)
    BY <1>3, RemoveAtType DEF MonitorTypeOK, CheckEnds
  <2>2. failures' \in 0..Threshold
    BY <1>3, TicksAreNumbers DEF MonitorTypeOK, CheckEnds, OneMore
  <2>3. CASE Wanted(failures') = {} /\ UNCHANGED debounceTimer
    <3>1. ~(state = "reconnecting" /\ failures' >= Threshold)
      BY <2>2, <2>3, TicksAreNumbers DEF Wanted, ConnectionState
    <3>2. healthy => failures' = 0 /\ state = "online"
      BY <1>3, <2>3 DEF CheckEnds, Wanted, ConnectionState, MonitorTypeOK
    <3>3. ~healthy => failures' >= failures
      BY <1>3, TicksAreNumbers DEF CheckEnds, OneMore, MonitorTypeOK
    <3>4. PendingOfflineIsEarned'
      BY <1>3, <2>2, <2>3, <3>1, <3>2, <3>3, TicksAreNumbers
      DEF PendingOfflineIsEarned, CheckEnds, MonitorTypeOK
    <3> QED
      BY <1>3, <2>1, <2>2, <2>3, <3>4 DEF MonitorTypeOK, CheckEnds
  <2>4. CASE \E s \in Wanted(failures') :
               debounceTimer' = [to |-> s, left |-> Stability]
    <3>1. PICK s \in Wanted(failures') :
                 debounceTimer' = [to |-> s, left |-> Stability]
      BY <2>4
    <3>2. /\ s \in ConnectionState
          /\ s = "offline" => state = "reconnecting" /\ failures' >= Threshold
      BY <2>2, <3>1 DEF Wanted
    <3>3. debounceTimer' \in Transition
      BY <3>1, <3>2, TicksAreNumbers DEF Transition
    <3>4. PendingOfflineIsEarned'
      BY <1>3, <3>1, <3>2 DEF PendingOfflineIsEarned, CheckEnds
    <3> QED
      BY <1>3, <2>1, <2>2, <3>3, <3>4 DEF MonitorTypeOK, CheckEnds
  <2> QED
    BY <1>3, <2>3, <2>4 DEF CheckEnds, TransitionTo
<1>4. CASE NetChanges
  BY <1>4, OffIsNoTimer DEF NetChanges, MonitorTypeOK, PendingOfflineIsEarned
<1>5. CASE Tick
  <2>1. /\ checkTimer = Off => checkTimer' = Off
        /\ checkTimer # Off =>
             /\ checkTimer' \in 0..HealthInterval \cup 0..RecoveryInterval
             /\ checkTimer' <= checkTimer
    BY <1>5, TicksAreNumbers DEF Tick, NothingDue, MonitorTypeOK
  <2>2. /\ debounceTimer = Off => debounceTimer' = Off
        /\ debounceTimer # Off =>
             /\ debounceTimer' \in Transition
             /\ debounceTimer'.to = debounceTimer.to
    BY <1>5, TicksAreNumbers DEF Tick, NothingDue, MonitorTypeOK, Transition
  <2>3. checks' \in Seq(Check)
    <3>1. ASSUME NEW i \in DOMAIN checks
          PROVE  [checks[i] EXCEPT !.left = @ - 1] \in Check
      <4>1. checks[i] \in Check /\ checks[i].left > 0
        BY <1>5 DEF Tick, NothingDue, MonitorTypeOK
      <4> QED
        BY <4>1, TicksAreNumbers DEF Check
    <3>2. Len(checks) \in Nat /\ DOMAIN checks = 1..Len(checks)
      BY DEF MonitorTypeOK
    <3> QED
      BY <1>5, <3>1, <3>2 DEF Tick
  <2> QED
    BY <1>5, <2>1, <2>2, <2>3, OffIsNoTimer
    DEF Tick, MonitorTypeOK, PendingOfflineIsEarned
<1>6. CASE \E i \in DOMAIN checks, healthy \in BOOLEAN : CheckEnds(i, healthy)
  <2>1. MonitorTypeOK' /\ PendingOfflineIsEarned'
        /\ UNCHANGED <<state, checkTimer, retries>>
    BY <1>3, <1>6
  <2> QED
    BY <2>1, OffIsNoTimer DEF MonitorTypeOK
<1> QED
  BY <1>1, <1>2, <1>4, <1>5, <1>6 DEF MonitorStep

-----------------------------------------------------------------------------
(* Applying a transition: the new state's interval is scheduled with it.   *)
LEMMA ApplyKeeps ==
  ASSUME MonitorTypeOK, retries \in Nat, ApplyTransition
  PROVE  /\ MonitorTypeOK' /\ retries' \in Nat
         /\ debounceTimer' = Off
         /\ \/ state' = state /\ checkTimer' = checkTimer
            \/ checkTimer' = CheckInterval(state')
<1>1. state' \in ConnectionState
  BY DEF MonitorTypeOK, ApplyTransition, Transition
<1>2. CheckInterval(state') \in 0..HealthInterval \cup 0..RecoveryInterval
  BY IntervalType
<1> QED
  BY <1>1, <1>2 DEF MonitorTypeOK, ApplyTransition

(* Every step keeps the invariant, action by action.                       *)
LEMMA StepKeeps == IInv /\ [Next]_vars => IInv'
<1> SUFFICES ASSUME IInv, [Next]_vars PROVE IInv'
  OBVIOUS
<1> USE DEF IInv, TypeOK
<1>1. CASE SignIn
  BY <1>1 DEF SignIn, monitorVars, MonitorTypeOK, PendingOfflineIsEarned,
              PollsWhileOnline, Started, ChecksKeepPace
<1>2. CASE StartServices
  <2>1. MonitorTypeOK' /\ retries' \in Nat
    BY <1>2, StartKeeps DEF StartServices
  <2>2. TypeOK'
    BY <1>2, <2>1 DEF StartServices
  <2>3. PendingOfflineIsEarned'
    BY <1>2 DEF StartServices, Start, PendingOfflineIsEarned
  <2>4. PollsWhileOnline'
    BY <1>2 DEF StartServices, PollsWhileOnline, Started
  <2>5. ChecksKeepPace'
    BY <1>2, IntervalType, OffIsNoTimer DEF StartServices, Start, ChecksKeepPace
  <2> QED
    BY <2>2, <2>3, <2>4, <2>5
<1>3. CASE InitialCheckDone
  BY <1>3 DEF InitialCheckDone, monitorVars, MonitorTypeOK,
              PendingOfflineIsEarned, PollsWhileOnline, Started, ChecksKeepPace
<1>4. CASE SignOut
  BY <1>4 DEF SignOut, Stop, MonitorTypeOK, PendingOfflineIsEarned,
              PollsWhileOnline, Started, ChecksKeepPace
<1>5. CASE ConnectionChanges
  <2>1. /\ MonitorTypeOK' /\ retries' \in Nat
        /\ debounceTimer' = Off
        /\ \/ state' = state /\ checkTimer' = checkTimer
           \/ checkTimer' = CheckInterval(state')
    BY <1>5, ApplyKeeps DEF ConnectionChanges
  <2>2. TypeOK'
    BY <1>5, <2>1 DEF ConnectionChanges
  <2>3. PendingOfflineIsEarned'
    BY <2>1 DEF PendingOfflineIsEarned
  <2>4. PollsWhileOnline'
    BY <1>5 DEF ConnectionChanges, PollsWhileOnline, Started, IsOnline
  <2>5. ChecksKeepPace'
    BY <1>5, <2>1, IntervalType, OffIsNoTimer
    DEF ConnectionChanges, ChecksKeepPace
  <2> QED
    BY <2>2, <2>3, <2>4, <2>5
<1>6. CASE MonitorStep /\ UNCHANGED serviceVars
  <2>1. /\ MonitorTypeOK' /\ retries' \in Nat
        /\ PendingOfflineIsEarned'
        /\ state' = state
        /\ checkTimer # Off =>
             /\ checkTimer' # Off
             /\ \/ checkTimer' <= checkTimer
                \/ checkTimer' = CheckInterval(state)
    BY <1>6, MonitorStepKeeps
  <2>2. TypeOK'
    BY <1>6, <2>1 DEF serviceVars
  <2>3. PollsWhileOnline'
    BY <1>6, <2>1 DEF serviceVars, PollsWhileOnline, Started, IsOnline
  <2>4. ChecksKeepPace'
    <3>1. CheckInterval(state) \in Nat
      BY IntervalType
    <3>2. CheckInterval(state') = CheckInterval(state)
      BY <2>1
    <3>3. checkTimer # Off => checkTimer \in Nat
      BY TicksAreNumbers DEF MonitorTypeOK
    <3>4. checkTimer' # Off => checkTimer' \in Nat
      BY <2>1, TicksAreNumbers DEF MonitorTypeOK
    <3> QED
      BY <1>6, <2>1, <3>1, <3>2, <3>3, <3>4 DEF serviceVars, ChecksKeepPace
  <2> QED
    BY <2>1, <2>2, <2>3, <2>4
<1>7. CASE UNCHANGED vars
  BY <1>7 DEF vars, monitorVars, serviceVars, MonitorTypeOK,
              PendingOfflineIsEarned, PollsWhileOnline, Started, IsOnline,
              ChecksKeepPace
<1> QED
  BY <1>1, <1>2, <1>3, <1>4, <1>5, <1>6, <1>7 DEF Next

-----------------------------------------------------------------------------
(* The invariant of the services of a window.                              *)
THEOREM ServicesInvariance == Spec => []IInv
  BY Initially, StepKeeps, PTL DEF Spec

(* Types of the monitor's and the services' state.                         *)
THEOREM ServicesTypeCorrect == Spec => []TypeOK
  BY ServicesInvariance, PTL DEF IInv

(* Started services poll whenever the connection is online                 *)
(* (env-sync-manager.ts:89-100, extension.ts:201-219).                     *)
THEOREM StartedServicesPoll == Spec => []PollsWhileOnline
  BY ServicesInvariance, PTL DEF IInv

(* A running monitor's next check is never further away than its state     *)
(* allows (scheduleCheck).                                                 *)
THEOREM ChecksStayClose == Spec => []ChecksKeepPace
  BY ServicesInvariance, PTL DEF IInv

(* The state becomes "offline" only after Threshold failures in a row.     *)
THEOREM OfflineOnlyWhenEarned == Spec => OfflineIsEarned
<1>1. IInv /\ [Next]_vars =>
        [state # "offline" /\ state' = "offline" => failures >= Threshold]_vars
  <2> SUFFICES ASSUME IInv, [Next]_vars, state # "offline", state' = "offline"
               PROVE  failures >= Threshold
    OBVIOUS
  <2>1. CASE ConnectionChanges
    BY <2>1 DEF ConnectionChanges, ApplyTransition, IInv, PendingOfflineIsEarned
  <2>2. CASE ~ConnectionChanges
    BY <2>2 DEF Next, vars, monitorVars, serviceVars, SignIn, StartServices,
                Start, InitialCheckDone, SignOut, Stop, MonitorStep, RetryNow,
                IntervalFires, CheckEnds, NetChanges, Tick
  <2> QED
    BY <2>1, <2>2
<1> QED
  BY <1>1, ServicesInvariance, PTL DEF Spec, OfflineIsEarned
=============================================================================
