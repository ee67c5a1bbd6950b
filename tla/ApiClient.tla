----------------------------- MODULE ApiClient ------------------------------
(***************************************************************************)
(* EnvvalApiClient (api/client.ts) with the session half of                *)
(* AuthenticationProvider (providers/auth-provider.ts): requests are       *)
(* retried after transient failures, refused by a circuit breaker, and     *)
(* sent again after a 401 once the session has been refreshed.             *)
(***************************************************************************)
EXTENDS SessionApi, Naturals

CONSTANTS
  MaxRetries,         \* RETRY_CONFIG.maxRetries
  Threshold           \* CIRCUIT_BREAKER_FAILURE_THRESHOLD

ASSUME LimitsAreNumbers == MaxRetries \in Nat /\ Threshold \in Nat \ {0}

VARIABLES
  refreshPromise,     \* the request whose refresh others wait for
  circuit,            \* circuitState
  failures,           \* consecutiveFailures, counted up to Threshold
  cooled              \* has the cooldown passed since the circuit opened?

breakerVars == <<circuit, failures, cooled>>
vars == <<sessionVars, secret, req, refreshPromise, breakerVars>>

PCs == {"idle", "sent", "backoff", "refused", "waiting", "refresh", "found",
        "rotated", "leaving"}
Request == [pc : PCs, token : Tokens, authRetry : BOOLEAN,
            retries : 0..MaxRetries]
Idle == [pc |-> "idle", token |-> "none", authRetry |-> FALSE, retries |-> 0]

At(w, r, p) == req[w][r].pc = p

Init ==
  /\ session = "live" /\ apiUp = TRUE /\ lost = FALSE
  /\ secret = "current"
  /\ req = [w \in Windows |-> [r \in Requests |-> Idle]]
  /\ refreshPromise = [w \in Windows |-> None]
  /\ circuit = [w \in Windows |-> "closed"]
  /\ failures = [w \in Windows |-> 0]
  /\ cooled = [w \in Windows |-> FALSE]

-----------------------------------------------------------------------------
(* The breaker: a success closes it.                                       *)
RecordSuccess(w) ==
  /\ failures' = [failures EXCEPT ![w] = 0]
  /\ circuit' = [circuit EXCEPT ![w] = "closed"]
  /\ UNCHANGED cooled

(* Every error counts, a 404 too; only a closed circuit opens.             *)
RecordFailure(w) ==
  LET n == IF failures[w] < Threshold THEN failures[w] + 1 ELSE Threshold
      opens == n = Threshold /\ circuit[w] = "closed"
  IN  /\ failures' = [failures EXCEPT ![w] = n]
      /\ circuit' = [circuit EXCEPT ![w] = IF opens THEN "open" ELSE @]
      /\ cooled' = [cooled EXCEPT ![w] = ~opens /\ @]

CooldownPasses(w) ==
  /\ circuit[w] = "open" /\ ~cooled[w]
  /\ cooled' = [cooled EXCEPT ![w] = TRUE]
  /\ UNCHANGED <<sessionVars, secret, req, refreshPromise, circuit,
                 failures>>

(* The connection monitor reports "online".                                *)
ResetCircuitBreaker(w) ==
  /\ circuit[w] # "closed" \/ failures[w] > 0
  /\ circuit' = [circuit EXCEPT ![w] = "closed"]
  /\ failures' = [failures EXCEPT ![w] = 0]
  /\ UNCHANGED <<sessionVars, secret, req, refreshPromise, cooled>>

-----------------------------------------------------------------------------
(* get, post, put, delete: checkCircuitBreaker, then the request with the  *)
(* stored token.  Retries do not come by here.                             *)
(* Mutant: an open circuit stays open.                                     *)
CallWhenClosed(w, r) ==
  /\ At(w, r, "idle") /\ circuit[w] # "open"
  /\ Become(w, r, [Idle EXCEPT !.pc = "sent", !.token = secret])
  /\ UNCHANGED <<sessionVars, secret, refreshPromise, breakerVars>>
Call(w, r) ==
  /\ At(w, r, "idle")
  /\ circuit[w] = "open" => cooled[w]
  /\ circuit' = [circuit EXCEPT ![w] = IF @ = "open" THEN "half-open" ELSE @]
  /\ Become(w, r, [Idle EXCEPT !.pc = "sent", !.token = secret])
  /\ UNCHANGED <<sessionVars, secret, refreshPromise, failures, cooled>>

(* The API serves the request, or answers with an error of its own (4xx).  *)
Succeed(w, r) ==
  /\ At(w, r, "sent") /\ apiUp /\ Accepted(req[w][r].token)
  /\ Become(w, r, Idle)
  /\ RecordSuccess(w)
  /\ UNCHANGED <<sessionVars, secret, refreshPromise>>

Reject(w, r) ==
  /\ At(w, r, "sent") /\ apiUp /\ Accepted(req[w][r].token)
  /\ Become(w, r, Idle)
  /\ RecordFailure(w)
  /\ UNCHANGED <<sessionVars, secret, refreshPromise>>

(* A transient failure: handleRetry sleeps, until the retries are used up. *)
(* Mutant: one retry more.                                                 *)
FailOnceMore(w, r) ==
  /\ At(w, r, "sent") /\ ~apiUp
  /\ Become(w, r, IF req[w][r].retries <= MaxRetries
                  THEN [req[w][r] EXCEPT !.pc = "backoff", !.retries = @ + 1]
                  ELSE Idle)
  /\ RecordFailure(w)
  /\ UNCHANGED <<sessionVars, secret, refreshPromise>>
Fail(w, r) ==
  /\ At(w, r, "sent") /\ ~apiUp
  /\ Become(w, r, IF req[w][r].retries < MaxRetries
                  THEN [req[w][r] EXCEPT !.pc = "backoff", !.retries = @ + 1]
                  ELSE Idle)
  /\ RecordFailure(w)
  /\ UNCHANGED <<sessionVars, secret, refreshPromise>>

(* The retry takes the token stored by now, or keeps its own if none is.   *)
Resend(w, r) ==
  /\ At(w, r, "backoff")
  /\ Become(w, r, [req[w][r] EXCEPT !.pc = "sent",
                     !.token = IF secret = "none" THEN @ ELSE secret])
  /\ UNCHANGED <<sessionVars, secret, refreshPromise, breakerVars>>

(* The API answers 401; the answer is on its way.                          *)
Refuse(w, r) ==
  /\ At(w, r, "sent") /\ apiUp /\ ~Accepted(req[w][r].token)
  /\ Goto(w, r, "refused")
  /\ UNCHANGED <<sessionVars, secret, refreshPromise, breakerVars>>

-----------------------------------------------------------------------------
(* The 401 interceptor, after handleRetry has let the error through.       *)
GiveUp(w, r) ==
  /\ At(w, r, "refused") /\ req[w][r].authRetry
  /\ Goto(w, r, "leaving")
  /\ RecordFailure(w)
  /\ UNCHANGED <<sessionVars, secret, refreshPromise>>

(* refreshWithMutex: wait for the refresh under way.                       *)
AwaitRefresh(w, r) ==
  /\ At(w, r, "refused") /\ ~req[w][r].authRetry
  /\ refreshPromise[w] # None
  /\ Goto(w, r, "waiting")
  /\ RecordFailure(w)
  /\ UNCHANGED <<sessionVars, secret, refreshPromise>>

(* refreshSession with the stored token, or null if there is none.         *)
RefreshSession(w, r) ==
  /\ IF secret = "none"
     THEN Goto(w, r, "leaving") /\ UNCHANGED refreshPromise
     ELSE /\ Become(w, r, [req[w][r] EXCEPT !.pc = "refresh", !.token = secret])
          /\ refreshPromise' = [refreshPromise EXCEPT ![w] = r]
  /\ RecordFailure(w)
  /\ UNCHANGED <<sessionVars, secret>>

(* Mutants: the promise is not looked at; a second 401 refreshes again.    *)
RefreshWithoutMutex(w, r) ==
  At(w, r, "refused") /\ ~req[w][r].authRetry /\ RefreshSession(w, r)
RefreshAgain(w, r) ==
  At(w, r, "refused") /\ refreshPromise[w] = None /\ RefreshSession(w, r)
StartRefresh(w, r) ==
  /\ At(w, r, "refused") /\ ~req[w][r].authRetry
  /\ refreshPromise[w] = None
  /\ RefreshSession(w, r)

(* The promise is settled: its owner and all who wait go on as q says.     *)
Settle(w, r, q(_)) ==
  /\ refreshPromise' = [refreshPromise EXCEPT ![w] = None]
  /\ req' = [req EXCEPT ![w] = [s \in Requests |->
       IF s = r \/ @[s].pc = "waiting" THEN q(@[s]) ELSE @[s]]]

(* The new token is stored, and the requests are sent again with it.       *)
StoreToken(w, r) ==
  /\ At(w, r, "rotated")
  /\ secret' = req[w][r].token
  /\ Settle(w, r, LAMBDA q : [q EXCEPT !.pc = "sent", !.token = req[w][r].token,
                                       !.authRetry = TRUE])
  /\ UNCHANGED <<sessionVars, breakerVars>>

(* No new token: the session is gone, another token is current, the API is *)
(* down or its answer is lost.                                             *)
RefreshFails(w, r) ==
  /\ \/ /\ At(w, r, "refresh") /\ (apiUp => ~Refreshable(req[w][r].token))
        /\ UNCHANGED lost
     \/ /\ At(w, r, "rotated") /\ Faulty
        /\ lost' = TRUE
  /\ Settle(w, r, LAMBDA q : [q EXCEPT !.pc = "leaving"])
  /\ UNCHANGED <<session, apiUp, secret, breakerVars>>

(* handleTokenRefreshFailure: logout clears the secrets.                   *)
Logout(w, r) ==
  /\ At(w, r, "leaving")
  /\ secret' = "none"
  /\ Become(w, r, Idle)
  /\ UNCHANGED <<sessionVars, refreshPromise, breakerVars>>

(* A sign-in by device code takes longer than any answer.                  *)
SignIn ==
  /\ secret = "none"
  /\ \A w \in Windows, r \in Requests : At(w, r, "idle")
  /\ session' = "live" /\ lost' = FALSE
  /\ secret' = "current"
  /\ UNCHANGED <<apiUp, req, refreshPromise, breakerVars>>

(* The LOGOUT command clears the secrets and reloads the window; any       *)
(* window may be reloaded.  The API ends what it has begun.                *)
Reload(w, logout) ==
  /\ \A r \in Requests : ~At(w, r, "found")
  /\ secret' = IF logout THEN "none" ELSE secret
  /\ lost' = (lost \/ \E r \in Requests : At(w, r, "rotated"))
  /\ req' = [req EXCEPT ![w] = [r \in Requests |-> Idle]]
  /\ refreshPromise' = [refreshPromise EXCEPT ![w] = None]
  /\ circuit' = [circuit EXCEPT ![w] = "closed"]
  /\ failures' = [failures EXCEPT ![w] = 0]
  /\ cooled' = [cooled EXCEPT ![w] = FALSE]
  /\ UNCHANGED <<session, apiUp>>

-----------------------------------------------------------------------------
Interceptors(w, r) ==
  \/ GiveUp(w, r) \/ AwaitRefresh(w, r) \/ StartRefresh(w, r)
  \/ StoreToken(w, r) \/ RefreshFails(w, r) \/ Logout(w, r)
Answers(w, r) ==
  Succeed(w, r) \/ Reject(w, r) \/ Fail(w, r) \/ Refuse(w, r)
ServeRefresh(w, r) ==
  /\ FindSession(w, r) \/ RotateToken(w, r)
  /\ UNCHANGED <<refreshPromise, breakerVars>>
Progress(w, r) ==
  Resend(w, r) \/ Answers(w, r) \/ Interceptors(w, r) \/ ServeRefresh(w, r)
Environment ==
  /\ Expire \/ Revoke \/ Outage
  /\ UNCHANGED <<refreshPromise, breakerVars>>

Next ==
  \/ \E w \in Windows, r \in Requests :
       Call(w, r) \/ Progress(w, r)
  \/ \E w \in Windows :
       \/ CooldownPasses(w) \/ ResetCircuitBreaker(w)
       \/ \E logout \in BOOLEAN : Reload(w, logout)
  \/ SignIn
  \/ Environment

Spec == Init /\ [][Next]_vars

-----------------------------------------------------------------------------
(* Types: where each request is, and the bounds of the counters.           *)
TypeOK ==
  /\ session \in {"live", "expired", "gone"}
  /\ apiUp \in BOOLEAN /\ lost \in BOOLEAN
  /\ secret \in Tokens
  /\ req \in [Windows -> [Requests -> Request]]
  /\ refreshPromise \in [Windows -> Requests \cup {None}]
  /\ circuit \in [Windows -> {"closed", "open", "half-open"}]
  /\ failures \in [Windows -> 0..Threshold]
  /\ cooled \in [Windows -> BOOLEAN]

(* One refresh per window: whoever refreshes holds the promise, and        *)
(* whoever waits for a promise waits for a refresh (client.ts:459-460,     *)
(* "only one refresh request runs at a time").                             *)
Refreshing(w, r) == req[w][r].pc \in {"refresh", "found", "rotated"}
OneRefreshAtATime ==
  \A w \in Windows :
    /\ \A r \in Requests : Refreshing(w, r) <=> refreshPromise[w] = r
    /\ \A r \in Requests : At(w, r, "waiting") => refreshPromise[w] # None

(* Rotation never strands a lone window: as long as the session exists and *)
(* no answer was lost, the stored token, or the one a refresh is about to  *)
(* store, is the row's.                                                    *)
LoneWindowKeepsItsSession ==
  (\A v, w \in Windows : v = w) =>
    \/ secret # "stale" \/ session = "gone" \/ lost
    \/ \E w \in Windows, r \in Requests :
         At(w, r, "rotated") /\ req[w][r].token = "current"

(* Time passes, a request under way is answered or times out (10 seconds), *)
(* its handlers run, and the poll keeps calling.                           *)
Fairness ==
  \A w \in Windows :
    /\ WF_vars(CooldownPasses(w))
    /\ WF_vars(\E r \in Requests : Call(w, r))
    /\ \A r \in Requests : WF_vars(Progress(w, r))

FairSpec == Spec /\ Fairness

(* Every request comes to an end: retries, refreshes and repeated 401s do  *)
(* not go on forever, even when requests take each other's tokens away.    *)
RequestsSettle ==
  \A w \in Windows, r \in Requests : ~At(w, r, "idle") ~> At(w, r, "idle")

(* An open circuit is probed again, whatever is still under way.           *)
OpenCircuitIsProbed ==
  \A w \in Windows : circuit[w] = "open" ~> circuit[w] # "open"

-----------------------------------------------------------------------------
(* Signing out is the fallback for a session that is "revoked/expired      *)
(* beyond recovery" (client.ts:405): with no fault and no answer lost to a *)
(* reload, a request gives up only when the session is gone or has been    *)
(* signed out.                                                             *)
SignsOutOnlyIfRevoked ==
  \A w \in Windows, r \in Requests :
    At(w, r, "leaving") =>
      session = "gone" \/ secret = "none" \/ lost
=============================================================================
