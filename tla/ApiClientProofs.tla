-------------------------- MODULE ApiClientProofs ---------------------------
(***************************************************************************)
(* Theorems about ApiClient, for every number of windows, requests and     *)
(* retries, every threshold, with and without faults.                      *)
(***************************************************************************)
EXTENDS ApiClient, TLAPS

(* In a lone window, the token that a refresh is about to store is the     *)
(* row's: no other refresh can have rotated it since.                      *)
RotatedTokenIsCurrent ==
  (\A v, w \in Windows : v = w) =>
    \A w \in Windows, r \in Requests :
      At(w, r, "rotated") => req[w][r].token = "current" \/ session = "gone"

IInv ==
  /\ TypeOK
  /\ OneRefreshAtATime
  /\ RotatedTokenIsCurrent
  /\ LoneWindowKeepsItsSession

-----------------------------------------------------------------------------
(* What the three ways to change requests do, request by request.          *)
Moved(w, r, q) ==
  /\ req' \in [Windows -> [Requests -> Request]]
  /\ \A v \in Windows, s \in Requests :
       req'[v][s] = IF v = w /\ s = r THEN q ELSE req[v][s]

LEMMA BecomeMoves ==
  ASSUME TypeOK, NEW w \in Windows, NEW r \in Requests, NEW q \in Request,
         Become(w, r, q)
  PROVE  Moved(w, r, q)
  BY DEF TypeOK, Become, Moved

LEMMA GotoMoves ==
  ASSUME TypeOK, NEW w \in Windows, NEW r \in Requests, NEW p \in PCs,
         Goto(w, r, p)
  PROVE  Moved(w, r, [req[w][r] EXCEPT !.pc = p])
<1>1. req[w][r] \in Request
  BY DEF TypeOK
<1>2. [req[w][r] EXCEPT !.pc = p] \in Request
  BY <1>1 DEF Request
<1>3. Become(w, r, [req[w][r] EXCEPT !.pc = p])
  BY DEF Goto, Become, TypeOK
<1> QED
  BY <1>2, <1>3, BecomeMoves

LEMMA AgedType ==
  ASSUME NEW t \in Tokens
  PROVE  Aged(t) \in Tokens
  BY DEF Aged, Tokens

LEMMA AllAgedType ==
  ASSUME TypeOK
  PROVE  /\ AllAged(req) \in [Windows -> [Requests -> Request]]
         /\ \A v \in Windows, s \in Requests :
              /\ AllAged(req)[v][s].pc = req[v][s].pc
              /\ AllAged(req)[v][s].token = Aged(req[v][s].token)
<1>1. ASSUME NEW v \in Windows, NEW s \in Requests
      PROVE  [req[v][s] EXCEPT !.token = Aged(@)] \in Request
  <2>1. req[v][s] \in Request
    BY DEF TypeOK
  <2>2. Aged(req[v][s].token) \in Tokens
    BY <2>1, AgedType DEF Request
  <2> QED
    BY <2>1, <2>2 DEF Request
<1>2. ASSUME NEW v \in Windows, NEW s \in Requests
      PROVE  /\ [req[v][s] EXCEPT !.token = Aged(@)].pc = req[v][s].pc
             /\ [req[v][s] EXCEPT !.token = Aged(@)].token
                  = Aged(req[v][s].token)
  BY DEF TypeOK, Request
<1> QED
  BY <1>1, <1>2 DEF AllAged

(* A refresh that ends moves its own request and those that wait for it.   *)
Settled(w, r, p) ==
  /\ req' \in [Windows -> [Requests -> Request]]
  /\ refreshPromise' = [refreshPromise EXCEPT ![w] = None]
  /\ \A v \in Windows, s \in Requests :
       IF v = w /\ (s = r \/ At(w, s, "waiting"))
       THEN req'[v][s].pc = p
       ELSE req'[v][s] = req[v][s]

LEMMA StoreTokenSettles ==
  ASSUME TypeOK, NEW w \in Windows, NEW r \in Requests, StoreToken(w, r)
  PROVE  Settled(w, r, "sent")
<1> DEFINE Next1(s) == [req[w][s] EXCEPT !.pc = "sent", !.token = req[w][r].token,
                                         !.authRetry = TRUE]
<1>1. ASSUME NEW s \in Requests
      PROVE  Next1(s) \in Request /\ Next1(s).pc = "sent"
  <2>1. req[w][s] \in Request /\ req[w][r] \in Request
    BY DEF TypeOK
  <2> QED
    BY <2>1 DEF Request, PCs
<1>2. req' = [req EXCEPT ![w] = [s \in Requests |->
                IF s = r \/ At(w, s, "waiting") THEN Next1(s) ELSE req[w][s]]]
  BY DEF StoreToken, Settle, At, TypeOK
<1>3. refreshPromise' = [refreshPromise EXCEPT ![w] = None]
  BY DEF StoreToken, Settle
<1> HIDE DEF Next1
<1> QED
  BY <1>1, <1>2, <1>3 DEF TypeOK, Settled

LEMMA RefreshFailsSettles ==
  ASSUME TypeOK, NEW w \in Windows, NEW r \in Requests, RefreshFails(w, r)
  PROVE  Settled(w, r, "leaving")
<1> DEFINE Next1(s) == [req[w][s] EXCEPT !.pc = "leaving"]
<1>1. ASSUME NEW s \in Requests
      PROVE  Next1(s) \in Request /\ Next1(s).pc = "leaving"
  <2>1. req[w][s] \in Request
    BY DEF TypeOK
  <2> QED
    BY <2>1 DEF Request, PCs
<1>2. req' = [req EXCEPT ![w] = [s \in Requests |->
                IF s = r \/ At(w, s, "waiting") THEN Next1(s) ELSE req[w][s]]]
  BY DEF RefreshFails, Settle, At, TypeOK
<1>3. refreshPromise' = [refreshPromise EXCEPT ![w] = None]
  BY DEF RefreshFails, Settle
<1> HIDE DEF Next1
<1> QED
  BY <1>1, <1>2, <1>3 DEF TypeOK, Settled

-----------------------------------------------------------------------------
LEMMA IdleType == Idle \in Request
  BY LimitsAreNumbers DEF Idle, Request, PCs, Tokens

(* The breaker's counters stay within their bounds.                        *)
BreakerType ==
  /\ circuit \in [Windows -> {"closed", "open", "half-open"}]
  /\ failures \in [Windows -> 0..Threshold]
  /\ cooled \in [Windows -> BOOLEAN]

LEMMA RecordFailureType ==
  ASSUME TypeOK, NEW w \in Windows, RecordFailure(w)
  PROVE  BreakerType'
<1> DEFINE n == IF failures[w] < Threshold THEN failures[w] + 1 ELSE Threshold
           opens == n = Threshold /\ circuit[w] = "closed"
<1>1. n \in 0..Threshold
  BY LimitsAreNumbers DEF TypeOK
<1>2. opens \in BOOLEAN
  OBVIOUS
<1>3. /\ failures' = [failures EXCEPT ![w] = n]
      /\ circuit' = [circuit EXCEPT ![w] = IF opens THEN "open" ELSE @]
      /\ cooled' = [cooled EXCEPT ![w] = ~opens /\ @]
  BY DEF RecordFailure
<1> HIDE DEF n, opens
<1>4. (~opens /\ cooled[w]) \in BOOLEAN
  OBVIOUS
<1>5. failures' \in [Windows -> 0..Threshold]
  BY <1>1, <1>3 DEF TypeOK
<1>6. circuit' \in [Windows -> {"closed", "open", "half-open"}]
  BY <1>3 DEF TypeOK
<1>7. cooled' \in [Windows -> BOOLEAN]
  BY <1>3, <1>4 DEF TypeOK
<1> QED
  BY <1>5, <1>6, <1>7 DEF BreakerType

LEMMA Initially == Init => IInv
<1> SUFFICES ASSUME Init PROVE IInv
  OBVIOUS
<1>1. TypeOK
  <2>1. req \in [Windows -> [Requests -> Request]]
    BY IdleType DEF Init
  <2>2. failures \in [Windows -> 0..Threshold]
    BY LimitsAreNumbers DEF Init
  <2>3. cooled \in [Windows -> BOOLEAN]
    BY DEF Init
  <2> QED
    BY <2>1, <2>2, <2>3 DEF Init, TypeOK, Tokens
<1>2. OneRefreshAtATime
  BY NoneIsNoRequest DEF Init, OneRefreshAtATime, Refreshing, At, Idle
<1>3. RotatedTokenIsCurrent /\ LoneWindowKeepsItsSession
  BY DEF Init, RotatedTokenIsCurrent, LoneWindowKeepsItsSession, At, Idle
<1> QED
  BY <1>1, <1>2, <1>3 DEF IInv

-----------------------------------------------------------------------------
(* A request that moves without beginning or ending a refresh, and without *)
(* touching the session or the stored token, keeps the invariant.          *)
RefreshPCs == {"refresh", "found", "rotated"}
Calm(w, r, q) ==
  /\ q \in Request /\ Moved(w, r, q)
  /\ UNCHANGED <<sessionVars, secret, refreshPromise>>
  /\ BreakerType'
  /\ Refreshing(w, r) <=> q.pc \in RefreshPCs
  /\ ~At(w, r, "rotated") /\ q.pc # "rotated"
  /\ q.pc = "waiting" => refreshPromise[w] # None

LEMMA CalmKeeps ==
  ASSUME IInv, NEW w \in Windows, NEW r \in Requests, NEW q, Calm(w, r, q)
  PROVE  IInv'
<1> USE DEF IInv
<1>1. TypeOK'
  BY DEF Calm, Moved, TypeOK, BreakerType, sessionVars
<1>2. OneRefreshAtATime'
  BY DEF Calm, Moved, OneRefreshAtATime, Refreshing, RefreshPCs, At
<1>3. /\ \A v \in Windows, s \in Requests :
           /\ At(v, s, "rotated")' <=> At(v, s, "rotated")
           /\ At(v, s, "rotated") => req'[v][s] = req[v][s]
      /\ UNCHANGED <<session, lost, secret>>
  BY DEF Calm, Moved, At, sessionVars
<1>4. RotatedTokenIsCurrent'
  BY <1>3 DEF RotatedTokenIsCurrent
<1>5. LoneWindowKeepsItsSession'
  BY <1>3 DEF LoneWindowKeepsItsSession
<1> QED
  BY <1>1, <1>2, <1>4, <1>5

(* The actions of that kind, each with the request it leaves behind.       *)
LEMMA CallKeeps ==
  ASSUME IInv, NEW w \in Windows, NEW r \in Requests, Call(w, r)
  PROVE  IInv'
<1> DEFINE q == [Idle EXCEPT !.pc = "sent", !.token = secret]
<1>1. q \in Request /\ q.pc = "sent"
  BY IdleType DEF IInv, TypeOK, Request, PCs
<1>2. Become(w, r, q) /\ UNCHANGED <<sessionVars, secret, refreshPromise>>
  BY DEF Call
<1>3. BreakerType'
  BY DEF Call, IInv, TypeOK, BreakerType
<1>4. At(w, r, "idle")
  BY DEF Call
<1> HIDE DEF q
<1>5. Moved(w, r, q)
  BY <1>1, <1>2, BecomeMoves DEF IInv
<1>6. Calm(w, r, q)
  BY <1>1, <1>2, <1>3, <1>4, <1>5 DEF Calm, At, Refreshing, RefreshPCs
<1> QED
  BY <1>6, CalmKeeps

LEMMA ResendKeeps ==
  ASSUME IInv, NEW w \in Windows, NEW r \in Requests, Resend(w, r)
  PROVE  IInv'
<1> DEFINE q == [req[w][r] EXCEPT !.pc = "sent",
                   !.token = IF secret = "none" THEN @ ELSE secret]
<1>1. q \in Request /\ q.pc = "sent"
  <2>1. req[w][r] \in Request /\ secret \in Tokens
    BY DEF IInv, TypeOK
  <2> QED
    BY <2>1 DEF Request, PCs
<1>2. Become(w, r, q) /\ UNCHANGED <<sessionVars, secret, refreshPromise>>
  BY DEF Resend
<1>3. BreakerType'
  BY DEF Resend, breakerVars, IInv, TypeOK, BreakerType
<1>4. At(w, r, "backoff")
  BY DEF Resend
<1> HIDE DEF q
<1>5. Moved(w, r, q)
  BY <1>1, <1>2, BecomeMoves DEF IInv
<1>6. Calm(w, r, q)
  BY <1>1, <1>2, <1>3, <1>4, <1>5 DEF Calm, At, Refreshing, RefreshPCs
<1> QED
  BY <1>6, CalmKeeps

LEMMA AnswersKeep ==
  ASSUME IInv, NEW w \in Windows, NEW r \in Requests, Answers(w, r)
  PROVE  IInv'
<1>1. At(w, r, "sent")
  BY DEF Answers, Succeed, Reject, Fail, Refuse
<1>2. UNCHANGED <<sessionVars, secret, refreshPromise>>
  BY DEF Answers, Succeed, Reject, Fail, Refuse
<1>3. BreakerType'
  <2>1. RecordSuccess(w) => BreakerType'
    BY LimitsAreNumbers DEF RecordSuccess, IInv, TypeOK, BreakerType
  <2>2. UNCHANGED breakerVars => BreakerType'
    BY DEF breakerVars, IInv, TypeOK, BreakerType
  <2> QED
    BY <2>1, <2>2, RecordFailureType
    DEF Answers, Succeed, Reject, Fail, Refuse, IInv
<1>4. ASSUME NEW q \in Request, Moved(w, r, q),
             q.pc \in {"idle", "backoff", "refused"}
      PROVE  IInv'
  <2>1. Calm(w, r, q)
    BY <1>1, <1>2, <1>3, <1>4 DEF Calm, At, Refreshing, RefreshPCs
  <2> QED
    BY <2>1, CalmKeeps
<1>5. CASE Succeed(w, r) \/ Reject(w, r)
  <2>1. Become(w, r, Idle)
    BY <1>5 DEF Succeed, Reject
  <2> QED
    BY <2>1, <1>4, IdleType, BecomeMoves DEF IInv, Idle
<1>6. CASE Fail(w, r)
  <2>1. CASE req[w][r].retries < MaxRetries
    <3> DEFINE q == [req[w][r] EXCEPT !.pc = "backoff", !.retries = @ + 1]
    <3>1. q \in Request /\ q.pc = "backoff"
      <4>1. req[w][r] \in Request
        BY DEF IInv, TypeOK
      <4>2. req[w][r].retries + 1 \in 0..MaxRetries
        BY <2>1, <4>1, LimitsAreNumbers DEF Request
      <4> QED
        BY <4>1, <4>2 DEF Request, PCs
    <3>2. Become(w, r, q)
      BY <1>6, <2>1 DEF Fail
    <3> HIDE DEF q
    <3> QED
      BY <3>1, <3>2, <1>4, BecomeMoves DEF IInv
  <2>2. CASE ~(req[w][r].retries < MaxRetries)
    <3>1. Become(w, r, Idle)
      BY <1>6, <2>2 DEF Fail
    <3> QED
      BY <3>1, <1>4, IdleType, BecomeMoves DEF IInv, Idle
  <2> QED
    BY <2>1, <2>2
<1>7. CASE Refuse(w, r)
  <2> DEFINE q == [req[w][r] EXCEPT !.pc = "refused"]
  <2>1. q \in Request /\ q.pc = "refused" /\ "refused" \in PCs
    <3>1. req[w][r] \in Request
      BY DEF IInv, TypeOK
    <3> QED
      BY <3>1 DEF Request, PCs
  <2>2. Moved(w, r, q)
    BY <1>7, <2>1, GotoMoves DEF Refuse, IInv
  <2> HIDE DEF q
  <2> QED
    BY <2>1, <2>2, <1>4
<1> QED
  BY <1>5, <1>6, <1>7 DEF Answers

-----------------------------------------------------------------------------
(* The 401 handlers.                                                       *)
LEMMA GotoKeeps ==
  ASSUME IInv, NEW w \in Windows, NEW r \in Requests, NEW p \in PCs,
         Goto(w, r, p), BreakerType',
         UNCHANGED <<sessionVars, secret, refreshPromise>>,
         Refreshing(w, r) <=> p \in RefreshPCs,
         ~At(w, r, "rotated"), p # "rotated",
         p = "waiting" => refreshPromise[w] # None
  PROVE  IInv'
<1> DEFINE q == [req[w][r] EXCEPT !.pc = p]
<1>1. q \in Request /\ q.pc = p
  <2>1. req[w][r] \in Request
    BY DEF IInv, TypeOK
  <2> QED
    BY <2>1 DEF Request
<1>2. Moved(w, r, q)
  BY GotoMoves DEF IInv
<1> HIDE DEF q
<1>3. Calm(w, r, q)
  BY <1>1, <1>2 DEF Calm
<1> QED
  BY <1>3, CalmKeeps

LEMMA GiveUpOrAwaitKeeps ==
  ASSUME IInv, NEW w \in Windows, NEW r \in Requests,
         GiveUp(w, r) \/ AwaitRefresh(w, r)
  PROVE  IInv'
<1>1. At(w, r, "refused") /\ RecordFailure(w)
      /\ UNCHANGED <<sessionVars, secret, refreshPromise>>
  BY DEF GiveUp, AwaitRefresh
<1>2. BreakerType'
  BY <1>1, RecordFailureType DEF IInv
<1>3. ~Refreshing(w, r) /\ ~At(w, r, "rotated")
  BY <1>1 DEF At, Refreshing
<1>4. PICK p \in {"leaving", "waiting"} :
        Goto(w, r, p) /\ (p = "waiting" => refreshPromise[w] # None)
  BY DEF GiveUp, AwaitRefresh
<1> QED
  BY <1>1, <1>2, <1>3, <1>4, GotoKeeps DEF PCs, RefreshPCs

LEMMA StartRefreshKeeps ==
  ASSUME IInv, NEW w \in Windows, NEW r \in Requests, StartRefresh(w, r)
  PROVE  IInv'
<1>1. /\ At(w, r, "refused") /\ refreshPromise[w] = None
      /\ UNCHANGED <<sessionVars, secret>>
  BY DEF StartRefresh, RefreshSession
<1>2. BreakerType'
  BY RecordFailureType DEF StartRefresh, RefreshSession, IInv
<1>3. ~Refreshing(w, r) /\ ~At(w, r, "rotated")
  BY <1>1 DEF At, Refreshing
<1>4. CASE secret = "none"
  <2>1. Goto(w, r, "leaving") /\ UNCHANGED refreshPromise
    BY <1>4 DEF StartRefresh, RefreshSession
  <2> QED
    BY <1>1, <1>2, <1>3, <2>1, GotoKeeps DEF PCs, RefreshPCs
<1>5. CASE secret # "none"
  <2> DEFINE q == [req[w][r] EXCEPT !.pc = "refresh", !.token = secret]
  <2>1. q \in Request /\ q.pc = "refresh"
    <3>1. req[w][r] \in Request /\ secret \in Tokens
      BY DEF IInv, TypeOK
    <3> QED
      BY <3>1 DEF Request, PCs
  <2>2. /\ Become(w, r, q)
        /\ refreshPromise' = [refreshPromise EXCEPT ![w] = r]
    BY <1>5 DEF StartRefresh, RefreshSession
  <2> HIDE DEF q
  <2>3. Moved(w, r, q)
    BY <2>1, <2>2, BecomeMoves DEF IInv
  <2>4. TypeOK'
    BY <1>1, <1>2, <2>2, <2>3
    DEF IInv, TypeOK, Moved, BreakerType, sessionVars
  <2>5. OneRefreshAtATime'
    <3>1. refreshPromise \in [Windows -> Requests \cup {None}]
          /\ OneRefreshAtATime
      BY DEF IInv, TypeOK
    <3> QED
      BY <1>1, <2>1, <2>2, <2>3, <3>1, NoneIsNoRequest
      DEF Moved, OneRefreshAtATime, Refreshing, At
  <2>6. /\ \A v \in Windows, s \in Requests :
             /\ At(v, s, "rotated")' <=> At(v, s, "rotated")
             /\ At(v, s, "rotated") => req'[v][s] = req[v][s]
        /\ UNCHANGED <<session, lost, secret>>
    BY <1>1, <1>3, <2>1, <2>3 DEF Moved, At, sessionVars
  <2>7. RotatedTokenIsCurrent' /\ LoneWindowKeepsItsSession'
    BY <2>6 DEF IInv, RotatedTokenIsCurrent, LoneWindowKeepsItsSession
  <2> QED
    BY <2>4, <2>5, <2>7 DEF IInv
<1> QED
  BY <1>4, <1>5

(* A refresh that ends frees the promise, and nobody waits any longer.     *)
LEMMA SettledKeepsOneRefresh ==
  ASSUME TypeOK, OneRefreshAtATime, NEW w \in Windows, NEW r \in Requests,
         NEW p, p \notin RefreshPCs \cup {"waiting"}, Refreshing(w, r),
         Settled(w, r, p)
  PROVE  /\ OneRefreshAtATime'
         /\ \A s \in Requests : ~At(w, s, "rotated")'
<1>1. \A s \in Requests : Refreshing(w, s) => s = r
  BY DEF OneRefreshAtATime
<1>2. \A s \in Requests : ~Refreshing(w, s)' /\ ~At(w, s, "waiting")'
  BY <1>1 DEF Refreshing, RefreshPCs, At, Settled
<1>3. refreshPromise'[w] = None
  BY DEF TypeOK, Settled
<1>4. \A v \in Windows \ {w} :
        /\ refreshPromise'[v] = refreshPromise[v]
        /\ \A s \in Requests : req'[v][s] = req[v][s]
  BY DEF TypeOK, Settled
<1>5. OneRefreshAtATime'
  BY <1>2, <1>3, <1>4, NoneIsNoRequest
  DEF OneRefreshAtATime, Refreshing, At
<1> QED
  BY <1>2, <1>5 DEF At, Refreshing

LEMMA StoreTokenKeeps ==
  ASSUME IInv, NEW w \in Windows, NEW r \in Requests, StoreToken(w, r)
  PROVE  IInv'
<1>1. /\ At(w, r, "rotated") /\ secret' = req[w][r].token
      /\ UNCHANGED <<sessionVars, breakerVars>>
  BY DEF StoreToken
<1>2. secret' \in Tokens
  <2>1. req[w][r] \in Request
    BY DEF IInv, TypeOK
  <2> QED
    BY <1>1, <2>1 DEF Request
<1>3. TypeOK'
  BY <1>1, <1>2, StoreTokenSettles
  DEF IInv, TypeOK, sessionVars, breakerVars, Settled
<1>4. /\ OneRefreshAtATime'
      /\ \A s \in Requests : ~At(w, s, "rotated")'
  <2>1. Refreshing(w, r)
    BY <1>1 DEF At, Refreshing
  <2> QED
    BY <2>1, StoreTokenSettles, SettledKeepsOneRefresh DEF IInv, RefreshPCs
<1>5. RotatedTokenIsCurrent'
  BY <1>4 DEF RotatedTokenIsCurrent
<1>6. LoneWindowKeepsItsSession'
  BY <1>1
  DEF IInv, RotatedTokenIsCurrent, LoneWindowKeepsItsSession, sessionVars
<1> QED
  BY <1>3, <1>4, <1>5, <1>6 DEF IInv

LEMMA RefreshFailsKeeps ==
  ASSUME IInv, NEW w \in Windows, NEW r \in Requests, RefreshFails(w, r)
  PROVE  IInv'
<1>1. /\ Refreshing(w, r) /\ lost' \in BOOLEAN /\ (lost => lost')
      /\ At(w, r, "rotated") => lost'
      /\ UNCHANGED <<session, apiUp, secret, breakerVars>>
  <2>1. lost \in BOOLEAN
    BY DEF IInv, TypeOK
  <2>2. UNCHANGED <<session, apiUp, secret, breakerVars>>
    BY DEF RefreshFails
  <2>3. CASE At(w, r, "refresh") /\ UNCHANGED lost
    BY <2>1, <2>2, <2>3 DEF At, Refreshing
  <2>4. CASE At(w, r, "rotated") /\ lost' = TRUE
    BY <2>1, <2>2, <2>4 DEF At, Refreshing
  <2> QED
    BY <2>3, <2>4 DEF RefreshFails
<1>2. TypeOK'
  BY <1>1, RefreshFailsSettles DEF IInv, TypeOK, breakerVars, Settled
<1>3. /\ OneRefreshAtATime'
      /\ \A s \in Requests : ~At(w, s, "rotated")'
  BY <1>1, RefreshFailsSettles, SettledKeepsOneRefresh DEF IInv, RefreshPCs
<1>4. RotatedTokenIsCurrent'
  BY <1>3 DEF RotatedTokenIsCurrent
<1>5. LoneWindowKeepsItsSession'
  <2>1. SUFFICES ASSUME \A v, u \in Windows : v = u,
                        secret = "stale", session # "gone", ~lost'
                 PROVE  FALSE
    BY <1>1 DEF LoneWindowKeepsItsSession
  <2>2. PICK s \in Requests : At(w, s, "rotated")
    BY <1>1, <2>1 DEF IInv, LoneWindowKeepsItsSession
  <2>3. s = r
    BY <1>1, <2>2 DEF IInv, OneRefreshAtATime, Refreshing, At
  <2> QED
    BY <1>1, <2>1, <2>2, <2>3
<1> QED
  BY <1>2, <1>3, <1>4, <1>5 DEF IInv

LEMMA LogoutKeeps ==
  ASSUME IInv, NEW w \in Windows, NEW r \in Requests, Logout(w, r)
  PROVE  IInv'
<1>1. /\ At(w, r, "leaving") /\ Become(w, r, Idle) /\ secret' = "none"
      /\ UNCHANGED <<sessionVars, refreshPromise, breakerVars>>
  BY DEF Logout
<1>2. Moved(w, r, Idle)
  BY <1>1, IdleType, BecomeMoves DEF IInv
<1>3. TypeOK'
  BY <1>1, <1>2 DEF IInv, TypeOK, Moved, Tokens, sessionVars, breakerVars
<1>4. OneRefreshAtATime'
  BY <1>1, <1>2 DEF IInv, OneRefreshAtATime, Refreshing, At, Moved, Idle
<1>5. RotatedTokenIsCurrent' /\ LoneWindowKeepsItsSession'
  BY <1>1, <1>2
  DEF IInv, RotatedTokenIsCurrent, LoneWindowKeepsItsSession, At, Moved, Idle,
      sessionVars
<1> QED
  BY <1>3, <1>4, <1>5 DEF IInv

-----------------------------------------------------------------------------
(* The API's part of a refresh.                                            *)
LEMMA FindSessionKeeps ==
  ASSUME IInv, NEW w \in Windows, NEW r \in Requests, FindSession(w, r),
         UNCHANGED <<refreshPromise, breakerVars>>
  PROVE  IInv'
<1>1. /\ At(w, r, "refresh") /\ Goto(w, r, "found")
      /\ UNCHANGED <<sessionVars, secret, refreshPromise>>
  BY DEF FindSession, At
<1>2. BreakerType'
  BY DEF IInv, TypeOK, BreakerType, breakerVars
<1>3. Refreshing(w, r) /\ ~At(w, r, "rotated")
  BY <1>1 DEF At, Refreshing
<1> QED
  BY <1>1, <1>2, <1>3, GotoKeeps DEF PCs, RefreshPCs

(* A rotation takes every other token away, and leaves its own refresh     *)
(* with the row's.                                                         *)
LEMMA RotateTokenKeeps ==
  ASSUME IInv, NEW w \in Windows, NEW r \in Requests, RotateToken(w, r),
         UNCHANGED <<refreshPromise, breakerVars>>
  PROVE  IInv'
<1> DEFINE t == IF session = "gone" THEN "stale" ELSE "current"
           q == [AllAged(req)[w][r] EXCEPT !.pc = "rotated", !.token = t]
<1>1. /\ req' = [AllAged(req) EXCEPT ![w][r] = q]
      /\ At(w, r, "found") /\ secret' = Aged(secret)
      /\ session' = IF session = "gone" THEN "gone" ELSE "live"
      /\ UNCHANGED <<apiUp, lost>>
  BY DEF RotateToken, At
<1>2. q \in Request /\ q.pc = "rotated" /\ q.token = t
  <2>1. AllAged(req)[w][r] \in Request
    BY AllAgedType DEF IInv
  <2> QED
    BY <2>1 DEF Request, PCs, Tokens
<1> HIDE DEF q
<1>3. /\ req' \in [Windows -> [Requests -> Request]]
      /\ req'[w][r] = q
      /\ \A v \in Windows, s \in Requests :
           v # w \/ s # r => req'[v][s].pc = req[v][s].pc
  BY <1>1, <1>2, AllAgedType DEF IInv
<1>4. TypeOK'
  <2>1. secret' \in Tokens /\ session' \in {"live", "expired", "gone"}
    BY <1>1, AgedType DEF IInv, TypeOK
  <2> QED
    BY <1>1, <1>3, <2>1 DEF IInv, TypeOK, breakerVars
<1>5. OneRefreshAtATime'
  BY <1>1, <1>2, <1>3 DEF IInv, OneRefreshAtATime, Refreshing, At
<1>6. t = "current" \/ session' = "gone"
  BY <1>1
<1>7. RotatedTokenIsCurrent'
  <2>1. SUFFICES ASSUME \A v, u \in Windows : v = u, NEW v \in Windows,
                        NEW s \in Requests, At(v, s, "rotated")'
                 PROVE  req'[v][s].token = "current" \/ session' = "gone"
    BY DEF RotatedTokenIsCurrent
  <2>2. refreshPromise'[w] = s /\ refreshPromise'[w] = r
    BY <1>2, <1>3, <1>5, <2>1 DEF OneRefreshAtATime, Refreshing, At
  <2> QED
    BY <1>2, <1>3, <1>6, <2>1, <2>2
<1>8. LoneWindowKeepsItsSession'
  BY <1>2, <1>3, <1>6 DEF LoneWindowKeepsItsSession, At
<1> QED
  BY <1>4, <1>5, <1>7, <1>8 DEF IInv

-----------------------------------------------------------------------------
(* The steps of a whole window, and the environment's.                     *)
LEMMA BreakerStepKeeps ==
  ASSUME IInv, NEW w \in Windows, CooldownPasses(w) \/ ResetCircuitBreaker(w)
  PROVE  IInv'
<1>1. UNCHANGED <<sessionVars, secret, req, refreshPromise>>
  BY DEF CooldownPasses, ResetCircuitBreaker
<1>2. BreakerType'
  <2>1. CASE CooldownPasses(w)
    BY <2>1 DEF CooldownPasses, BreakerType, IInv, TypeOK
  <2>2. CASE ResetCircuitBreaker(w)
    BY <2>2, LimitsAreNumbers
    DEF ResetCircuitBreaker, BreakerType, IInv, TypeOK
  <2> QED
    BY <2>1, <2>2
<1>3. TypeOK'
  BY <1>1, <1>2 DEF IInv, TypeOK, BreakerType, sessionVars
<1> QED
  BY <1>1, <1>3
  DEF IInv, OneRefreshAtATime, RotatedTokenIsCurrent, Refreshing, At,
      LoneWindowKeepsItsSession, sessionVars

LEMMA ReloadKeeps ==
  ASSUME IInv, NEW w \in Windows, NEW logout \in BOOLEAN, Reload(w, logout)
  PROVE  IInv'
<1>1. /\ req' = [req EXCEPT ![w] = [r \in Requests |-> Idle]]
      /\ refreshPromise' = [refreshPromise EXCEPT ![w] = None]
      /\ UNCHANGED <<session, apiUp>>
  BY DEF Reload
<1>2. /\ req' \in [Windows -> [Requests -> Request]]
      /\ refreshPromise'[w] = None
      /\ \A s \in Requests : req'[w][s] = Idle
      /\ \A v \in Windows \ {w} :
           req'[v] = req[v] /\ refreshPromise'[v] = refreshPromise[v]
  BY <1>1, IdleType DEF IInv, TypeOK
<1>3. secret' \in {"none", secret} /\ lost' \in BOOLEAN
      /\ (lost => lost')
      /\ \A r \in Requests : At(w, r, "rotated") => lost'
  <2>1. secret' = (IF logout THEN "none" ELSE secret)
        /\ lost' = (lost \/ \E r \in Requests : At(w, r, "rotated"))
    BY DEF Reload
  <2> QED
    BY <2>1 DEF IInv, TypeOK
<1>4. BreakerType'
  BY LimitsAreNumbers DEF Reload, BreakerType, IInv, TypeOK
<1>5. TypeOK'
  <2>1. refreshPromise' \in [Windows -> Requests \cup {None}]
    BY <1>1 DEF IInv, TypeOK
  <2> QED
    BY <1>1, <1>2, <1>3, <1>4, <2>1
    DEF IInv, TypeOK, BreakerType, Tokens
<1>6. OneRefreshAtATime'
  BY <1>2, NoneIsNoRequest
  DEF IInv, OneRefreshAtATime, Refreshing, At, Idle
<1>7. RotatedTokenIsCurrent'
  BY <1>1, <1>2 DEF IInv, RotatedTokenIsCurrent, At, Idle
<1>8. LoneWindowKeepsItsSession'
  BY <1>1, <1>3 DEF IInv, LoneWindowKeepsItsSession
<1> QED
  BY <1>5, <1>6, <1>7, <1>8 DEF IInv

LEMMA SignInKeeps ==
  ASSUME IInv, SignIn
  PROVE  IInv'
<1>1. /\ \A w \in Windows, r \in Requests : At(w, r, "idle")
      /\ session' = "live" /\ lost' = FALSE /\ secret' = "current"
      /\ UNCHANGED <<apiUp, req, refreshPromise, breakerVars>>
  BY DEF SignIn
<1>2. TypeOK'
  BY <1>1 DEF IInv, TypeOK, Tokens, breakerVars
<1> QED
  BY <1>1, <1>2
  DEF IInv, OneRefreshAtATime, RotatedTokenIsCurrent, Refreshing, At,
      LoneWindowKeepsItsSession

LEMMA EnvironmentKeeps ==
  ASSUME IInv, Environment
  PROVE  IInv'
<1>1. UNCHANGED <<refreshPromise, breakerVars>>
  BY DEF Environment
<1>2. CASE Expire \/ Outage
  <2>1. /\ UNCHANGED <<lost, secret, req>>
        /\ session' \in {"live", "expired", "gone"} /\ apiUp' \in BOOLEAN
        /\ session' = "gone" <=> session = "gone"
    BY <1>2 DEF Expire, Outage, IInv, TypeOK
  <2>2. TypeOK'
    BY <1>1, <2>1 DEF IInv, TypeOK, breakerVars
  <2> QED
    BY <1>1, <2>1, <2>2
    DEF IInv, OneRefreshAtATime, RotatedTokenIsCurrent, Refreshing, At,
        LoneWindowKeepsItsSession
<1>3. CASE Revoke
  <2>1. /\ req' = AllAged(req) /\ session' = "gone" /\ secret' = Aged(secret)
        /\ UNCHANGED <<apiUp, lost>>
    BY <1>3 DEF Revoke
  <2>2. TypeOK'
    BY <1>1, <2>1, AllAgedType, AgedType DEF IInv, TypeOK, breakerVars
  <2>3. OneRefreshAtATime'
    BY <1>1, <2>1, AllAgedType
    DEF IInv, OneRefreshAtATime, Refreshing, At
  <2>4. RotatedTokenIsCurrent' /\ LoneWindowKeepsItsSession'
    BY <2>1 DEF RotatedTokenIsCurrent, LoneWindowKeepsItsSession
  <2> QED
    BY <2>2, <2>3, <2>4 DEF IInv
<1> QED
  BY <1>2, <1>3 DEF Environment

LEMMA Stepping ==
  ASSUME IInv, [Next]_vars
  PROVE  IInv'
<1>1. ASSUME NEW w \in Windows, NEW r \in Requests,
             Call(w, r) \/ Progress(w, r)
      PROVE  IInv'
  <2>1. CASE Interceptors(w, r)
    BY <2>1, GiveUpOrAwaitKeeps, StartRefreshKeeps, StoreTokenKeeps,
       RefreshFailsKeeps, LogoutKeeps DEF Interceptors
  <2>2. CASE ServeRefresh(w, r)
    BY <2>2, FindSessionKeeps, RotateTokenKeeps DEF ServeRefresh
  <2> QED
    BY <1>1, <2>1, <2>2, CallKeeps, ResendKeeps, AnswersKeep DEF Progress
<1>2. ASSUME NEW w \in Windows,
             \/ CooldownPasses(w) \/ ResetCircuitBreaker(w)
             \/ \E logout \in BOOLEAN : Reload(w, logout)
      PROVE  IInv'
  BY <1>2, BreakerStepKeeps, ReloadKeeps
<1>3. CASE UNCHANGED vars
  <2>1. TypeOK'
    BY <1>3 DEF IInv, TypeOK, vars, sessionVars, breakerVars
  <2> QED
    BY <1>3, <2>1
    DEF IInv, OneRefreshAtATime, RotatedTokenIsCurrent, Refreshing, At,
        LoneWindowKeepsItsSession, vars, sessionVars
<1> QED
  BY <1>1, <1>2, <1>3, SignInKeeps, EnvironmentKeeps DEF Next

(* The inductive invariant holds in every state of every behaviour.        *)
THEOREM SessionInvariance == Spec => []IInv
<1>1. Init => IInv
  BY Initially
<1>2. IInv /\ [Next]_vars => IInv'
  BY Stepping
<1> QED
  BY <1>1, <1>2, PTL DEF Spec

(* The requests, tokens and counters of client.ts keep their types: a      *)
(* request is never retried more than MaxRetries times.                    *)
THEOREM ClientTypeCorrect == Spec => []TypeOK
<1>1. IInv => TypeOK
  BY DEF IInv
<1> QED
  BY <1>1, SessionInvariance, PTL

(* refreshWithMutex: a window runs one refresh at a time, and nobody waits *)
(* for a refresh that has ended.                                           *)
THEOREM RefreshIsExclusive == Spec => []OneRefreshAtATime
<1>1. IInv => OneRefreshAtATime
  BY DEF IInv
<1> QED
  BY <1>1, SessionInvariance, PTL

(* A user with one window does not lose the session to token rotation: for *)
(* that it takes a revocation or a lost answer.                            *)
THEOREM RotationKeepsTheSession == Spec => []LoneWindowKeepsItsSession
<1>1. IInv => LoneWindowKeepsItsSession
  BY DEF IInv
<1> QED
  BY <1>1, SessionInvariance, PTL

-----------------------------------------------------------------------------
(***************************************************************************)
(* One request at a time in one window, and an API that answers: the       *)
(* session outlives every expiry.  Two requests are enough to lose it.     *)
(***************************************************************************)
Serial ==
  /\ ~Faulty
  /\ \A v, w \in Windows : v = w
  /\ \A r, s \in Requests : r = s

(* There is no session to keep, or its token was lost.                     *)
Stranded == session = "gone" \/ secret = "none" \/ lost

(* The request has the row's token, or is about to store it; once it is    *)
(* sent again after a refresh, the session lives.                          *)
InStep(q) ==
  /\ q.pc \in {"idle", "sent", "refused"} \cup RefreshPCs
  /\ IF q.pc = "rotated" THEN q.token = "current" ELSE secret = "current"
  /\ q.pc # "idle" => q.token = "current"
  /\ q.authRetry => q.pc = "sent"
  /\ q.pc = "rotated" \/ q.authRetry => session = "live"

KeepsSession(w, r) ==
  /\ At(w, r, "idle") => req[w][r] = Idle
  /\ Refreshing(w, r) => secret # "none"
  /\ Stranded \/ InStep(req[w][r])

OneByOne ==
  apiUp /\ \A w \in Windows, r \in Requests : KeepsSession(w, r)

(* A request goes on as q; secret and session stay.                        *)
LEMMA RequestGoesOn ==
  ASSUME TypeOK, OneByOne, NEW w \in Windows, NEW r \in Requests, Serial,
         NEW q \in Request, Become(w, r, q), UNCHANGED <<sessionVars, secret>>,
         q.pc = "idle" => q = Idle,
         q.pc \in RefreshPCs => secret # "none",
         ~Stranded => InStep(q)
  PROVE  OneByOne'
<1>1. Moved(w, r, q)
  BY BecomeMoves
<1>2. \A v \in Windows, s \in Requests : v = w /\ s = r
  BY DEF Serial
<1>3. req'[w][r] = q
  BY <1>1 DEF Moved
<1>4. KeepsSession(w, r)'
  BY <1>3
  DEF KeepsSession, At, Refreshing, RefreshPCs, Stranded, InStep, sessionVars
<1> QED
  BY <1>2, <1>4 DEF OneByOne, sessionVars

LEMMA OneByOneStep ==
  ASSUME IInv, OneByOne, Serial, NEW w \in Windows, NEW r \in Requests,
         Call(w, r) \/ Progress(w, r)
  PROVE  OneByOne'
<1> DEFINE q == req[w][r]
<1> USE DEF IInv
<1>0. /\ q \in Request /\ KeepsSession(w, r) /\ apiUp /\ ~Faulty
      /\ secret \in Tokens /\ session \in {"live", "expired", "gone"}
      /\ \A v \in Windows, s \in Requests : v = w /\ s = r
  BY DEF TypeOK, OneByOne, Serial
<1>1. CASE Call(w, r)
  <2> DEFINE g == [Idle EXCEPT !.pc = "sent", !.token = secret]
  <2>1. /\ g \in Request /\ g.pc = "sent" /\ g.token = secret
        /\ g.authRetry = FALSE
    BY <1>0, IdleType DEF Request, PCs, Idle
  <2>2. At(w, r, "idle") /\ Become(w, r, g)
        /\ UNCHANGED <<sessionVars, secret>>
    BY <1>1 DEF Call
  <2> HIDE DEF g
  <2>3. ~Stranded => InStep(g)
    BY <1>0, <2>1, <2>2 DEF KeepsSession, InStep, At
  <2> QED
    BY <1>0, <2>1, <2>2, <2>3, RequestGoesOn DEF RefreshPCs
<1>2. CASE Resend(w, r) \/ Fail(w, r)
  <2>1. Resend(w, r)
    BY <1>0, <1>2 DEF Fail
  <2> DEFINE t == IF secret = "none" THEN q.token ELSE secret
             g == [q EXCEPT !.pc = "sent", !.token = t]
  <2>2. g \in Request /\ g.pc = "sent"
    BY <1>0 DEF Request, PCs
  <2>3. Become(w, r, g)
    BY <2>1 DEF Resend
  <2>4. Stranded /\ UNCHANGED <<sessionVars, secret>>
    BY <1>0, <2>1 DEF Resend, KeepsSession, InStep, RefreshPCs, At
  <2> HIDE DEF g
  <2> QED
    BY <1>0, <2>2, <2>3, <2>4, RequestGoesOn DEF RefreshPCs
<1>3. CASE Succeed(w, r) \/ Reject(w, r)
  <2>1. /\ Become(w, r, Idle) /\ UNCHANGED <<sessionVars, secret>>
        /\ At(w, r, "sent")
    BY <1>3 DEF Succeed, Reject
  <2>2. /\ Idle \in Request /\ Idle.pc = "idle" /\ Idle.authRetry = FALSE
    BY IdleType DEF Idle
  <2>3. ~Stranded => InStep(Idle)
    BY <1>0, <2>1, <2>2 DEF KeepsSession, InStep, At
  <2> QED
    BY <1>0, <2>1, <2>2, <2>3, RequestGoesOn DEF RefreshPCs
<1>4. CASE Refuse(w, r)
  <2> DEFINE g == [q EXCEPT !.pc = "refused"]
  <2>1. /\ g \in Request /\ g.pc = "refused" /\ g.token = q.token
        /\ g.authRetry = q.authRetry
    BY <1>0 DEF Request, PCs
  <2>2. /\ Become(w, r, g) /\ UNCHANGED <<sessionVars, secret>>
        /\ At(w, r, "sent") /\ ~Accepted(q.token)
    BY <1>4 DEF Refuse, Goto, Become, TypeOK
  <2> HIDE DEF g
  <2>3. ~Stranded => InStep(g)
    BY <1>0, <2>1, <2>2 DEF KeepsSession, InStep, At, Accepted
  <2> QED
    BY <1>0, <2>1, <2>2, <2>3, RequestGoesOn DEF RefreshPCs
<1>5. CASE GiveUp(w, r) \/ AwaitRefresh(w, r)
  <2>1. PICK p \in {"leaving", "waiting"} :
          /\ Goto(w, r, p) /\ UNCHANGED <<sessionVars, secret>>
          /\ p = "leaving" => q.authRetry
          /\ p = "waiting" => refreshPromise[w] # None
    BY <1>5 DEF GiveUp, AwaitRefresh
  <2> DEFINE g == [q EXCEPT !.pc = p]
  <2>2. g \in Request /\ g.pc = p /\ Become(w, r, g)
    BY <1>0, <2>1 DEF Request, PCs, Goto, Become, TypeOK
  <2> HIDE DEF g
  <2>3. At(w, r, "refused")
    BY <1>5 DEF GiveUp, AwaitRefresh
  <2>4. p = "leaving"
    <3>1. ~Refreshing(w, r)
      BY <2>3 DEF Refreshing, At
    <3>2. refreshPromise[w] = None
      BY <1>0, <3>1 DEF OneRefreshAtATime, TypeOK
    <3> QED
      BY <2>1, <3>2
  <2>5. Stranded
    BY <1>0, <2>1, <2>3, <2>4 DEF KeepsSession, InStep, At
  <2> QED
    BY <1>0, <2>1, <2>2, <2>5, RequestGoesOn DEF RefreshPCs
<1>6. CASE StartRefresh(w, r)
  <2>0. /\ At(w, r, "refused") /\ ~q.authRetry
        /\ UNCHANGED <<sessionVars, secret>>
    BY <1>6 DEF StartRefresh, RefreshSession
  <2>1. CASE secret = "none"
    <3> DEFINE g == [q EXCEPT !.pc = "leaving"]
    <3>1. g \in Request /\ g.pc = "leaving"
      BY <1>0 DEF Request, PCs
    <3>2. Become(w, r, g)
      BY <1>6, <2>1 DEF StartRefresh, RefreshSession, Goto, Become, TypeOK
    <3> HIDE DEF g
    <3> QED
      BY <1>0, <2>0, <2>1, <3>1, <3>2, RequestGoesOn DEF RefreshPCs, Stranded
  <2>2. CASE secret # "none"
    <3> DEFINE g == [q EXCEPT !.pc = "refresh", !.token = secret]
    <3>1. /\ g \in Request /\ g.pc = "refresh" /\ g.token = secret
          /\ g.authRetry = q.authRetry
      BY <1>0 DEF Request, PCs
    <3>2. Become(w, r, g)
      BY <1>6, <2>2 DEF StartRefresh, RefreshSession
    <3> HIDE DEF g
    <3>3. ~Stranded => InStep(g)
      BY <1>0, <2>0, <3>1 DEF KeepsSession, InStep, At, RefreshPCs
    <3> QED
      BY <1>0, <2>0, <2>2, <3>1, <3>2, <3>3, RequestGoesOn DEF RefreshPCs
  <2> QED
    BY <2>1, <2>2
<1>7. CASE FindSession(w, r)
  <2> DEFINE g == [q EXCEPT !.pc = "found"]
  <2>1. /\ g \in Request /\ g.pc = "found" /\ g.token = q.token
        /\ g.authRetry = q.authRetry
    BY <1>0 DEF Request, PCs
  <2>2. /\ Become(w, r, g) /\ UNCHANGED <<sessionVars, secret>>
        /\ At(w, r, "refresh")
    BY <1>7 DEF FindSession, Goto, Become, TypeOK, At
  <2> HIDE DEF g
  <2>3. ~Stranded => InStep(g)
    BY <1>0, <2>1, <2>2 DEF KeepsSession, InStep, At, RefreshPCs
  <2>4. secret # "none"
    BY <1>0, <2>2 DEF KeepsSession, Refreshing, At
  <2> QED
    BY <1>0, <2>1, <2>2, <2>3, <2>4, RequestGoesOn DEF RefreshPCs
<1>8. CASE RotateToken(w, r)
  <2> DEFINE t == IF session = "gone" THEN "stale" ELSE "current"
             g == [AllAged(req)[w][r] EXCEPT !.pc = "rotated", !.token = t]
  <2>1. /\ req' = [AllAged(req) EXCEPT ![w][r] = g]
        /\ At(w, r, "found") /\ secret' = Aged(secret)
        /\ session' = IF session = "gone" THEN "gone" ELSE "live"
        /\ UNCHANGED <<apiUp, lost>>
    BY <1>8 DEF RotateToken, At
  <2>2. /\ g.pc = "rotated" /\ g.token = t /\ g.authRetry = q.authRetry
    BY <1>0 DEF AllAged, Request
  <2> HIDE DEF g
  <2>3. req'[w][r] = g
    BY <2>1, AllAgedType
  <2>4. secret # "none" /\ Aged(secret) # "none"
    BY <1>0, <2>1 DEF KeepsSession, Refreshing, At, Aged
  <2>5. Stranded' <=> Stranded
    BY <1>0, <2>1, <2>4 DEF Stranded
  <2>6. ~Stranded => InStep(req[w][r])'
    BY <1>0, <2>1, <2>2, <2>3
    DEF KeepsSession, InStep, At, RefreshPCs, Stranded
  <2>7. KeepsSession(w, r)'
    BY <2>1, <2>2, <2>3, <2>4, <2>5, <2>6 DEF KeepsSession, At
  <2> QED
    BY <1>0, <2>1, <2>7 DEF OneByOne
<1>9. CASE StoreToken(w, r)
  <2> DEFINE g == [q EXCEPT !.pc = "sent", !.token = q.token,
                            !.authRetry = TRUE]
  <2>1. /\ g.pc = "sent" /\ g.token = q.token /\ g.authRetry = TRUE
    BY <1>0 DEF Request
  <2>2. /\ At(w, r, "rotated") /\ secret' = q.token /\ UNCHANGED sessionVars
        /\ req'[w][r] = g
    BY <1>9 DEF StoreToken, Settle, TypeOK
  <2> HIDE DEF g
  <2>3. ~Stranded => q.token = "current" /\ session = "live"
    BY <1>0, <2>2 DEF KeepsSession, InStep, At
  <2>4. secret # "none"
    BY <1>0, <2>2 DEF KeepsSession, Refreshing, At
  <2>5. KeepsSession(w, r)'
    BY <2>1, <2>2, <2>3, <2>4
    DEF KeepsSession, InStep, At, Refreshing, Stranded, sessionVars
  <2> QED
    BY <1>0, <2>2, <2>5 DEF OneByOne, sessionVars
<1>10. CASE RefreshFails(w, r)
  <2>1. /\ At(w, r, "refresh") /\ ~Refreshable(q.token)
        /\ UNCHANGED <<session, apiUp, secret, lost>>
    BY <1>0, <1>10 DEF RefreshFails
  <2>2. Stranded
    BY <1>0, <2>1 DEF KeepsSession, InStep, At, Refreshable, Stranded
  <2>3. req'[w][r].pc = "leaving"
    BY <1>10, RefreshFailsSettles DEF Settled
  <2>4. KeepsSession(w, r)'
    BY <2>1, <2>2, <2>3 DEF KeepsSession, At, Refreshing, Stranded
  <2> QED
    BY <1>0, <2>1, <2>4 DEF OneByOne
<1>11. CASE Logout(w, r)
  <2>1. /\ req'[w][r] = Idle /\ Idle.pc = "idle" /\ secret' = "none"
        /\ UNCHANGED sessionVars
    BY <1>11, IdleType, BecomeMoves DEF Logout, Moved, Idle
  <2>2. KeepsSession(w, r)'
    BY <2>1 DEF KeepsSession, At, Refreshing, Stranded
  <2> QED
    BY <1>0, <2>1, <2>2 DEF OneByOne, sessionVars
<1> QED
  BY <1>1, <1>2, <1>3, <1>4, <1>5, <1>6, <1>7, <1>8, <1>9, <1>10, <1>11
  DEF Progress, Answers, Interceptors, ServeRefresh

LEMMA OneByOneElsewhere ==
  ASSUME IInv, OneByOne, Serial,
         \/ \E w \in Windows :
              \/ CooldownPasses(w) \/ ResetCircuitBreaker(w)
              \/ \E logout \in BOOLEAN : Reload(w, logout)
         \/ SignIn \/ Environment \/ UNCHANGED vars
  PROVE  OneByOne'
<1> SUFFICES ASSUME NEW w \in Windows, NEW r \in Requests
             PROVE  apiUp' /\ KeepsSession(w, r)'
  <2>1. apiUp'
    BY DEF OneByOne, CooldownPasses, ResetCircuitBreaker, Reload, SignIn,
           Environment, Expire, Revoke, Outage, Serial, vars, sessionVars
  <2> QED
    BY <2>1 DEF OneByOne
<1> USE DEF IInv
<1>0. /\ KeepsSession(w, r) /\ apiUp /\ req[w][r] \in Request
      /\ \A v \in Windows, s \in Requests : v = w /\ s = r
  BY DEF OneByOne, Serial, TypeOK
<1>1. CASE /\ UNCHANGED <<session, apiUp, lost, secret, req>>
  BY <1>0, <1>1
  DEF KeepsSession, InStep, At, Refreshing, Stranded
<1>2. ASSUME NEW v \in Windows, NEW logout \in BOOLEAN, Reload(v, logout)
      PROVE  apiUp' /\ KeepsSession(w, r)'
  <2>1. /\ req' = [req EXCEPT ![v] = [s \in Requests |-> Idle]]
        /\ secret' \in {"none", secret} /\ UNCHANGED <<session, apiUp>>
        /\ ~At(w, r, "rotated") => lost' = lost
        /\ At(w, r, "rotated") => lost'
    BY <1>0, <1>2 DEF Reload, TypeOK
  <2>2. req'[w][r] = Idle /\ Idle.pc = "idle" /\ Idle.authRetry = FALSE
    BY <1>0, <2>1 DEF TypeOK, Idle
  <2>3. Stranded => Stranded'
    BY <1>0, <1>2, <2>1 DEF Stranded, Reload
  <2>4. ~Stranded /\ ~Stranded' => secret' = "current"
    BY <1>0, <2>1 DEF KeepsSession, InStep, At, Stranded
  <2> QED
    BY <1>0, <2>1, <2>2, <2>3, <2>4
    DEF KeepsSession, InStep, At, Refreshing, Stranded
<1>3. CASE SignIn
  <2>1. /\ At(w, r, "idle") /\ UNCHANGED <<apiUp, req>>
        /\ session' = "live" /\ secret' = "current"
    BY <1>3 DEF SignIn
  <2>2. /\ req[w][r] = Idle /\ Idle.pc = "idle" /\ Idle.authRetry = FALSE
    BY <1>0, <2>1 DEF KeepsSession, Idle
  <2> QED
    BY <1>0, <2>1, <2>2 DEF KeepsSession, InStep, At, Refreshing
<1>4. CASE Expire /\ UNCHANGED <<refreshPromise, breakerVars>>
  <2>1. /\ session = "live" /\ session' = "expired"
        /\ ~req[w][r].authRetry /\ req[w][r].pc # "rotated"
        /\ UNCHANGED <<apiUp, lost, secret, req>>
    BY <1>4 DEF Expire
  <2> QED
    BY <1>0, <2>1 DEF KeepsSession, InStep, At, Refreshing, Stranded
<1>5. CASE Revoke /\ UNCHANGED <<refreshPromise, breakerVars>>
  <2>1. /\ req' = AllAged(req) /\ session' = "gone" /\ secret' = Aged(secret)
        /\ UNCHANGED apiUp
    BY <1>5 DEF Revoke
  <2>2. /\ req'[w][r].pc = req[w][r].pc
        /\ req[w][r] = Idle => req'[w][r] = Idle
    <3>1. req'[w][r] = [req[w][r] EXCEPT !.token = Aged(req[w][r].token)]
      BY <2>1 DEF AllAged
    <3> QED
      BY <1>0, <3>1 DEF Aged, Idle, Request
  <2>3. secret # "none" => secret' # "none"
    BY <2>1 DEF Aged
  <2> QED
    BY <1>0, <2>1, <2>2, <2>3
    DEF KeepsSession, At, Refreshing, Stranded
<1>6. ~Outage
  BY DEF Outage, Serial
<1> QED
  BY <1>1, <1>2, <1>3, <1>4, <1>5, <1>6
  DEF CooldownPasses, ResetCircuitBreaker, Environment, vars, sessionVars

LEMMA OneByOneHolds == Serial => (Spec => []OneByOne)
<1> SUFFICES ASSUME Serial PROVE Spec => []OneByOne
  OBVIOUS
<1>1. Init => OneByOne
  <2> SUFFICES ASSUME Init, NEW w \in Windows, NEW r \in Requests
               PROVE  apiUp /\ KeepsSession(w, r)
    BY DEF OneByOne, Init
  <2>1. /\ req[w][r] = Idle /\ Idle.pc = "idle" /\ Idle.authRetry = FALSE
    BY DEF Init, Idle
  <2> QED
    BY <2>1 DEF Init, KeepsSession, InStep, At, Refreshing
<1>2. IInv /\ OneByOne /\ [Next]_vars => OneByOne'
  BY OneByOneStep, OneByOneElsewhere DEF Next
<1> QED
  BY <1>1, <1>2, SessionInvariance, PTL DEF Spec

(* Requests made one after another in a lone window are signed out only    *)
(* when the session is gone (client.ts:405): the needless sign-out takes   *)
(* two requests that were under way together, or a second window, or an    *)
(* API that does not answer.                                               *)
THEOREM SerialRequestsStaySignedIn ==
  Serial => (Spec => []SignsOutOnlyIfRevoked)
<1>1. OneByOne => SignsOutOnlyIfRevoked
  BY DEF OneByOne, KeepsSession, InStep, RefreshPCs, Stranded, At,
         SignsOutOnlyIfRevoked
<1> QED
  BY <1>1, OneByOneHolds, PTL
=============================================================================
