----------------------------- MODULE SessionApi -----------------------------
(***************************************************************************)
(* The API's side of an extension session (api/auth/extension.api.ts): a   *)
(* row whose token is replaced on every refresh.  A token is "current" if  *)
(* the row has it, and "stale" once it was replaced or the row is gone: no *)
(* stale token ever becomes current again.                                 *)
(***************************************************************************)
CONSTANTS
  Windows,            \* VS Code windows of the user, sharing SecretStorage
  Requests,           \* requests a window may have under way
  None,               \* no promise
  Faulty              \* may the API be down, and answers be lost?

ASSUME NoneIsNoRequest == None \notin Requests
ASSUME FaultyIsBoolean == Faulty \in BOOLEAN

VARIABLES
  session,            \* the row: "live", "expired" (refreshable) or "gone"
  apiUp,              \* does the API answer?
  lost,               \* has the answer of a refresh been lost? (history)
  secret,             \* the stored access token
  req                 \* the requests of each window

sessionVars == <<session, apiUp, lost>>

Tokens == {"none", "stale", "current"}
Aged(t) == IF t = "current" THEN "stale" ELSE t
AllAged(reqs) ==
  [w \in Windows |-> [r \in Requests |->
    [reqs[w][r] EXCEPT !.token = Aged(@)]]]

Become(w, r, q) == req' = [req EXCEPT ![w][r] = q]
Goto(w, r, p) == req' = [req EXCEPT ![w][r].pc = p]

(* What the API's session check lets in.                                   *)
Accepted(t) == t = "current" /\ session = "live"
(* What the refresh finds: expired rows too, but not revoked or aged ones. *)
Refreshable(t) == t = "current" /\ session # "gone"

(* The refresh endpoint reads the row by its token.                        *)
FindSession(w, r) ==
  /\ req[w][r].pc = "refresh" /\ apiUp
  /\ Refreshable(req[w][r].token)
  /\ Goto(w, r, "found")
  /\ UNCHANGED <<sessionVars, secret>>

(* It then gives the row, found by its id, a new token: whoever had the    *)
(* old one, a refresh that has also found the row included, is left with a *)
(* stale one.  If the row has gone meanwhile, the answer is the same.      *)
RotateToken(w, r) ==
  /\ req[w][r].pc = "found"
  /\ session' = IF session = "gone" THEN "gone" ELSE "live"
  /\ req' = [AllAged(req) EXCEPT ![w][r] =
       [@ EXCEPT !.pc = "rotated",
                 !.token = IF session = "gone" THEN "stale" ELSE "current"]]
  /\ secret' = Aged(secret)
  /\ UNCHANGED <<apiUp, lost>>

(* Expiry, after which a refresh is possible.  A session lives for days:   *)
(* it does not expire again under the requests it was refreshed for.       *)
Expire ==
  /\ session = "live"
  /\ \A w \in Windows, r \in Requests :
       ~req[w][r].authRetry /\ req[w][r].pc \notin {"found", "rotated"}
  /\ session' = "expired"
  /\ UNCHANGED <<apiUp, lost, secret, req>>

(* The end of the session: a revoked device, or its maximum age.           *)
Revoke ==
  /\ session # "gone"
  /\ session' = "gone"
  /\ secret' = Aged(secret)
  /\ req' = AllAged(req)
  /\ UNCHANGED <<apiUp, lost>>

Outage ==
  /\ Faulty
  /\ apiUp' = ~apiUp
  /\ UNCHANGED <<session, lost, secret, req>>
=============================================================================
