---------------------------- MODULE DeviceLogin -----------------------------
(***************************************************************************)
(* Signing in with a device code: initiateLogin and pollForToken of the    *)
(* AuthenticationProvider, which every window has, and the secrets, which  *)
(* the windows of one machine share.  A login may be cancelled, started    *)
(* again, denied, cut off by a sign-out or a reload, or lose an answer.    *)
(***************************************************************************)
EXTENDS DeviceApi

CONSTANTS Windows,
          MaxRounds,  \* rounds of polling until totalWaitTime is used up
          None

ASSUME LoginAssumption == MaxRounds \in Nat \ {0} /\ None \notin Logins

VARIABLES login,       \* each login: its window, its place, its locals
          isPolling,   \* of each window's provider
          controller,  \* pollAbortController: the login that made it, or None
          secrets,     \* stored key pair, token and wrapped key material
          hindered     \* history: logins that something has come in the way of

loginVars == <<login, isPolling, controller, secrets, hindered>>
vars == <<deviceVars, loginVars>>

Looping ==
  {"sleep", "reading", "asked", "served", "token", "wrapped", "verify"}
Places == {"new", "keys", "code", "over"} \cup Looping
Attempts == Logins \cup {None}
Fresh == [pc |-> "new", win |-> None, unstored |-> {}, rounds |-> 0,
          key |-> None, signal |-> None]
NoSecrets == [private |-> None, public |-> None, token |-> None,
              wrapped |-> None]

Init ==
  /\ DeviceInit
  /\ login = [a \in Logins |-> Fresh]
  /\ isPolling = [w \in Windows |-> FALSE]
  /\ controller = [w \in Windows |-> None]
  /\ secrets = NoSecrets
  /\ hindered = {}

At(a, pc) == login[a].pc = pc
Running == {a \in Logins : ~At(a, "new") /\ ~At(a, "over")}
In(w) == {a \in Running : login[a].win = w}
Go(a, pc) == login' = [login EXCEPT ![a].pc = pc]
Over == [Fresh EXCEPT !.pc = "over"]
Ending(S) == [a \in Logins |-> IF a \in S THEN Over ELSE login[a]]
Hindering(S) == hindered' = hindered \cup S
SamePolling == UNCHANGED <<isPolling, controller>>

(* The finally block of pollForToken clears the window's flag, whoever set *)
(* it; for comparison, one that does so only for its own controller.       *)
FinallyOfItsOwn(w, a) ==
  /\ isPolling' = [isPolling EXCEPT ![w] = controller[w] # a]
  /\ controller' = controller
Finally(w, a) ==
  /\ isPolling' = [isPolling EXCEPT ![w] = FALSE]
  /\ controller' = [controller EXCEPT ![w] = None]

-----------------------------------------------------------------------------
(* initiateLogin: a key pair is stored, then a code requested.  A login    *)
(* that begins while another is under way comes in the way of both.        *)
Begin(a, w) ==
  /\ At(a, "new")
  /\ login' = [login EXCEPT ![a].pc = "keys", ![a].win = w,
                            ![a].unstored = {"private", "public"}]
  /\ Hindering(IF Running = {} THEN {} ELSE Running \cup {a})
  /\ SamePolling /\ UNCHANGED <<secrets, deviceVars>>

(* For comparison, a login that goes on when one of the two is stored.      *)
StoreOneKey(a, k) ==
  /\ At(a, "keys") /\ k \in login[a].unstored
  /\ secrets' = [secrets EXCEPT ![k] = a] /\ Go(a, "code")
  /\ SamePolling /\ UNCHANGED <<hindered, deviceVars>>
StoreKey(a, k) ==
  /\ At(a, "keys") /\ k \in login[a].unstored
  /\ secrets' = [secrets EXCEPT ![k] = a]
  /\ login' = [login EXCEPT ![a].unstored = @ \ {k},
       ![a].pc = IF login[a].unstored = {k} THEN "code" ELSE "keys"]
  /\ SamePolling /\ UNCHANGED <<hindered, deviceVars>>

CodeFails(a) ==
  /\ At(a, "code") /\ login' = Ending({a})
  /\ SamePolling /\ UNCHANGED <<secrets, hindered, deviceVars>>

(* The code has come; pollForToken starts unless the window is polling.    *)
CodeComes(a) ==
  /\ At(a, "code") /\ Issued(a)
  /\ IF isPolling[login[a].win]
     THEN login' = Ending({a}) /\ SamePolling
     ELSE /\ Go(a, "sleep")
          /\ isPolling' = [isPolling EXCEPT ![login[a].win] = TRUE]
          /\ controller' = [controller EXCEPT ![login[a].win] = a]
  /\ UNCHANGED <<secrets, hindered>>

-----------------------------------------------------------------------------
(***************************************************************************)
(* The loop of pollForToken.                                               *)
(***************************************************************************)
Leave(a) == login' = Ending({a}) /\ Finally(login[a].win, a)

(* totalWaitTime; for comparison, a wait that does not count.              *)
UncountedWait(a) == login[a].rounds
Waited(a) == login[a].rounds + 1

Wake(a) ==
  /\ At(a, "sleep")
  /\ IF isPolling[login[a].win]
     THEN /\ login' = [login EXCEPT ![a].pc = "reading",
                                     ![a].rounds = Waited(a)]
          /\ SamePolling
     ELSE Leave(a)
  /\ UNCHANGED <<secrets, hindered, deviceVars>>

(* Every error takes the default branch, since post() has made an ApiError *)
(* of it: the loop goes on, whatever the API has said, while the window    *)
(* polls and time is left.  For comparison: one round too many, and a loop *)
(* that ends at its first error.                                           *)
OneRoundMore(a) == login[a].rounds > MaxRounds
LastRound(a) == login[a].rounds >= MaxRounds
EndAtOnce(a) == Leave(a)
NextRound(a) == login' = [login EXCEPT ![a].pc = "sleep", ![a].key = None,
                                       ![a].signal = None]
GoOn(a) ==
  IF isPolling[login[a].win] /\ ~LastRound(a)
  THEN NextRound(a) /\ SamePolling
  ELSE Leave(a)

ReadKey(a) ==
  /\ At(a, "reading")
  /\ IF secrets.public = None
     THEN GoOn(a)
     ELSE /\ login' = [login EXCEPT ![a].pc = "asked",
                         ![a].key = secrets.public,
                         ![a].signal = controller[login[a].win]]
          /\ SamePolling
  /\ UNCHANGED <<secrets, hindered, deviceVars>>

(* Pending, denied, expired or used: the API answers with an error.        *)
Refused(a) ==
  /\ At(a, "asked") /\ code[a] # "approved"
  /\ GoOn(a)
  /\ UNCHANGED <<secrets, hindered, deviceVars>>

Granted(a) ==
  /\ At(a, "asked") /\ Exchange(a)
  /\ Go(a, "served")
  /\ SamePolling /\ UNCHANGED <<secrets, hindered>>

(* The API's next step for a used code.  Its answer, a refusal for the     *)
(* quota or the token, reaches a login that still waits for it.            *)
Counted(a) ==
  /\ CountDevices(a)
  /\ IF Full /\ At(a, "served") THEN GoOn(a)
                                ELSE UNCHANGED login /\ SamePolling
  /\ Hindering(IF Full THEN {a} ELSE {})
  /\ UNCHANGED secrets

Inserted(a) ==
  /\ InsertDevice(a)
  /\ IF At(a, "served") THEN Go(a, "token") ELSE UNCHANGED login
  /\ SamePolling /\ UNCHANGED <<secrets, hindered>>

(* An error after the exchange, with or without a row: the code is used up *)
(* all the same.                                                           *)
ApiFails(a) ==
  /\ ServingFails(a) \/ InsertDevice(a)
  /\ IF At(a, "served") THEN GoOn(a) ELSE UNCHANGED login /\ SamePolling
  /\ Hindering({a})
  /\ UNCHANGED secrets

(* No answer: the client sends the same request again, or gives it up.     *)
RequestLost(a) ==
  /\ login[a].pc \in {"asked", "served"}
  /\ \/ Go(a, "asked") /\ SamePolling
     \/ GoOn(a)
  /\ Hindering(IF code[a] = "used" \/ LastRound(a) THEN {a} ELSE {})
  /\ UNCHANGED <<secrets, deviceVars>>

(* The token is stored first, the wrapped key material last.               *)
StoreToken(a) ==
  /\ At(a, "token")
  /\ secrets' = [secrets EXCEPT !.token = a]
  /\ Go(a, "wrapped")
  /\ SamePolling /\ UNCHANGED <<hindered, deviceVars>>

StoreWrapped(a) ==
  /\ At(a, "wrapped")
  /\ secrets' = [secrets EXCEPT !.wrapped = login[a].key]
  /\ Go(a, "verify")
  /\ SamePolling /\ UNCHANGED <<hindered, deviceVars>>

(* getKeyMaterial: the private key opens what is wrapped for its pair.     *)
Opens == secrets.private # None /\ secrets.private = secrets.wrapped

(* cancelPolling aborts the request that carries the current signal.       *)
Aborted(w) == {a \in In(w) : /\ login[a].pc \in {"asked", "served"}
                            /\ controller[w] # None
                            /\ login[a].signal = controller[w]}

(* Verified: the event disposes the login window, which cancels polling,   *)
(* and the loop returns.  Not verified: an error like any other.           *)
Verify(a) ==
  /\ At(a, "verify")
  /\ IF Opens
     THEN /\ login' = Ending({a} \cup Aborted(login[a].win))
          /\ Finally(login[a].win, a)
     ELSE GoOn(a)
  /\ UNCHANGED <<secrets, hindered, deviceVars>>

Step(a) ==
  \/ \E k \in {"private", "public"} : StoreKey(a, k)
  \/ CodeComes(a) \/ CodeFails(a) \/ Wake(a) \/ ReadKey(a) \/ Refused(a)
  \/ Granted(a) \/ Counted(a) \/ Inserted(a)
  \/ StoreToken(a) \/ StoreWrapped(a) \/ Verify(a)

-----------------------------------------------------------------------------
(***************************************************************************)
(* The user and the window.                                                *)
(***************************************************************************)
Cancelled(w, S) ==
  /\ login' = Ending(S)
  /\ isPolling' = [isPolling EXCEPT ![w] = FALSE]
  /\ controller' = [controller EXCEPT ![w] = None]

(* The Cancel button, or the login window closed.                          *)
CancelPolling(w) ==
  /\ isPolling[w] /\ Cancelled(w, Aborted(w))
  /\ Hindering(In(w))
  /\ UNCHANGED <<secrets, deviceVars>>

(* A request of a signed-in window is rejected for good.                   *)
Logout(w) ==
  /\ secrets.token # None
  /\ Cancelled(w, IF isPolling[w] THEN Aborted(w) ELSE {})
  /\ secrets' = NoSecrets
  /\ Hindering(Running)
  /\ UNCHANGED deviceVars

Reload(w) ==
  /\ In(w) # {} /\ Cancelled(w, In(w))
  /\ Hindering(In(w))
  /\ UNCHANGED <<secrets, deviceVars>>

(* What becomes of the code of a login that is over makes no difference.   *)
UserStep(a) ==
  /\ a \in Running
  /\ \/ Approve(a) /\ UNCHANGED loginVars
     \/ Deny(a) /\ UNCHANGED loginVars
     \/ /\ CodeExpires(a) /\ Hindering({a})
        /\ UNCHANGED <<login, isPolling, controller, secrets>>

Next ==
  \/ \E a \in Logins : Step(a) \/ UserStep(a) \/ RequestLost(a) \/ ApiFails(a)
  \/ \E w \in Windows :
       \/ CancelPolling(w) \/ Logout(w) \/ Reload(w)
       \/ \E a \in Logins : Begin(a, w)

Spec == Init /\ [][Next]_vars

-----------------------------------------------------------------------------
TypeOK ==
  /\ code \in [Logins -> CodeStates] /\ serving \in [Logins -> Stages]
  /\ devices \subseteq Logins /\ crowded \subseteq Logins
  /\ login \in [Logins -> [pc : Places, win : Windows \cup {None},
                           unstored : SUBSET {"private", "public"},
                           rounds : 0..MaxRounds, key : Attempts,
                           signal : Attempts]]
  /\ \A a \in Running : login[a].win \in Windows
  /\ isPolling \in [Windows -> BOOLEAN]
  /\ controller \in [Windows -> Attempts]
  /\ secrets \in [private : Attempts, public : Attempts, token : Attempts,
                  wrapped : Attempts]
  /\ hindered \subseteq Logins

(* A window that says it is polling has a loop that is, through cancels,   *)
(* restarts, overlapping loops and errors: otherwise every later login of  *)
(* the window ends at "Already polling for token" (auth-provider.ts:171).  *)
FlagHasLoop ==
  \A w \in Windows : isPolling[w] => \E a \in In(w) : login[a].pc \in Looping

(* Whatever overlaps, fails or is repeated, an account has at most one     *)
(* device too many for each login that was let in between another's count  *)
(* and insert; without such an overlap the quota holds                     *)
(* (device.service.ts:40-54).                                              *)
QuotaHolds ==
  Registered <= MaxDevices => Count <= MaxDevices + Cardinality(crowded)

(* What a login has stored when it verifies is of one piece: the token is  *)
(* its own, and the private key in the secrets opens the wrapped material, *)
(* over all its rounds, retries and refusals and after any logins before   *)
(* it, unless the login was hindered (auth-provider.ts:230-238).           *)
StoredKeysOpen ==
  \A a \in Logins \ hindered : At(a, "verify") => secrets.token = a /\ Opens

-----------------------------------------------------------------------------
(* Timers fire, the secret storage and the API answer; users do nothing.   *)
Fairness == \A a \in Logins : WF_vars(Step(a))
FairSpec == Spec /\ Fairness

(* Every login ends, also one that was denied or whose code is used up and *)
(* whose errors the loop does not tell apart: its time runs out.           *)
LoginsEnd == \A a \in Logins : a \in Running ~> a \notin Running

(* A code approved while its login waits for the next round signs the      *)
(* window in with key material it can open, unless the login was hindered: *)
(* cancelled, overlapped by another, cut off by a sign-out or a reload,    *)
(* refused for the quota or by an error, or its code expired or its answer *)
(* lost.                                                                   *)
ApprovedLoginSignsIn ==
  \A a \in Logins :
    At(a, "sleep") /\ code[a] = "approved"
      ~> \/ a \in hindered
         \/ secrets.token = a /\ Opens /\ At(a, "over")
=============================================================================
