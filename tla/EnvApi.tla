------------------------------- MODULE EnvApi -------------------------------
(***************************************************************************)
(* The API's handlers for one environment row (apps/api/src/modules/envs), *)
(* and the ways a request of the extension's API client can fail.          *)
(***************************************************************************)
EXTENDS EnvState

serverUnchanged == UNCHANGED serverVars
clientUnchanged ==
  UNCHANGED <<file, due, storeVars, memVars, online>>

Put(c) == server' = c /\ held' = held \cup {c}

(***************************************************************************)
(* Reads.                                                                  *)
(***************************************************************************)
GetReply == [fetch |-> "fetched", pull |-> "pulled", restore |-> "restored",
             first |-> "firstGot"]

(* GET /envs/:envId; without a row it answers 404.                         *)
ServeGet(d, h) ==
  /\ flow[d][h].pc \in GetPCs
  /\ IF server # None
     THEN Become(d, h, [flow[d][h] EXCEPT !.pc = GetReply[@],
                                          !.theirs = server])
     ELSE Goto(d, h, IF At(d, h, "fetch") THEN "missing" ELSE "failed")
  /\ serverUnchanged /\ clientUnchanged /\ UNCHANGED used

(* GET /envs?repoId, without contents: only the row's existence is used.   *)
ServeList(d, h) ==
  /\ At(d, h, "list")
  /\ Become(d, h, [flow[d][h] EXCEPT !.pc = "listed", !.theirs = server])
  /\ serverUnchanged /\ clientUnchanged /\ UNCHANGED used

(***************************************************************************)
(* PUT /envs/:envId is a SELECT that compares latestHash with baseHash,    *)
(* then an UPDATE by id alone: two steps, and others may run in between.   *)
(***************************************************************************)
CheckUpdate(d, h) ==
  /\ At(d, h, "put")
  /\ Goto(d, h, IF server = None THEN "gone"
                ELSE IF server # flow[d][h].theirs THEN "refused"
                ELSE "checked")
  /\ serverUnchanged /\ clientUnchanged /\ UNCHANGED used

(* Mutant: the UPDATE is an upsert.                                        *)
ApplyUpdateUpserts(d, h) ==
  /\ At(d, h, "checked")
  /\ Put(flow[d][h].mine) /\ Goto(d, h, "acked")
  /\ UNCHANGED abandoned /\ clientUnchanged /\ UNCHANGED used

ApplyUpdate(d, h) ==
  /\ At(d, h, "checked")
  /\ IF server # None
     THEN Put(flow[d][h].mine) /\ Goto(d, h, "acked")
     ELSE Goto(d, h, "gone") /\ UNCHANGED <<server, held>>
  /\ UNCHANGED abandoned /\ clientUnchanged /\ UNCHANGED used

(***************************************************************************)
(* POST /envs: 409 when the row exists.  DELETE /envs/:envId.              *)
(***************************************************************************)
ServeCreate(d, h) ==
  /\ At(d, h, "post")
  /\ IF server = None
     THEN Put(flow[d][h].mine) /\ Goto(d, h, "created")
     ELSE Goto(d, h, "exists") /\ UNCHANGED <<server, held>>
  /\ UNCHANGED abandoned /\ clientUnchanged /\ UNCHANGED used

ServeDelete(d, h) ==
  /\ At(d, h, "del")
  /\ server' = None
  /\ Become(d, h, Idle)
  /\ UNCHANGED <<held, abandoned>> /\ clientUnchanged /\ UNCHANGED used

(***************************************************************************)
(* Failures.  A PUT or POST whose answer does not come within 10 s is sent *)
(* again (RETRY_CONFIG): the first attempt may still reach the database.   *)
(***************************************************************************)
(* An attempt in flight; base is what it expects the row to hold, None for *)
(* a POST, and checked says that the API has found it there.               *)
Abandoned == [content: Contents, base: Contents \cup {None},
              checked: BOOLEAN, nr: Nat]

InFlight(d, h) ==
  IF flow[d][h].pc \in {"put", "checked", "post"}
  THEN {[content |-> flow[d][h].mine,
         base |-> IF At(d, h, "post") THEN None ELSE flow[d][h].theirs,
         checked |-> At(d, h, "checked"), nr |-> used.faults]}
  ELSE {}

Abandon(d, h) == abandoned' = abandoned \cup InFlight(d, h)

RetryWrite(d, h) ==
  /\ flow[d][h].pc \in UpdatePCs \cup CreatePCs
  /\ Spend("faults")
  /\ Abandon(d, h)
  /\ Goto(d, h, IF flow[d][h].pc \in UpdatePCs THEN "put" ELSE "post")
  /\ UNCHANGED <<server, held>> /\ clientUnchanged

(* The last retry failed too, or the error is not one that is retried.     *)
(* Every caller of updateEnv and createEnv logs the error and drops it.    *)
GiveUpWrite(d, h) ==
  /\ flow[d][h].pc \in UpdatePCs \cup CreatePCs
  /\ Spend("faults")
  /\ Abandon(d, h)
  /\ Release(d, h, TRUE)
  /\ UNCHANGED <<server, held, file, storeVars, consecutive404s, online>>

(* Other requests that fail throw; only a failed list counts as no row.    *)
FailRequest(d, h) ==
  /\ flow[d][h].pc \in GetPCs \cup {"init", "list", "del"}
  /\ Spend("faults")
  /\ IF At(d, h, "list")
     THEN Become(d, h, [flow[d][h] EXCEPT !.pc = "listed", !.theirs = None])
     ELSE Goto(d, h, "failed")
  /\ serverUnchanged /\ clientUnchanged

(* The API goes on with an abandoned attempt, as with any other, or the    *)
(* connection died before the attempt arrived.                             *)
FinishAbandoned(r) ==
  LET passes == IF r.checked THEN server # None ELSE server = r.base
  IN /\ IF passes /\ (r.checked \/ r.base = None)
        THEN Put(r.content) /\ abandoned' = abandoned \ {r}
        ELSE /\ abandoned' = (abandoned \ {r}) \cup
                  IF passes THEN {[r EXCEPT !.checked = TRUE]} ELSE {}
             /\ UNCHANGED <<server, held>>
     /\ clientUnchanged /\ UNCHANGED <<flow, used>>

DropAbandoned(r) ==
  /\ ~r.checked
  /\ abandoned' = abandoned \ {r}
  /\ UNCHANGED <<server, held, flow, used>> /\ clientUnchanged
=============================================================================
