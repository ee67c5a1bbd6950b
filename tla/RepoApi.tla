------------------------------ MODULE RepoApi -------------------------------
(***************************************************************************)
(* The repositories API: whether a repository exists, registering it under *)
(* a cap, migrating it to another id in one transaction, and the envs of a *)
(* repository as their user sees them: a set of files, listed, created     *)
(* under a cap, updated.  Each action is one statement or one transaction  *)
(* of a handler; contents and the hash check of updates are EnvApi's.      *)
(***************************************************************************)
EXTENDS FiniteSets, Naturals, RepoIds

CONSTANTS Users,
          MaxRepos,   \* MAX_REPOS_PER_USER
          MaxEnvs     \* MAX_ENVS_PER_REPO

VARIABLES owner,   \* the user a repository row belongs to, or None
          rows,    \* the user an environment row belongs to, or None
          call     \* the request of each caller

apiVars == <<owner, rows, call>>

NoCall == [st |-> "none", op |-> "none", user |-> None, repo |-> None,
           to |-> None, file |-> None, files |-> {}, res |-> "none"]

ReposOf(u) == {r \in RepoIds : owner[r] = u}
FilesOf(u, r) == {f \in Files : rows[<<r, f>>] = u}

ApiInit(owners, ids) ==
  /\ owner = owners
  /\ rows = [id \in Ids |-> IF id \in ids THEN owners[id[1]] ELSE None]
  /\ call = [c \in Callers |-> NoCall]

-----------------------------------------------------------------------------
(* The caller's side: a request is sent, and its answer taken.             *)
Asking(op, u, r) == [NoCall EXCEPT !.st = "asked", !.op = op, !.user = u,
                                   !.repo = r]
Send(c, request) ==
  call' = [call EXCEPT ![c] = request] /\ UNCHANGED <<owner, rows>>
Answered(c, op) == call[c].st = "done" /\ call[c].op = op
Take(c) ==
  call' = [call EXCEPT ![c] = NoCall] /\ UNCHANGED <<owner, rows>>

Asked(c, op) == call[c].st = "asked" /\ call[c].op = op
Reply(c, res) == call' = [call EXCEPT ![c].st = "done", ![c].res = res]
Pass(c, st) == call' = [call EXCEPT ![c].st = st] /\ UNCHANGED <<owner, rows>>

(* A statement that would insert a repository row whose id another         *)
(* transaction has inserted waits for that transaction.                    *)
Claimed(r, c) ==
  \E d \in Callers \ {c} : call[d].st = "copied" /\ call[d].to = r

-----------------------------------------------------------------------------
ServeExists(c) ==
  /\ Asked(c, "exists")
  /\ Reply(c, IF owner[call[c].repo] = call[c].user THEN "yes" ELSE "no")
  /\ UNCHANGED <<owner, rows>>

(* postRepositoriesHandler: the count, then the insert.                    *)
CreateRepoCounts(c) ==
  /\ Asked(c, "createRepo")
  /\ IF Cardinality(ReposOf(call[c].user)) >= MaxRepos
     THEN Reply(c, "refused") /\ UNCHANGED <<owner, rows>>
     ELSE Pass(c, "counted")

CreateRepoInserts(c) ==
  /\ call[c].st = "counted" /\ call[c].op = "createRepo"
  /\ ~Claimed(call[c].repo, c)
  /\ rows' = rows
  /\ IF owner[call[c].repo] = None
     THEN /\ owner' = [owner EXCEPT ![call[c].repo] = call[c].user]
          /\ Reply(c, "ok")
     ELSE owner' = owner /\ Reply(c, "refused")

(* migrateRepository: both ids checked; the new row inserted and the envs  *)
(* read, unseen by others; copies inserted and the old row deleted, with   *)
(* whatever envs it has by then, at the commit.                            *)
MigrateChecks(c) ==
  /\ Asked(c, "migrate")
  /\ IF call[c].repo = call[c].to
     THEN Reply(c, "ok") /\ UNCHANGED <<owner, rows>>
     ELSE IF owner[call[c].repo] # call[c].user \/ owner[call[c].to] # None
     THEN Reply(c, "refused") /\ UNCHANGED <<owner, rows>>
     ELSE Pass(c, "checked")

MigrateCopies(c) ==
  /\ call[c].st = "checked" /\ ~Claimed(call[c].to, c)
  /\ IF owner[call[c].to] # None
     THEN Reply(c, "refused")
     ELSE call' = [call EXCEPT
                     ![c].st = "copied",
                     ![c].files = FilesOf(call[c].user, call[c].repo)]
  /\ UNCHANGED <<owner, rows>>

(* Of the old row nothing is left if another migration has moved it.       *)
Gone(c) == IF owner[call[c].repo] = call[c].user THEN {call[c].repo} ELSE {}
MigrateCommits(c) ==
  /\ call[c].st = "copied"
  /\ owner' = [r \in RepoIds |->
                 IF r = call[c].to THEN call[c].user
                 ELSE IF r \in Gone(c) THEN None ELSE owner[r]]
  /\ rows' = [id \in Ids |->
                IF id[1] = call[c].to /\ id[2] \in call[c].files
                THEN call[c].user
                ELSE IF id[1] \in Gone(c) THEN None ELSE rows[id]]
  /\ Reply(c, "ok")

(* getEnvs: the files of a repository that have a row.                     *)
ServeList(c) ==
  /\ Asked(c, "list")
  /\ call' = [call EXCEPT ![c].st = "done", ![c].res = "ok",
                          ![c].files = FilesOf(call[c].user, call[c].repo)]
  /\ UNCHANGED <<owner, rows>>

(* postEnvsHandler: existence and count, then the insert, which needs the  *)
(* repository's row (foreign key) and no row of its own id.                *)
CreateEnvCounts(c) ==
  /\ Asked(c, "createEnv")
  /\ IF \/ call[c].file \in FilesOf(call[c].user, call[c].repo)
        \/ Cardinality(FilesOf(call[c].user, call[c].repo)) >= MaxEnvs
     THEN Reply(c, "refused") /\ UNCHANGED <<owner, rows>>
     ELSE Pass(c, "counted")

CreateEnvInserts(c) ==
  /\ call[c].st = "counted" /\ call[c].op = "createEnv"
  /\ owner' = owner
  /\ LET id == <<call[c].repo, call[c].file>> IN
     IF owner[call[c].repo] # None /\ rows[id] = None
     THEN rows' = [rows EXCEPT ![id] = call[c].user] /\ Reply(c, "ok")
     ELSE rows' = rows /\ Reply(c, "refused")

ServeUpdate(c) ==
  /\ Asked(c, "update")
  /\ Reply(c, IF call[c].file \in FilesOf(call[c].user, call[c].repo)
              THEN "ok" ELSE "missing")
  /\ UNCHANGED <<owner, rows>>

(* The caller gives up: no answer came, whatever the API did.              *)
CallFails(c) == /\ call[c].st \in {"asked", "done"}
                /\ Reply(c, "failed")
                /\ UNCHANGED <<owner, rows>>

ServerStep(c) ==
  \/ ServeExists(c) \/ ServeList(c) \/ ServeUpdate(c)
  \/ CreateRepoCounts(c) \/ CreateRepoInserts(c)
  \/ CreateEnvCounts(c) \/ CreateEnvInserts(c)
  \/ MigrateChecks(c) \/ MigrateCopies(c) \/ MigrateCommits(c)
=============================================================================
