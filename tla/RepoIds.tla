------------------------------ MODULE RepoIds -------------------------------
(* The ids the extension and the API compute alike: computeEnvId of a      *)
(* repository id and a file name, injective but for hash collisions.       *)
CONSTANTS RepoIds,   \* repository ids
          Files,     \* workspace-relative names of env files
          Callers,   \* who may wait for a write, or for an answer
          None

computeEnvId(repo, file) == <<repo, file>>
Ids == RepoIds \X Files
=============================================================================
