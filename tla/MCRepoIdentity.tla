--------------------------- MODULE MCRepoIdentity ---------------------------
(* Instances of RepoIdentity for TLC: a repository id is what is hashed.   *)
(* An override is the user's own id or the typed one; what an override by  *)
(* another override, or by another user's id, hashes to collides.          *)
EXTENDS RepoIdentity, TLC
Plain == Users \X (Remotes \cup {Content}) \X BOOLEAN
Overridden == {<<id[1], id, b>> : id \in Plain, b \in BOOLEAN}
              \cup Users \X {Custom} \X BOOLEAN
MCRepoIds == Plain \cup Overridden \cup {Custom}
MCHash ==
  [k \in Users \X (Remotes \cup {Content} \cup MCRepoIds) \X BOOLEAN |->
     IF k \in MCRepoIds THEN k ELSE Custom]
Interchangeable == Permutations(Handlers) \cup Permutations(Users)
=============================================================================
