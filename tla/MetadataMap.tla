---------------------------- MODULE MetadataMap -----------------------------
(***************************************************************************)
(* What EnvvalMetadataStore promises the rest of the extension: one map    *)
(* from env ids to sync metadata.  Writes take effect one by one, each on  *)
(* the result of the one before and only when that one is stored for good, *)
(* so a reload of the window loses at most the write it interrupts.        *)
(***************************************************************************)
CONSTANTS RepoIds, Files, Callers, None,
          Hashes    \* the synced hash, which stands for all of EnvMetadata

INSTANCE RepoIds

VARIABLES entries,   \* the map every reader sees
          durable    \* the map a reload comes back to

Maps == [Ids -> Hashes \cup {None}]

Init == entries \in Maps /\ durable = entries

Save(id, h) == entries' = [entries EXCEPT ![id] = h]
Clear(id) == entries' = [entries EXCEPT ![id] = None]
ClearAll == entries' = [id \in Ids |-> None]

(* Every entry of one repository moves to the same file of another; what   *)
(* that file had under the other repository is replaced.                   *)
MigrateRepo(old, new) ==
  /\ old # new /\ \E f \in Files : entries[<<old, f>>] # None
  /\ entries' = [id \in Ids |->
       IF id[1] = old THEN None
       ELSE IF id[1] = new /\ entries[<<old, id[2]>>] # None
            THEN entries[<<old, id[2]>>]
            ELSE entries[id]]

Write ==
  /\ durable = entries /\ durable' = durable
  /\ entries' # entries
  /\ \/ \E id \in Ids : Clear(id) \/ \E h \in Hashes : Save(id, h)
     \/ ClearAll
     \/ \E old, new \in RepoIds : MigrateRepo(old, new)

Stored == durable' = entries /\ entries' = entries

Reload ==
  \E m \in {entries, durable} : entries' = m /\ durable' = m

Next == Write \/ Stored \/ Reload

vars == <<entries, durable>>
Spec == Init /\ [][Next]_vars
=============================================================================
