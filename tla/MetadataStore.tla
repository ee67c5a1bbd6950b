--------------------------- MODULE MetadataStore ----------------------------
(***************************************************************************)
(* EnvvalMetadataStore: metadata kept in workspaceState, writes serialized *)
(* through a queue of promises, and a lazily built index from file names   *)
(* to env ids.  workspaceState itself is VS Code's: an update is visible   *)
(* to readers at once and survives a reload once its promise resolves.     *)
(***************************************************************************)
EXTENDS Sequences, Naturals, RepoIds

CONSTANTS Hashes,    \* the synced hash, which stands for all of EnvMetadata
          NotBuilt   \* the index before anyone asked by file name

Maps == [Ids -> Hashes \cup {None}]
Indexes == [Files -> Ids \cup {None}]
Saves == [op : {"save"}, by : Callers, id : Ids, hash : Hashes]
Clears == [op : {"clear"}, by : Callers, id : Ids]
ClearAlls == [op : {"clearAll"}, by : Callers]
Migrates == [op : {"migrate"}, by : Callers, old : RepoIds, new : RepoIds]
Writes == Saves \cup Clears \cup ClearAlls \cup Migrates
Cleared == [op : {"cleared"}, by : Callers, id : Ids]  \* found no entry

ASSUME StoreAssumption ==
  /\ None \notin Ids \cup Hashes \cup Writes \cup Cleared
  /\ NotBuilt \notin Indexes

VARIABLES stored,         \* what workspaceState.get returns
          disk,           \* what a reload would read
          fileNameIndex,
          writeQueue,     \* writes waiting for their turn
          writing,        \* the write whose update is under way, or None
          doubled         \* history: files that had two ids at one time

storeVars == <<stored, disk, fileNameIndex, writeQueue, writing, doubled>>

SaveOf(c, i, h) == [op |-> "save", by |-> c, id |-> i, hash |-> h]
ClearOf(c, i) == [op |-> "clear", by |-> c, id |-> i]
ClearAllOf(c) == [op |-> "clearAll", by |-> c]
MigrateOf(c, o, n) == [op |-> "migrate", by |-> c, old |-> o, new |-> n]

IdsOf(m, f) == {id \in Ids : id[2] = f /\ m[id] # None}
Doubled(m) == {f \in Files : \E i, j \in IdsOf(m, f) : i # j}

(* The window opens on what workspaceState holds.                          *)
StoreInit(m) ==
  /\ stored = m /\ disk = m
  /\ fileNameIndex = NotBuilt
  /\ writeQueue = <<>> /\ writing = None
  /\ doubled = Doubled(m)

-----------------------------------------------------------------------------
(* A caller's await lasts until its write has left queue and update.       *)
Waiting(c) ==
  \/ writing # None /\ writing.by = c
  \/ \E i \in DOMAIN writeQueue : writeQueue[i].by = c

Request(w) ==
  /\ writeQueue' = Append(writeQueue, w)
  /\ UNCHANGED <<stored, disk, fileNameIndex, writing, doubled>>

Moves(w) == {f \in Files : w.old # w.new /\ stored[<<w.old, f>>] # None}
Migrated(w) ==
  [id \in Ids |->
     IF id[2] \notin Moves(w) THEN stored[id]
     ELSE IF id[1] = w.new THEN stored[<<w.old, id[2]>>]
     ELSE IF id[1] = w.old THEN None ELSE stored[id]]

Applied(w) ==
  CASE w.op = "save" -> [stored EXCEPT ![w.id] = w.hash]
    [] w.op = "clear" -> [stored EXCEPT ![w.id] = None]
    [] w.op = "clearAll" -> [id \in Ids |-> None]
    [] w.op = "migrate" -> Migrated(w)

(* migrateRepoId points the index at the new ids before its update (for    *)
(* comparison: at the new repository); other writes leave it to the end.   *)
IndexAtStartByRepo(w) ==
  IF w.op = "migrate" /\ fileNameIndex # NotBuilt
  THEN [f \in Files |-> IF f \in Moves(w) THEN w.new ELSE fileNameIndex[f]]
  ELSE fileNameIndex

IndexAtStart(w) ==
  IF w.op = "migrate" /\ fileNameIndex # NotBuilt
  THEN [f \in Files |-> IF f \in Moves(w) THEN <<w.new, f>>
                        ELSE fileNameIndex[f]]
  ELSE fileNameIndex

(* A migration that moves nothing updates nothing.                         *)
Awaited(w) == w.op # "migrate" \/ Moves(w) # {}

(* The next write starts when the one before has ended (writeQueue.then);  *)
(* WriterAlwaysFree is the store without its queue, for comparison.        *)
WriterAlwaysFree == TRUE
WriterFree == writing = None

(* One synchronous step: read, modify, call update.  A clear remembers     *)
(* whether it removed an entry.                                            *)
StartWrite ==
  /\ WriterFree /\ writeQueue # <<>>
  /\ LET w == Head(writeQueue) IN
     /\ stored' = Applied(w)
     /\ doubled' = doubled \cup Doubled(stored')
     /\ fileNameIndex' = IndexAtStart(w)
     /\ writing' = IF ~Awaited(w) THEN None
                   ELSE IF w.op = "clear" /\ stored[w.id] = None
                   THEN [w EXCEPT !.op = "cleared"] ELSE w
     /\ writeQueue' = Tail(writeQueue)
  /\ disk' = disk

(* For comparison: an index that saves leave alone once it is built.       *)
IndexAtEndLazily(w) ==
  CASE w.op = "clearAll" -> [f \in Files |-> None]
    [] w.op = "clear" /\ fileNameIndex # NotBuilt ->
         [fileNameIndex EXCEPT ![w.id[2]] = None]
    [] OTHER -> fileNameIndex

IndexAtEnd(w) ==
  CASE w.op = "clearAll" -> [f \in Files |-> None]
    [] w.op = "save" /\ fileNameIndex # NotBuilt ->
         [fileNameIndex EXCEPT ![w.id[2]] = w.id]
    [] w.op = "clear" /\ fileNameIndex # NotBuilt ->
         [fileNameIndex EXCEPT ![w.id[2]] = None]
    [] OTHER -> fileNameIndex

EndWrite ==
  /\ writing # None
  /\ disk' = stored
  /\ fileNameIndex' = IndexAtEnd(writing)
  /\ writing' = None
  /\ UNCHANGED <<stored, writeQueue, doubled>>

(* The first lookup by name builds the index; if a file is stored under    *)
(* two ids, the order of the entries decides, which is not modelled.       *)
Options(f) == IF IdsOf(stored, f) = {} THEN {None} ELSE IdsOf(stored, f)
Built == {index \in [Files -> UNION {Options(f) : f \in Files}] :
            \A f \in Files : index[f] \in Options(f)}
LookUp ==
  /\ fileNameIndex' \in IF fileNameIndex = NotBuilt THEN Built
                        ELSE {fileNameIndex}
  /\ UNCHANGED <<stored, disk, writeQueue, writing, doubled>>

(* loadEnvMetadataByFileName: the id whose metadata it returns, or None.   *)
Found(index, f) ==
  IF index[f] # None /\ stored[index[f]] # None THEN index[f] ELSE None

(* A reload drops what waits; the update under way may or may not have     *)
(* reached the disk.                                                       *)
StoreReload ==
  /\ stored' \in {stored, disk} /\ disk' = stored'
  /\ fileNameIndex' = NotBuilt
  /\ writeQueue' = <<>> /\ writing' = None
  /\ doubled' = Doubled(stored')

-----------------------------------------------------------------------------
StoreStep ==
  \/ \E w \in Writes : Request(w)
  \/ StartWrite \/ EndWrite \/ LookUp \/ StoreReload

StoreSpec == (\E m \in Maps : StoreInit(m)) /\ [][StoreStep]_storeVars

StoreTypeOK ==
  /\ stored \in Maps /\ disk \in Maps
  /\ fileNameIndex \in Indexes \cup {NotBuilt}
  /\ writeQueue \in Seq(Writes)
  /\ writing \in Writes \cup Cleared \cup {None}
  /\ doubled \subseteq Files

(* Between writes, a lookup by file name finds metadata exactly when the   *)
(* file has some, through lazy building, migrations, clears and reloads:   *)
(* otherwise a tracked file is taken for a new one, and its user is asked  *)
(* to initialize it again.  Files that had two ids at one time are         *)
(* excepted: clearing one of the ids drops the index entry of the other    *)
(* (metadata-store.ts:170), which two writers of one file can bring about. *)
IndexFindsTracked ==
  fileNameIndex # NotBuilt /\ writing = None =>
    \A f \in Files \ doubled :
      Found(fileNameIndex, f) # None <=> IdsOf(stored, f) # {}

(* The store implements the map its callers rely on: serialized writes,    *)
(* none lost to another, at most one unstored when the window reloads.     *)
Map == INSTANCE MetadataMap WITH entries <- stored, durable <- disk
ImplementsMap == Map!Spec
=============================================================================
