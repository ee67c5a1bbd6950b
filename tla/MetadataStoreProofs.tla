------------------------ MODULE MetadataStoreProofs ------------------------
(***************************************************************************)
(* The metadata store implements one map with serialized writes, and its   *)
(* file-name index finds what is tracked, for every set of repositories,   *)
(* files and callers, and whatever they request.                           *)
(***************************************************************************)
EXTENDS MetadataStore, TLAPS

Right(f) == Found(fileNameIndex, f) # None <=> IdsOf(stored, f) # {}

(* What holds while the update of a write is under way.                    *)
SaveUnderWay == writing # None /\ writing.op = "save"
ClearUnderWay == writing # None /\ writing.op = "clear"
Settled == writing = None => disk = stored
SaveInSight == SaveUnderWay => stored[writing.id] # None
ClearInSight ==
  ClearUnderWay =>
    writing.id[2] \in doubled \/ IdsOf(stored, writing.id[2]) = {}
AllClearInSight ==
  writing # None /\ writing.op = "clearAll" => \A id \in Ids : stored[id] = None
DoubledKnown == Doubled(stored) \subseteq doubled

(* The index is right about every file but the one whose save is under way *)
(* and those that had two ids.                                             *)
Stale(f) == SaveUnderWay /\ writing.id[2] = f
IndexRight ==
  fileNameIndex # NotBuilt =>
    \A f \in Files \ doubled : Stale(f) \/ Right(f)

IndexOwn ==
  fileNameIndex # NotBuilt =>
    \A f \in Files : fileNameIndex[f] # None => fileNameIndex[f][2] = f

StoreInv ==
  /\ StoreTypeOK /\ Settled /\ SaveInSight /\ ClearInSight
  /\ AllClearInSight /\ DoubledKnown /\ IndexOwn /\ IndexRight

-----------------------------------------------------------------------------
(* Every write leaves a map of ids to metadata.                            *)
LEMMA AppliedType ==
  ASSUME StoreTypeOK, NEW w \in Writes
  PROVE Applied(w) \in Maps
<1>1. CASE w \in Saves
  BY <1>1 DEF Saves, Applied, StoreTypeOK, Maps
<1>2. CASE w \in Clears
  BY <1>2 DEF Clears, Applied, StoreTypeOK, Maps
<1>3. CASE w \in ClearAlls
  BY <1>3 DEF ClearAlls, Applied, StoreTypeOK, Maps
<1>4. CASE w \in Migrates
  <2>1. \A f \in Files : <<w.old, f>> \in Ids
    BY <1>4 DEF Migrates, Ids
  <2>2. \A id \in Ids : id[2] \in Files
    BY DEF Ids
  <2>3. Migrated(w) \in Maps
    BY <2>1, <2>2 DEF Migrated, StoreTypeOK, Maps
  <2> QED
    BY <1>4, <2>3 DEF Migrates, Applied
<1> QED
  BY <1>1, <1>2, <1>3, <1>4 DEF Writes

(* A write at the head of the queue, and the queue behind it.              *)
LEMMA HeadOfQueue ==
  ASSUME StoreTypeOK, writeQueue # <<>>
  PROVE Head(writeQueue) \in Writes /\ Tail(writeQueue) \in Seq(Writes)
BY DEF StoreTypeOK

LEMMA KindsOfWrites ==
  \A w \in Writes : \/ w \in Saves /\ w.op = "save"
                    \/ w \in Clears /\ w.op = "clear"
                    \/ w \in ClearAlls /\ w.op = "clearAll"
                    \/ w \in Migrates /\ w.op = "migrate"
BY DEF Writes, Saves, Clears, ClearAlls, Migrates

LEMMA StartType ==
  ASSUME StoreTypeOK, StartWrite
  PROVE StoreTypeOK'
<1> DEFINE w == Head(writeQueue)
<1>1. w \in Writes /\ Tail(writeQueue) \in Seq(Writes)
  BY HeadOfQueue DEF StartWrite
<1> HIDE DEF w
<1>2. /\ stored' = Applied(w) /\ disk' = disk
      /\ doubled' = doubled \cup Doubled(stored')
      /\ fileNameIndex' = IndexAtStart(w)
      /\ writing' = IF ~Awaited(w) THEN None
                    ELSE IF w.op = "clear" /\ stored[w.id] = None
                    THEN [w EXCEPT !.op = "cleared"] ELSE w
      /\ writeQueue' = Tail(writeQueue)
  BY DEF StartWrite, w
<1>3. stored' \in Maps
  BY <1>1, <1>2, AppliedType
<1>4. fileNameIndex' \in Indexes \cup {NotBuilt}
  <2>1. CASE w.op = "migrate" /\ fileNameIndex # NotBuilt
    <3>1. fileNameIndex \in Indexes
      BY <2>1 DEF StoreTypeOK
    <3>2. \A f \in Files : <<w.new, f>> \in Ids
      BY <1>1, <2>1, KindsOfWrites DEF Migrates, Ids, Saves, Clears, ClearAlls
    <3> QED
      BY <1>2, <2>1, <3>1, <3>2 DEF IndexAtStart, Indexes
  <2>2. CASE ~(w.op = "migrate" /\ fileNameIndex # NotBuilt)
    BY <1>2, <2>2 DEF IndexAtStart, StoreTypeOK
  <2> QED
    BY <2>1, <2>2
<1>5. writing' \in Writes \cup Cleared \cup {None}
  <2>1. w.op = "clear" => [w EXCEPT !.op = "cleared"] \in Cleared
    BY <1>1, KindsOfWrites DEF Clears, Cleared, Saves, ClearAlls, Migrates
  <2> QED
    BY <1>1, <1>2, <2>1
<1>6. doubled' \subseteq Files
  BY <1>2 DEF StoreTypeOK, Doubled
<1> QED
  BY <1>1, <1>2, <1>3, <1>4, <1>5, <1>6 DEF StoreTypeOK

LEMMA EndType ==
  ASSUME StoreTypeOK, EndWrite
  PROVE StoreTypeOK'
<1>1. writing \in Writes \cup Cleared
  BY DEF EndWrite, StoreTypeOK
<1>2. IndexAtEnd(writing) \in Indexes \cup {NotBuilt}
  <2>1. CASE writing.op = "clearAll"
    BY <2>1 DEF IndexAtEnd, Indexes
  <2>2. CASE writing.op = "save" /\ fileNameIndex # NotBuilt
    <3>1. writing.id \in Ids /\ writing.id[2] \in Files
      BY <1>1, <2>2, KindsOfWrites
      DEF Saves, Clears, ClearAlls, Migrates, Cleared, Ids
    <3> QED
      BY <2>2, <3>1 DEF IndexAtEnd, Indexes, StoreTypeOK
  <2>3. CASE writing.op = "clear" /\ fileNameIndex # NotBuilt
    BY <2>3 DEF IndexAtEnd, Indexes, StoreTypeOK
  <2>4. CASE /\ writing.op # "clearAll"
             /\ ~(writing.op = "save" /\ fileNameIndex # NotBuilt)
             /\ ~(writing.op = "clear" /\ fileNameIndex # NotBuilt)
    BY <2>4 DEF IndexAtEnd, StoreTypeOK
  <2> QED
    BY <2>1, <2>2, <2>3, <2>4
<1> QED
  BY <1>2 DEF EndWrite, StoreTypeOK

LEMMA LookUpType ==
  ASSUME StoreTypeOK, LookUp
  PROVE StoreTypeOK' /\ fileNameIndex' \in Indexes
<1>1. fileNameIndex' \in Indexes
  <2>1. CASE fileNameIndex = NotBuilt
    <3>1. \A f \in Files : Options(f) \subseteq Ids \cup {None}
      BY DEF Options, IdsOf
    <3>2. fileNameIndex' \in Built
      BY <2>1 DEF LookUp
    <3> QED
      BY <3>1, <3>2 DEF Built, Indexes
  <2>2. CASE fileNameIndex # NotBuilt
    BY <2>2 DEF LookUp, StoreTypeOK
  <2> QED
    BY <2>1, <2>2
<1> QED
  BY <1>1 DEF LookUp, StoreTypeOK

LEMMA StepType ==
  ASSUME StoreTypeOK, StoreStep
  PROVE StoreTypeOK'
<1>1. ASSUME NEW w \in Writes, Request(w)
      PROVE StoreTypeOK'
  BY <1>1 DEF Request, StoreTypeOK
<1>2. ASSUME StoreReload
      PROVE StoreTypeOK'
  BY <1>2 DEF StoreReload, StoreTypeOK, Doubled
<1> QED
  BY <1>1, <1>2, StartType, EndType, LookUpType DEF StoreStep

-----------------------------------------------------------------------------
(* A lookup of a file stays right while neither the file's entries nor its *)
(* place in the index change.                                              *)
Calm(f) == /\ \A id \in Ids : id[2] = f => stored'[id] = stored[id]
           /\ fileNameIndex'[f] = fileNameIndex[f]

LEMMA RightStays ==
  ASSUME StoreTypeOK, IndexOwn, fileNameIndex # NotBuilt,
         NEW f \in Files, Calm(f), Right(f)
  PROVE Right(f)'
<1>1. fileNameIndex[f] # None =>
        fileNameIndex[f] \in Ids /\ fileNameIndex[f][2] = f
  BY DEF StoreTypeOK, IndexOwn, Indexes
<1>2. Found(fileNameIndex, f)' = Found(fileNameIndex, f)
  BY <1>1 DEF Found, Calm
<1>3. IdsOf(stored, f)' = IdsOf(stored, f)
  BY DEF IdsOf, Calm
<1> QED
  BY <1>2, <1>3 DEF Right

(* Where the file is not doubled, two of its stored ids are the same.      *)
LEMMA OneId ==
  ASSUME DoubledKnown, NEW f \in Files, f \notin doubled,
         NEW i \in IdsOf(stored, f), NEW j \in IdsOf(stored, f)
  PROVE i = j
BY DEF DoubledKnown, Doubled

-----------------------------------------------------------------------------
(* The start of each kind of write.  What StartWrite does with w:          *)
Starts(w) ==
  /\ writing = None
  /\ stored' = Applied(w) /\ disk' = disk
  /\ doubled' = doubled \cup Doubled(stored')
  /\ fileNameIndex' = IndexAtStart(w)
  /\ writing' = IF ~Awaited(w) THEN None
                ELSE IF w.op = "clear" /\ stored[w.id] = None
                THEN [w EXCEPT !.op = "cleared"] ELSE w

LEMMA NoneIsNoWrite == \A w \in Writes \cup Cleared : w # None
BY StoreAssumption

LEMMA StartSave ==
  ASSUME StoreInv, StoreTypeOK', NEW w \in Saves, Starts(w)
  PROVE StoreInv'
<1>1. /\ w.op = "save" /\ w.id \in Ids /\ w.hash \in Hashes
      /\ writing' = w /\ w # None
      /\ stored' = [stored EXCEPT ![w.id] = w.hash]
      /\ fileNameIndex' = fileNameIndex
  BY NoneIsNoWrite
  DEF Starts, Saves, Writes, Awaited, Applied, IndexAtStart
<1>2. Settled' /\ ClearInSight' /\ AllClearInSight'
  BY <1>1 DEF Settled, ClearInSight, ClearUnderWay, AllClearInSight
<1>3. SaveInSight'
  BY <1>1, StoreAssumption DEF StoreInv, StoreTypeOK, Maps, SaveInSight
<1>4. DoubledKnown'
  BY DEF Starts, DoubledKnown
<1>5. IndexOwn'
  BY <1>1 DEF StoreInv, IndexOwn
<1>6. ASSUME fileNameIndex # NotBuilt, NEW f \in Files \ doubled', w.id[2] # f
      PROVE Right(f)'
  <2>1. Calm(f)
    BY <1>1, <1>6 DEF Calm, StoreInv, StoreTypeOK, Maps
  <2>2. Right(f)
    BY <1>6 DEF StoreInv, IndexRight, Stale, SaveUnderWay, Starts
  <2> QED
    BY <2>1, <2>2, <1>6, RightStays DEF StoreInv
<1>7. IndexRight'
  BY <1>1, <1>6 DEF IndexRight, Stale, SaveUnderWay
<1> QED
  BY <1>2, <1>3, <1>4, <1>5, <1>7 DEF StoreInv

(* Of a file with one id nothing is left once that id is cleared.          *)
LEMMA StartClear ==
  ASSUME StoreInv, StoreTypeOK', NEW w \in Clears, Starts(w)
  PROVE StoreInv'
<1> DEFINE g == w.id[2]
<1>1. /\ w.op = "clear" /\ w.id \in Ids /\ g \in Files
      /\ stored' = [stored EXCEPT ![w.id] = None]
      /\ fileNameIndex' = fileNameIndex
      /\ writing' # None /\ writing'.op \notin {"save", "clearAll"}
      /\ writing'.op = "clear" => writing' = w
  <2>1. w.op = "clear" /\ w.id \in Ids /\ g \in Files /\ w # None
    BY NoneIsNoWrite DEF Clears, Writes, Ids
  <2>2. [w EXCEPT !.op = "cleared"] \in Cleared
    BY DEF Clears, Cleared
  <2>3. [w EXCEPT !.op = "cleared"] # None
    BY <2>2, NoneIsNoWrite
  <2>4. [w EXCEPT !.op = "cleared"].op = "cleared"
    BY DEF Clears
  <2> QED
    BY <2>1, <2>3, <2>4 DEF Starts, Awaited, Applied, IndexAtStart
<1> HIDE DEF g
<1>2. Settled' /\ AllClearInSight' /\ SaveInSight'
  BY <1>1 DEF Settled, AllClearInSight, SaveInSight, SaveUnderWay
<1>3. DoubledKnown'
  BY DEF Starts, DoubledKnown
<1>4. IndexOwn'
  BY <1>1 DEF StoreInv, IndexOwn
<1>5. ASSUME g \notin doubled', stored[w.id] # None
      PROVE IdsOf(stored', g) = {}
  <2>1. \A id \in IdsOf(stored, g) : id = w.id
    <3>1. w.id \in IdsOf(stored, g) /\ g \notin doubled
      BY <1>1, <1>5 DEF IdsOf, g, Starts
    <3> QED
      BY <1>1, <3>1, OneId DEF StoreInv
  <2>2. \A id \in Ids : stored'[id] = IF id = w.id THEN None ELSE stored[id]
    BY <1>1 DEF StoreInv, StoreTypeOK, Maps
  <2> QED
    BY <2>1, <2>2 DEF IdsOf
<1>6. ClearInSight'
  <2>1. writing'.op = "clear" => stored[w.id] # None
    <3>1. [w EXCEPT !.op = "cleared"].op = "cleared"
      BY DEF Clears
    <3> QED
      BY <1>1, <3>1 DEF Starts, Awaited
  <2> QED
    BY <1>1, <1>5, <2>1 DEF ClearInSight, ClearUnderWay, g
<1>7. ASSUME fileNameIndex # NotBuilt, NEW f \in Files \ doubled'
      PROVE Right(f)'
  <2>1. Right(f) /\ f \notin doubled
    BY <1>7 DEF StoreInv, IndexRight, Stale, SaveUnderWay, Starts
  <2>2. CASE f # g \/ stored[w.id] = None
    <3>1. Calm(f)
      BY <1>1, <2>2 DEF Calm, StoreInv, StoreTypeOK, Maps, g
    <3> QED
      BY <3>1, <2>1, <1>7, RightStays DEF StoreInv
  <2>3. CASE f = g /\ stored[w.id] # None
    <3>1. IdsOf(stored', f) = {}
      BY <1>5, <1>7, <2>3
    <3>2. ASSUME fileNameIndex[f] # None
          PROVE stored'[fileNameIndex[f]] = None
      <4>1. fileNameIndex[f] \in Ids /\ fileNameIndex[f][2] = f
        BY <3>2, <1>7 DEF StoreInv, StoreTypeOK, IndexOwn, Indexes
      <4> QED
        BY <3>1, <4>1 DEF IdsOf
    <3>3. Found(fileNameIndex, f)' = None
      BY <3>2, <1>1 DEF Found
    <3> QED
      BY <3>1, <3>3 DEF Right
  <2> QED
    BY <2>2, <2>3
<1>8. IndexRight'
  BY <1>1, <1>7 DEF IndexRight
<1> QED
  BY <1>2, <1>3, <1>4, <1>6, <1>8 DEF StoreInv

LEMMA StartClearAll ==
  ASSUME StoreInv, StoreTypeOK', NEW w \in ClearAlls, Starts(w)
  PROVE StoreInv'
<1>1. /\ w.op = "clearAll" /\ writing' = w /\ w # None
      /\ \A id \in Ids : stored'[id] = None
      /\ fileNameIndex' = fileNameIndex
  BY NoneIsNoWrite
  DEF Starts, ClearAlls, Writes, Awaited, Applied, IndexAtStart
<1>2. /\ Settled' /\ SaveInSight' /\ ClearInSight' /\ AllClearInSight'
      /\ DoubledKnown'
  BY <1>1 DEF Settled, SaveInSight, SaveUnderWay, ClearInSight, ClearUnderWay,
              AllClearInSight, DoubledKnown, Starts
<1>3. IndexOwn'
  BY <1>1 DEF StoreInv, IndexOwn
<1>4. IndexRight'
  <2>1. ASSUME fileNameIndex # NotBuilt, NEW f \in Files
        PROVE Right(f)'
    <3>1. fileNameIndex[f] # None => fileNameIndex[f] \in Ids
      BY <2>1 DEF StoreInv, StoreTypeOK, Indexes
    <3> QED
      BY <1>1, <3>1 DEF Right, Found, IdsOf
  <2> QED
    BY <1>1, <2>1 DEF IndexRight
<1> QED
  BY <1>2, <1>3, <1>4 DEF StoreInv

(* What a migration leaves of each id.                                     *)
LEMMA MigratedIds ==
  ASSUME NEW w \in Migrates
  PROVE /\ \A f \in Files, id \in Ids :
             id[2] = f /\ f \notin Moves(w) => Migrated(w)[id] = stored[id]
        /\ \A f \in Moves(w) :
             /\ <<w.new, f>> \in Ids
             /\ Migrated(w)[<<w.new, f>>] = stored[<<w.old, f>>]
             /\ stored[<<w.old, f>>] # None
<1>1. \A f \in Files : <<w.old, f>> \in Ids /\ <<w.new, f>> \in Ids
  BY DEF Migrates, Ids
<1> QED
  BY <1>1 DEF Migrated, Moves

LEMMA StartMigrate ==
  ASSUME StoreInv, StoreTypeOK', NEW w \in Migrates, Starts(w)
  PROVE StoreInv'
<1>1. /\ w.op = "migrate" /\ w # None
      /\ stored' = Migrated(w)
      /\ writing' = IF Moves(w) = {} THEN None ELSE w
      /\ fileNameIndex' = IF fileNameIndex = NotBuilt THEN NotBuilt
                          ELSE [f \in Files |-> IF f \in Moves(w)
                                                THEN <<w.new, f>>
                                                ELSE fileNameIndex[f]]
  BY NoneIsNoWrite DEF Starts, Migrates, Writes, Awaited, Applied, IndexAtStart
<1>2. /\ SaveInSight' /\ ClearInSight' /\ AllClearInSight' /\ DoubledKnown'
      /\ \A f \in Files : ~Stale(f)'
  BY <1>1 DEF SaveInSight, SaveUnderWay, ClearInSight, ClearUnderWay, Stale,
              AllClearInSight, DoubledKnown, Starts
<1>3. Settled'
  <2>1. Moves(w) = {} => stored' = stored
    <3>1. \A id \in Ids : id[2] \in Files
      BY DEF Ids
    <3> QED
      BY <1>1, <3>1 DEF Migrated, StoreInv, StoreTypeOK, Maps
  <2> QED
    BY <1>1, <2>1 DEF Settled, StoreInv, Starts
<1>4. (fileNameIndex' # NotBuilt) =>
        fileNameIndex # NotBuilt /\ fileNameIndex \in Indexes
  BY <1>1 DEF StoreInv, StoreTypeOK
<1>5. IndexOwn'
  BY <1>1, <1>4 DEF StoreInv, IndexOwn
<1>6. ASSUME fileNameIndex' # NotBuilt, NEW f \in Files \ doubled'
      PROVE Right(f)'
  <2>1. CASE f \in Moves(w)
    <3>1. fileNameIndex'[f] = <<w.new, f>>
      BY <1>1, <1>4, <1>6, <2>1
    <3>2. <<w.new, f>> \in Ids /\ stored'[<<w.new, f>>] # None
      BY <1>1, <2>1, MigratedIds
    <3>3. IdsOf(stored', f) # {}
      BY <3>2 DEF IdsOf
    <3>4. Found(fileNameIndex, f)' = <<w.new, f>>
      BY <3>1, <3>2, StoreAssumption DEF Found
    <3> QED
      BY <3>2, <3>3, <3>4, StoreAssumption DEF Right
  <2>2. CASE f \notin Moves(w)
    <3>1. Calm(f)
      BY <1>1, <1>4, <1>6, <2>2, MigratedIds DEF Calm
    <3>2. Right(f)
      BY <1>4, <1>6 DEF StoreInv, IndexRight, Stale, SaveUnderWay, Starts
    <3> QED
      BY <3>1, <3>2, <1>4, <1>6, RightStays DEF StoreInv
  <2> QED
    BY <2>1, <2>2
<1>7. IndexRight'
  BY <1>6 DEF IndexRight
<1> QED
  BY <1>2, <1>3, <1>5, <1>7 DEF StoreInv

LEMMA StartKeepsInv ==
  ASSUME StoreInv, StartWrite
  PROVE StoreInv'
<1> DEFINE w == Head(writeQueue)
<1>1. w \in Writes
  BY HeadOfQueue DEF StartWrite, StoreInv
<1>2. StoreTypeOK'
  BY StartType DEF StoreInv
<1>3. Starts(w)
  BY DEF StartWrite, WriterFree, Starts
<1> HIDE DEF w
<1> QED
  BY <1>1, <1>2, <1>3, StartSave, StartClear, StartClearAll, StartMigrate
  DEF Writes

-----------------------------------------------------------------------------
(* The end of a write: its index update is what its file was stale for.    *)
LEMMA EndKeepsInv ==
  ASSUME StoreInv, EndWrite
  PROVE StoreInv'
<1>1. /\ StoreTypeOK' /\ writing \in Writes \cup Cleared
      /\ writing' = None /\ writing # None
      /\ stored' = stored /\ disk' = stored /\ doubled' = doubled
      /\ fileNameIndex' = IndexAtEnd(writing)
  BY EndType DEF StoreInv, EndWrite, StoreTypeOK
<1>2. /\ Settled' /\ SaveInSight' /\ ClearInSight' /\ AllClearInSight'
      /\ DoubledKnown' /\ \A f \in Files : ~Stale(f)'
  BY <1>1 DEF Settled, SaveInSight, SaveUnderWay, ClearInSight, ClearUnderWay,
              AllClearInSight, DoubledKnown, StoreInv, Stale
<1>3. CASE writing.op = "clearAll"
  <2>1. \A f \in Files : fileNameIndex'[f] = None
    BY <1>1, <1>3 DEF IndexAtEnd
  <2>2. \A f \in Files : IdsOf(stored', f) = {}
    BY <1>1, <1>3 DEF StoreInv, AllClearInSight, IdsOf
  <2>3. \A f \in Files : Right(f)'
    BY <2>1, <2>2 DEF Right, Found
  <2>4. IndexOwn' /\ IndexRight'
    BY <2>1, <2>3 DEF IndexOwn, IndexRight
  <2> QED
    BY <1>1, <1>2, <2>4 DEF StoreInv
<1>4. CASE writing.op \in {"save", "clear"} /\ fileNameIndex # NotBuilt
  <2> DEFINE id == writing.id
             g == id[2]
             new == IF writing.op = "save" THEN id ELSE None
  <2>1. id \in Ids /\ g \in Files
    BY <1>1, <1>4, KindsOfWrites
    DEF Saves, Clears, ClearAlls, Migrates, Cleared, Ids
  <2>2. fileNameIndex' = [fileNameIndex EXCEPT ![g] = new]
    BY <1>1, <1>4 DEF IndexAtEnd
  <2>3. fileNameIndex \in Indexes
    BY <1>4 DEF StoreInv, StoreTypeOK
  <2>4. \A f \in Files : fileNameIndex'[f] = IF f = g THEN new
                                             ELSE fileNameIndex[f]
    BY <2>2, <2>3 DEF Indexes
  <2>5. IndexOwn'
    BY <1>4, <2>4 DEF IndexOwn, StoreInv
  <2>6. ASSUME NEW f \in Files \ doubled, f # g
        PROVE Right(f)'
    <3>1. Calm(f) /\ ~Stale(f)
      BY <1>1, <2>4, <2>6 DEF Calm, Stale
    <3>2. Right(f)
      BY <1>4, <2>6, <3>1 DEF StoreInv, IndexRight
    <3> QED
      BY <1>4, <2>6, <3>1, <3>2, RightStays DEF StoreInv
  <2>7. ASSUME NEW f \in Files \ doubled, f = g, writing.op = "save"
        PROVE Right(f)'
    <3>1. stored'[id] # None
      BY <1>1, <2>7 DEF StoreInv, SaveInSight, SaveUnderWay
    <3>2. fileNameIndex'[f] = id /\ id # None
      BY <2>1, <2>4, <2>7, StoreAssumption
    <3>3. IdsOf(stored', f) # {}
      BY <2>1, <2>7, <3>1 DEF IdsOf
    <3> QED
      BY <3>1, <3>2, <3>3 DEF Right, Found
  <2>8. ASSUME NEW f \in Files \ doubled, f = g, writing.op = "clear"
        PROVE Right(f)'
    <3>1. IdsOf(stored', f) = {}
      BY <1>1, <2>8 DEF StoreInv, ClearInSight, ClearUnderWay
    <3>2. fileNameIndex'[f] = None
      BY <2>4, <2>8
    <3> QED
      BY <3>1, <3>2 DEF Right, Found
  <2>9. IndexRight'
    BY <1>1, <1>4, <2>6, <2>7, <2>8 DEF IndexRight
  <2> QED
    BY <1>1, <1>2, <2>5, <2>9 DEF StoreInv
<1>5. CASE /\ writing.op # "clearAll"
           /\ ~(writing.op \in {"save", "clear"} /\ fileNameIndex # NotBuilt)
  <2>1. fileNameIndex' = fileNameIndex
    BY <1>1, <1>5 DEF IndexAtEnd
  <2>2. IndexOwn'
    BY <2>1 DEF StoreInv, IndexOwn
  <2>3. ASSUME fileNameIndex # NotBuilt, NEW f \in Files \ doubled
        PROVE Right(f)'
    <3>1. Calm(f) /\ ~Stale(f)
      BY <1>1, <1>5, <2>1, <2>3 DEF Calm, Stale, SaveUnderWay
    <3>2. Right(f)
      BY <2>3, <3>1 DEF StoreInv, IndexRight
    <3> QED
      BY <2>3, <3>1, <3>2, RightStays DEF StoreInv
  <2>4. IndexRight'
    BY <1>1, <2>1, <2>3 DEF IndexRight
  <2> QED
    BY <1>1, <1>2, <2>2, <2>4 DEF StoreInv
<1> QED
  BY <1>3, <1>4, <1>5

(* A lookup builds the index from what is stored, or leaves all as it is.  *)
LEMMA LookUpKeepsInv ==
  ASSUME StoreInv, LookUp
  PROVE StoreInv'
<1>1. /\ StoreTypeOK' /\ stored' = stored /\ disk' = disk
      /\ writing' = writing /\ doubled' = doubled
  BY LookUpType DEF StoreInv, LookUp
<1>2. /\ Settled' /\ SaveInSight' /\ ClearInSight' /\ AllClearInSight'
      /\ DoubledKnown'
  BY <1>1 DEF Settled, SaveInSight, SaveUnderWay, ClearInSight, ClearUnderWay,
              AllClearInSight, DoubledKnown, StoreInv, IdsOf, Doubled
<1>3. CASE fileNameIndex = NotBuilt
  <2>1. \A f \in Files : fileNameIndex'[f] \in Options(f)
    BY <1>3 DEF LookUp, Built
  <2>2. IndexOwn'
    BY <2>1 DEF IndexOwn, Options, IdsOf
  <2>3. ASSUME NEW f \in Files
        PROVE Right(f)'
    <3>1. CASE IdsOf(stored, f) = {}
      <4>1. fileNameIndex'[f] = None /\ IdsOf(stored', f) = {}
        BY <1>1, <2>1, <3>1 DEF Options
      <4> QED
        BY <4>1 DEF Right, Found
    <3>2. CASE IdsOf(stored, f) # {}
      <4>1. fileNameIndex'[f] \in IdsOf(stored, f)
        BY <2>1, <3>2 DEF Options
      <4>2. /\ IdsOf(stored', f) # {}
            /\ fileNameIndex'[f] # None
            /\ stored'[fileNameIndex'[f]] # None
        BY <1>1, <3>2, <4>1, StoreAssumption DEF IdsOf
      <4> QED
        BY <4>2 DEF Right, Found
    <3> QED
      BY <3>1, <3>2
  <2>4. IndexRight'
    BY <2>3 DEF IndexRight
  <2> QED
    BY <1>1, <1>2, <2>2, <2>4 DEF StoreInv
<1>4. CASE fileNameIndex # NotBuilt
  <2>1. fileNameIndex' = fileNameIndex
    BY <1>4 DEF LookUp
  <2>2. IndexOwn'
    BY <2>1 DEF StoreInv, IndexOwn
  <2>3. IndexRight'
    BY <1>1, <2>1 DEF StoreInv, IndexRight, Right, Stale, SaveUnderWay, Found,
                      IdsOf
  <2> QED
    BY <1>1, <1>2, <2>2, <2>3 DEF StoreInv
<1> QED
  BY <1>3, <1>4

LEMMA StepKeepsInv ==
  ASSUME StoreInv, [StoreStep]_storeVars
  PROVE StoreInv'
<1>1. ASSUME NEW w \in Writes, Request(w)
      PROVE StoreInv'
  <2>1. StoreTypeOK' /\ UNCHANGED <<stored, disk, fileNameIndex, writing, doubled>>
    BY <1>1, StepType DEF StoreInv, StoreStep, Request
  <2> QED
    BY <2>1
    DEF StoreInv, Settled, SaveInSight, SaveUnderWay, ClearInSight,
        ClearUnderWay, AllClearInSight, DoubledKnown, IndexOwn, IndexRight,
        Right, Stale, Found, IdsOf, Doubled
<1>2. ASSUME StoreReload
      PROVE StoreInv'
  <2>1. /\ StoreTypeOK' /\ disk' = stored' /\ fileNameIndex' = NotBuilt
        /\ writing' = None /\ doubled' = Doubled(stored')
    BY <1>2, StepType DEF StoreInv, StoreStep, StoreReload
  <2> QED
    BY <2>1
    DEF StoreInv, Settled, SaveInSight, SaveUnderWay, ClearInSight,
        ClearUnderWay, AllClearInSight, DoubledKnown, IndexOwn, IndexRight,
        Doubled, IdsOf
<1>3. CASE UNCHANGED storeVars
  BY <1>3
  DEF storeVars, StoreInv, StoreTypeOK, Settled, SaveInSight, SaveUnderWay,
      ClearInSight, ClearUnderWay, AllClearInSight, DoubledKnown, IndexOwn,
      IndexRight, Right, Stale, Found, IdsOf, Doubled
<1> QED
  BY <1>1, <1>2, <1>3, StartKeepsInv, EndKeepsInv, LookUpKeepsInv
  DEF StoreStep

LEMMA InitHoldsInv ==
  ASSUME NEW m \in Maps, StoreInit(m)
  PROVE StoreInv
BY DEF StoreInit, StoreInv, StoreTypeOK, Settled, SaveInSight, SaveUnderWay,
       ClearInSight, ClearUnderWay, AllClearInSight, DoubledKnown, IndexOwn,
       IndexRight, Doubled

(* Whatever its callers request, the store keeps its invariant.            *)
THEOREM StoreInvariant == StoreSpec => []StoreInv
<1>1. (\E m \in Maps : StoreInit(m)) => StoreInv
  BY InitHoldsInv
<1>2. StoreInv /\ [StoreStep]_storeVars => StoreInv'
  BY StepKeepsInv
<1> QED
  BY <1>1, <1>2, PTL DEF StoreSpec

(* Types of the store, for any number of repositories, files and callers.  *)
THEOREM StoreTypes == StoreSpec => []StoreTypeOK
<1>1. StoreInv => StoreTypeOK
  BY DEF StoreInv
<1> QED
  BY <1>1, StoreInvariant, PTL

(* Between writes, the index finds what is tracked of every file that      *)
(* never had two ids at one time.                                          *)
THEOREM TrackedAreFound == StoreSpec => []IndexFindsTracked
<1>1. StoreInv => IndexFindsTracked
  BY DEF StoreInv, IndexFindsTracked, IndexRight, Stale, SaveUnderWay, Right
<1> QED
  BY <1>1, StoreInvariant, PTL

-----------------------------------------------------------------------------
(* The refinement.  A write that changes the map starts on a stored map    *)
(* and does what the abstract write of its kind does.                      *)
LEMMA StartRefines ==
  ASSUME StoreInv, NEW w \in Writes, Starts(w)
  PROVE [Map!Next]_(Map!vars)
<1>1. disk = stored /\ disk' = disk /\ stored' = Applied(w)
  BY DEF StoreInv, Settled, Starts
<1>2. CASE stored' = stored
  BY <1>1, <1>2 DEF Map!vars
<1>3. CASE stored' # stored
  <2>1. CASE w \in Saves
    <3>1. w.id \in Ids /\ w.hash \in Hashes
          /\ stored' = [stored EXCEPT ![w.id] = w.hash]
      BY <1>1, <2>1 DEF Saves, Applied
    <3>2. w.id \in Map!Ids /\ Map!Save(w.id, w.hash)
      BY <3>1 DEF Map!Ids, Map!Save, Ids
    <3> QED
      BY <1>1, <1>3, <3>1, <3>2 DEF Map!Next, Map!Write
  <2>2. CASE w \in Clears
    <3>1. w.id \in Ids /\ stored' = [stored EXCEPT ![w.id] = None]
      BY <1>1, <2>2 DEF Clears, Applied
    <3>2. w.id \in Map!Ids /\ Map!Clear(w.id)
      BY <3>1 DEF Map!Ids, Map!Clear, Ids
    <3> QED
      BY <1>1, <1>3, <3>1, <3>2 DEF Map!Next, Map!Write
  <2>3. CASE w \in ClearAlls
    <3>1. stored' = [id \in Ids |-> None]
      BY <1>1, <2>3 DEF ClearAlls, Applied
    <3>2. Map!ClearAll
      BY <3>1 DEF Map!Ids, Map!ClearAll, Ids
    <3> QED
      BY <1>1, <1>3, <3>2 DEF Map!Next, Map!Write
  <2>4. CASE w \in Migrates
    <3>1. /\ stored' = Migrated(w) /\ w.old \in RepoIds /\ w.new \in RepoIds
      BY <1>1, <2>4 DEF Migrates, Applied
    <3>2. \A id \in Ids : /\ id[1] \in RepoIds /\ id[2] \in Files
                          /\ id = <<id[1], id[2]>>
      BY DEF Ids
    <3>3. w.old # w.new /\ \E f \in Files : stored[<<w.old, f>>] # None
      <4>1. SUFFICES ASSUME Moves(w) = {} PROVE FALSE
        BY <4>1 DEF Moves
      <4> QED
        BY <1>3, <3>1, <3>2, <4>1 DEF Migrated, StoreInv, StoreTypeOK, Maps
    <3>4. \A id \in Ids :
            (IF id[2] \notin Moves(w) THEN stored[id]
             ELSE IF id[1] = w.new THEN stored[<<w.old, id[2]>>]
             ELSE IF id[1] = w.old THEN None ELSE stored[id])
            = (IF id[1] = w.old THEN None
               ELSE IF id[1] = w.new /\ stored[<<w.old, id[2]>>] # None
               THEN stored[<<w.old, id[2]>>] ELSE stored[id])
      BY <3>2, <3>3 DEF Moves
    <3>5. Map!MigrateRepo(w.old, w.new)
      BY <3>1, <3>3, <3>4 DEF Map!MigrateRepo, Map!Ids, Ids, Migrated
    <3> QED
      BY <1>1, <1>3, <3>1, <3>5 DEF Map!Next, Map!Write
  <2> QED
    BY <2>1, <2>2, <2>3, <2>4 DEF Writes
<1> QED
  BY <1>2, <1>3

LEMMA StepRefines ==
  ASSUME StoreInv, [StoreStep]_storeVars
  PROVE [Map!Next]_(Map!vars)
<1>1. CASE StartWrite
  <2> DEFINE w == Head(writeQueue)
  <2>1. w \in Writes
    BY <1>1, HeadOfQueue DEF StartWrite, StoreInv
  <2>2. Starts(w)
    BY <1>1 DEF StartWrite, WriterFree, Starts
  <2> QED
    BY <2>1, <2>2, StartRefines
<1>2. CASE EndWrite
  BY <1>2 DEF EndWrite, Map!Next, Map!Stored
<1>3. CASE StoreReload
  BY <1>3 DEF StoreReload, Map!Next, Map!Reload
<1>4. CASE (\E w \in Writes : Request(w)) \/ LookUp \/ UNCHANGED storeVars
  BY <1>4 DEF Request, LookUp, storeVars, Map!vars
<1> QED
  BY <1>1, <1>2, <1>3, <1>4 DEF StoreStep

(* The store implements the map its callers rely on: their writes take     *)
(* effect one at a time, each on the outcome of the one before, and a      *)
(* reload undoes at most the one that was under way.                       *)
THEOREM StoreImplementsMap == StoreSpec => ImplementsMap
<1>1. (\E m \in Maps : StoreInit(m)) => Map!Init
  BY DEF StoreInit, Map!Init, Maps, Map!Maps, Ids, Map!Ids
<1>2. StoreInv /\ [StoreStep]_storeVars => [Map!Next]_(Map!vars)
  BY StepRefines
<1> QED
  BY <1>1, <1>2, StoreInvariant, PTL DEF StoreSpec, ImplementsMap, Map!Spec
=============================================================================
