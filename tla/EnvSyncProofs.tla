---------------------------- MODULE EnvSyncProofs ----------------------------
(***************************************************************************)
(* Theorems about EnvSync, for every number of devices, every set of       *)
(* contents, every selection of handlers and every bound.                  *)
(***************************************************************************)
EXTENDS EnvSync, TLAPS

AllHandlers == Syncing \cup Unlocked

(***************************************************************************)
(* The inductive invariant.  A handler that can come to send its local     *)
(* content has read one; what it took from the API, or has acknowledged by *)
(* the API, is a content the row has held; only a delete waits at "del".   *)
(***************************************************************************)
Sends == UpdatePCs \cup CreatePCs \cup {"first", "firstGot", "askFirst"}
Knows == {"fetched", "pulled", "restored", "firstGot", "askFirst",
          "conflict", "write", "meta"}

Sound(f, h, H) ==
  /\ f.pc \in Sends => f.mine # None
  /\ f.pc \in Knows => f.theirs \in H
  /\ f.pc \in {"acked", "created"} => f.mine \in H
  /\ f.pc = "del" => h = "delete"

FlowsSound == \A d \in Devices, h \in AllHandlers : Sound(flow[d][h], h, held)

RowHeld == server \in held \cup {None}

IInv == TypeOK /\ FlowsSound /\ RowHeld /\ SyncedHashWasHeld /\ OneSyncAtATime

-----------------------------------------------------------------------------
(***************************************************************************)
(* Lemmas: what replacing the state of one handler does.                   *)
(***************************************************************************)
Running(f) == f.pc \notin {"idle", "loop"}

(* The flow type, and every other handler's state, survive a Become.       *)
LEMMA BecomeReplaces ==
  ASSUME TypeOK, NEW d \in Devices, NEW h \in AllHandlers, NEW f \in Flow,
         Become(d, h, f)
  PROVE  /\ flow' \in [Devices -> [AllHandlers -> Flow]]
         /\ flow'[d][h] = f
         /\ \A e \in Devices, g \in AllHandlers :
              (e # d \/ g # h) => flow'[e][g] = flow[e][g]
  BY DEF TypeOK, Become, AllHandlers

(* A Goto is a Become.                                                     *)
LEMMA GotoBecomes ==
  ASSUME TypeOK, NEW d \in Devices, NEW h \in AllHandlers, NEW p \in PCs,
         Goto(d, h, p)
  PROVE  LET f == [flow[d][h] EXCEPT !.pc = p]
         IN  f \in Flow /\ Become(d, h, f)
  BY DEF TypeOK, Goto, Become, AllHandlers, Flow

(* Soundness of the flows needs to be shown of the replaced one only, and  *)
(* is not disturbed when the row has held more.                            *)
LEMMA SoundStep ==
  ASSUME IInv, NEW d \in Devices, NEW h \in AllHandlers, NEW f \in Flow,
         Become(d, h, f), held \subseteq held', Sound(f, h, held')
  PROVE  FlowsSound'
<1> SUFFICES ASSUME NEW e \in Devices, NEW g \in AllHandlers
             PROVE  Sound(flow'[e][g], g, held')
  BY DEF FlowsSound
<1>1. CASE e = d /\ g = h
  BY <1>1, BecomeReplaces DEF IInv
<1>2. CASE e # d \/ g # h
  <2>1. flow'[e][g] = flow[e][g]
    BY <1>2, BecomeReplaces DEF IInv
  <2>2. Sound(flow[e][g], g, held)
    BY DEF IInv, FlowsSound
  <2> QED
    BY <2>1, <2>2 DEF Sound
<1> QED
  BY <1>1, <1>2

(* The lock: kept, taken or released together with the handler's state.    *)
LEMMA LockKept ==
  ASSUME IInv, NEW d \in Devices, NEW h \in AllHandlers, NEW f \in Flow,
         Become(d, h, f), UNCHANGED activeSyncs,
         h \in Syncing => (Running(f) <=> Running(flow[d][h]))
  PROVE  OneSyncAtATime'
<1>1. \A e \in Devices, g \in Syncing : Locked(e, g)' <=> Locked(e, g)
  BY BecomeReplaces DEF IInv, Locked, Running, AllHandlers
<1> QED
  BY <1>1 DEF IInv, OneSyncAtATime

LEMMA LockTaken ==
  ASSUME IInv, NEW d \in Devices, NEW h \in Syncing, NEW f \in Flow,
         Become(d, h, f), Running(f), d \notin activeSyncs,
         activeSyncs' = activeSyncs \cup {d}
  PROVE  OneSyncAtATime'
<1>1. \A e \in Devices, g \in Syncing :
        Locked(e, g)' <=> Locked(e, g) \/ (e = d /\ g = h)
  BY BecomeReplaces DEF IInv, Locked, Running, AllHandlers
<1> QED
  BY <1>1 DEF IInv, OneSyncAtATime

LEMMA LockReleased ==
  ASSUME IInv, NEW d \in Devices, NEW h \in AllHandlers,
         Become(d, h, Idle), Running(flow[d][h]),
         activeSyncs' = IF h \in Syncing THEN activeSyncs \ {d} ELSE activeSyncs
  PROVE  OneSyncAtATime'
<1>0. Idle \in Flow
  BY DEF Idle, Flow, PCs
<1>1. CASE h \in Syncing
  <2>1. \A e \in Devices, g \in Syncing :
          Locked(e, g)' <=> Locked(e, g) /\ ~(e = d /\ g = h)
    BY <1>0, <1>1, BecomeReplaces DEF IInv, Locked, Idle, AllHandlers
  <2>2. Locked(d, h)
    BY <1>1 DEF Locked, Running
  <2> QED
    BY <1>1, <2>1, <2>2 DEF IInv, OneSyncAtATime
<1>2. CASE h \notin Syncing
  BY <1>0, <1>2, LockKept
<1> QED
  BY <1>1, <1>2

-----------------------------------------------------------------------------
(***************************************************************************)
(* Lemmas: whole steps of the common shapes keep the invariant.            *)
(***************************************************************************)
UsedType == [{"edits", "faults", "flaps", "restarts"} -> Nat]

LEMMA SpendType ==
  ASSUME TypeOK, NEW k \in {"edits", "faults", "flaps", "restarts"}, Spend(k)
  PROVE  used' \in UsedType
  BY DEF TypeOK, Spend, UsedType

LEMMA IdleIsFlow == Idle \in Flow /\ Idle.pc = "idle"
  BY DEF Idle, Flow, PCs

LEMMA IdleIsSound == \A h, H : Sound(Idle, h, H)
  BY DEF Idle, Sound, Sends, Knows, UpdatePCs, CreatePCs

(* A step that changes the state of one handler without starting or ending *)
(* it, and possibly the attempts the API goes on with.                     *)
LEMMA MoveKeepsIInv ==
  ASSUME IInv, NEW d \in Devices, NEW h \in AllHandlers, NEW f \in Flow,
         Become(d, h, f), Sound(f, h, held),
         h \in Syncing => (Running(f) <=> Running(flow[d][h])),
         UNCHANGED <<server, held>>, abandoned' \subseteq Abandoned,
         clientUnchanged, used' \in UsedType
  PROVE  IInv'
<1> USE DEF clientUnchanged, storeVars, memVars
<1>1. TypeOK'
  BY BecomeReplaces DEF IInv, TypeOK, AllHandlers, UsedType
<1>2. FlowsSound'
  BY SoundStep
<1>3. RowHeld' /\ SyncedHashWasHeld'
  BY DEF IInv, RowHeld, SyncedHashWasHeld
<1>4. OneSyncAtATime'
  BY LockKept
<1> QED
  BY <1>1, <1>2, <1>3, <1>4 DEF IInv

LEMMA AwaitKeepsIInv ==
  ASSUME IInv, NEW d \in Devices, NEW h \in AllHandlers, NEW f \in Flow,
         Become(d, h, f), Sound(f, h, held),
         h \in Syncing => (Running(f) <=> Running(flow[d][h])),
         serverUnchanged, clientUnchanged, used' \in UsedType
  PROVE  IInv'
<1>1. UNCHANGED <<server, held>> /\ abandoned' \subseteq Abandoned
  BY DEF serverUnchanged, serverVars, IInv, TypeOK
<1> QED
  BY <1>1, MoveKeepsIInv

LEMMA GotoKeepsIInv ==
  ASSUME IInv, NEW d \in Devices, NEW h \in AllHandlers, NEW p \in PCs,
         Goto(d, h, p),
         Sound([flow[d][h] EXCEPT !.pc = p], h, held),
         h \in Syncing => Running(flow[d][h]) /\ p \notin {"idle", "loop"},
         serverUnchanged, clientUnchanged, used' \in UsedType
  PROVE  IInv'
<1> DEFINE f == [flow[d][h] EXCEPT !.pc = p]
<1>1. f \in Flow /\ Become(d, h, f)
  BY GotoBecomes DEF IInv
<1>2. f.pc = p
  BY DEF IInv, TypeOK, Flow, AllHandlers
<1>3. h \in Syncing => (Running(f) <=> Running(flow[d][h]))
  BY <1>2 DEF Running
<1> QED
  BY <1>1, <1>3, AwaitKeepsIInv

(* The finally block.                                                      *)
LEMMA ReleaseTypes ==
  ASSUME TypeOK, NEW d \in Devices, NEW h \in AllHandlers, NEW r \in BOOLEAN,
         Release(d, h, r)
  PROVE  /\ flow' \in [Devices -> [AllHandlers -> Flow]]
         /\ due' \in [Devices ->
                        SUBSET {"change", "immediate", "create", "delete"}]
         /\ activeSyncs' \subseteq Devices /\ pendingSyncs' \subseteq Devices
         /\ replay' \in [Devices -> {"idle", "due", "running", "succeeded",
                                     "failed"}]
<1>1. flow' \in [Devices -> [AllHandlers -> Flow]]
  BY BecomeReplaces, IdleIsFlow DEF Release
<1>2. activeSyncs' \subseteq Devices
  BY DEF TypeOK, Release
<1>3. /\ pendingSyncs' \subseteq Devices
      /\ due' \in [Devices ->
                     SUBSET {"change", "immediate", "create", "delete"}]
  BY DEF TypeOK, Release, Drain
<1>4. replay' \in [Devices -> {"idle", "due", "running", "succeeded",
                               "failed"}]
  <2> DEFINE Stages == {"idle", "due", "running", "succeeded", "failed"}
             after == IF h = "push" /\ replay[d] = "running"
                      THEN IF r THEN "succeeded" ELSE "failed"
                      ELSE replay[d]
  <2>1. after \in Stages /\ replay \in [Devices -> Stages]
    BY DEF TypeOK
  <2>2. replay' = [replay EXCEPT ![d] = after]
    BY DEF Release, Settle
  <2> HIDE DEF after, Stages
  <2>3. replay' \in [Devices -> Stages]
    BY <2>1, <2>2
  <2> QED
    BY <2>3 DEF Stages
<1> QED
  BY <1>1, <1>2, <1>3, <1>4

(* A step that ends a handler, whatever it records about the env.          *)
LEMMA ReleaseKeepsIInv ==
  ASSUME IInv, NEW d \in Devices, NEW h \in AllHandlers, NEW r \in BOOLEAN,
         Release(d, h, r), Running(flow[d][h]),
         UNCHANGED <<server, held, file, online>>,
         abandoned' \subseteq Abandoned,
         meta' \in [Devices -> Contents \cup {None}],
         \A e \in Devices : meta'[e] \in held \cup {None},
         queued' \subseteq Devices, ignored' \subseteq Devices,
         consecutive404s' \in [Devices -> Nat], used' \in UsedType
  PROVE  IInv'
<1>1. TypeOK'
  <2>1. TypeOK
    BY DEF IInv
  <2>2. /\ flow' \in [Devices -> [AllHandlers -> Flow]]
        /\ due' \in [Devices ->
                       SUBSET {"change", "immediate", "create", "delete"}]
        /\ activeSyncs' \subseteq Devices /\ pendingSyncs' \subseteq Devices
        /\ replay' \in [Devices -> {"idle", "due", "running", "succeeded",
                                    "failed"}]
    BY <2>1, ReleaseTypes
  <2>3. /\ server' \in Contents \cup {None}
        /\ held' \subseteq Contents
        /\ file' \in [Devices -> Contents \cup {None}]
        /\ online' \subseteq Devices
    BY <2>1 DEF TypeOK
  <2> QED
    BY <2>2, <2>3 DEF TypeOK, AllHandlers, UsedType
<1>2. FlowsSound'
  BY SoundStep, IdleIsFlow, IdleIsSound DEF Release
<1>3. RowHeld' /\ SyncedHashWasHeld'
  BY DEF IInv, RowHeld, SyncedHashWasHeld
<1>4. OneSyncAtATime'
  BY LockReleased DEF Release
<1> QED
  BY <1>1, <1>2, <1>3, <1>4 DEF IInv

LEMMA EndKeepsIInv ==
  ASSUME IInv, NEW d \in Devices, NEW h \in AllHandlers,
         Running(flow[d][h]), End(d, h)
  PROVE  IInv'
<1> USE DEF End, serverUnchanged, serverVars, storeVars
<1>1. /\ UNCHANGED <<server, held, file, online>>
      /\ abandoned' \subseteq Abandoned
      /\ meta' \in [Devices -> Contents \cup {None}]
      /\ queued' \subseteq Devices /\ ignored' \subseteq Devices
      /\ consecutive404s' \in [Devices -> Nat] /\ used' \in UsedType
  BY DEF IInv, TypeOK, UsedType
<1>2. \A e \in Devices : meta'[e] \in held \cup {None}
  BY DEF IInv, SyncedHashWasHeld
<1>3. Release(d, h, TRUE)
  OBVIOUS
<1> QED
  BY <1>1, <1>2, <1>3, ReleaseKeepsIInv

(* ... and records a content that the row has held, or forgets the env.    *)
LEMMA EndSyncedKeepsIInv ==
  ASSUME IInv, NEW d \in Devices, NEW h \in AllHandlers,
         NEW c \in held \cup {None},
         Running(flow[d][h]), EndSynced(d, h, c), ignored' \subseteq Devices
  PROVE  IInv'
<1> USE DEF EndSynced, serverUnchanged, serverVars
<1>1. /\ UNCHANGED <<server, held, file, online>>
      /\ abandoned' \subseteq Abandoned
      /\ queued' \subseteq Devices
      /\ consecutive404s' \in [Devices -> Nat] /\ used' \in UsedType
  BY DEF IInv, TypeOK, UsedType
<1>2. /\ meta' \in [Devices -> Contents \cup {None}]
      /\ \A e \in Devices : meta'[e] \in held \cup {None}
  BY DEF IInv, TypeOK, SyncedHashWasHeld
<1>3. Release(d, h, TRUE)
  OBVIOUS
<1> QED
  BY <1>1, <1>2, <1>3, ReleaseKeepsIInv

-----------------------------------------------------------------------------
(***************************************************************************)
(* The API's steps.                                                        *)
(***************************************************************************)
LEMMA FlowFacts ==
  ASSUME IInv, NEW d \in Devices, NEW h \in AllHandlers
  PROVE  flow[d][h] \in Flow /\ Sound(flow[d][h], h, held)
  BY DEF IInv, TypeOK, FlowsSound, AllHandlers

LEMMA UsedKept == ASSUME IInv, UNCHANGED used PROVE used' \in UsedType
  BY DEF IInv, TypeOK, UsedType

(* The only ways the row is written: a content is put, while one handler   *)
(* moves on to p.                                                          *)
LEMMA PutKeepsIInv ==
  ASSUME IInv, NEW d \in Devices, NEW h \in AllHandlers,
         NEW p \in {"acked", "created"},
         Running(flow[d][h]), flow[d][h].mine \in Contents,
         Put(flow[d][h].mine), Goto(d, h, p),
         UNCHANGED abandoned, clientUnchanged, UNCHANGED used
  PROVE  IInv'
<1> DEFINE f == [flow[d][h] EXCEPT !.pc = p]
<1> USE DEF clientUnchanged, storeVars, memVars
<1>1. p \in PCs
  BY DEF PCs, UpdatePCs, CreatePCs
<1>2. f \in Flow /\ Become(d, h, f)
  BY <1>1, GotoBecomes DEF IInv
<1>3. f.pc = p /\ f.mine = flow[d][h].mine
  BY <1>2, FlowFacts DEF Flow
<1>4. held \subseteq held' /\ held' \subseteq Contents /\ f.mine \in held'
  BY <1>3 DEF Put, IInv, TypeOK
<1>5. f.mine # None
  BY <1>3, ConstantsAssumption
<1>6. Sound(f, h, held')
  BY <1>3, <1>4, <1>5 DEF Sound, Knows
<1> HIDE DEF f
<1>7. TypeOK'
  BY <1>2, <1>4, BecomeReplaces DEF IInv, TypeOK, Put, AllHandlers
<1>8. FlowsSound'
  BY <1>2, <1>4, <1>6, SoundStep
<1>9. RowHeld' /\ SyncedHashWasHeld'
  BY <1>4 DEF IInv, RowHeld, SyncedHashWasHeld, Put
<1>10. OneSyncAtATime'
  <2>1. Running(f)
    BY <1>3 DEF Running
  <2> QED
    BY <1>2, <2>1, LockKept
<1> QED
  BY <1>7, <1>8, <1>9, <1>10 DEF IInv

LEMMA ServerStepKeepsIInv ==
  ASSUME IInv, NEW d \in Devices, NEW h \in AllHandlers, ServerStep(d, h)
  PROVE  IInv'
<1> DEFINE f == flow[d][h]
<1>0. f \in Flow /\ Sound(f, h, held)
  BY FlowFacts
<1>1. CASE ServeGet(d, h)
  <2>1. f.pc \in GetPCs /\ Running(f)
    BY <1>1 DEF ServeGet, GetPCs, Running
  <2>2. serverUnchanged /\ clientUnchanged /\ used' \in UsedType
    BY <1>1, UsedKept DEF ServeGet
  <2>3. CASE server # None
    <3> DEFINE g == [f EXCEPT !.pc = GetReply[@], !.theirs = server]
    <3>1. Become(d, h, g)
      BY <1>1, <2>3 DEF ServeGet
    <3>2. server \in held /\ server \in Contents
      BY <2>3 DEF IInv, TypeOK, RowHeld
    <3>3. GetReply[f.pc] \in {"fetched", "pulled", "restored", "firstGot"}
      BY <2>1 DEF GetReply, GetPCs
    <3>4. g \in Flow
      BY <1>0, <3>2, <3>3 DEF Flow, PCs
    <3>5. GetReply[f.pc] = "firstGot" => f.pc = "first"
      BY <2>1 DEF GetReply, GetPCs
    <3>6. Sound(g, h, held)
      BY <1>0, <3>2, <3>3, <3>5
      DEF Flow, Sound, Sends, Knows, UpdatePCs, CreatePCs
    <3>7. Running(g)
      BY <1>0, <3>3 DEF Flow, Running
    <3> QED
      BY <2>1, <2>2, <3>1, <3>4, <3>6, <3>7, AwaitKeepsIInv
  <2>4. CASE server = None
    <3>1. PICK p \in {"missing", "failed"} : Goto(d, h, p)
      BY <1>1, <2>4 DEF ServeGet
    <3>2. Sound([f EXCEPT !.pc = p], h, held)
      BY <1>0 DEF Flow, Sound, Sends, Knows, UpdatePCs, CreatePCs
    <3>3. p \in PCs
      BY DEF PCs
    <3> QED
      BY <2>1, <2>2, <3>1, <3>2, <3>3, GotoKeepsIInv
  <2> QED
    BY <2>3, <2>4
<1>2. CASE ServeList(d, h)
  <2> DEFINE g == [f EXCEPT !.pc = "listed", !.theirs = server]
  <2>1. Become(d, h, g) /\ Running(f)
    BY <1>2 DEF ServeList, At, Running
  <2>2. g \in Flow /\ Running(g) /\ Sound(g, h, held)
    BY <1>0
    DEF IInv, TypeOK, Flow, PCs, Running, Sound, Sends, Knows, UpdatePCs, CreatePCs
  <2>3. serverUnchanged /\ clientUnchanged /\ used' \in UsedType
    BY <1>2, UsedKept DEF ServeList
  <2> QED
    BY <2>1, <2>2, <2>3, AwaitKeepsIInv
<1>3. CASE CheckUpdate(d, h)
  <2>1. f.pc = "put"
    BY <1>3 DEF CheckUpdate, At
  <2>2. PICK p \in {"gone", "refused", "checked"} : Goto(d, h, p)
    BY <1>3 DEF CheckUpdate
  <2>3. Sound([f EXCEPT !.pc = p], h, held) /\ p \in PCs
    BY <1>0, <2>1 DEF Flow, PCs, Sound, Sends, Knows, UpdatePCs, CreatePCs
  <2>4. serverUnchanged /\ clientUnchanged /\ used' \in UsedType
    BY <1>3, UsedKept DEF CheckUpdate
  <2>5. Running(f) /\ p \notin {"idle", "loop"}
    BY <2>1 DEF Running
  <2> QED
    BY <2>2, <2>3, <2>4, <2>5, GotoKeepsIInv
<1>4. CASE ApplyUpdate(d, h)
  <2>1. f.pc = "checked" /\ Running(f)
    BY <1>4 DEF ApplyUpdate, At, Running
  <2>2. f.mine \in Contents
    BY <1>0, <2>1 DEF Flow, Sound, Sends, UpdatePCs
  <2>3. CASE server # None
    BY <1>4, <2>1, <2>2, <2>3, PutKeepsIInv DEF ApplyUpdate
  <2>4. CASE server = None
    <3>1. Sound([f EXCEPT !.pc = "gone"], h, held) /\ "gone" \in PCs
      BY <1>0, <2>1 DEF Flow, PCs, Sound, Sends, Knows, UpdatePCs, CreatePCs
    <3>2. /\ Goto(d, h, "gone")
          /\ serverUnchanged /\ clientUnchanged /\ used' \in UsedType
      BY <1>4, <2>4, UsedKept DEF ApplyUpdate, serverUnchanged, serverVars
    <3> QED
      BY <2>1, <3>1, <3>2, GotoKeepsIInv
  <2> QED
    BY <2>3, <2>4
<1>5. CASE ServeCreate(d, h)
  <2>1. f.pc = "post" /\ Running(f)
    BY <1>5 DEF ServeCreate, At, Running
  <2>2. f.mine \in Contents
    BY <1>0, <2>1 DEF Flow, Sound, Sends, CreatePCs
  <2>3. CASE server = None
    BY <1>5, <2>1, <2>2, <2>3, PutKeepsIInv DEF ServeCreate
  <2>4. CASE server # None
    <3>1. Sound([f EXCEPT !.pc = "exists"], h, held) /\ "exists" \in PCs
      BY <1>0, <2>1 DEF Flow, PCs, Sound, Sends, Knows, UpdatePCs, CreatePCs
    <3>2. /\ Goto(d, h, "exists")
          /\ serverUnchanged /\ clientUnchanged /\ used' \in UsedType
      BY <1>5, <2>4, UsedKept DEF ServeCreate, serverUnchanged, serverVars
    <3> QED
      BY <2>1, <3>1, <3>2, GotoKeepsIInv
  <2> QED
    BY <2>3, <2>4
<1>6. CASE ServeDelete(d, h)
  <2> USE <1>6 DEF ServeDelete, clientUnchanged, storeVars, memVars
  <2>1. h = "delete" /\ h \notin Syncing
    BY <1>0 DEF At, Sound, Syncing
  <2>2. TypeOK'
    BY BecomeReplaces, IdleIsFlow DEF IInv, TypeOK, AllHandlers
  <2>3. FlowsSound'
    BY SoundStep, IdleIsFlow, IdleIsSound
  <2>4. RowHeld' /\ SyncedHashWasHeld'
    BY DEF IInv, RowHeld, SyncedHashWasHeld
  <2>5. OneSyncAtATime'
    BY <2>1, IdleIsFlow, LockKept
  <2> QED
    BY <2>2, <2>3, <2>4, <2>5 DEF IInv
<1> QED
  BY <1>1, <1>2, <1>3, <1>4, <1>5, <1>6 DEF ServerStep

-----------------------------------------------------------------------------
(***************************************************************************)
(* Requests that fail, and attempts the API goes on with.                  *)
(***************************************************************************)
LEMMA InFlightType ==
  ASSUME IInv, NEW d \in Devices, NEW h \in AllHandlers
  PROVE  InFlight(d, h) \subseteq Abandoned
<1> DEFINE f == flow[d][h]
<1>1. f \in Flow /\ Sound(f, h, held) /\ used.faults \in Nat
  BY FlowFacts DEF IInv, TypeOK
<1>2. ASSUME f.pc \in {"put", "checked", "post"}
      PROVE  f.mine \in Contents
  BY <1>1, <1>2 DEF Flow, Sound, Sends, UpdatePCs, CreatePCs
<1>3. f.theirs \in Contents \cup {None}
  BY <1>1 DEF Flow
<1> DEFINE base == IF At(d, h, "post") THEN None ELSE f.theirs
           r == [content |-> f.mine, base |-> base,
                 checked |-> At(d, h, "checked"), nr |-> used.faults]
<1>4. base \in Contents \cup {None} /\ At(d, h, "checked") \in BOOLEAN
  BY <1>3 DEF At
<1>5. ASSUME f.pc \in {"put", "checked", "post"}
      PROVE  r \in Abandoned
  <2> HIDE DEF base
  <2> QED
    BY <1>1, <1>2, <1>4, <1>5 DEF Abandoned
<1>6. InFlight(d, h) \in {{r}, {}}
  BY DEF InFlight
<1>7. f.pc \notin {"put", "checked", "post"} => InFlight(d, h) = {}
  BY DEF InFlight
<1> HIDE DEF r
<1> QED
  BY <1>5, <1>6, <1>7

LEMMA FaultKeepsIInv ==
  ASSUME IInv, NEW d \in Devices, NEW h \in AllHandlers, Fault(d, h)
  PROVE  IInv'
<1> DEFINE f == flow[d][h]
<1>0. f \in Flow /\ Sound(f, h, held)
  BY FlowFacts
<1>1. CASE RetryWrite(d, h)
  <2> DEFINE p == IF f.pc \in UpdatePCs THEN "put" ELSE "post"
             g == [f EXCEPT !.pc = p]
  <2>1. f.pc \in UpdatePCs \cup CreatePCs /\ Running(f)
    BY <1>1 DEF RetryWrite, UpdatePCs, CreatePCs, Running
  <2>2. p \in PCs /\ Goto(d, h, p)
    BY <1>1 DEF RetryWrite, PCs, UpdatePCs, CreatePCs
  <2>3. g \in Flow /\ Become(d, h, g)
    BY <2>2, GotoBecomes DEF IInv
  <2>4. p \in {"put", "post"}
    OBVIOUS
  <2> HIDE DEF p
  <2>5. g.pc = p /\ g.mine = f.mine
    BY <1>0 DEF Flow
  <2>6. Running(g)
    BY <2>4, <2>5 DEF Running
  <2>7. Sound(g, h, held)
    BY <1>0, <2>1, <2>4, <2>5 DEF Sound, Sends, Knows
  <2>8. UNCHANGED <<server, held>> /\ abandoned' \subseteq Abandoned
    BY <1>1, InFlightType DEF RetryWrite, Abandon, IInv, TypeOK
  <2>9. clientUnchanged /\ used' \in UsedType
    BY <1>1, SpendType DEF RetryWrite, IInv
  <2> QED
    BY <2>1, <2>3, <2>6, <2>7, <2>8, <2>9, MoveKeepsIInv
<1>2. CASE GiveUpWrite(d, h)
  <2>1. Running(f) /\ Release(d, h, TRUE)
    BY <1>2 DEF GiveUpWrite, UpdatePCs, CreatePCs, Running
  <2>2. /\ UNCHANGED <<server, held, file, online>>
        /\ UNCHANGED <<meta, queued, ignored, consecutive404s>>
    BY <1>2 DEF GiveUpWrite, storeVars
  <2>3. /\ meta' \in [Devices -> Contents \cup {None}]
        /\ queued' \subseteq Devices /\ ignored' \subseteq Devices
        /\ consecutive404s' \in [Devices -> Nat]
        /\ \A e \in Devices : meta'[e] \in held \cup {None}
    BY <2>2 DEF IInv, TypeOK, SyncedHashWasHeld
  <2>4. abandoned' \subseteq Abandoned /\ used' \in UsedType
    BY <1>2, InFlightType, SpendType DEF GiveUpWrite, Abandon, IInv, TypeOK
  <2> QED
    BY <2>1, <2>2, <2>3, <2>4, ReleaseKeepsIInv
<1>3. CASE FailRequest(d, h)
  <2>1. Running(f)
    BY <1>3 DEF FailRequest, GetPCs, Running
  <2>2. serverUnchanged /\ clientUnchanged /\ used' \in UsedType
    BY <1>3, SpendType DEF FailRequest, IInv
  <2>3. CASE At(d, h, "list")
    <3> DEFINE g == [f EXCEPT !.pc = "listed", !.theirs = None]
    <3>1. Become(d, h, g)
      BY <1>3, <2>3 DEF FailRequest
    <3>2. g \in Flow /\ Running(g) /\ Sound(g, h, held)
      BY <1>0 DEF Flow, PCs, Running, Sound, Sends, Knows, UpdatePCs, CreatePCs
    <3> QED
      BY <2>1, <2>2, <3>1, <3>2, AwaitKeepsIInv
  <2>4. CASE ~At(d, h, "list")
    <3>1. Goto(d, h, "failed")
      BY <1>3, <2>4 DEF FailRequest
    <3>2. Sound([f EXCEPT !.pc = "failed"], h, held) /\ "failed" \in PCs
      BY <1>0 DEF Flow, PCs, Sound, Sends, Knows, UpdatePCs, CreatePCs
    <3> QED
      BY <2>1, <2>2, <3>1, <3>2, GotoKeepsIInv
  <2> QED
    BY <2>3, <2>4
<1> QED
  BY <1>1, <1>2, <1>3 DEF Fault

(* What is sound stays sound when nothing but the row changes.             *)
LEMMA AbandonedStepKeepsIInv ==
  ASSUME IInv, NEW r \in abandoned, FinishAbandoned(r) \/ DropAbandoned(r)
  PROVE  IInv'
<1> USE DEF clientUnchanged, storeVars, memVars
<1>1. r \in Abandoned /\ r.content \in Contents
  BY DEF IInv, TypeOK, Abandoned
<1>2. UNCHANGED <<file, due, meta, queued, ignored, activeSyncs, pendingSyncs,
                  consecutive404s, replay, online, flow, used>>
  BY DEF FinishAbandoned, DropAbandoned
<1>3. abandoned' \subseteq Abandoned
  <2>1. [r EXCEPT !.checked = TRUE] \in Abandoned
    BY <1>1 DEF Abandoned
  <2> QED
    BY <1>1, <2>1 DEF FinishAbandoned, DropAbandoned, IInv, TypeOK
<1>4. \/ UNCHANGED <<server, held>>
      \/ Put(r.content)
  BY DEF FinishAbandoned, DropAbandoned
<1>5. /\ held \subseteq held' /\ held' \subseteq Contents
      /\ server' \in held' \cup {None} /\ server' \in Contents \cup {None}
  BY <1>1, <1>4 DEF Put, IInv, TypeOK, RowHeld
<1>6. TypeOK'
  BY <1>2, <1>3, <1>5 DEF IInv, TypeOK
<1>7. FlowsSound'
  BY <1>2, <1>5 DEF IInv, FlowsSound, Sound
<1>8. RowHeld' /\ SyncedHashWasHeld'
  BY <1>2, <1>5 DEF IInv, RowHeld, SyncedHashWasHeld
<1>9. OneSyncAtATime'
  BY <1>2 DEF IInv, OneSyncAtATime, Locked
<1> QED
  BY <1>6, <1>7, <1>8, <1>9 DEF IInv

-----------------------------------------------------------------------------
(***************************************************************************)
(* EnvInitService's steps.                                                 *)
(***************************************************************************)
(* TypeOK without the flows.                                               *)
Typed ==
  /\ server \in Contents \cup {None}
  /\ held \subseteq Contents
  /\ abandoned \subseteq Abandoned
  /\ file \in [Devices -> Contents \cup {None}]
  /\ due \in [Devices -> SUBSET {"change", "immediate", "create", "delete"}]
  /\ meta \in [Devices -> Contents \cup {None}]
  /\ queued \subseteq Devices /\ ignored \subseteq Devices
  /\ activeSyncs \subseteq Devices /\ pendingSyncs \subseteq Devices
  /\ consecutive404s \in [Devices -> Nat]
  /\ replay \in [Devices -> {"idle", "due", "running", "succeeded", "failed"}]
  /\ online \subseteq Devices
  /\ used \in UsedType

(* Any step of one handler that neither writes the row nor records a hash. *)
LEMMA StepKeepsIInv ==
  ASSUME IInv, NEW d \in Devices, NEW h \in AllHandlers, NEW f \in Flow,
         Become(d, h, f), Sound(f, h, held),
         UNCHANGED <<server, held, meta>>, Typed', OneSyncAtATime'
  PROVE  IInv'
<1>1. TypeOK'
  BY BecomeReplaces DEF IInv, TypeOK, Typed, UsedType, AllHandlers
<1>2. FlowsSound'
  BY SoundStep
<1> QED
  BY <1>1, <1>2 DEF IInv, RowHeld, SyncedHashWasHeld

LEMMA TypedFromIInv == IInv => Typed
  BY DEF IInv, TypeOK, Typed, UsedType

(* A content is written to the file, and the handler goes on to "meta".    *)
LEMMA WriteKeepsIInv ==
  ASSUME IInv, NEW d \in Devices, NEW h \in AllHandlers,
         Running(flow[d][h]), flow[d][h].theirs \in held,
         WriteFile(d, flow[d][h].theirs), Goto(d, h, "meta"),
         serverUnchanged, UNCHANGED <<storeVars, memVars, online, used>>
  PROVE  IInv'
<1> DEFINE f == flow[d][h]
           g == [f EXCEPT !.pc = "meta"]
<1> USE DEF serverUnchanged, serverVars, storeVars, memVars
<1>0. f \in Flow /\ Sound(f, h, held)
  BY FlowFacts
<1>1. g \in Flow /\ Become(d, h, g)
  BY GotoBecomes DEF IInv, PCs
<1>2. Sound(g, h, held) /\ Running(g)
  BY <1>0 DEF Flow, Running, Sound, Sends, Knows, UpdatePCs, CreatePCs
<1>3. Typed'
  <2>1. f.theirs \in Contents
    BY DEF IInv, TypeOK
  <2>2. /\ file' \in [Devices -> Contents \cup {None}]
        /\ due' \in [Devices ->
                       SUBSET {"change", "immediate", "create", "delete"}]
    BY <2>1, TypedFromIInv DEF WriteFile, Typed
  <2> QED
    BY <2>2, TypedFromIInv DEF Typed
<1>4. OneSyncAtATime'
  BY <1>1, <1>2, LockKept
<1> QED
  BY <1>1, <1>2, <1>3, <1>4, StepKeepsIInv

(* Clearing the ignore mark while a prompt opens.                          *)
LEMMA PromptKeepsIInv ==
  ASSUME IInv, NEW d \in Devices, NEW h \in AllHandlers,
         NEW p \in {"askInit", "askZombie"},
         Running(flow[d][h]), flow[d][h].pc # "del",
         Goto(d, h, p), ignored' = ignored \ {d}, serverUnchanged,
         UNCHANGED <<file, due, meta, queued, memVars, online, used>>
  PROVE  IInv'
<1> DEFINE f == flow[d][h]
           g == [f EXCEPT !.pc = p]
<1> USE DEF serverUnchanged, serverVars, memVars
<1>0. f \in Flow /\ Sound(f, h, held)
  BY FlowFacts
<1>1. g \in Flow /\ Become(d, h, g)
  BY GotoBecomes DEF IInv, PCs, PromptPCs
<1>2. Sound(g, h, held) /\ Running(g)
  BY <1>0 DEF Flow, Running, Sound, Sends, Knows, UpdatePCs, CreatePCs
<1>3. Typed'
  BY TypedFromIInv DEF Typed
<1>4. OneSyncAtATime'
  BY <1>1, <1>2, LockKept
<1> QED
  BY <1>1, <1>2, <1>3, <1>4, StepKeepsIInv

LEMMA AwaitActionKeepsIInv ==
  ASSUME IInv, NEW d \in Devices, NEW h \in AllHandlers, NEW p \in PCs,
         Await(d, h, p), Running(flow[d][h]),
         p \notin {"idle", "loop"},
         Sound([flow[d][h] EXCEPT !.pc = p], h, held)
  PROVE  IInv'
<1>1. /\ Goto(d, h, p)
      /\ serverUnchanged /\ clientUnchanged /\ used' \in UsedType
  BY UsedKept DEF Await
<1> QED
  BY <1>1, GotoKeepsIInv

(* PromptInit and Untracked, from the state in which the lists are known.  *)
LEMMA PromptInitKeepsIInv ==
  ASSUME IInv, NEW d \in Devices, NEW h \in AllHandlers,
         flow[d][h].pc = "listed", PromptInit(d, h)
  PROVE  IInv'
<1>1. Running(flow[d][h]) /\ flow[d][h].pc # "del"
  BY DEF Running
<1>2. CASE End(d, h)
  BY <1>1, <1>2, EndKeepsIInv
<1>3. CASE ~End(d, h)
  BY <1>1, <1>3, PromptKeepsIInv DEF PromptInit
<1> QED
  BY <1>2, <1>3

LEMMA UntrackedKeepsIInv ==
  ASSUME IInv, NEW d \in Devices, NEW h \in AllHandlers,
         flow[d][h].pc = "listed",
         NEW local \in BOOLEAN, NEW remote \in BOOLEAN,
         local => file[d] # None,
         Untracked(d, h, local, remote)
  PROVE  IInv'
<1> DEFINE f == flow[d][h]
           g == [f EXCEPT !.pc = "first", !.mine = file[d]]
<1>0. f \in Flow /\ Sound(f, h, held) /\ Running(f)
  BY FlowFacts DEF Running
<1>1. CASE Await(d, h, "askRestore")
  <2>1. Sound([f EXCEPT !.pc = "askRestore"], h, held) /\ "askRestore" \in PCs
    BY <1>0 DEF Flow, PCs, PromptPCs, Sound, Sends, Knows, UpdatePCs, CreatePCs
  <2> QED
    BY <1>0, <1>1, <2>1, AwaitActionKeepsIInv
<1>2. CASE PromptInit(d, h)
  BY <1>2, PromptInitKeepsIInv
<1>3. CASE /\ local /\ remote /\ Become(d, h, g)
           /\ serverUnchanged /\ clientUnchanged /\ UNCHANGED used
  <2>1. file[d] \in Contents
    BY <1>3 DEF IInv, TypeOK
  <2>2. g \in Flow /\ Running(g) /\ Sound(g, h, held)
    BY <1>0, <2>1, ConstantsAssumption
    DEF Flow, PCs, GetPCs, Running, Sound, Sends, Knows, UpdatePCs, CreatePCs
  <2> QED
    BY <1>0, <1>3, <2>2, UsedKept, AwaitKeepsIInv
<1>4. CASE End(d, h)
  BY <1>0, <1>4, EndKeepsIInv
<1> QED
  BY <1>1, <1>2, <1>3, <1>4 DEF Untracked

LEMMA InitStepKeepsIInv ==
  ASSUME IInv, NEW d \in Devices, NEW h \in AllHandlers, InitStep(d, h)
  PROVE  IInv'
<1> DEFINE f == flow[d][h]
           Over(p) == [f EXCEPT !.pc = p]
<1>0. f \in Flow /\ Sound(f, h, held)
  BY FlowFacts
<1>1. CASE InitChecked(d, h)
  <2> DEFINE local == IF h = "boot" THEN file[d] ELSE None
             g == [f EXCEPT !.pc = "list", !.mine = local]
  <2>1. Running(f)
    BY <1>1 DEF InitChecked, At, Running
  <2>2. CASE End(d, h)
    BY <2>1, <2>2, EndKeepsIInv
  <2>3. CASE ~End(d, h)
    <3>1. /\ Become(d, h, g)
          /\ serverUnchanged /\ clientUnchanged /\ used' \in UsedType
      BY <1>1, <2>3, UsedKept DEF InitChecked
    <3>2. local \in Contents \cup {None}
      BY DEF IInv, TypeOK
    <3> HIDE DEF local
    <3>3. g \in Flow /\ Running(g) /\ Sound(g, h, held)
      BY <1>0, <3>2
      DEF Flow, PCs, Running, Sound, Sends, Knows, UpdatePCs, CreatePCs
    <3> QED
      BY <2>1, <3>1, <3>3, AwaitKeepsIInv
  <2> QED
    BY <2>2, <2>3
<1>2. CASE Listed(d, h)
  <2>1. /\ f.pc = "listed"
        /\ Untracked(d, h, file[d] # None, f.theirs # None)
    BY <1>2 DEF Listed, At
  <2>2. (file[d] # None) \in BOOLEAN /\ (f.theirs # None) \in BOOLEAN
    OBVIOUS
  <2> QED
    BY <2>1, UntrackedKeepsIInv
<1>3. CASE AcceptInit(d, h)
  <2> DEFINE g == [f EXCEPT !.pc = "post", !.mine = file[d]]
  <2>1. Running(f)
    BY <1>3 DEF AcceptInit, Running
  <2>2. CASE End(d, h)
    BY <2>1, <2>2, EndKeepsIInv
  <2>3. CASE ~End(d, h)
    <3>1. /\ Become(d, h, g) /\ file[d] # None
          /\ serverUnchanged /\ clientUnchanged /\ used' \in UsedType
      BY <1>3, <2>3, UsedKept DEF AcceptInit
    <3>2. file[d] \in Contents
      BY <3>1 DEF IInv, TypeOK
    <3>3. g \in Flow /\ Running(g) /\ Sound(g, h, held)
      BY <1>0, <3>1, <3>2
      DEF Flow, PCs, Running, Sound, Sends, Knows, UpdatePCs, CreatePCs
    <3> QED
      BY <2>1, <3>1, <3>3, AwaitKeepsIInv
  <2> QED
    BY <2>2, <2>3
<1>4. CASE DeclineInit(d, h)
  <2>1. Running(f) /\ Release(d, h, TRUE)
    BY <1>4 DEF DeclineInit, At, Running
  <2>2. /\ UNCHANGED <<server, held, abandoned, file, meta, queued,
                       consecutive404s, online, used>>
        /\ ignored' = ignored \cup {d}
    BY <1>4 DEF DeclineInit, serverUnchanged, serverVars
  <2>3. /\ abandoned' \subseteq Abandoned
        /\ meta' \in [Devices -> Contents \cup {None}]
        /\ queued' \subseteq Devices /\ ignored' \subseteq Devices
        /\ consecutive404s' \in [Devices -> Nat] /\ used' \in UsedType
        /\ \A e \in Devices : meta'[e] \in held \cup {None}
    BY <2>2 DEF IInv, TypeOK, SyncedHashWasHeld, UsedType
  <2> QED
    BY <2>1, <2>2, <2>3, ReleaseKeepsIInv
<1>5. CASE AcceptRestore(d, h)
  <2>1. /\ f.pc = "askRestore" /\ Await(d, h, "restore")
        /\ Running(f) /\ "restore" \in PCs
    BY <1>5 DEF AcceptRestore, At, Running, PCs, GetPCs
  <2>2. Sound(Over("restore"), h, held)
    BY <1>0 DEF Flow, Sound, Sends, Knows, UpdatePCs, CreatePCs
  <2> QED
    BY <2>1, <2>2, AwaitActionKeepsIInv
<1>6. CASE DeclineRestore(d, h) \/ FirstCancel(d, h) \/ CreateRefused(d, h)
           \/ FirstUpdateFails(d, h)
  <2>1. Running(f) /\ End(d, h)
    BY <1>6
    DEF DeclineRestore, FirstCancel, CreateRefused, FirstUpdateFails, At, Running
  <2> QED
    BY <2>1, EndKeepsIInv
<1>7. CASE FirstUseLocal(d, h)
  <2>1. /\ f.pc = "askFirst" /\ Await(d, h, "put")
        /\ Running(f) /\ "put" \in PCs
    BY <1>7 DEF FirstUseLocal, At, Running, PCs, UpdatePCs
  <2>2. Sound(Over("put"), h, held)
    BY <1>0, <2>1 DEF Flow, Sound, Sends, Knows, UpdatePCs, CreatePCs
  <2> QED
    BY <2>1, <2>2, AwaitActionKeepsIInv
<1>8. CASE FirstUseRemote(d, h) \/ Restored(d, h)
  <2>1. /\ f.pc \in {"askFirst", "restored"} /\ Running(f)
        /\ Overwrite(d, h)
    BY <1>8 DEF FirstUseRemote, Restored, At, Running
  <2>2. f.theirs \in held
    BY <1>0, <2>1 DEF Sound, Knows
  <2> QED
    BY <2>1, <2>2, WriteKeepsIInv DEF Overwrite
<1>9. CASE Created(d, h)
  <2>1. /\ f.pc = "created" /\ Running(f) /\ EndSynced(d, h, f.mine)
        /\ ignored' \subseteq Devices
    BY <1>9 DEF Created, At, Running, IInv, TypeOK
  <2>2. f.mine \in held
    BY <1>0, <2>1 DEF Sound
  <2> QED
    BY <2>1, <2>2, EndSyncedKeepsIInv
<1>10. CASE FirstGot(d, h)
  <2>1. f.pc = "firstGot" /\ Running(f)
    BY <1>10 DEF FirstGot, At, Running
  <2>2. f.theirs \in held
    BY <1>0, <2>1 DEF Sound, Knows
  <2>3. CASE f.mine = f.theirs /\ EndSynced(d, h, f.mine) /\ UNCHANGED ignored
    <3>1. ignored' \subseteq Devices
      BY <2>3 DEF IInv, TypeOK
    <3> QED
      BY <2>1, <2>2, <2>3, <3>1, EndSyncedKeepsIInv
  <2>4. CASE Overwrite(d, h)
    BY <2>1, <2>2, <2>4, WriteKeepsIInv DEF Overwrite
  <2>5. ASSUME NEW p \in {"put", "askFirst"}, Await(d, h, p)
        PROVE  IInv'
    <3>1. p \in PCs
      BY DEF PCs, UpdatePCs, PromptPCs
    <3>2. Sound(Over(p), h, held)
      BY <1>0, <2>1 DEF Flow, Sound, Sends, Knows, UpdatePCs, CreatePCs
    <3> QED
      BY <2>1, <2>5, <3>1, <3>2, AwaitActionKeepsIInv
  <2> QED
    BY <1>10, <2>3, <2>4, <2>5 DEF FirstGot
<1>11. CASE SaveMeta(d, h)
  <2>1. f.pc = "meta" /\ Running(f) /\ EndSynced(d, h, f.theirs)
        /\ ignored' \subseteq Devices
    BY <1>11 DEF SaveMeta, At, Running, IInv, TypeOK
  <2>2. f.theirs \in held
    BY <1>0, <2>1 DEF Sound, Knows
  <2> QED
    BY <2>1, <2>2, EndSyncedKeepsIInv
<1>12. CASE Failed(d, h)
  <2>1. Running(f) /\ Release(d, h, h # "push") /\ (h # "push") \in BOOLEAN
    BY <1>12 DEF Failed, At, Running
  <2>2. UNCHANGED <<server, held, abandoned, file, meta, queued, ignored,
                    consecutive404s, online, used>>
    BY <1>12 DEF Failed, serverUnchanged, serverVars, storeVars
  <2>3. /\ abandoned' \subseteq Abandoned
        /\ meta' \in [Devices -> Contents \cup {None}]
        /\ queued' \subseteq Devices /\ ignored' \subseteq Devices
        /\ consecutive404s' \in [Devices -> Nat] /\ used' \in UsedType
        /\ \A e \in Devices : meta'[e] \in held \cup {None}
    BY <2>2 DEF IInv, TypeOK, SyncedHashWasHeld, UsedType
  <2> QED
    BY <2>1, <2>2, <2>3, ReleaseKeepsIInv
<1> QED
  BY <1>1, <1>2, <1>3, <1>4, <1>5, <1>6, <1>7, <1>8, <1>9, <1>10, <1>11,
     <1>12
  DEF InitStep

(* A step of "boot", which takes no lock, that ends it outside Release.    *)
LEMMA BootEndsKeepsIInv ==
  ASSUME IInv, NEW d \in Devices, Become(d, "boot", Idle),
         UNCHANGED <<server, held, activeSyncs>>, Typed',
         \A e \in Devices : meta'[e] \in held \cup {None}
  PROVE  IInv'
<1>0. "boot" \in AllHandlers /\ "boot" \notin Syncing
  BY DEF AllHandlers, Syncing, Unlocked
<1>1. TypeOK'
  BY <1>0, BecomeReplaces, IdleIsFlow
  DEF IInv, TypeOK, Typed, UsedType, AllHandlers
<1>2. FlowsSound'
  BY <1>0, SoundStep, IdleIsFlow, IdleIsSound
<1>3. OneSyncAtATime'
  BY <1>0, IdleIsFlow, LockKept
<1> QED
  BY <1>1, <1>2, <1>3 DEF IInv, RowHeld, SyncedHashWasHeld

LEMMA BootStepKeepsIInv ==
  ASSUME IInv, NEW d \in Devices, BootStep(d)
  PROVE  IInv'
<1> DEFINE f == flow[d]["boot"]
<1> USE DEF serverUnchanged, serverVars, memVars
<1>0. "boot" \in AllHandlers
  BY DEF AllHandlers, Unlocked
<1>1. f \in Flow /\ Sound(f, "boot", held)
  BY <1>0, FlowFacts
<1>2. CASE Reconcile(d)
  <2>1. f.pc = "listed" /\ Running(f) /\ f.pc # "del"
    BY <1>2 DEF Reconcile, At, Running
  <2>2. CASE End(d, "boot")
    BY <1>0, <2>1, <2>2, EndKeepsIInv
  <2>3. CASE Untracked(d, "boot", f.mine # None /\ file[d] # None,
                       f.theirs # None)
    <3>1. /\ (f.mine # None /\ file[d] # None) \in BOOLEAN
          /\ (f.theirs # None) \in BOOLEAN
      OBVIOUS
    <3> QED
      BY <1>0, <2>1, <2>3, <3>1, UntrackedKeepsIInv
  <2>4. CASE /\ Goto(d, "boot", "askZombie")
             /\ ignored' = ignored \ {d}
             /\ serverUnchanged
             /\ UNCHANGED <<file, due, meta, queued, memVars, online, used>>
    BY <1>0, <2>1, <2>4, PromptKeepsIInv
  <2>5. CASE Await(d, "boot", "askRestore")
    <3>1. Sound([f EXCEPT !.pc = "askRestore"], "boot", held)
          /\ "askRestore" \in PCs
      BY <1>1
      DEF Flow, PCs, PromptPCs, Sound, Sends, Knows, UpdatePCs, CreatePCs
    <3> QED
      BY <1>0, <2>1, <2>5, <3>1, AwaitActionKeepsIInv
  <2>6. CASE EndSynced(d, "boot", None) /\ UNCHANGED ignored
    <3>1. ignored' \subseteq Devices
      BY <2>6 DEF IInv, TypeOK
    <3> QED
      BY <1>0, <2>1, <2>6, <3>1, EndSyncedKeepsIInv
  <2> QED
    BY <1>2, <2>2, <2>3, <2>4, <2>5, <2>6 DEF Reconcile
<1>3. CASE ZombieReinitialize(d)
  <2>1. /\ f.pc = "askZombie" /\ Running(f) /\ Await(d, "boot", "askReinit")
        /\ "askReinit" \in PCs
    BY <1>3 DEF ZombieReinitialize, At, Running, PCs, PromptPCs
  <2>2. Sound([f EXCEPT !.pc = "askReinit"], "boot", held)
    BY <1>1 DEF Flow, Sound, Sends, Knows, UpdatePCs, CreatePCs
  <2> QED
    BY <1>0, <2>1, <2>2, AwaitActionKeepsIInv
<1>4. CASE DeclineReinit(d) \/ ZombieSkip(d)
  <2>1. /\ Become(d, "boot", Idle)
        /\ UNCHANGED <<server, held, activeSyncs, meta>>
    BY <1>4 DEF DeclineReinit, ZombieSkip
  <2>2. Typed'
    BY <1>4, TypedFromIInv DEF DeclineReinit, ZombieSkip, Typed
  <2>3. \A e \in Devices : meta'[e] \in held \cup {None}
    BY <2>1 DEF IInv, SyncedHashWasHeld
  <2> QED
    BY <2>1, <2>2, <2>3, BootEndsKeepsIInv
<1>5. CASE ZombieDeleteLocal(d)
  <2>1. /\ Become(d, "boot", Idle)
        /\ UNCHANGED <<server, held, activeSyncs>>
    BY <1>5 DEF ZombieDeleteLocal
  <2>2. Typed'
    BY <1>5, TypedFromIInv DEF ZombieDeleteLocal, Typed
  <2>3. \A e \in Devices : meta'[e] \in held \cup {None}
    BY <1>5 DEF ZombieDeleteLocal, IInv, TypeOK, SyncedHashWasHeld
  <2> QED
    BY <2>1, <2>2, <2>3, BootEndsKeepsIInv
<1> QED
  BY <1>2, <1>3, <1>4, <1>5 DEF BootStep

-----------------------------------------------------------------------------
(***************************************************************************)
(* SyncManager's steps.                                                    *)
(***************************************************************************)
LEMMA SyncStepKeepsIInv ==
  ASSUME IInv, NEW d \in Devices, NEW h \in AllHandlers, SyncStep(d, h)
  PROVE  IInv'
<1> DEFINE f == flow[d][h]
<1>0. f \in Flow /\ Sound(f, h, held)
  BY FlowFacts
<1>1. CASE UploadDone(d, h)
  <2>1. f.pc = "acked" /\ Running(f) /\ Release(d, h, TRUE)
    BY <1>1 DEF UploadDone, At, Running
  <2>2. f.mine \in held
    BY <1>0, <2>1 DEF Sound
  <2>3. UNCHANGED <<server, held, abandoned, file, queued, ignored, online,
                    used>>
    BY <1>1 DEF UploadDone, serverUnchanged, serverVars
  <2>4. /\ meta' \in [Devices -> Contents \cup {None}]
        /\ \A e \in Devices : meta'[e] \in held \cup {None}
    BY <1>0, <1>1, <2>2 DEF UploadDone, Flow, IInv, TypeOK, SyncedHashWasHeld
  <2>5. consecutive404s' \in [Devices -> Nat]
    BY <1>1 DEF UploadDone, IInv, TypeOK
  <2>6. /\ abandoned' \subseteq Abandoned /\ used' \in UsedType
        /\ queued' \subseteq Devices /\ ignored' \subseteq Devices
    BY <2>3 DEF IInv, TypeOK, UsedType
  <2> QED
    BY <2>1, <2>3, <2>4, <2>5, <2>6, ReleaseKeepsIInv
<1>2. ASSUME NEW p \in {"ask412", "override", "pull", "write"},
             Await(d, h, p), Running(f), p = "write" => f.pc \in Knows
      PROVE  IInv'
  <2>1. p \in PCs
    BY DEF PCs, PromptPCs, GetPCs
  <2>2. Sound([f EXCEPT !.pc = p], h, held)
    BY <1>0, <1>2 DEF Flow, Sound, Sends, Knows, UpdatePCs, CreatePCs
  <2> QED
    BY <1>2, <2>1, <2>2, AwaitActionKeepsIInv
<1>3. CASE UploadRefused(d, h) \/ UseLocal(d, h) \/ UseRemote(d, h)
  BY <1>2, <1>3
  DEF UploadRefused, UseLocal, UseRemote, At, Running, Knows
<1>4. CASE Dismiss(d, h) \/ Override(d, h)
  <2>1. Running(f) /\ End(d, h)
    BY <1>4 DEF Dismiss, Override, At, Running
  <2> QED
    BY <2>1, EndKeepsIInv
<1>5. CASE Pulled(d, h)
  <2>1. /\ f.pc \in Knows /\ Running(f)
        /\ End(d, h) \/ Await(d, h, "write")
    BY <1>5 DEF Pulled, At, Running, Knows
  <2> QED
    BY <1>2, <2>1, EndKeepsIInv
<1>6. CASE ApplyRemote(d, h)
  <2>1. f.pc = "write" /\ Running(f) /\ f.theirs \in held
    BY <1>0, <1>6 DEF ApplyRemote, At, Running, Sound, Knows
  <2>2. CASE file[d] = None
    <3>1. Goto(d, h, "failed") /\ serverUnchanged /\ clientUnchanged
      BY <1>6, <2>2 DEF ApplyRemote, clientUnchanged
    <3>2. used' \in UsedType
      BY <1>6, UsedKept DEF ApplyRemote
    <3>3. Sound([f EXCEPT !.pc = "failed"], h, held) /\ "failed" \in PCs
      BY <1>0 DEF Flow, PCs, Sound, Sends, Knows, UpdatePCs, CreatePCs
    <3> QED
      BY <2>1, <3>1, <3>2, <3>3, GotoKeepsIInv
  <2>3. CASE file[d] # None
    BY <1>6, <2>1, <2>3, WriteKeepsIInv DEF ApplyRemote
  <2> QED
    BY <2>2, <2>3
<1> QED
  BY <1>1, <1>3, <1>4, <1>5, <1>6 DEF SyncStep

(* Steps that touch no handler, write no row and record no hash.           *)
LEMMA StoreStepKeepsIInv ==
  ASSUME IInv, UNCHANGED <<server, held, meta, activeSyncs, flow>>, Typed'
  PROVE  IInv'
<1>1. TypeOK'
  BY DEF IInv, TypeOK, Typed, UsedType
<1> QED
  BY <1>1
  DEF IInv, FlowsSound, RowHeld, SyncedHashWasHeld, OneSyncAtATime, Locked

(* Steps that start a handler, taking the lock or not needing it.          *)
LEMMA StartKeepsIInv ==
  ASSUME IInv, NEW d \in Devices, NEW h \in AllHandlers, NEW f \in Flow,
         flow[d][h].pc \in {"idle", "loop"}, Become(d, h, f),
         Sound(f, h, held), Running(f),
         IF h \in Syncing
         THEN d \notin activeSyncs /\ Lock(d)
         ELSE UNCHANGED activeSyncs,
         UNCHANGED <<server, held, meta>>, Typed'
  PROVE  IInv'
<1>1. CASE h \in Syncing
  BY <1>1, LockTaken, StepKeepsIInv DEF Lock
<1>2. CASE h \notin Syncing
  BY <1>2, LockKept, StepKeepsIInv
<1> QED
  BY <1>1, <1>2

LEMMA InitFlow ==
  LET f == [Idle EXCEPT !.pc = "init", !.inInit = TRUE]
  IN  f \in Flow /\ Running(f) /\ \A h, H : Sound(f, h, H)
  BY DEF Idle, Flow, PCs, Running, Sound, Sends, Knows, UpdatePCs, CreatePCs

LEMMA UploadFlow ==
  ASSUME IInv, NEW d \in Devices, file[d] # None
  PROVE  /\ Upload(d) \in Flow /\ Running(Upload(d))
         /\ \A h : Sound(Upload(d), h, held)
<1>1. file[d] \in Contents /\ meta[d] \in Contents \cup {None}
  BY DEF IInv, TypeOK
<1> QED
  BY <1>1
  DEF Upload, Idle, Flow, PCs, Running, Sound, Sends, Knows, UpdatePCs,
      CreatePCs

LEMMA SaveEventKeepsIInv ==
  ASSUME IInv, NEW d \in Devices, SaveEvent(d)
  PROVE  IInv'
<1> USE DEF serverUnchanged, serverVars, storeVars, memVars
<1>0. PICK e \in SaveEvents(d) :
        \/ SaveOffline(d, e) \/ SaveCoalesced(d, e) \/ SaveNoFile(d, e)
        \/ SaveUnchanged(d, e) \/ SaveStart(d, e)
  BY DEF SaveEvent
<1>1. /\ due' \in [Devices ->
                     SUBSET {"change", "immediate", "create", "delete"}]
      /\ queued' \subseteq Devices /\ pendingSyncs' \subseteq Devices
  <2>1. due \in [Devices ->
                   SUBSET {"change", "immediate", "create", "delete"}]
    BY DEF IInv, TypeOK
  <2>2. Fired(d, e) \in [Devices ->
                           SUBSET {"change", "immediate", "create", "delete"}]
    BY <2>1 DEF Fired
  <2>3. [due EXCEPT ![d] = (@ \ {e}) \cup {"immediate"}]
          \in [Devices -> SUBSET {"change", "immediate", "create", "delete"}]
    BY <2>1
  <2> QED
    BY <1>0, <2>2, <2>3
    DEF SaveOffline, SaveCoalesced, SaveNoFile, SaveUnchanged, SaveStart,
        IInv, TypeOK
<1>2. CASE SaveOffline(d, e) \/ SaveCoalesced(d, e) \/ SaveNoFile(d, e)
           \/ SaveUnchanged(d, e)
  <2>1. UNCHANGED <<server, held, abandoned, file, meta, ignored, activeSyncs,
                    consecutive404s, replay, online, flow, used>>
    BY <1>2 DEF SaveOffline, SaveCoalesced, SaveNoFile, SaveUnchanged
  <2>2. Typed'
    BY <1>1, <2>1, TypedFromIInv DEF Typed
  <2> QED
    BY <2>1, <2>2, StoreStepKeepsIInv
<1>3. CASE SaveStart(d, e)
  <2>1. /\ flow[d]["save"].pc \in {"idle", "loop"}
        /\ d \notin activeSyncs /\ Lock(d)
        /\ UNCHANGED <<server, held, abandoned, file, meta, queued, ignored,
                       pendingSyncs, consecutive404s, replay, online, used>>
    BY <1>3 DEF SaveStart, CanStart, At
  <2>2. Typed'
    BY <1>1, <2>1, TypedFromIInv DEF Typed, Lock
  <2>3. "save" \in AllHandlers /\ "save" \in Syncing
    BY DEF AllHandlers, Syncing
  <2>4. CASE meta[d] = None
    BY <1>3, <2>1, <2>2, <2>3, <2>4, InitFlow, StartKeepsIInv
    DEF SaveStart, StartInit
  <2>5. CASE meta[d] # None
    <3>1. file[d] # None /\ Become(d, "save", Upload(d))
      BY <1>3, <2>5 DEF SaveStart, Readable
    <3> QED
      BY <2>1, <2>2, <2>3, <3>1, UploadFlow, StartKeepsIInv
  <2> QED
    BY <2>4, <2>5
<1> QED
  BY <1>0, <1>2, <1>3

LEMMA WatcherStepKeepsIInv ==
  ASSUME IInv, NEW d \in Devices, CreateEvent(d) \/ DeleteEvent(d)
  PROVE  IInv'
<1> USE DEF serverUnchanged, serverVars, storeVars, memVars
<1>1. UNCHANGED <<server, held, abandoned, file, meta, queued, ignored,
                  activeSyncs, pendingSyncs, consecutive404s, replay, online,
                  used>>
  BY DEF CreateEvent, DeleteEvent
<1>2. Typed'
  <2>1. due' \in [Devices ->
                    SUBSET {"change", "immediate", "create", "delete"}]
    BY DEF CreateEvent, DeleteEvent, Fired, IInv, TypeOK
  <2> QED
    BY <1>1, <2>1, TypedFromIInv DEF Typed
<1>3. /\ "create" \in AllHandlers /\ "create" \notin Syncing
      /\ "delete" \in AllHandlers /\ "delete" \notin Syncing
  BY DEF AllHandlers, Syncing, Unlocked
<1>4. CASE CreateEvent(d)
  <2>1. /\ flow[d]["create"].pc \in {"idle", "loop"}
        /\ StartInit(d, "create")
    BY <1>4 DEF CreateEvent, CanStart, At
  <2> QED
    BY <1>1, <1>2, <1>3, <2>1, InitFlow, StartKeepsIInv DEF StartInit
<1>5. CASE DeleteEvent(d) /\ flow' # flow
  <2> DEFINE f == [Idle EXCEPT !.pc = "del"]
  <2>1. /\ flow[d]["delete"].pc \in {"idle", "loop"}
        /\ Become(d, "delete", f)
    BY <1>5 DEF DeleteEvent, CanStart, At
  <2>2. f \in Flow /\ Running(f) /\ Sound(f, "delete", held)
    BY DEF Idle, Flow, PCs, Running, Sound, Sends, Knows, UpdatePCs, CreatePCs
  <2> QED
    BY <1>1, <1>2, <1>3, <2>1, <2>2, StartKeepsIInv
<1>6. CASE flow' = flow
  BY <1>1, <1>2, <1>6, StoreStepKeepsIInv
<1> QED
  BY <1>4, <1>5, <1>6

LEMMA GoneStepKeepsIInv ==
  ASSUME IInv, NEW d \in Devices, Save404(d) \/ Push404(d)
  PROVE  IInv'
<1> USE DEF serverUnchanged, serverVars
<1>0. /\ "save" \in AllHandlers /\ "save" \in Syncing
      /\ "push" \in AllHandlers
  BY DEF AllHandlers, Syncing
<1>1. CASE Push404(d)
  <2>1. Running(flow[d]["push"]) /\ End(d, "push")
    BY <1>1 DEF Push404, At, Running
  <2> QED
    BY <1>0, <2>1, EndKeepsIInv
<1>2. CASE Save404(d)
  <2>1. Running(flow[d]["save"])
    BY <1>2 DEF Save404, At, Running
  <2>2. UNCHANGED <<server, held, abandoned, file, queued, ignored, online,
                    used>>
    BY <1>2 DEF Save404
  <2>3. /\ meta' \in [Devices -> Contents \cup {None}]
        /\ \A e \in Devices : meta'[e] \in held \cup {None}
    BY <1>2 DEF Save404, IInv, TypeOK, SyncedHashWasHeld
  <2>4. consecutive404s' \in [Devices -> Nat]
    <3>1. consecutive404s \in [Devices -> Nat]
      BY DEF IInv, TypeOK
    <3>2. \E n \in {0, consecutive404s[d] + 1} :
            consecutive404s' = [consecutive404s EXCEPT ![d] = n]
      BY <1>2 DEF Save404
    <3> QED
      BY <3>1, <3>2
  <2>5. /\ abandoned' \subseteq Abandoned /\ used' \in UsedType
        /\ queued' \subseteq Devices /\ ignored' \subseteq Devices
    BY <2>2 DEF IInv, TypeOK, UsedType
  <2>6. CASE Release(d, "save", TRUE)
    BY <1>0, <2>1, <2>2, <2>3, <2>4, <2>5, <2>6, ReleaseKeepsIInv
  <2>7. CASE /\ StartInit(d, "save")
             /\ UNCHANGED <<due, activeSyncs, pendingSyncs, replay>>
    <3> DEFINE f == [Idle EXCEPT !.pc = "init", !.inInit = TRUE]
    <3>1. f \in Flow /\ Running(f) /\ Sound(f, "save", held)
      BY InitFlow
    <3>2. Become(d, "save", f)
      BY <2>7 DEF StartInit
    <3> HIDE DEF f
    <3>3. TypeOK'
      BY <1>0, <2>2, <2>3, <2>4, <2>7, <3>1, <3>2, BecomeReplaces
      DEF IInv, TypeOK, AllHandlers
    <3>4. FlowsSound'
      BY <1>0, <2>2, <3>1, <3>2, SoundStep
    <3>5. OneSyncAtATime'
      BY <1>0, <2>1, <2>7, <3>1, <3>2, LockKept
    <3> QED
      BY <2>2, <2>3, <3>3, <3>4, <3>5 DEF IInv, RowHeld, SyncedHashWasHeld
  <2> QED
    BY <1>2, <2>6, <2>7 DEF Save404
<1> QED
  BY <1>1, <1>2

LEMMA PollStepKeepsIInv ==
  ASSUME IInv, NEW d \in Devices,
         PollStart(d) \/ PollVisit(d) \/ PollMissing(d) \/ PollFetched(d)
  PROVE  IInv'
<1> DEFINE f == flow[d]["poll"]
<1> USE DEF serverUnchanged, serverVars, storeVars, memVars
<1>0. "poll" \in AllHandlers /\ "poll" \in Syncing
  BY DEF AllHandlers, Syncing
<1>1. f \in Flow /\ Sound(f, "poll", held)
  BY <1>0, FlowFacts
<1>2. CASE PollStart(d)
  <2> DEFINE g == [f EXCEPT !.pc = "loop"]
  <2>1. f.pc = "idle" /\ Goto(d, "poll", "loop") /\ "loop" \in PCs
    BY <1>2 DEF PollStart, CanStart, At, Await, PCs
  <2>2. g \in Flow /\ Become(d, "poll", g)
    BY <1>0, <2>1, GotoBecomes DEF IInv
  <2>3. Sound(g, "poll", held) /\ (Running(g) <=> Running(f))
    BY <1>1, <2>1 DEF Flow, Running, Sound, Sends, Knows, UpdatePCs, CreatePCs
  <2>4. serverUnchanged /\ clientUnchanged /\ used' \in UsedType
    BY <1>2, UsedKept DEF PollStart, Await
  <2> QED
    BY <1>0, <2>2, <2>3, <2>4, AwaitKeepsIInv
<1>3. CASE PollVisit(d)
  <2>1. /\ f.pc = "loop"
        /\ UNCHANGED <<server, held, abandoned, file, due, meta, queued,
                       ignored, pendingSyncs, consecutive404s, replay, online,
                       used>>
    BY <1>3 DEF PollVisit, At
  <2>2. Typed'
    BY <1>3, <2>1, TypedFromIInv DEF PollVisit, Lock, Typed
  <2>3. CASE d \in activeSyncs
    <3>1. Become(d, "poll", Idle) /\ UNCHANGED activeSyncs
      BY <1>3, <2>3 DEF PollVisit
    <3>2. Running(Idle) <=> Running(f)
      BY <2>1 DEF Running, Idle
    <3>3. OneSyncAtATime'
      BY <1>0, <3>1, <3>2, IdleIsFlow, LockKept
    <3> QED
      BY <1>0, <2>1, <2>2, <3>1, <3>3, IdleIsFlow, IdleIsSound, StepKeepsIInv
  <2>4. CASE d \notin activeSyncs
    <3> DEFINE g == [f EXCEPT !.pc = "fetch"]
    <3>1. Goto(d, "poll", "fetch") /\ Lock(d) /\ "fetch" \in PCs
      BY <1>3, <2>4 DEF PollVisit, PCs, GetPCs
    <3>2. g \in Flow /\ Become(d, "poll", g)
      BY <1>0, <3>1, GotoBecomes DEF IInv
    <3>3. Sound(g, "poll", held) /\ Running(g)
      BY <1>1 DEF Flow, Running, Sound, Sends, Knows, UpdatePCs, CreatePCs
    <3> HIDE DEF g
    <3> QED
      BY <1>0, <2>1, <2>2, <2>4, <3>1, <3>2, <3>3, StartKeepsIInv
  <2> QED
    BY <2>3, <2>4
<1>4. ASSUME Running(f), StartInit(d, "poll"),
             serverUnchanged, clientUnchanged, UNCHANGED used
      PROVE  IInv'
  BY <1>0, <1>4, InitFlow, UsedKept, AwaitKeepsIInv DEF StartInit
<1>5. CASE PollMissing(d)
  <2>1. Running(f)
    BY <1>5 DEF PollMissing, At, Running
  <2> QED
    BY <1>4, <1>5, <2>1 DEF PollMissing
<1>6. CASE PollFetched(d)
  <2>1. f.pc = "fetched" /\ Running(f) /\ f.theirs \in held
    BY <1>1, <1>6 DEF PollFetched, At, Running, Sound, Knows
  <2>2. CASE End(d, "poll")
    BY <1>0, <2>1, <2>2, EndKeepsIInv
  <2>3. CASE StartInit(d, "poll") /\ ~End(d, "poll") /\ file[d] = None
    BY <1>4, <1>6, <2>1, <2>3 DEF PollFetched
  <2>4. CASE file[d] # None /\ ~End(d, "poll")
    <3>1. PICK p \in {"write", "conflict"} :
            /\ Become(d, "poll", [f EXCEPT !.pc = p, !.mine = file[d]])
            /\ serverUnchanged /\ clientUnchanged /\ UNCHANGED used
      BY <1>6, <2>4 DEF PollFetched
    <3> DEFINE g == [f EXCEPT !.pc = p, !.mine = file[d]]
    <3>2. file[d] \in Contents
      BY <2>4 DEF IInv, TypeOK
    <3>3. g \in Flow /\ Running(g) /\ Sound(g, "poll", held)
      BY <1>1, <2>1, <3>2
      DEF Flow, PCs, PromptPCs, Running, Sound, Sends, Knows, UpdatePCs,
          CreatePCs
    <3> QED
      BY <1>0, <2>1, <3>1, <3>3, UsedKept, AwaitKeepsIInv
  <2> QED
    BY <1>6, <2>2, <2>3, <2>4 DEF PollFetched
<1> QED
  BY <1>2, <1>3, <1>5, <1>6

LEMMA PushStepKeepsIInv ==
  ASSUME IInv, NEW d \in Devices,
         PushCommand(d) \/ PushOffline(d) \/ ReplayPush(d) \/ ReplayEnd(d)
  PROVE  IInv'
<1> USE DEF serverUnchanged, serverVars, storeVars, memVars
<1>0. "push" \in AllHandlers /\ "push" \in Syncing
  BY DEF AllHandlers, Syncing
<1>1. replay' \in [Devices -> {"idle", "due", "running", "succeeded",
                               "failed"}]
  <2>1. replay \in [Devices -> {"idle", "due", "running", "succeeded",
                                "failed"}]
    BY DEF IInv, TypeOK
  <2>2. \/ replay' = replay
        \/ \E s \in {"idle", "running", "succeeded"} :
             replay' = [replay EXCEPT ![d] = s]
    BY DEF PushCommand, PushOffline, ReplayPush, ReplayEnd
  <2> QED
    BY <2>1, <2>2
<1>2. CASE PushStart(d)
  <2>1. /\ flow[d]["push"].pc \in {"idle", "loop"}
        /\ file[d] # None /\ Become(d, "push", Upload(d))
        /\ d \notin activeSyncs /\ Lock(d)
        /\ UNCHANGED <<server, held, abandoned, file, due, meta, queued,
                       ignored, pendingSyncs, consecutive404s, online, used>>
    BY <1>2 DEF PushStart, CanStart, At, Readable
  <2>2. Typed'
    BY <1>1, <2>1, TypedFromIInv DEF Typed, Lock
  <2> QED
    BY <1>0, <2>1, <2>2, UploadFlow, StartKeepsIInv
<1>3. CASE ~PushStart(d)
  <2>1. UNCHANGED <<server, held, abandoned, file, due, meta, ignored,
                    activeSyncs, pendingSyncs, consecutive404s, online, flow,
                    used>>
    BY <1>3 DEF PushCommand, PushOffline, ReplayPush, ReplayEnd
  <2>2. queued' \subseteq Devices
    BY <1>3 DEF PushCommand, PushOffline, ReplayPush, ReplayEnd, IInv, TypeOK
  <2>3. Typed'
    BY <1>1, <2>1, <2>2, TypedFromIInv DEF Typed
  <2> QED
    BY <2>1, <2>3, StoreStepKeepsIInv
<1> QED
  BY <1>2, <1>3

LEMMA DeviceStepKeepsIInv ==
  ASSUME IInv, NEW d \in Devices, DeviceStep(d)
  PROVE  IInv'
BY SaveEventKeepsIInv, WatcherStepKeepsIInv, GoneStepKeepsIInv,
   PollStepKeepsIInv, PushStepKeepsIInv
DEF DeviceStep

-----------------------------------------------------------------------------
(***************************************************************************)
(* The environment's steps.                                                *)
(***************************************************************************)
LEMMA UserKeepsIInv ==
  ASSUME IInv, NEW d \in Devices, User(d) \/ GoOnline(d)
  PROVE  IInv'
<1> USE DEF serverUnchanged, serverVars, storeVars, memVars
<1>1. ASSUME NEW c \in Contents, Edit(d, c)
      PROVE  IInv'
  <2>1. UNCHANGED <<server, held, abandoned, meta, queued, ignored,
                    activeSyncs, pendingSyncs, consecutive404s, replay,
                    online, flow>>
    BY <1>1 DEF Edit
  <2>2. /\ file' \in [Devices -> Contents \cup {None}]
        /\ due' \in [Devices ->
                       SUBSET {"change", "immediate", "create", "delete"}]
    BY <1>1 DEF Edit, WriteFile, IInv, TypeOK
  <2>3. used' \in UsedType
    BY <1>1, SpendType DEF Edit, IInv
  <2>4. Typed'
    BY <2>1, <2>2, <2>3, TypedFromIInv DEF Typed
  <2> QED
    BY <2>1, <2>4, StoreStepKeepsIInv
<1>2. CASE RemoveFile(d)
  <2>1. UNCHANGED <<server, held, abandoned, meta, queued, ignored,
                    activeSyncs, pendingSyncs, consecutive404s, replay,
                    online, flow>>
    BY <1>2 DEF RemoveFile
  <2>2. /\ file' \in [Devices -> Contents \cup {None}]
        /\ due' \in [Devices ->
                       SUBSET {"change", "immediate", "create", "delete"}]
    BY <1>2 DEF RemoveFile, IInv, TypeOK
  <2>3. used' \in UsedType
    BY <1>2, SpendType DEF RemoveFile, IInv
  <2>4. Typed'
    BY <2>1, <2>2, <2>3, TypedFromIInv DEF Typed
  <2> QED
    BY <2>1, <2>4, StoreStepKeepsIInv
<1>3. CASE GoOffline(d)
  <2>1. used' \in UsedType
    BY <1>3, SpendType DEF GoOffline, IInv
  <2>2. Typed'
    BY <1>3, <2>1, TypedFromIInv DEF GoOffline, Typed
  <2> QED
    BY <1>3, <2>2, StoreStepKeepsIInv DEF GoOffline
<1>4. CASE GoOnline(d)
  <2>1. replay' \in [Devices -> {"idle", "due", "running", "succeeded",
                                 "failed"}]
    <3>1. \E s \in {"due", replay[d]} : replay' = [replay EXCEPT ![d] = s]
      BY <1>4 DEF GoOnline
    <3> QED
      BY <3>1 DEF IInv, TypeOK
  <2>2. Typed'
    BY <1>4, <2>1, TypedFromIInv DEF GoOnline, Typed
  <2> QED
    BY <1>4, <2>2, StoreStepKeepsIInv DEF GoOnline
<1>5. CASE Reload(d)
  <2> DEFINE boot == [Idle EXCEPT !.pc = "init", !.inInit = TRUE]
             fresh == [h \in AllHandlers |-> IF h = "boot" THEN boot ELSE Idle]
  <2>1. boot \in Flow /\ (\A h, H : Sound(boot, h, H))
    BY InitFlow
  <2>2. flow' = [flow EXCEPT ![d] = fresh]
    BY <1>5 DEF Reload, AllHandlers
  <2>3. fresh \in [AllHandlers -> Flow]
        /\ \A h \in AllHandlers : \A H : Sound(fresh[h], h, H)
    BY <2>1, IdleIsFlow, IdleIsSound
  <2>4. \A h \in Syncing : fresh[h] = Idle
    BY DEF AllHandlers, Syncing
  <2> HIDE DEF fresh
  <2>5. /\ flow' \in [Devices -> [AllHandlers -> Flow]]
        /\ flow'[d] = fresh
        /\ \A e \in Devices : e # d => flow'[e] = flow[e]
    BY <2>2, <2>3 DEF IInv, TypeOK, AllHandlers
  <2>6. UNCHANGED <<server, held, file, meta, queued, ignored>>
    BY <1>5 DEF Reload
  <2>7. abandoned' \subseteq Abandoned
    <3>1. \A h \in AllHandlers : InFlight(d, h) \subseteq Abandoned
      BY InFlightType
    <3> QED
      BY <1>5, <3>1 DEF Reload, AllHandlers, IInv, TypeOK
  <2>8. /\ due' \in [Devices ->
                       SUBSET {"change", "immediate", "create", "delete"}]
        /\ activeSyncs' \subseteq Devices /\ pendingSyncs' \subseteq Devices
        /\ consecutive404s' \in [Devices -> Nat]
        /\ replay' \in [Devices -> {"idle", "due", "running", "succeeded",
                                    "failed"}]
        /\ online' \subseteq Devices
    BY <1>5 DEF Reload, IInv, TypeOK
  <2>9. used' \in UsedType
    BY <1>5, SpendType DEF Reload, IInv
  <2>10. TypeOK'
    BY <2>5, <2>6, <2>7, <2>8, <2>9 DEF IInv, TypeOK, UsedType, AllHandlers
  <2>11. FlowsSound'
    BY <2>3, <2>5, <2>6 DEF IInv, FlowsSound
  <2>12. OneSyncAtATime'
    <3>1. \A h \in Syncing : ~Locked(d, h)'
      BY <2>4, <2>5 DEF Locked, Idle
    <3>2. \A e \in Devices, h \in Syncing :
            e # d => (Locked(e, h)' <=> Locked(e, h))
      BY <2>5 DEF Locked
    <3>3. activeSyncs' = activeSyncs \ {d}
      BY <1>5 DEF Reload
    <3> QED
      BY <3>1, <3>2, <3>3 DEF IInv, OneSyncAtATime
  <2> QED
    BY <2>6, <2>10, <2>11, <2>12 DEF IInv, RowHeld, SyncedHashWasHeld
<1> QED
  BY <1>1, <1>2, <1>3, <1>4, <1>5 DEF User

-----------------------------------------------------------------------------
(***************************************************************************)
(* Theorems.                                                               *)
(***************************************************************************)
(* The invariant holds at first ...                                        *)
LEMMA InitIInv == Init => IInv
<1> SUFFICES ASSUME Init PROVE IInv
  OBVIOUS
<1> USE DEF Init
<1>1. TypeOK
  BY InitialRowAssumption, IdleIsFlow DEF TypeOK
<1>2. FlowsSound
  BY IdleIsSound DEF FlowsSound, AllHandlers
<1>3. RowHeld /\ SyncedHashWasHeld
  BY DEF RowHeld, SyncedHashWasHeld
<1>4. OneSyncAtATime
  BY IdleIsFlow DEF OneSyncAtATime, Locked
<1> QED
  BY <1>1, <1>2, <1>3, <1>4 DEF IInv

(* ... and every step keeps it.                                            *)
LEMMA NextIInv == IInv /\ [Next]_vars => IInv'
<1> SUFFICES ASSUME IInv, [Next]_vars PROVE IInv'
  OBVIOUS
<1>0. Handlers \subseteq AllHandlers
  BY ConstantsAssumption DEF AllHandlers
<1>1. CASE UNCHANGED vars
  <2>1. UNCHANGED <<server, held, meta, activeSyncs, flow>> /\ Typed'
    BY <1>1, TypedFromIInv
    DEF vars, serverVars, storeVars, memVars, Typed
  <2> QED
    BY <2>1, StoreStepKeepsIInv
<1>2. ASSUME NEW d \in Devices, User(d) \/ GoOnline(d)
      PROVE  IInv'
  BY <1>2, UserKeepsIInv
<1>3. ASSUME NEW d \in Devices, DeviceStep(d) \/ BootStep(d)
      PROVE  IInv'
  BY <1>3, DeviceStepKeepsIInv, BootStepKeepsIInv
<1>4. ASSUME NEW d \in Devices, NEW h \in Handlers,
             HandlerStep(d, h) \/ Fault(d, h)
      PROVE  IInv'
  BY <1>0, <1>4, ServerStepKeepsIInv, SyncStepKeepsIInv, InitStepKeepsIInv,
     FaultKeepsIInv
  DEF HandlerStep
<1>5. ASSUME NEW r \in abandoned, FinishAbandoned(r) \/ DropAbandoned(r)
      PROVE  IInv'
  BY <1>5, AbandonedStepKeepsIInv
<1> QED
  BY <1>1, <1>2, <1>3, <1>4, <1>5 DEF Next

THEOREM Invariance == Spec => []IInv
  BY InitIInv, NextIInv, PTL DEF Spec

(* Every variable keeps the shape its declaration states.                  *)
THEOREM TypeCorrect == Spec => []TypeOK
<1>1. IInv => TypeOK
  BY DEF IInv
<1> QED
  BY <1>1, Invariance, PTL

(* A save, a poll and a push of one env never overlap on one device, and   *)
(* activeSyncs holds the env exactly while one of them runs.               *)
THEOREM MutualExclusion == Spec => []OneSyncAtATime
<1>1. IInv => OneSyncAtATime
  BY DEF IInv
<1> QED
  BY <1>1, Invariance, PTL

(* Whatever is lost, retried, delayed, reloaded or overtaken, a device     *)
(* only ever records as synced a content that the API's row has held.      *)
THEOREM SyncedHashIsReal == Spec => []SyncedHashWasHeld
<1>1. IInv => SyncedHashWasHeld
  BY DEF IInv
<1> QED
  BY <1>1, Invariance, PTL

-----------------------------------------------------------------------------
(* The row changes only when the API serves a write.                       *)
LEMMA OnlyTheApiWrites ==
  ASSUME Next, server' # server
  PROVE  \/ \E d \in Devices, h \in Handlers :
              ApplyUpdate(d, h) \/ ServeCreate(d, h) \/ ServeDelete(d, h)
         \/ \E r \in abandoned : FinishAbandoned(r)
<1> USE DEF serverUnchanged, serverVars
<1>1. ASSUME NEW d \in Devices, User(d) \/ GoOnline(d) PROVE FALSE
  BY <1>1 DEF User, Edit, RemoveFile, GoOffline, GoOnline, Reload
<1>3. ASSUME NEW d \in Devices, NEW h, NEW l, NEW r, Untracked(d, h, l, r)
      PROVE  FALSE
  BY <1>3 DEF Untracked, Await, End, PromptInit
<1>4. ASSUME NEW d \in Devices, BootStep(d) PROVE FALSE
  BY <1>3, <1>4
  DEF BootStep, Reconcile, ZombieReinitialize, DeclineReinit,
      ZombieDeleteLocal, ZombieSkip, Await, End, EndSynced
<1>5. ASSUME NEW d \in Devices, DeviceStep(d) PROVE FALSE
  BY <1>5
  DEF DeviceStep, SaveEvent, SaveOffline, SaveCoalesced, SaveNoFile,
      SaveUnchanged, SaveStart, CreateEvent, DeleteEvent, Save404, Push404,
      PollStart, PollVisit, PollMissing, PollFetched, PushCommand,
      PushOffline, ReplayPush, ReplayEnd, PushStart, Await, End
<1>6. ASSUME NEW d \in Devices, NEW h \in Handlers,
             SyncStep(d, h) \/ Fault(d, h)
      PROVE  FALSE
  BY <1>6
  DEF SyncStep, UploadDone, UploadRefused, UseLocal, UseRemote, Dismiss,
      Override, Pulled, ApplyRemote, Fault, RetryWrite, GiveUpWrite,
      FailRequest, Await, End
<1>7. ASSUME NEW d \in Devices, NEW h \in Handlers, InitStep(d, h)
      PROVE  FALSE
  BY <1>3, <1>7
  DEF InitStep, InitChecked, Listed, AcceptInit, DeclineInit, AcceptRestore,
      DeclineRestore, FirstUseLocal, FirstUseRemote, FirstCancel, Created,
      CreateRefused, Restored, FirstGot, FirstUpdateFails, SaveMeta, Failed,
      Await, End, EndSynced, Overwrite
<1>8. ASSUME NEW d \in Devices, NEW h \in Handlers, ServerStep(d, h)
      PROVE  ApplyUpdate(d, h) \/ ServeCreate(d, h) \/ ServeDelete(d, h)
  BY <1>8 DEF ServerStep, ServeGet, ServeList, CheckUpdate
<1>9. ASSUME NEW r \in abandoned, DropAbandoned(r) PROVE FALSE
  BY <1>9 DEF DropAbandoned
<1> QED
  BY <1>1, <1>4, <1>5, <1>6, <1>7, <1>8, <1>9 DEF Next, HandlerStep

(* A deleted row comes back only through a POST, never through an update,  *)
(* however late: the UPDATE's result is checked (env.service.ts:185).      *)
THEOREM DeletedStaysDeleted == Spec => NoResurrection
<1> DEFINE Back == server = None /\ server' # None =>
       \/ \E d \in Devices, h \in Handlers :
            At(d, h, "post") /\ flow'[d][h].pc = "created"
       \/ \E r \in abandoned : r.base = None /\ r \notin abandoned'
<1>1. ASSUME IInv, [Next]_vars PROVE Back
  <2> SUFFICES ASSUME server = None, server' # None PROVE Back
    OBVIOUS
  <2>1. Next
    BY <1>1 DEF vars, serverVars
  <2>2. \/ \E d \in Devices, h \in Handlers :
             ApplyUpdate(d, h) \/ ServeCreate(d, h) \/ ServeDelete(d, h)
        \/ \E r \in abandoned : FinishAbandoned(r)
    BY <2>1, OnlyTheApiWrites
  <2>3. ASSUME NEW d \in Devices, NEW h \in Handlers,
               ApplyUpdate(d, h) \/ ServeDelete(d, h)
        PROVE  FALSE
    BY <2>3 DEF ApplyUpdate, ServeDelete
  <2>4. ASSUME NEW d \in Devices, NEW h \in Handlers, ServeCreate(d, h)
        PROVE  At(d, h, "post") /\ flow'[d][h].pc = "created"
    <3>1. h \in AllHandlers /\ "created" \in PCs
      BY ConstantsAssumption DEF AllHandlers, PCs, CreatePCs
    <3>2. At(d, h, "post") /\ Goto(d, h, "created")
      BY <2>4 DEF ServeCreate
    <3>3. flow'[d][h] = [flow[d][h] EXCEPT !.pc = "created"]
      BY <1>1, <3>1, <3>2, GotoBecomes, BecomeReplaces DEF IInv
    <3> QED
      BY <1>1, <3>1, <3>2, <3>3, FlowFacts DEF Flow
  <2>5. ASSUME NEW r \in abandoned, FinishAbandoned(r)
        PROVE  r.base = None /\ r \notin abandoned'
    BY <2>5 DEF FinishAbandoned
  <2> QED
    BY <2>2, <2>3, <2>4, <2>5
<1>2. IInv /\ [Next]_vars => [Back]_vars
  BY <1>1
<1>3. Spec => [][Back]_vars
  BY <1>2, Invariance, PTL DEF Spec
<1> QED
  BY <1>3 DEF NoResurrection
=============================================================================
