-------------------------- MODULE EnvAgreementProofs --------------------------
(***************************************************************************)
(* Theorems about what a device's handlers, its file and the row have to   *)
(* do with each other.  Lemma StepShape brings every step into one of a    *)
(* few shapes, and the invariants further down look only at those:         *)
(*   - HandlersInPlace: which handler can be where;                        *)
(*   - Agreement: a lone device whose requests are answered is in step     *)
(*     with its row;                                                       *)
(*   - Undisturbed: what a poll overwrites, on devices that stay online;   *)
(*   - Stranded: which syncs leave a coalesced save behind.                *)
(***************************************************************************)
EXTENDS EnvSyncProofs

(***************************************************************************)
(* Which handler can be where: p is its position, i says whether it runs   *)
(* inside EnvInitService.                                                  *)
(***************************************************************************)
Uploading == {"save", "push"}
InitPCs == CreatePCs \cup
           {"init", "list", "listed", "askInit", "askRestore", "askFirst",
            "askZombie", "askReinit", "first", "firstGot", "restore",
            "restored"}

Placed(p, i, h) ==
  /\ p \in InitPCs => i
  /\ p \in UpdatePCs /\ ~i => h \in Uploading
  /\ p \in {"ask412", "pull", "pulled"} => h \in Uploading
  /\ p \in {"conflict", "override", "write"} => h \in Syncing
  /\ h = "delete" => p \in {"idle", "del", "failed"}
  /\ p # "idle" => h \in Handlers

PlacedFlow(f, h) == Placed(f.pc, f.inInit, h)

HandlersInPlace ==
  \A d \in Devices, h \in AllHandlers : PlacedFlow(flow[d][h], h)

-----------------------------------------------------------------------------
(***************************************************************************)
(* The shapes.  f is the handler's state before the step, g after it.      *)
(***************************************************************************)
Acknowledged == {"acked", "created"}

(* Where a handler goes by some content as the row's: it has just been     *)
(* told what the row holds, or goes on with what it was told before.       *)
Told == Knows \cup {"checked", "listed"}

Informed(f, g) ==
  g.pc \in Told =>
    \/ g.theirs = server
    \/ f.pc \in Knows /\ g.theirs = f.theirs

(* A poll comes to ask about, or to write, the remote content when it has  *)
(* just read a local one, and keeps that while it asks.                    *)
Weighing == {"conflict", "write"}

Weighed(d, f, g) ==
  g.pc \in Weighing =>
    \/ f.pc \in Weighing /\ g.mine = f.mine
    \/ g.mine = file[d] /\ file[d] # None /\ UNCHANGED file

(* The startup check takes the row of a tracked file to be gone.           *)
Zombie(f) == f.pc = "listed" /\ f.theirs = None

QuietMove(d, h) ==
  \E g \in Flow :
    /\ Become(d, h, g)
    /\ UNCHANGED <<server, meta, abandoned>>
    /\ PlacedFlow(flow[d][h], h) /\ h = "poll" => Weighed(d, flow[d][h], g)
    /\ PlacedFlow(flow[d][h], h) => PlacedFlow(g, h)
    /\ flow[d][h].pc \notin Acknowledged /\ g.pc \notin Acknowledged
    /\ Informed(flow[d][h], g)
    /\ g.pc = "askZombie" => Zombie(flow[d][h])

(* A handler records a content as synced, or forgets the env.              *)
RecordMove(d, h) ==
  \E g \in Flow, c \in Contents \cup {None} :
    /\ Become(d, h, g)
    /\ UNCHANGED <<server, abandoned>>
    /\ meta' = [meta EXCEPT ![d] = c]
    /\ PlacedFlow(flow[d][h], h) => PlacedFlow(g, h)
    /\ g.pc \in {"idle", "init"}
    /\ \/ c = None
       \/ c = flow[d][h].mine /\ flow[d][h].pc \in Acknowledged
       \/ c = flow[d][h].theirs /\ flow[d][h].pc \in Knows

(* The row is written for a handler, or removed.                           *)
WriteMove(d, h) ==
  /\ \/ At(d, h, "checked") /\ server # None /\ Goto(d, h, "acked")
     \/ At(d, h, "post") /\ server = None /\ Goto(d, h, "created")
  /\ server' = flow[d][h].mine
  /\ UNCHANGED <<meta, abandoned>>

RemoveMove(d, h) ==
  /\ At(d, h, "del") /\ Become(d, h, Idle)
  /\ server' = None
  /\ UNCHANGED <<meta, abandoned>>

HandlerMove(d, h) ==
  \/ QuietMove(d, h) \/ RecordMove(d, h)
  \/ WriteMove(d, h) \/ RemoveMove(d, h)

(* No handler moves.                                                       *)
Still == UNCHANGED <<flow, server, meta, abandoned>>

-----------------------------------------------------------------------------
(***************************************************************************)
(* Lemmas: how a step comes to have a shape.                               *)
(***************************************************************************)
LEMMA GotoFields ==
  ASSUME IInv, NEW d \in Devices, NEW h \in AllHandlers, NEW p \in PCs,
         Goto(d, h, p)
  PROVE  \E g \in Flow :
           /\ Become(d, h, g)
           /\ g.pc = p /\ g.mine = flow[d][h].mine
           /\ g.theirs = flow[d][h].theirs /\ g.inInit = flow[d][h].inInit
<1> DEFINE g == [flow[d][h] EXCEPT !.pc = p]
<1>1. g \in Flow /\ Become(d, h, g)
  BY GotoBecomes DEF IInv
<1>2. /\ g.pc = p /\ g.mine = flow[d][h].mine
      /\ g.theirs = flow[d][h].theirs /\ g.inInit = flow[d][h].inInit
  BY FlowFacts DEF Flow
<1> QED
  BY <1>1, <1>2

LEMMA GotoIsQuiet ==
  ASSUME IInv, NEW d \in Devices, NEW h \in AllHandlers, NEW p \in PCs,
         Goto(d, h, p), UNCHANGED <<server, meta, abandoned>>,
         flow[d][h].pc \notin Acknowledged, p \notin Acknowledged,
         p \in Told =>
           flow[d][h].pc \in Knows \/ flow[d][h].theirs = server,
         p \in Weighing /\ h = "poll" /\ PlacedFlow(flow[d][h], h) =>
           flow[d][h].pc = "conflict",
         p = "askZombie" => Zombie(flow[d][h]),
         PlacedFlow(flow[d][h], h) => Placed(p, flow[d][h].inInit, h)
  PROVE  QuietMove(d, h)
<1>1. PICK g \in Flow :
        /\ Become(d, h, g)
        /\ g.pc = p /\ g.mine = flow[d][h].mine
        /\ g.theirs = flow[d][h].theirs /\ g.inInit = flow[d][h].inInit
  BY GotoFields
<1>2. Informed(flow[d][h], g)
  BY <1>1 DEF Informed
<1>3. PlacedFlow(flow[d][h], h) => PlacedFlow(g, h)
  BY <1>1 DEF PlacedFlow
<1>4. PlacedFlow(flow[d][h], h) /\ h = "poll" => Weighed(d, flow[d][h], g)
  BY <1>1 DEF Weighed, Weighing
<1> QED
  BY <1>1, <1>2, <1>3, <1>4 DEF QuietMove

LEMMA IdleIsPlaced == \A h, i : Placed("idle", i, h)
  BY DEF Placed, InitPCs, CreatePCs, UpdatePCs

LEMMA IdleIsQuiet ==
  ASSUME IInv, NEW d \in Devices, NEW h \in AllHandlers,
         Become(d, h, Idle), UNCHANGED <<server, meta, abandoned>>,
         flow[d][h].pc \notin Acknowledged
  PROVE  QuietMove(d, h)
<1>1. Idle \in Flow /\ Idle.pc = "idle"
  BY IdleIsFlow
<1>2. PlacedFlow(Idle, h)
  BY <1>1, IdleIsPlaced DEF PlacedFlow
<1>3. /\ Informed(flow[d][h], Idle) /\ Idle.pc \notin Acknowledged
      /\ Weighed(d, flow[d][h], Idle)
  BY <1>1 DEF Informed, Knows, Told, Acknowledged, Weighed, Weighing
<1> QED
  BY <1>1, <1>2, <1>3 DEF QuietMove

LEMMA EndIsQuiet ==
  ASSUME IInv, NEW d \in Devices, NEW h \in AllHandlers, End(d, h),
         flow[d][h].pc \notin Acknowledged
  PROVE  QuietMove(d, h)
  BY IdleIsQuiet
  DEF End, Release, serverUnchanged, serverVars, storeVars

LEMMA AwaitIsQuiet ==
  ASSUME IInv, NEW d \in Devices, NEW h \in AllHandlers, NEW p \in PCs,
         Await(d, h, p),
         flow[d][h].pc \notin Acknowledged, p \notin Acknowledged,
         p \in Told => flow[d][h].pc \in Knows,
         p \in Weighing /\ h = "poll" /\ PlacedFlow(flow[d][h], h) =>
           flow[d][h].pc = "conflict",
         p # "askZombie",
         PlacedFlow(flow[d][h], h) => Placed(p, flow[d][h].inInit, h)
  PROVE  QuietMove(d, h)
  BY GotoIsQuiet
  DEF Await, serverUnchanged, serverVars, clientUnchanged, storeVars

(* The handler enters EnvInitService.                                      *)
Starting == [Idle EXCEPT !.pc = "init", !.inInit = TRUE]

LEMMA StartingFields ==
  /\ Starting \in Flow /\ Starting.pc = "init" /\ Starting.inInit = TRUE
  BY DEF Starting, Idle, Flow, PCs

LEMMA StartInitIsQuiet ==
  ASSUME IInv, NEW d \in Devices, NEW h \in AllHandlers \ {"delete"},
         StartInit(d, h), UNCHANGED <<server, meta, abandoned>>,
         flow[d][h].pc \notin Acknowledged,
         h \in Handlers \/ flow[d][h].pc # "idle"
  PROVE  QuietMove(d, h)
<1>1. Become(d, h, Starting)
  BY DEF StartInit, Starting
<1>2. PlacedFlow(flow[d][h], h) => PlacedFlow(Starting, h)
  BY StartingFields DEF PlacedFlow, Placed, InitPCs, UpdatePCs
<1>3. /\ Informed(flow[d][h], Starting) /\ Starting.pc \notin Acknowledged
      /\ Weighed(d, flow[d][h], Starting)
  BY StartingFields DEF Informed, Knows, Told, Acknowledged, Weighed, Weighing
<1> QED
  BY <1>1, <1>2, <1>3, StartingFields DEF QuietMove

(* The local content is read anew when the handler moves on.               *)
LEMMA RereadIsQuiet ==
  ASSUME IInv, NEW d \in Devices, NEW h \in AllHandlers, NEW p \in PCs,
         NEW m \in Contents \cup {None},
         Become(d, h, [flow[d][h] EXCEPT !.pc = p, !.mine = m]),
         UNCHANGED <<server, meta, abandoned>>,
         flow[d][h].pc \notin Acknowledged, p \notin Acknowledged,
         p \in Told => flow[d][h].pc \in Knows,
         p \in Weighing => m = file[d] /\ file[d] # None /\ UNCHANGED file,
         p # "askZombie",
         PlacedFlow(flow[d][h], h) => Placed(p, flow[d][h].inInit, h)
  PROVE  QuietMove(d, h)
<1> DEFINE g == [flow[d][h] EXCEPT !.pc = p, !.mine = m]
<1>1. /\ g \in Flow /\ g.pc = p /\ g.mine = m
      /\ g.theirs = flow[d][h].theirs /\ g.inInit = flow[d][h].inInit
  BY FlowFacts DEF Flow
<1>2. Informed(flow[d][h], g)
  BY <1>1 DEF Informed
<1>3. PlacedFlow(flow[d][h], h) => PlacedFlow(g, h)
  BY <1>1 DEF PlacedFlow
<1>4. Weighed(d, flow[d][h], g)
  BY <1>1 DEF Weighed
<1> QED
  BY <1>1, <1>2, <1>3, <1>4 DEF QuietMove

(* An answer brings what the row holds.                                    *)
LEMMA LearnIsQuiet ==
  ASSUME IInv, NEW d \in Devices, NEW h \in AllHandlers, NEW p \in PCs,
         NEW t \in Contents \cup {None},
         Become(d, h, [flow[d][h] EXCEPT !.pc = p, !.theirs = t]),
         UNCHANGED <<server, meta, abandoned>>,
         flow[d][h].pc \notin Acknowledged, p \notin Acknowledged,
         p \in Told => t = server,
         p \notin Weighing,
         p # "askZombie",
         PlacedFlow(flow[d][h], h) => Placed(p, flow[d][h].inInit, h)
  PROVE  QuietMove(d, h)
<1> DEFINE g == [flow[d][h] EXCEPT !.pc = p, !.theirs = t]
<1>1. /\ g \in Flow /\ g.pc = p
      /\ g.theirs = t /\ g.inInit = flow[d][h].inInit
  BY FlowFacts DEF Flow
<1>2. Informed(flow[d][h], g)
  BY <1>1 DEF Informed
<1>3. PlacedFlow(flow[d][h], h) => PlacedFlow(g, h)
  BY <1>1 DEF PlacedFlow
<1>4. Weighed(d, flow[d][h], g)
  BY <1>1 DEF Weighed
<1> QED
  BY <1>1, <1>2, <1>3, <1>4 DEF QuietMove

-----------------------------------------------------------------------------
(***************************************************************************)
(* The shapes of the actions.                                              *)
(***************************************************************************)
(* The positions named in a step.                                          *)
LEMMA Positions ==
  /\ {"fetched", "pulled", "restored", "firstGot", "missing", "failed",
      "listed", "gone", "refused", "checked", "acked", "created",
      "exists", "put", "post", "list", "askInit", "askRestore", "first",
      "askZombie", "askReinit", "askFirst", "restore", "meta", "loop",
      "fetch", "ask412", "override", "pull", "write", "conflict"}
       \subseteq PCs
  /\ GetPCs \subseteq PCs
  BY DEF PCs, GetPCs, UpdatePCs, CreatePCs, PromptPCs

LEMMA ServerStepShape ==
  ASSUME IInv, NEW d \in Devices, NEW h \in AllHandlers, ServerStep(d, h)
  PROVE  HandlerMove(d, h)
<1> DEFINE f == flow[d][h]
<1> USE DEF serverUnchanged, serverVars, clientUnchanged, storeVars
<1>0. f \in Flow
  BY FlowFacts
<1>1. CASE ServeGet(d, h)
  <2>1. f.pc \in GetPCs /\ f.pc \notin Acknowledged
    BY <1>1 DEF ServeGet, GetPCs, Acknowledged
  <2>2. CASE server # None
    <3> DEFINE p == GetReply[f.pc]
    <3>1. /\ p \in {"fetched", "pulled", "restored", "firstGot"}
          /\ p = "pulled" => f.pc = "pull"
          /\ p = "restored" => f.pc = "restore"
          /\ p = "firstGot" => f.pc = "first"
          /\ p = "fetched" => f.pc = "fetch"
      BY <2>1 DEF GetReply, GetPCs
    <3>2. [f EXCEPT !.pc = GetReply[@], !.theirs = server]
            = [f EXCEPT !.pc = p, !.theirs = server]
      BY <1>0 DEF Flow
    <3>3. Become(d, h, [f EXCEPT !.pc = p, !.theirs = server])
      BY <1>1, <2>2, <3>2 DEF ServeGet
    <3> HIDE DEF p
    <3>4. PlacedFlow(f, h) => Placed(p, f.inInit, h)
      BY <2>1, <3>1
      DEF PlacedFlow, Placed, InitPCs, UpdatePCs, CreatePCs, GetPCs
    <3>5. server \in Contents \cup {None} /\ p \in PCs /\ p \notin Acknowledged
      BY <3>1, Positions DEF IInv, TypeOK, Acknowledged
    <3>6. UNCHANGED <<server, meta, abandoned>>
      BY <1>1 DEF ServeGet
    <3>7. QuietMove(d, h)
      BY <2>1, <3>1, <3>3, <3>4, <3>5, <3>6, LearnIsQuiet DEF Weighing
    <3> QED
      BY <3>7 DEF HandlerMove
  <2>3. CASE server = None
    <3>1. PICK p \in {"missing", "failed"} :
            Goto(d, h, p) /\ (p = "missing" => f.pc = "fetch")
      BY <1>1, <2>3 DEF ServeGet, At
    <3>2. PlacedFlow(f, h) => Placed(p, f.inInit, h)
      BY <2>1, <3>1
      DEF PlacedFlow, Placed, InitPCs, UpdatePCs, CreatePCs, GetPCs
    <3>3. /\ p \in PCs /\ p \notin Acknowledged
          /\ p \notin Told
      BY Positions DEF Acknowledged, Knows, Told
    <3>4. UNCHANGED <<server, meta, abandoned>>
      BY <1>1 DEF ServeGet
    <3>5. QuietMove(d, h)
      BY <2>1, <3>1, <3>2, <3>3, <3>4, GotoIsQuiet DEF Weighing
    <3> QED
      BY <3>5 DEF HandlerMove
  <2> QED
    BY <2>2, <2>3
<1>2. CASE ServeList(d, h)
  <2>1. /\ f.pc = "list" /\ f.pc \notin Acknowledged
        /\ "listed" \notin Acknowledged
    BY <1>2 DEF ServeList, At, Acknowledged
  <2>2. /\ Become(d, h, [f EXCEPT !.pc = "listed", !.theirs = server])
        /\ UNCHANGED <<server, meta, abandoned>>
    BY <1>2 DEF ServeList
  <2>3. PlacedFlow(f, h) => Placed("listed", f.inInit, h)
    BY <2>1 DEF PlacedFlow, Placed, InitPCs, UpdatePCs, CreatePCs
  <2>4. server \in Contents \cup {None} /\ "listed" \in PCs
    BY Positions DEF IInv, TypeOK
  <2>5. QuietMove(d, h)
    BY <2>1, <2>2, <2>3, <2>4, LearnIsQuiet DEF Weighing
  <2> QED
    BY <2>5 DEF HandlerMove
<1>3. CASE CheckUpdate(d, h)
  <2>1. PICK p \in {"gone", "refused", "checked"} :
          Goto(d, h, p) /\ (p = "checked" => server = f.theirs)
    BY <1>3 DEF CheckUpdate
  <2>2. f.pc = "put" /\ UNCHANGED <<server, meta, abandoned>>
    BY <1>3 DEF CheckUpdate, At
  <2>3. PlacedFlow(f, h) => Placed(p, f.inInit, h)
    BY <2>2 DEF PlacedFlow, Placed, InitPCs, UpdatePCs, CreatePCs
  <2>4. /\ p \in PCs /\ p \notin Acknowledged /\ f.pc \notin Acknowledged
        /\ p \in Told => f.theirs = server
    BY <2>1, <2>2, Positions DEF Acknowledged, Knows, Told
  <2>5. QuietMove(d, h)
    BY <2>1, <2>2, <2>3, <2>4, GotoIsQuiet DEF Weighing
  <2> QED
    BY <2>5 DEF HandlerMove
<1>4. CASE ApplyUpdate(d, h)
  <2>1. CASE server # None
    BY <1>4, <2>1 DEF ApplyUpdate, Put, HandlerMove, WriteMove
  <2>2. CASE server = None
    <3>1. f.pc = "checked" /\ Goto(d, h, "gone")
      BY <1>4, <2>2 DEF ApplyUpdate, At
    <3>2. PlacedFlow(f, h) => Placed("gone", f.inInit, h)
      BY <3>1 DEF PlacedFlow, Placed, InitPCs, UpdatePCs, CreatePCs
    <3>3. /\ "gone" \in PCs /\ "gone" \notin Acknowledged
          /\ "gone" \notin Told /\ f.pc \notin Acknowledged
      BY <3>1, Positions DEF Acknowledged, Knows, Told
    <3>4. UNCHANGED <<server, meta, abandoned>>
      BY <1>4, <2>2 DEF ApplyUpdate
    <3>5. QuietMove(d, h)
      BY <3>1, <3>2, <3>3, <3>4, GotoIsQuiet DEF Weighing
    <3> QED
      BY <3>5 DEF HandlerMove
  <2> QED
    BY <2>1, <2>2
<1>5. CASE ServeCreate(d, h)
  <2>1. CASE server = None
    BY <1>5, <2>1 DEF ServeCreate, Put, HandlerMove, WriteMove
  <2>2. CASE server # None
    <3>1. f.pc = "post" /\ Goto(d, h, "exists")
      BY <1>5, <2>2 DEF ServeCreate, At
    <3>2. PlacedFlow(f, h) => Placed("exists", f.inInit, h)
      BY <3>1 DEF PlacedFlow, Placed, InitPCs, UpdatePCs, CreatePCs
    <3>3. /\ "exists" \in PCs /\ "exists" \notin Acknowledged
          /\ "exists" \notin Told /\ f.pc \notin Acknowledged
      BY <3>1, Positions DEF Acknowledged, Knows, Told
    <3>4. UNCHANGED <<server, meta, abandoned>>
      BY <1>5, <2>2 DEF ServeCreate
    <3>5. QuietMove(d, h)
      BY <3>1, <3>2, <3>3, <3>4, GotoIsQuiet DEF Weighing
    <3> QED
      BY <3>5 DEF HandlerMove
  <2> QED
    BY <2>1, <2>2
<1>6. CASE ServeDelete(d, h)
  BY <1>6 DEF ServeDelete, HandlerMove, RemoveMove
<1> QED
  BY <1>1, <1>2, <1>3, <1>4, <1>5, <1>6 DEF ServerStep

(* The ways into a RecordMove and out of a written file.                   *)
LEMMA EndSyncedRecords ==
  ASSUME IInv, NEW d \in Devices, NEW h \in AllHandlers,
         NEW c \in Contents \cup {None},
         EndSynced(d, h, c),
         \/ c = None
         \/ c = flow[d][h].mine /\ flow[d][h].pc \in Acknowledged
         \/ c = flow[d][h].theirs /\ flow[d][h].pc \in Knows
  PROVE  RecordMove(d, h)
<1>1. /\ Become(d, h, Idle) /\ UNCHANGED <<server, abandoned>>
      /\ meta' = [meta EXCEPT ![d] = c]
  BY DEF EndSynced, Release, serverUnchanged, serverVars
<1>2. Idle \in Flow /\ Idle.pc = "idle" /\ PlacedFlow(Idle, h)
  BY IdleIsFlow, IdleIsPlaced DEF PlacedFlow
<1> QED
  BY <1>1, <1>2 DEF RecordMove

LEMMA OverwriteIsQuiet ==
  ASSUME IInv, NEW d \in Devices, NEW h \in AllHandlers,
         Goto(d, h, "meta"), UNCHANGED <<server, meta, abandoned>>,
         flow[d][h].pc \in Knows
  PROVE  QuietMove(d, h)
<1>1. /\ "meta" \in PCs /\ "meta" \notin Acknowledged
      /\ flow[d][h].pc \notin Acknowledged
  BY Positions DEF Acknowledged, Knows, Told
<1>2. PlacedFlow(flow[d][h], h) => Placed("meta", flow[d][h].inInit, h)
  BY DEF PlacedFlow, Placed, InitPCs, UpdatePCs, CreatePCs, Knows
<1> QED
  BY <1>1, <1>2, GotoIsQuiet DEF Weighing

LEMMA PromptInitIsQuiet ==
  ASSUME IInv, NEW d \in Devices, NEW h \in AllHandlers,
         flow[d][h].pc = "listed", PromptInit(d, h)
  PROVE  QuietMove(d, h)
<1>1. flow[d][h].pc \notin Acknowledged
  BY DEF Acknowledged
<1>2. CASE End(d, h)
  BY <1>1, <1>2, EndIsQuiet
<1>3. CASE ~End(d, h)
  <2>1. Goto(d, h, "askInit") /\ UNCHANGED <<server, meta, abandoned>>
    BY <1>3 DEF PromptInit, serverUnchanged, serverVars
  <2>2. /\ "askInit" \in PCs /\ "askInit" \notin Acknowledged
        /\ "askInit" \notin Told
    BY Positions DEF Acknowledged, Knows, Told
  <2>3. PlacedFlow(flow[d][h], h)
          => Placed("askInit", flow[d][h].inInit, h)
    BY DEF PlacedFlow, Placed, InitPCs, UpdatePCs, CreatePCs
  <2> QED
    BY <1>1, <2>1, <2>2, <2>3, GotoIsQuiet DEF Weighing
<1> QED
  BY <1>2, <1>3

LEMMA UntrackedIsQuiet ==
  ASSUME IInv, NEW d \in Devices, NEW h \in AllHandlers,
         NEW local \in BOOLEAN, NEW remote \in BOOLEAN,
         flow[d][h].pc = "listed", Untracked(d, h, local, remote)
  PROVE  QuietMove(d, h)
<1> DEFINE f == flow[d][h]
<1>0. f.pc \notin Acknowledged
  BY DEF Acknowledged
<1>1. CASE Await(d, h, "askRestore")
  <2>1. /\ "askRestore" \in PCs /\ "askRestore" \notin Acknowledged
        /\ "askRestore" \notin Told
    BY Positions DEF Acknowledged, Knows, Told
  <2>2. PlacedFlow(f, h) => Placed("askRestore", f.inInit, h)
    BY DEF PlacedFlow, Placed, InitPCs, UpdatePCs, CreatePCs
  <2> QED
    BY <1>0, <1>1, <2>1, <2>2, AwaitIsQuiet DEF Weighing
<1>2. CASE PromptInit(d, h)
  BY <1>2, PromptInitIsQuiet
<1>3. CASE /\ Become(d, h, [f EXCEPT !.pc = "first", !.mine = file[d]])
           /\ serverUnchanged /\ clientUnchanged
  <2>1. UNCHANGED <<server, meta, abandoned>>
    BY <1>3 DEF serverUnchanged, serverVars, clientUnchanged, storeVars
  <2>2. /\ "first" \in PCs /\ "first" \notin Acknowledged
        /\ "first" \notin Told
        /\ file[d] \in Contents \cup {None}
    BY Positions DEF Acknowledged, Knows, Told, IInv, TypeOK
  <2>3. PlacedFlow(f, h) => Placed("first", f.inInit, h)
    BY DEF PlacedFlow, Placed, InitPCs, UpdatePCs, CreatePCs
  <2> QED
    BY <1>0, <1>3, <2>1, <2>2, <2>3, RereadIsQuiet DEF Weighing
<1>4. CASE End(d, h)
  BY <1>0, <1>4, EndIsQuiet
<1> QED
  BY <1>1, <1>2, <1>3, <1>4 DEF Untracked

LEMMA InitStepShape ==
  ASSUME IInv, NEW d \in Devices, NEW h \in AllHandlers, InitStep(d, h)
  PROVE  HandlerMove(d, h)
<1> DEFINE f == flow[d][h]
<1> USE DEF HandlerMove
<1>0. f \in Flow /\ file[d] \in Contents \cup {None}
  BY FlowFacts DEF IInv, TypeOK
<1>1. CASE InitChecked(d, h)
  <2> DEFINE local == IF h = "boot" THEN file[d] ELSE None
  <2>1. f.pc = "init" /\ f.pc \notin Acknowledged
    BY <1>1 DEF InitChecked, At, Acknowledged
  <2>2. CASE End(d, h)
    BY <2>1, <2>2, EndIsQuiet
  <2>3. CASE ~End(d, h)
    <3>1. /\ Become(d, h, [f EXCEPT !.pc = "list", !.mine = local])
          /\ UNCHANGED <<server, meta, abandoned>>
      BY <1>1, <2>3
      DEF InitChecked, serverUnchanged, serverVars, clientUnchanged, storeVars
    <3>2. local \in Contents \cup {None}
      BY <1>0
    <3> HIDE DEF local
    <3>3. /\ "list" \in PCs /\ "list" \notin Acknowledged
          /\ "list" \notin Told
      BY Positions DEF Acknowledged, Knows, Told
    <3>4. PlacedFlow(f, h) => Placed("list", f.inInit, h)
      BY <2>1 DEF PlacedFlow, Placed, InitPCs, UpdatePCs, CreatePCs
    <3> QED
      BY <2>1, <3>1, <3>2, <3>3, <3>4, RereadIsQuiet DEF Weighing
  <2> QED
    BY <2>2, <2>3
<1>2. CASE Listed(d, h)
  <2>1. /\ f.pc = "listed"
        /\ Untracked(d, h, file[d] # None, f.theirs # None)
    BY <1>2 DEF Listed, At
  <2>2. (file[d] # None) \in BOOLEAN /\ (f.theirs # None) \in BOOLEAN
    OBVIOUS
  <2> QED
    BY <2>1, <2>2, UntrackedIsQuiet
<1>3. CASE AcceptInit(d, h)
  <2>1. f.pc \in {"askInit", "askReinit"} /\ f.pc \notin Acknowledged
    BY <1>3 DEF AcceptInit, Acknowledged
  <2>2. CASE End(d, h)
    BY <2>1, <2>2, EndIsQuiet
  <2>3. CASE ~End(d, h)
    <3>1. /\ Become(d, h, [f EXCEPT !.pc = "post", !.mine = file[d]])
          /\ UNCHANGED <<server, meta, abandoned>>
      BY <1>3, <2>3
      DEF AcceptInit, serverUnchanged, serverVars, clientUnchanged, storeVars
    <3>2. /\ "post" \in PCs /\ "post" \notin Acknowledged
          /\ "post" \notin Told
      BY Positions DEF Acknowledged, Knows, Told
    <3>3. PlacedFlow(f, h) => Placed("post", f.inInit, h)
      BY <2>1 DEF PlacedFlow, Placed, InitPCs, UpdatePCs, CreatePCs
    <3> QED
      BY <1>0, <2>1, <3>1, <3>2, <3>3, RereadIsQuiet DEF Weighing
  <2> QED
    BY <2>2, <2>3
<1>4. CASE AcceptRestore(d, h)
  <2>1. f.pc = "askRestore" /\ f.pc \notin Acknowledged
    BY <1>4 DEF AcceptRestore, At, Acknowledged
  <2>2. /\ "restore" \in PCs /\ "restore" \notin Acknowledged
        /\ "restore" \notin Told
    BY Positions DEF Acknowledged, Knows, Told
  <2>3. PlacedFlow(f, h) => Placed("restore", f.inInit, h)
    BY <2>1 DEF PlacedFlow, Placed, InitPCs, UpdatePCs, CreatePCs
  <2> QED
    BY <1>4, <2>1, <2>2, <2>3, AwaitIsQuiet DEF AcceptRestore, Weighing
<1>5. CASE FirstUseLocal(d, h)
  <2>1. f.pc = "askFirst" /\ f.pc \notin Acknowledged
    BY <1>5 DEF FirstUseLocal, At, Acknowledged
  <2>2. /\ "put" \in PCs /\ "put" \notin Acknowledged
        /\ "put" \notin Told
    BY Positions DEF Acknowledged, Knows, Told
  <2>3. PlacedFlow(f, h) => Placed("put", f.inInit, h)
    BY <2>1 DEF PlacedFlow, Placed, InitPCs, UpdatePCs, CreatePCs
  <2> QED
    BY <1>5, <2>1, <2>2, <2>3, AwaitIsQuiet DEF FirstUseLocal, Weighing
<1>6. CASE FirstUseRemote(d, h) \/ Restored(d, h)
  <2>1. f.pc \in Knows /\ Goto(d, h, "meta")
    BY <1>6 DEF FirstUseRemote, Restored, At, Knows, Overwrite
  <2>2. UNCHANGED <<server, meta, abandoned>>
    BY <1>6
    DEF FirstUseRemote, Restored, Overwrite, serverUnchanged, serverVars,
        storeVars
  <2> QED
    BY <2>1, <2>2, OverwriteIsQuiet
<1>7. CASE \/ DeclineInit(d, h) \/ Failed(d, h)
  <2>1. /\ Become(d, h, Idle) /\ UNCHANGED <<server, meta, abandoned>>
        /\ f.pc \notin Acknowledged
    BY <1>7
    DEF DeclineInit, Failed, At, Acknowledged, Release, serverUnchanged,
        serverVars, storeVars
  <2> QED
    BY <2>1, IdleIsQuiet
<1>8. CASE \/ DeclineRestore(d, h) \/ FirstCancel(d, h)
           \/ CreateRefused(d, h) \/ FirstUpdateFails(d, h)
  <2>1. End(d, h) /\ f.pc \notin Acknowledged
    BY <1>8
    DEF DeclineRestore, FirstCancel, CreateRefused, FirstUpdateFails, At,
        Acknowledged
  <2> QED
    BY <2>1, EndIsQuiet
<1>9. CASE Created(d, h)
  <2>1. /\ EndSynced(d, h, f.mine) /\ f.pc \in Acknowledged
        /\ f.mine \in Contents \cup {None}
    BY <1>0, <1>9 DEF Created, At, Acknowledged, Flow
  <2> QED
    BY <2>1, EndSyncedRecords
<1>10. CASE SaveMeta(d, h)
  <2>1. /\ EndSynced(d, h, f.theirs) /\ f.pc \in Knows
        /\ f.theirs \in Contents \cup {None}
    BY <1>0, <1>10 DEF SaveMeta, At, Knows, Flow
  <2> QED
    BY <2>1, EndSyncedRecords
<1>11. CASE FirstGot(d, h)
  <2>1. /\ f.pc = "firstGot" /\ f.pc \in Knows /\ f.pc \notin Acknowledged
        /\ f.mine \in Contents \cup {None}
    BY <1>0, <1>11 DEF FirstGot, At, Knows, Acknowledged, Flow
  <2>2. CASE f.mine = f.theirs /\ EndSynced(d, h, f.mine)
    BY <2>1, <2>2, EndSyncedRecords
  <2>3. CASE Overwrite(d, h)
    BY <2>1, <2>3, OverwriteIsQuiet
    DEF Overwrite, serverUnchanged, serverVars, storeVars
  <2>4. ASSUME NEW p \in {"put", "askFirst"}, Await(d, h, p)
        PROVE  QuietMove(d, h)
    <3>1. p \in PCs /\ p \notin Acknowledged
      BY Positions DEF Acknowledged
    <3>2. PlacedFlow(f, h) => Placed(p, f.inInit, h)
      BY <2>1 DEF PlacedFlow, Placed, InitPCs, UpdatePCs, CreatePCs
    <3> QED
      BY <2>1, <2>4, <3>1, <3>2, AwaitIsQuiet DEF Weighing
  <2> QED
    BY <1>11, <2>2, <2>3, <2>4 DEF FirstGot
<1> QED
  BY <1>1, <1>2, <1>3, <1>4, <1>5, <1>6, <1>7, <1>8, <1>9, <1>10, <1>11
  DEF InitStep

LEMMA BootStepShape ==
  ASSUME IInv, NEW d \in Devices, BootStep(d)
  PROVE  HandlerMove(d, "boot")
<1> DEFINE f == flow[d]["boot"]
<1> USE DEF HandlerMove
<1>0. "boot" \in AllHandlers
  BY DEF AllHandlers, Unlocked
<1>1. CASE Reconcile(d)
  <2>1. f.pc = "listed" /\ f.pc \notin Acknowledged
    BY <1>1 DEF Reconcile, At, Acknowledged
  <2>2. CASE End(d, "boot")
    BY <1>0, <2>1, <2>2, EndIsQuiet
  <2>3. ASSUME NEW local \in BOOLEAN, NEW remote \in BOOLEAN,
               Untracked(d, "boot", local, remote)
        PROVE  QuietMove(d, "boot")
    BY <1>0, <2>1, <2>3, UntrackedIsQuiet
  <2>4. CASE EndSynced(d, "boot", None)
    <3>1. None \in Contents \cup {None}
      OBVIOUS
    <3>2. RecordMove(d, "boot")
      BY <1>0, <2>4, <3>1, EndSyncedRecords
    <3> QED
      BY <3>2
  <2>5. ASSUME NEW p \in {"askZombie", "askRestore"}, Goto(d, "boot", p),
               p = "askZombie" => f.theirs = None,
               UNCHANGED <<server, meta, abandoned>>
        PROVE  QuietMove(d, "boot")
    <3>1. /\ p \in PCs /\ p \notin Acknowledged
          /\ p \notin Told
      BY Positions DEF Acknowledged, Knows, Told
    <3>2. PlacedFlow(f, "boot") => Placed(p, f.inInit, "boot")
      BY <2>1 DEF PlacedFlow, Placed, InitPCs, UpdatePCs, CreatePCs
    <3> QED
      BY <1>0, <2>1, <2>5, <3>1, <3>2, GotoIsQuiet DEF Zombie, Weighing
  <2>6. \/ End(d, "boot") \/ EndSynced(d, "boot", None)
        \/ \E local, remote \in BOOLEAN : Untracked(d, "boot", local, remote)
        \/ \E p \in {"askZombie", "askRestore"} :
             /\ Goto(d, "boot", p) /\ (p = "askZombie" => f.theirs = None)
             /\ UNCHANGED <<server, meta, abandoned>>
    <3> DEFINE local == f.mine # None /\ file[d] # None
               remote == f.theirs # None
    <3>1. local \in BOOLEAN /\ remote \in BOOLEAN
      OBVIOUS
    <3>2. \/ End(d, "boot") \/ EndSynced(d, "boot", None)
          \/ Untracked(d, "boot", local, remote)
          \/ \E p \in {"askZombie", "askRestore"} :
               /\ Goto(d, "boot", p) /\ (p = "askZombie" => f.theirs = None)
               /\ UNCHANGED <<server, meta, abandoned>>
      BY <1>1
      DEF Reconcile, Await, serverUnchanged, serverVars, clientUnchanged,
          storeVars
    <3> HIDE DEF local, remote
    <3> QED
      BY <3>1, <3>2
  <2> QED
    BY <2>2, <2>3, <2>4, <2>5, <2>6
<1>2. CASE ZombieReinitialize(d)
  <2>1. f.pc = "askZombie" /\ f.pc \notin Acknowledged
    BY <1>2 DEF ZombieReinitialize, At, Acknowledged
  <2>2. /\ "askReinit" \in PCs /\ "askReinit" \notin Acknowledged
        /\ "askReinit" \notin Told
    BY Positions DEF Acknowledged, Knows, Told
  <2>3. PlacedFlow(f, "boot") => Placed("askReinit", f.inInit, "boot")
    BY <2>1 DEF PlacedFlow, Placed, InitPCs, UpdatePCs, CreatePCs
  <2> QED
    BY <1>0, <1>2, <2>1, <2>2, <2>3, AwaitIsQuiet DEF ZombieReinitialize
<1>3. CASE DeclineReinit(d) \/ ZombieSkip(d)
  <2>1. /\ Become(d, "boot", Idle) /\ UNCHANGED <<server, meta, abandoned>>
        /\ f.pc \notin Acknowledged
    BY <1>3
    DEF DeclineReinit, ZombieSkip, At, Acknowledged, serverUnchanged,
        serverVars
  <2> QED
    BY <1>0, <2>1, IdleIsQuiet
<1>4. CASE ZombieDeleteLocal(d)
  <2>1. /\ Become(d, "boot", Idle) /\ UNCHANGED <<server, abandoned>>
        /\ f.pc \notin Acknowledged
        /\ UNCHANGED meta \/ meta' = [meta EXCEPT ![d] = None]
    BY <1>4
    DEF ZombieDeleteLocal, At, Acknowledged, serverUnchanged, serverVars
  <2>2. CASE UNCHANGED meta
    BY <1>0, <2>1, <2>2, IdleIsQuiet
  <2>3. CASE meta' = [meta EXCEPT ![d] = None]
    <3>1. Idle \in Flow /\ Idle.pc = "idle" /\ PlacedFlow(Idle, "boot")
      BY IdleIsFlow, IdleIsPlaced DEF PlacedFlow
    <3>2. RecordMove(d, "boot")
      BY <2>1, <2>3, <3>1 DEF RecordMove
    <3> QED
      BY <3>2
  <2> QED
    BY <2>1, <2>2, <2>3
<1> QED
  BY <1>1, <1>2, <1>3, <1>4 DEF BootStep

LEMMA SyncStepShape ==
  ASSUME IInv, NEW d \in Devices, NEW h \in AllHandlers, SyncStep(d, h)
  PROVE  HandlerMove(d, h)
<1> DEFINE f == flow[d][h]
<1> USE DEF HandlerMove
<1>0. f \in Flow
  BY FlowFacts
<1>1. CASE UploadDone(d, h)
  <2>1. /\ Become(d, h, Idle) /\ UNCHANGED <<server, abandoned>>
        /\ meta' = [meta EXCEPT ![d] = f.mine]
        /\ f.pc \in Acknowledged /\ f.mine \in Contents \cup {None}
    BY <1>0, <1>1
    DEF UploadDone, At, Acknowledged, Release, serverUnchanged, serverVars,
        Flow
  <2>2. Idle \in Flow /\ Idle.pc = "idle" /\ PlacedFlow(Idle, h)
    BY IdleIsFlow, IdleIsPlaced DEF PlacedFlow
  <2>3. RecordMove(d, h)
    BY <2>1, <2>2 DEF RecordMove
  <2> QED
    BY <2>3
<1>2. CASE UploadRefused(d, h)
  <2>1. f.pc = "refused" /\ ~f.inInit /\ f.pc \notin Acknowledged
    BY <1>2 DEF UploadRefused, At, Acknowledged
  <2>2. /\ "ask412" \in PCs /\ "ask412" \notin Acknowledged
        /\ "ask412" \notin Told
    BY Positions DEF Acknowledged, Knows, Told
  <2>3. PlacedFlow(f, h) => Placed("ask412", f.inInit, h)
    BY <2>1
    DEF PlacedFlow, Placed, InitPCs, UpdatePCs, CreatePCs, Uploading
  <2> QED
    BY <1>2, <2>1, <2>2, <2>3, AwaitIsQuiet DEF UploadRefused, Weighing
<1>3. CASE UseLocal(d, h)
  <2>1. f.pc \in {"ask412", "conflict"} /\ f.pc \notin Acknowledged
    BY <1>3 DEF UseLocal, Acknowledged
  <2>2. /\ "override" \in PCs /\ "override" \notin Acknowledged
        /\ "override" \notin Told
    BY Positions DEF Acknowledged, Knows, Told
  <2>3. PlacedFlow(f, h) => Placed("override", f.inInit, h)
    BY <2>1
    DEF PlacedFlow, Placed, InitPCs, UpdatePCs, CreatePCs, Uploading,
        Syncing
  <2> QED
    BY <1>3, <2>1, <2>2, <2>3, AwaitIsQuiet DEF UseLocal, Weighing
<1>4. CASE UseRemote(d, h)
  <2>1. PICK p \in {"pull", "write"} :
          /\ Await(d, h, p)
          /\ p = "pull" => f.pc = "ask412"
          /\ p = "write" => f.pc = "conflict"
    BY <1>4 DEF UseRemote, At
  <2>2. /\ p \in PCs /\ p \notin Acknowledged /\ f.pc \notin Acknowledged
        /\ p \in Told => f.pc \in Knows
    BY <2>1, Positions DEF Acknowledged, Knows, Told
  <2>3. PlacedFlow(f, h) => Placed(p, f.inInit, h)
    BY <2>1
    DEF PlacedFlow, Placed, InitPCs, UpdatePCs, CreatePCs, Uploading,
        Syncing
  <2> QED
    BY <2>1, <2>2, <2>3, AwaitIsQuiet DEF Weighing
<1>5. CASE Dismiss(d, h) \/ Override(d, h)
  <2>1. End(d, h) /\ f.pc \notin Acknowledged
    BY <1>5 DEF Dismiss, Override, At, Acknowledged
  <2> QED
    BY <2>1, EndIsQuiet
<1>6. CASE Pulled(d, h)
  <2>1. f.pc = "pulled" /\ f.pc \notin Acknowledged /\ f.pc \in Knows
    BY <1>6 DEF Pulled, At, Acknowledged, Knows
  <2>2. CASE End(d, h)
    BY <2>1, <2>2, EndIsQuiet
  <2>3. CASE Await(d, h, "write")
    <3>1. "write" \in PCs /\ "write" \notin Acknowledged
      BY Positions DEF Acknowledged
    <3>2. PlacedFlow(f, h) => Placed("write", f.inInit, h)
      BY <2>1
      DEF PlacedFlow, Placed, InitPCs, UpdatePCs, CreatePCs, Uploading,
          Syncing
    <3>3. ~(h = "poll" /\ PlacedFlow(f, h))
      BY <2>1 DEF PlacedFlow, Placed, Uploading
    <3> QED
      BY <2>1, <2>3, <3>1, <3>2, <3>3, AwaitIsQuiet
  <2> QED
    BY <1>6, <2>2, <2>3 DEF Pulled
<1>7. CASE ApplyRemote(d, h)
  <2>1. /\ f.pc = "write" /\ f.pc \notin Acknowledged /\ f.pc \in Knows
        /\ UNCHANGED <<server, meta, abandoned>>
    BY <1>7
    DEF ApplyRemote, At, Acknowledged, Knows, serverUnchanged, serverVars,
        storeVars
  <2>2. CASE Goto(d, h, "meta")
    BY <2>1, <2>2, OverwriteIsQuiet
  <2>3. CASE Goto(d, h, "failed")
    <3>1. /\ "failed" \in PCs /\ "failed" \notin Acknowledged
          /\ "failed" \notin Told
      BY Positions DEF Acknowledged, Knows, Told
    <3>2. PlacedFlow(f, h) => Placed("failed", f.inInit, h)
      BY <2>1 DEF PlacedFlow, Placed, InitPCs, UpdatePCs, CreatePCs
    <3> QED
      BY <2>1, <2>3, <3>1, <3>2, GotoIsQuiet DEF Weighing
  <2> QED
    BY <1>7, <2>2, <2>3 DEF ApplyRemote
<1> QED
  BY <1>1, <1>2, <1>3, <1>4, <1>5, <1>6, <1>7 DEF SyncStep

(* An upload starts.                                                       *)
LEMMA UploadIsQuiet ==
  ASSUME IInv, NEW d \in Devices, NEW h \in Uploading, file[d] # None,
         h \in Handlers, At(d, h, "idle"), Become(d, h, Upload(d)),
         UNCHANGED <<server, meta, abandoned>>
  PROVE  QuietMove(d, h)
<1>1. /\ Upload(d) \in Flow /\ Upload(d).pc = "put"
      /\ Upload(d).inInit = FALSE
  BY UploadFlow DEF Upload, Idle
<1>2. PlacedFlow(Upload(d), h)
  BY <1>1
  DEF PlacedFlow, Placed, InitPCs, UpdatePCs, CreatePCs, Uploading
<1>3. /\ Informed(flow[d][h], Upload(d)) /\ Upload(d).pc \notin Acknowledged
      /\ Weighed(d, flow[d][h], Upload(d))
  BY <1>1 DEF Informed, Knows, Told, Acknowledged, Weighed, Weighing
<1>4. flow[d][h].pc \notin Acknowledged
  BY DEF At, Acknowledged
<1> QED
  BY <1>1, <1>2, <1>3, <1>4 DEF QuietMove

DeviceMove(d) == Still \/ \E h \in AllHandlers : HandlerMove(d, h)

LEMMA SaveEventShape ==
  ASSUME IInv, NEW d \in Devices, SaveEvent(d)
  PROVE  DeviceMove(d)
<1>0. PICK e \in SaveEvents(d) :
        \/ SaveOffline(d, e) \/ SaveCoalesced(d, e) \/ SaveNoFile(d, e)
        \/ SaveUnchanged(d, e) \/ SaveStart(d, e)
  BY DEF SaveEvent
<1>1. CASE \/ SaveOffline(d, e) \/ SaveCoalesced(d, e) \/ SaveNoFile(d, e)
           \/ SaveUnchanged(d, e)
  BY <1>1
  DEF SaveOffline, SaveCoalesced, SaveNoFile, SaveUnchanged, DeviceMove,
      Still, serverUnchanged, serverVars, storeVars
<1>2. CASE SaveStart(d, e)
  <2>1. /\ file[d] # None /\ "save" \in Handlers /\ At(d, "save", "idle")
        /\ UNCHANGED <<server, meta, abandoned>>
        /\ StartInit(d, "save") \/ Become(d, "save", Upload(d))
    BY <1>2
    DEF SaveStart, Readable, CanStart, serverUnchanged, serverVars, storeVars
  <2>2. /\ "save" \in AllHandlers \ {"delete"} /\ "save" \in Uploading
        /\ flow[d]["save"].pc \notin Acknowledged
    BY <2>1 DEF AllHandlers, Syncing, Uploading, At, Acknowledged
  <2>3. QuietMove(d, "save")
    BY <2>1, <2>2, StartInitIsQuiet, UploadIsQuiet
  <2> QED
    BY <2>2, <2>3 DEF DeviceMove, HandlerMove
<1> QED
  BY <1>0, <1>1, <1>2

LEMMA WatcherStepShape ==
  ASSUME IInv, NEW d \in Devices, CreateEvent(d) \/ DeleteEvent(d)
  PROVE  DeviceMove(d)
<1> USE DEF serverUnchanged, serverVars, storeVars
<1>1. CASE CreateEvent(d)
  <2>1. /\ "create" \in Handlers /\ At(d, "create", "idle")
        /\ StartInit(d, "create") /\ UNCHANGED <<server, meta, abandoned>>
    BY <1>1 DEF CreateEvent, CanStart
  <2>2. /\ "create" \in AllHandlers \ {"delete"}
        /\ flow[d]["create"].pc \notin Acknowledged
    BY <2>1 DEF AllHandlers, Unlocked, At, Acknowledged
  <2>3. QuietMove(d, "create")
    BY <2>1, <2>2, StartInitIsQuiet
  <2> QED
    BY <2>2, <2>3 DEF DeviceMove, HandlerMove
<1>2. CASE DeleteEvent(d)
  <2> DEFINE g == [Idle EXCEPT !.pc = "del"]
  <2>1. /\ "delete" \in Handlers /\ At(d, "delete", "idle")
        /\ UNCHANGED <<server, meta, abandoned>>
        /\ Become(d, "delete", g) \/ UNCHANGED flow
    BY <1>2 DEF DeleteEvent, CanStart
  <2>2. CASE UNCHANGED flow
    BY <2>1, <2>2 DEF DeviceMove, Still
  <2>3. CASE Become(d, "delete", g)
    <3>1. g \in Flow /\ g.pc = "del" /\ "delete" \in AllHandlers
      BY DEF Idle, Flow, PCs, AllHandlers, Unlocked
    <3>2. PlacedFlow(g, "delete")
      BY <2>1, <3>1 DEF PlacedFlow, Placed, InitPCs, UpdatePCs, CreatePCs
    <3>3. /\ Informed(flow[d]["delete"], g) /\ g.pc \notin Acknowledged
          /\ flow[d]["delete"].pc \notin Acknowledged
      BY <2>1, <3>1 DEF Informed, Knows, Told, Acknowledged, At
    <3>4. QuietMove(d, "delete")
      BY <2>1, <2>3, <3>1, <3>2, <3>3 DEF QuietMove
    <3> QED
      BY <3>1, <3>4 DEF DeviceMove, HandlerMove
  <2> QED
    BY <2>1, <2>2, <2>3
<1> QED
  BY <1>1, <1>2

LEMMA GoneStepShape ==
  ASSUME IInv, NEW d \in Devices, Save404(d) \/ Push404(d)
  PROVE  DeviceMove(d)
<1>0. {"save", "push"} \subseteq AllHandlers
  BY DEF AllHandlers, Syncing
<1>1. CASE Save404(d)
  <2>1. /\ flow[d]["save"].pc = "gone"
        /\ meta' = [meta EXCEPT ![d] = None]
        /\ Become(d, "save", Idle) \/ Become(d, "save", Starting)
        /\ UNCHANGED <<server, abandoned>>
    BY <1>1
    DEF Save404, At, Release, StartInit, Starting, serverUnchanged,
        serverVars
  <2>2. PICK g \in {Idle, Starting} : Become(d, "save", g)
    BY <2>1
  <2>3. g \in Flow /\ g.pc \in {"idle", "init"}
    BY IdleIsFlow, StartingFields
  <2>4. PlacedFlow(flow[d]["save"], "save") => PlacedFlow(g, "save")
    BY <2>1, IdleIsFlow, StartingFields
    DEF PlacedFlow, Placed, InitPCs, UpdatePCs, CreatePCs
  <2>5. None \in Contents \cup {None}
    OBVIOUS
  <2>6. RecordMove(d, "save")
    BY <2>1, <2>2, <2>3, <2>4, <2>5 DEF RecordMove
  <2> QED
    BY <1>0, <2>6 DEF DeviceMove, HandlerMove
<1>2. CASE Push404(d)
  <2>1. End(d, "push") /\ flow[d]["push"].pc \notin Acknowledged
    BY <1>2 DEF Push404, At, Acknowledged
  <2>2. QuietMove(d, "push")
    BY <1>0, <2>1, EndIsQuiet
  <2> QED
    BY <1>0, <2>2 DEF DeviceMove, HandlerMove
<1> QED
  BY <1>1, <1>2

LEMMA PollStepShape ==
  ASSUME IInv, NEW d \in Devices,
         PollStart(d) \/ PollVisit(d) \/ PollMissing(d) \/ PollFetched(d)
  PROVE  DeviceMove(d)
<1> DEFINE f == flow[d]["poll"]
<1> SUFFICES QuietMove(d, "poll")
  BY DEF DeviceMove, HandlerMove, AllHandlers, Syncing
<1>0. "poll" \in AllHandlers \ {"delete"} /\ "poll" \in Syncing
  BY DEF AllHandlers, Syncing
<1> USE DEF serverUnchanged, serverVars, storeVars, clientUnchanged
<1>1. CASE PollStart(d)
  <2>1. /\ "poll" \in Handlers /\ f.pc = "idle" /\ f.pc \notin Acknowledged
        /\ Await(d, "poll", "loop")
    BY <1>1 DEF PollStart, CanStart, At, Acknowledged
  <2>2. /\ "loop" \in PCs /\ "loop" \notin Acknowledged
        /\ "loop" \notin Told
    BY Positions DEF Acknowledged, Knows, Told
  <2>3. Placed("loop", f.inInit, "poll")
    BY <2>1 DEF Placed, InitPCs, UpdatePCs, CreatePCs
  <2> QED
    BY <1>0, <2>1, <2>2, <2>3, AwaitIsQuiet DEF Weighing
<1>2. CASE PollVisit(d)
  <2>1. /\ f.pc = "loop" /\ f.pc \notin Acknowledged
        /\ Become(d, "poll", Idle) \/ Goto(d, "poll", "fetch")
        /\ UNCHANGED <<server, meta, abandoned>>
    BY <1>2 DEF PollVisit, At, Acknowledged
  <2>2. /\ "fetch" \in PCs /\ "fetch" \notin Acknowledged
        /\ "fetch" \notin Told
    BY Positions DEF Acknowledged, Knows, Told
  <2>3. PlacedFlow(f, "poll") => Placed("fetch", f.inInit, "poll")
    BY <2>1 DEF PlacedFlow, Placed, InitPCs, UpdatePCs, CreatePCs
  <2> QED
    BY <1>0, <2>1, <2>2, <2>3, GotoIsQuiet, IdleIsQuiet DEF Weighing
<1>3. CASE PollMissing(d)
  <2>1. /\ f.pc = "missing" /\ f.pc \notin Acknowledged
        /\ StartInit(d, "poll") /\ UNCHANGED <<server, meta, abandoned>>
    BY <1>3 DEF PollMissing, At, Acknowledged
  <2> QED
    BY <1>0, <2>1, StartInitIsQuiet
<1>4. CASE PollFetched(d)
  <2>1. f.pc = "fetched" /\ f.pc \notin Acknowledged /\ f.pc \in Knows
    BY <1>4 DEF PollFetched, At, Acknowledged, Knows
  <2>2. CASE End(d, "poll")
    BY <1>0, <2>1, <2>2, EndIsQuiet
  <2>3. CASE StartInit(d, "poll") /\ UNCHANGED <<server, meta, abandoned>>
    BY <1>0, <2>1, <2>3, StartInitIsQuiet
  <2>4. ASSUME NEW p \in {"write", "conflict"},
               Become(d, "poll", [f EXCEPT !.pc = p, !.mine = file[d]]),
               file[d] # None, UNCHANGED <<server, meta, abandoned, file>>
        PROVE  QuietMove(d, "poll")
    <3>1. /\ p \in PCs /\ p \notin Acknowledged
          /\ file[d] \in Contents \cup {None}
      BY Positions DEF Acknowledged, IInv, TypeOK
    <3>2. PlacedFlow(f, "poll") => Placed(p, f.inInit, "poll")
      BY <2>1 DEF PlacedFlow, Placed, InitPCs, UpdatePCs, CreatePCs, Syncing
    <3> QED
      BY <1>0, <2>1, <2>4, <3>1, <3>2, RereadIsQuiet
  <2> QED
    BY <1>4, <2>2, <2>3, <2>4 DEF PollFetched
<1> QED
  BY <1>1, <1>2, <1>3, <1>4

LEMMA PushStepShape ==
  ASSUME IInv, NEW d \in Devices,
         PushCommand(d) \/ PushOffline(d) \/ ReplayPush(d) \/ ReplayEnd(d)
  PROVE  DeviceMove(d)
<1> USE DEF serverUnchanged, serverVars, storeVars
<1>1. CASE PushStart(d)
  <2>1. /\ file[d] # None /\ "push" \in Handlers /\ At(d, "push", "idle")
        /\ Become(d, "push", Upload(d))
        /\ UNCHANGED <<server, meta, abandoned>>
    BY <1>1 DEF PushStart, Readable, CanStart
  <2>2. "push" \in AllHandlers /\ "push" \in Uploading
    BY DEF AllHandlers, Syncing, Uploading
  <2>3. QuietMove(d, "push")
    BY <2>1, <2>2, UploadIsQuiet
  <2> QED
    BY <2>2, <2>3 DEF DeviceMove, HandlerMove
<1>2. CASE ~PushStart(d)
  BY <1>2
  DEF PushCommand, PushOffline, ReplayPush, ReplayEnd, DeviceMove, Still
<1> QED
  BY <1>1, <1>2

(* Every step is one of these.                                             *)
LEMMA StepShape ==
  ASSUME IInv, [Next]_vars
  PROVE  \/ Still
         \/ \E d \in Devices, h \in AllHandlers : HandlerMove(d, h)
         \/ \E d \in Devices, h \in Handlers : Fault(d, h)
         \/ \E d \in Devices : Reload(d)
         \/ \E r \in abandoned : FinishAbandoned(r) \/ DropAbandoned(r)
<1>0. Handlers \subseteq AllHandlers /\ "boot" \in AllHandlers
  BY ConstantsAssumption DEF AllHandlers, Unlocked
<1>1. CASE UNCHANGED vars
  BY <1>1 DEF vars, serverVars, storeVars, Still
<1>2. ASSUME NEW d \in Devices, User(d) \/ GoOnline(d), ~Reload(d)
      PROVE  Still
  BY <1>2
  DEF User, Edit, RemoveFile, GoOffline, GoOnline, Still, serverUnchanged,
      serverVars, storeVars
<1>3. ASSUME NEW d \in Devices, DeviceStep(d)
      PROVE  DeviceMove(d)
  BY <1>3, SaveEventShape, WatcherStepShape, GoneStepShape, PollStepShape,
     PushStepShape
  DEF DeviceStep
<1>4. ASSUME NEW d \in Devices, BootStep(d)
      PROVE  DeviceMove(d)
  BY <1>0, <1>4, BootStepShape DEF DeviceMove
<1>5. ASSUME NEW d \in Devices, NEW h \in Handlers, HandlerStep(d, h)
      PROVE  DeviceMove(d)
  BY <1>0, <1>5, ServerStepShape, SyncStepShape, InitStepShape
  DEF HandlerStep, DeviceMove
<1> QED
  BY <1>1, <1>2, <1>3, <1>4, <1>5 DEF Next, DeviceMove

-----------------------------------------------------------------------------
(***************************************************************************)
(* Where the handlers are.                                                 *)
(***************************************************************************)
LEMMA PlaceKept ==
  ASSUME IInv, HandlersInPlace, NEW d \in Devices, NEW h \in AllHandlers,
         NEW g \in Flow, Become(d, h, g), PlacedFlow(g, h)
  PROVE  HandlersInPlace'
<1> SUFFICES ASSUME NEW e \in Devices, NEW k \in AllHandlers
             PROVE  PlacedFlow(flow'[e][k], k)
  BY DEF HandlersInPlace
<1>1. CASE e = d /\ k = h
  BY <1>1, BecomeReplaces DEF IInv
<1>2. CASE e # d \/ k # h
  BY <1>2, BecomeReplaces DEF IInv, HandlersInPlace
<1> QED
  BY <1>1, <1>2

LEMMA MoveKeepsPlaces ==
  ASSUME IInv, HandlersInPlace, NEW d \in Devices, NEW h \in AllHandlers,
         HandlerMove(d, h)
  PROVE  HandlersInPlace'
<1>0. PlacedFlow(flow[d][h], h)
  BY DEF HandlersInPlace
<1>1. CASE QuietMove(d, h) \/ RecordMove(d, h)
  <2>1. PICK g \in Flow : Become(d, h, g) /\ PlacedFlow(g, h)
    BY <1>0, <1>1 DEF QuietMove, RecordMove
  <2> QED
    BY <2>1, PlaceKept
<1>2. CASE WriteMove(d, h)
  <2>1. PICK p \in Acknowledged :
          /\ Goto(d, h, p)
          /\ p = "acked" => flow[d][h].pc = "checked"
          /\ p = "created" => flow[d][h].pc = "post"
    BY <1>2 DEF WriteMove, Acknowledged, At
  <2>2. p \in PCs
    BY <2>1, Positions DEF Acknowledged
  <2>3. PICK g \in Flow :
          /\ Become(d, h, g)
          /\ g.pc = p /\ g.inInit = flow[d][h].inInit
    BY <2>1, <2>2, GotoFields
  <2>4. PlacedFlow(g, h)
    BY <1>0, <2>1, <2>3
    DEF PlacedFlow, Placed, InitPCs, UpdatePCs, CreatePCs, Acknowledged
  <2> QED
    BY <2>3, <2>4, PlaceKept
<1>3. CASE RemoveMove(d, h)
  <2>1. Idle \in Flow /\ PlacedFlow(Idle, h) /\ Become(d, h, Idle)
    BY <1>3, IdleIsFlow, IdleIsPlaced DEF PlacedFlow, RemoveMove
  <2> QED
    BY <2>1, PlaceKept
<1> QED
  BY <1>1, <1>2, <1>3 DEF HandlerMove

LEMMA FaultKeepsPlaces ==
  ASSUME IInv, HandlersInPlace, NEW d \in Devices, NEW h \in AllHandlers,
         Fault(d, h)
  PROVE  HandlersInPlace'
<1> DEFINE f == flow[d][h]
<1>0. PlacedFlow(f, h) /\ f \in Flow
  BY FlowFacts DEF HandlersInPlace
<1>1. CASE RetryWrite(d, h)
  <2>1. PICK p \in {"put", "post"} :
          /\ Goto(d, h, p)
          /\ p = "put" => f.pc \in UpdatePCs
          /\ p = "post" => f.pc \in CreatePCs
    BY <1>1 DEF RetryWrite
  <2>2. p \in PCs
    BY <2>1, Positions
  <2>3. PICK g \in Flow :
          /\ Become(d, h, g) /\ g.pc = p /\ g.inInit = f.inInit
    BY <2>1, <2>2, GotoFields
  <2>4. PlacedFlow(g, h)
    BY <1>0, <2>1, <2>3
    DEF PlacedFlow, Placed, InitPCs, UpdatePCs, CreatePCs
  <2> QED
    BY <2>3, <2>4, PlaceKept
<1>2. CASE GiveUpWrite(d, h)
  <2>1. Idle \in Flow /\ PlacedFlow(Idle, h) /\ Become(d, h, Idle)
    BY <1>2, IdleIsFlow, IdleIsPlaced DEF PlacedFlow, GiveUpWrite, Release
  <2> QED
    BY <2>1, PlaceKept
<1>3. CASE FailRequest(d, h)
  <2>1. f.pc \in GetPCs \cup {"init", "list", "del"}
    BY <1>3 DEF FailRequest
  <2>2. CASE At(d, h, "list")
    <3> DEFINE g == [f EXCEPT !.pc = "listed", !.theirs = None]
    <3>1. g \in Flow /\ g.pc = "listed" /\ g.inInit = f.inInit
      BY <1>0, Positions DEF Flow
    <3>2. Become(d, h, g)
      BY <1>3, <2>2 DEF FailRequest
    <3>3. PlacedFlow(g, h)
      BY <1>0, <2>2, <3>1
      DEF At, PlacedFlow, Placed, InitPCs, UpdatePCs, CreatePCs
    <3> HIDE DEF g
    <3> QED
      BY <3>1, <3>2, <3>3, PlaceKept
  <2>3. CASE ~At(d, h, "list")
    <3>1. Goto(d, h, "failed") /\ "failed" \in PCs
      BY <1>3, <2>3, Positions DEF FailRequest
    <3>2. PICK g \in Flow :
            /\ Become(d, h, g) /\ g.pc = "failed" /\ g.inInit = f.inInit
      BY <3>1, GotoFields
    <3>3. PlacedFlow(g, h)
      BY <1>0, <2>1, <3>2
      DEF PlacedFlow, Placed, InitPCs, UpdatePCs, CreatePCs, GetPCs
    <3> QED
      BY <3>2, <3>3, PlaceKept
  <2> QED
    BY <2>2, <2>3
<1> QED
  BY <1>1, <1>2, <1>3 DEF Fault

LEMMA ReloadKeepsPlaces ==
  ASSUME IInv, HandlersInPlace, NEW d \in Devices, Reload(d)
  PROVE  HandlersInPlace'
<1> SUFFICES ASSUME NEW e \in Devices, NEW h \in AllHandlers
             PROVE  PlacedFlow(flow'[e][h], h)
  BY DEF HandlersInPlace
<1>1. /\ flow' = [flow EXCEPT ![d] = [k \in AllHandlers |->
                    IF k = "boot" THEN Starting ELSE Idle]]
      /\ "boot" \in Handlers
  BY DEF Reload, Starting, AllHandlers
<1>2. CASE e # d
  BY <1>1, <1>2 DEF HandlersInPlace
<1>3. CASE e = d
  <2>1. flow'[e][h] = IF h = "boot" THEN Starting ELSE Idle
    BY <1>1, <1>3 DEF IInv, TypeOK
  <2>2. PlacedFlow(Idle, h)
    BY IdleIsFlow, IdleIsPlaced DEF PlacedFlow
  <2>3. h = "boot" => PlacedFlow(Starting, h)
    BY <1>1, StartingFields
    DEF PlacedFlow, Placed, InitPCs, UpdatePCs, CreatePCs
  <2> QED
    BY <2>1, <2>2, <2>3
<1> QED
  BY <1>2, <1>3

LEMMA NextKeepsPlaces ==
  ASSUME IInv, HandlersInPlace, [Next]_vars
  PROVE  HandlersInPlace'
<1>0. Handlers \subseteq AllHandlers
  BY ConstantsAssumption DEF AllHandlers
<1>1. CASE Still
  BY <1>1 DEF Still, HandlersInPlace
<1>2. ASSUME NEW r \in abandoned, FinishAbandoned(r) \/ DropAbandoned(r)
      PROVE  HandlersInPlace'
  BY <1>2 DEF FinishAbandoned, DropAbandoned, HandlersInPlace
<1> QED
  BY <1>0, <1>1, <1>2, StepShape, MoveKeepsPlaces, FaultKeepsPlaces,
     ReloadKeepsPlaces

LEMMA InitPlaces == Init => HandlersInPlace
  BY IdleIsFlow, IdleIsPlaced DEF Init, HandlersInPlace, PlacedFlow,
  AllHandlers

(* Prompts about a conflict, and the uploads and pulls that lead to and    *)
(* from them, are run by the handlers that hold the lock; what runs inside *)
(* EnvInitService stays there; only handlers that have started run.        *)
THEOREM EveryHandlerInPlace == Spec => []HandlersInPlace
<1>1. IInv /\ HandlersInPlace /\ [Next]_vars => HandlersInPlace'
  BY NextKeepsPlaces
<1> QED
  BY <1>1, InitPlaces, Invariance, PTL DEF Spec

(* "Use Local" and "Force Push" call pushEnv, which returns at once when   *)
(* the env is in activeSyncs: it always is, since the handler that asked   *)
(* still holds it.  Whatever the instance, the overwrite is never sent     *)
(* (env-sync-manager.ts:520).                                              *)
THEOREM OverrideMeetsItsOwnLock ==
  Spec => [](\A d \in Devices, h \in AllHandlers :
               At(d, h, "override") => d \in activeSyncs)
<1> DEFINE Barred == \A d \in Devices, h \in AllHandlers :
                       At(d, h, "override") => d \in activeSyncs
<1>1. IInv /\ HandlersInPlace => Barred
  <2> SUFFICES ASSUME IInv, HandlersInPlace, NEW d \in Devices,
                      NEW h \in AllHandlers, At(d, h, "override")
               PROVE  d \in activeSyncs
    OBVIOUS
  <2>1. h \in Syncing
    BY DEF HandlersInPlace, PlacedFlow, Placed, At
  <2>2. Locked(d, h)
    BY <2>1 DEF Locked, At
  <2> QED
    BY <2>1, <2>2 DEF IInv, OneSyncAtATime
<1> HIDE DEF Barred
<1>2. Spec => []Barred
  BY <1>1, Invariance, EveryHandlerInPlace, PTL
<1> QED
  BY <1>2 DEF Barred

-----------------------------------------------------------------------------
(***************************************************************************)
(* A lone device whose requests are all answered.  The unlocked handlers   *)
(* that set an env up are left out: a create event that runs beside a save *)
(* can record its own content over the save's (a reload leaves attempts    *)
(* with the API, as a request without an answer does).                     *)
(***************************************************************************)
AloneAndAnswered ==
  /\ \E d : Devices = {d}
  /\ MaxFaults = 0
  /\ Handlers \cap {"create", "boot"} = {}

(* What a handler takes for the row's content is the row's content, unless *)
(* the row is gone.                                                        *)
Current(f, row) ==
  /\ f.pc \in Acknowledged => row \in {None, f.mine}
  /\ f.pc \in Knows \cup {"checked"} => row \in {None, f.theirs}

NothingIsStale ==
  \A d \in Devices, h \in AllHandlers : Current(flow[d][h], server)

Agreement == /\ HandlersInPlace /\ abandoned = {}
             /\ NothingIsStale /\ LoneDeviceAgrees

LEMMA NoFaults ==
  ASSUME IInv, MaxFaults = 0, NEW d, NEW h, Fault(d, h)
  PROVE  FALSE
<1>1. Spend("faults")
  BY DEF Fault, RetryWrite, GiveUpWrite, FailRequest
<1>2. used.faults \in Nat /\ Bound.faults = 0
  BY DEF IInv, TypeOK, Bound
<1> QED
  BY <1>1, <1>2 DEF Spend

(* A handler that does not move is as current as it was.                   *)
LEMMA CurrentKept ==
  ASSUME IInv, NothingIsStale, NEW d \in Devices, NEW h \in AllHandlers,
         NEW g \in Flow, Become(d, h, g), server' \in {None, server},
         Current(g, server')
  PROVE  NothingIsStale'
<1> SUFFICES ASSUME NEW e \in Devices, NEW k \in AllHandlers
             PROVE  Current(flow'[e][k], server')
  BY DEF NothingIsStale
<1>1. CASE e = d /\ k = h
  BY <1>1, BecomeReplaces DEF IInv
<1>2. CASE e # d \/ k # h
  BY <1>2, BecomeReplaces DEF IInv, NothingIsStale, Current
<1> QED
  BY <1>1, <1>2

LEMMA QuietKeepsAgreement ==
  ASSUME IInv, Agreement, NEW d \in Devices, NEW h \in AllHandlers,
         QuietMove(d, h)
  PROVE  NothingIsStale' /\ LoneDeviceAgrees'
<1> DEFINE f == flow[d][h]
<1>1. PICK g \in Flow :
        /\ Become(d, h, g) /\ UNCHANGED <<server, meta, abandoned>>
        /\ f.pc \notin Acknowledged /\ g.pc \notin Acknowledged
        /\ Informed(f, g)
  BY DEF QuietMove
<1>2. NothingIsStale'
  <2>1. Current(f, server)
    BY DEF Agreement, NothingIsStale
  <2>2. Current(g, server')
    BY <1>1, <2>1 DEF Current, Informed, Told
  <2>3. server' \in {None, server}
    BY <1>1
  <2> QED
    BY <1>1, <2>2, <2>3, CurrentKept DEF Agreement
<1>3. LoneDeviceAgrees'
  <2> SUFFICES ASSUME NEW e \in Devices,
                      meta'[e] # None /\ server' \notin {None, meta'[e]}
               PROVE  \E k \in Handlers :
                        /\ flow'[e][k].pc \in {"acked", "created"}
                        /\ flow'[e][k].mine = server'
    BY DEF LoneDeviceAgrees
  <2>1. PICK k \in Handlers : /\ flow[e][k].pc \in Acknowledged
                              /\ flow[e][k].mine = server
    BY <1>1 DEF Agreement, LoneDeviceAgrees, Acknowledged
  <2>2. k \in AllHandlers /\ ~(e = d /\ k = h)
    BY <1>1, <2>1, ConstantsAssumption DEF AllHandlers
  <2>3. flow'[e][k] = flow[e][k]
    BY <1>1, <2>2, BecomeReplaces DEF IInv
  <2> QED
    BY <1>1, <2>1, <2>3 DEF Acknowledged
<1> QED
  BY <1>2, <1>3

LEMMA RecordKeepsAgreement ==
  ASSUME AloneAndAnswered, IInv, Agreement,
         NEW d \in Devices, NEW h \in AllHandlers, RecordMove(d, h)
  PROVE  NothingIsStale' /\ LoneDeviceAgrees'
<1> DEFINE f == flow[d][h]
<1>0. Current(f, server)
  BY DEF Agreement, NothingIsStale
<1>1. PICK g \in Flow, c \in Contents \cup {None} :
        /\ Become(d, h, g) /\ UNCHANGED <<server, abandoned>>
        /\ meta' = [meta EXCEPT ![d] = c]
        /\ g.pc \in {"idle", "init"}
        /\ \/ c = None
           \/ c = f.mine /\ f.pc \in Acknowledged
           \/ c = f.theirs /\ f.pc \in Knows
  BY DEF RecordMove
<1>2. NothingIsStale'
  <2>1. Current(g, server')
    BY <1>1 DEF Current, Acknowledged, Knows
  <2>2. server' \in {None, server}
    BY <1>1
  <2> QED
    BY <1>1, <2>1, <2>2, CurrentKept DEF Agreement
<1>3. meta'[d] = c
  BY <1>1 DEF IInv, TypeOK
<1>4. c = None \/ server' \in {None, c}
  BY <1>0, <1>1 DEF Current
<1>5. \A e \in Devices : e = d
  BY DEF AloneAndAnswered
<1>6. LoneDeviceAgrees'
  BY <1>3, <1>4, <1>5 DEF LoneDeviceAgrees
<1> QED
  BY <1>2, <1>6

(* While the row is written for one handler, no other takes anything for   *)
(* its content: they would both hold the lock.                             *)
LEMMA WriteKeepsAgreement ==
  ASSUME AloneAndAnswered, IInv, Agreement,
         NEW d \in Devices, NEW h \in AllHandlers, WriteMove(d, h)
  PROVE  NothingIsStale' /\ LoneDeviceAgrees'
<1> DEFINE f == flow[d][h]
<1>1. PICK p \in Acknowledged :
        /\ f.pc \in {"checked", "post"} /\ Goto(d, h, p)
        /\ server' = f.mine /\ UNCHANGED meta
  BY DEF WriteMove, At, Acknowledged
<1>2. PICK g \in Flow : Become(d, h, g) /\ g.pc = p /\ g.mine = f.mine
  BY <1>1, GotoFields, Positions DEF Acknowledged
<1>3. \A k \in AllHandlers :
        /\ k \in {"boot", "create"} => flow[d][k].pc = "idle"
        /\ flow[d][k].pc # "idle" => k \in Handlers
        /\ k = "delete" => flow[d][k].pc \in {"idle", "del", "failed"}
  BY DEF AloneAndAnswered, Agreement, HandlersInPlace, PlacedFlow, Placed
<1>4. h \in Syncing /\ Locked(d, h) /\ h \in Handlers
  BY <1>1, <1>3 DEF AllHandlers, Syncing, Unlocked, Locked
<1>5. ASSUME NEW k \in AllHandlers, k # h
      PROVE  flow[d][k].pc \notin Acknowledged \cup Knows \cup {"checked"}
  <2>1. CASE k \in Syncing
    <3>1. ~Locked(d, k)
      BY <1>4, <1>5, <2>1 DEF IInv, OneSyncAtATime
    <3> QED
      BY <2>1, <3>1 DEF Locked, Acknowledged, Knows
  <2>2. CASE k \notin Syncing
    BY <1>3, <2>2 DEF AllHandlers, Unlocked, Acknowledged, Knows
  <2> QED
    BY <2>1, <2>2
<1>6. \A e \in Devices : e = d
  BY DEF AloneAndAnswered
<1>7. NothingIsStale'
  <2> SUFFICES ASSUME NEW e \in Devices, NEW k \in AllHandlers
               PROVE  Current(flow'[e][k], server')
    BY DEF NothingIsStale
  <2>1. CASE k = h
    <3>1. flow'[e][k] = g
      BY <1>2, <1>6, <2>1, BecomeReplaces DEF IInv
    <3> QED
      BY <1>1, <1>2, <3>1 DEF Current, Acknowledged, Knows
  <2>2. CASE k # h
    <3>1. flow'[e][k] = flow[d][k]
      BY <1>2, <1>6, <2>2, BecomeReplaces DEF IInv
    <3> QED
      BY <1>5, <2>2, <3>1 DEF Current
  <2> QED
    BY <2>1, <2>2
<1>8. LoneDeviceAgrees'
  <2>1. flow'[d][h] = g
    BY <1>2, BecomeReplaces DEF IInv
  <2>2. flow'[d][h].pc \in {"acked", "created"} /\ flow'[d][h].mine = server'
    BY <1>1, <1>2, <2>1 DEF Acknowledged
  <2> QED
    BY <1>4, <1>6, <2>2 DEF LoneDeviceAgrees
<1> QED
  BY <1>7, <1>8

LEMMA RemoveKeepsAgreement ==
  ASSUME IInv, Agreement, NEW d \in Devices, NEW h \in AllHandlers,
         RemoveMove(d, h)
  PROVE  NothingIsStale' /\ LoneDeviceAgrees'
<1>1. server' = None /\ Become(d, h, Idle) /\ Idle \in Flow
  BY IdleIsFlow DEF RemoveMove
<1>2. Current(Idle, server') /\ server' \in {None, server}
  BY <1>1 DEF Current
<1> QED
  BY <1>1, <1>2, CurrentKept DEF Agreement, LoneDeviceAgrees

LEMMA NextKeepsAgreement ==
  ASSUME AloneAndAnswered, IInv, Agreement, [Next]_vars
  PROVE  Agreement'
<1>1. HandlersInPlace'
  BY NextKeepsPlaces DEF Agreement
<1>2. CASE Still
  BY <1>1, <1>2 DEF Still, Agreement, NothingIsStale, LoneDeviceAgrees
<1>3. ASSUME NEW d \in Devices, NEW h \in AllHandlers, HandlerMove(d, h)
      PROVE  Agreement'
  <2>1. NothingIsStale' /\ LoneDeviceAgrees'
    BY <1>3, QuietKeepsAgreement, RecordKeepsAgreement, WriteKeepsAgreement,
       RemoveKeepsAgreement
    DEF HandlerMove
  <2>2. abandoned' = {}
    BY <1>3
    DEF HandlerMove, QuietMove, RecordMove, WriteMove, RemoveMove, Agreement
  <2> QED
    BY <1>1, <2>1, <2>2 DEF Agreement
<1>4. ASSUME NEW d \in Devices, NEW h \in Handlers, Fault(d, h)
      PROVE  FALSE
  BY <1>4, NoFaults DEF AloneAndAnswered
<1>5. ASSUME NEW d \in Devices, Reload(d) PROVE FALSE
  BY <1>5 DEF AloneAndAnswered, Reload
<1> QED
  BY <1>2, <1>3, <1>4, <1>5, StepShape DEF Agreement

LEMMA InitAgreement == Init => Agreement
<1> SUFFICES ASSUME Init PROVE Agreement
  OBVIOUS
<1>1. HandlersInPlace /\ abandoned = {}
  BY InitPlaces DEF Init
<1>2. NothingIsStale
  BY IdleIsFlow
  DEF Init, NothingIsStale, Current, Acknowledged, Knows, AllHandlers
<1>3. LoneDeviceAgrees
  BY DEF Init, LoneDeviceAgrees
<1> QED
  BY <1>1, <1>2, <1>3 DEF Agreement

LEMMA AgreementHolds == AloneAndAnswered => (Spec => []Agreement)
<1> SUFFICES ASSUME AloneAndAnswered PROVE Spec => []Agreement
  OBVIOUS
<1>1. IInv /\ Agreement /\ [Next]_vars => Agreement'
  BY NextKeepsAgreement
<1> QED
  BY <1>1, InitAgreement, Invariance, PTL DEF Spec

(* Alone and answered, a device that tracks the env agrees with the row,   *)
(* except while the answer to its own write is on its way: for any         *)
(* contents, edits, deletions, flaps of the connection and prompts.        *)
THEOREM LoneDeviceIsInStep == AloneAndAnswered => (Spec => []LoneDeviceAgrees)
<1>1. AloneAndAnswered => (Spec => []Agreement)
  BY AgreementHolds
<1>2. Agreement => LoneDeviceAgrees
  BY DEF Agreement
<1> QED
  BY <1>1, <1>2, PTL

(* The base hash does detect every conflict as long as there is only one   *)
(* writer: an update lands on the content it was based on.  With a second  *)
(* device, or an attempt the client gave up on, it need not.               *)
THEOREM LoneUpdateReplacesItsBase ==
  AloneAndAnswered => (Spec => UpdateReplacesItsBase)
<1> DEFINE OnItsBase ==
      \A d \in Devices, h \in Handlers :
        At(d, h, "checked") /\ flow'[d][h].pc = "acked"
          => server = flow[d][h].theirs
<1>1. ASSUME AloneAndAnswered, IInv, Agreement, [Next]_vars PROVE OnItsBase
  <2> SUFFICES ASSUME NEW d \in Devices, NEW h \in Handlers,
                      At(d, h, "checked"), flow'[d][h].pc = "acked"
               PROVE  server = flow[d][h].theirs
    OBVIOUS
  <2>0. h \in AllHandlers
    BY ConstantsAssumption DEF AllHandlers
  <2>1. flow'[d][h] # flow[d][h]
    BY DEF At
  <2>2. CASE \E e \in Devices, k \in AllHandlers : HandlerMove(e, k)
    <3>1. PICK e \in Devices, k \in AllHandlers : HandlerMove(e, k)
      BY <2>2
    <3>2. PICK g \in Flow : Become(e, k, g)
      <4>1. CASE QuietMove(e, k) \/ RecordMove(e, k)
        BY <4>1 DEF QuietMove, RecordMove
      <4>2. CASE WriteMove(e, k)
        <5>1. PICK p \in Acknowledged : Goto(e, k, p)
          BY <4>2 DEF WriteMove, Acknowledged
        <5>2. p \in PCs
          BY <5>1, Positions DEF Acknowledged
        <5> QED
          BY <1>1, <5>1, <5>2, GotoFields
      <4>3. CASE RemoveMove(e, k)
        BY <4>3, IdleIsFlow DEF RemoveMove
      <4> QED
        BY <3>1, <4>1, <4>2, <4>3 DEF HandlerMove
    <3>3. e = d /\ k = h
      BY <1>1, <2>0, <2>1, <3>2, BecomeReplaces DEF IInv
    <3>4. CASE QuietMove(d, h) \/ RecordMove(d, h)
      <4>1. PICK q \in Flow : Become(d, h, q) /\ q.pc # "acked"
        BY <3>4 DEF QuietMove, RecordMove, Acknowledged
      <4> QED
        BY <1>1, <2>0, <4>1, BecomeReplaces DEF IInv
    <3>5. CASE WriteMove(d, h)
      BY <1>1, <2>0, <3>5
      DEF WriteMove, At, Agreement, NothingIsStale, Current
    <3>6. CASE RemoveMove(d, h)
      BY <3>6 DEF RemoveMove, At
    <3> QED
      BY <3>1, <3>3, <3>4, <3>5, <3>6 DEF HandlerMove
  <2>3. ASSUME NEW e \in Devices, NEW k \in Handlers, Fault(e, k)
        PROVE  FALSE
    BY <1>1, <2>3, NoFaults DEF AloneAndAnswered
  <2>4. ASSUME NEW e \in Devices, Reload(e) PROVE FALSE
    BY <1>1, <2>4 DEF AloneAndAnswered, Reload
  <2> QED
    BY <1>1, <2>1, <2>2, <2>3, <2>4, StepShape DEF Still, Agreement
<1> SUFFICES ASSUME AloneAndAnswered PROVE Spec => UpdateReplacesItsBase
  OBVIOUS
<1>2. IInv /\ Agreement /\ [Next]_vars => [OnItsBase]_vars
  BY <1>1
<1>3. Spec => []Agreement
  BY AgreementHolds
<1> HIDE DEF OnItsBase
<1>4. Spec => [][OnItsBase]_vars
  BY <1>2, <1>3, Invariance, PTL DEF Spec
<1> QED
  BY <1>4 DEF OnItsBase, UpdateReplacesItsBase

-----------------------------------------------------------------------------
(***************************************************************************)
(* A device that stays connected and whose file is only edited: what a     *)
(* poll without a prompt overwrites.  With a flap of the connection, a     *)
(* replayed push that meets the poll's lock takes the queued edit off the  *)
(* queue and the poll then overwrites it; a file that is removed and       *)
(* created again under a poll fires no save.  A window may be reloaded in  *)
(* the middle of all this, as long as its startup check finds the row and  *)
(* does not offer to remove the file.                                      *)
(***************************************************************************)
StaysConnected ==
  /\ MaxFlaps = 0
  /\ "delete" \notin Handlers
  /\ "boot" \in Handlers => InitialRow # None /\ MaxFaults = 0

Connected == online = Devices /\ \A d \in Devices : replay[d] = "idle"

(* The save of what the file holds is still to come.                       *)
SaveIsDue(d) == \/ due[d] \cap {"change", "immediate"} # {}
                \/ d \in pendingSyncs \cup queued

Recoverable(d) == file[d] \in held \/ SaveIsDue(d)

PollWeighs(d) == flow[d]["poll"].pc \in Weighing

(* The file still holds what the poll has read, or nothing is lost with it.*)
PollIsSafe ==
  \A d \in Devices : PollWeighs(d) =>
    /\ file[d] # None
    /\ file[d] = flow[d]["poll"].mine \/ Recoverable(d)

(* A startup check sees the row, which nobody removes.                     *)
NoZombies ==
  "boot" \in Handlers =>
    /\ server # None
    /\ \A d \in Devices :
         /\ At(d, "boot", "listed") => flow[d]["boot"].theirs # None
         /\ ~At(d, "boot", "askZombie")

Undisturbed == HandlersInPlace /\ Connected /\ NoZombies /\ PollIsSafe

(***************************************************************************)
(* What a step of device e does to the files: those of the others stay,    *)
(* and a file its poll is weighing stays or is recoverable.                *)
(***************************************************************************)
SameFile(d) ==
  /\ file'[d] = file[d] /\ due'[d] = due[d]
  /\ d \in pendingSyncs' <=> d \in pendingSyncs
  /\ d \in queued' <=> d \in queued

Steady(d) ==
  /\ file'[d] # None
  /\ \/ file'[d] = file[d] /\ (Recoverable(d) => Recoverable(d)')
     \/ Recoverable(d)'

Local(e) ==
  /\ held \subseteq held'
  /\ UNCHANGED <<online, replay>>
  /\ \A d \in Devices : d # e => SameFile(d)
  /\ PollWeighs(e) /\ PollWeighs(e)' => Steady(e)

LEMMA UnchangedIsLocal ==
  ASSUME Undisturbed, NEW e \in Devices, held \subseteq held',
         UNCHANGED <<file, due, pendingSyncs, queued, online, replay>>
  PROVE  Local(e)
  BY DEF Undisturbed, PollIsSafe, Local, SameFile, Steady, Recoverable,
         SaveIsDue

LEMMA ClientUnchangedIsLocal ==
  ASSUME Undisturbed, NEW e \in Devices, held \subseteq held', clientUnchanged
  PROVE  Local(e)
  BY UnchangedIsLocal DEF clientUnchanged, storeVars, memVars

(* While the poll holds the lock no other handler of the device does.      *)
LEMMA PollHoldsTheLock ==
  ASSUME IInv, NEW d \in Devices, PollWeighs(d)
  PROVE  /\ d \in activeSyncs
         /\ \A h \in Syncing \ {"poll"} : flow[d][h].pc \in {"idle", "loop"}
<1>1. "poll" \in Syncing /\ Locked(d, "poll")
  BY DEF PollWeighs, Weighing, Locked, Syncing
<1>2. \A h \in Syncing \ {"poll"} : ~Locked(d, h)
  BY <1>1 DEF IInv, OneSyncAtATime
<1>3. d \in activeSyncs
  BY <1>1 DEF IInv, OneSyncAtATime
<1> QED
  BY <1>2, <1>3 DEF Locked

(* A handler that ends hands on a coalesced save, or leaves it coalesced.  *)
LEMMA ReleaseIsLocal ==
  ASSUME IInv, Undisturbed, NEW e \in Devices, NEW h \in AllHandlers,
         NEW r \in BOOLEAN, Release(e, h, r), Running(flow[e][h]),
         UNCHANGED <<held, file, queued, online>>
  PROVE  Local(e)
<1>1. UNCHANGED replay
  <2>1. replay[e] = "idle" /\ replay \in [Devices -> {"idle", "due",
          "running", "succeeded", "failed"}]
    BY DEF Undisturbed, Connected, IInv, TypeOK
  <2> QED
    BY <2>1 DEF Release, Settle
<1>2. \A d \in Devices : d # e => SameFile(d)
  BY DEF SameFile, Release, Drain, IInv, TypeOK
<1>3. PollWeighs(e) => Steady(e)
  <2> SUFFICES ASSUME PollWeighs(e) PROVE Steady(e)
    OBVIOUS
  <2>1. h # "save"
    BY PollHoldsTheLock DEF Running, Syncing
  <2>2. UNCHANGED <<pendingSyncs, due>>
    BY <2>1 DEF Release, Drain
  <2> QED
    BY <2>2 DEF Undisturbed, PollIsSafe, Steady, Recoverable, SaveIsDue
<1> QED
  BY <1>1, <1>2, <1>3 DEF Local

LEMMA EndIsLocal ==
  ASSUME IInv, Undisturbed, NEW e \in Devices, NEW h \in AllHandlers,
         Running(flow[e][h]),
         End(e, h) \/ \E c : EndSynced(e, h, c)
  PROVE  Local(e)
<1>1. Release(e, h, TRUE) /\ UNCHANGED <<held, file, queued, online>>
  BY DEF End, EndSynced, serverUnchanged, serverVars, storeVars
<1> QED
  BY <1>1, ReleaseIsLocal

(* The remote content is written over the file: the row has held it.       *)
LEMMA OverwriteIsLocal ==
  ASSUME IInv, Undisturbed, NEW e \in Devices, NEW h \in AllHandlers,
         flow[e][h].pc \in Knows, WriteFile(e, flow[e][h].theirs),
         UNCHANGED <<held, pendingSyncs, queued, online, replay>>
  PROVE  Local(e)
<1> DEFINE c == flow[e][h].theirs
<1>1. c \in held /\ c # None
  BY FlowFacts, ConstantsAssumption DEF Sound, IInv, TypeOK
<1>2. file'[e] = c
  BY DEF WriteFile, IInv, TypeOK
<1>3. \A d \in Devices : d # e => SameFile(d)
  BY DEF WriteFile, SameFile, IInv, TypeOK
<1> QED
  BY <1>1, <1>2, <1>3 DEF Local, Steady, Recoverable

-----------------------------------------------------------------------------
LEMMA UserIsLocal ==
  ASSUME StaysConnected, IInv, Undisturbed, NEW e \in Devices,
         User(e) \/ GoOnline(e)
  PROVE  Local(e)
<1> USE DEF serverUnchanged, serverVars, storeVars, memVars
<1>1. ASSUME NEW c \in Contents, Edit(e, c) PROVE Local(e)
  <2>1. /\ c # file[e] /\ c # None /\ WriteFile(e, c)
        /\ UNCHANGED <<held, pendingSyncs, queued, online, replay>>
    BY <1>1, ConstantsAssumption DEF Edit
  <2>2. file'[e] = c /\ (file[e] # None => "change" \in due'[e])
    BY <2>1 DEF WriteFile, IInv, TypeOK
  <2>3. \A d \in Devices : d # e => SameFile(d)
    BY <2>1 DEF WriteFile, SameFile, IInv, TypeOK
  <2>4. PollWeighs(e) => file[e] # None
    BY DEF Undisturbed, PollIsSafe
  <2> QED
    BY <2>1, <2>2, <2>3, <2>4 DEF Local, Steady, Recoverable, SaveIsDue
<1>2. ~RemoveFile(e)
  BY DEF StaysConnected, RemoveFile
<1>3. ~GoOffline(e)
  <2>1. used.flaps \in Nat /\ Bound.flaps = 0
    BY DEF StaysConnected, IInv, TypeOK, Bound
  <2> QED
    BY <2>1 DEF GoOffline, Spend
<1>4. ~GoOnline(e)
  BY DEF Undisturbed, Connected, GoOnline
<1>5. CASE Reload(e)
  <2>1. UNCHANGED <<online, replay, held>>
    BY <1>5 DEF Reload, Undisturbed, Connected, IInv, TypeOK
  <2>2. \A d \in Devices : d # e => SameFile(d)
    BY <1>5 DEF Reload, SameFile, IInv, TypeOK
  <2>3. flow'[e]["poll"] = Idle
    BY <1>5 DEF Reload, IInv, TypeOK, Syncing
  <2>4. ~PollWeighs(e)'
    BY <2>3, IdleIsFlow DEF PollWeighs, Weighing
  <2> QED
    BY <2>1, <2>2, <2>4 DEF Local
<1> QED
  BY <1>1, <1>2, <1>3, <1>4, <1>5 DEF User

LEMMA UntrackedIsLocal ==
  ASSUME IInv, Undisturbed, NEW e \in Devices, NEW h \in AllHandlers,
         Running(flow[e][h]), NEW local, NEW remote,
         Untracked(e, h, local, remote)
  PROVE  Local(e)
<1> USE DEF serverUnchanged, serverVars, storeVars, memVars
<1>1. CASE End(e, h)
  BY <1>1, EndIsLocal
<1>2. CASE clientUnchanged /\ UNCHANGED held
  BY <1>2, ClientUnchangedIsLocal
<1>3. CASE /\ Goto(e, h, "askInit")
           /\ serverUnchanged
           /\ UNCHANGED <<file, due, meta, queued, memVars, online>>
  BY <1>3, UnchangedIsLocal
<1> QED
  BY <1>1, <1>2, <1>3 DEF Untracked, PromptInit, Await

LEMMA BootStepIsLocal ==
  ASSUME StaysConnected, IInv, Undisturbed, NEW e \in Devices, BootStep(e)
  PROVE  Local(e)
<1> DEFINE f == flow[e]["boot"]
<1> USE DEF serverUnchanged, serverVars, storeVars, memVars
<1>0. "boot" \in AllHandlers
  BY DEF AllHandlers, Unlocked
<1>1. Running(f)
  BY DEF BootStep, Reconcile, ZombieReinitialize, DeclineReinit,
         ZombieDeleteLocal, ZombieSkip, At, Running
<1>2. CASE End(e, "boot") \/ EndSynced(e, "boot", None)
  BY <1>0, <1>1, <1>2, EndIsLocal
<1>3. CASE /\ serverUnchanged
           /\ UNCHANGED <<file, due, meta, queued, memVars, online>>
  BY <1>3, UnchangedIsLocal
<1>4. CASE clientUnchanged /\ UNCHANGED held
  BY <1>4, ClientUnchangedIsLocal
<1>5. ASSUME NEW local, NEW remote, Untracked(e, "boot", local, remote)
      PROVE  Local(e)
  BY <1>0, <1>1, <1>5, UntrackedIsLocal
<1>6. ~ZombieDeleteLocal(e)
  <2>1. "boot" \in Handlers
    BY <1>0, <1>1
    DEF Undisturbed, HandlersInPlace, PlacedFlow, Placed, Running
  <2> QED
    BY <2>1 DEF Undisturbed, NoZombies, ZombieDeleteLocal
<1> QED
  BY <1>2, <1>3, <1>4, <1>5, <1>6
  DEF BootStep, Reconcile, ZombieReinitialize, DeclineReinit, ZombieSkip,
      Await

LEMMA HandlerStepIsLocal ==
  ASSUME IInv, Undisturbed, NEW e \in Devices, NEW h \in AllHandlers,
         HandlerStep(e, h) \/ Fault(e, h)
  PROVE  Local(e)
<1> DEFINE f == flow[e][h]
<1> USE DEF serverUnchanged, serverVars, storeVars, memVars
<1>1. CASE ServerStep(e, h)
  <2>1. held \subseteq held' /\ clientUnchanged
    BY <1>1
    DEF ServerStep, ServeGet, ServeList, CheckUpdate, ApplyUpdate,
        ServeCreate, ServeDelete, Put
  <2> QED
    BY <2>1, ClientUnchangedIsLocal
<1>2. CASE Fault(e, h)
  <2>1. CASE GiveUpWrite(e, h)
    <3>1. /\ Running(f) /\ Release(e, h, TRUE)
          /\ UNCHANGED <<held, file, queued, online>>
      BY <2>1 DEF GiveUpWrite, Running, UpdatePCs, CreatePCs
    <3> QED
      BY <3>1, ReleaseIsLocal
  <2>2. CASE RetryWrite(e, h) \/ FailRequest(e, h)
    <3>1. UNCHANGED held /\ clientUnchanged
      BY <2>2 DEF RetryWrite, FailRequest
    <3> QED
      BY <3>1, ClientUnchangedIsLocal
  <2> QED
    BY <1>2, <2>1, <2>2 DEF Fault
<1>3. CASE SyncStep(e, h)
  <2>1. CASE UploadDone(e, h)
    <3>1. /\ Running(f) /\ Release(e, h, TRUE)
          /\ UNCHANGED <<held, file, queued, online>>
      BY <2>1 DEF UploadDone, At, Running
    <3> QED
      BY <3>1, ReleaseIsLocal
  <2>2. CASE End(e, h) /\ ~UploadDone(e, h)
    <3>1. Running(f)
      BY <1>3, <2>2
      DEF SyncStep, UploadRefused, UseLocal, UseRemote, Dismiss, Override,
          Pulled, ApplyRemote, At, Running
    <3> QED
      BY <2>2, <3>1, EndIsLocal
  <2>3. CASE ApplyRemote(e, h)
    <3>1. f.pc \in Knows
      BY <2>3 DEF ApplyRemote, At, Knows
    <3>2. CASE file[e] = None
      BY <2>3, <3>2, UnchangedIsLocal DEF ApplyRemote
    <3>3. CASE file[e] # None
      BY <2>3, <3>1, <3>3, OverwriteIsLocal DEF ApplyRemote
    <3> QED
      BY <3>2, <3>3
  <2>4. CASE \E p \in PCs : Await(e, h, p)
    BY <2>4, ClientUnchangedIsLocal DEF Await
  <2> QED
    BY <1>3, <2>1, <2>2, <2>3, <2>4, Positions
    DEF SyncStep, UploadRefused, UseLocal, UseRemote, Dismiss, Override,
        Pulled
<1>4. CASE InitStep(e, h)
  <2>1. Running(f)
    BY <1>4
    DEF InitStep, InitChecked, Listed, AcceptInit, DeclineInit,
        AcceptRestore, DeclineRestore, FirstUseLocal, FirstUseRemote,
        FirstCancel, Created, CreateRefused, Restored, FirstGot,
        FirstUpdateFails, SaveMeta, Failed, At, Running, UpdatePCs
  <2>2. CASE End(e, h) \/ \E c : EndSynced(e, h, c)
    BY <2>1, <2>2, EndIsLocal
  <2>3. CASE clientUnchanged /\ UNCHANGED held
    BY <2>3, ClientUnchangedIsLocal
  <2>4. CASE f.pc \in Knows /\ Overwrite(e, h)
    BY <2>4, OverwriteIsLocal DEF Overwrite
  <2>5. CASE DeclineInit(e, h) \/ Failed(e, h)
    <3>1. \E r \in BOOLEAN :
            Release(e, h, r) /\ UNCHANGED <<held, file, queued, online>>
      BY <2>5 DEF DeclineInit, Failed
    <3> QED
      BY <2>1, <3>1, ReleaseIsLocal
  <2>6. ASSUME NEW local, NEW remote, Untracked(e, h, local, remote)
        PROVE  Local(e)
    BY <2>1, <2>6, UntrackedIsLocal
  <2> QED
    BY <1>4, <2>2, <2>3, <2>4, <2>5, <2>6
    DEF InitStep, InitChecked, Listed, AcceptInit, AcceptRestore,
        DeclineRestore, FirstUseLocal, FirstUseRemote, FirstCancel, Created,
        CreateRefused, Restored, FirstGot, FirstUpdateFails, SaveMeta, At,
        Knows, Await
<1> QED
  BY <1>1, <1>2, <1>3, <1>4 DEF HandlerStep

LEMMA DeviceStepIsLocal ==
  ASSUME StaysConnected, IInv, Undisturbed, NEW e \in Devices,
         DeviceStep(e) \/ BootStep(e)
  PROVE  Local(e)
<1> USE DEF serverUnchanged, serverVars, storeVars, memVars
<1>0. {"save", "poll", "push"} \subseteq AllHandlers /\ "boot" \in AllHandlers
  BY DEF AllHandlers, Syncing, Unlocked
<1>1. e \in online /\ replay[e] = "idle"
  BY DEF Undisturbed, Connected
<1>2. /\ PollWeighs(e) => e \in activeSyncs
      /\ file[e] = None => ~PollWeighs(e)
  BY PollHoldsTheLock DEF Undisturbed, PollIsSafe
<1>3. CASE SaveEvent(e)
  <2>0. PICK v \in SaveEvents(e) :
          \/ SaveOffline(e, v) \/ SaveCoalesced(e, v) \/ SaveNoFile(e, v)
          \/ SaveUnchanged(e, v) \/ SaveStart(e, v)
    BY <1>3 DEF SaveEvent
  <2>1. held \subseteq held' /\ UNCHANGED <<online, replay, file, queued>>
    BY <1>1, <2>0
    DEF SaveOffline, SaveCoalesced, SaveNoFile, SaveUnchanged, SaveStart
  <2>2. \A d \in Devices : d # e => SameFile(d)
    BY <1>1, <2>0, <2>1
    DEF SaveOffline, SaveCoalesced, SaveNoFile, SaveUnchanged, SaveStart,
        Fired, SameFile, IInv, TypeOK
  <2>3. PollWeighs(e) => e \in pendingSyncs' /\ file[e] # None
    BY <1>1, <1>2, <2>0
    DEF SaveOffline, SaveCoalesced, SaveNoFile, SaveUnchanged, SaveStart
  <2> QED
    BY <2>1, <2>2, <2>3 DEF Local, Steady, Recoverable, SaveIsDue
<1>4. CASE CreateEvent(e)
  <2>1. /\ UNCHANGED <<held, online, replay, file, queued, pendingSyncs>>
        /\ due' = [due EXCEPT ![e] = @ \ {"create"}]
    BY <1>4 DEF CreateEvent, Fired
  <2>2. /\ \A d \in Devices : d # e => SameFile(d)
        /\ due'[e] = due[e] \ {"create"}
    BY <2>1 DEF SameFile, IInv, TypeOK
  <2>3. due'[e] \cap {"change", "immediate"}
          = due[e] \cap {"change", "immediate"}
    BY <2>2
  <2> QED
    BY <1>2, <2>1, <2>2, <2>3 DEF Local, Steady, Recoverable, SaveIsDue
<1>5. ~DeleteEvent(e)
  BY DEF StaysConnected, DeleteEvent, CanStart
<1>6. CASE Save404(e)
  <2>1. At(e, "save", "gone") /\ ~PollWeighs(e)
    BY <1>6, PollHoldsTheLock DEF Save404, At, Syncing
  <2>2. CASE Release(e, "save", TRUE)
    BY <1>0, <1>6, <2>1, <2>2, ReleaseIsLocal DEF Save404, At, Running
  <2>3. CASE ~Release(e, "save", TRUE)
    BY <1>6, <2>3, UnchangedIsLocal DEF Save404
  <2> QED
    BY <2>2, <2>3
<1>7. CASE Push404(e)
  BY <1>0, <1>7, EndIsLocal DEF Push404, At, Running
<1>8. CASE PollStart(e) \/ PollVisit(e) \/ PollMissing(e) \/ PollFetched(e)
  <2>1. CASE End(e, "poll") /\ At(e, "poll", "fetched")
    BY <1>0, <2>1, EndIsLocal DEF At, Running
  <2>2. CASE ~(End(e, "poll") /\ At(e, "poll", "fetched"))
    <3>1. UNCHANGED <<held, file, due, pendingSyncs, queued, online, replay>>
      BY <1>8, <2>2
      DEF PollStart, PollVisit, PollMissing, PollFetched, Await,
          clientUnchanged
    <3> QED
      BY <3>1, UnchangedIsLocal
  <2> QED
    BY <2>1, <2>2
<1>9. CASE PushCommand(e)
  BY <1>9, UnchangedIsLocal DEF PushCommand, PushStart
<1>10. ~PushOffline(e) /\ ~ReplayPush(e) /\ ~ReplayEnd(e)
  BY <1>1 DEF PushOffline, ReplayPush, ReplayEnd
<1>11. CASE BootStep(e)
  BY <1>11, BootStepIsLocal
<1> QED
  BY <1>3, <1>4, <1>5, <1>6, <1>7, <1>8, <1>9, <1>10, <1>11 DEF DeviceStep

LocalStep ==
  /\ held \subseteq held'
  /\ UNCHANGED <<online, replay>>
  /\ \A d \in Devices : PollWeighs(d) /\ PollWeighs(d)' => Steady(d)

LEMMA LocalIsLocalStep ==
  ASSUME Undisturbed, NEW e \in Devices, Local(e)
  PROVE  LocalStep
<1> SUFFICES ASSUME NEW d \in Devices, PollWeighs(d), PollWeighs(d)'
             PROVE  Steady(d)
  BY DEF Local, LocalStep
<1>1. CASE d = e
  BY <1>1 DEF Local
<1>2. CASE d # e
  BY <1>2
  DEF Local, SameFile, Steady, Recoverable, SaveIsDue, Undisturbed,
      PollIsSafe
<1> QED
  BY <1>1, <1>2

LEMMA NextIsLocal ==
  ASSUME StaysConnected, IInv, Undisturbed, [Next]_vars
  PROVE  LocalStep
<1>0. Handlers \subseteq AllHandlers
  BY ConstantsAssumption DEF AllHandlers
<1>1. ASSUME held \subseteq held', clientUnchanged PROVE LocalStep
  BY <1>1
  DEF LocalStep, clientUnchanged, storeVars, memVars, Steady, Recoverable,
      SaveIsDue, Undisturbed, PollIsSafe
<1>2. CASE UNCHANGED vars
  <2>1. held \subseteq held' /\ clientUnchanged
    BY <1>2 DEF vars, serverVars, clientUnchanged
  <2> QED
    BY <1>1, <2>1
<1>3. ASSUME NEW r \in abandoned, FinishAbandoned(r) \/ DropAbandoned(r)
      PROVE  LocalStep
  <2>1. held \subseteq held' /\ clientUnchanged
    BY <1>3 DEF FinishAbandoned, DropAbandoned, Put
  <2> QED
    BY <1>1, <2>1
<1>4. ASSUME NEW e \in Devices,
             \/ User(e) \/ GoOnline(e) \/ DeviceStep(e) \/ BootStep(e)
             \/ \E h \in Handlers : HandlerStep(e, h) \/ Fault(e, h)
      PROVE  LocalStep
  BY <1>0, <1>4, UserIsLocal, HandlerStepIsLocal, DeviceStepIsLocal,
     LocalIsLocalStep
<1> QED
  BY <1>2, <1>3, <1>4 DEF Next

(* A poll that weighs a remote content after a step did so before, or has  *)
(* just read the file.                                                     *)
LEMMA PollComesToWeigh ==
  ASSUME IInv, HandlersInPlace, [Next]_vars,
         NEW d \in Devices, PollWeighs(d)'
  PROVE  \/ PollWeighs(d) /\ flow'[d]["poll"].mine = flow[d]["poll"].mine
         \/ /\ flow'[d]["poll"].mine = file[d] /\ file[d] # None
            /\ UNCHANGED file
<1> DEFINE f == flow[d]["poll"]
           g == flow'[d]["poll"]
<1>0. "poll" \in AllHandlers /\ Handlers \subseteq AllHandlers
  BY ConstantsAssumption DEF AllHandlers, Syncing
<1>1. CASE g = f
  BY <1>1 DEF PollWeighs
<1>2. CASE g # f
  <2>1. ASSUME NEW e \in Devices, NEW h \in AllHandlers, HandlerMove(e, h)
        PROVE  Weighed(d, f, g)
    <3>1. CASE QuietMove(e, h)
      <4>1. PICK q \in Flow :
              /\ Become(e, h, q)
              /\ PlacedFlow(flow[e][h], h) /\ h = "poll"
                   => Weighed(e, flow[e][h], q)
        BY <3>1 DEF QuietMove
      <4>2. e = d /\ h = "poll" /\ g = q
        BY <1>0, <1>2, <4>1, BecomeReplaces DEF IInv
      <4> QED
        BY <1>0, <4>1, <4>2 DEF HandlersInPlace
    <3>2. CASE RecordMove(e, h)
      <4>1. PICK q \in Flow : Become(e, h, q) /\ q.pc \in {"idle", "init"}
        BY <3>2 DEF RecordMove
      <4>2. g = q
        BY <1>0, <1>2, <4>1, BecomeReplaces DEF IInv
      <4> QED
        BY <4>1, <4>2 DEF Weighed, Weighing
    <3>3. CASE WriteMove(e, h)
      <4>1. PICK p \in Acknowledged : Goto(e, h, p)
        BY <3>3 DEF WriteMove, Acknowledged
      <4>2. PICK q \in Flow : Become(e, h, q) /\ q.pc = p
        BY <4>1, GotoFields, Positions DEF Acknowledged
      <4>3. g = q
        BY <1>0, <1>2, <4>2, BecomeReplaces DEF IInv
      <4> QED
        BY <4>1, <4>2, <4>3 DEF Weighed, Weighing, Acknowledged
    <3>4. CASE RemoveMove(e, h)
      <4>1. g = Idle
        BY <1>0, <1>2, <3>4, IdleIsFlow, BecomeReplaces
        DEF IInv, RemoveMove
      <4> QED
        BY <4>1, IdleIsFlow DEF Weighed, Weighing
    <3> QED
      BY <2>1, <3>1, <3>2, <3>3, <3>4 DEF HandlerMove
  <2>2. ASSUME NEW e \in Devices, NEW h \in Handlers, Fault(e, h)
        PROVE  Weighed(d, f, g)
    <3>1. PICK q : Become(e, h, q) /\ q.pc \notin Weighing /\ q \in Flow
      <4>1. h \in AllHandlers
        BY <1>0
      <4>2. CASE GiveUpWrite(e, h)
        BY <4>2, IdleIsFlow DEF GiveUpWrite, Release, Weighing
      <4>3. CASE FailRequest(e, h) /\ At(e, h, "list")
        <5> DEFINE q == [flow[e][h] EXCEPT !.pc = "listed",
                                           !.theirs = None]
        <5>1. q \in Flow /\ q.pc = "listed"
          BY <4>1, FlowFacts, Positions DEF Flow
        <5>2. Become(e, h, q)
          BY <4>3 DEF FailRequest
        <5> QED
          BY <5>1, <5>2 DEF Weighing
      <4>4. CASE \/ RetryWrite(e, h)
                 \/ FailRequest(e, h) /\ ~At(e, h, "list")
        <5>1. PICK p \in {"put", "post", "failed"} : Goto(e, h, p)
          BY <4>4 DEF RetryWrite, FailRequest
        <5>2. PICK q \in Flow : Become(e, h, q) /\ q.pc = p
          BY <4>1, <5>1, GotoFields, Positions
        <5> QED
          BY <5>2 DEF Weighing
      <4> QED
        BY <2>2, <4>2, <4>3, <4>4 DEF Fault
    <3>2. g = q
      BY <1>0, <1>2, <3>1, BecomeReplaces DEF IInv
    <3> QED
      BY <3>1, <3>2 DEF Weighed
  <2>3. ASSUME NEW e \in Devices, Reload(e) PROVE Weighed(d, f, g)
    <3>1. CASE e = d
      <4>1. g = Idle
        BY <2>3, <3>1 DEF Reload, IInv, TypeOK, Syncing
      <4> QED
        BY <4>1, IdleIsFlow DEF Weighed, Weighing
    <3>2. CASE e # d
      BY <1>2, <2>3, <3>2 DEF Reload, IInv, TypeOK
    <3> QED
      BY <3>1, <3>2
  <2>4. ASSUME NEW r \in abandoned, FinishAbandoned(r) \/ DropAbandoned(r)
        PROVE  FALSE
    BY <1>2, <2>4 DEF FinishAbandoned, DropAbandoned
  <2>5. Weighed(d, f, g)
    BY <1>2, <2>1, <2>2, <2>3, <2>4, StepShape DEF Still
  <2> QED
    BY <2>5 DEF Weighed, PollWeighs
<1> QED
  BY <1>1, <1>2

(* Where a startup check sees the row it goes on seeing it.                *)
LEMMA NextKeepsNoZombies ==
  ASSUME StaysConnected, IInv, Undisturbed, [Next]_vars
  PROVE  NoZombies'
<1> SUFFICES ASSUME "boot" \in Handlers PROVE NoZombies'
  BY DEF NoZombies
<1> DEFINE Fine(f) == /\ f.pc = "listed" => f.theirs # None
                      /\ f.pc # "askZombie"
<1>0. "boot" \in AllHandlers /\ server # None
  BY DEF AllHandlers, Unlocked, Undisturbed, NoZombies
<1>1. \A d \in Devices : Fine(flow[d]["boot"])
  BY DEF Undisturbed, NoZombies, At
<1>2. SUFFICES /\ server' # None
               /\ \A d \in Devices : Fine(flow'[d]["boot"])
  BY DEF NoZombies, At
<1>3. ASSUME NEW d \in Devices, NEW h \in AllHandlers, HandlerMove(d, h)
      PROVE  /\ server' # None
             /\ \E g \in Flow : Become(d, h, g) /\ (h = "boot" => Fine(g))
  <2> DEFINE f == flow[d][h]
  <2>1. CASE QuietMove(d, h)
    <3>1. PICK g \in Flow :
            /\ Become(d, h, g) /\ UNCHANGED server
            /\ Informed(f, g)
            /\ g.pc = "askZombie" => Zombie(f)
      BY <2>1 DEF QuietMove
    <3>2. f.pc \in Knows => f.theirs # None
      BY FlowFacts, ConstantsAssumption DEF Sound, IInv, TypeOK
    <3>3. h = "boot" => Fine(g)
      BY <1>0, <1>1, <3>1, <3>2 DEF Informed, Told, Zombie
    <3> QED
      BY <1>0, <3>1, <3>3
  <2>2. CASE RecordMove(d, h)
    <3>1. PICK g \in Flow :
            Become(d, h, g) /\ UNCHANGED server /\ g.pc \in {"idle", "init"}
      BY <2>2 DEF RecordMove
    <3> QED
      BY <1>0, <3>1
  <2>3. CASE WriteMove(d, h)
    <3>1. PICK p \in Acknowledged :
            Goto(d, h, p) /\ server' = f.mine /\ f.pc \in {"checked", "post"}
      BY <2>3 DEF WriteMove, Acknowledged, At
    <3>2. PICK g \in Flow : Become(d, h, g) /\ g.pc = p
      BY <3>1, GotoFields, Positions DEF Acknowledged
    <3>3. f.mine # None
      BY <3>1, FlowFacts DEF Sound, Sends, UpdatePCs, CreatePCs
    <3> QED
      BY <3>1, <3>2, <3>3 DEF Acknowledged
  <2>4. CASE RemoveMove(d, h)
    <3>1. h = "delete" /\ h \in Handlers
      BY <2>4, FlowFacts
      DEF RemoveMove, At, Sound, Undisturbed, HandlersInPlace, PlacedFlow,
          Placed
    <3> QED
      BY <3>1 DEF StaysConnected
  <2> QED
    BY <1>3, <2>1, <2>2, <2>3, <2>4 DEF HandlerMove
<1>4. CASE \E d \in Devices, h \in AllHandlers : HandlerMove(d, h)
  <2>1. PICK d \in Devices, h \in AllHandlers, g \in Flow :
          /\ server' # None /\ Become(d, h, g)
          /\ h = "boot" => Fine(g)
    BY <1>3, <1>4
  <2> QED
    BY <1>0, <1>1, <2>1, BecomeReplaces DEF IInv
<1>5. ASSUME NEW d, NEW h, Fault(d, h) PROVE FALSE
  BY <1>5, NoFaults DEF StaysConnected
<1>6. CASE \E d \in Devices : Reload(d)
  <2>1. PICK d \in Devices : Reload(d)
    BY <1>6
  <2>2. flow' = [flow EXCEPT ![d] = [k \in AllHandlers |->
                   IF k = "boot" THEN Starting ELSE Idle]]
    BY <2>1 DEF Reload, Starting, AllHandlers
  <2>3. flow'[d]["boot"] = Starting
    BY <1>0, <2>2 DEF IInv, TypeOK
  <2>4. \A e \in Devices : e # d => flow'[e] = flow[e]
    BY <2>2 DEF IInv, TypeOK
  <2>5. server' # None
    BY <1>0, <2>1 DEF Reload
  <2>6. Fine(flow'[d]["boot"])
    BY <2>3, StartingFields
  <2> QED
    BY <1>1, <2>4, <2>5, <2>6
<1>7. ASSUME NEW r \in abandoned, FinishAbandoned(r) \/ DropAbandoned(r)
      PROVE  server' # None /\ UNCHANGED flow
  <2>1. r.content # None
    BY ConstantsAssumption DEF IInv, TypeOK, Abandoned
  <2> QED
    BY <1>0, <1>7, <2>1 DEF FinishAbandoned, DropAbandoned, Put
<1> QED
  BY <1>0, <1>1, <1>4, <1>5, <1>6, <1>7, StepShape DEF Still

LEMMA NextKeepsUndisturbed ==
  ASSUME StaysConnected, IInv, Undisturbed, [Next]_vars
  PROVE  Undisturbed'
<1>1. LocalStep
  BY NextIsLocal
<1>2. HandlersInPlace'
  BY NextKeepsPlaces DEF Undisturbed
<1>3. Connected'
  BY <1>1 DEF LocalStep, Undisturbed, Connected
<1>4. PollIsSafe'
  <2> SUFFICES ASSUME NEW d \in Devices, PollWeighs(d)'
               PROVE  /\ file'[d] # None
                      /\ \/ file'[d] = flow'[d]["poll"].mine
                         \/ Recoverable(d)'
    BY DEF PollIsSafe
  <2>0. PollWeighs(d)'
    OBVIOUS
  <2>1. CASE /\ PollWeighs(d)
             /\ flow'[d]["poll"].mine = flow[d]["poll"].mine
    <3>1. Steady(d)
      BY <1>1, <2>0, <2>1 DEF LocalStep
    <3>2. file[d] = flow[d]["poll"].mine \/ Recoverable(d)
      BY <2>1 DEF Undisturbed, PollIsSafe
    <3> QED
      BY <2>1, <3>1, <3>2 DEF Steady
  <2>2. CASE /\ flow'[d]["poll"].mine = file[d] /\ file[d] # None
             /\ UNCHANGED file
    BY <2>2
  <2> QED
    BY <2>1, <2>2, PollComesToWeigh DEF Undisturbed
<1>5. NoZombies'
  BY NextKeepsNoZombies
<1> QED
  BY <1>2, <1>3, <1>4, <1>5 DEF Undisturbed

LEMMA InitUndisturbed == StaysConnected /\ Init => Undisturbed
<1> SUFFICES ASSUME StaysConnected, Init PROVE Undisturbed
  OBVIOUS
<1>1. HandlersInPlace
  BY InitPlaces
<1>2. Connected
  BY DEF Init, Connected
<1>3. PollIsSafe
  BY IdleIsFlow
  DEF Init, PollIsSafe, PollWeighs, Weighing, Syncing, Unlocked
<1>4. NoZombies
  BY IdleIsFlow
  DEF Init, StaysConnected, NoZombies, At, Syncing, Unlocked
<1> QED
  BY <1>1, <1>2, <1>3, <1>4 DEF Undisturbed

(* Under the lock an edit made while a poll fetches has its save on the    *)
(* way, coalesced or due, when the poll overwrites the file: the pull      *)
(* destroys nothing whose save was handled and dropped.                    *)
THEOREM PullIsSafe == StaysConnected => (Spec => PullDestroysNothingHandled)
<1> DEFINE Spared ==
      \A d \in Devices :
        /\ At(d, "poll", "write") /\ flow'[d]["poll"].pc = "meta"
        /\ flow[d]["poll"].mine = meta[d]
        => \/ file[d] \in held
           \/ due[d] \cap {"change", "immediate"} # {}
           \/ d \in pendingSyncs \cup queued
<1>1. ASSUME IInv, Undisturbed PROVE Spared
  <2> SUFFICES ASSUME NEW d \in Devices, At(d, "poll", "write"),
                      flow[d]["poll"].mine = meta[d]
               PROVE  Recoverable(d)
    BY DEF Recoverable, SaveIsDue
  <2>1. /\ file[d] # None
        /\ file[d] = flow[d]["poll"].mine \/ Recoverable(d)
    BY <1>1 DEF Undisturbed, PollIsSafe, PollWeighs, Weighing, At
  <2>2. meta[d] \in held \cup {None}
    BY <1>1 DEF IInv, SyncedHashWasHeld
  <2> QED
    BY <2>1, <2>2 DEF Recoverable
<1> SUFFICES ASSUME StaysConnected PROVE Spec => PullDestroysNothingHandled
  OBVIOUS
<1>2. IInv /\ Undisturbed => [Spared]_vars
  BY <1>1
<1>3. IInv /\ Undisturbed /\ [Next]_vars => Undisturbed'
  BY NextKeepsUndisturbed
<1> HIDE DEF Spared
<1>4. Spec => [][Spared]_vars
  BY <1>2, <1>3, InitUndisturbed, Invariance, PTL DEF Spec
<1> QED
  BY <1>4 DEF Spared, PullDestroysNothingHandled

-----------------------------------------------------------------------------
(***************************************************************************)
(* Saves that were coalesced and have nobody to hand them on: no sync of   *)
(* their env is running.                                                   *)
(***************************************************************************)
Stranded == pendingSyncs \ activeSyncs

(* Handlers that end are all that a step may strand a save by.             *)
StrandsNone == Stranded' \subseteq Stranded
Ends(d, h) ==
  /\ Running(flow[d][h])
  /\ \E r \in BOOLEAN : Release(d, h, r)

LEMMA ServerStepStrands ==
  ASSUME NEW d, NEW h,
         ServerStep(d, h) \/ RetryWrite(d, h) \/ FailRequest(d, h)
  PROVE  StrandsNone
  BY DEF ServerStep, ServeGet, ServeList, CheckUpdate, ApplyUpdate,
         ServeCreate, ServeDelete, Put, RetryWrite, FailRequest,
         clientUnchanged, memVars, StrandsNone, Stranded

LEMMA FaultEnds ==
  ASSUME NEW d, NEW h, Fault(d, h)
  PROVE  StrandsNone \/ Ends(d, h)
<1>1. CASE GiveUpWrite(d, h)
  BY <1>1 DEF GiveUpWrite, Ends, Running, UpdatePCs, CreatePCs
<1> QED
  BY <1>1, ServerStepStrands DEF Fault

LEMMA SyncStepEnds ==
  ASSUME NEW d, NEW h, SyncStep(d, h)
  PROVE  StrandsNone \/ Ends(d, h)
<1>1. Running(flow[d][h])
  BY DEF SyncStep, UploadDone, UploadRefused, UseLocal, UseRemote, Dismiss,
         Override, Pulled, ApplyRemote, At, Running
<1> QED
  BY <1>1
  DEF SyncStep, UploadDone, UploadRefused, UseLocal, UseRemote, Dismiss,
      Override, Pulled, ApplyRemote, Await, clientUnchanged, memVars, End,
      StrandsNone, Stranded, Ends

LEMMA UntrackedEnds ==
  ASSUME NEW d, NEW h, NEW local, NEW remote, Running(flow[d][h]),
         Untracked(d, h, local, remote)
  PROVE  StrandsNone \/ Ends(d, h)
  BY DEF Untracked, PromptInit, Await, clientUnchanged, memVars, End,
         StrandsNone, Stranded, Ends

LEMMA InitStepEnds ==
  ASSUME NEW d, NEW h, InitStep(d, h)
  PROVE  StrandsNone \/ Ends(d, h)
<1>1. Running(flow[d][h])
  BY DEF InitStep, InitChecked, Listed, AcceptInit, DeclineInit,
         AcceptRestore, DeclineRestore, FirstUseLocal, FirstUseRemote,
         FirstCancel, Created, CreateRefused, Restored, FirstGot,
         FirstUpdateFails, SaveMeta, Failed, At, Running, UpdatePCs
<1>2. CASE End(d, h) \/ \E c : EndSynced(d, h, c)
  BY <1>1, <1>2 DEF End, EndSynced, Ends
<1>3. CASE UNCHANGED memVars
  BY <1>3 DEF memVars, StrandsNone, Stranded
<1>4. CASE DeclineInit(d, h) \/ Failed(d, h)
  BY <1>1, <1>4 DEF DeclineInit, Failed, Ends
<1>5. ASSUME NEW local, NEW remote, Untracked(d, h, local, remote)
      PROVE  StrandsNone \/ Ends(d, h)
  BY <1>1, <1>5, UntrackedEnds
<1> QED
  BY <1>2, <1>3, <1>4, <1>5
  DEF InitStep, InitChecked, Listed, AcceptInit, AcceptRestore,
      DeclineRestore, FirstUseLocal, FirstUseRemote, FirstCancel, Created,
      CreateRefused, Restored, FirstGot, FirstUpdateFails, SaveMeta, Await,
      Overwrite, clientUnchanged

LEMMA BootStepEnds ==
  ASSUME NEW d, BootStep(d)
  PROVE  StrandsNone \/ Ends(d, "boot")
<1>1. Running(flow[d]["boot"])
  BY DEF BootStep, Reconcile, ZombieReinitialize, DeclineReinit,
         ZombieDeleteLocal, ZombieSkip, At, Running
<1>2. CASE End(d, "boot") \/ EndSynced(d, "boot", None)
  BY <1>1, <1>2 DEF End, EndSynced, Ends
<1>3. CASE UNCHANGED memVars
  BY <1>3 DEF memVars, StrandsNone, Stranded
<1>4. ASSUME NEW local, NEW remote, Untracked(d, "boot", local, remote)
      PROVE  StrandsNone \/ Ends(d, "boot")
  BY <1>1, <1>4, UntrackedEnds
<1> QED
  BY <1>2, <1>3, <1>4
  DEF BootStep, Reconcile, ZombieReinitialize, DeclineReinit,
      ZombieDeleteLocal, ZombieSkip, Await, clientUnchanged

LEMMA DeviceStepEnds ==
  ASSUME NEW d, DeviceStep(d)
  PROVE  StrandsNone \/ \E h \in AllHandlers : Ends(d, h)
<1>0. {"save", "poll", "push"} \subseteq AllHandlers
  BY DEF AllHandlers, Syncing
<1>1. CASE SaveEvent(d)
  BY <1>1
  DEF SaveEvent, SaveOffline, SaveCoalesced, SaveNoFile, SaveUnchanged,
      SaveStart, Lock, memVars, StrandsNone, Stranded
<1>2. CASE CreateEvent(d) \/ DeleteEvent(d)
  BY <1>2 DEF CreateEvent, DeleteEvent, memVars, StrandsNone, Stranded
<1>3. CASE Save404(d)
  <2>1. Running(flow[d]["save"])
    BY <1>3 DEF Save404, At, Running
  <2>2. CASE Release(d, "save", TRUE)
    BY <1>0, <2>1, <2>2 DEF Ends
  <2>3. CASE ~Release(d, "save", TRUE)
    BY <1>3, <2>3 DEF Save404, StrandsNone, Stranded
  <2> QED
    BY <2>2, <2>3
<1>4. CASE End(d, "push") /\ At(d, "push", "gone")
  BY <1>0, <1>4 DEF End, At, Running, Ends
<1>5. CASE End(d, "poll") /\ At(d, "poll", "fetched")
  BY <1>0, <1>5 DEF End, At, Running, Ends
<1>6. CASE UNCHANGED memVars
  BY <1>6 DEF memVars, StrandsNone, Stranded
<1>7. CASE PollVisit(d)
  BY <1>7 DEF PollVisit, Lock, StrandsNone, Stranded
<1>8. CASE PushStart(d)
  BY <1>8 DEF PushStart, Lock, StrandsNone, Stranded
<1>9. CASE UNCHANGED <<activeSyncs, pendingSyncs>>
  BY <1>9 DEF StrandsNone, Stranded
<1>10. CASE ReplayPush(d) \/ ReplayEnd(d)
  BY <1>8, <1>10 DEF ReplayPush, ReplayEnd, StrandsNone, Stranded
<1>11. CASE Push404(d) \/ PollFetched(d)
  BY <1>4, <1>5, <1>6, <1>11 DEF Push404, PollFetched, clientUnchanged
<1>12. CASE PollStart(d) \/ PollMissing(d) \/ PushCommand(d) \/ PushOffline(d)
  BY <1>6, <1>8, <1>12
  DEF PollStart, PollMissing, PushCommand, PushOffline, Await,
      clientUnchanged
<1> QED
  BY <1>1, <1>2, <1>3, <1>7, <1>10, <1>11, <1>12 DEF DeviceStep

LEMMA UserStrandsNone ==
  ASSUME NEW d, User(d) \/ GoOnline(d)
  PROVE  StrandsNone
  BY DEF User, Edit, RemoveFile, GoOffline, Reload, GoOnline, memVars,
         StrandsNone, Stranded

LEMMA NextStrandsOrEnds ==
  ASSUME [Next]_vars
  PROVE  StrandsNone \/ \E d \in Devices, h \in AllHandlers : Ends(d, h)
<1>0. Handlers \subseteq AllHandlers /\ "boot" \in AllHandlers
  BY ConstantsAssumption DEF AllHandlers, Unlocked
<1>1. CASE UNCHANGED vars
  BY <1>1 DEF vars, memVars, StrandsNone, Stranded
<1>2. CASE \E r \in abandoned : FinishAbandoned(r) \/ DropAbandoned(r)
  BY <1>2
  DEF FinishAbandoned, DropAbandoned, clientUnchanged, memVars, StrandsNone,
      Stranded
<1>3. ASSUME NEW d \in Devices, NEW h \in Handlers,
             HandlerStep(d, h) \/ Fault(d, h)
      PROVE  StrandsNone \/ Ends(d, h)
  BY <1>3, ServerStepStrands, FaultEnds, SyncStepEnds, InitStepEnds
  DEF HandlerStep
<1> QED
  BY <1>0, <1>1, <1>2, <1>3, DeviceStepEnds, BootStepEnds, UserStrandsNone
  DEF Next

(* A save's finally block takes its env off pendingSyncs; those of the     *)
(* poll and of a push do not.                                              *)
HeldByOthers == {d \in Devices : Locked(d, "poll") \/ Locked(d, "push")}

LEMMA EndStrands ==
  ASSUME NEW d \in Devices, NEW h \in AllHandlers, Ends(d, h)
  PROVE  Stranded' \subseteq Stranded \cup HeldByOthers
<1>1. CASE h = "save"
  BY <1>1 DEF Ends, Release, Drain, Stranded
<1>2. CASE h \notin Syncing
  BY <1>2 DEF Ends, Release, Drain, Syncing, Stranded
<1>3. CASE h \in {"poll", "push"}
  <2>1. d \in HeldByOthers
    BY <1>3 DEF Ends, Running, Locked, Syncing, HeldByOthers
  <2>2. /\ pendingSyncs' = pendingSyncs
        /\ activeSyncs \subseteq activeSyncs' \cup {d}
    BY <1>3 DEF Ends, Release, Drain
  <2> QED
    BY <2>1, <2>2 DEF Stranded
<1> QED
  BY <1>1, <1>2, <1>3 DEF Syncing

(* "We always upload the final version" (env-sync-manager.ts:52): a save   *)
(* that is coalesced is handed on when the sync it waits for ends, except  *)
(* where that sync is a poll or a push of the same env.  These may strand  *)
(* it, in every instance, and nothing else does.                           *)
THEOREM OnlyPollAndPushStrand ==
  Spec => [][Stranded' \subseteq Stranded \cup HeldByOthers]_vars
<1> DEFINE Handed == Stranded' \subseteq Stranded \cup HeldByOthers
<1>1. [Next]_vars => Handed
  BY NextStrandsOrEnds, EndStrands DEF StrandsNone
<1> HIDE DEF Handed
<1>2. Spec => [][Handed]_vars
  BY <1>1, PTL DEF Spec
<1> QED
  BY <1>2 DEF Handed

(* Where only saves take the lock, no coalesced save is ever without one   *)
(* to hand it on.                                                          *)
THEOREM SavesAloneStrandNone ==
  Handlers \cap {"poll", "push"} = {} => (Spec => [](Stranded = {}))
<1> SUFFICES ASSUME Handlers \cap {"poll", "push"} = {}
             PROVE  Spec => [](Stranded = {})
  OBVIOUS
<1> DEFINE AllHandedOn == Stranded = {}
<1>1. Init => AllHandedOn
  BY DEF Init, Stranded
<1>2. HandlersInPlace /\ AllHandedOn /\ [Next]_vars => AllHandedOn'
  <2> SUFFICES ASSUME HandlersInPlace, AllHandedOn, [Next]_vars
               PROVE  AllHandedOn'
    OBVIOUS
  <2>1. HeldByOthers = {}
    BY DEF HandlersInPlace, PlacedFlow, Placed, Locked, AllHandlers, Syncing,
           HeldByOthers
  <2> QED
    BY <2>1, NextStrandsOrEnds, EndStrands DEF StrandsNone
<1> HIDE DEF AllHandedOn
<1>3. Spec => []AllHandedOn
  BY <1>1, <1>2, EveryHandlerInPlace, PTL DEF Spec
<1> QED
  BY <1>3 DEF AllHandedOn
===============================================================================
