------------------------- MODULE DeviceLoginProofs --------------------------
(***************************************************************************)
(* The safety of signing in, for any logins, windows, quota and number of  *)
(* rounds: types, the polling flag, and the quota of devices.              *)
(***************************************************************************)
EXTENDS DeviceLogin, FiniteSetTheorems, TLAPS

Login == [pc : Places, win : Windows \cup {None},
          unstored : SUBSET {"private", "public"},
          rounds : 0..MaxRounds, key : Attempts, signal : Attempts]

(* Rounds are counted from the first wake on, and another follows only if  *)
(* one is left.                                                            *)
RoundsLeft ==
  \A a \in Logins :
    /\ login[a].pc \in {"new", "keys", "code"} => login[a].rounds = 0
    /\ At(a, "sleep") => login[a].rounds < MaxRounds

(* A code that is being served is used up, so no login is counted a second *)
(* time.                                                                   *)
CountedOnce ==
  /\ \A a \in Logins : serving[a] # "none" => code[a] = "used"
  /\ \A a \in crowded : code[a] = "used" /\ serving[a] # "counting"

(* There is room for the rows to come, but for one of each login that was  *)
(* let in beside another.                                                  *)
RoomForAll ==
  /\ CountedOnce
  /\ Registered <= MaxDevices =>
       Count + Cardinality(Inserting) <= MaxDevices + Cardinality(crowded)

(* A login that nothing has come in the way of is alone, and what it has    *)
(* stored and read so far is its own.                                      *)
Keyed(a) ==
  /\ Running = {a}
  /\ \A k \in {"private", "public"} \ login[a].unstored : secrets[k] = a
  /\ login[a].pc # "keys" => login[a].unstored = {}
  /\ login[a].pc \in {"asked", "served", "token", "wrapped", "verify"} =>
       login[a].key = a
  /\ login[a].pc \in {"wrapped", "verify"} => secrets.token = a
  /\ At(a, "verify") => secrets.wrapped = a
AloneKeyed == \A a \in Running \ hindered : Keyed(a)

IInv == TypeOK /\ RoundsLeft /\ FlagHasLoop /\ RoomForAll /\ AloneKeyed

-----------------------------------------------------------------------------
(***************************************************************************)
(* The API: a step of one exchange.                                        *)
(***************************************************************************)
DeviceStep(a) ==
  \/ Issued(a) \/ Approve(a) \/ Deny(a) \/ CodeExpires(a)
  \/ Exchange(a) \/ CountDevices(a) \/ InsertDevice(a) \/ ServingFails(a)

DeviceType ==
  /\ code \in [Logins -> CodeStates] /\ serving \in [Logins -> Stages]
  /\ devices \subseteq Logins /\ crowded \subseteq Logins

LEMMA DeviceStepType ==
  ASSUME DeviceType, NEW a \in Logins, DeviceStep(a)
  PROVE  DeviceType'
BY DEF DeviceType, DeviceStep, Issued, Approve, Deny, CodeExpires, Turned,
       Exchange, CountDevices, InsertDevice, ServingFails, CodeStates, Stages

(* All counts are natural numbers.                                         *)
LEMMA CountsAreNat ==
  ASSUME DeviceType
  PROVE  /\ \A S \in SUBSET Logins : IsFiniteSet(S) /\ Cardinality(S) \in Nat
         /\ Count \in Nat /\ MaxDevices \in Nat /\ Registered \in Nat
         /\ Inserting \in SUBSET Logins /\ crowded \in SUBSET Logins
         /\ devices \in SUBSET Logins
<1>1. \A S \in SUBSET Logins : IsFiniteSet(S) /\ Cardinality(S) \in Nat
  BY FS_Subset, FS_CardinalityType, DeviceAssumption
<1>2. Inserting \in SUBSET Logins /\ crowded \in SUBSET Logins
      /\ devices \in SUBSET Logins
  BY DEF Inserting, DeviceType
<1>. QED  BY <1>1, <1>2, DeviceAssumption DEF Count

(* A set of logins with one more, or one less.                             *)
LEMMA OneMore ==
  ASSUME NEW S \in SUBSET Logins, NEW a \in Logins, a \notin S
  PROVE  Cardinality(S \cup {a}) = Cardinality(S) + 1
BY FS_Subset, FS_AddElement, DeviceAssumption

LEMMA OneLess ==
  ASSUME NEW S \in SUBSET Logins, NEW a \in S
  PROVE  Cardinality(S \ {a}) = Cardinality(S) - 1
BY FS_Subset, FS_RemoveElement, DeviceAssumption

(* The room is kept by every step of every exchange.                       *)
LEMMA DeviceStepKeepsRoom ==
  ASSUME DeviceType, RoomForAll, NEW a \in Logins, DeviceStep(a)
  PROVE  RoomForAll'
<1>. USE CountsAreNat
<1>. DEFINE over == Cardinality(crowded)
            coming == Cardinality(Inserting)
<1>0. over \in Nat /\ coming \in Nat
  OBVIOUS
<1>c. CountedOnce'
  BY DEF RoomForAll, CountedOnce, DeviceType, DeviceStep, Issued, Approve,
         Deny, CodeExpires, Turned, Exchange, CountDevices, InsertDevice,
         ServingFails
<1>1. CASE Issued(a) \/ Approve(a) \/ Deny(a) \/ CodeExpires(a)
  <2>2. Inserting' = Inserting /\ Count' = Count /\ crowded' = crowded
    BY <1>1 DEF Inserting, Count, Issued, Approve, Deny, CodeExpires, Turned
  <2>. QED  BY <1>c, <2>2 DEF RoomForAll
<1>2. CASE Exchange(a)
  <2>2. Count' = Count /\ crowded' = crowded
    BY <1>2 DEF Count, Exchange
  <2>3. Inserting' \subseteq Inserting
    BY <1>2 DEF Inserting, Exchange, DeviceType
  <2>4. Cardinality(Inserting') <= coming
    BY <2>3, FS_Subset, DeviceAssumption
  <2>5. Cardinality(Inserting') \in Nat
    BY <2>3
  <2>. HIDE DEF coming
  <2>. QED  BY <1>0, <1>c, <2>2, <2>4, <2>5 DEF RoomForAll, coming
<1>3. CASE CountDevices(a)
  <2>1. a \notin crowded /\ a \notin Inserting
    BY <1>3 DEF CountDevices, RoomForAll, CountedOnce, Inserting
  <2>2. Count' = Count
    BY <1>3 DEF CountDevices, Count
  <2>3. CASE Full
    <3>1. Inserting' = Inserting /\ crowded' = crowded
      BY <1>3, <2>1, <2>3 DEF CountDevices, Inserting, DeviceType
    <3>. QED  BY <1>c, <2>2, <3>1 DEF RoomForAll
  <2>4. CASE ~Full
    <3>1. Inserting' = Inserting \cup {a}
      BY <1>3, <2>4 DEF CountDevices, Inserting, DeviceType
    <3>2. Cardinality(Inserting') = coming + 1
      BY <2>1, <3>1, OneMore
    <3>3. Count < MaxDevices
      BY <2>4 DEF Full
    <3>4. /\ Cardinality(crowded') \in Nat
          /\ \/ coming = 0
             \/ Cardinality(crowded') = over + 1
      <4>1. CASE Inserting = {}
        <5>1. crowded' = crowded /\ coming = 0
          BY <1>3, <4>1, FS_EmptySet DEF CountDevices
        <5>. QED  BY <5>1
      <4>2. CASE Inserting # {}
        <5>1. Inserting \ {a} # {}
          BY <2>1, <4>2
        <5>2. crowded' = crowded \cup {a}
          BY <1>3, <2>4, <5>1 DEF CountDevices
        <5>3. Cardinality(crowded') = over + 1
          BY <2>1, <5>2, OneMore
        <5>. QED  BY <5>3
      <4>. QED  BY <4>1, <4>2
    <3>. HIDE DEF coming, over
    <3>6. Registered <= MaxDevices =>
            Count + coming <= MaxDevices + over
      BY DEF RoomForAll, coming, over
    <3>7. Registered <= MaxDevices =>
            Count + (coming + 1) <= MaxDevices + Cardinality(crowded')
      BY <1>0, <3>3, <3>4, <3>6
    <3>. QED  BY <1>c, <2>2, <3>2, <3>7 DEF RoomForAll
  <2>. QED  BY <2>3, <2>4
<1>4. CASE InsertDevice(a) \/ ServingFails(a)
  <2>1. crowded' = crowded
    BY <1>4 DEF InsertDevice, ServingFails
  <2>2. Inserting' = Inserting \ {a}
    BY <1>4 DEF InsertDevice, ServingFails, Inserting, DeviceType
  <2>3. Cardinality(Inserting') = IF a \in Inserting THEN coming - 1 ELSE coming
    <3>1. CASE a \in Inserting
      BY <2>2, <3>1, OneLess
    <3>2. CASE a \notin Inserting
      BY <2>2, <3>2
    <3>. QED  BY <3>1, <3>2
  <2>4. Count' \in Nat /\ (Count' = Count \/ Count' = Count + 1)
        /\ (a \notin Inserting => Count' = Count)
    <3>1. devices' = devices \/ (a \in Inserting /\ a \notin devices
                                 /\ devices' = devices \cup {a})
      BY <1>4 DEF InsertDevice, ServingFails, Inserting
    <3>2. CASE devices' = devices
      BY <3>2 DEF Count
    <3>3. CASE a \in Inserting /\ a \notin devices
               /\ devices' = devices \cup {a}
      <4>1. Cardinality(devices') = Cardinality(devices) + 1
        BY <3>3, OneMore
      <4>2. Cardinality(devices) \in Nat
        OBVIOUS
      <4>. QED  BY <3>3, <4>1, <4>2 DEF Count
    <3>. QED  BY <3>1, <3>2, <3>3
  <2>. HIDE DEF coming, over
  <2>5. Registered <= MaxDevices => Count + coming <= MaxDevices + over
    BY DEF RoomForAll, coming, over
  <2>6. Registered <= MaxDevices =>
          Count' + Cardinality(Inserting') <= MaxDevices + over
    BY <1>0, <2>3, <2>4, <2>5
  <2>. QED  BY <1>c, <2>1, <2>6 DEF RoomForAll, over
<1>. QED  BY <1>1, <1>2, <1>3, <1>4 DEF DeviceStep

(* The rest of the system uses the API by such steps only.                 *)
LEMMA StepOfTheApi ==
  ASSUME Next
  PROVE  UNCHANGED deviceVars \/ \E a \in Logins : DeviceStep(a)
<1>1. ASSUME NEW a \in Logins, Step(a)
      PROVE  UNCHANGED deviceVars \/ DeviceStep(a)
  BY <1>1 DEF Step, StoreKey, CodeComes, CodeFails, Wake, ReadKey, Refused,
       Granted, Counted, Inserted, StoreToken, StoreWrapped, Verify, DeviceStep
<1>2. ASSUME NEW a \in Logins, UserStep(a) PROVE DeviceStep(a)
  BY <1>2 DEF UserStep, DeviceStep
<1>3. ASSUME NEW a \in Logins, ApiFails(a) PROVE DeviceStep(a)
  BY <1>3 DEF ApiFails, DeviceStep
<1>. QED
  BY <1>1, <1>2, <1>3
  DEF Next, RequestLost, CancelPolling, Logout, Reload, Begin

-----------------------------------------------------------------------------
(***************************************************************************)
(* The window: how a login ends, and how it goes on.                       *)
(***************************************************************************)
LoginsType ==
  /\ login \in [Logins -> Login]
  /\ \A a \in Running : login[a].win \in Windows
  /\ isPolling \in [Windows -> BOOLEAN] /\ controller \in [Windows -> Attempts]
Loops == LoginsType /\ RoundsLeft /\ FlagHasLoop

(* One login moves within its window, not out of the loop; the flag stays, *)
(* or a loop is there for it.                                              *)
LEMMA MoveKeepsLoops ==
  ASSUME Loops, NEW a \in Logins, NEW l \in Login,
         login' = [login EXCEPT ![a] = l], SamePolling,
         l.pc \notin {"new", "over"} => l.win \in Windows,
         l.pc \in {"new", "keys", "code"} => l.rounds = 0,
         l.pc = "sleep" => l.rounds < MaxRounds,
         login[a].pc \in Looping => l.pc \in Looping /\ l.win = login[a].win
  PROVE  Loops'
<1>1. login' \in [Logins -> Login] /\ RoundsLeft'
  BY DEF Loops, LoginsType, RoundsLeft, At
<1>2. ASSUME NEW w \in Windows, isPolling'[w]
      PROVE  \E b \in Logins : /\ login'[b].win = w
                               /\ login'[b].pc \in Looping
  <2>1. PICK b \in Logins : login[b].win = w /\ login[b].pc \in Looping
    BY <1>2 DEF Loops, FlagHasLoop, SamePolling, In, Running
  <2>. QED  BY <2>1 DEF Loops, LoginsType
<1>3. FlagHasLoop'
  BY <1>2 DEF FlagHasLoop, In, Running, At, Looping
<1>. QED
  BY <1>1, <1>3 DEF Loops, LoginsType, SamePolling, Running, At

(* Logins of a window end and its flag is cleared.                         *)
LEMMA EndKeepsLoops ==
  ASSUME Loops, NEW w \in Windows, NEW S \in SUBSET Logins,
         \A b \in S : login[b].win = w,
         login' = Ending(S),
         isPolling' = [isPolling EXCEPT ![w] = FALSE],
         controller' = [controller EXCEPT ![w] = None]
  PROVE  Loops'
<1>0. Over \in Login /\ Over.pc = "over"
  BY LoginAssumption DEF Over, Fresh, Login, Places, Attempts
<1>1. login' \in [Logins -> Login] /\ RoundsLeft'
  BY <1>0 DEF Loops, LoginsType, RoundsLeft, Ending, At
<1>2. ASSUME NEW v \in Windows, isPolling'[v]
      PROVE  \E b \in Logins : /\ login'[b].win = v
                               /\ login'[b].pc \in Looping
  <2>1. v # w /\ isPolling[v]
    BY <1>2 DEF Loops, LoginsType
  <2>2. PICK b \in Logins : login[b].win = v /\ login[b].pc \in Looping
    BY <2>1 DEF Loops, FlagHasLoop, In, Running
  <2>. QED  BY <2>1, <2>2 DEF Ending
<1>3. FlagHasLoop'
  BY <1>2 DEF FlagHasLoop, In, Running, At, Looping
<1>4. \A b \in Running' : login'[b].win \in Windows
  BY <1>0 DEF Loops, LoginsType, Running, Ending, At
<1>5. isPolling' \in [Windows -> BOOLEAN] /\ controller' \in [Windows -> Attempts]
  BY DEF Loops, LoginsType, Attempts
<1>. QED  BY <1>1, <1>3, <1>4, <1>5 DEF Loops, LoginsType

LEMMA LeaveKeepsLoops ==
  ASSUME Loops, NEW a \in Logins, a \in Running, Leave(a)
  PROVE  Loops'
<1>. DEFINE w == login[a].win
<1>1. w \in Windows
  BY DEF Loops, LoginsType
<1>2. login' = Ending({a}) /\ isPolling' = [isPolling EXCEPT ![w] = FALSE]
      /\ controller' = [controller EXCEPT ![w] = None]
  BY DEF Leave, Finally
<1>3. {a} \in SUBSET Logins /\ \A b \in {a} : login[b].win = w
  OBVIOUS
<1>. HIDE DEF w
<1>. QED  BY <1>1, <1>2, <1>3, EndKeepsLoops

LEMMA GoOnKeepsLoops ==
  ASSUME Loops, NEW a \in Logins, login[a].pc \in Looping, GoOn(a)
  PROVE  Loops'
<1>0. a \in Running
  BY DEF Running, At, Looping
<1>1. CASE isPolling[login[a].win] /\ ~LastRound(a)
  <2>. DEFINE l == [login[a] EXCEPT !.pc = "sleep", !.key = None,
                                    !.signal = None]
  <2>1. l \in Login /\ l.pc = "sleep" /\ l.win = login[a].win
        /\ l.rounds = login[a].rounds
    BY DEF Loops, LoginsType, Login, Places, Looping, Attempts
  <2>2. l.rounds < MaxRounds
    BY <1>1, <2>1, LoginAssumption DEF LastRound, Loops, LoginsType, Login
  <2>3. l.win \in Windows
    BY <1>0, <2>1 DEF Loops, LoginsType
  <2>4. login' = [login EXCEPT ![a] = l] /\ SamePolling
    BY <1>1 DEF GoOn, NextRound
  <2>. HIDE DEF l
  <2>. QED  BY <2>1, <2>2, <2>3, <2>4, MoveKeepsLoops DEF Looping
<1>2. CASE ~(isPolling[login[a].win] /\ ~LastRound(a))
  BY <1>0, <1>2, LeaveKeepsLoops DEF GoOn
<1>. QED  BY <1>1, <1>2

(* Every step of a login is one of these.                                  *)
LEMMA StepKeepsLoops ==
  ASSUME Loops, secrets.public \in Attempts, NEW a \in Logins, Step(a)
  PROVE  Loops'
<1>0. login[a] \in Login /\ (~At(a, "new") /\ ~At(a, "over")
                              => a \in Running /\ login[a].win \in Windows)
  BY DEF Loops, LoginsType, Running
<1>1. ASSUME NEW k \in {"private", "public"}, StoreKey(a, k) PROVE Loops'
  <2>. DEFINE l == [login[a] EXCEPT !.unstored = @ \ {k},
                      !.pc = IF login[a].unstored = {k} THEN "code" ELSE "keys"]
  <2>1. login[a].pc = "keys" /\ login' = [login EXCEPT ![a] = l] /\ SamePolling
    BY <1>1 DEF StoreKey, At
  <2>2. l \in Login /\ l.pc \in {"keys", "code"} /\ l.win = login[a].win
        /\ l.rounds = login[a].rounds
    BY <1>0 DEF Login, Places
  <2>3. l.rounds = 0 /\ l.win \in Windows
    BY <1>0, <2>1, <2>2 DEF At, Loops, RoundsLeft
  <2>. HIDE DEF l
  <2>. QED  BY <2>1, <2>2, <2>3, MoveKeepsLoops DEF Looping
<1>2. CASE CodeFails(a)
  <2>1. login' = Ending({a}) /\ SamePolling /\ login[a].pc = "code"
    BY <1>2 DEF CodeFails, At
  <2>2. Ending({a}) = [login EXCEPT ![a] = Over]
    BY DEF Ending, Loops, LoginsType
  <2>3. Over \in Login /\ Over.pc = "over"
    BY LoginAssumption DEF Over, Fresh, Login, Places, Attempts
  <2>. QED  BY <2>1, <2>2, <2>3, MoveKeepsLoops DEF Looping
<1>3. CASE CodeComes(a)
  <2>0. login[a].pc = "code" /\ login[a].win \in Windows /\ login[a].rounds = 0
    BY <1>0, <1>3 DEF CodeComes, At, Loops, RoundsLeft
  <2>1. CASE isPolling[login[a].win]
    <3>1. login' = Ending({a}) /\ SamePolling
      BY <1>3, <2>1 DEF CodeComes
    <3>2. Ending({a}) = [login EXCEPT ![a] = Over]
      BY DEF Ending, Loops, LoginsType
    <3>3. Over \in Login /\ Over.pc = "over"
      BY LoginAssumption DEF Over, Fresh, Login, Places, Attempts
    <3>. QED  BY <2>0, <3>1, <3>2, <3>3, MoveKeepsLoops DEF Looping
  <2>2. CASE ~isPolling[login[a].win]
    <3>. DEFINE l == [login[a] EXCEPT !.pc = "sleep"]
    <3>1. /\ login' = [login EXCEPT ![a] = l]
          /\ isPolling' = [isPolling EXCEPT ![login[a].win] = TRUE]
          /\ controller' = [controller EXCEPT ![login[a].win] = a]
      BY <1>3, <2>2 DEF CodeComes, Go
    <3>2. l \in Login /\ l.pc = "sleep" /\ l.win = login[a].win /\ l.rounds = 0
      BY <1>0, <2>0 DEF Login, Places, Looping
    <3>. HIDE DEF l
    <3>3. LoginsType' /\ RoundsLeft'
      BY <2>0, <3>1, <3>2, LoginAssumption
      DEF Loops, LoginsType, RoundsLeft, Running, At, Attempts
    <3>4. ASSUME NEW w \in Windows, isPolling'[w]
          PROVE  \E b \in Logins : /\ login'[b].win = w
                                   /\ login'[b].pc \in Looping
      <4>1. CASE w = login[a].win
        BY <4>1, <3>1, <3>2 DEF Looping, Loops, LoginsType
      <4>2. CASE w # login[a].win
        <5>1. PICK b \in Logins : login[b].win = w /\ login[b].pc \in Looping
          BY <3>1, <3>4, <4>2, <2>0 DEF Loops, LoginsType, FlagHasLoop, In, Running
        <5>. QED  BY <3>1, <4>2, <5>1 DEF Loops, LoginsType
      <4>. QED  BY <4>1, <4>2
    <3>5. FlagHasLoop'
      BY <3>4 DEF FlagHasLoop, In, Running, At, Looping
    <3>. QED  BY <3>3, <3>5 DEF Loops
  <2>. QED  BY <2>1, <2>2
<1>4. CASE Wake(a)
  <2>0. login[a].pc = "sleep" /\ a \in Running /\ login[a].win \in Windows
        /\ login[a].rounds < MaxRounds
    BY <1>0, <1>4 DEF Wake, At, Loops, RoundsLeft
  <2>1. CASE isPolling[login[a].win]
    <3>. DEFINE l == [login[a] EXCEPT !.pc = "reading", !.rounds = Waited(a)]
    <3>1. login' = [login EXCEPT ![a] = l] /\ SamePolling
      BY <1>4, <2>1 DEF Wake
    <3>2. Waited(a) \in 0..MaxRounds
      BY <1>0, <2>0, LoginAssumption DEF Waited, Login
    <3>3. l \in Login /\ l.pc = "reading" /\ l.win = login[a].win
      BY <1>0, <3>2 DEF Login, Places, Looping
    <3>. HIDE DEF l
    <3>. QED  BY <2>0, <3>1, <3>3, MoveKeepsLoops DEF Looping
  <2>2. CASE ~isPolling[login[a].win]
    BY <1>4, <2>0, <2>2, LeaveKeepsLoops DEF Wake
  <2>. QED  BY <2>1, <2>2
<1>5. CASE ReadKey(a)
  <2>0. login[a].pc = "reading" /\ login[a].win \in Windows
    BY <1>0, <1>5 DEF ReadKey, At
  <2>1. CASE secrets.public = None
    BY <1>5, <2>0, <2>1, GoOnKeepsLoops DEF ReadKey, Looping
  <2>2. CASE secrets.public # None
    <3>. DEFINE l == [login[a] EXCEPT !.pc = "asked", !.key = secrets.public,
                                      !.signal = controller[login[a].win]]
    <3>1. login' = [login EXCEPT ![a] = l] /\ SamePolling
      BY <1>5, <2>2 DEF ReadKey
    <3>2. controller[login[a].win] \in Attempts
      BY <2>0 DEF Loops, LoginsType
    <3>3. l \in Login /\ l.pc = "asked" /\ l.win = login[a].win
      BY <1>0, <3>2 DEF Login, Places, Looping
    <3>. HIDE DEF l
    <3>. QED  BY <2>0, <3>1, <3>3, MoveKeepsLoops DEF Looping
  <2>. QED  BY <2>1, <2>2
<1>6. CASE Refused(a)
  BY <1>6, GoOnKeepsLoops DEF Refused, At, Looping
<1>7. ASSUME NEW pc \in {"asked", "served", "token", "wrapped", "verify"},
             login[a].pc \in Looping, Go(a, pc), SamePolling
      PROVE  Loops'
  <2>. DEFINE l == [login[a] EXCEPT !.pc = pc]
  <2>1. l \in Login /\ l.pc = pc /\ l.win = login[a].win
    BY <1>0 DEF Login, Places, Looping
  <2>2. login' = [login EXCEPT ![a] = l] /\ l.win \in Windows
    BY <1>0, <1>7, <2>1 DEF Go, At, Looping
  <2>. HIDE DEF l
  <2>. QED  BY <1>7, <2>1, <2>2, MoveKeepsLoops DEF Looping
<1>8. ASSUME UNCHANGED <<login, isPolling, controller>> PROVE Loops'
  BY <1>8 DEF Loops, LoginsType, RoundsLeft, FlagHasLoop, In, Running, At
<1>9. CASE Granted(a) \/ StoreToken(a) \/ StoreWrapped(a)
  BY <1>7, <1>9 DEF Granted, StoreToken, StoreWrapped, At, Looping
<1>10. CASE Counted(a)
  BY <1>8, <1>10, GoOnKeepsLoops DEF Counted, At, Looping, SamePolling
<1>11. CASE Inserted(a)
  BY <1>7, <1>8, <1>11 DEF Inserted, At, Looping, SamePolling
<1>12. CASE Verify(a)
  <2>1. CASE ~Opens
    BY <1>12, <2>1, GoOnKeepsLoops DEF Verify, At, Looping
  <2>2. CASE Opens
    <3>. DEFINE w == login[a].win
                S == {a} \cup Aborted(w)
    <3>1. w \in Windows
      BY <1>0, <1>12 DEF Verify, At
    <3>2. S \in SUBSET Logins /\ \A b \in S : login[b].win = w
      BY DEF Aborted, In, Running
    <3>3. login' = Ending(S) /\ isPolling' = [isPolling EXCEPT ![w] = FALSE]
          /\ controller' = [controller EXCEPT ![w] = None]
      BY <1>12, <2>2 DEF Verify, Finally
    <3>. HIDE DEF w, S
    <3>. QED  BY <3>1, <3>2, <3>3, EndKeepsLoops
  <2>. QED  BY <2>1, <2>2
<1>. QED
  BY <1>1, <1>2, <1>3, <1>4, <1>5, <1>6, <1>9, <1>10, <1>11, <1>12 DEF Step

LEMMA NextKeepsLoops ==
  ASSUME Loops, secrets.public \in Attempts, Next
  PROVE  Loops'
<1>1. ASSUME NEW a \in Logins, Step(a) PROVE Loops'
  BY <1>1, StepKeepsLoops
<1>2. ASSUME UNCHANGED <<login, isPolling, controller>> PROVE Loops'
  BY <1>2 DEF Loops, LoginsType, RoundsLeft, FlagHasLoop, In, Running, At
<1>3. ASSUME NEW a \in Logins, UserStep(a) PROVE Loops'
  BY <1>2, <1>3 DEF UserStep, loginVars
<1>4. ASSUME NEW a \in Logins, RequestLost(a) PROVE Loops'
  <2>0. login[a].pc \in Looping /\ login[a] \in Login
        /\ login[a].win \in Windows
    BY <1>4 DEF RequestLost, Looping, Loops, LoginsType, Running, At
  <2>1. CASE GoOn(a)
    BY <2>0, <2>1, GoOnKeepsLoops
  <2>2. CASE Go(a, "asked") /\ SamePolling
    <3>. DEFINE l == [login[a] EXCEPT !.pc = "asked"]
    <3>1. l \in Login /\ l.pc = "asked" /\ l.win = login[a].win
      BY <2>0 DEF Login, Places, Looping
    <3>2. login' = [login EXCEPT ![a] = l]
      BY <2>2 DEF Go
    <3>. HIDE DEF l
    <3>. QED  BY <2>0, <2>2, <3>1, <3>2, MoveKeepsLoops DEF Looping
  <2>. QED  BY <1>4, <2>1, <2>2 DEF RequestLost
<1>8. ASSUME NEW a \in Logins, ApiFails(a) PROVE Loops'
  <2>1. CASE At(a, "served")
    BY <1>8, <2>1, GoOnKeepsLoops DEF ApiFails, At, Looping
  <2>2. CASE ~At(a, "served")
    BY <1>2, <1>8, <2>2 DEF ApiFails, SamePolling
  <2>. QED  BY <2>1, <2>2
<1>5. ASSUME NEW w \in Windows, NEW S \in SUBSET In(w), Cancelled(w, S)
      PROVE  Loops'
  BY <1>5, EndKeepsLoops DEF Cancelled, In, Running
<1>6. ASSUME NEW w \in Windows, CancelPolling(w) \/ Logout(w) \/ Reload(w)
      PROVE  Loops'
  <2>1. Aborted(w) \in SUBSET In(w) /\ {} \in SUBSET In(w)
        /\ In(w) \in SUBSET In(w)
    BY DEF Aborted
  <2>. QED  BY <1>5, <1>6, <2>1 DEF CancelPolling, Logout, Reload
<1>7. ASSUME NEW w \in Windows, NEW a \in Logins, Begin(a, w) PROVE Loops'
  <2>. DEFINE l == [login[a] EXCEPT !.pc = "keys", !.win = w,
                                    !.unstored = {"private", "public"}]
  <2>1. login[a].pc = "new" /\ login[a] \in Login /\ login[a].rounds = 0
    BY <1>7 DEF Begin, At, Loops, LoginsType, RoundsLeft
  <2>2. l \in Login /\ l.pc = "keys" /\ l.win = w /\ l.rounds = 0
    BY <2>1 DEF Login, Places
  <2>3. login' = [login EXCEPT ![a] = l] /\ SamePolling
    BY <1>7 DEF Begin
  <2>. HIDE DEF l
  <2>. QED  BY <2>1, <2>2, <2>3, MoveKeepsLoops DEF Looping
<1>. QED  BY <1>1, <1>3, <1>4, <1>6, <1>7, <1>8 DEF Next

(* What is stored and recorded of logins are logins.                       *)
SecretsType ==
  /\ secrets \in [private : Attempts, public : Attempts, token : Attempts,
                  wrapped : Attempts]
  /\ hindered \subseteq Logins

LEMMA NextKeepsSecrets ==
  ASSUME LoginsType, SecretsType, Next
  PROVE  SecretsType'
<1>1. NoSecrets \in [private : Attempts, public : Attempts, token : Attempts,
                     wrapped : Attempts]
  BY DEF NoSecrets, Attempts
<1>2. \A a \in Logins : a \in Attempts /\ login[a].key \in Attempts
  BY DEF LoginsType, Login, Attempts
<1>3. Running \subseteq Logins /\ \A w : In(w) \subseteq Logins
  BY DEF Running, In
<1>4. ASSUME NEW a \in Logins, Step(a) PROVE SecretsType'
  <2>1. ASSUME NEW k \in {"private", "public"}, StoreKey(a, k)
        PROVE  SecretsType'
    BY <1>2, <2>1 DEF StoreKey, SecretsType
  <2>2. CASE StoreToken(a) \/ StoreWrapped(a)
    BY <1>2, <2>2 DEF StoreToken, StoreWrapped, SecretsType
  <2>3. CASE Counted(a)
    BY <2>3 DEF Counted, Hindering, SecretsType
  <2>4. CASE UNCHANGED <<secrets, hindered>>
    BY <2>4 DEF SecretsType
  <2>. QED
    BY <1>4, <2>1, <2>2, <2>3, <2>4
    DEF Step, CodeFails, CodeComes, Wake, ReadKey, Refused, Granted, Inserted,
        Verify
<1>5. ASSUME NEW a \in Logins, UserStep(a) \/ RequestLost(a) \/ ApiFails(a)
      PROVE  SecretsType'
  BY <1>5 DEF UserStep, RequestLost, ApiFails, Hindering, SecretsType, loginVars
<1>6. ASSUME NEW w \in Windows, CancelPolling(w) \/ Logout(w) \/ Reload(w)
      PROVE  SecretsType'
  BY <1>1, <1>3, <1>6 DEF CancelPolling, Logout, Reload, Hindering, SecretsType
<1>7. ASSUME NEW w \in Windows, NEW a \in Logins, Begin(a, w)
      PROVE  SecretsType'
  BY <1>3, <1>7 DEF Begin, Hindering, SecretsType
<1>. QED  BY <1>4, <1>5, <1>6, <1>7 DEF Next

-----------------------------------------------------------------------------
(***************************************************************************)
(* The keys of a login that is alone.                                      *)
(***************************************************************************)
(* It moves to a place where no more is asked of what it holds.            *)
LEMMA MoveKeepsKeyed ==
  ASSUME LoginsType, NEW a \in Logins, Keyed(a), NEW pc,
         Go(a, pc), UNCHANGED secrets, login[a].pc # "keys",
         \/ pc \in {"sleep", "reading"}
         \/ /\ pc \in {"asked", "served", "token"}
            /\ login[a].pc \in {"asked", "served"}
  PROVE  Keyed(a)'
<1>1. /\ login'[a] = [login[a] EXCEPT !.pc = pc]
      /\ \A b \in Logins \ {a} : login'[b] = login[b]
      /\ login[a] \in Login
  BY DEF Go, LoginsType
<1>2. /\ login'[a].pc = pc /\ login'[a].unstored = {}
      /\ login'[a].key = login[a].key
  BY <1>1 DEF Keyed, Login
<1>3. Running' = {a}
  BY <1>1, <1>2 DEF Running, At, Keyed
<1>. QED  BY <1>2, <1>3 DEF Keyed, At

(* After an error it sleeps again, or is over.                             *)
LEMMA GoOnKeepsKeyed ==
  ASSUME LoginsType, NEW a \in Logins, Keyed(a), GoOn(a), UNCHANGED secrets,
         login[a].pc # "keys", a \in Running'
  PROVE  Keyed(a)'
<1>1. CASE NextRound(a)
  <2>1. /\ login'[a].pc = "sleep" /\ login'[a].unstored = {}
        /\ \A b \in Logins \ {a} : login'[b] = login[b]
    BY <1>1 DEF NextRound, LoginsType, Login, Keyed
  <2>2. Running' = {a}
    BY <2>1 DEF Running, At, Keyed
  <2>. QED  BY <2>1, <2>2 DEF Keyed, At
<1>2. CASE Leave(a)
  BY <1>2 DEF Leave, Ending, Running, At, Over, Fresh
<1>. QED  BY <1>1, <1>2 DEF GoOn

LEMMA StepKeepsKeyed ==
  ASSUME LoginsType, SecretsType,
         NEW a \in Logins, Keyed(a), Step(a), a \in Running'
  PROVE  Keyed(a)'
<1>0. /\ login[a] \in Login /\ a \in Running
      /\ \A b \in Logins \ {a} : b \notin Running
  BY DEF LoginsType, Keyed
<1>1. ASSUME NEW l \in Login, login' = [login EXCEPT ![a] = l],
             l.pc \notin {"new", "over"}
      PROVE  Running' = {a} /\ login'[a] = l
  BY <1>0, <1>1 DEF LoginsType, Running, At
<1>2. ASSUME UNCHANGED <<login, secrets>> PROVE Keyed(a)'
  BY <1>2 DEF Keyed, Running, At
<1>3. ASSUME NEW k \in {"private", "public"}, StoreKey(a, k)
      PROVE  Keyed(a)'
  <2>. DEFINE rest == login[a].unstored \ {k}
              l == [login[a] EXCEPT !.unstored = rest,
                      !.pc = IF login[a].unstored = {k} THEN "code" ELSE @]
  <2>1. /\ login' = [login EXCEPT ![a] = l] /\ login[a].pc = "keys"
        /\ secrets' = [secrets EXCEPT ![k] = a]
    BY <1>3 DEF StoreKey, At
  <2>2. l \in Login /\ l.pc \in {"keys", "code"}
        /\ l.unstored = login[a].unstored \ {k}
        /\ (l.pc # "keys" => l.unstored = {})
    BY <1>0, <2>1 DEF Login, Places
  <2>. HIDE DEF l, rest
  <2>3. Running' = {a} /\ login'[a] = l
    BY <1>1, <2>1, <2>2
  <2>4. ASSUME NEW j \in {"private", "public"} \ l.unstored
        PROVE  secrets'[j] = a
    <3>1. j = k \/ secrets[j] = a
      BY <2>2 DEF Keyed
    <3>. QED  BY <2>1, <3>1 DEF SecretsType
  <2>. QED  BY <2>2, <2>3, <2>4 DEF Keyed, At
<1>4. CASE CodeFails(a)
  BY <1>4 DEF CodeFails, Ending, Over, Fresh, Running, At
<1>5. CASE CodeComes(a)
  <2>1. login' = Ending({a}) \/ Go(a, "sleep")
    BY <1>5 DEF CodeComes
  <2>2. Go(a, "sleep")
    BY <2>1 DEF Ending, Over, Fresh, Running, At
  <2>. QED  BY <1>5, <2>2, MoveKeepsKeyed DEF CodeComes, At
<1>6. CASE Wake(a)
  <2>1. CASE isPolling[login[a].win]
    <3>. DEFINE l == [login[a] EXCEPT !.pc = "reading", !.rounds = Waited(a)]
    <3>1. login' = [login EXCEPT ![a] = l] /\ secrets' = secrets
          /\ login[a].pc = "sleep"
      BY <1>6, <2>1 DEF Wake, At
    <3>2. login'[a] = l /\ l.pc = "reading" /\ l.unstored = login[a].unstored
          /\ \A b \in Logins \ {a} : login'[b] = login[b]
      BY <1>0, <3>1 DEF LoginsType, Login
    <3>. HIDE DEF l
    <3>3. Running' = {a}
      BY <1>0, <3>2 DEF Running, At
    <3>. QED  BY <3>1, <3>2, <3>3 DEF Keyed, At
  <2>2. CASE ~isPolling[login[a].win]
    BY <1>6, <2>2 DEF Wake, Leave, Ending, Over, Fresh, Running, At
  <2>. QED  BY <2>1, <2>2
<1>7. CASE ReadKey(a)
  <2>1. CASE secrets.public = None
    BY <1>7, <2>1, GoOnKeepsKeyed DEF ReadKey, At
  <2>2. CASE secrets.public # None
    <3>. DEFINE l == [login[a] EXCEPT !.pc = "asked", !.key = secrets.public,
                                      !.signal = controller[login[a].win]]
    <3>1. login' = [login EXCEPT ![a] = l] /\ secrets' = secrets
          /\ login[a].pc = "reading"
      BY <1>7, <2>2 DEF ReadKey, At
    <3>2. login'[a] = l /\ l.pc = "asked" /\ l.unstored = login[a].unstored
          /\ l.key = secrets.public
          /\ \A b \in Logins \ {a} : login'[b] = login[b]
      BY <1>0, <3>1 DEF LoginsType, Login
    <3>. HIDE DEF l
    <3>3. secrets.public = a
      BY <3>1 DEF Keyed
    <3>4. Running' = {a}
      BY <1>0, <3>2 DEF Running, At
    <3>. QED  BY <3>1, <3>2, <3>3, <3>4 DEF Keyed, At
  <2>. QED  BY <2>1, <2>2
<1>8. CASE Refused(a)
  BY <1>8, GoOnKeepsKeyed DEF Refused, At
<1>9. CASE Granted(a)
  BY <1>9, MoveKeepsKeyed DEF Granted, At
<1>10. CASE Counted(a)
  BY <1>2, <1>10, GoOnKeepsKeyed DEF Counted, At, SamePolling
<1>11. CASE Inserted(a)
  BY <1>2, <1>11, MoveKeepsKeyed DEF Inserted, At
<1>12. CASE StoreToken(a) \/ StoreWrapped(a)
  <2>. DEFINE pc == IF StoreToken(a) THEN "wrapped" ELSE "verify"
              l == [login[a] EXCEPT !.pc = pc]
  <2>1. login' = [login EXCEPT ![a] = l]
        /\ login[a].pc \in {"token", "wrapped"}
        /\ (pc = "verify" => login[a].pc = "wrapped")
    BY <1>12 DEF StoreToken, StoreWrapped, Go, At
  <2>2. /\ secrets'.private = secrets.private
        /\ secrets'.public = secrets.public
        /\ pc = "wrapped" => secrets'.token = a
        /\ pc = "verify" => /\ secrets'.token = secrets.token
                            /\ secrets'.wrapped = login[a].key
    BY <1>12 DEF StoreToken, StoreWrapped, At, SecretsType
  <2>3. login'[a] = l /\ l.pc = pc /\ l.unstored = login[a].unstored
        /\ l.key = login[a].key
        /\ \A b \in Logins \ {a} : login'[b] = login[b]
    BY <1>0, <2>1 DEF LoginsType, Login
  <2>. HIDE DEF pc, l
  <2>4. pc \in {"wrapped", "verify"}
    BY DEF pc
  <2>5. Running' = {a}
    BY <1>0, <2>3, <2>4 DEF Running, At
  <2>. QED  BY <2>1, <2>2, <2>3, <2>4, <2>5 DEF Keyed, At
<1>13. CASE Verify(a)
  <2>1. CASE ~Opens
    BY <1>13, <2>1, GoOnKeepsKeyed DEF Verify, At
  <2>2. CASE Opens
    BY <1>13, <2>2 DEF Verify, Ending, Over, Fresh, Running, At
  <2>. QED  BY <2>1, <2>2
<1>. QED
  BY <1>3, <1>4, <1>5, <1>6, <1>7, <1>8, <1>9, <1>10, <1>11, <1>12, <1>13
  DEF Step

(* A login that begins on its own begins alone; one that begins beside it, *)
(* a cancel, a sign-out and a reload come in its way.                      *)
LEMMA NextKeepsKeyed ==
  ASSUME LoginsType, SecretsType, AloneKeyed, Next
  PROVE  AloneKeyed'
<1>. SUFFICES ASSUME NEW a \in Logins, a \in Running', a \notin hindered'
              PROVE  Keyed(a)'
  BY DEF AloneKeyed, Running
<1>1. ASSUME NEW b \in Logins, NEW w \in Windows, Begin(b, w)
      PROVE  Keyed(a)'
  <2>1. login' = [login EXCEPT ![b].pc = "keys", ![b].win = w,
                               ![b].unstored = {"private", "public"}]
        /\ login[b] \in Login /\ login[b].pc = "new"
    BY <1>1 DEF Begin, At, LoginsType
  <2>2. CASE Running # {}
    <3>1. a \notin Running /\ a # b
      BY <1>1, <2>2 DEF Begin, Hindering
    <3>. QED  BY <2>1, <3>1 DEF LoginsType, Running, At
  <2>3. CASE Running = {}
    <3>1. login'[b].pc = "keys" /\ login'[b].unstored = {"private", "public"}
          /\ \A c \in Logins \ {b} : login'[c] = login[c]
      BY <2>1 DEF LoginsType, Login
    <3>2. Running' = {b}
      BY <2>3, <3>1 DEF Running, At
    <3>. QED  BY <3>1, <3>2 DEF Keyed, At
  <2>. QED  BY <2>2, <2>3
<1>2. ASSUME hindered \subseteq hindered', Running' \subseteq Running
      PROVE  Keyed(a) /\ a \in Running /\ Running = {a}
  BY <1>2 DEF AloneKeyed, Keyed
<1>3. ASSUME UNCHANGED <<login, secrets>>, hindered \subseteq hindered'
      PROVE  Keyed(a)'
  BY <1>2, <1>3 DEF Keyed, Running, At
<1>4. ASSUME NEW b \in Logins, Step(b)
      PROVE  Keyed(a)'
  <2>1. hindered \subseteq hindered'
    BY <1>4 DEF Step, StoreKey, CodeComes, CodeFails, Wake, ReadKey, Refused,
         Granted, Counted, Inserted, StoreToken, StoreWrapped, Verify,
         Hindering
  <2>2. b \in Running \/ UNCHANGED <<login, secrets>>
    BY <1>4 DEF Step, StoreKey, CodeComes, CodeFails, Wake, ReadKey, Refused,
         Granted, Counted, Inserted, StoreToken, StoreWrapped, Verify,
         Running, At
  <2>3. CASE b \in Running
    <3>1. Running' \subseteq Running
      <4>1. \A c \in Logins \ {b} : login'[c] = login[c] \/ login'[c] = Over
        BY <1>4 DEF Step, StoreKey, CodeComes, CodeFails, Wake, ReadKey,
             Refused, Granted, Counted, Inserted, StoreToken, StoreWrapped,
             Verify, Go, NextRound, GoOn, Leave, Ending, LoginsType
      <4>. QED  BY <2>3, <4>1 DEF Running, At, Over, Fresh
    <3>2. Keyed(a) /\ b = a
      BY <1>2, <2>1, <2>3, <3>1
    <3>. QED  BY <1>4, <3>2, StepKeepsKeyed
  <2>. QED  BY <1>3, <2>1, <2>2, <2>3
<1>5. ASSUME NEW b \in Logins, UserStep(b) PROVE Keyed(a)'
  BY <1>3, <1>5 DEF UserStep, loginVars, Hindering
<1>6. ASSUME NEW b \in Logins, RequestLost(b) PROVE Keyed(a)'
  <2>1. /\ hindered \subseteq hindered' /\ UNCHANGED secrets
        /\ login[b].pc \in {"asked", "served"}
        /\ Go(b, "asked") \/ GoOn(b)
    BY <1>6 DEF RequestLost, Hindering
  <2>2. Running' \subseteq Running
    <3>1. \A c \in Logins \ {b} : login'[c] = login[c]
      BY <2>1 DEF GoOn, NextRound, Go, Leave, Ending, LoginsType
    <3>. QED  BY <2>1, <3>1 DEF Running, At
  <2>3. Keyed(a) /\ b = a
    BY <1>2, <2>1, <2>2 DEF Running, At
  <2>. QED  BY <2>1, <2>3, MoveKeepsKeyed, GoOnKeepsKeyed
<1>7. ASSUME NEW w \in Windows, CancelPolling(w) \/ Logout(w) \/ Reload(w)
      PROVE  Keyed(a)'
  <2>1. PICK S \in SUBSET In(w) : login' = Ending(S)
    <3>1. Aborted(w) \in SUBSET In(w) /\ {} \in SUBSET In(w)
      BY DEF Aborted
    <3>. QED  BY <1>7, <3>1 DEF CancelPolling, Logout, Reload, Cancelled
  <2>2. hindered \subseteq hindered' /\ Running' \subseteq Running
    BY <1>7, <2>1 DEF CancelPolling, Logout, Reload, Hindering, Ending, Over,
         Fresh, Running, At
  <2>3. Keyed(a) /\ Running = {a}
    BY <1>2, <2>2
  <2>4. CASE Logout(w)
    BY <2>3, <2>4 DEF Logout, Hindering
  <2>5. CASE CancelPolling(w) \/ Reload(w)
    <3>1. In(w) \subseteq hindered' /\ UNCHANGED secrets
      BY <2>5 DEF CancelPolling, Reload, Hindering
    <3>2. In(w) = {}
      BY <2>3, <3>1 DEF In
    <3>3. login' = login
      BY <2>1, <3>2 DEF Ending, LoginsType
    <3>. QED  BY <1>3, <2>2, <3>1, <3>3
  <2>. QED  BY <1>7, <2>4, <2>5
<1>8. ASSUME NEW b \in Logins, ApiFails(b) PROVE Keyed(a)'
  <2>1. /\ hindered' = hindered \cup {b} /\ UNCHANGED secrets
        /\ (GoOn(b) /\ At(b, "served")) \/ UNCHANGED login
    BY <1>8 DEF ApiFails, Hindering
  <2>2. CASE UNCHANGED login
    BY <1>3, <2>1, <2>2
  <2>3. CASE GoOn(b) /\ At(b, "served")
    <3>1. \A c \in Logins \ {b} : login'[c] = login[c]
      BY <2>3 DEF GoOn, NextRound, Leave, Ending, LoginsType
    <3>2. Running' \subseteq Running
      BY <2>3, <3>1 DEF Running, At
    <3>. QED  BY <1>2, <2>1, <2>3, <3>2 DEF Running, At
  <2>. QED  BY <2>1, <2>2, <2>3
<1>. QED  BY <1>1, <1>4, <1>5, <1>6, <1>7, <1>8 DEF Next

-----------------------------------------------------------------------------
LEMMA TypeParts == TypeOK <=> DeviceType /\ LoginsType /\ SecretsType
BY DEF TypeOK, DeviceType, LoginsType, SecretsType, Login

LEMMA InitHolds == Init => IInv
<1>. SUFFICES ASSUME Init PROVE IInv
  OBVIOUS
<1>1. Fresh \in Login /\ Fresh.pc = "new" /\ Fresh.rounds = 0
  BY LoginAssumption DEF Fresh, Login, Places, Attempts
<1>2. LoginsType /\ RoundsLeft /\ FlagHasLoop
  BY <1>1 DEF Init, LoginsType, RoundsLeft, FlagHasLoop, Running, At, Attempts
<1>3. DeviceType /\ SecretsType
  BY DEF Init, DeviceInit, DeviceType, SecretsType, NoSecrets, Attempts,
         CodeStates, Stages
<1>4. AloneKeyed
  BY <1>1 DEF Init, AloneKeyed, Running, At
<1>5. Count = Registered
  BY FS_EmptySet, DeviceAssumption DEF Init, DeviceInit, Count
<1>6. RoomForAll
  <2>1. Inserting = {} /\ crowded = {} /\ Cardinality({}) = 0
    BY FS_EmptySet DEF Init, DeviceInit, Inserting
  <2>. QED  BY <1>5, <2>1, DeviceAssumption DEF RoomForAll, CountedOnce,
        Init, DeviceInit
<1>. QED  BY <1>2, <1>3, <1>4, <1>6, TypeParts DEF IInv

LEMMA NextKeeps == IInv /\ [Next]_vars => IInv'
<1>. SUFFICES ASSUME IInv, [Next]_vars PROVE IInv'
  OBVIOUS
<1>1. CASE UNCHANGED vars
  BY <1>1 DEF IInv, TypeOK, RoundsLeft, FlagHasLoop, RoomForAll, vars,
       deviceVars, loginVars, Running, In, At, Count, Inserting, CountedOnce,
       AloneKeyed, Keyed
<1>2. CASE Next
  <2>1. DeviceType /\ Loops /\ SecretsType
    BY TypeParts DEF IInv, Loops
  <2>2. DeviceType' /\ RoomForAll'
    <3>1. CASE UNCHANGED deviceVars
      BY <2>1, <3>1 DEF deviceVars, DeviceType, IInv, RoomForAll, Count,
         Inserting, CountedOnce
    <3>2. CASE \E a \in Logins : DeviceStep(a)
      BY <2>1, <3>2, DeviceStepType, DeviceStepKeepsRoom DEF IInv
    <3>. QED  BY <1>2, <3>1, <3>2, StepOfTheApi
  <2>3. Loops'
    BY <1>2, <2>1, NextKeepsLoops DEF SecretsType
  <2>4. SecretsType'
    BY <1>2, <2>1, NextKeepsSecrets DEF Loops
  <2>5. TypeOK'
    BY <2>2, <2>3, <2>4 DEF TypeOK, DeviceType, Loops, LoginsType, SecretsType,
         Login
  <2>6. AloneKeyed'
    BY <1>2, <2>1, NextKeepsKeyed DEF IInv, Loops
  <2>. QED  BY <2>2, <2>3, <2>5, <2>6 DEF IInv, Loops
<1>. QED  BY <1>1, <1>2

(* The invariant of the login, of which the theorems below are parts.     *)
THEOREM LoginInvariant == Spec => []IInv
BY InitHolds, NextKeeps, PTL DEF Spec

(* Every variable keeps its type and no login polls beyond its time        *)
(* (pollForToken's loop condition).                                        *)
THEOREM LoginTypes == Spec => []TypeOK
<1>1. IInv => TypeOK
  BY DEF IInv
<1>. QED  BY <1>1, LoginInvariant, PTL

(* A window that claims to poll does, for any number of logins and         *)
(* windows: isPolling of AuthenticationProvider never sticks.              *)
THEOREM PollingFlagIsHonest == Spec => []FlagHasLoop
<1>1. IInv => FlagHasLoop
  BY DEF IInv
<1>. QED  BY <1>1, LoginInvariant, PTL

(* DeviceService.ensureExists lets an account exceed its quota by the      *)
(* callers let in beside another at most, for any quota, any number of     *)
(* devices and any faults.                                                 *)
THEOREM QuotaIsKept == Spec => []QuotaHolds
<1>1. IInv => QuotaHolds
  <2>. SUFFICES ASSUME IInv PROVE QuotaHolds
    OBVIOUS
  <2>1. DeviceType
    BY TypeParts DEF IInv
  <2>2. /\ Cardinality(Inserting) \in Nat /\ Cardinality(crowded) \in Nat
        /\ Count \in Nat /\ MaxDevices \in Nat
    BY <2>1, CountsAreNat
  <2>. QED  BY <2>2 DEF IInv, RoomForAll, QuotaHolds
<1>. QED  BY <1>1, LoginInvariant, PTL

(* A login in whose way nothing has come verifies what it can open: key    *)
(* pair, token and wrapped material are its own, for any logins, windows   *)
(* and rounds (pollForToken and EnvvalVsCodeSecrets).                      *)
THEOREM LoginOpensItsOwn == Spec => []StoredKeysOpen
<1>1. IInv => StoredKeysOpen
  <2>. SUFFICES ASSUME IInv, NEW a \in Logins \ hindered, At(a, "verify")
                PROVE  secrets.token = a /\ Opens
    BY DEF StoredKeysOpen
  <2>1. Keyed(a)
    BY DEF IInv, AloneKeyed, Running, At
  <2>2. secrets.private = a /\ secrets.wrapped = a /\ secrets.token = a
    BY <2>1 DEF Keyed, At
  <2>. QED  BY <2>2, LoginAssumption DEF Opens
<1>. QED  BY <1>1, LoginInvariant, PTL
=============================================================================
