----------------------------- MODULE HostProofs ------------------------------
(***************************************************************************)
(* Theorems about Host: put together with the bridge, the servos and the   *)
(* main thread of test-01, the threads still take steps of Sharing and the *)
(* Arduino still takes steps of Bridge, so what is proved of these holds.  *)
(***************************************************************************)
EXTENDS Host, SharingProofs, FiniteSetTheorems

BridgeFacts == INSTANCE BridgeProofs WITH Bytes <- Nat

(* The buffer of the bridge has room.                                        *)
LEMMA BufferIsThere == BridgeFacts!ReadBufferAssumption
BY HostAssumption DEF BridgeFacts!ReadBufferAssumption

(* What the servos answer is a sequence of ids.                              *)
LEMMA AnswersAreIds ==
    ASSUME NEW who \in SUBSET Servos, NEW ids \in SetToSeqs(who)
    PROVE  ids \in Seq(Servos)
<1>1. IsFiniteSet(who)
  BY HostAssumption, FS_Subset
<1>2. Cardinality(who) \in Nat
  BY <1>1, FS_CardinalityType
<1>3. ids \in [1..Cardinality(who) -> who]
  BY DEF SetToSeqs
<1>4. \A i \in 1..Cardinality(who) : ids[i] \in Servos
  BY <1>3
<1>5. ids = [i \in 1..Cardinality(who) |-> ids[i]]
  BY <1>3
<1> QED BY <1>2, <1>4, <1>5, IsASeq

(* The two instances of Bridge say the same.                                 *)
LEMMA SameSteps ==
    /\ TheBridge!ReadPc <=> BridgeFacts!ReadPc
    /\ TheBridge!WriteXl <=> BridgeFacts!WriteXl
    /\ TheBridge!SkipPc <=> BridgeFacts!SkipPc
    /\ TheBridge!ReadXl <=> BridgeFacts!ReadXl
    /\ TheBridge!WritePc <=> BridgeFacts!WritePc
    /\ TheBridge!SkipXl <=> BridgeFacts!SkipXl
BY DEF TheBridge!ReadPc, BridgeFacts!ReadPc, TheBridge!WriteXl,
       BridgeFacts!WriteXl, TheBridge!SkipPc, BridgeFacts!SkipPc,
       TheBridge!ReadXl, BridgeFacts!ReadXl, TheBridge!WritePc,
       BridgeFacts!WritePc, TheBridge!SkipXl, BridgeFacts!SkipXl,
       TheBridge!ReadBytes, BridgeFacts!ReadBytes, TheBridge!ReadSize,
       BridgeFacts!ReadSize, TheBridge!Held, BridgeFacts!Held

(* The two instances of Bridge say the same.                                 *)
LEMMA SameStates ==
    /\ TheBridge!Forwards <=> BridgeFacts!Forwards
    /\ TheBridge!Init <=> BridgeFacts!Init
    /\ TheBridge!Held = BridgeFacts!Held
BY DEF TheBridge!Forwards, BridgeFacts!Forwards, TheBridge!Carried,
       BridgeFacts!Carried, TheBridge!Held, BridgeFacts!Held,
       TheBridge!Init, BridgeFacts!Init

(* A step of the bridge with any data.                                       *)
LEMMA SameData ==
    ASSUME NEW data
    PROVE  /\ TheBridge!PcReceives(data) <=> BridgeFacts!PcReceives(data)
           /\ TheBridge!XlReceives(data) <=> BridgeFacts!XlReceives(data)
BY DEF TheBridge!PcReceives, BridgeFacts!PcReceives, TheBridge!XlReceives,
       BridgeFacts!XlReceives

-----------------------------------------------------------------------------
(* The line of the servos carries ids.                                       *)
LineInv == BridgeFacts!TypeOK /\ BridgeFacts!Forwards /\ xlAll \in Seq(Servos)

HostInv == /\ TypeOK /\ LockInv /\ OpsInv /\ ServoInv /\ OrdersInv /\ LineInv
           /\ test01 => program = Test01

(* The middle of a sequence has the elements of the sequence.                *)
LEMMA MiddleOf ==
    ASSUME NEW S, NEW T, NEW a \in Seq(T), NEW b \in Seq(T), NEW c \in Seq(T),
           (a \o b) \o c \in Seq(S)
    PROVE  b \in Seq(S)
<1> DEFINE l == a \o b
           s == l \o c
<1>1. Len(a) \in Nat /\ Len(b) \in Nat /\ Len(c) \in Nat
  BY LenProperties
<1>2. /\ l \in Seq(T) /\ Len(l) = Len(a) + Len(b)
      /\ \A i \in 1..Len(a) + Len(b) : l[i] = IF i <= Len(a) THEN a[i] ELSE b[i - Len(a)]
  BY ConcatProperties
<1> HIDE DEF l
<1>4. s \in Seq(S)
  BY DEF l
<1>3. /\ Len(s) = Len(l) + Len(c)
      /\ \A i \in 1..Len(l) + Len(c) : s[i] = IF i <= Len(l) THEN l[i] ELSE c[i - Len(l)]
  <2>1. l \in Seq(T) /\ c \in Seq(T)
    BY <1>2
  <2>2. /\ Len(l \o c) = Len(l) + Len(c)
        /\ \A i \in 1..Len(l) + Len(c) :
              (l \o c)[i] = IF i <= Len(l) THEN l[i] ELSE c[i - Len(l)]
    BY ONLY <2>1, ConcatProperties
  <2> QED BY <2>2
<1> HIDE DEF s
<1>5. ASSUME NEW i \in 1..Len(b) PROVE b[i] \in S
  <2>1. /\ Len(a) + i \in 1..Len(a) + Len(b) /\ ~(Len(a) + i <= Len(a))
        /\ Len(a) + i - Len(a) = i
    BY <1>1
  <2>2. l[Len(a) + i] = b[i]
    BY <1>2, <2>1
  <2>3. Len(a) + i \in 1..Len(l) + Len(c) /\ Len(a) + i <= Len(l)
    BY <1>1, <1>2, <2>1
  <2>4. s[Len(a) + i] = l[Len(a) + i]
    BY <1>3, <2>3
  <2>5. s[Len(a) + i] \in S
    <3>1. Len(a) + i \in 1..Len(s)
      BY <1>3, <2>3
    <3> QED BY <1>4, <3>1, ElementOfSeq
  <2> QED BY <2>2, <2>4, <2>5
<1>6. b = [i \in 1..Len(b) |-> b[i]]
  BY LenProperties
<1>7. [i \in 1..Len(b) |-> b[i]] \in Seq(S)
  BY <1>1, <1>5, IsASeq
<1> QED BY <1>6, <1>7

(* What the bridge hands to the PC are ids.                                  *)
LEMMA HeldAreIds ==
    ASSUME LineInv, at = "writePc"
    PROVE  BridgeFacts!Held \in Seq(Servos)
<1>1. pcOut \in Seq(Nat) /\ xlIn \in Seq(Nat) /\ BridgeFacts!Held \in Seq(Nat)
  BY BridgeFacts!HeldIsSeq, BufferIsThere, HostAssumption
     DEF LineInv, BridgeFacts!TypeOK
<1>2. xlAll = (pcOut \o BridgeFacts!Held) \o xlIn
  BY DEF LineInv, BridgeFacts!Forwards, BridgeFacts!Carried
<1>3. (pcOut \o BridgeFacts!Held) \o xlIn \in Seq(Servos)
  BY <1>2 DEF LineInv
<1> HIDE DEF BridgeFacts!Held
<1> QED BY <1>1, <1>3, MiddleOf

(* An order is a number.                                                     *)
LEMMA OrderIsNat == TypeOK /\ OrdersInv => mOrderCurrent \in Nat
<1> SUFFICES ASSUME TypeOK, OrdersInv, mOrderCurrent # NoOrder
             PROVE  mOrderCurrent \in Nat
  BY DEF NoOrder
<1>1. PICK t, k \in Nat : t <= Len(registered) /\ Taken(mOrderCurrent, t, k)
  BY DEF OrdersInv, EngineAt
<1>2. PICK i \in 1..t : \E j \in 1..Len(OrdersOf[registered[i]]) :
            mOrderCurrent = OrdersOf[registered[i]][j]
  BY <1>1 DEF Taken
<1>3. i \in 1..Len(registered)
  BY <1>1, LenProperties DEF TypeOK
<1>4. OrdersOf[registered[i]] \in Seq(Nat \ {NoOrder})
  BY <1>3, OrdersType
<1> QED BY <1>2, <1>4, ElementOfSeq
-----------------------------------------------------------------------------
(* Each step of the whole is a step of the threads, or leaves them alone.    *)
LEMMA StepOfThreads ==
    ASSUME HostInv, [HostNext]_hostVars
    PROVE  [Next]_vars
<1>1. CASE IoThread \/ OrderLeaves \/ OnCommandFinish \/ Asio
  BY <1>1 DEF OrderLeaves, OnCommandFinish, Asio, Next
<1>2. CASE Forward \/ ServosAnswer \/ Stands \/ ActionTimer \/ TestMachineState
  BY <1>2 DEF Forward, ServosAnswer, Stands, ActionTimer, TestMachineState, hostVars
<1>3. CASE AnswersArrive
  <2>1. TheBridge!Held \in Seq(Servos)
    BY <1>3, HeldAreIds, SameStates DEF AnswersArrive, TheBridge!WritePc, HostInv
  <2> QED BY <1>3, <2>1 DEF AnswersArrive, Next
<1>4. CASE GoPing \/ StartService
  <2>0. /\ "main" \in Users /\ test01
        /\ program.calls["main"] = {"start", "registerCommand"}
    BY <1>4, HostAssumption, UsersAssumption
       DEF GoPing, StartService, MainRuns, HostInv, Test01
  <2>1. CASE GoPing
    <3>1. ~Busy("main") /\ InBounds("registerCommand")
      BY <2>1 DEF GoPing, MainRuns
    <3>2. PICK request \in Requests("registerCommand") :
              frame' = [frame EXCEPT !["main"] = request]
      BY <2>1 DEF GoPing
    <3>3. UNCHANGED <<holder, engineVars, sharedVars, ioVars, startVars, ended>>
      BY <2>1 DEF GoPing
    <3>4. UserCalls("main")
      BY <2>0, <3>1, <3>2, <3>3 DEF UserCalls
    <3> QED BY <2>0, <3>4 DEF Next
  <2>2. CASE StartService
    <3>1. /\ ~Busy("main") /\ InBounds("start")
          /\ frame' = [frame EXCEPT !["main"] = Frame("start", 0)]
          /\ UNCHANGED <<holder, engineVars, sharedVars, ioVars, startVars, ended>>
      BY <2>2 DEF StartService
    <3>2. Frame("start", 0) \in Requests("start")
      BY DEF Requests
    <3>3. UserCalls("main")
      BY <2>0, <3>1, <3>2 DEF UserCalls
    <3> QED BY <2>0, <3>3 DEF Next
  <2> QED BY <1>4, <2>1, <2>2
<1>5. ASSUME NEW u \in Users, CallStep(u) \/ UserCalls(u) \/ StartStop PROVE Next
  BY <1>5 DEF Next
<1>6. CASE UNCHANGED hostVars
  BY <1>6 DEF hostVars
<1> QED BY <1>1, <1>2, <1>3, <1>4, <1>5, <1>6, HostAssumption, UsersAssumption
           DEF HostNext, Io, User, Main, Loop

(* And so it is with the bridge.                                             *)
LEMMA StepOfBridge ==
    ASSUME HostInv, [HostNext]_hostVars
    PROVE  /\ [BridgeFacts!Next]_(BridgeFacts!vars)
           /\ xlAll' \in Seq(Servos)
<1>0. xlAll \in Seq(Servos)
  BY DEF HostInv, LineInv
<1>1. CASE Forward \/ AnswersArrive
  <2>1. BridgeFacts!Loop
    BY <1>1, SameSteps DEF Forward, AnswersArrive, BridgeFacts!Loop
  <2>2. xlAll' = xlAll
    BY <2>1 DEF BridgeFacts!Loop, BridgeFacts!ReadPc, BridgeFacts!WriteXl,
       BridgeFacts!SkipPc, BridgeFacts!ReadXl, BridgeFacts!WritePc, BridgeFacts!SkipXl
  <2> QED BY <1>0, <2>1, <2>2 DEF BridgeFacts!Next
<1>2. CASE OrderLeaves
  <2>1. <<mOrderCurrent>> \in Seq(Nat)
    BY OrderIsNat DEF HostInv
  <2>2. BridgeFacts!PcReceives(<<mOrderCurrent>>)
    BY <1>2, SameData DEF OrderLeaves
  <2> QED BY <1>0, <2>1, <2>2 DEF BridgeFacts!Next, BridgeFacts!PcReceives
<1>3. CASE ServosAnswer
  <2>1. PICK ids \in UNION {SetToSeqs(who) : who \in SUBSET Servos} :
            TheBridge!XlReceives(ids)
    BY <1>3 DEF ServosAnswer
  <2>2. ids \in Seq(Servos)
    BY <2>1, AnswersAreIds
  <2>3. ids \in Seq(Nat)
    <3>1. Len(ids) \in Nat /\ \A i \in 1..Len(ids) : ids[i] \in Nat
      BY <2>2, LenProperties, ElementOfSeq, HostAssumption
    <3>2. ids = [i \in 1..Len(ids) |-> ids[i]]
      BY <2>2, LenProperties
    <3> QED BY <3>1, <3>2, IsASeq
  <2>4. BridgeFacts!XlReceives(ids)
    BY <2>1, SameData
  <2>5. xlAll' \in Seq(Servos)
    BY <1>0, <2>2, <2>4, ConcatProperties DEF BridgeFacts!XlReceives
  <2> QED BY <2>3, <2>4, <2>5 DEF BridgeFacts!Next
<1>4. CASE UNCHANGED bridgeVars
  BY <1>0, <1>4 DEF bridgeVars, BridgeFacts!vars
<1>5. (OnCommandFinish \/ StartService \/ TestMachineState \/ GoPing \/ ActionTimer
       \/ Stands \/ Silent \/ UNCHANGED hostVars) => UNCHANGED bridgeVars
  BY DEF OnCommandFinish, StartService, TestMachineState, GoPing, ActionTimer, Stands, Silent, hostVars
<1> QED BY <1>1, <1>2, <1>3, <1>4, <1>5 DEF HostNext, Io, Asio, User, Main, Loop

(* A process does not become another one.                                    *)
LEMMA SameProcess ==
    ASSUME HostInv, [HostNext]_hostVars
    PROVE  test01' = test01 /\ program' = program
<1>1. test01' = test01
  BY DEF HostNext, Io, OrderLeaves, OnCommandFinish, Asio, Silent, Loop, Forward,
     AnswersArrive, ServosAnswer, Stands, User, Main, StartService,
     TestMachineState, GoPing, ActionTimer, hostVars
<1>2. program' = program
  BY StepOfThreads, MembersType DEF HostInv
<1> QED BY <1>1, <1>2

(* The invariant of the whole.                                               *)
THEOREM HostIsSafe == HostSpec => []HostInv
<1>1. HostInit => HostInv
  <2> SUFFICES ASSUME HostInit PROVE HostInv
    OBVIOUS
  <2>1. TypeOK /\ LockInv /\ OpsInv
    BY InitInv DEF HostInit
  <2>2. ServoInv /\ OrdersInv
    BY InitServos, InitOrders DEF HostInit
  <2>3. BridgeFacts!TypeOK /\ BridgeFacts!Forwards
    BY SameStates, BridgeFacts!InitBridge, BufferIsThere DEF HostInit
  <2>4. xlAll \in Seq(Servos)
    BY EmptySeq DEF HostInit, TheBridge!Init
  <2>5. test01 => program = Test01
    BY DEF HostInit
  <2> QED BY <2>1, <2>2, <2>3, <2>4, <2>5 DEF HostInv, LineInv
<1>2. HostInv /\ [HostNext]_hostVars => HostInv'
  <2> SUFFICES ASSUME HostInv, [HostNext]_hostVars PROVE HostInv'
    OBVIOUS
  <2>1. TypeOK' /\ LockInv' /\ OpsInv' /\ ServoInv' /\ OrdersInv'
    BY StepOfThreads, NextInv, NextServo, NextOrders DEF HostInv
  <2>2. LineInv'
    BY StepOfBridge, BridgeFacts!NextBridgeType, BridgeFacts!NextForwards,
       BufferIsThere DEF HostInv, LineInv
  <2>3. test01' => program' = Test01'
    BY SameProcess DEF HostInv, Test01
  <2> QED BY <2>1, <2>2, <2>3 DEF HostInv
<1> QED BY <1>1, <1>2, PTL DEF HostSpec

(* The bridge, the servos and test-01 around them do not let the threads do  *)
(* anything that Sharing does not allow.                                     *)
THEOREM HostIsSharing == HostSpec => Spec
<1>1. HostInit => Init
  BY DEF HostInit
<1>2. HostInv /\ [HostNext]_hostVars => [Next]_vars
  BY StepOfThreads
<1> QED BY <1>1, <1>2, HostIsSafe, PTL DEF HostSpec, Spec

(* What Sharing promises holds with the bridge behind the service and the    *)
(* main thread of test-01 among the users: no data race but the one at the   *)
(* first read of start, one servo per id, no order used after its end, no    *)
(* deadlock but that of a slot that registers, orders sent in order.         *)
THEOREM HostKeepsPromises ==
    HostSpec => /\ ServesStream
                /\ [](NoDataRace /\ OneServoPerId /\ OrderIsAlive /\ HoldersGoOn)
BY HostIsSharing, SharingServesStream, RaceFree, OneServo, OrdersAlive, NoDeadlock, PTL

(* What the PC sends and what the servos answer gets through, in test-01 and *)
(* in any other program, whatever the size of the shared buffer.             *)
THEOREM HostForwards == HostSpec => []BridgeForwards
<1>1. HostInv => BridgeForwards
  BY SameStates DEF HostInv, LineInv, BridgeForwards
<1> QED BY <1>1, HostIsSafe, PTL

-----------------------------------------------------------------------------
(* test-01: one thing at a time is under way.                                *)

One(condition) == IF condition THEN 1 ELSE 0

MainBusy == frame["main"].op = "registerCommand" /\ frame["main"].at < 2
SlotRuns == frame["inner"].op = "onCommandFinish"

(* The tasks, the timer, the call of main, the commands and the slot.        *)
Pending == Len(asioService) + One(actionTimer) + One(MainBusy)
            + (Len(registered) - ended) + One(SlotRuns)

CountInv == Len(mCommandQueue) + One(mCommandInProcess) + ended = Len(registered)

TestInv ==
    /\ program = Test01
    /\ \A u \in Users \ {"main"} : ~Busy(u)
    /\ frame["main"].op \in {"none", "registerCommand", "start"}
    /\ asioService \in Seq({"testMachineState", "goPing"})
    /\ state \in Nat /\ actionTimer \in BOOLEAN
    /\ Pending <= 1
    /\ ended = state + One(SlotRuns /\ frame["inner"].at < 2)

(* One counts 0 or 1.                                                        *)
LEMMA OneIsSmall == \A c \in BOOLEAN : One(c) \in 0..1
BY DEF One

(* The steps that matter for the count of commands.                          *)
LEMMA CountSteps ==
    ASSUME [Next]_vars
    PROVE  \/ UNCHANGED <<mCommandQueue, mCommandInProcess, ended, registered>>
           \/ \E l \in Lanes : PushCommand(l)
           \/ NextCommand
           \/ CommandOver
<1>1. ASSUME NEW l \in Lanes, CallStep(l)
      PROVE  \/ UNCHANGED <<mCommandQueue, mCommandInProcess, ended, registered>>
             \/ PushCommand(l)
  BY <1>1 DEF CallStep, Lock, PostCommand, FindServo, CreateServo, CopyResult,
     engineVars, sharedVars
<1>2. CASE RunTask \/ EndOrder \/ NoMoreCommand \/ OrderRunning
           \/ CommandEnded \/ ClearPing \/ ExtractOrder
  BY <1>2 DEF RunTask, EndOrder, NoMoreCommand, OrderRunning, ExtractOrder,
     CommandEnded, ClearPing, engineVars, sharedVars
<1>3. CASE ProcessPacket \/ NoPacket \/ PushPing \/ NewPingIdReceived \/ PrepareAsyncRead
           \/ SendOrder \/ OtherSlot \/ Expire \/ Receive \/ UNCHANGED vars
  BY <1>3 DEF ProcessPacket, NoPacket, PushPing, NewPingIdReceived, PrepareAsyncRead,
     SendOrder, OtherSlot, Expire, Receive, vars, engineVars, sharedVars
<1>4. ASSUME NEW u \in Users, UserCalls(u)
      PROVE  UNCHANGED <<mCommandQueue, mCommandInProcess, ended, registered>>
  BY <1>4 DEF UserCalls, engineVars, sharedVars
<1>5. ASSUME NEW ids \in Seq(Servos), Hear(ids)
      PROVE  UNCHANGED <<mCommandQueue, mCommandInProcess, ended, registered>>
  BY <1>5 DEF Hear, engineVars, sharedVars
<1>6. CASE StartStop
  BY <1>6, StartStopKeeps DEF engineVars, sharedVars
<1> QED BY <1>1, <1>2, <1>3, <1>4, <1>5, <1>6 DEF Next, IoThread, Lanes

(* Every step keeps the count of commands.                                   *)
LEMMA NextCount ==
    ASSUME TypeOK, CountInv, [Next]_vars
    PROVE  CountInv'
<1>0. /\ mCommandQueue \in Seq(Objects) /\ registered \in Seq(Objects)
      /\ Len(mCommandQueue) \in Nat /\ Len(registered) \in Nat /\ ended \in Nat
  BY LenProperties DEF TypeOK
<1>1. CASE UNCHANGED <<mCommandQueue, mCommandInProcess, ended, registered>>
  BY <1>1 DEF CountInv
<1>2. ASSUME NEW l \in Lanes, PushCommand(l) PROVE CountInv'
  <2>1. /\ Len(mCommandQueue') = Len(mCommandQueue) + 1
        /\ Len(registered') = Len(registered) + 1
    BY <1>0, <1>2, ArgIsObject, AppendProperties DEF PushCommand
  <2>2. mCommandInProcess' = mCommandInProcess /\ ended' = ended
    BY <1>2 DEF PushCommand, engineVars
  <2>3. CASE mCommandInProcess
    BY <1>0, <2>1, <2>2, <2>3 DEF CountInv, One
  <2>4. CASE ~mCommandInProcess
    BY <1>0, <2>1, <2>2, <2>4 DEF CountInv, One
  <2> QED BY <2>3, <2>4
<1>3. CASE NextCommand
  <2>1. Len(mCommandQueue') = Len(mCommandQueue) - 1
    BY <1>0, <1>3, HeadTailProperties DEF NextCommand
  <2>2. One(mCommandInProcess)' = 1 /\ One(mCommandInProcess) = 0
    BY <1>3 DEF NextCommand, One
  <2>3. ended' = ended /\ registered' = registered
    BY <1>3 DEF NextCommand
  <2> QED BY <1>0, <2>1, <2>2, <2>3 DEF CountInv
<1>4. CASE CommandOver
  <2>1. One(mCommandInProcess)' = 0 /\ One(mCommandInProcess) = 1
    BY <1>4 DEF CommandOver, One
  <2>2. /\ ended' = ended + 1 /\ registered' = registered
        /\ mCommandQueue' = mCommandQueue
    BY <1>4 DEF CommandOver, sharedVars
  <2> QED BY <1>0, <2>1, <2>2 DEF CountInv
<1> QED BY <1>1, <1>2, <1>3, <1>4, CountSteps

(* The main thread is a thread of the user.                                  *)
LEMMA MainIsUser ==
    "main" \in Lanes /\ "main" \notin IoLanes /\ "main" # "handler" /\ "main" # "inner"
BY HostAssumption, UsersAssumption DEF Lanes, IoLanes

(* A step that leaves the call of main and the slot where they are.          *)
QuietFrame ==
    /\ \A u \in Users \ {"main"} : frame'[u] = frame[u]
    /\ frame'["main"].op \in {frame["main"].op, "none", "start"}
    /\ MainBusy' <=> MainBusy
    /\ SlotRuns' <=> SlotRuns
    /\ SlotRuns => (frame'["inner"].at < 2 <=> frame["inner"].at < 2)

(* A step away from test-01 leaves its invariant alone.                      *)
LEMMA QuietStep ==
    ASSUME TestInv, QuietFrame,
           UNCHANGED <<registered, ended, program, testVars>>
    PROVE  TestInv'
<1>1. One(MainBusy)' = One(MainBusy) /\ One(SlotRuns)' = One(SlotRuns)
  BY DEF QuietFrame, One
<1>2. One(SlotRuns /\ frame["inner"].at < 2)' = One(SlotRuns /\ frame["inner"].at < 2)
  BY DEF QuietFrame, One
<1>3. asioService' = asioService /\ state' = state /\ actionTimer' = actionTimer
  BY DEF testVars
<1>4. Pending' = Pending
  BY <1>1, <1>3 DEF Pending, One
<1>5. \A u \in Users \ {"main"} : ~Busy(u)'
  BY DEF TestInv, QuietFrame, Busy
<1> QED BY <1>2, <1>3, <1>4, <1>5 DEF TestInv, QuietFrame

(* In test-01 main alone registers commands, and no slot calls the service.  *)
LEMMA CallsOfTest ==
    ASSUME TypeOK, OpsInv, TestInv, NEW l \in Lanes, CallStep(l)
    PROVE  \/ Lock(l) /\ l \notin Users \ {"main"}
           \/ l = "main" /\ (PushCommand(l) \/ PostCommand(l))
<1>1. frame[l].op # "none"
  BY DEF CallStep, Lock, PushCommand, PostCommand, FindServo, CreateServo,
     CopyResult, In, Runs, Busy
<1>2. l \notin Users \ {"main"}
  BY <1>1 DEF TestInv, Busy
<1>3. CASE l = "main"
  BY <1>3 DEF CallStep, FindServo, CreateServo, CopyResult, In, TestInv
<1>4. CASE l = "handler"
  BY <1>2, <1>4 DEF CallStep, PushCommand, PostCommand, FindServo, CreateServo,
     CopyResult, In, OpsInv, Handlers
<1>5. CASE l = "inner"
  <2>1. frame["inner"].op \in {"none", "clearPing", "pushPing",
                               "onCommandFinish", "nothing"}
    BY DEF OpsInv, InnerOps, TestInv, Test01
  <2> QED BY <1>2, <1>5, <2>1 DEF CallStep, PushCommand, PostCommand, FindServo,
             CreateServo, CopyResult, In
<1> QED BY <1>2, <1>3, <1>4, <1>5 DEF Lanes, IoLanes

TestUnchanged == UNCHANGED <<registered, ended, program, testVars>>

(* The steps of the handlers, of the slot's start aside.                     *)
LEMMA IoIsQuiet ==
    ASSUME TypeOK, OpsInv, TestInv, IoThread \/ SendOrder, UNCHANGED testVars
    PROVE  (QuietFrame /\ TestUnchanged) \/ CommandOver
<1> USE UserIsLane, MainIsUser
<1>0. /\ frame \in [Lanes -> Frames] /\ \A u \in Users : u \notin IoLanes
      /\ \A l \in Lanes : frame[l] \in [op : Ops, arg : Objects \cup Servos \cup {0}, at : Nat]
  BY UsersAssumption DEF TypeOK, Frames
<1>1. ASSUME frame' = frame PROVE QuietFrame
  BY <1>1 DEF QuietFrame, MainBusy, SlotRuns
<1>2. ASSUME NEW f, frame' = [frame EXCEPT !["handler"] = f] PROVE QuietFrame
  BY <1>0, <1>2 DEF QuietFrame, MainBusy, SlotRuns, IoLanes
<1>3. ASSUME NEW f, frame' = [frame EXCEPT !["inner"] = f], ~SlotRuns,
             f.op # "onCommandFinish"
      PROVE  QuietFrame
  BY <1>0, <1>3 DEF QuietFrame, MainBusy, SlotRuns, IoLanes
<1>4. ASSUME NEW n, NEW f, CallInner(n, f), ~Busy("inner"), f.op # "onCommandFinish"
      PROVE  QuietFrame
  BY <1>0, <1>4 DEF CallInner, Busy, QuietFrame, MainBusy, SlotRuns, IoLanes
<1>5. CASE RunTask \/ EndOrder
  BY <1>1, <1>2, <1>5 DEF RunTask, EndOrder, TestUnchanged, lockVars, sharedVars, startVars
<1>6. CASE NoMoreCommand \/ NextCommand \/ OrderRunning \/ CommandEnded
           \/ PrepareAsyncRead \/ SendOrder
  BY <1>2, <1>6 DEF NoMoreCommand, NextCommand, OrderRunning, CommandEnded,
     PrepareAsyncRead, SendOrder, Leave, TestUnchanged, sharedVars, startVars
<1>7. CASE ExtractOrder
  <2>1. ~Busy("inner") /\ Frame("clearPing", 0).op # "onCommandFinish"
    BY <1>7 DEF ExtractOrder, Deciding, In, Runs, Frame
  <2> QED BY <1>4, <1>7, <2>1 DEF ExtractOrder, TestUnchanged, sharedVars, startVars
<1>8. CASE ProcessPacket
  <2>1. ~Busy("inner") /\ Frame("pushPing", Head(bus)).op # "onCommandFinish"
    BY <1>8 DEF ProcessPacket, In, Runs, Frame
  <2> QED BY <1>4, <1>8, <2>1 DEF ProcessPacket, TestUnchanged, sharedVars, startVars
<1>9. CASE NewPingIdReceived
  <2>1. PICK f \in Requests(program.newPingIdReceived) : CallInner(3, f)
    BY <1>9 DEF NewPingIdReceived
  <2>2. f = Idle
    BY <2>1 DEF TestInv, Test01, Requests
  <2>3. ~Busy("inner") /\ f.op # "onCommandFinish"
    BY <1>9, <2>2 DEF NewPingIdReceived, In, Runs, Idle
  <2> QED BY <1>4, <1>9, <2>1, <2>3 DEF NewPingIdReceived, TestUnchanged, sharedVars, startVars
<1>10. CASE ClearPing
  <2>1. ~SlotRuns /\ Idle.op # "onCommandFinish"
    BY <1>10 DEF ClearPing, In, SlotRuns, Idle
  <2> QED BY <1>3, <1>10, <2>1 DEF ClearPing, Leave, TestUnchanged, startVars
<1>11. CASE PushPing
  <2>1. ~SlotRuns /\ Idle.op # "onCommandFinish"
    BY <1>11 DEF PushPing, In, SlotRuns, Idle
  <2> QED BY <1>3, <1>11, <2>1 DEF PushPing, Leave, TestUnchanged, startVars
<1>12. ASSUME NEW l \in IoLanes, CallStep(l) PROVE QuietFrame /\ TestUnchanged
  <2>1. Lock(l) /\ l \in Lanes
    BY <1>12, CallsOfTest DEF Lanes
  <2> QED BY <1>0, <2>1 DEF Lock, QuietFrame, MainBusy, SlotRuns, IoLanes,
             TestUnchanged, sharedVars, startVars
<1>13. CASE NoPacket
  <2>1. frame' = [frame EXCEPT !["handler"] = [frame["handler"] EXCEPT !.at = 3]]
    BY <1>0, <1>13 DEF NoPacket, GoTo
  <2> QED BY <1>2, <1>13, <2>1 DEF NoPacket, TestUnchanged, sharedVars, startVars
<1> QED BY <1>5, <1>6, <1>7, <1>8, <1>9, <1>10, <1>11, <1>12, <1>13 DEF IoThread

(* The numbers that Pending is the sum of.                                   *)
LEMMA TestNumbers ==
    ASSUME TypeOK, CountInv, TestInv
    PROVE  /\ Len(asioService) \in Nat /\ Len(registered) - ended \in Nat
           /\ mCommandInProcess => Len(registered) - ended # 0
           /\ ended \in Nat /\ state \in Nat /\ Len(registered) \in Nat
           /\ One(actionTimer) \in 0..1 /\ One(MainBusy) \in 0..1
           /\ One(SlotRuns) \in 0..1
<1>1. /\ Len(asioService) \in Nat /\ Len(registered) \in Nat /\ ended \in Nat
      /\ Len(mCommandQueue) \in Nat /\ state \in Nat
  BY LenProperties DEF TypeOK, TestInv
<1>2. CASE mCommandInProcess
  BY <1>1, <1>2 DEF CountInv, One
<1>3. CASE ~mCommandInProcess
  BY <1>1, <1>3 DEF CountInv, One
<1>4. Len(registered) - ended \in Nat
  BY <1>1, <1>2, <1>3 DEF CountInv, One
<1>5. One(actionTimer) \in 0..1 /\ One(MainBusy) \in 0..1 /\ One(SlotRuns) \in 0..1
  BY DEF One
<1> QED BY <1>1, <1>2, <1>4, <1>5

(* main registers a command: the call becomes a command under way.           *)
LEMMA MainPushes ==
    ASSUME TypeOK, CountInv, TestInv, PushCommand("main"), UNCHANGED testVars
    PROVE  TestInv'
<1> USE UserIsLane, MainIsUser
<1>0. frame \in [Lanes -> Frames]
  BY DEF TypeOK
<1>1. /\ frame["main"].op = "registerCommand" /\ frame["main"].at = 1
      /\ frame' = [frame EXCEPT !["main"].at = 2]
      /\ ended' = ended /\ program' = program
  BY DEF PushCommand, In, GoTo, startVars
<1>2. Len(registered') = Len(registered) + 1
  BY ArgIsObject, AppendProperties DEF PushCommand, TypeOK
<1>3. /\ frame'["main"].op = "registerCommand" /\ frame'["main"].at = 2
      /\ \A l \in Lanes \ {"main"} : frame'[l] = frame[l]
  BY <1>0, <1>1
<1>4. One(MainBusy) = 1 /\ One(MainBusy)' = 0
  BY <1>1, <1>3 DEF One, MainBusy
<1>5. One(SlotRuns)' = One(SlotRuns) /\ One(actionTimer)' = One(actionTimer)
  BY <1>3 DEF One, SlotRuns, testVars
<1>6. One(SlotRuns /\ frame["inner"].at < 2)' = One(SlotRuns /\ frame["inner"].at < 2)
  BY <1>3 DEF One, SlotRuns
<1>7. asioService' = asioService /\ state' = state /\ actionTimer' = actionTimer
  BY DEF testVars
<1>8. Pending' = Pending
  BY <1>1, <1>2, <1>4, <1>5, <1>7, TestNumbers DEF Pending
<1>9. \A u \in Users \ {"main"} : ~Busy(u)'
  BY <1>3 DEF TestInv, Busy
<1> QED BY <1>1, <1>3, <1>6, <1>7, <1>8, <1>9 DEF TestInv

(* A command is over: the slot begins.                                       *)
LEMMA SlotBegins ==
    ASSUME TypeOK, CountInv, TestInv, CommandOver, UNCHANGED testVars
    PROVE  TestInv'
<1> USE UserIsLane, MainIsUser
<1>0. frame \in [Lanes -> Frames] /\ \A u \in Users : u \in Lanes /\ u \notin IoLanes
  BY UsersAssumption DEF TypeOK
<1>1. PICK f \in Requests("onCommandFinish") : CallInner(2, f)
  BY DEF CommandOver, TestInv, Test01
<1>2. f.op = "onCommandFinish" /\ f.at = 0
  BY <1>1 DEF Requests, Frame
<1>3. /\ frame'["inner"] = f /\ frame'["main"] = frame["main"]
      /\ \A u \in Users \ {"main"} : frame'[u] = frame[u]
  BY <1>0, <1>1 DEF CallInner, IoLanes
<1>4. /\ ended' = ended + 1 /\ registered' = registered /\ program' = program
      /\ mCommandInProcess
  BY DEF CommandOver, sharedVars, startVars
<1>5. ~SlotRuns
  BY DEF CommandOver, Deciding, In, Runs, Busy, SlotRuns
<1>6. One(SlotRuns) = 0 /\ One(SlotRuns)' = 1
  BY <1>2, <1>3, <1>5 DEF One, SlotRuns
<1>7. One(MainBusy)' = One(MainBusy) /\ One(actionTimer)' = One(actionTimer)
  BY <1>3 DEF One, MainBusy, testVars
<1>8. /\ One(SlotRuns /\ frame["inner"].at < 2) = 0
      /\ One(SlotRuns /\ frame["inner"].at < 2)' = 1
  BY <1>2, <1>3, <1>5 DEF One, SlotRuns
<1>9. asioService' = asioService /\ state' = state /\ actionTimer' = actionTimer
  BY DEF testVars
<1>10. Pending' = Pending
  BY <1>4, <1>6, <1>7, <1>9, TestNumbers DEF Pending
<1>11. ended' = state' + 1
  BY <1>4, <1>8, <1>9, TestNumbers DEF TestInv
<1>12. \A u \in Users \ {"main"} : ~Busy(u)'
  BY <1>3 DEF TestInv, Busy
<1> QED BY <1>3, <1>4, <1>8, <1>9, <1>10, <1>11, <1>12 DEF TestInv

(* The slot counts, and then posts and is over.                              *)
LEMMA SlotGoesOn ==
    ASSUME TypeOK, CountInv, TestInv, OnCommandFinish
    PROVE  TestInv'
<1> USE UserIsLane, MainIsUser
<1>0. frame \in [Lanes -> Frames] /\ \A u \in Users : u \in Lanes /\ u \notin IoLanes
  BY UsersAssumption DEF TypeOK
<1>1. /\ SlotRuns /\ registered' = registered /\ ended' = ended
      /\ program' = program /\ actionTimer' = actionTimer
  BY DEF OnCommandFinish, OtherSlot, SlotRuns, sharedVars, startVars
<1>2. CASE frame["inner"].at = 1
  <2>1. frame' = [frame EXCEPT !["inner"].at = 2]
    BY <1>2 DEF OnCommandFinish, OtherSlot, In, GoTo
  <2>2. /\ frame'["inner"].op = frame["inner"].op /\ frame'["inner"].at = 2
        /\ frame'["main"] = frame["main"]
        /\ \A u \in Users \ {"main"} : frame'[u] = frame[u]
    BY <1>0, <2>1 DEF IoLanes
  <2>3. state' = state + 1 /\ asioService' = asioService
    BY <1>2 DEF OnCommandFinish
  <2>4. /\ One(SlotRuns)' = One(SlotRuns) /\ One(MainBusy)' = One(MainBusy)
        /\ One(actionTimer)' = One(actionTimer)
    BY <1>1, <2>2 DEF One, SlotRuns, MainBusy
  <2>5. /\ One(SlotRuns /\ frame["inner"].at < 2) = 1
        /\ One(SlotRuns /\ frame["inner"].at < 2)' = 0
    BY <1>1, <1>2, <2>2 DEF One
  <2>6. Pending' = Pending
    BY <1>1, <2>3, <2>4 DEF Pending
  <2>7. ended' = state' + 0 /\ state' \in Nat
    BY <1>1, <2>3, <2>5, TestNumbers DEF TestInv
  <2>8. \A u \in Users \ {"main"} : ~Busy(u)'
    BY <2>2 DEF TestInv, Busy
  <2> QED BY <1>1, <2>2, <2>3, <2>5, <2>6, <2>7, <2>8 DEF TestInv
<1>3. CASE frame["inner"].at # 1
  <2>1. frame' = [frame EXCEPT !["inner"] = Idle] /\ frame["inner"].at = 2
    BY <1>3 DEF OnCommandFinish, OtherSlot, In, Leave
  <2>2. /\ frame'["inner"].op = "none" /\ frame'["main"] = frame["main"]
        /\ \A u \in Users \ {"main"} : frame'[u] = frame[u]
    BY <1>0, <2>1 DEF IoLanes, Idle
  <2>3. state' = state /\ asioService' = Append(asioService, "testMachineState")
    BY <1>3 DEF OnCommandFinish
  <2>4. /\ Len(asioService') = Len(asioService) + 1
        /\ asioService' \in Seq({"testMachineState", "goPing"})
    BY <2>3, AppendProperties DEF TestInv
  <2>5. One(SlotRuns)' = 0 /\ One(SlotRuns) = 1
    BY <1>1, <2>2 DEF One, SlotRuns
  <2>6. One(MainBusy)' = One(MainBusy) /\ One(actionTimer)' = One(actionTimer)
    BY <1>1, <2>2 DEF One, MainBusy
  <2>7. /\ One(SlotRuns /\ frame["inner"].at < 2) = 0
        /\ One(SlotRuns /\ frame["inner"].at < 2)' = 0
    BY <2>1, <2>2 DEF One, SlotRuns
  <2>8. Pending' = Pending
    <3>1. /\ Len(asioService) \in Int /\ One(actionTimer) \in Int
          /\ One(MainBusy) \in Int /\ Len(registered) - ended \in Int
      BY TestNumbers
    <3>2. Len(registered') - ended' = Len(registered) - ended
      BY <1>1
    <3> QED BY <2>4, <2>5, <2>6, <3>1, <3>2 DEF Pending
  <2>9. \A u \in Users \ {"main"} : ~Busy(u)'
    BY <2>2 DEF TestInv, Busy
  <2> QED BY <1>1, <2>2, <2>3, <2>4, <2>7, <2>8, <2>9 DEF TestInv
<1> QED BY <1>2, <1>3

(* The main thread takes a task, or the timer makes one.                     *)
LEMMA MainGoesOn ==
    ASSUME TypeOK, CountInv, TestInv, TestMachineState \/ ActionTimer \/ GoPing
    PROVE  TestInv'
<1> USE UserIsLane, MainIsUser
<1>0. frame \in [Lanes -> Frames] /\ \A u \in Users : u \in Lanes /\ u \notin IoLanes
  BY UsersAssumption DEF TypeOK
<1>1. /\ asioService \in Seq({"testMachineState", "goPing"})
      /\ asioService # <<>> =>
            /\ Tail(asioService) \in Seq({"testMachineState", "goPing"})
            /\ Len(Tail(asioService)) = Len(asioService) - 1
  BY HeadTailProperties DEF TestInv
<1>2. CASE TestMachineState
  <2>1. /\ UNCHANGED <<frame, registered, ended, program, state>>
        /\ Len(asioService') = Len(asioService) - 1
        /\ asioService' \in Seq({"testMachineState", "goPing"})
        /\ actionTimer' \in BOOLEAN
    BY <1>1, <1>2 DEF TestMachineState, MainRuns, vars, lockVars, sharedVars, startVars
  <2>2. One(actionTimer)' \in 0..1
    BY <2>1 DEF One
  <2>3. One(MainBusy)' = One(MainBusy) /\ One(SlotRuns)' = One(SlotRuns)
    BY <2>1 DEF One, MainBusy, SlotRuns
  <2>4. /\ Len(asioService) \in Int /\ One(actionTimer) \in 0..1
        /\ One(MainBusy) \in Int /\ Len(registered) - ended \in Int
        /\ One(SlotRuns) \in Int /\ Len(registered') - ended' = Len(registered) - ended
    BY <2>1, TestNumbers
  <2>5. Pending' <= Pending
    <3>1. One(actionTimer)' <= One(actionTimer) + 1 /\ One(actionTimer)' \in Int
      BY <2>2, <2>4
    <3>2. Len(registered') - ended' = Len(registered) - ended
      BY <2>4
    <3>3. /\ Len(asioService) \in Int /\ One(actionTimer) \in Int
          /\ One(MainBusy) \in Int /\ Len(registered) - ended \in Int
          /\ One(SlotRuns) \in Int
      BY <2>4
    <3>4. Len(asioService') = Len(asioService) - 1
      BY <2>1
    <3> QED BY <2>3, <3>1, <3>2, <3>3, <3>4 DEF Pending
  <2>6. Pending' <= 1
    <3>1. Pending <= 1
      BY DEF TestInv
    <3>2. Pending \in Int
      BY <2>4 DEF Pending
    <3>3. Pending' \in Int
      BY <2>1, <2>2, <2>3, <2>4 DEF Pending
    <3> QED BY <2>5, <3>1, <3>2, <3>3
  <2>7. One(SlotRuns /\ frame["inner"].at < 2)' = One(SlotRuns /\ frame["inner"].at < 2)
    BY <2>1 DEF One, SlotRuns
  <2> QED BY <2>1, <2>6, <2>7 DEF TestInv, Busy
<1>3. CASE ActionTimer
  <2>1. /\ UNCHANGED <<frame, registered, ended, program, state>>
        /\ asioService' = Append(asioService, "goPing")
    BY <1>3 DEF ActionTimer, vars, lockVars, sharedVars, startVars
  <2>2. /\ Len(asioService') = Len(asioService) + 1
        /\ asioService' \in Seq({"testMachineState", "goPing"})
    BY <1>1, <2>1, AppendProperties
  <2>3. One(actionTimer) = 1 /\ One(actionTimer)' = 0
    BY <1>3 DEF ActionTimer, One
  <2>4. One(MainBusy)' = One(MainBusy) /\ One(SlotRuns)' = One(SlotRuns)
    BY <2>1 DEF One, MainBusy, SlotRuns
  <2>5. /\ Len(asioService) \in Int
        /\ One(MainBusy) \in Int /\ Len(registered) - ended \in Int
        /\ One(SlotRuns) \in Int /\ Len(registered') - ended' = Len(registered) - ended
    BY <2>1, TestNumbers
  <2>6. Pending' = Pending
    BY <2>2, <2>3, <2>4, <2>5 DEF Pending
  <2>7. One(SlotRuns /\ frame["inner"].at < 2)' = One(SlotRuns /\ frame["inner"].at < 2)
    BY <2>1 DEF One, SlotRuns
  <2> QED BY <1>3, <2>1, <2>2, <2>6, <2>7 DEF TestInv, Busy, ActionTimer
<1>4. CASE GoPing
  <2>1. PICK f \in Requests("registerCommand") :
            frame' = [frame EXCEPT !["main"] = f]
    BY <1>4 DEF GoPing
  <2>2. f.op = "registerCommand" /\ f.at = 0
    BY <2>1 DEF Requests, Frame
  <2>3. /\ frame'["main"] = f /\ frame'["inner"] = frame["inner"]
        /\ \A u \in Users \ {"main"} : frame'[u] = frame[u]
    BY <1>0, <2>1
  <2>4. /\ UNCHANGED <<registered, ended, program, state, actionTimer>>
        /\ Len(asioService') = Len(asioService) - 1
        /\ asioService' \in Seq({"testMachineState", "goPing"})
    BY <1>1, <1>4 DEF GoPing, MainRuns, sharedVars, startVars
  <2>5. One(MainBusy) = 0 /\ One(MainBusy)' = 1
    BY <1>4, <2>2, <2>3 DEF GoPing, MainRuns, Busy, One, MainBusy
  <2>6. One(actionTimer)' = One(actionTimer) /\ One(SlotRuns)' = One(SlotRuns)
    BY <2>3, <2>4 DEF One, SlotRuns
  <2>7. /\ Len(asioService) \in Int /\ One(actionTimer) \in Int
        /\ Len(registered) - ended \in Int
        /\ One(SlotRuns) \in Int /\ Len(registered') - ended' = Len(registered) - ended
    BY <2>4, TestNumbers
  <2>8. Pending' = Pending
    BY <2>4, <2>5, <2>6, <2>7 DEF Pending
  <2>9. One(SlotRuns /\ frame["inner"].at < 2)' = One(SlotRuns /\ frame["inner"].at < 2)
    BY <2>3 DEF One, SlotRuns
  <2> QED BY <2>2, <2>3, <2>4, <2>8, <2>9 DEF TestInv, Busy
<1> QED BY <1>2, <1>3, <1>4

(* Every step keeps the invariant of test-01.                                *)
LEMMA NextTest ==
    ASSUME HostInv, CountInv, test01 => TestInv, [HostNext]_hostVars
    PROVE  test01' => TestInv'
<1> USE UserIsLane, MainIsUser
<1>0. TypeOK /\ OpsInv /\ frame \in [Lanes -> Frames]
  BY DEF HostInv, TypeOK
<1>1. test01' = test01
  BY SameProcess
<1> SUFFICES ASSUME test01, TestInv PROVE TestInv'
  BY <1>1
<1>2. UNCHANGED frame => QuietFrame
  BY DEF QuietFrame, MainBusy, SlotRuns
<1>3. CASE (IoThread \/ SendOrder) /\ UNCHANGED testVars
  BY <1>0, <1>3, IoIsQuiet, QuietStep, SlotBegins DEF TestUnchanged
<1>4. CASE OnCommandFinish
  BY <1>0, <1>4, SlotGoesOn
<1>5. CASE TestMachineState \/ ActionTimer \/ GoPing
  BY <1>0, <1>5, MainGoesOn
<1>6. ASSUME NEW u \in Users, CallStep(u), UNCHANGED testVars
      PROVE  TestInv'
  <2>1. u \in Lanes
    OBVIOUS
  <2>2. u = "main" /\ (Lock(u) \/ PushCommand(u) \/ PostCommand(u))
    BY <1>0, <1>6, <2>1, CallsOfTest
  <2>3. CASE Lock(u)
    <3>1. frame' = [frame EXCEPT !["main"].at = 1] /\ frame["main"].at = 0
      BY <2>2, <2>3 DEF Lock
    <3>2. /\ frame'["main"].op = frame["main"].op /\ frame'["main"].at = 1
          /\ \A l \in Lanes \ {"main"} : frame'[l] = frame[l]
      BY <1>0, <3>1 DEF Frames
    <3>3. QuietFrame
      BY <3>1, <3>2 DEF QuietFrame, MainBusy, SlotRuns
    <3>4. TestUnchanged
      BY <1>6, <2>3 DEF Lock, TestUnchanged, sharedVars, startVars
    <3> QED BY <3>3, <3>4, QuietStep DEF TestUnchanged
  <2>4. CASE PushCommand(u)
    BY <1>0, <1>6, <2>2, <2>4, MainPushes
  <2>5. CASE PostCommand(u)
    <3>1. /\ frame' = [frame EXCEPT !["main"] = Idle] /\ frame["main"].at = 2
          /\ UNCHANGED <<registered, ended, program>>
      BY <2>2, <2>5 DEF PostCommand, Leave, In, sharedVars, startVars
    <3>2. /\ frame'["main"].op = "none"
          /\ \A l \in Lanes \ {"main"} : frame'[l] = frame[l]
      BY <1>0, <3>1 DEF Idle
    <3>3. One(MainBusy)' = One(MainBusy) /\ One(SlotRuns)' = One(SlotRuns)
      BY <3>1, <3>2 DEF One, MainBusy, SlotRuns
    <3>4. One(SlotRuns /\ frame["inner"].at < 2)' = One(SlotRuns /\ frame["inner"].at < 2)
      BY <3>2 DEF One, SlotRuns
    <3>5. asioService' = asioService /\ state' = state /\ actionTimer' = actionTimer
      BY <1>6 DEF testVars
    <3>6. Pending' = Pending
      BY <3>1, <3>3, <3>5 DEF Pending, One
    <3>7. \A v \in Users \ {"main"} : ~Busy(v)'
      BY <3>2 DEF TestInv, Busy
    <3> QED BY <3>1, <3>2, <3>4, <3>5, <3>6, <3>7 DEF TestInv
  <2> QED BY <2>2, <2>3, <2>4, <2>5
<1>7. CASE UNCHANGED <<frame, registered, ended, program, testVars>>
  BY <1>2, <1>7, QuietStep
<1>8. Asio \/ AnswersArrive
        => UNCHANGED <<frame, registered, ended, program, testVars>>
  BY DEF Asio, Silent, Expire, Receive, AnswersArrive, Hear, lockVars, sharedVars,
     startVars
<1>9. Forward \/ ServosAnswer \/ Stands \/ UNCHANGED hostVars
        => UNCHANGED <<frame, registered, ended, program, testVars>>
  BY DEF Forward, ServosAnswer, Stands, hostVars, vars, lockVars, sharedVars, startVars
<1>10. /\ Silent => UNCHANGED testVars
       /\ OrderLeaves => SendOrder /\ UNCHANGED testVars
  BY DEF Silent, OrderLeaves
<1>11. CASE StartService
  <2>1. frame["main"].op = "none" /\ frame' = [frame EXCEPT !["main"] = Frame("start", 0)]
    BY <1>11 DEF StartService, Busy
  <2>2. /\ frame'["main"].op = "start"
        /\ \A l \in Lanes \ {"main"} : frame'[l] = frame[l]
    BY <1>0, <2>1 DEF Frame
  <2>3. QuietFrame
    BY <2>1, <2>2 DEF QuietFrame, MainBusy, SlotRuns
  <2>4. TestUnchanged
    BY <1>11 DEF StartService, TestUnchanged, sharedVars, startVars
  <2> QED BY <2>3, <2>4, QuietStep DEF TestUnchanged
<1>12. CASE StartStop /\ UNCHANGED testVars
  <2>1. /\ UNCHANGED <<registered, ended, program>>
        /\ frame["main"].op \in OwnerCalls
        /\ Leave("main") \/ \E n \in {2, 3} : GoTo("main", n)
    BY <1>12, StartStopKeeps, HostAssumption DEF sharedVars
  <2>2. /\ frame'["main"].op \in {"none", frame["main"].op}
        /\ \A l \in Lanes \ {"main"} : frame'[l] = frame[l]
    <3>1. CASE Leave("main")
      BY <1>0, <3>1 DEF Leave, Idle
    <3>2. ASSUME NEW n \in {2, 3}, GoTo("main", n)
          PROVE  /\ frame'["main"].op = frame["main"].op
                 /\ \A l \in Lanes \ {"main"} : frame'[l] = frame[l]
      BY <1>0, <3>2 DEF GoTo, Frames
    <3> QED BY <2>1, <3>1, <3>2
  <2>3. ~MainBusy /\ ~MainBusy'
    BY <2>1, <2>2 DEF MainBusy, OwnerCalls
  <2>4. QuietFrame
    BY <2>2, <2>3 DEF QuietFrame, SlotRuns
  <2> QED BY <1>12, <2>1, <2>4, QuietStep
<1>13. ASSUME HostNext
       PROVE  \/ (IoThread \/ SendOrder) /\ UNCHANGED testVars
              \/ OnCommandFinish \/ TestMachineState \/ ActionTimer \/ GoPing
              \/ \E u \in Users : CallStep(u) /\ UNCHANGED testVars
              \/ StartService \/ (StartStop /\ UNCHANGED testVars)
              \/ Asio \/ AnswersArrive \/ Forward \/ ServosAnswer \/ Stands
  BY <1>10, <1>13, HostAssumption, UsersAssumption DEF HostNext, Io, Loop, User, Main
<1> QED BY <1>3, <1>4, <1>5, <1>6, <1>7, <1>8, <1>9, <1>11, <1>12, <1>13

(* The invariant of test-01 holds at the start.                              *)
LEMMA InitTest == HostInit => CountInv /\ (test01 => TestInv)
<1> SUFFICES ASSUME HostInit PROVE CountInv /\ (test01 => TestInv)
  OBVIOUS
<1> USE UserIsLane, MainIsUser
<1>1. /\ frame = [l \in Lanes |-> Idle] /\ registered = <<>> /\ ended = 0
      /\ mCommandQueue = <<>> /\ mCommandInProcess = FALSE
      /\ state = 0 /\ actionTimer = FALSE /\ test01 = (program = Test01)
      /\ asioService = IF test01 THEN <<"testMachineState">> ELSE <<>>
  BY DEF HostInit, Init
<1>2. CountInv
  BY <1>1 DEF CountInv, One
<1>3. \A l \in Lanes : frame[l].op = "none"
  BY <1>1 DEF Idle
<1>4. ASSUME test01 PROVE TestInv
  <2>1. One(MainBusy) = 0 /\ One(SlotRuns) = 0 /\ One(actionTimer) = 0
    BY <1>1, <1>3 DEF One, MainBusy, SlotRuns
  <2>2. One(SlotRuns /\ frame["inner"].at < 2) = 0
    BY <1>3 DEF One, SlotRuns
  <2>3. Len(asioService) = 1 /\ Len(registered) = 0
    BY <1>1, <1>4
  <2>4. asioService \in Seq({"testMachineState", "goPing"})
    <3>1. asioService = <<"testMachineState">>
      BY <1>1, <1>4
    <3> QED BY <3>1
  <2>5. Pending <= 1
    <3>1. ended = 0
      BY <1>1
    <3> QED BY <2>1, <2>3, <3>1 DEF Pending
  <2>6. program = Test01
    BY <1>1, <1>4
  <2>7. ended = state + One(SlotRuns /\ frame["inner"].at < 2) /\ state \in Nat
    <3>1. ended = 0 /\ state = 0
      BY <1>1
    <3> QED BY <2>2, <3>1
  <2>8. actionTimer \in BOOLEAN
    BY <1>1
  <2>9. /\ \A u \in Users \ {"main"} : ~Busy(u)
        /\ frame["main"].op \in {"none", "registerCommand", "start"}
    BY <1>3 DEF Busy
  <2> QED BY <2>4, <2>5, <2>6, <2>7, <2>8, <2>9 DEF TestInv
<1> QED BY <1>2, <1>4

(* The main thread of test-01 never looks at state while the slot is at it,  *)
(* and finds there the number of the commands that have ended.               *)
THEOREM TestIsSettled == HostSpec => []StateIsSettled
<1>1. HostInv /\ CountInv /\ (test01 => TestInv) /\ [HostNext]_hostVars
        => (CountInv /\ (test01 => TestInv))'
  BY NextTest, StepOfThreads, NextCount DEF HostInv
<1>2. HostInv /\ CountInv /\ (test01 => TestInv) => StateIsSettled
  <2> SUFFICES ASSUME HostInv, CountInv, test01, TestInv, asioService # <<>>
               PROVE  state = ended /\ ~SlotRuns
    BY DEF StateIsSettled, SlotRuns
  <2>1. TypeOK
    BY DEF HostInv
  <2>2. Len(asioService) # 0
    BY EmptySeq DEF TestInv
  <2>3. /\ Len(asioService) \in Nat /\ One(actionTimer) \in 0..1
        /\ One(MainBusy) \in 0..1 /\ Len(registered) - ended \in Nat
        /\ One(SlotRuns) \in 0..1
    BY <2>1, TestNumbers
  <2>4. Pending <= 1
    BY DEF TestInv
  <2>5. One(SlotRuns) = 0
    BY <2>2, <2>3, <2>4 DEF Pending
  <2>6. ~SlotRuns
    BY <2>5 DEF One
  <2>7. One(SlotRuns /\ frame["inner"].at < 2) = 0
    BY <2>6 DEF One
  <2> QED BY <2>6, <2>7 DEF TestInv
<1> QED BY <1>1, <1>2, InitTest, HostIsSafe, PTL DEF HostSpec
=============================================================================
