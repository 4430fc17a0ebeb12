---------------------------- MODULE SharingProofs ----------------------------
(***************************************************************************)
(* Theorems about Sharing: who holds a mutex is at work inside its scope,  *)
(* and what follows for races, deadlocks, servos and orders; and the steps *)
(* still implement CommandStream.                                          *)
(***************************************************************************)
EXTENDS Sharing, SuffixLemmas

(* What a handler calls: a scope of its own, or the slot of a signal.        *)
InnerOps == {"none", "clearPing", "pushPing", program.commandEnded,
             program.newPingIdReceived}

(* What a thread of the user calls.                                          *)
UserOps(u) == Calls \cup {"none"} \cup IF u = Owner THEN OwnerCalls ELSE {}

(* What a step does to the lanes and the mutexes.                            *)
Moves ==
    \/ UNCHANGED lockVars
    \/ \E l \in Lanes : \E n \in Nat \ {0} :
            /\ frame[l].at # 0 /\ GoTo(l, n)
            /\ frame[l].op = "getServo" => FindServo(l)
            /\ frame[l].op = "registerCommand" => PushCommand(l)
            /\ frame[l].op \in OwnerCalls => StartStop
    \/ \E l \in Lanes : frame[l].at # 0 /\ Leave(l)
    \/ \E l \in Lanes : Lock(l)
    \/ \E n \in Nat \ {0} : \E f \in Frames :
            /\ frame["handler"].at # 0 /\ ~Busy("inner")
            /\ frame["handler"].op \in Handlers
            /\ f.at = 0 /\ f.op \in InnerOps
            /\ CallInner(n, f)
    \/ \E l \in Lanes : \E f \in Frames :
            /\ ~Busy(l) /\ f.at = 0
            /\ \/ l \in Users /\ f.op \in UserOps(l)
               \/ l = "handler" /\ f.op \in Handlers /\ Running /\ tasks # <<>>
            /\ frame' = [frame EXCEPT ![l] = f] /\ UNCHANGED holder

(* A lane that does nothing has the idle frame.                              *)
LEMMA IdleIsFrame == Idle \in Frames /\ Idle.at = 0
BY DEF Idle, Frames, Ops

(* What a slot or a user asks for is the start of a call, or nothing.        *)
LEMMA RequestsAreFrames ==
    ASSUME TypeOK, NEW kind \in SlotKinds \cup OwnerCalls, NEW f \in Requests(kind)
    PROVE  f \in Frames /\ f.at = 0 /\ (f.op = kind \/ f.op = "none")
<1>1. CASE kind = "registerCommand"
  <2>1. PICK c \in program.commands : f = Frame(kind, c)
    BY <1>1 DEF Requests
  <2>2. c \in Objects
    BY <2>1, ProgramsAssumption DEF TypeOK
  <2> QED BY <1>1, <2>1, <2>2 DEF Frame, Frames, Ops, SlotKinds, Calls
<1>2. CASE kind = "getServo"
  <2>1. PICK id \in Servos : f = Frame(kind, id)
    BY <1>2 DEF Requests
  <2> QED BY <1>2, <2>1 DEF Frame, Frames, Ops, SlotKinds, Calls
<1>3. CASE kind = "nothing"
  <2>1. f = Idle
    BY <1>3 DEF Requests
  <2> QED BY <2>1 DEF Idle, Frames, Ops
<1>4. CASE kind \notin {"registerCommand", "getServo", "nothing"}
  <2>1. f = Frame(kind, 0)
    BY <1>4 DEF Requests
  <2>2. f \in [op : Ops, arg : Objects \cup Servos \cup {0}, at : Nat]
    BY <2>1 DEF Frame, Ops
  <2> QED BY <1>4, <2>1, <2>2 DEF Frame, Frames
<1> QED BY <1>1, <1>2, <1>3, <1>4

(* What a slot is set to do is one of the kinds of the model.                *)
LEMMA SlotIsKind ==
    ASSUME TypeOK
    PROVE  program.commandEnded \in SlotKinds /\ program.newPingIdReceived \in SlotKinds
BY ProgramsAssumption DEF TypeOK

(* The threads of the user are lanes, and not the io thread.                 *)
LEMMA UserIsLane == Users \subseteq Lanes /\ "handler" \in Lanes /\ "inner" \in Lanes
BY DEF Lanes, IoLanes

(* So is the one that starts and stops the service.                          *)
LEMMA OwnerIsUser ==
    Owner \in Users /\ Owner \in Lanes /\ Owner # "handler" /\ Owner # "inner"
BY UsersAssumption DEF Lanes, IoLanes

(* What start and stop leave alone.                                          *)
LEMMA StartStopKeeps ==
    ASSUME StartStop
    PROVE  /\ UNCHANGED <<engineVars, sharedVars, bus, program, ended>>
           /\ frame[Owner].op \in OwnerCalls /\ frame[Owner].at # 0
           /\ \/ Leave(Owner)
              \/ \E n \in {2, 3} : GoTo(Owner, n)
<1> USE DEF ioVars, startVars, In, OwnerCalls
<1>1. CASE StartAlreadyOpened
  BY <1>1 DEF StartAlreadyOpened
<1>2. CASE StartOpens
  BY <1>2 DEF StartOpens
<1>3. CASE StartReads
  BY <1>3 DEF StartReads
<1>4. CASE StopsIos
  BY <1>4 DEF StopsIos
<1>5. CASE StopJoins
  BY <1>5 DEF StopJoins
<1>6. CASE StopCloses
  BY <1>6 DEF StopCloses
<1> QED BY <1>1, <1>2, <1>3, <1>4, <1>5, <1>6 DEF StartStop

(* Nothing else starts or stops the service.                                 *)
LEMMA OnlyStartStop ==
    ASSUME [Next]_vars
    PROVE  StartStop \/ UNCHANGED startVars
<1>1. ASSUME NEW l \in Lanes, CallStep(l) PROVE UNCHANGED startVars
  BY <1>1 DEF CallStep, Lock, PushCommand, PostCommand, FindServo, CreateServo,
     CopyResult
<1>2. CASE RunTask \/ EndOrder \/ NoMoreCommand \/ NextCommand
           \/ OrderRunning \/ CommandOver \/ CommandEnded \/ ExtractOrder
           \/ ClearPing
  BY <1>2 DEF RunTask, EndOrder, NoMoreCommand, NextCommand, OrderRunning,
     CommandOver, CommandEnded, ExtractOrder, ClearPing
<1>3. CASE ProcessPacket \/ NoPacket \/ PushPing \/ NewPingIdReceived
           \/ PrepareAsyncRead \/ SendOrder \/ OtherSlot \/ Expire \/ Receive
           \/ UNCHANGED vars
  BY <1>3 DEF ProcessPacket, NoPacket, PushPing, NewPingIdReceived,
     PrepareAsyncRead, SendOrder, OtherSlot, Expire, Receive, vars
<1>4. ASSUME NEW u \in Users, UserCalls(u) PROVE UNCHANGED startVars
  BY <1>4 DEF UserCalls
<1>5. ASSUME NEW ids \in Seq(Servos), Hear(ids) PROVE UNCHANGED startVars
  BY <1>5 DEF Hear
<1> QED BY <1>1, <1>2, <1>3, <1>4, <1>5 DEF Next, IoThread, Lanes

(* A call of a lane moves it.                                                *)
LEMMA CallMoves ==
    ASSUME TypeOK, NEW l \in Lanes, CallStep(l)
    PROVE  Moves
<1>1. CASE Lock(l)
  BY <1>1 DEF Moves
<1>2. CASE PushCommand(l)
  BY <1>2 DEF Moves, PushCommand, In, OwnerCalls
<1>3. CASE PostCommand(l)
  BY <1>3 DEF Moves, PostCommand, In
<1>4. CASE FindServo(l)
  BY <1>4 DEF Moves, FindServo, In, OwnerCalls
<1>5. CASE CreateServo(l)
  BY <1>5 DEF Moves, CreateServo, In
<1>6. CASE CopyResult(l)
  BY <1>6 DEF Moves, CopyResult, In
<1> QED BY <1>1, <1>2, <1>3, <1>4, <1>5, <1>6 DEF CallStep

(* Every step moves lanes and their mutexes in one of the ways of Moves.     *)
LEMMA StepMoves ==
    ASSUME TypeOK, [Next]_vars
    PROVE  Moves
<1> USE UserIsLane
<1>1. CASE RunTask
  <2>1. Head(tasks) \in Handlers
    BY <1>1 DEF RunTask, TypeOK
  <2>2. Frame(Head(tasks), 0) \in Frames /\ Frame(Head(tasks), 0).at = 0
    <3>1. Head(tasks) \notin {"registerCommand", "getServo"}
      BY <2>1 DEF Handlers
    <3> QED BY <2>1, <3>1 DEF Frame, Frames, Ops
  <2>3. Frame(Head(tasks), 0).op \in Handlers
    BY <2>1 DEF Frame
  <2>4. Running /\ tasks # <<>> /\ ~Busy("handler")
    BY <1>1 DEF RunTask
  <2> QED BY <1>1, <2>2, <2>3, <2>4 DEF RunTask, Moves
<1>2. CASE EndOrder
  BY <1>2 DEF EndOrder, Moves
<1>3. CASE NoMoreCommand
  BY <1>3 DEF NoMoreCommand, Deciding, In, Moves
<1>4. CASE NextCommand
  BY <1>4 DEF NextCommand, Deciding, In, Moves
<1>5. CASE OrderRunning
  BY <1>5 DEF OrderRunning, Deciding, In, Moves
<1>6. CASE CommandOver
  <2>1. PICK f \in Requests(program.commandEnded) : CallInner(2, f)
    BY <1>6 DEF CommandOver
  <2>2. f \in Frames /\ f.at = 0 /\ f.op \in InnerOps
    BY <2>1, SlotIsKind, RequestsAreFrames DEF InnerOps
  <2>3. /\ frame["handler"].at # 0 /\ ~Busy("inner")
        /\ frame["handler"].op \in Handlers
    BY <1>6 DEF CommandOver, Deciding, In, Runs, Handlers
  <2>4. 2 \in Nat \ {0}
    OBVIOUS
  <2> QED BY <2>1, <2>2, <2>3, <2>4 DEF Moves
<1>7. CASE CommandEnded
  BY <1>7 DEF CommandEnded, In, Moves
<1>8. CASE ExtractOrder
  <2>1. /\ Frame("clearPing", 0) \in Frames /\ Frame("clearPing", 0).at = 0
        /\ Frame("clearPing", 0).op \in InnerOps
    BY DEF Frame, Frames, Ops, InnerOps
  <2>2. /\ frame["handler"].at # 0 /\ ~Busy("inner")
        /\ frame["handler"].op \in Handlers
    BY <1>8 DEF ExtractOrder, Deciding, In, Runs, Handlers
  <2>3. 3 \in Nat \ {0}
    OBVIOUS
  <2> QED BY <1>8, <2>1, <2>2, <2>3 DEF ExtractOrder, Moves
<1>9. CASE ClearPing
  BY <1>9 DEF ClearPing, In, Moves
<1>10. CASE ProcessPacket
  <2>1. Head(bus) \in Servos
    BY <1>10 DEF ProcessPacket, TypeOK
  <2>2. /\ Frame("pushPing", Head(bus)) \in Frames
        /\ Frame("pushPing", Head(bus)).at = 0
        /\ Frame("pushPing", Head(bus)).op \in InnerOps
    BY <2>1 DEF Frame, Frames, Ops, InnerOps
  <2>3. /\ frame["handler"].at # 0 /\ ~Busy("inner")
        /\ frame["handler"].op \in Handlers
    BY <1>10 DEF ProcessPacket, In, Runs, Handlers
  <2>4. 2 \in Nat \ {0}
    OBVIOUS
  <2> QED BY <1>10, <2>2, <2>3, <2>4 DEF ProcessPacket, Moves
<1>11. CASE PushPing
  BY <1>11 DEF PushPing, In, Moves
<1>12. CASE NewPingIdReceived
  <2>1. PICK f \in Requests(program.newPingIdReceived) : CallInner(3, f)
    BY <1>12 DEF NewPingIdReceived
  <2>2. f \in Frames /\ f.at = 0 /\ f.op \in InnerOps
    BY <2>1, SlotIsKind, RequestsAreFrames DEF InnerOps
  <2>3. /\ frame["handler"].at # 0 /\ ~Busy("inner")
        /\ frame["handler"].op \in Handlers
    BY <1>12 DEF NewPingIdReceived, In, Runs, Handlers
  <2>4. 3 \in Nat \ {0}
    OBVIOUS
  <2> QED BY <2>1, <2>2, <2>3, <2>4 DEF Moves
<1>13. CASE PrepareAsyncRead
  BY <1>13 DEF PrepareAsyncRead, In, Moves
<1>14. ASSUME NEW l \in IoLanes, CallStep(l) PROVE Moves
  BY <1>14, CallMoves DEF Lanes
<1>15. CASE SendOrder
  BY <1>15 DEF SendOrder, In, Moves
<1>16. CASE OtherSlot
  BY <1>16 DEF OtherSlot, In, Moves, OwnerCalls
<1>17. CASE Expire
  BY <1>17 DEF Expire, Moves
<1>18. CASE Receive
  BY <1>18 DEF Receive, Moves
<1>19. ASSUME NEW u \in Users, UserCalls(u) PROVE Moves
  <2>1. PICK kind \in program.calls[u] : \E f \in Requests(kind) :
            frame' = [frame EXCEPT ![u] = f]
    BY <1>19 DEF UserCalls
  <2>2. PICK f \in Requests(kind) : frame' = [frame EXCEPT ![u] = f]
    BY <2>1
  <2>3. kind \in SlotKinds \cup OwnerCalls /\ kind \in UserOps(u)
    <3>1. /\ program.calls[u] \subseteq Calls \cup OwnerCalls
          /\ u # Owner => program.calls[u] \subseteq Calls
      BY ProgramsAssumption DEF TypeOK
    <3> QED BY <2>1, <3>1 DEF SlotKinds, UserOps
  <2>4. f \in Frames /\ f.at = 0 /\ f.op \in UserOps(u)
    BY <2>2, <2>3, RequestsAreFrames DEF UserOps
  <2> QED BY <1>19, <2>2, <2>4 DEF UserCalls, Moves
<1>20. ASSUME NEW u \in Users, CallStep(u) PROVE Moves
  BY <1>20, CallMoves
<1>21. ASSUME NEW ids \in Seq(Servos), Hear(ids) PROVE Moves
  BY <1>21 DEF Hear, Moves
<1>22. CASE UNCHANGED vars
  BY <1>22 DEF vars, Moves
<1>23. CASE StartStop
  <2>1. Owner \in Lanes /\ {2, 3} \subseteq Nat \ {0}
    BY OwnerIsUser
  <2>2. frame[Owner].op \notin {"getServo", "registerCommand"}
    BY <1>23, StartStopKeeps DEF OwnerCalls
  <2> QED BY <1>23, <2>1, <2>2, StartStopKeeps DEF Moves
<1>24. CASE NoPacket
  BY <1>24 DEF NoPacket, In, Moves, OwnerCalls
<1> QED BY <1>1, <1>2, <1>3, <1>4, <1>5, <1>6, <1>7, <1>8, <1>9, <1>10, <1>11,
           <1>12, <1>13, <1>14, <1>15, <1>16, <1>17, <1>18, <1>19, <1>20,
           <1>21, <1>22, <1>23, <1>24 DEF Next, IoThread

(* The inductive invariant of the locks: who holds a mutex is in its scope.  *)
LockInv == \A l \in Lanes : \A m \in Mutexes :
    holder[m] = l <=> frame[l].at # 0 /\ MutexOf(frame[l].op) = m

(* No lane has the name that stands for no holder.                           *)
LEMMA NoneIsNoLane == "none" \notin Lanes /\ "none" \notin Mutexes
BY UsersAssumption DEF Lanes, IoLanes, Mutexes

(* The lanes and the mutexes keep their types.                               *)
LEMMA MovesType ==
    ASSUME TypeOK, Moves
    PROVE  /\ frame' \in [Lanes -> Frames]
           /\ holder' \in [Mutexes -> Lanes \cup {"none"}]
<1> USE UserIsLane
<1>0. /\ frame \in [Lanes -> Frames]
      /\ holder \in [Mutexes -> Lanes \cup {"none"}]
  BY DEF TypeOK
<1>00. \A l \in Lanes : \A n \in Nat : [frame[l] EXCEPT !.at = n] \in Frames
  BY <1>0 DEF Frames
<1>1. CASE UNCHANGED lockVars
  BY <1>0, <1>1 DEF lockVars
<1>2. ASSUME NEW l \in Lanes, NEW n \in Nat, GoTo(l, n)
      PROVE  /\ frame' \in [Lanes -> Frames]
             /\ holder' \in [Mutexes -> Lanes \cup {"none"}]
  BY <1>0, <1>00, <1>2 DEF GoTo
<1>3. ASSUME NEW l \in Lanes, Leave(l)
      PROVE  /\ frame' \in [Lanes -> Frames]
             /\ holder' \in [Mutexes -> Lanes \cup {"none"}]
  <2>1. frame' \in [Lanes -> Frames]
    BY <1>0, <1>3, IdleIsFrame DEF Leave
  <2>2. holder' \in [Mutexes -> Lanes \cup {"none"}]
    BY <1>0, <1>3 DEF Leave
  <2> QED BY <2>1, <2>2
<1>4. ASSUME NEW l \in Lanes, Lock(l)
      PROVE  /\ frame' \in [Lanes -> Frames]
             /\ holder' \in [Mutexes -> Lanes \cup {"none"}]
  <2>1. frame' \in [Lanes -> Frames]
    BY <1>0, <1>00, <1>4 DEF Lock
  <2>2. holder' \in [Mutexes -> Lanes \cup {"none"}]
    BY <1>0, <1>4 DEF Lock
  <2> QED BY <2>1, <2>2
<1>5. ASSUME NEW n \in Nat, NEW f \in Frames, CallInner(n, f)
      PROVE  /\ frame' \in [Lanes -> Frames]
             /\ holder' \in [Mutexes -> Lanes \cup {"none"}]
  BY <1>0, <1>00, <1>5 DEF CallInner
<1>6. ASSUME NEW l \in Lanes, NEW f \in Frames,
             frame' = [frame EXCEPT ![l] = f], UNCHANGED holder
      PROVE  /\ frame' \in [Lanes -> Frames]
             /\ holder' \in [Mutexes -> Lanes \cup {"none"}]
  BY <1>0, <1>6
<1> QED BY <1>1, <1>2, <1>3, <1>4, <1>5, <1>6 DEF Moves

(* A lane that moves keeps every mutex with the call inside of its scope.    *)
LEMMA MovesLock ==
    ASSUME TypeOK, LockInv, Moves
    PROVE  LockInv'
<1> USE UserIsLane
<1>0. /\ frame \in [Lanes -> Frames]
      /\ holder \in [Mutexes -> Lanes \cup {"none"}]
  BY DEF TypeOK
<1>n. MutexOf("none") = "none" /\ "none" \notin Mutexes
  BY DEF MutexOf, Mutexes
<1>1. CASE UNCHANGED lockVars
  BY <1>1 DEF lockVars, LockInv
<1>2. ASSUME NEW l \in Lanes, NEW n \in Nat \ {0}, frame[l].at # 0, GoTo(l, n)
      PROVE  LockInv'
  <2>1. \A k \in Lanes : /\ frame'[k].op = frame[k].op
                         /\ frame'[k].at # 0 <=> frame[k].at # 0
    BY <1>0, <1>2 DEF GoTo, Frames
  <2>2. holder' = holder
    BY <1>2 DEF GoTo
  <2> QED BY <2>1, <2>2 DEF LockInv
<1>3. ASSUME NEW l \in Lanes, frame[l].at # 0, Leave(l)
      PROVE  LockInv'
  <2>1. \A k \in Lanes \ {l} : frame'[k] = frame[k]
    BY <1>0, <1>3 DEF Leave
  <2>2. frame'[l].at = 0
    BY <1>0, <1>3 DEF Leave, Idle
  <2>3. \A m \in Mutexes : holder'[m] =
            IF m = MutexOf(frame[l].op) THEN "none" ELSE holder[m]
    BY <1>3 DEF Leave
  <2>4. \A m \in Mutexes : holder[m] = l <=> m = MutexOf(frame[l].op)
    BY <1>3 DEF LockInv
  <2>5. \A m \in Mutexes : holder'[m] = IF holder[m] = l THEN "none" ELSE holder[m]
    BY <2>3, <2>4
  <2> QED BY <2>1, <2>2, <2>5, NoneIsNoLane DEF LockInv
<1>4. ASSUME NEW l \in Lanes, Lock(l)
      PROVE  LockInv'
  <2>1. \A k \in Lanes \ {l} : frame'[k] = frame[k]
    BY <1>0, <1>4 DEF Lock
  <2>2. frame'[l].at = 1 /\ frame'[l].op = frame[l].op /\ frame[l].at = 0
    BY <1>0, <1>4 DEF Lock, Frames
  <2>3. \A m \in Mutexes : holder'[m] =
            IF m = MutexOf(frame[l].op) THEN l ELSE holder[m]
    BY <1>4 DEF Lock
  <2>4. \A m \in Mutexes : m = MutexOf(frame[l].op) => holder[m] = "none"
    BY <1>4 DEF Lock
  <2>5. ASSUME NEW k \in Lanes, NEW m \in Mutexes
        PROVE  holder'[m] = k <=> frame'[k].at # 0 /\ MutexOf(frame'[k].op) = m
    <3>1. CASE k = l
      BY <2>2, <2>3, <3>1 DEF LockInv
    <3>2. CASE k # l
      <4>1. holder[m] = k <=> frame[k].at # 0 /\ MutexOf(frame[k].op) = m
        BY DEF LockInv
      <4>2. m = MutexOf(frame[l].op) => holder[m] # k
        BY <2>4, NoneIsNoLane
      <4> QED BY <2>1, <2>3, <3>2, <4>1, <4>2
    <3> QED BY <3>1, <3>2
  <2> QED BY <2>5 DEF LockInv
<1>5. ASSUME NEW n \in Nat \ {0}, NEW f \in Frames, frame["handler"].at # 0,
             ~Busy("inner"), f.at = 0, CallInner(n, f)
      PROVE  LockInv'
  <2>1. \A k \in Lanes \ {"inner"} :
            /\ frame'[k].op = frame[k].op
            /\ frame'[k].at # 0 <=> frame[k].at # 0
    BY <1>0, <1>5 DEF CallInner, Frames
  <2>2. frame'["inner"].at = 0
    BY <1>0, <1>5 DEF CallInner
  <2>3. \A m \in Mutexes : holder[m] # "inner"
    BY <1>5, <1>n DEF LockInv, Busy
  <2>4. holder' = holder
    BY <1>5 DEF CallInner
  <2> QED BY <2>1, <2>2, <2>3, <2>4 DEF LockInv
<1>6. ASSUME NEW l \in Lanes, NEW f \in Frames, ~Busy(l), f.at = 0,
             frame' = [frame EXCEPT ![l] = f], UNCHANGED holder
      PROVE  LockInv'
  <2>1. \A k \in Lanes \ {l} : frame'[k] = frame[k]
    BY <1>0, <1>6
  <2>2. frame'[l].at = 0
    BY <1>0, <1>6
  <2>3. \A m \in Mutexes : holder[m] # l
    BY <1>6, <1>n DEF LockInv, Busy
  <2> QED BY <1>6, <2>1, <2>2, <2>3 DEF LockInv
<1> QED BY <1>1, <1>2, <1>3, <1>4, <1>5, <1>6 DEF Moves

-----------------------------------------------------------------------------
(* A queue keeps its type when something is posted.                          *)
LEMMA TasksType ==
    ASSUME TypeOK, [Next]_vars
    PROVE  tasks' \in Seq(Handlers)
<1>0. tasks \in Seq(Handlers)
  BY DEF TypeOK
<1>1. \A h \in Handlers : Append(tasks, h) \in Seq(Handlers)
  BY <1>0, AppendProperties
<1>2. /\ "commandStateMachine" \in Handlers /\ "endOrder" \in Handlers
      /\ "readReceivedData" \in Handlers /\ "abortedRead" \in Handlers
  BY DEF Handlers
<1>3. tasks # <<>> => Tail(tasks) \in Seq(Handlers)
  BY <1>0, HeadTailProperties
<1>4. CASE EndOrder
  <2>1. tasks # <<>>
    BY <1>4 DEF EndOrder
  <2>2. (IF mOrderTimeout THEN <<"endOrder">> ELSE <<>>) \in Seq(Handlers)
    BY <1>2
  <2>3. <<"commandStateMachine">> \in Seq(Handlers)
    BY <1>2
  <2>4. Tail(tasks) \o (IF mOrderTimeout THEN <<"endOrder">> ELSE <<>>) \in Seq(Handlers)
    BY <1>3, <2>1, <2>2, ConcatProperties
  <2>5. (Tail(tasks) \o (IF mOrderTimeout THEN <<"endOrder">> ELSE <<>>))
            \o <<"commandStateMachine">> \in Seq(Handlers)
    BY <2>3, <2>4, ConcatProperties
  <2> QED BY <1>4, <2>5 DEF EndOrder
<1>5. CASE RunTask
  BY <1>3, <1>5 DEF RunTask
<1>6. ASSUME NEW h \in Handlers, Post(h) PROVE tasks' \in Seq(Handlers)
  BY <1>1, <1>6 DEF Post
<1>7. CASE tasks' = tasks
  BY <1>0, <1>7
<1>8. CASE Receive
  BY <1>1, <1>2, <1>8 DEF Receive
<1>9. ASSUME NEW l \in Lanes, CallStep(l) PROVE tasks' \in Seq(Handlers)
  <2>1. CASE PostCommand(l)
    BY <1>2, <1>6, <2>1 DEF PostCommand
  <2>2. CASE ~PostCommand(l)
    BY <1>7, <1>9, <2>2 DEF CallStep, Lock, PushCommand, FindServo,
       CreateServo, CopyResult, ioVars
  <2> QED BY <2>1, <2>2
<1>10. CASE NextCommand \/ CommandEnded \/ Expire
  BY <1>2, <1>6, <1>10 DEF NextCommand, CommandEnded, Expire
<1>11. CASE NoMoreCommand \/ OrderRunning \/ CommandOver \/ ExtractOrder
            \/ ClearPing \/ ProcessPacket \/ NoPacket \/ PushPing
            \/ NewPingIdReceived \/ PrepareAsyncRead \/ SendOrder \/ OtherSlot
  BY <1>7, <1>11 DEF NoMoreCommand, OrderRunning, CommandOver, ExtractOrder,
     ClearPing, ProcessPacket, NoPacket, PushPing, NewPingIdReceived,
     PrepareAsyncRead, SendOrder, OtherSlot, ioVars
<1>12. ASSUME NEW u \in Users, UserCalls(u) PROVE tasks' \in Seq(Handlers)
  BY <1>7, <1>12 DEF UserCalls, ioVars
<1>13. ASSUME NEW ids \in Seq(Servos), Hear(ids) PROVE tasks' \in Seq(Handlers)
  BY <1>7, <1>13 DEF Hear
<1>14. CASE UNCHANGED vars
  BY <1>7, <1>14 DEF vars, ioVars
<1>15. CASE StartStop
  <2>1. CASE StopCloses
    <3>1. Aborted \in Seq(Handlers)
      BY <1>2, IsASeq DEF Aborted, TypeOK
    <3>2. tasks \o Aborted \in Seq(Handlers)
      BY <1>0, <3>1, ConcatProperties
    <3> QED BY <2>1, <3>2 DEF StopCloses
  <2>2. CASE ~StopCloses
    BY <1>7, <1>15, <2>2 DEF StartStop, StartAlreadyOpened, StartOpens, StartReads,
       StopsIos, StopJoins, ioVars
  <2> QED BY <2>1, <2>2
<1> QED BY <1>4, <1>5, <1>8, <1>9, <1>10, <1>11, <1>12, <1>13, <1>14, <1>15
           DEF Next, IoThread, Lanes

(* So do the other members.                                                  *)
LEMMA MembersType ==
    ASSUME TypeOK, [Next]_vars
    PROVE  /\ bus' \in Seq(Servos) /\ program' = program
           /\ mCommandQueue' \in Seq(Objects) /\ ended' \in Nat
           /\ mCommandInProcess' \in BOOLEAN
<1> USE DEF TypeOK
<1>1. CASE NextCommand
  <2>1. mCommandQueue # <<>> /\ mCommandQueue' = Tail(mCommandQueue)
    BY <1>1 DEF NextCommand
  <2>2. mCommandQueue' \in Seq(Objects)
    BY <2>1, HeadTailProperties
  <2> QED BY <1>1, <2>2 DEF NextCommand, Post, startVars
<1>2. CASE CommandOver
  <2>1. ended' = ended + 1 /\ mCommandInProcess' = FALSE
    BY <1>2 DEF CommandOver
  <2>2. bus' = bus /\ program' = program /\ mCommandQueue' = mCommandQueue
    BY <1>2 DEF CommandOver, sharedVars, ioVars, startVars
  <2>3. ended' \in Nat /\ mCommandInProcess' \in BOOLEAN
    <3>1. ended' \in Nat
      BY <2>1, SMT
    <3>2. mCommandInProcess' \in BOOLEAN
      BY <2>1, Zenon
    <3> QED BY <3>1, <3>2
  <2>4. bus' \in Seq(Servos) /\ program' = program /\ mCommandQueue' \in Seq(Objects)
    BY <2>2
  <2> QED BY <2>3, <2>4
<1>3. CASE ProcessPacket
  <2>1. bus # <<>> /\ bus' = Tail(bus)
    BY <1>3 DEF ProcessPacket
  <2>2. bus' \in Seq(Servos)
    BY <2>1, HeadTailProperties
  <2> QED BY <1>3, <2>2 DEF ProcessPacket, engineVars, sharedVars, startVars
<1>4. ASSUME NEW ids \in Seq(Servos), Hear(ids)
      PROVE  /\ bus' \in Seq(Servos) /\ program' = program
             /\ mCommandQueue' \in Seq(Objects) /\ ended' \in Nat
             /\ mCommandInProcess' \in BOOLEAN
  <2>1. bus \o ids \in Seq(Servos)
    BY ConcatProperties
  <2> QED BY <1>4, <2>1 DEF Hear, engineVars, sharedVars, startVars
<1>5. ASSUME NEW l \in Lanes, CallStep(l)
      PROVE  /\ bus' \in Seq(Servos) /\ program' = program
             /\ mCommandQueue' \in Seq(Objects) /\ ended' \in Nat
             /\ mCommandInProcess' \in BOOLEAN
  <2>1. CASE PushCommand(l)
    <3>1. frame[l].op = "registerCommand" /\ frame[l] \in Frames
      BY <2>1 DEF PushCommand, In
    <3>2. frame[l].arg \in Objects
      BY <3>1 DEF Frames
    <3>3. mCommandQueue' \in Seq(Objects)
      BY <2>1, <3>2, AppendProperties DEF PushCommand
    <3> QED BY <2>1, <3>3 DEF PushCommand, engineVars, ioVars, startVars
  <2>2. CASE ~PushCommand(l)
    BY <1>5, <2>2 DEF CallStep, Lock, PostCommand, FindServo, CreateServo,
       CopyResult, engineVars, sharedVars, ioVars, startVars, Post
  <2> QED BY <2>1, <2>2
<1>6. CASE RunTask \/ EndOrder \/ NoMoreCommand \/ OrderRunning
           \/ CommandEnded \/ ExtractOrder \/ ClearPing
  BY <1>6 DEF RunTask, EndOrder, NoMoreCommand, OrderRunning, CommandEnded,
     ExtractOrder, ClearPing, engineVars, sharedVars, ioVars, startVars, Post
<1>7. CASE NoPacket \/ PushPing \/ NewPingIdReceived \/ PrepareAsyncRead
           \/ SendOrder \/ OtherSlot \/ Expire \/ Receive \/ UNCHANGED vars
  BY <1>7 DEF NoPacket, PushPing, NewPingIdReceived, PrepareAsyncRead, SendOrder,
     OtherSlot, Expire, Receive, vars, engineVars, sharedVars, ioVars, startVars, Post
<1>8. ASSUME NEW u \in Users, UserCalls(u)
      PROVE  /\ bus' \in Seq(Servos) /\ program' = program
             /\ mCommandQueue' \in Seq(Objects) /\ ended' \in Nat
             /\ mCommandInProcess' \in BOOLEAN
  BY <1>8 DEF UserCalls, engineVars, sharedVars, ioVars, startVars
<1>9. CASE StartStop
  BY <1>9, StartStopKeeps DEF engineVars, sharedVars
<1> QED BY <1>1, <1>2, <1>3, <1>4, <1>5, <1>6, <1>7, <1>8, <1>9
           DEF Next, IoThread, Lanes

(* The histories and the servos change only by what a lane appends.          *)
LEMMA OnlyAppended ==
    ASSUME TypeOK, [Next]_vars
    PROVE  /\ \/ registered' = registered
              \/ \E l \in Lanes : PushCommand(l)
           /\ \/ mServos' = mServos
              \/ \E l \in Lanes : CreateServo(l)
<1>1. ASSUME NEW l \in Lanes, CallStep(l)
      PROVE  /\ registered' = registered \/ PushCommand(l)
             /\ mServos' = mServos \/ CreateServo(l)
  BY <1>1 DEF CallStep, Lock, PushCommand, PostCommand, FindServo, CreateServo,
     CopyResult, sharedVars
<1>2. CASE RunTask \/ EndOrder \/ NoMoreCommand \/ NextCommand
           \/ OrderRunning \/ CommandOver \/ CommandEnded \/ ExtractOrder
           \/ ClearPing
  BY <1>2 DEF RunTask, EndOrder, NoMoreCommand, NextCommand, OrderRunning,
     CommandOver, CommandEnded, ExtractOrder, ClearPing, sharedVars
<1>3. CASE ProcessPacket \/ NoPacket \/ PushPing \/ NewPingIdReceived
           \/ PrepareAsyncRead \/ SendOrder \/ OtherSlot \/ Expire \/ Receive
           \/ UNCHANGED vars
  BY <1>3 DEF ProcessPacket, NoPacket, PushPing, NewPingIdReceived,
     PrepareAsyncRead, SendOrder, OtherSlot, Expire, Receive, vars, sharedVars
<1>4. ASSUME NEW u \in Users, UserCalls(u) PROVE UNCHANGED sharedVars
  BY <1>4 DEF UserCalls
<1>5. ASSUME NEW ids \in Seq(Servos), Hear(ids) PROVE UNCHANGED sharedVars
  BY <1>5 DEF Hear
<1>6. CASE UNCHANGED sharedVars
  BY <1>6 DEF sharedVars
<1>7. CASE StartStop
  BY <1>7, StartStopKeeps DEF sharedVars
<1> QED BY <1>1, <1>2, <1>3, <1>4, <1>5, <1>6, <1>7 DEF Next, IoThread, Lanes

(* The argument of a getServo is an id.                                      *)
LEMMA ArgIsServo ==
    ASSUME TypeOK, NEW l \in Lanes, CreateServo(l)
    PROVE  frame[l].arg \in Servos
<1>1. frame[l].op = "getServo" /\ frame[l] \in Frames
  BY DEF CreateServo, In, TypeOK
<1> QED BY <1>1 DEF Frames

(* The argument of a registerCommand is a command object.                    *)
LEMMA ArgIsObject ==
    ASSUME TypeOK, NEW l \in Lanes, PushCommand(l)
    PROVE  frame[l].arg \in Objects
<1>1. frame[l].op = "registerCommand" /\ frame[l] \in Frames
  BY DEF PushCommand, In, TypeOK
<1> QED BY <1>1 DEF Frames

(* Reads and starts are counted.                                             *)
LEMMA CountsType ==
    ASSUME TypeOK, [Next]_vars
    PROVE  reading' \in Nat /\ starts' \in Nat
<1>0. reading \in Nat /\ starts \in Nat
  BY DEF TypeOK
<1>1. CASE StartStop
  <2>1. CASE StartOpens
    BY <1>0, <2>1 DEF StartOpens, ioVars
  <2>2. CASE StartReads
    BY <1>0, <2>2 DEF StartReads, startVars
  <2>3. CASE StartAlreadyOpened \/ StopsIos \/ StopJoins \/ StopCloses
    BY <1>0, <2>3 DEF StartAlreadyOpened, StopsIos, StopJoins, StopCloses, ioVars,
       startVars
  <2> QED BY <1>1, <2>1, <2>2, <2>3 DEF StartStop
<1>2. ~StartStop => starts' \in Nat
  BY <1>0, OnlyStartStop DEF startVars
<1>3. PrepareAsyncRead => reading' \in Nat
  BY <1>0 DEF PrepareAsyncRead
<1>4. Receive => reading' \in Nat
  BY <1>0 DEF Receive
<1>5. UNCHANGED reading => reading' \in Nat
  BY <1>0
<1>6. ASSUME NEW l \in Lanes, CallStep(l) PROVE UNCHANGED reading
  BY <1>6 DEF CallStep, Lock, PushCommand, PostCommand, FindServo, CreateServo,
     CopyResult, ioVars, Post
<1>7. ASSUME RunTask \/ EndOrder \/ NoMoreCommand \/ NextCommand
           \/ OrderRunning \/ CommandOver \/ CommandEnded \/ ExtractOrder
           \/ ClearPing
      PROVE  UNCHANGED reading
  BY <1>7 DEF RunTask, EndOrder, NoMoreCommand, NextCommand, OrderRunning,
     CommandOver, CommandEnded, ExtractOrder, ClearPing, ioVars, Post
<1>8. ASSUME ProcessPacket \/ NoPacket \/ PushPing \/ NewPingIdReceived
           \/ SendOrder \/ OtherSlot \/ Expire \/ UNCHANGED vars
      PROVE  UNCHANGED reading
  BY <1>8 DEF ProcessPacket, NoPacket, PushPing, NewPingIdReceived,
     SendOrder, OtherSlot, Expire, vars, ioVars, Post
<1>9. ASSUME NEW u \in Users, UserCalls(u) PROVE UNCHANGED reading
  BY <1>9 DEF UserCalls, ioVars
<1>10. ASSUME NEW ids \in Seq(Servos), Hear(ids) PROVE UNCHANGED reading
  BY <1>10 DEF Hear
<1> QED BY <1>1, <1>2, <1>3, <1>4, <1>5, <1>6, <1>7, <1>8, <1>9, <1>10
           DEF Next, IoThread, Lanes

(* Every step keeps the types.                                               *)
LEMMA NextType == TypeOK /\ [Next]_vars => TypeOK'
<1> SUFFICES ASSUME TypeOK, [Next]_vars PROVE TypeOK'
  OBVIOUS
<1>1. registered' \in Seq(Objects)
  <2>1. CASE registered' = registered
    BY <2>1 DEF TypeOK
  <2>2. ASSUME NEW l \in Lanes, PushCommand(l) PROVE registered' \in Seq(Objects)
    BY <2>2, ArgIsObject, AppendProperties DEF PushCommand, TypeOK
  <2> QED BY <2>1, <2>2, OnlyAppended
<1>2. mServos' \in Seq(Servos)
  <2>1. CASE mServos' = mServos
    BY <2>1 DEF TypeOK
  <2>2. ASSUME NEW l \in Lanes, CreateServo(l) PROVE mServos' \in Seq(Servos)
    BY <2>2, ArgIsServo, AppendProperties DEF CreateServo, TypeOK
  <2> QED BY <2>1, <2>2, OnlyAppended
<1>3. Moves
  BY StepMoves
<1>4. program' \in Programs
  BY MembersType DEF TypeOK
<1> QED BY <1>1, <1>2, <1>3, <1>4, MovesType, TasksType, MembersType, CountsType
           DEF TypeOK

(* Which calls and handlers a lane may be in.                                *)
OpsInv ==
    /\ frame["handler"].op \in Handlers \cup {"none"}
    /\ frame["inner"].op \in InnerOps
    /\ \A u \in Users : frame[u].op \in UserOps(u)

(* Each lane goes on to do only what its kind of lane does.                  *)
LEMMA MovesOps ==
    ASSUME TypeOK, OpsInv, Moves, program' = program
    PROVE  OpsInv'
<1> USE UserIsLane
<1>0. /\ frame \in [Lanes -> Frames]
      /\ \A u \in Users : u \notin IoLanes
      /\ InnerOps' = InnerOps /\ "none" \in InnerOps
      /\ \A l \in Lanes : frame[l] \in [op : Ops, arg : Objects \cup Servos \cup {0}, at : Nat]
      /\ \A u \in Users : "none" \in UserOps(u)
  BY UsersAssumption DEF TypeOK, InnerOps, Frames, UserOps
<1>1. CASE UNCHANGED lockVars
  BY <1>0, <1>1 DEF lockVars, OpsInv
<1>2. ASSUME NEW l \in Lanes, NEW n \in Nat, GoTo(l, n)
      PROVE  OpsInv'
  BY <1>0, <1>2 DEF GoTo, OpsInv
<1>3. ASSUME NEW l \in Lanes, Leave(l)
      PROVE  OpsInv'
  BY <1>0, <1>3 DEF Leave, OpsInv, Idle
<1>4. ASSUME NEW l \in Lanes, Lock(l)
      PROVE  OpsInv'
  <2>1. frame' = [frame EXCEPT ![l].at = 1]
    BY <1>4 DEF Lock
  <2> QED BY <1>0, <2>1 DEF OpsInv
<1>5. ASSUME NEW n \in Nat, NEW f \in Frames, f.op \in InnerOps, CallInner(n, f)
      PROVE  OpsInv'
  <2>1. /\ frame'["handler"].op = frame["handler"].op
        /\ frame'["inner"] = f
        /\ \A u \in Users : frame'[u] = frame[u]
    BY <1>0, <1>5, UsersAssumption DEF CallInner, IoLanes
  <2> QED BY <1>0, <1>5, <2>1 DEF OpsInv, UserOps
<1>6. ASSUME NEW l \in Lanes, NEW f \in Frames,
             \/ l \in Users /\ f.op \in UserOps(l)
             \/ l = "handler" /\ f.op \in Handlers,
             frame' = [frame EXCEPT ![l] = f]
      PROVE  OpsInv'
  BY <1>0, <1>6 DEF OpsInv, IoLanes
<1> QED BY <1>1, <1>2, <1>3, <1>4, <1>5, <1>6 DEF Moves

(* Types, locks and places hold at the start.                                *)
LEMMA InitInv == Init => TypeOK /\ LockInv /\ OpsInv
<1> SUFFICES ASSUME Init PROVE TypeOK /\ LockInv /\ OpsInv
  OBVIOUS
<1>1. TypeOK
  <2>1. holder \in [Mutexes -> Lanes \cup {"none"}]
    BY DEF Init
  <2>2. frame \in [Lanes -> Frames]
    BY IdleIsFrame DEF Init
  <2>3. /\ tasks \in Seq(Handlers) /\ bus \in Seq(Servos)
        /\ mCommandQueue \in Seq(Objects) /\ registered \in Seq(Objects)
        /\ mServos \in Seq(Servos)
    BY EmptySeq DEF Init
  <2> QED BY <2>1, <2>2, <2>3 DEF Init, TypeOK
<1>2. ASSUME NEW l \in Lanes, NEW m \in Mutexes
      PROVE  holder[m] # l /\ frame[l].at = 0
  BY IdleIsFrame, NoneIsNoLane DEF Init
<1>3. LockInv
  BY <1>2 DEF LockInv
<1>4. OpsInv
  BY UserIsLane DEF Init, Idle, OpsInv, InnerOps, UserOps
<1> QED BY <1>1, <1>3, <1>4

(* What holds between any two steps, and what every step keeps.              *)
LEMMA NextInv ==
    ASSUME TypeOK, LockInv, OpsInv, [Next]_vars
    PROVE  TypeOK' /\ LockInv' /\ OpsInv'
<1>1. Moves
  BY StepMoves
<1>2. program' = program
  BY MembersType
<1> QED BY <1>1, <1>2, NextType, MovesLock, MovesOps

(* Sharing keeps its types, a mutex is held exactly in its scopes, and every *)
(* lane is in a call or handler of its own.                                  *)
THEOREM SharingInv == Spec => [](TypeOK /\ LockInv /\ OpsInv)
<1>1. TypeOK /\ LockInv /\ OpsInv /\ [Next]_vars => (TypeOK /\ LockInv /\ OpsInv)'
  BY NextInv
<1> QED BY <1>1, InitInv, PTL DEF Spec

-----------------------------------------------------------------------------
(* A handler runs on a thread that has not been joined, with the port open.  *)
ThreadInv ==
    /\ Busy("handler") => mIosThread = "joinable"
    /\ mIosThread = "joinable" => mPort
    /\ frame[Owner].op = "stop" /\ frame[Owner].at = 3 => mIosThread # "joinable"

(* The service is being started for the first time.                          *)
Starting == frame[Owner].op = "start" /\ frame[Owner].at = 2
FirstStart == registered = <<>> /\ (starts = 0 \/ (starts = 1 /\ Starting))

(* Nothing is queued or requested, and no handler runs.                      *)
AllQuiet == tasks = <<>> /\ reading = 0 /\ ~mOrderTimeout /\ ~Busy("handler")

(* Nothing happens before the first start is over and a command registered.  *)
QuietInv ==
    /\ FirstStart => AllQuiet
    /\ Starting => starts > 0
    /\ \A l \in Lanes : frame[l].op = "registerCommand" /\ frame[l].at = 2
            => registered # <<>>

(* How a lane comes to where a call of start or stop is, and to a handler.   *)
LEMMA MovesOwner ==
    ASSUME TypeOK, OpsInv, Moves
    PROVE  /\ Busy("handler")' => Busy("handler") \/ (Running /\ tasks # <<>>)
           /\ frame'[Owner].op \in OwnerCalls /\ frame'[Owner].at \notin {0, 1}
                => StartStop \/ frame'[Owner] = frame[Owner]
           /\ frame[Owner].op \in OwnerCalls /\ frame[Owner].at # 0
                => StartStop \/ frame'[Owner] = frame[Owner] \/ Leave(Owner)
<1> USE UserIsLane, OwnerIsUser
<1>0. /\ frame \in [Lanes -> Frames] /\ "none" \notin OwnerCalls
      /\ \A l \in Lanes : frame[l] \in [op : Ops, arg : Objects \cup Servos \cup {0}, at : Nat]
  BY DEF TypeOK, Frames, OwnerCalls
<1> DEFINE Goal ==
       /\ Busy("handler")' => Busy("handler") \/ (Running /\ tasks # <<>>)
       /\ frame'[Owner].op \in OwnerCalls /\ frame'[Owner].at \notin {0, 1}
            => StartStop \/ frame'[Owner] = frame[Owner]
       /\ frame[Owner].op \in OwnerCalls /\ frame[Owner].at # 0
            => StartStop \/ frame'[Owner] = frame[Owner] \/ Leave(Owner)
<1>1. CASE UNCHANGED lockVars
  BY <1>1 DEF lockVars, Busy
<1>2. ASSUME NEW l \in Lanes, NEW n \in Nat \ {0}, GoTo(l, n),
             frame[l].op \in OwnerCalls => StartStop
      PROVE  Goal
  <2>1. /\ frame'["handler"].op = frame["handler"].op
        /\ frame'[Owner].op = frame[Owner].op
        /\ l # Owner => frame'[Owner] = frame[Owner]
    BY <1>0, <1>2 DEF GoTo
  <2> QED BY <1>2, <2>1 DEF Busy
<1>3. ASSUME NEW l \in Lanes, Leave(l) PROVE Goal
  <2>1. /\ \A k \in Lanes : frame'[k] = IF k = l THEN Idle ELSE frame[k]
    BY <1>0, <1>3 DEF Leave
  <2> QED BY <1>0, <1>3, <2>1 DEF Busy, Idle
<1>4. ASSUME NEW l \in Lanes, Lock(l) PROVE Goal
  <2>1. frame' = [frame EXCEPT ![l].at = 1] /\ frame[l].at = 0
    BY <1>4 DEF Lock
  <2>2. /\ \A k \in Lanes : frame'[k].op = frame[k].op
        /\ l # Owner => frame'[Owner] = frame[Owner]
        /\ l = Owner => frame'[Owner].at = 1
    BY <1>0, <2>1
  <2> QED BY <2>1, <2>2 DEF Busy
<1>5. ASSUME NEW n \in Nat, NEW f \in Frames, CallInner(n, f) PROVE Goal
  <2>1. frame'["handler"].op = frame["handler"].op /\ frame'[Owner] = frame[Owner]
    BY <1>0, <1>5 DEF CallInner
  <2> QED BY <2>1 DEF Busy
<1>6. ASSUME NEW l \in Lanes, NEW f \in Frames, ~Busy(l), f.at = 0,
             frame' = [frame EXCEPT ![l] = f],
             l \in Users \/ (l = "handler" /\ Running /\ tasks # <<>>)
      PROVE  Goal
  <2>1. \A k \in Lanes : frame'[k] = IF k = l THEN f ELSE frame[k]
    BY <1>0, <1>6
  <2>2. l = "handler" => Running /\ tasks # <<>>
    BY <1>6, UsersAssumption DEF IoLanes
  <2> QED BY <1>0, <1>6, <2>1, <2>2 DEF Busy
<1> QED BY <1>1, <1>2, <1>3, <1>4, <1>5, <1>6 DEF Moves

(* Every step keeps it.                                                      *)
LEMMA NextThread ==
    ASSUME TypeOK, OpsInv, ThreadInv, [Next]_vars
    PROVE  ThreadInv'
<1> USE OwnerIsUser, UserIsLane
<1>0. Moves /\ frame \in [Lanes -> Frames]
      /\ \A l \in Lanes : frame[l] \in [op : Ops, arg : Objects \cup Servos \cup {0}, at : Nat]
  BY StepMoves DEF TypeOK, Frames
<1>1. CASE ~StartStop
  <2>1. mPort' = mPort /\ mIosThread' = mIosThread
    BY <1>1, OnlyStartStop DEF startVars
  <2>2. Busy("handler")' => mIosThread = "joinable"
    BY <1>0, MovesOwner DEF ThreadInv, Running
  <2>3. frame'[Owner].op = "stop" /\ frame'[Owner].at = 3 => frame'[Owner] = frame[Owner]
    BY <1>0, <1>1, MovesOwner DEF OwnerCalls
  <2> QED BY <2>1, <2>2, <2>3 DEF ThreadInv
<1>2. CASE StartStop
  <2>0. (Leave(Owner) \/ \E n \in {2, 3} : GoTo(Owner, n))
    BY <1>2, StartStopKeeps
  <2>1. frame'["handler"] = frame["handler"]
    BY <1>0, <2>0 DEF Leave, GoTo
  <2>2. Busy("handler")' <=> Busy("handler")
    BY <2>1 DEF Busy
  <2>3. Leave(Owner) => frame'[Owner] = Idle /\ Idle.op = "none"
    BY <1>0 DEF Leave, Idle
  <2>4. \A n \in {2, 3} : GoTo(Owner, n)
            => frame'[Owner].op = frame[Owner].op /\ frame'[Owner].at = n
    BY <1>0 DEF GoTo
  <2>5. CASE StartAlreadyOpened \/ StartReads
    <3>1. mPort' = mPort /\ mIosThread' = mIosThread /\ Leave(Owner)
      BY <2>5 DEF StartAlreadyOpened, StartReads, startVars
    <3> QED BY <2>2, <2>3, <3>1 DEF ThreadInv
  <2>6. CASE StartOpens
    <3>1. mPort' /\ mIosThread' = "joinable" /\ GoTo(Owner, 2)
      BY <2>6 DEF StartOpens
    <3> QED BY <2>2, <2>4, <3>1 DEF ThreadInv
  <2>7. CASE StopsIos
    <3>1. mPort' = mPort /\ mIosThread' = mIosThread /\ GoTo(Owner, 2)
      BY <2>7 DEF StopsIos
    <3> QED BY <2>2, <2>4, <3>1 DEF ThreadInv
  <2>8. CASE StopJoins
    <3>1. /\ mIosThread' # "joinable" /\ mPort' = mPort
          /\ mIosThread = "joinable" => ~Busy("handler")
      BY <2>8 DEF StopJoins
    <3> QED BY <2>2, <3>1 DEF ThreadInv
  <2>9. CASE StopCloses
    <3>1. mIosThread' = mIosThread /\ frame[Owner].op = "stop" /\ frame[Owner].at = 3
          /\ Leave(Owner)
      BY <2>9 DEF StopCloses, In
    <3> QED BY <2>2, <2>3, <3>1 DEF ThreadInv
  <2> QED BY <1>2, <2>5, <2>6, <2>7, <2>8, <2>9 DEF StartStop
<1> QED BY <1>1, <1>2

(* What is quiet stays so until a command is posted or the service started.  *)
LEMMA QuietSteps ==
    ASSUME AllQuiet, [Next]_vars, ~StartStop, \A l \in Lanes : ~PostCommand(l)
    PROVE  UNCHANGED <<tasks, reading, mOrderTimeout>>
<1> USE DEF ioVars, engineVars
<1>1. ASSUME NEW l \in Lanes, CallStep(l)
      PROVE  UNCHANGED <<tasks, reading, mOrderTimeout>>
  BY <1>1 DEF CallStep, Lock, PushCommand, FindServo, CreateServo, CopyResult
<1>2. ~Busy("handler") /\ tasks = <<>> /\ ~mOrderTimeout /\ reading = 0
  BY DEF AllQuiet
<1>3. /\ ~(RunTask \/ EndOrder \/ NoMoreCommand \/ NextCommand \/ OrderRunning
              \/ CommandOver \/ CommandEnded \/ ExtractOrder)
      /\ ~(ProcessPacket \/ NoPacket \/ NewPingIdReceived \/ PrepareAsyncRead
              \/ SendOrder \/ Expire \/ Receive)
  BY <1>2 DEF RunTask, EndOrder, NoMoreCommand, NextCommand, OrderRunning,
     CommandOver, CommandEnded, ExtractOrder, ProcessPacket, NoPacket,
     NewPingIdReceived, PrepareAsyncRead, SendOrder, Expire, Receive, Deciding,
     In, Runs
<1>4. CASE ClearPing \/ PushPing \/ OtherSlot \/ UNCHANGED vars
  BY <1>4 DEF ClearPing, PushPing, OtherSlot, vars
<1>5. ASSUME NEW u \in Users, UserCalls(u)
      PROVE  UNCHANGED <<tasks, reading, mOrderTimeout>>
  BY <1>5 DEF UserCalls
<1>6. ASSUME NEW ids \in Seq(Servos), Hear(ids)
      PROVE  UNCHANGED <<tasks, reading, mOrderTimeout>>
  BY <1>6 DEF Hear
<1> QED BY <1>1, <1>3, <1>4, <1>5, <1>6 DEF Next, IoThread, Lanes

(* Only a push brings a call of registerCommand to its post.                 *)
LEMMA MovesRegister ==
    ASSUME TypeOK, Moves, OpsInv, NEW k \in Lanes,
           frame'[k].op = "registerCommand", frame'[k].at = 2
    PROVE  frame'[k] = frame[k] \/ PushCommand(k)
<1> USE UserIsLane
<1>0. /\ frame \in [Lanes -> Frames]
      /\ \A l \in Lanes : frame[l] \in [op : Ops, arg : Objects \cup Servos \cup {0}, at : Nat]
  BY DEF TypeOK, Frames
<1>1. CASE UNCHANGED lockVars
  BY <1>1 DEF lockVars
<1>2. ASSUME NEW l \in Lanes, NEW n \in Nat \ {0}, GoTo(l, n),
             frame[l].op = "registerCommand" => PushCommand(l)
      PROVE  frame'[k] = frame[k] \/ PushCommand(k)
  <2>1. CASE k # l
    BY <1>0, <1>2, <2>1 DEF GoTo
  <2>2. CASE k = l
    <3>1. frame[k].op = "registerCommand"
      BY <1>0, <1>2, <2>2 DEF GoTo
    <3> QED BY <1>2, <2>2, <3>1
  <2> QED BY <2>1, <2>2
<1>3. ASSUME NEW l \in Lanes, Leave(l) PROVE frame'[k] = frame[k]
  BY <1>0, <1>3 DEF Leave, Idle
<1>4. ASSUME NEW l \in Lanes, Lock(l) PROVE frame'[k] = frame[k]
  <2>1. frame' = [frame EXCEPT ![l].at = 1]
    BY <1>4 DEF Lock
  <2> QED BY <1>0, <2>1
<1>5. ASSUME NEW n \in Nat, NEW f \in Frames, f.at = 0, CallInner(n, f),
             frame["handler"].op \in Handlers
      PROVE  frame'[k] = frame[k]
  BY <1>0, <1>5 DEF CallInner, Handlers
<1>6. ASSUME NEW l \in Lanes, NEW f \in Frames, f.at = 0,
             frame' = [frame EXCEPT ![l] = f]
      PROVE  frame'[k] = frame[k]
  BY <1>0, <1>6
<1> QED BY <1>1, <1>2, <1>3, <1>4, <1>5, <1>6 DEF Moves

(* A push registers something.                                               *)
LEMMA PushNotEmpty ==
    ASSUME TypeOK, NEW l \in Lanes, PushCommand(l)
    PROVE  registered' # <<>>
<1> DEFINE c == frame[l].arg
<1>1. c \in Objects /\ registered' = Append(registered, c) /\ registered \in Seq(Objects)
  BY ArgIsObject DEF PushCommand, TypeOK
<1> HIDE DEF c
<1>2. Len(registered') = Len(registered) + 1 /\ Len(registered) \in Nat
  BY <1>1, AppendProperties, LenProperties
<1>3. Len(registered') # 0
  BY <1>2
<1> QED BY <1>3

(* Every step keeps the start of the service quiet.                          *)
LEMMA NextQuiet ==
    ASSUME TypeOK, OpsInv, QuietInv, [Next]_vars
    PROVE  QuietInv'
<1> USE OwnerIsUser, UserIsLane
<1>0. /\ Moves /\ frame \in [Lanes -> Frames] /\ starts \in Nat
      /\ \A l \in Lanes : frame[l] \in [op : Ops, arg : Objects \cup Servos \cup {0}, at : Nat]
  BY StepMoves DEF TypeOK, Frames
<1>1. registered = <<>> \/ registered' # <<>>
  <2>1. ASSUME NEW l \in Lanes, PushCommand(l) PROVE registered' # <<>>
    BY <2>1, PushNotEmpty
  <2> QED BY <2>1, OnlyAppended
<1>2. ASSUME NEW l \in Lanes, frame'[l].op = "registerCommand", frame'[l].at = 2
      PROVE  registered' # <<>>
  <2>1. CASE frame'[l] = frame[l]
    BY <1>1, <1>2, <2>1 DEF QuietInv
  <2>2. CASE PushCommand(l)
    BY <2>2, PushNotEmpty
  <2> QED BY <1>0, <1>2, <2>1, <2>2, MovesRegister
<1>3. ASSUME ~StartStop
      PROVE  (Starting' => starts' > 0) /\ (FirstStart' => AllQuiet')
  <2>1. starts' = starts
    BY <1>3, OnlyStartStop DEF startVars
  <2>2. Starting' => Starting
    BY <1>0, <1>3, MovesOwner DEF Starting, OwnerCalls
  <2>3. SUFFICES ASSUME FirstStart' PROVE AllQuiet'
    BY <2>1, <2>2 DEF QuietInv
  <2>4. FirstStart /\ AllQuiet
    BY <1>1, <2>1, <2>2, <2>3 DEF FirstStart, QuietInv
  <2>5. \A l \in Lanes : ~PostCommand(l)
    BY <2>4 DEF PostCommand, In, QuietInv, FirstStart
  <2>6. UNCHANGED <<tasks, reading, mOrderTimeout>>
    BY <1>3, <2>4, <2>5, QuietSteps
  <2>7. ~Busy("handler")'
    BY <1>0, <2>4, MovesOwner DEF AllQuiet
  <2> QED BY <2>4, <2>6, <2>7 DEF AllQuiet
<1>4. ASSUME StartStop
      PROVE  (Starting' => starts' > 0) /\ (FirstStart' => AllQuiet')
  <2>1. /\ mOrderTimeout' = mOrderTimeout
        /\ Leave(Owner) \/ \E n \in {2, 3} : GoTo(Owner, n)
    BY <1>4, StartStopKeeps DEF engineVars
  <2>2. Busy("handler")' <=> Busy("handler")
    BY <1>0, <2>1 DEF Leave, GoTo, Busy
  <2>3. Leave(Owner) => ~Starting'
    BY <1>0 DEF Leave, Idle, Starting
  <2>4. \A n \in {2, 3} : GoTo(Owner, n) => frame'[Owner].op = frame[Owner].op
    BY <1>0 DEF GoTo
  <2>5. CASE StartOpens
    <3>1. starts' = starts + 1 /\ UNCHANGED <<tasks, reading>>
      BY <2>5 DEF StartOpens, ioVars
    <3>2. FirstStart' => FirstStart
      BY <1>0, <1>1, <3>1 DEF FirstStart
    <3> QED BY <1>0, <2>1, <2>2, <3>1, <3>2 DEF QuietInv, AllQuiet
  <2>6. CASE StartReads
    <3>1. starts' = starts /\ Leave(Owner) /\ Starting
      BY <2>6 DEF StartReads, startVars, In, Starting
    <3> QED BY <1>0, <2>3, <3>1 DEF QuietInv, FirstStart
  <2>7. CASE StartAlreadyOpened \/ StopsIos \/ StopJoins
    <3>1. starts' = starts /\ UNCHANGED <<tasks, reading>>
      BY <2>7 DEF StartAlreadyOpened, StopsIos, StopJoins, ioVars, startVars
    <3>2. Leave(Owner) \/ frame[Owner].op = "stop"
      BY <2>7 DEF StartAlreadyOpened, StopsIos, StopJoins, In
    <3>3. ~Starting'
      BY <2>1, <2>3, <2>4, <3>2 DEF Starting
    <3>4. FirstStart' => FirstStart
      BY <1>1, <3>1, <3>3 DEF FirstStart
    <3> QED BY <2>1, <2>2, <3>1, <3>3, <3>4 DEF QuietInv, AllQuiet
  <2>8. CASE StopCloses
    <3>1. starts' = starts /\ Leave(Owner) /\ tasks' = tasks \o Aborted /\ reading' = 0
      BY <2>8 DEF StopCloses
    <3>2. FirstStart' => FirstStart
      BY <1>1, <2>3, <3>1 DEF FirstStart
    <3>3. AllQuiet => tasks' = <<>>
      BY <3>1 DEF AllQuiet, Aborted
    <3> QED BY <2>1, <2>2, <2>3, <3>1, <3>2, <3>3 DEF QuietInv, AllQuiet
  <2> QED BY <1>4, <2>5, <2>6, <2>7, <2>8 DEF StartStop
<1> QED BY <1>2, <1>3, <1>4 DEF QuietInv

(* At the start there is no thread, and nothing to run.                      *)
LEMMA InitStarts == Init => ThreadInv /\ QuietInv
<1> SUFFICES ASSUME Init PROVE ThreadInv /\ QuietInv
  OBVIOUS
<1>1. \A l \in Lanes : frame[l].op = "none"
  BY DEF Init, Idle
<1> QED BY <1>1, OwnerIsUser, UserIsLane
        DEF Init, ThreadInv, QuietInv, AllQuiet, Starting, Busy

(* The mutex that each member is behind; the port is behind none.            *)
MutexFor == [member \in {"mCommandQueue", "mPingResult", "mServos"} |->
    CASE member = "mCommandQueue" -> "mCommandMutex"
      [] member = "mPingResult" -> "mPingMutex"
      [] OTHER -> "mServosMutex"]

(* Who is at a member has locked its mutex, or is at the port in a handler,  *)
(* in start or in stop.                                                      *)
LEMMA TouchesWhat ==
    ASSUME NEW l \in Lanes, NEW x \in Touches(l)
    PROVE  /\ Runs(l) /\ frame[l].at # 0 /\ Touches(l) = {x}
           /\ \/ x \in DOMAIN MutexFor /\ MutexOf(frame[l].op) = MutexFor[x]
              \/ /\ x = "mPort"
                 /\ \/ frame[l].op \in Handlers
                    \/ frame[l].op = "start" /\ (frame[l].at = 2 \/ ~mPort)
                    \/ frame[l].op = "stop" /\ frame[l].at = 3
<1>1. Runs(l) /\ frame[l].at # 0
  BY DEF Touches
<1>2. CASE frame[l].op = "registerCommand"
  <2>1. Touches(l) = {"mCommandQueue"}
    BY <1>1, <1>2 DEF Touches
  <2>2. MutexOf(frame[l].op) = "mCommandMutex"
    BY <1>2 DEF MutexOf
  <2> QED BY <1>1, <2>1, <2>2 DEF MutexFor
<1>3. CASE frame[l].op = "commandStateMachine" /\ frame[l].at = 1
  <2>1. Touches(l) = {"mCommandQueue"}
    BY <1>1, <1>3 DEF Touches
  <2>2. MutexOf(frame[l].op) = "mCommandMutex"
    BY <1>3 DEF MutexOf
  <2> QED BY <1>1, <2>1, <2>2 DEF MutexFor
<1>4. CASE frame[l].op \in {"getPingResult", "clearPing", "pushPing"}
  <2>1. Touches(l) = {"mPingResult"}
    BY <1>1, <1>4 DEF Touches
  <2>2. MutexOf(frame[l].op) = "mPingMutex"
    BY <1>4 DEF MutexOf
  <2> QED BY <1>1, <2>1, <2>2 DEF MutexFor
<1>5. CASE frame[l].op = "getServo"
  <2>1. Touches(l) = {"mServos"}
    BY <1>1, <1>5 DEF Touches
  <2>2. MutexOf(frame[l].op) = "mServosMutex"
    BY <1>5 DEF MutexOf
  <2> QED BY <1>1, <2>1, <2>2 DEF MutexFor
<1> DEFINE atPort == \/ frame[l].op = "commandStateMachine" /\ frame[l].at = 3
                     \/ frame[l].op = "readReceivedData" /\ frame[l].at \in {1, 3}
                     \/ frame[l].op = "abortedRead"
                     \/ frame[l].op = "start" /\ (frame[l].at = 2 \/ ~mPort)
                     \/ frame[l].op = "stop" /\ frame[l].at = 3
<1>6. CASE atPort
  <2>1. ~(frame[l].op = "commandStateMachine" /\ frame[l].at = 1)
    BY <1>6
  <2>2. Touches(l) = {"mPort"}
    <3>1. frame[l].op \notin {"registerCommand", "getPingResult", "clearPing",
                              "pushPing", "getServo"}
      BY <1>6
    <3> QED BY <1>1, <1>6, <2>1, <3>1, Zenon DEF Touches
  <2> QED BY <1>1, <1>6, <2>2 DEF Handlers
<1>7. CASE /\ frame[l].op \notin {"registerCommand", "getPingResult", "clearPing",
                                  "pushPing", "getServo"}
           /\ ~(frame[l].op = "commandStateMachine" /\ frame[l].at = 1)
           /\ ~atPort
  <2>1. Touches(l) = {}
    BY <1>1, <1>7, Zenon DEF Touches
  <2> QED BY <2>1
<1> QED BY <1>2, <1>3, <1>4, <1>5, <1>6, <1>7

(* The io thread is at the port in its handlers, the user in start and stop. *)
LEMMA TouchesPort ==
    ASSUME TypeOK, OpsInv, ThreadInv, NEW l \in Lanes, "mPort" \in Touches(l)
    PROVE  \/ l = "handler" /\ Busy("handler") /\ mPort
           \/ l = Owner /\ (mPort => In(Owner, "start", 2) \/ mIosThread # "joinable")
<1>1. /\ Runs(l)
      /\ \/ frame[l].op \in Handlers
         \/ frame[l].op = "start" /\ (frame[l].at = 2 \/ ~mPort)
         \/ frame[l].op = "stop" /\ frame[l].at = 3
  BY TouchesWhat DEF MutexFor
<1>2. CASE l = "handler"
  <2>1. Busy("handler")
    BY <1>1, <1>2 DEF Runs
  <2> QED BY <1>2, <2>1 DEF ThreadInv
<1>3. CASE l = "inner"
  <2>1. frame[l].op \in SlotKinds \cup {"none", "clearPing", "pushPing"}
    BY <1>3, SlotIsKind DEF OpsInv, InnerOps
  <2> QED BY <1>1, <2>1 DEF SlotKinds, Calls, Handlers
<1>4. CASE l \in Users
  <2>1. l = Owner /\ frame[l].op \in OwnerCalls
    BY <1>1, <1>4 DEF OpsInv, UserOps, Calls, Handlers, OwnerCalls
  <2>2. frame[l].op = "start" \/ (frame[l].op = "stop" /\ frame[l].at = 3)
    BY <1>1, <2>1 DEF Handlers, OwnerCalls
  <2> QED BY <1>1, <2>1, <2>2 DEF In, ThreadInv, Handlers
<1> QED BY <1>2, <1>3, <1>4 DEF Lanes, IoLanes

(* For any users, objects, programs and number of calls, start and stop      *)
(* among them: no two threads are at the list of commands, at the ids of the *)
(* last ping or at the servos at the same time; and no two are at the port,  *)
(* but for a handler that runs while start requests the first read, which    *)
(* takes a command registered before the first start is over, or a second    *)
(* start.                                                                    *)
THEOREM RaceFree == Spec => []NoDataRace
<1>1. TypeOK /\ LockInv /\ OpsInv /\ ThreadInv /\ QuietInv => NoDataRace
  <2> SUFFICES ASSUME TypeOK, LockInv, OpsInv, ThreadInv, QuietInv,
                      NEW l \in Lanes, NEW k \in Lanes, l # k,
                      NEW x \in Touches(l), x \in Touches(k)
               PROVE  /\ EarlyHandlers /\ Touches(l) \cap Touches(k) = {"mPort"}
                      /\ \/ l = Owner /\ In(l, "start", 2) /\ k = "handler"
                         \/ k = Owner /\ In(k, "start", 2) /\ l = "handler"
    BY DEF NoDataRace
  <2>1. CASE x \in DOMAIN MutexFor
    <3>1. /\ frame[l].at # 0 /\ MutexOf(frame[l].op) = MutexFor[x]
          /\ frame[k].at # 0 /\ MutexOf(frame[k].op) = MutexFor[x]
      <4>1. x # "mPort"
        BY <2>1 DEF MutexFor
      <4> QED BY <4>1, TouchesWhat
    <3>2. MutexFor[x] \in Mutexes
      BY <2>1 DEF MutexFor, Mutexes
    <3> QED BY <3>1, <3>2 DEF LockInv
  <2>2. CASE x = "mPort"
    <3>1. Touches(l) = {"mPort"} /\ Touches(k) = {"mPort"}
      BY <2>2, TouchesWhat
    <3>2. /\ \/ l = "handler" /\ Busy("handler") /\ mPort
             \/ l = Owner /\ (mPort => In(Owner, "start", 2) \/ mIosThread # "joinable")
          /\ \/ k = "handler" /\ Busy("handler") /\ mPort
             \/ k = Owner /\ (mPort => In(Owner, "start", 2) \/ mIosThread # "joinable")
      BY <2>2, TouchesPort
    <3>3. /\ Busy("handler") /\ In(Owner, "start", 2)
          /\ \/ l = Owner /\ k = "handler"
             \/ k = Owner /\ l = "handler"
      BY <3>2 DEF ThreadInv
    <3>4. EarlyHandlers
      <4>1. Starting /\ ~AllQuiet
        BY <3>3 DEF In, Starting, AllQuiet
      <4>2. ~FirstStart /\ starts \in Nat
        BY <4>1 DEF QuietInv, TypeOK
      <4> QED BY <4>1, <4>2 DEF FirstStart, EarlyHandlers, QuietInv
    <3> QED BY <3>1, <3>3, <3>4
  <2> QED BY <2>1, <2>2, TouchesWhat
<1>2. TypeOK /\ OpsInv /\ ThreadInv /\ [Next]_vars => ThreadInv'
  BY NextThread
<1>3. TypeOK /\ OpsInv /\ QuietInv /\ [Next]_vars => QuietInv'
  BY NextQuiet
<1> QED BY <1>1, <1>2, <1>3, InitStarts, SharingInv, PTL DEF Spec

-----------------------------------------------------------------------------
(* No cycle of waits: whoever holds a mutex goes on, until a slot registers  *)
(* a command under the lock of the handler that emits the signal; the state  *)
(* in which it waits for its own thread is the only one that stays.          *)
THEOREM NoDeadlock == Spec => []HoldersGoOn
<1> USE UserIsLane
<1>1. TypeOK /\ LockInv /\ OpsInv => HoldersGoOn
  <2>0. ASSUME TypeOK, OpsInv, LockInv, SelfLocked
        PROVE  SlotRegisters /\ frame["inner"].op = "registerCommand"
    <3> DEFINE n == MutexOf(frame["inner"].op)
    <3>1. n \in Mutexes /\ holder[n] = "handler"
      BY <2>0 DEF SelfLocked
    <3>2. MutexOf(frame["handler"].op) = n
      BY <2>0, <3>1 DEF LockInv
    <3>3. n = "mCommandMutex"
      BY <2>0, <3>1, <3>2 DEF OpsInv, Handlers, MutexOf, Mutexes
    <3>4. frame["inner"].op \in SlotKinds \cup {"none", "clearPing", "pushPing"}
      BY <2>0, SlotIsKind DEF OpsInv, InnerOps
    <3>5. frame["inner"].op = "registerCommand"
      BY <3>3, <3>4 DEF MutexOf, SlotKinds, Calls
    <3> QED BY <2>0, <3>5 DEF OpsInv, InnerOps, SlotRegisters
  <2> SUFFICES ASSUME TypeOK, LockInv, OpsInv, NEW m \in Mutexes,
                      holder[m] # "none", ~Corrupt,
                      ~CanStep(holder[m])
               PROVE  /\ holder[m] = "handler" /\ Busy("inner")
                      /\ \/ CanStep("inner")
                         \/ SelfLocked
                         \/ \E u \in Users :
                                /\ holder[MutexOf(frame["inner"].op)] = u
                                /\ CanStep(u)
    BY <2>0 DEF HoldersGoOn
  <2>1. \A k \in Mutexes : holder[k] \in Lanes \cup {"none"}
    BY DEF TypeOK
  <2>2. \A k \in Mutexes : holder[k] # "none" =>
            /\ frame[holder[k]].at # 0
            /\ MutexOf(frame[holder[k]].op) = k
    BY <2>1 DEF LockInv
  <2>3. \A l \in Lanes : MutexOf(frame[l].op) \in Mutexes => Busy(l)
    BY NoneIsNoLane DEF Busy, MutexOf
  <2>4. \A k \in Mutexes : holder[k] \in Users \cup {"inner"} => CanStep(holder[k])
    <3> SUFFICES ASSUME NEW k \in Mutexes, holder[k] \in Users \cup {"inner"}
                 PROVE  CanStep(holder[k])
      OBVIOUS
    <3>1. holder[k] # "none" /\ holder[k] # "handler" /\ holder[k] \in Lanes
      BY UsersAssumption DEF IoLanes
    <3>2. Busy(holder[k]) /\ frame[holder[k]].at # 0
      BY <2>2, <2>3, <3>1
    <3> QED BY <3>1, <3>2 DEF CanStep, Runs, Waits
  <2>5. holder[m] = "handler"
    BY <2>1, <2>4 DEF Lanes, IoLanes
  <2>6. Busy("handler") /\ frame["handler"].at # 0
    BY <2>2, <2>3, <2>5
  <2>7. Busy("inner")
    BY <2>5, <2>6 DEF CanStep, Runs, Waits
  <2>8. ASSUME ~CanStep("inner"), ~SelfLocked
        PROVE  \E u \in Users : /\ holder[MutexOf(frame["inner"].op)] = u
                                /\ CanStep(u)
    <3> DEFINE n == MutexOf(frame["inner"].op)
    <3>1. n \in Mutexes /\ holder[n] # "none" /\ frame["inner"].at = 0
      BY <2>7, <2>8 DEF CanStep, Runs, Waits
    <3>2. holder[n] # "inner"
      BY <2>2, <3>1
    <3>3. holder[n] # "handler"
      BY <2>7, <2>8, <3>1 DEF SelfLocked, Waits
    <3>4. holder[n] \in Users
      BY <2>1, <3>1, <3>2, <3>3 DEF Lanes, IoLanes
    <3> QED BY <2>4, <3>1, <3>4
  <2> QED BY <2>5, <2>7, <2>8
<1> QED BY <1>1, SharingInv, PTL

-----------------------------------------------------------------------------
(* A servo about to be created is not there yet.                             *)
ServoInv ==
    /\ OneServoPerId
    /\ \A l \in Lanes : frame[l].op = "getServo" /\ frame[l].at = 2 =>
            frame[l].arg \notin ToSet(mServos)

(* Two lanes are not both inside of getServo.                                *)
LEMMA OneInGetServo ==
    ASSUME LockInv, NEW l \in Lanes, NEW k \in Lanes,
           frame[l].op = "getServo", frame[l].at # 0,
           frame[k].op = "getServo", frame[k].at # 0
    PROVE  l = k
<1>1. MutexOf("getServo") = "mServosMutex" /\ "mServosMutex" \in Mutexes
  BY DEF MutexOf, Mutexes
<1> QED BY <1>1 DEF LockInv

(* What a step leaves inside of getServo.                                    *)
LEMMA MovesServo ==
    ASSUME TypeOK, LockInv, OpsInv, Moves, NEW k \in Lanes,
           frame'[k].op = "getServo", frame'[k].at = 2
    PROVE  \/ frame'[k] = frame[k]
           \/ /\ FindServo(k) /\ frame[k].arg \notin ToSet(mServos)
              /\ frame'[k].arg = frame[k].arg
<1> USE UserIsLane
<1>0. /\ frame \in [Lanes -> Frames]
      /\ \A l \in Lanes : frame[l] \in [op : Ops, arg : Objects \cup Servos \cup {0}, at : Nat]
  BY DEF TypeOK, Frames
<1>1. CASE UNCHANGED lockVars
  BY <1>1 DEF lockVars
<1>2. ASSUME NEW l \in Lanes, NEW n \in Nat \ {0}, frame[l].at # 0, GoTo(l, n),
             frame[l].op = "getServo" => FindServo(l)
      PROVE  \/ frame'[k] = frame[k]
             \/ /\ FindServo(k) /\ frame[k].arg \notin ToSet(mServos)
                /\ frame'[k].arg = frame[k].arg
  <2>1. CASE k # l
    BY <1>0, <1>2, <2>1 DEF GoTo
  <2>2. CASE k = l
    <3>1. frame[k].op = "getServo" /\ frame'[k].arg = frame[k].arg
      BY <1>0, <1>2, <2>2 DEF GoTo
    <3>2. FindServo(k)
      BY <1>2, <2>2, <3>1
    <3>3. CASE frame[k].arg \in ToSet(mServos)
      <4>1. frame'[k] = Idle
        BY <1>0, <3>2, <3>3 DEF FindServo, Leave
      <4> QED BY <4>1 DEF Idle
    <3> QED BY <3>1, <3>2, <3>3
  <2> QED BY <2>1, <2>2
<1>3. ASSUME NEW l \in Lanes, Leave(l) PROVE frame'[k] = frame[k]
  BY <1>0, <1>3 DEF Leave, Idle
<1>4. ASSUME NEW l \in Lanes, Lock(l) PROVE frame'[k] = frame[k]
  <2>1. frame' = [frame EXCEPT ![l].at = 1]
    BY <1>4 DEF Lock
  <2> QED BY <1>0, <2>1
<1>5. ASSUME NEW n \in Nat, NEW f \in Frames, f.at = 0, CallInner(n, f),
             frame["handler"].op \in Handlers
      PROVE  frame'[k] = frame[k]
  BY <1>0, <1>5 DEF CallInner, Handlers
<1>6. ASSUME NEW l \in Lanes, NEW f \in Frames, f.at = 0,
             frame' = [frame EXCEPT ![l] = f]
      PROVE  frame'[k] = frame[k]
  BY <1>0, <1>6
<1> QED BY <1>1, <1>2, <1>3, <1>4, <1>5, <1>6 DEF Moves

(* Every step keeps one servo per id.                                        *)
LEMMA NextServo ==
    ASSUME TypeOK, LockInv, OpsInv, ServoInv, [Next]_vars
    PROVE  ServoInv'
<1>0. Moves /\ mServos \in Seq(Servos)
  BY StepMoves DEF TypeOK
<1>1. CASE mServos' = mServos
  <2>1. OneServoPerId'
    BY <1>1 DEF ServoInv, OneServoPerId
  <2>2. ASSUME NEW k \in Lanes, frame'[k].op = "getServo", frame'[k].at = 2
        PROVE  frame'[k].arg \notin ToSet(mServos)
    BY <1>0, <2>2, MovesServo DEF ServoInv
  <2>3. ToSet(mServos)' = ToSet(mServos)
    BY <1>1 DEF ToSet
  <2> QED BY <2>1, <2>2, <2>3 DEF ServoInv
<1>2. ASSUME NEW l \in Lanes, CreateServo(l) PROVE ServoInv'
  <2> DEFINE id == frame[l].arg
  <2>0. /\ mServos' = Append(mServos, id) /\ id \in Servos
        /\ frame[l].op = "getServo" /\ frame[l].at = 2
        /\ id \notin ToSet(mServos)
    BY <1>2, ArgIsServo DEF CreateServo, In, ServoInv
  <2> HIDE DEF id
  <2>1. /\ Len(mServos) \in Nat /\ DOMAIN mServos = 1..Len(mServos)
        /\ DOMAIN mServos' = 1..(Len(mServos) + 1)
        /\ \A i \in 1..Len(mServos) : mServos'[i] = mServos[i]
        /\ mServos'[Len(mServos) + 1] = id
    BY <1>0, <2>0, AppendProperties, LenProperties
  <2>2. \A i \in 1..Len(mServos) : mServos[i] # id
    BY <2>0, <2>1 DEF ToSet
  <2>3. OneServoPerId'
    <3>1. \A i, j \in 1..Len(mServos) : mServos[i] = mServos[j] => i = j
      BY <2>1 DEF ServoInv, OneServoPerId, IsInjective
    <3>2. \A i \in 1..(Len(mServos) + 1) : i \in 1..Len(mServos) \/ i = Len(mServos) + 1
      BY <2>1
    <3>3. \A i, j \in 1..(Len(mServos) + 1) : mServos'[i] = mServos'[j] => i = j
      BY <2>1, <2>2, <3>1, <3>2
    <3> QED BY <2>1, <3>3 DEF OneServoPerId, IsInjective
  <2>4. ASSUME NEW k \in Lanes, frame'[k].op = "getServo", frame'[k].at = 2
        PROVE  FALSE
    <3>1. frame'[l] = Idle
      BY <1>2 DEF CreateServo, Leave, TypeOK
    <3>2. k # l
      BY <2>4, <3>1 DEF Idle
    <3>3. frame[k].op = "getServo" /\ frame[k].at # 0
      <4>1. frame'[k] = frame[k]
        BY <1>2, <3>2 DEF CreateServo, Leave, TypeOK
      <4> QED BY <2>4, <4>1
    <3> QED BY <2>0, <3>2, <3>3, OneInGetServo
  <2> QED BY <2>3, <2>4 DEF ServoInv
<1> QED BY <1>1, <1>2, OnlyAppended

(* There is no servo at the start.                                           *)
LEMMA InitServos == Init => ServoInv
BY DEF Init, ServoInv, OneServoPerId, IsInjective, Idle

(* Every id has one servo, however many threads ask for it at once.          *)
THEOREM OneServo == Spec => []OneServoPerId
<1>1. Init => ServoInv
  BY InitServos
<1>2. TypeOK /\ LockInv /\ OpsInv /\ ServoInv /\ [Next]_vars => ServoInv'
  BY NextServo
<1>3. ServoInv => OneServoPerId
  BY DEF ServoInv
<1> QED BY <1>1, <1>2, <1>3, SharingInv, PTL DEF Spec

-----------------------------------------------------------------------------
(* An order of the first t commands registered, but for those of command t   *)
(* after its k-th.                                                           *)
Taken(o, t, k) ==
    \E i \in 1..t : \E j \in 1..Len(OrdersOf[registered[i]]) :
        (i = t => j <= k) /\ o = OrdersOf[registered[i]][j]

(* The engine is at order k of command t.  What has been deleted, and the    *)
(* current order, is one of those taken; and these two differ.               *)
EngineAt(t, k) ==
    /\ t <= Len(registered)
    /\ mCommandQueue = From(registered, t + 1)
    /\ t = 0 => mCommandCurrent = <<>>
    /\ t # 0 => /\ k <= Len(OrdersOf[registered[t]])
               /\ mCommandCurrent = From(OrdersOf[registered[t]], k + 1)
    /\ \A o \in freed : Taken(o, t, k)
    /\ mOrderCurrent # NoOrder => Taken(mOrderCurrent, t, k)

OrdersInv == /\ \E t, k \in Nat : EngineAt(t, k)
             /\ OrderIsAlive

orderVars == <<mCommandQueue, registered, mCommandCurrent, mOrderCurrent, freed>>

(* The steps that matter for the orders.                                     *)
LEMMA OrderSteps ==
    ASSUME [Next]_vars
    PROVE  \/ UNCHANGED orderVars
           \/ \E l \in Lanes : PushCommand(l)
           \/ NextCommand
           \/ ExtractOrder
<1> USE DEF orderVars
<1>1. ASSUME NEW l \in Lanes, CallStep(l)
      PROVE  UNCHANGED orderVars \/ PushCommand(l)
  BY <1>1 DEF CallStep, Lock, PostCommand, FindServo, CreateServo, CopyResult,
     engineVars, sharedVars
<1>2. CASE RunTask \/ EndOrder \/ NoMoreCommand \/ OrderRunning
           \/ CommandOver \/ CommandEnded \/ ClearPing
  BY <1>2 DEF RunTask, EndOrder, NoMoreCommand, OrderRunning, CommandOver,
     CommandEnded, ClearPing, engineVars, sharedVars
<1>3. CASE ProcessPacket \/ NoPacket \/ PushPing \/ NewPingIdReceived
           \/ PrepareAsyncRead \/ SendOrder \/ OtherSlot \/ Expire \/ Receive
           \/ UNCHANGED vars
  BY <1>3 DEF ProcessPacket, NoPacket, PushPing, NewPingIdReceived,
     PrepareAsyncRead, SendOrder, OtherSlot, Expire, Receive, vars, engineVars,
     sharedVars
<1>4. ASSUME NEW u \in Users, UserCalls(u) PROVE UNCHANGED orderVars
  BY <1>4 DEF UserCalls, engineVars, sharedVars
<1>5. ASSUME NEW ids \in Seq(Servos), Hear(ids) PROVE UNCHANGED orderVars
  BY <1>5 DEF Hear, engineVars, sharedVars
<1>6. CASE StartStop
  BY <1>6, StartStopKeeps DEF engineVars, sharedVars
<1> QED BY <1>1, <1>2, <1>3, <1>4, <1>5, <1>6 DEF Next, IoThread, Lanes

(* What the assumption says of a command that has been registered.           *)
LEMMA OrdersType ==
    ASSUME TypeOK, NEW i \in 1..Len(registered)
    PROVE  /\ registered[i] \in Objects
           /\ OrdersOf[registered[i]] \in Seq(Nat \ {NoOrder})
<1>1. registered[i] \in Objects
  BY ElementOfSeq DEF TypeOK
<1> QED BY <1>1, OrdersAssumption

(* Pushing a command keeps orders alive.                                     *)
LEMMA PushKeepsOrders ==
    ASSUME TypeOK, OrdersInv, NEW l \in Lanes, PushCommand(l)
    PROVE  OrdersInv'
<1> DEFINE c == frame[l].arg
<1>0. /\ c \in Objects
      /\ mCommandQueue' = Append(mCommandQueue, c)
      /\ registered' = Append(registered, c)
      /\ UNCHANGED <<mCommandCurrent, mOrderCurrent, freed>>
  BY ArgIsObject DEF PushCommand, engineVars
<1> HIDE DEF c
<1>1. PICK t, k \in Nat : EngineAt(t, k)
  BY DEF OrdersInv
<1>2. registered \in Seq(Objects) /\ Len(registered) \in Nat
  BY LenProperties DEF TypeOK
<1>3. /\ Len(registered') = Len(registered) + 1
      /\ \A i \in 1..Len(registered) : registered'[i] = registered[i]
      /\ DOMAIN registered' = 1..(Len(registered) + 1)
      /\ DOMAIN registered = 1..Len(registered)
  BY <1>0, <1>2, AppendProperties, LenProperties
<1>4. t <= Len(registered) /\ t + 1 \in Nat \ {0} /\ t + 1 <= Len(registered) + 1
  BY <1>1, <1>2 DEF EngineAt
<1>5. mCommandQueue' = From(registered', t + 1)
  BY <1>0, <1>1, <1>2, <1>4, FromAppend DEF EngineAt
<1>6. \A i \in 1..t : i \in 1..Len(registered) /\ registered'[i] = registered[i]
  BY <1>2, <1>3, <1>4
<1>7. \A o : Taken(o, t, k) => Taken(o, t, k)'
  BY <1>6 DEF Taken
<1>8. t # 0 => registered'[t] = registered[t]
  BY <1>6
<1>9. EngineAt(t, k)'
  BY <1>0, <1>1, <1>2, <1>3, <1>4, <1>5, <1>7, <1>8 DEF EngineAt
<1>10. IsInjective(registered') => IsInjective(registered)
  BY <1>2, <1>3 DEF IsInjective
<1>11. OrderIsAlive'
  BY <1>0, <1>10 DEF OrdersInv, OrderIsAlive, Corrupt
<1> QED BY <1>9, <1>11 DEF OrdersInv

(* Taking the next command keeps orders alive.                               *)
LEMMA NextCommandKeepsOrders ==
    ASSUME TypeOK, OrdersInv, NextCommand
    PROVE  OrdersInv'
<1>0. /\ mCommandQueue # <<>>
      /\ mCommandCurrent' = OrdersOf[Head(mCommandQueue)]
      /\ mCommandQueue' = Tail(mCommandQueue)
      /\ UNCHANGED <<registered, mOrderCurrent, freed>>
  BY DEF NextCommand
<1>1. PICK t, k \in Nat : EngineAt(t, k)
  BY DEF OrdersInv
<1>2. registered \in Seq(Objects) /\ Len(registered) \in Nat
  BY LenProperties DEF TypeOK
<1>3. t + 1 \in Nat \ {0} /\ t + 1 <= Len(registered) + 1
  BY <1>1, <1>2 DEF EngineAt
<1>4. /\ t + 1 <= Len(registered)
      /\ Head(mCommandQueue) = registered[t + 1]
      /\ mCommandQueue' = From(registered, (t + 1) + 1)
  BY <1>0, <1>1, <1>2, <1>3, FromTail DEF EngineAt
<1>5. t + 1 \in 1..Len(registered)
  BY <1>2, <1>4
<1>6. mCommandCurrent' = From(OrdersOf[registered[t + 1]], 0 + 1)
  <2>1. OrdersOf[registered[t + 1]] \in Seq(Nat \ {NoOrder})
    BY <1>5, OrdersType
  <2> QED BY <1>0, <1>4, <2>1, SubSeqFull DEF From
<1>7. Len(OrdersOf[registered[t + 1]]) \in Nat
  BY <1>5, OrdersType, LenProperties
<1>8. \A o : Taken(o, t, k) => Taken(o, t + 1, 0)'
  <2>1. \A i \in 1..t : i \in 1..(t + 1) /\ i # t + 1
    OBVIOUS
  <2> QED BY <1>0, <2>1 DEF Taken
<1>9. EngineAt(t + 1, 0)'
  BY <1>0, <1>1, <1>4, <1>6, <1>7, <1>8 DEF EngineAt
<1>10. OrderIsAlive'
  BY <1>0 DEF OrdersInv, OrderIsAlive, Corrupt
<1>11. t + 1 \in Nat
  OBVIOUS
<1> QED BY <1>9, <1>10, <1>11 DEF OrdersInv

(* The order extracted is in no command taken before, so nobody deleted it.  *)
LEMMA ExtractKeepsOrders ==
    ASSUME TypeOK, OrdersInv, ExtractOrder
    PROVE  OrdersInv'
<1>0. /\ mCommandCurrent # <<>>
      /\ mOrderCurrent' = Head(mCommandCurrent)
      /\ mCommandCurrent' = Tail(mCommandCurrent)
      /\ freed' = freed \cup ({mOrderCurrent} \ {NoOrder})
      /\ UNCHANGED <<mCommandQueue, registered>>
  BY DEF ExtractOrder, Extracted, sharedVars
<1>1. PICK t, k \in Nat : EngineAt(t, k)
  BY DEF OrdersInv
<1>2. t \in 1..Len(registered)
  BY <1>0, <1>1, LenProperties DEF EngineAt, TypeOK
<1> DEFINE s == OrdersOf[registered[t]]
<1>3. s \in Seq(Nat \ {NoOrder}) /\ Len(s) \in Nat
  BY <1>2, OrdersType, LenProperties
<1>4. k <= Len(s) /\ mCommandCurrent = From(s, k + 1)
  BY <1>1, <1>2 DEF EngineAt
<1>5. k + 1 \in Nat \ {0} /\ k + 1 <= Len(s) + 1
  BY <1>3, <1>4
<1>6. /\ k + 1 <= Len(s)
      /\ mOrderCurrent' = s[k + 1]
      /\ mCommandCurrent' = From(s, (k + 1) + 1)
  <2> HIDE DEF s
  <2> QED BY <1>0, <1>3, <1>4, <1>5, FromTail
<1>7. \A o : Taken(o, t, k) => Taken(o, t, k + 1)'
  BY <1>0 DEF Taken
<1>8. Taken(mOrderCurrent, t, k + 1)'
  <2>1. k + 1 \in 1..Len(s) /\ t \in 1..t
    BY <1>2, <1>3, <1>6
  <2> QED BY <1>0, <1>6, <2>1 DEF Taken
<1>9. EngineAt(t, k + 1)'
  <2>1. \A o \in freed' : Taken(o, t, k + 1)'
    BY <1>0, <1>1, <1>7 DEF EngineAt
  <2>2. t <= Len(registered) /\ t # 0
    BY <1>2
  <2>3. mCommandQueue' = From(registered', t + 1)
    BY <1>0, <1>1 DEF EngineAt
  <2>4. /\ k + 1 <= Len(OrdersOf[registered'[t]])
        /\ mCommandCurrent' = From(OrdersOf[registered'[t]], (k + 1) + 1)
    BY <1>0, <1>6
  <2> HIDE DEF s
  <2> QED BY <1>0, <1>8, <2>1, <2>2, <2>3, <2>4 DEF EngineAt
<1>10. ASSUME IsInjective(registered), Taken(s[k + 1], t, k) PROVE FALSE
  <2>1. PICK i \in 1..t : \E j \in 1..Len(OrdersOf[registered[i]]) :
            (i = t => j <= k) /\ s[k + 1] = OrdersOf[registered[i]][j]
    BY <1>10 DEF Taken
  <2>2. PICK j \in 1..Len(OrdersOf[registered[i]]) :
            (i = t => j <= k) /\ s[k + 1] = OrdersOf[registered[i]][j]
    BY <2>1
  <2>3. i \in 1..Len(registered)
    BY <1>2, <2>1
  <2>4. registered[i] \in Objects /\ registered[t] \in Objects
    BY <1>2, <2>3, OrdersType
  <2>5. k + 1 \in 1..Len(s)
    BY <1>3, <1>6
  <2>6. registered[t] = registered[i] /\ k + 1 = j
    <3>1. k + 1 \in 1..Len(OrdersOf[registered[t]])
      BY <2>5
    <3>2. OrdersOf[registered[t]][k + 1] = OrdersOf[registered[i]][j]
      BY <2>2
    <3> HIDE DEF s
    <3> QED BY <2>2, <2>4, <3>1, <3>2, OrdersAssumption
  <2>7. i = t
    <3>1. DOMAIN registered = 1..Len(registered)
      BY LenProperties DEF TypeOK
    <3> QED BY <1>2, <1>10, <2>3, <2>6, <3>1 DEF IsInjective
  <2> QED BY <2>2, <2>6, <2>7
<1>11. OrderIsAlive'
  <2> SUFFICES ASSUME mOrderCurrent' \in freed', IsInjective(registered)
               PROVE  FALSE
    BY <1>0 DEF OrderIsAlive, Corrupt
  <2>1. s[k + 1] \in freed \/ (s[k + 1] = mOrderCurrent /\ mOrderCurrent # NoOrder)
    BY <1>0, <1>6
  <2>2. Taken(s[k + 1], t, k)
    BY <1>1, <2>1 DEF EngineAt
  <2> QED BY <1>10, <2>2
<1>12. k + 1 \in Nat
  OBVIOUS
<1> QED BY <1>9, <1>11, <1>12 DEF OrdersInv

(* No order is used or freed at the start.                                   *)
LEMMA InitOrders == Init => OrdersInv
<1> SUFFICES ASSUME Init PROVE OrdersInv
  OBVIOUS
<1>1. EngineAt(0, 0)
  <2>1. Len(registered) = 0 /\ From(registered, 0 + 1) = <<>>
    BY SubSeqEmpty, EmptySeq DEF Init, From
  <2> QED BY <2>1 DEF Init, EngineAt
<1>2. OrderIsAlive
  BY DEF Init, OrderIsAlive, Corrupt
<1> QED BY <1>1, <1>2 DEF OrdersInv

(* Every step keeps the orders that are in use alive.                        *)
LEMMA NextOrders ==
    ASSUME TypeOK, OrdersInv, [Next]_vars
    PROVE  OrdersInv'
<1>1. CASE UNCHANGED orderVars
  <2>1. PICK t, k \in Nat : EngineAt(t, k)
    BY DEF OrdersInv
  <2>2. \A o : Taken(o, t, k) => Taken(o, t, k)'
    BY <1>1 DEF orderVars, Taken
  <2>3. EngineAt(t, k)'
    BY <1>1, <2>1, <2>2 DEF orderVars, EngineAt
  <2>4. OrderIsAlive'
    BY <1>1 DEF orderVars, OrdersInv, OrderIsAlive, Corrupt
  <2> QED BY <2>3, <2>4 DEF OrdersInv
<1> QED BY <1>1, OrderSteps, PushKeepsOrders, NextCommandKeepsOrders,
           ExtractKeepsOrders

(* As long as no Command object is registered twice, the order that the      *)
(* engine works on has not been deleted.                                     *)
THEOREM OrdersAlive == Spec => []OrderIsAlive
<1>1. Init => OrdersInv
  BY InitOrders
<1>2. TypeOK /\ OrdersInv /\ [Next]_vars => OrdersInv'
  BY NextOrders
<1>3. OrdersInv => OrderIsAlive
  BY DEF OrdersInv
<1> QED BY <1>1, <1>2, <1>3, SharingInv, PTL DEF Spec

-----------------------------------------------------------------------------
(* The handler has extracted an order and has still to write it.             *)
Sending == frame["handler"].op = "commandStateMachine" /\ frame["handler"].at = 3

(* The orders of the command being served.                                   *)
Serving == OrdersOf[registered[ended + 1]]

(* The engine holds exactly what is registered and not sent: the commands    *)
(* still queued, and of the one being served the orders still to go out.     *)
StreamInv ==
    /\ ended <= Len(registered)
    /\ ~mCommandInProcess =>
          /\ mCommandQueue = From(registered, ended + 1)
          /\ pos = 0 /\ ~Sending
    /\ mCommandInProcess =>
          /\ ended < Len(registered)
          /\ mCommandQueue = From(registered, ended + 2)
          /\ pos \in 0..Len(Serving)
          /\ Sending => pos < Len(Serving) /\ mOrderCurrent = Serving[pos + 1]
          /\ mCommandCurrent = From(Serving, pos + (IF Sending THEN 2 ELSE 1))

streamVars == <<mCommandQueue, registered, mCommandInProcess, mCommandCurrent,
                mOrderCurrent, ended, pos, wire>>

(* What a move of a lane makes of the frame of the handler.                  *)
LEMMA HandlerFrame ==
    ASSUME TypeOK, NEW l \in Lanes
    PROVE  /\ Leave(l) =>
                frame'["handler"] = IF l = "handler" THEN Idle ELSE frame["handler"]
           /\ \A n \in Nat : GoTo(l, n) =>
                /\ frame'["handler"].op = frame["handler"].op
                /\ frame'["handler"].at =
                        IF l = "handler" THEN n ELSE frame["handler"].at
           /\ \A n \in Nat : \A f \in Frames : CallInner(n, f) =>
                /\ frame'["handler"].op = frame["handler"].op
                /\ frame'["handler"].at = n
<1>1. frame \in [Lanes -> Frames] /\ {"handler", "inner"} \subseteq Lanes
  BY UserIsLane DEF TypeOK
<1>2. frame["handler"] \in [op : Ops, arg : Objects \cup Servos \cup {0}, at : Nat]
  BY <1>1 DEF Frames
<1>3. Leave(l) => frame'["handler"] = IF l = "handler" THEN Idle ELSE frame["handler"]
  BY <1>1 DEF Leave
<1>4. ASSUME NEW n \in Nat, GoTo(l, n)
      PROVE  /\ frame'["handler"].op = frame["handler"].op
             /\ frame'["handler"].at = IF l = "handler" THEN n ELSE frame["handler"].at
  <2>1. frame' = [frame EXCEPT ![l] = [frame[l] EXCEPT !.at = n]]
    BY <1>4 DEF GoTo
  <2>2. frame'["handler"] = IF l = "handler" THEN [frame[l] EXCEPT !.at = n]
                                             ELSE frame["handler"]
    BY <1>1, <2>1
  <2> QED BY <1>2, <2>2
<1>5. ASSUME NEW n \in Nat, NEW f \in Frames, CallInner(n, f)
      PROVE  /\ frame'["handler"].op = frame["handler"].op
             /\ frame'["handler"].at = n
  <2>1. frame'["handler"] = [frame["handler"] EXCEPT !.at = n]
    BY <1>1, <1>5 DEF CallInner
  <2> QED BY <1>2, <2>1
<1> QED BY <1>3, <1>4, <1>5

(* The steps that matter for the stream; the handler comes to the point      *)
(* before the write, and leaves it, in no other.                             *)
LEMMA StreamSteps ==
    ASSUME TypeOK, [Next]_vars
    PROVE  \/ UNCHANGED streamVars /\ Sending' = Sending
           \/ /\ \E l \in Lanes : PushCommand(l)
              /\ Sending' = Sending
           \/ NextCommand \/ CommandOver \/ ExtractOrder \/ SendOrder
<1> USE DEF streamVars
<1>0. frame \in [Lanes -> Frames] /\ "handler" \in Lanes
  BY UserIsLane DEF TypeOK
<1>1. ASSUME NEW l \in Lanes, CallStep(l)
      PROVE  \/ UNCHANGED streamVars /\ Sending' = Sending
             \/ PushCommand(l) /\ Sending' = Sending
  <2>1. UNCHANGED streamVars \/ PushCommand(l)
    BY <1>1 DEF CallStep, Lock, PostCommand, FindServo, CreateServo, CopyResult,
       engineVars, sharedVars
  <2>2. CASE Lock(l)
    BY <1>0, <2>1, <2>2 DEF Lock, Sending
  <2>3. CASE PushCommand(l)
    BY <1>0, <2>3 DEF PushCommand, In, GoTo, Sending
  <2>4. CASE PostCommand(l)
    BY <1>0, <2>1, <2>4 DEF PostCommand, In, Leave, Idle, Sending
  <2>5. CASE FindServo(l)
    <3>1. frame[l].op = "getServo" /\ (Leave(l) \/ GoTo(l, 2)) /\ 2 \in Nat
      BY <2>5 DEF FindServo, In
    <3> QED BY <2>1, <3>1, HandlerFrame DEF Idle, Sending
  <2>6. CASE CreateServo(l)
    BY <1>0, <2>1, <2>6 DEF CreateServo, In, Leave, Idle, Sending
  <2>7. CASE CopyResult(l)
    BY <1>0, <2>1, <2>7 DEF CopyResult, In, Leave, Idle, Sending
  <2> QED BY <1>1, <2>2, <2>3, <2>4, <2>5, <2>6, <2>7 DEF CallStep
<1>2. CASE RunTask \/ EndOrder \/ NoMoreCommand \/ OrderRunning \/ CommandEnded
           \/ ClearPing \/ ProcessPacket \/ NoPacket \/ PushPing
           \/ NewPingIdReceived \/ PrepareAsyncRead \/ OtherSlot \/ Expire
           \/ Receive \/ UNCHANGED vars
  <2>1. UNCHANGED streamVars
    BY <1>2 DEF RunTask, EndOrder, NoMoreCommand, OrderRunning, CommandEnded,
       ClearPing, ProcessPacket, NoPacket, PushPing, NewPingIdReceived,
       PrepareAsyncRead, OtherSlot, Expire, Receive, vars, engineVars, sharedVars
  <2>2. CASE RunTask \/ EndOrder \/ Expire \/ Receive \/ UNCHANGED vars
    <3>1. CASE RunTask
      <4>1. /\ frame["handler"].op = "none"
            /\ frame'["handler"] = Frame(Head(tasks), 0)
        BY <1>0, <3>1 DEF RunTask, Busy
      <4> QED BY <2>1, <4>1 DEF Frame, Sending
    <3>2. CASE EndOrder \/ Expire \/ Receive \/ UNCHANGED vars
      <4>1. frame' = frame
        BY <3>2 DEF EndOrder, Expire, Receive, vars, lockVars
      <4> QED BY <2>1, <4>1 DEF Sending
    <3> QED BY <2>2, <3>1, <3>2
  <2>3. CASE NoMoreCommand \/ OrderRunning \/ CommandEnded \/ PrepareAsyncRead
    <3>1. \/ frame["handler"].at # 3
          \/ frame["handler"].op \in {"readReceivedData", "abortedRead"}
      BY <2>3 DEF NoMoreCommand, OrderRunning, CommandEnded, PrepareAsyncRead,
         Deciding, In
    <3>2. Leave("handler")
      BY <2>3 DEF NoMoreCommand, OrderRunning, CommandEnded, PrepareAsyncRead
    <3>3. frame'["handler"] = Idle
      BY <1>0, <3>2, HandlerFrame
    <3> QED BY <2>1, <3>1, <3>3 DEF Idle, Sending
  <2>4. CASE ClearPing \/ PushPing \/ OtherSlot
    <3>1. "inner" \in Lanes /\ 2 \in Nat /\ (Leave("inner") \/ GoTo("inner", 2))
      BY <2>4, UserIsLane DEF ClearPing, PushPing, OtherSlot
    <3> QED BY <2>1, <3>1, HandlerFrame DEF Sending
  <2>5. CASE ProcessPacket
    <3>1. frame["handler"].op = "readReceivedData" /\ frame["handler"].at = 1
      BY <2>5 DEF ProcessPacket, In
    <3>2. /\ CallInner(2, Frame("pushPing", Head(bus))) /\ 2 \in Nat
          /\ Frame("pushPing", Head(bus)) \in Frames
      BY <2>5 DEF ProcessPacket, Frame, Frames, Ops, TypeOK
    <3>3. frame'["handler"].at = 2
      BY <1>0, <3>2, HandlerFrame
    <3> QED BY <2>1, <3>1, <3>3 DEF Sending
  <2>6. CASE NewPingIdReceived
    <3>1. PICK f \in Requests(program.newPingIdReceived) : CallInner(3, f)
      BY <2>6 DEF NewPingIdReceived
    <3>2. f \in Frames /\ 3 \in Nat
      BY SlotIsKind, RequestsAreFrames
    <3>3. frame["handler"].op = "readReceivedData"
      BY <2>6 DEF NewPingIdReceived, In
    <3>4. frame'["handler"].op = frame["handler"].op
      BY <1>0, <3>1, <3>2, HandlerFrame
    <3> QED BY <2>1, <3>3, <3>4 DEF Sending
  <2>7. CASE NoPacket
    <3>1. frame["handler"].op = "readReceivedData" /\ GoTo("handler", 3) /\ 3 \in Nat
      BY <2>7 DEF NoPacket, In
    <3> QED BY <1>0, <2>1, <3>1, HandlerFrame DEF Sending
  <2> QED BY <1>2, <2>1, <2>2, <2>3, <2>4, <2>5, <2>6, <2>7
<1>3. ASSUME NEW u \in Users, UserCalls(u) PROVE UNCHANGED streamVars /\ Sending' = Sending
  <2>1. u # "handler"
    BY UsersAssumption DEF IoLanes
  <2>2. UNCHANGED streamVars
    BY <1>3 DEF UserCalls, engineVars, sharedVars
  <2>3. frame'["handler"] = frame["handler"]
    BY <1>0, <1>3, <2>1 DEF UserCalls
  <2> QED BY <2>2, <2>3 DEF Sending
<1>4. ASSUME NEW ids \in Seq(Servos), Hear(ids)
      PROVE  UNCHANGED streamVars /\ Sending' = Sending
  BY <1>4 DEF Hear, lockVars, engineVars, sharedVars, Sending
<1>5. CASE StartStop
  <2>1. UNCHANGED streamVars /\ (Leave(Owner) \/ \E n \in {2, 3} : GoTo(Owner, n))
    BY <1>5, StartStopKeeps DEF engineVars, sharedVars
  <2>2. frame'["handler"].op = frame["handler"].op /\ frame'["handler"].at = frame["handler"].at
    BY <2>1, OwnerIsUser, HandlerFrame
  <2> QED BY <2>1, <2>2 DEF Sending
<1> QED BY <1>1, <1>2, <1>3, <1>4, <1>5 DEF Next, IoThread, Lanes

(* What the invariant says of the types of the stream.                       *)
LEMMA StreamType ==
    ASSUME TypeOK, StreamInv
    PROVE  /\ registered \in Seq(Objects) /\ Len(registered) \in Nat /\ ended \in Nat
           /\ mCommandInProcess =>
                 /\ ended + 1 \in 1..Len(registered)
                 /\ Serving \in Seq(Nat \ {NoOrder}) /\ Len(Serving) \in Nat
                 /\ pos \in Nat
<1>1. registered \in Seq(Objects) /\ Len(registered) \in Nat /\ ended \in Nat
  BY LenProperties DEF TypeOK
<1>2. ASSUME mCommandInProcess
      PROVE  /\ ended + 1 \in 1..Len(registered)
             /\ Serving \in Seq(Nat \ {NoOrder}) /\ Len(Serving) \in Nat /\ pos \in Nat
  <2>1. ended + 1 \in 1..Len(registered) /\ pos \in 0..Len(Serving)
    BY <1>1, <1>2 DEF StreamInv
  <2>2. Serving \in Seq(Nat \ {NoOrder})
    BY <2>1, OrdersType DEF Serving
  <2> QED BY <2>1, <2>2, LenProperties
<1> QED BY <1>1, <1>2

(* Every step keeps it.                                                      *)
LEMMA NextStream == TypeOK /\ StreamInv /\ [Next]_vars => StreamInv'
<1> SUFFICES ASSUME TypeOK, StreamInv, [Next]_vars PROVE StreamInv'
  OBVIOUS
<1>1. /\ registered \in Seq(Objects) /\ Len(registered) \in Nat /\ ended \in Nat
      /\ mCommandInProcess =>
            /\ ended + 1 \in 1..Len(registered)
            /\ Serving \in Seq(Nat \ {NoOrder}) /\ Len(Serving) \in Nat /\ pos \in Nat
  BY StreamType
<1>0. frame \in [Lanes -> Frames] /\ "handler" \in Lanes /\ "inner" \in Lanes
      /\ mCommandInProcess \in BOOLEAN
  BY UserIsLane DEF TypeOK
<1>2. CASE UNCHANGED streamVars /\ Sending' = Sending
  BY <1>2 DEF streamVars, StreamInv, Serving
<1>3. ASSUME NEW l \in Lanes, PushCommand(l), Sending' = Sending PROVE StreamInv'
  <2> DEFINE c == frame[l].arg
  <2>1. /\ c \in Objects
        /\ mCommandQueue' = Append(mCommandQueue, c)
        /\ registered' = Append(registered, c)
        /\ UNCHANGED <<mCommandInProcess, mCommandCurrent, mOrderCurrent, ended, pos>>
    BY <1>3, ArgIsObject DEF PushCommand, engineVars
  <2> HIDE DEF c
  <2>2. /\ Len(registered') = Len(registered) + 1
        /\ \A i \in 1..Len(registered) : registered'[i] = registered[i]
    BY <1>1, <2>1, AppendProperties
  <2>3. ASSUME NEW k \in Nat \ {0}, k <= Len(registered) + 1,
               mCommandQueue = From(registered, k)
        PROVE  mCommandQueue' = From(registered', k)
    BY <1>1, <2>1, <2>3, FromAppend
  <2>4. CASE ~mCommandInProcess
    <3>1. ended + 1 \in Nat \ {0} /\ ended + 1 <= Len(registered) + 1
      BY <1>1 DEF StreamInv
    <3>2. mCommandQueue' = From(registered', ended + 1)
      BY <2>3, <2>4, <3>1 DEF StreamInv
    <3>3. ended <= Len(registered')
      BY <1>1, <2>2 DEF StreamInv
    <3> QED BY <1>3, <2>1, <2>4, <3>2, <3>3 DEF StreamInv
  <2>5. CASE mCommandInProcess
    <3>1. ended + 2 \in Nat \ {0} /\ ended + 2 <= Len(registered) + 1
      BY <1>1, <2>5
    <3>2. mCommandQueue' = From(registered', ended + 2)
      BY <2>3, <2>5, <3>1 DEF StreamInv
    <3>3. ended <= Len(registered') /\ ended < Len(registered')
      BY <1>1, <2>2, <2>5
    <3>4. Serving' = Serving
      BY <1>1, <2>1, <2>2, <2>5 DEF Serving
    <3> QED BY <1>3, <2>1, <2>5, <3>2, <3>3, <3>4 DEF StreamInv
  <2> QED BY <2>4, <2>5
<1>4. CASE NextCommand
  <2>1. /\ ~mCommandInProcess /\ mCommandInProcess' /\ mCommandQueue # <<>>
        /\ mCommandCurrent' = OrdersOf[Head(mCommandQueue)]
        /\ mCommandQueue' = Tail(mCommandQueue)
        /\ UNCHANGED <<registered, ended, pos>>
    BY <1>4 DEF NextCommand
  <2>2. ~Sending'
    BY <1>0, <1>4 DEF NextCommand, Leave, Idle, Sending
  <2>3. /\ mCommandQueue = From(registered, ended + 1) /\ pos = 0
        /\ ended + 1 \in Nat \ {0} /\ ended + 1 <= Len(registered) + 1
    BY <1>1, <2>1 DEF StreamInv
  <2>4. /\ ended + 1 <= Len(registered)
        /\ Head(mCommandQueue) = registered[ended + 1]
        /\ mCommandQueue' = From(registered, (ended + 1) + 1)
    BY <1>1, <2>1, <2>3, FromTail
  <2>5. ended + 1 \in 1..Len(registered) /\ (ended + 1) + 1 = ended + 2
        /\ ended < Len(registered) /\ ended <= Len(registered)
    BY <1>1, <2>4
  <2>6. Serving \in Seq(Nat \ {NoOrder}) /\ Len(Serving) \in Nat
    BY <2>5, OrdersType, LenProperties DEF Serving
  <2>7. mCommandCurrent' = From(Serving, 1)
    <3>1. Serving = mCommandCurrent'
      BY <2>1, <2>4 DEF Serving
    <3> QED BY <2>6, <3>1, SubSeqFull DEF From
  <2>8. Serving' = Serving /\ pos' = 0 /\ 0 + 1 = 1 /\ 0 \in 0..Len(Serving)
    BY <2>1, <2>3, <2>6 DEF Serving
  <2> QED BY <2>1, <2>2, <2>4, <2>5, <2>7, <2>8 DEF StreamInv
<1>5. CASE CommandOver
  <2>1. /\ mCommandInProcess /\ ~mCommandInProcess' /\ ended' = ended + 1 /\ pos' = 0
        /\ UNCHANGED <<registered, mCommandQueue>>
    BY <1>5 DEF CommandOver, sharedVars
  <2>2. ~Sending'
    <3>1. PICK f \in Requests(program.commandEnded) : CallInner(2, f)
      BY <1>5 DEF CommandOver
    <3>2. f \in Frames /\ 2 \in Nat
      BY SlotIsKind, RequestsAreFrames
    <3>3. frame'["handler"].at = 2
      BY <1>0, <3>1, <3>2, HandlerFrame
    <3> QED BY <3>3 DEF Sending
  <2>3. mCommandQueue' = From(registered', ended' + 1) /\ ended' <= Len(registered')
    <3>1. (ended + 1) + 1 = ended + 2 /\ ended + 1 <= Len(registered)
      BY <1>1, <2>1
    <3> QED BY <2>1, <3>1 DEF StreamInv
  <2> QED BY <2>1, <2>2, <2>3 DEF StreamInv
<1>6. CASE ExtractOrder
  <2>1. /\ mCommandInProcess /\ mCommandInProcess' /\ mCommandCurrent # <<>>
        /\ mOrderCurrent' = Head(mCommandCurrent)
        /\ mCommandCurrent' = Tail(mCommandCurrent)
        /\ UNCHANGED <<registered, mCommandQueue, ended, pos>>
    BY <1>6 DEF ExtractOrder, Extracted, sharedVars
  <2>2. ~Sending
    BY <1>6 DEF ExtractOrder, Deciding, In, Sending
  <2>3. Sending'
    <3>1. frame["handler"].op = "commandStateMachine"
      BY <1>6 DEF ExtractOrder, Deciding, In
    <3>2. /\ CallInner(3, Frame("clearPing", 0)) /\ 3 \in Nat
          /\ Frame("clearPing", 0) \in Frames
      BY <1>6 DEF ExtractOrder, Frame, Frames, Ops
    <3> QED BY <1>0, <3>1, <3>2, HandlerFrame DEF Sending
  <2>4. /\ mCommandCurrent = From(Serving, pos + 1)
        /\ pos + 1 \in Nat \ {0} /\ pos + 1 <= Len(Serving) + 1
    BY <1>1, <2>1, <2>2 DEF StreamInv
  <2>5. /\ pos + 1 <= Len(Serving)
        /\ mOrderCurrent' = Serving[pos + 1]
        /\ mCommandCurrent' = From(Serving, (pos + 1) + 1)
    BY <1>1, <2>1, <2>4, FromTail
  <2>6. (pos + 1) + 1 = pos + 2 /\ pos < Len(Serving)
    BY <1>1, <2>1, <2>5
  <2>7. Serving' = Serving
    BY <2>1 DEF Serving
  <2> QED BY <2>1, <2>3, <2>5, <2>6, <2>7 DEF StreamInv
<1>7. CASE SendOrder
  <2>1. /\ Sending /\ pos' = pos + 1
        /\ UNCHANGED <<registered, mCommandQueue, ended, mCommandInProcess,
                       mCommandCurrent, mOrderCurrent>>
    BY <1>7 DEF SendOrder, In, sharedVars, Sending
  <2>2. ~Sending'
    BY <1>0, <1>7 DEF SendOrder, Leave, Idle, Sending
  <2>3. /\ mCommandInProcess /\ pos < Len(Serving)
        /\ mCommandCurrent = From(Serving, pos + 2)
    BY <2>1 DEF StreamInv
  <2>4. pos + 1 \in 0..Len(Serving) /\ (pos + 1) + 1 = pos + 2
    BY <1>1, <2>3
  <2>5. Serving' = Serving
    BY <2>1 DEF Serving
  <2> QED BY <2>1, <2>2, <2>3, <2>4, <2>5 DEF StreamInv
<1> QED BY <1>2, <1>3, <1>4, <1>5, <1>6, <1>7, StreamSteps

(* The engine starts with nothing registered and nothing sent.               *)
LEMMA InitStream == Init => StreamInv
<1> SUFFICES ASSUME Init PROVE StreamInv
  OBVIOUS
<1>1. Len(registered) = 0 /\ From(registered, 0 + 1) = <<>>
  BY SubSeqEmpty, EmptySeq DEF Init, From
<1>2. ~Sending
  BY UserIsLane DEF Init, Idle, Sending
<1> QED BY <1>1, <1>2 DEF Init, StreamInv

(* Every step is one of the stream or leaves it as it was.                   *)
LEMMA StepServesStream ==
    TypeOK /\ StreamInv /\ [Next]_vars => [Stream!Next]_(Stream!vars)
<1> SUFFICES ASSUME TypeOK, StreamInv, [Next]_vars PROVE [Stream!Next]_(Stream!vars)
  OBVIOUS
<1> DEFINE cmds == [i \in 1..Len(registered) |-> OrdersOf[registered[i]]]
<1>1. /\ registered \in Seq(Objects) /\ Len(registered) \in Nat /\ ended \in Nat
      /\ mCommandInProcess =>
            /\ ended + 1 \in 1..Len(registered)
            /\ Serving \in Seq(Nat \ {NoOrder}) /\ Len(Serving) \in Nat /\ pos \in Nat
  BY StreamType
<1>2. cmds \in Seq(Seq(Nat)) /\ Len(cmds) = Len(registered)
  <2>1. \A i \in 1..Len(registered) : OrdersOf[registered[i]] \in Seq(Nat)
    <3> TAKE i \in 1..Len(registered)
    <3>1. OrdersOf[registered[i]] \in Seq(Nat \ {NoOrder})
      BY OrdersType
    <3>2. Nat \ {NoOrder} \subseteq Nat
      OBVIOUS
    <3> QED BY <3>1, <3>2, SeqMonotonic
  <2>2. cmds \in [1..Len(registered) -> Seq(Nat)]
    BY <2>1
  <2> QED BY <1>1, <2>2
<1>3. ASSUME UNCHANGED <<registered, ended, pos, wire>> PROVE UNCHANGED Stream!vars
  BY <1>3 DEF Stream!vars
<1>4. mCommandInProcess => cmds[ended + 1] = Serving
  BY <1>1 DEF Serving
<1>5. ASSUME NEW l \in Lanes, PushCommand(l) PROVE Stream!Register
  <2> DEFINE c == frame[l].arg
  <2>1. /\ c \in Objects /\ registered' = Append(registered, c)
        /\ UNCHANGED <<ended, pos, wire>>
    BY <1>5, ArgIsObject DEF PushCommand, engineVars
  <2> HIDE DEF c
  <2>2. /\ Len(registered') = Len(registered) + 1
        /\ \A i \in 1..Len(registered) : registered'[i] = registered[i]
        /\ registered'[Len(registered) + 1] = c
    BY <1>1, <2>1, AppendProperties
  <2>3. OrdersOf[c] \in Seq(Nat)
    <3>1. OrdersOf[c] \in Seq(Nat \ {NoOrder})
      BY <2>1, OrdersAssumption
    <3>2. Nat \ {NoOrder} \subseteq Nat
      OBVIOUS
    <3> QED BY <3>1, <3>2, SeqMonotonic
  <2>4. cmds' = Append(cmds, OrdersOf[c])
    <3> DEFINE longer == Append(cmds, OrdersOf[c])
    <3>1. /\ longer \in Seq(Seq(Nat)) /\ Len(longer) = Len(registered) + 1
          /\ \A i \in 1..Len(registered) : longer[i] = cmds[i]
          /\ longer[Len(registered) + 1] = OrdersOf[c]
      <4> HIDE DEF cmds
      <4> QED BY <1>2, <2>3, AppendProperties
    <3> HIDE DEF longer
    <3>2. \A i \in 1..Len(registered) + 1 : cmds'[i] = longer[i]
      <4> TAKE i \in 1..Len(registered) + 1
      <4>1. cmds'[i] = OrdersOf[registered'[i]]
        BY <2>2
      <4>2. CASE i = Len(registered) + 1
        BY <2>2, <3>1, <4>1, <4>2
      <4>3. CASE i # Len(registered) + 1
        <5>1. i \in 1..Len(registered)
          BY <1>1, <4>3
        <5> QED BY <2>2, <3>1, <4>1, <5>1
      <4> QED BY <4>2, <4>3
    <3>3. DOMAIN longer = 1..Len(registered) + 1
      BY <3>1, LenProperties
    <3>4. longer = [i \in 1..Len(registered) + 1 |-> longer[i]]
      BY <3>1, <3>3
    <3>5. cmds' = [i \in 1..Len(registered) + 1 |-> longer[i]]
      BY <2>2, <3>2
    <3> QED BY <3>4, <3>5 DEF longer
  <2> HIDE DEF cmds
  <2>5. /\ cmds' \in Seq(Seq(Nat)) /\ Len(cmds') = Len(cmds) + 1
        /\ \A i \in 1..Len(cmds) : cmds'[i] = cmds[i]
    BY <1>2, <2>3, <2>4, AppendProperties
  <2>6. SubSeq(cmds', 1, Len(cmds)) = cmds
    <3> DEFINE r == SubSeq(cmds', 1, Len(cmds))
    <3>0. Len(cmds) \in Nat
      BY <1>1, <1>2
    <3>1. \A i \in 1..Len(cmds) : cmds'[i] \in Seq(Nat)
      BY <1>2, <2>5, ElementOfSeq
    <3>2. /\ r \in Seq(Seq(Nat))
          /\ Len(r) = IF 1 <= Len(cmds) THEN Len(cmds) - 1 + 1 ELSE 0
          /\ \A i \in 1..Len(cmds) - 1 + 1 : r[i] = cmds'[1 + i - 1]
      BY <3>0, <3>1, SubSeqProperties
    <3> HIDE DEF r
    <3>3. Len(r) = Len(cmds) /\ \A i \in 1..Len(r) : r[i] = cmds[i]
      BY <3>0, <2>5, <3>2
    <3>4. r = cmds
      BY <1>2, <3>2, <3>3, SeqEqual
    <3> QED BY <3>4 DEF r
  <2> QED BY <2>1, <2>5, <2>6 DEF cmds, Stream!Register
<1>6. CASE NextCommand \/ ExtractOrder
  BY <1>3, <1>6 DEF NextCommand, ExtractOrder, sharedVars
<1>7. CASE CommandOver
  <2>1. /\ mCommandInProcess /\ mCommandCurrent = <<>> /\ ended' = ended + 1
        /\ pos' = 0 /\ UNCHANGED <<registered, wire>>
    BY <1>7 DEF CommandOver, sharedVars
  <2>2. ~Sending
    BY <1>7 DEF CommandOver, Deciding, In, Sending
  <2>3. mCommandCurrent = From(Serving, pos + 1) /\ pos \in 0..Len(Serving)
    BY <2>1, <2>2 DEF StreamInv
  <2>4. pos = Len(Serving)
    <3>1. pos + 1 \in Nat \ {0} /\ pos + 1 <= Len(Serving) + 1 /\ Len(Serving) \in Nat
      BY <1>1, <2>1, <2>3
    <3>2. Len(mCommandCurrent) = Len(Serving) - (pos + 1) + 1
      BY <1>1, <2>1, <2>3, <3>1, FromType
    <3>3. Len(mCommandCurrent) = 0
      BY <2>1
    <3> QED BY <1>1, <2>1, <3>2, <3>3
  <2>5. ended < Len(cmds) /\ pos = Len(cmds[ended + 1]) /\ cmds' = cmds
    <3>1. cmds' = cmds
      BY <2>1
    <3> HIDE DEF cmds
    <3> QED BY <1>1, <1>2, <1>4, <2>1, <2>4, <3>1
  <2> HIDE DEF cmds
  <2> QED BY <2>1, <2>5 DEF cmds, Stream!Next, Stream!Finish, Stream!Current
<1>8. CASE SendOrder
  <2>1. /\ Sending /\ pos' = pos + 1 /\ wire' = Append(wire, mOrderCurrent)
        /\ UNCHANGED <<registered, ended>>
    BY <1>8 DEF SendOrder, In, sharedVars, Sending
  <2>2. /\ mCommandInProcess /\ pos < Len(Serving) /\ mOrderCurrent = Serving[pos + 1]
    BY <2>1 DEF StreamInv
  <2>3. /\ ended < Len(cmds) /\ pos < Len(cmds[ended + 1]) /\ cmds' = cmds
        /\ wire' = Append(wire, cmds[ended + 1][pos + 1])
    <3>1. cmds' = cmds
      BY <2>1
    <3> HIDE DEF cmds
    <3> QED BY <1>1, <1>2, <1>4, <2>1, <2>2, <3>1
  <2> HIDE DEF cmds
  <2> QED BY <2>1, <2>3 DEF cmds, Stream!Next, Stream!Send, Stream!Current
<1> QED BY <1>3, <1>5, <1>6, <1>7, <1>8, StreamSteps DEF streamVars, Stream!Next

(* With the calls of all threads and slots taken apart to single accesses,   *)
(* the orders still go out in the order of registration, each once, and      *)
(* commandEnded is emitted once for each command after its last order.       *)
THEOREM SharingServesStream == Spec => ServesStream
<1>1. Init => Stream!Init
  <2>1. Init => [i \in 1..Len(registered) |-> OrdersOf[registered[i]]] = <<>>
    BY DEF Init
  <2> QED BY <2>1 DEF Init, Stream!Init
<1>2. TypeOK /\ StreamInv /\ [Next]_vars => StreamInv'
  BY NextStream
<1> QED
  BY InitStream, StepServesStream, <1>1, <1>2, SharingInv, PTL
  DEF Spec, ServesStream, Stream!Spec
=============================================================================
