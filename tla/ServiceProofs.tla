--------------------------- MODULE ServiceProofs ---------------------------
(***************************************************************************)
(* Theorems about Service, for every set of servos and commands and every  *)
(* bound.                                                                  *)
(*                                                                         *)
(* The first part is about the threads, the handlers and the read loop.    *)
(* The second shows that Service implements CommandStream: the commands    *)
(* are served in the order of their registration, every order is sent      *)
(* once, commandEnded is emitted once for each, for every interleaving,    *)
(* fault and restart.  In a closed loop an order is ended by its own timer *)
(* and its own answers, and the ping results are those of the last ping.   *)
(***************************************************************************)
EXTENDS Service, SuffixLemmas, FiniteSetTheorems, FunctionTheorems

(* A completed read never claims more than the read buffer holds: without    *)
(* it readReceivedData could read past the buffer, and TypeOK alone is not   *)
(* inductive.                                                                *)
FitHandlers ==
    {e \in Handlers : e.h = "readReceivedData" => e.n <= Len(mReadBuffer)}

ReadsFit == mIos \in Seq(FitHandlers)

TypeInv == TypeOK /\ ReadsFit

(* One element makes a sequence; a sequence over a set is one over a larger. *)
LEMMA SingletonType == ASSUME NEW S, NEW x \in S PROVE <<x>> \in Seq(S)
OBVIOUS

(* The handlers that the steps below queue have the type of their queue.     *)
LEMMA HandlersFit ==
    ASSUME Len(mReadBuffer) \in Nat
    PROVE  /\ FitHandlers \subseteq Handlers
           /\ StateMachine \in FitHandlers
           /\ ReadDone(0, TRUE) \in FitHandlers
           /\ \A n \in Nat, ec \in BOOLEAN :
                 /\ TimerDone(n, ec) \in FitHandlers
                 /\ n <= Len(mReadBuffer) => ReadDone(n, ec) \in FitHandlers
BY DEF StateMachine, ReadDone, TimerDone, Handlers, FitHandlers

(* Cancelling the timer queues at most one handler.                          *)
LEMMA CancelledFits ==
    ASSUME mOrderTimeout \in Nat, Len(mReadBuffer) \in Nat
    PROVE  Cancelled \in Seq(FitHandlers)
<1>1. TimerDone(mOrderTimeout, TRUE) \in FitHandlers
  BY HandlersFit
<1>2. <<TimerDone(mOrderTimeout, TRUE)>> \in Seq(FitHandlers)
  BY <1>1, SingletonType
<1>3. <<>> \in Seq(FitHandlers)
  OBVIOUS
<1> QED BY <1>2, <1>3 DEF Cancelled

(* What an aborted wait for bytes queues has the type of the queue.          *)
LEMMA AbortedFits ==
    ASSUME reads \in Nat, Len(mReadBuffer) \in Nat
    PROVE  Aborted \in Seq(FitHandlers)
<1>1. ReadDone(0, TRUE) \in FitHandlers
  BY HandlersFit
<1>2. Aborted \in [1..reads -> FitHandlers]
  BY <1>1 DEF Aborted
<1> QED BY <1>2

(* Queueing the end of an order keeps the queue of handlers typed.           *)
LEMMA EndOrderFits ==
    ASSUME mOrderTimeout \in Nat, Len(mReadBuffer) \in Nat,
           NEW queue \in Seq(FitHandlers), EndOrder(queue)
    PROVE  mIos' \in Seq(FitHandlers)
<1>1. queue \o Cancelled \in Seq(FitHandlers)
  BY CancelledFits, ConcatProperties
<1>2. Append(queue \o Cancelled, StateMachine) \in Seq(FitHandlers)
  BY <1>1, HandlersFit, AppendProperties
<1> QED BY <1>2 DEF EndOrder

(* What the servos send back is a sequence of items of the line.             *)
LEMMA RepliesType ==
    ASSUME NEW order \in Orders, NEW n \in Nat, NEW q \in Replies(order, n)
    PROVE  q \in Seq(Items)
<1>1. PICK k \in 0..Cardinality(Servos) : q \in [1..k -> Statuses(order, n)]
  BY DEF Replies
<1>2. k \in Nat
  OBVIOUS
<1>3. Statuses(order, n) \subseteq Items
  BY DEF Statuses, Addressed, Items
<1>4. q \in [1..k -> Items]
  BY <1>1, <1>3
<1> QED BY <1>2, <1>4

(* The echo of an order is a packet.                                         *)
LEMMA EchoType ==
    ASSUME NEW order \in Orders, NEW n \in Nat
    PROVE  EchoOf(order, n) \in Seq(Items)
<1> DEFINE echo == [ins |-> order.ins, id |-> order.id, order |-> n]
<1>1. order.ins \in Instructions /\ order.id \in Servos \cup {BroadcastId}
  BY DEF Orders
<1>2. echo \in Items
  BY <1>1 DEF Items
<1>3. <<echo>> \in Seq(Items) /\ <<>> \in Seq(Items)
  BY <1>2
<1> QED BY <1>3 DEF EchoOf

(* Noise is an item of the line.                                             *)
LEMMA NoiseType == <<Noise>> \in Seq(Items)
<1>1. Noise \in Items
  BY DEF Noise, Items
<1> QED BY <1>1, SingletonType

(* Every step leaves a queue of handlers that fit the read buffer.           *)
LEMMA NextReadsFit == TypeInv /\ [Next]_vars => ReadsFit'
<1> SUFFICES ASSUME TypeInv, [Next]_vars PROVE ReadsFit'
  OBVIOUS
<1> USE DEF portVars, engineVars, readVars, historyVars
<1>1. /\ mIos \in Seq(FitHandlers) /\ mOrderTimeout \in Nat /\ reads \in Nat
      /\ mReadBuffer \in Seq(Items) /\ bus \in Seq(Items) /\ Len(mReadBuffer) \in Nat
  BY LenProperties DEF TypeInv, TypeOK, ReadsFit
<1>2. StateMachine \in FitHandlers
  BY <1>1, HandlersFit
<1>3. mIos # <<>> => Tail(mIos) \in Seq(FitHandlers)
  BY <1>1, HeadTailProperties
<1>4. /\ Append(mIos, StateMachine) \in Seq(FitHandlers)
      /\ mIos # <<>> => Append(Tail(mIos), StateMachine) \in Seq(FitHandlers)
  BY <1>1, <1>2, <1>3, AppendProperties
<1>5. mReadBuffer' = mReadBuffer => FitHandlers' = FitHandlers
  BY DEF FitHandlers
<1>6. ASSUME mReadBuffer' = mReadBuffer, mIos' \in Seq(FitHandlers) PROVE ReadsFit'
  BY <1>5, <1>6 DEF ReadsFit
<1>7. ASSUME NEW cmd, RegisterCommand(cmd) PROVE ReadsFit'
  BY <1>4, <1>6, <1>7 DEF RegisterCommand
<1>8. ASSUME mReadBuffer' = mReadBuffer, mIos' = mIos PROVE ReadsFit'
  BY <1>1, <1>6, <1>8
<1>9. CASE UserCommand \/ SendPing \/ ServoPull
  BY <1>7, <1>9 DEF UserCommand, SendPing, ServoPull
<1>10. CASE StartAlreadyOpened \/ StartOpens \/ StartReads \/ StartFails \/ StopThrows \/ Destroy
  BY <1>8, <1>10 DEF StartAlreadyOpened, StartOpens, StartReads, StartFails, StopThrows, Destroy
<1>11. CASE StopReturns
  <2>1. mIos \o Aborted \in Seq(FitHandlers)
    BY <1>1, AbortedFits, ConcatProperties
  <2> QED BY <1>6, <1>11, <2>1 DEF StopReturns
<1>12. CASE NoCommand \/ OrderRunning \/ ReadFailed \/ ReadReceivedData
  BY <1>3, <1>6, <1>12 DEF NoCommand, OrderRunning, ReadFailed, ReadReceivedData, Runs
<1>13. CASE NextCommand \/ CommandOver
  BY <1>4, <1>6, <1>13 DEF NextCommand, CommandOver, Runs
<1>14. CASE SendOrder
  <2>1. mIos # <<>> /\ mReadBuffer' = mReadBuffer /\ mIos' = Tail(mIos) \o Cancelled
    BY <1>14 DEF SendOrder, OrderReady, Runs, StartTimeout
  <2>2. Tail(mIos) \o Cancelled \in Seq(FitHandlers)
    BY <1>1, <1>3, <2>1, CancelledFits, ConcatProperties
  <2> QED BY <1>6, <2>1, <2>2
<1>15. CASE RunEndOrder
  BY <1>1, <1>3, <1>6, <1>15, EndOrderFits DEF RunEndOrder, Runs
<1>16. CASE WriteFails \/ ParseEnds \/ ParseWithoutOrder \/ Garble
  BY <1>8, <1>16 DEF WriteFails, ParseEnds, ParseWithoutOrder, Garble
<1>17. CASE ParsePacket
  <2> DEFINE packet == Head(mParseBuffer)
  <2>1. mReadBuffer' = mReadBuffer
    BY <1>17 DEF ParsePacket
  <2>2. ASSUME EndOrder(mIos) PROVE ReadsFit'
    BY <1>1, <1>6, <2>1, <2>2, EndOrderFits
  <2>3. EndOrder(mIos) \/ mIos' = mIos
    BY <1>17 DEF ParsePacket, ProcessPacket, ProcessPing, ProcessPull, ProcessPush
  <2> QED BY <1>8, <2>1, <2>2, <2>3
<1>18. CASE Expire
  <2>1. TimerDone(mOrderTimeout, FALSE) \in FitHandlers
    BY <1>1, HandlersFit
  <2>2. Append(mIos, TimerDone(mOrderTimeout, FALSE)) \in Seq(FitHandlers)
    BY <1>1, <2>1, AppendProperties
  <2> QED BY <1>6, <1>18, <2>2 DEF Expire
<1>19. CASE ReadError
  <2>1. ReadDone(0, TRUE) \in FitHandlers
    BY <1>1, HandlersFit
  <2>2. Append(mIos, ReadDone(0, TRUE)) \in Seq(FitHandlers)
    BY <1>1, <2>1, AppendProperties
  <2> QED BY <1>6, <1>19, <2>2 DEF ReadError
<1>20. ASSUME NEW n \in 1..MaxChunk, Receive(n) PROVE ReadsFit'
  <2>1. n \in Nat /\ n <= Len(bus)
    BY <1>20 DEF Receive
  <2>2. /\ SubSeq(bus, 1, n) \in Seq(Items) /\ Len(SubSeq(bus, 1, n)) = n
    BY <1>1, <2>1, SubSeqProperties, ElementOfSeq
  <2>3. /\ SubSeq(mReadBuffer, n + 1, Len(mReadBuffer)) \in Seq(Items)
        /\ Len(SubSeq(mReadBuffer, n + 1, Len(mReadBuffer)))
              = IF n + 1 <= Len(mReadBuffer) THEN Len(mReadBuffer) - n ELSE 0
    BY <1>1, <2>1, SubSeqProperties, ElementOfSeq
  <2>4. /\ Len(mReadBuffer') \in Nat
        /\ n <= Len(mReadBuffer') /\ Len(mReadBuffer) <= Len(mReadBuffer')
    BY <1>1, <1>20, <2>1, <2>2, <2>3, ConcatProperties, SMTT(30) DEF Receive
  <2>5. FitHandlers \subseteq FitHandlers'
    BY <1>1, <2>4 DEF FitHandlers, Handlers
  <2>6. mIos \in Seq(FitHandlers')
    BY <1>1, <2>5, SeqMonotonic
  <2>7. ReadDone(n, FALSE) \in FitHandlers'
    BY <2>1, <2>4 DEF FitHandlers, Handlers, ReadDone
  <2>8. Append(mIos, ReadDone(n, FALSE)) \in Seq(FitHandlers')
    BY <2>6, <2>7, AppendProperties
  <2> QED BY <1>20, <2>8 DEF Receive, ReadsFit
<1>21. CASE UNCHANGED vars
  BY <1>8, <1>21 DEF vars
<1> QED
  BY <1>9, <1>10, <1>11, <1>12, <1>13, <1>14, <1>15, <1>16, <1>17, <1>18, <1>19,
     <1>20, <1>21
  DEF Next, IoThread, CommandStateMachine, ReadHandler, User, Outside, Finished

(* Every step keeps the type of every other variable.                        *)
LEMMA NextTypeOK == TypeInv /\ [Next]_vars => TypeOK'
<1> SUFFICES ASSUME TypeInv, [Next]_vars PROVE TypeOK'
  OBVIOUS
<1> USE DEF portVars, engineVars, readVars, historyVars, Fault,
            PrepareAsyncRead
<1>a. TypeOK /\ Len(mReadBuffer) \in Nat
  BY LenProperties DEF TypeInv, TypeOK
<1>b. mIos' \in Seq(Handlers)
  <2>1. mIos' \in Seq(FitHandlers')
    BY NextReadsFit DEF ReadsFit
  <2>2. FitHandlers' \subseteq Handlers
    BY DEF FitHandlers
  <2> QED BY <2>1, <2>2, SeqMonotonic
<1>1. ASSUME NEW cmd \in Seq(Orders), RegisterCommand(cmd) PROVE TypeOK'
  BY <1>a, <1>b, <1>1, AppendProperties DEF TypeOK, RegisterCommand
<1>2. CASE UserCommand
  BY <1>1, <1>2, CommandsAssumption DEF UserCommand
<1>3. CASE SendPing
  <2>1. PingOrder \in Orders
    BY DEF PingOrder, Orders, Instructions
  <2> QED BY <1>1, <1>3, <2>1, SingletonType DEF SendPing
<1>4. CASE ServoPull
  <2>1. <<>> \in Seq(Orders)
    OBVIOUS
  <2> QED BY <1>1, <1>4, <2>1 DEF ServoPull
<1>5. CASE StartAlreadyOpened
  BY <1>a, <1>5 DEF TypeOK, StartAlreadyOpened
<1>6. CASE StartOpens
  BY <1>a, <1>6 DEF TypeOK, StartOpens
<1>6a. CASE StartReads
  BY <1>a, <1>6a DEF TypeOK, StartReads
<1>7. CASE StartFails
  BY <1>a, <1>7 DEF TypeOK, StartFails
<1>8. CASE StopThrows
  BY <1>a, <1>8 DEF TypeOK, StopThrows
<1>9. CASE StopReturns
  BY <1>a, <1>b, <1>9 DEF TypeOK, StopReturns
<1>10. CASE Destroy
  BY <1>a, <1>10 DEF TypeOK, Destroy
<1>11. CASE NoCommand
  BY <1>a, <1>b, <1>11 DEF TypeOK, NoCommand
<1>12. CASE NextCommand
  <2>1. Head(mCommandQueue) \in Seq(Orders) /\ Tail(mCommandQueue) \in Seq(Seq(Orders))
    BY <1>a, <1>12, HeadTailProperties DEF TypeOK, NextCommand
  <2> QED BY <1>a, <1>b, <1>12, <2>1 DEF TypeOK, NextCommand
<1>13. CASE OrderRunning
  BY <1>a, <1>b, <1>13 DEF TypeOK, OrderRunning
<1>14. CASE CommandOver
  <2>1. /\ mCommandInProcess' \in BOOLEAN /\ ended' = ended + 1
        /\ UNCHANGED <<portVars, readVars, registered, wire, process, bus, faults,
                       mOrderInProcess, mCommandQueue, mOrderCurrent, mCommandCurrent,
                       mOrderTimeout, mPingResult>>
    BY <1>14 DEF CommandOver
  <2> QED BY <1>a, <1>b, <2>1 DEF TypeOK
<1>15. CASE SendOrder
  <2> DEFINE order == Head(mCommandCurrent)
             n == Len(wire) + 1
  <2>1. order \in Orders /\ Tail(mCommandCurrent) \in Seq(Orders)
    BY <1>a, <1>15, HeadTailProperties DEF TypeOK, SendOrder, OrderReady
  <2>2. n \in Nat /\ wire' \in Seq(Orders)
    BY <1>a, <1>15, <2>1, AppendProperties, LenProperties DEF TypeOK, SendOrder
  <2>3. bus' \in Seq(Items)
    <3> DEFINE line == IF LateAnswers THEN bus ELSE <<>>
    <3>1. \/ \E q \in Replies(order, n) : bus' = line \o EchoOf(order, n) \o q
          \/ bus' = line \o (IF Echo THEN <<Noise>> ELSE <<>>)
      BY <1>15 DEF SendOrder, Written
    <3>2. line \in Seq(Items)
      BY <1>a DEF TypeOK
    <3> HIDE DEF line
    <3>3. CASE \E q \in Replies(order, n) : bus' = line \o EchoOf(order, n) \o q
      <4>1. PICK q \in Replies(order, n) : bus' = line \o EchoOf(order, n) \o q
        BY <3>3
      <4>2. q \in Seq(Items) /\ EchoOf(order, n) \in Seq(Items)
        BY <2>1, <2>2, RepliesType, EchoType
      <4> QED BY <4>1, <4>2, <3>2, ConcatProperties
    <3>4. CASE bus' = line \o (IF Echo THEN <<Noise>> ELSE <<>>)
      <4>1. (IF Echo THEN <<Noise>> ELSE <<>>) \in Seq(Items)
        BY NoiseType
      <4> QED BY <3>2, <3>4, <4>1, ConcatProperties
    <3> QED BY <3>1, <3>3, <3>4
  <2>4. mPingResult' \in Seq(Answer)
    BY <1>a, <1>15 DEF TypeOK, SendOrder, ClearPingResult
  <2>5. /\ mOrderCurrent' \in Orders /\ mCommandCurrent' \in Seq(Orders)
        /\ mOrderTimeout' \in Nat
    BY <1>15, <2>1, <2>2 DEF SendOrder, StartTimeout
  <2>6. faults' \in Nat
    <3>1. faults' = faults \/ faults' = faults + 1
      BY <1>15 DEF SendOrder, Written
    <3> QED BY <1>a, <3>1 DEF TypeOK
  <2> HIDE DEF order, n
  <2> QED BY <1>a, <1>b, <1>15, <2>2, <2>3, <2>4, <2>5, <2>6 DEF TypeOK, SendOrder
<1>16. CASE WriteFails
  BY <1>a, <1>16 DEF TypeOK, WriteFails
<1>17. CASE RunEndOrder
  <2>1. /\ mOrderInProcess' \in BOOLEAN /\ mOrderTimeout' = 0
        /\ UNCHANGED <<portVars, readVars, historyVars, process, bus, faults,
                       mCommandInProcess, mCommandQueue, mOrderCurrent,
                       mCommandCurrent, mPingResult>>
    BY <1>17 DEF RunEndOrder, EndOrder
  <2> QED BY <1>a, <1>b, <2>1 DEF TypeOK
<1>18. CASE ReadFailed
  BY <1>a, <1>b, <1>18 DEF TypeOK, ReadFailed
<1>19. CASE ReadReceivedData
  <2>1. Head(mIos).n \in Nat /\ Head(mIos).n <= Len(mReadBuffer)
    <3>1. Head(mIos) \in FitHandlers /\ Head(mIos).h = "readReceivedData"
      BY <1>19, HeadTailProperties DEF TypeInv, ReadsFit, ReadReceivedData, Runs
    <3> QED BY <3>1 DEF FitHandlers, Handlers
  <2>2. Received(Head(mIos).n) \in Seq(Items)
    BY <1>a, <2>1, SubSeqProperties, ElementOfSeq DEF Received, TypeOK
  <2>3. mParseBuffer' \in Seq(Items)
    BY <1>a, <1>19, <2>2, ConcatProperties DEF TypeOK, ReadReceivedData
  <2> QED BY <1>a, <1>b, <1>19, <2>3 DEF TypeOK, ReadReceivedData
<1>20. CASE ParseEnds
  <2>1. mParseBuffer' \in Seq(Items)
    BY <1>a, <1>20, HeadTailProperties DEF TypeOK, ParseEnds
  <2> QED BY <1>a, <1>20, <2>1 DEF TypeOK, ParseEnds
<1>21. CASE ParseWithoutOrder
  BY <1>a, <1>21 DEF TypeOK, ParseWithoutOrder
<1>22. CASE ParsePacket
  <2> DEFINE packet == Head(mParseBuffer)
  <2>1. packet \in Items /\ Tail(mParseBuffer) \in Seq(Items)
    BY <1>a, <1>22, HeadTailProperties DEF TypeOK, ParsePacket, PacketNext
  <2>2. IsStatus(packet) => [id |-> packet.id, order |-> packet.order] \in Answer
    BY <2>1 DEF Items, IsStatus, Answer, Instructions
  <2>3. mPingResult \in Seq(Answer)
    BY <1>a DEF TypeOK
  <2>4. IsStatus(packet) =>
          Append(mPingResult, [id |-> packet.id, order |-> packet.order]) \in Seq(Answer)
    BY <2>2, <2>3, AppendProperties
  <2> HIDE DEF packet
  <2>5. /\ mPingResult' \in Seq(Answer)
        /\ mOrderInProcess' \in BOOLEAN /\ mOrderTimeout' \in Nat
    <3>1. CASE ProcessPing(packet)
      BY <1>a, <2>3, <2>4, <3>1 DEF TypeOK, ProcessPing
    <3>2. CASE ProcessPush(packet)
      <4>1. /\ mPingResult' = mPingResult
            /\ \/ mOrderInProcess' \in BOOLEAN /\ mOrderTimeout' = 0
               \/ UNCHANGED <<mOrderInProcess, mOrderTimeout>>
        BY <3>2 DEF ProcessPush, EndOrder
      <4> QED BY <1>a, <2>3, <4>1 DEF TypeOK
    <3>3. CASE ProcessPull(packet)
      BY <1>a, <2>3, <3>3 DEF TypeOK, ProcessPull
    <3> QED BY <1>22, <3>1, <3>2, <3>3 DEF ParsePacket, ProcessPacket, packet
  <2> QED BY <1>a, <1>b, <1>22, <2>1, <2>5 DEF TypeOK, ParsePacket, packet
<1>23. CASE Expire
  <2>1. /\ mOrderTimeout' = 0
        /\ UNCHANGED <<portVars, readVars, historyVars, process, bus, faults,
                       mOrderInProcess, mCommandInProcess, mCommandQueue,
                       mOrderCurrent, mCommandCurrent, mPingResult>>
    BY <1>23 DEF Expire
  <2> QED BY <1>a, <1>b, <2>1 DEF TypeOK
<1>24. ASSUME NEW n \in 1..MaxChunk, Receive(n) PROVE TypeOK'
  <2>1. n \in Nat /\ n <= Len(bus)
    BY <1>24 DEF Receive
  <2>2. SubSeq(bus, 1, n) \in Seq(Items) /\ SubSeq(bus, n + 1, Len(bus)) \in Seq(Items)
    BY <1>a, <2>1, SubSeqProperties, ElementOfSeq, LenProperties DEF TypeOK
  <2>3. SubSeq(mReadBuffer, n + 1, Len(mReadBuffer)) \in Seq(Items)
    BY <1>a, <2>1, SubSeqProperties, ElementOfSeq DEF TypeOK
  <2>4. mReadBuffer' \in Seq(Items) /\ bus' \in Seq(Items)
    BY <1>24, <2>2, <2>3, ConcatProperties DEF Receive
  <2>5. /\ reads > 0 /\ reads' = reads - 1
        /\ UNCHANGED <<portVars, engineVars, historyVars, process, faults,
                       mPortErrors, mParseBuffer, mCommandMutex>>
    BY <1>24 DEF Receive
  <2> QED BY <1>a, <1>b, <2>4, <2>5 DEF TypeOK
<1>25. CASE ReadError
  <2>1. /\ reads > 0 /\ reads' = reads - 1 /\ faults' = faults + 1
        /\ UNCHANGED <<portVars, engineVars, historyVars, process, bus,
                       mPortErrors, mReadBuffer, mParseBuffer, mCommandMutex>>
    BY <1>25 DEF ReadError
  <2> QED BY <1>a, <1>b, <2>1 DEF TypeOK
<1>26. CASE Garble
  <2>1. PICK i \in 0..Len(bus) :
           bus' = SubSeq(bus, 1, i) \o <<Noise>> \o SubSeq(bus, i + 1, Len(bus))
    BY <1>26 DEF Garble
  <2>2. bus \in Seq(Items) /\ Len(bus) \in Nat
    BY <1>a, LenProperties DEF TypeOK
  <2>3. SubSeq(bus, 1, i) \in Seq(Items) /\ SubSeq(bus, i + 1, Len(bus)) \in Seq(Items)
    BY <2>2, SubSeqProperties, ElementOfSeq
  <2>4. bus' \in Seq(Items)
    BY <2>1, <2>3, NoiseType, ConcatProperties
  <2> QED BY <1>a, <1>26, <2>4 DEF TypeOK, Garble
<1>27. CASE UNCHANGED vars
  BY <1>a, <1>27 DEF TypeOK, vars
<1> QED
  BY <1>2, <1>3, <1>4, <1>5, <1>6, <1>6a, <1>7, <1>8, <1>9, <1>10, <1>11, <1>12, <1>13,
     <1>14, <1>15, <1>16, <1>17, <1>18, <1>19, <1>20, <1>21, <1>22, <1>23, <1>24,
     <1>25, <1>26, <1>27
  DEF Next, IoThread, CommandStateMachine, ReadHandler, User, Outside, Finished

(* The types hold at the start.                                              *)
LEMMA InitTypeInv == Init => TypeInv
<1> SUFFICES ASSUME Init PROVE TypeInv
  OBVIOUS
<1>1. \A S : <<>> \in Seq(S)
  OBVIOUS
<1> QED BY <1>1, StaleAssumption DEF Init, TypeInv, TypeOK, ReadsFit

(* The type of every variable is kept by every handler, every call of the    *)
(* user and every event outside, whatever the servos, commands and bounds.   *)
THEOREM TypeCorrect == Spec => []TypeOK
<1>1. TypeInv /\ [Next]_vars => TypeInv'
  BY NextReadsFit, NextTypeOK DEF TypeInv
<1>2. TypeInv => TypeOK
  BY DEF TypeInv
<1> QED BY InitTypeInv, <1>1, <1>2, PTL DEF Spec
-----------------------------------------------------------------------------
(* What stays queued when handlers are appended or one is taken.             *)
LEMMA HasAppend ==
    ASSUME NEW queue \in Seq(Handlers), NEW e \in Handlers, NEW h
    PROVE  /\ HasHandler(queue, h) => HasHandler(Append(queue, e), h)
           /\ e.h = h => HasHandler(Append(queue, e), h)
<1>1. /\ Append(queue, e) \in Seq(Handlers) /\ Len(Append(queue, e)) = Len(queue) + 1
      /\ \A i \in 1..Len(queue) : Append(queue, e)[i] = queue[i]
      /\ Append(queue, e)[Len(queue) + 1] = e
  BY AppendProperties
<1>2. /\ DOMAIN queue = 1..Len(queue) /\ Len(queue) \in Nat
      /\ DOMAIN Append(queue, e) = 1..(Len(queue) + 1)
  BY <1>1, LenProperties
<1>3. \A i \in DOMAIN queue : i \in DOMAIN Append(queue, e)
  BY <1>2
<1>4. Len(queue) + 1 \in DOMAIN Append(queue, e)
  BY <1>2
<1> QED BY <1>1, <1>2, <1>3, <1>4 DEF HasHandler

(* A handler in a queue is still there when more are queued behind it.       *)
LEMMA HasConcat ==
    ASSUME NEW queue \in Seq(Handlers), NEW more \in Seq(Handlers), NEW h,
           HasHandler(queue, h)
    PROVE  HasHandler(queue \o more, h)
<1>1. /\ queue \o more \in Seq(Handlers)
      /\ Len(queue \o more) = Len(queue) + Len(more)
      /\ \A i \in 1..Len(queue) + Len(more) :
            (queue \o more)[i] = IF i <= Len(queue) THEN queue[i] ELSE more[i - Len(queue)]
  BY ConcatProperties
<1>2. /\ DOMAIN queue = 1..Len(queue) /\ Len(queue) \in Nat /\ Len(more) \in Nat
      /\ DOMAIN (queue \o more) = 1..(Len(queue) + Len(more))
  BY <1>1, LenProperties
<1>3. PICK i \in DOMAIN queue : queue[i].h = h
  BY DEF HasHandler
<1>4. i \in DOMAIN (queue \o more) /\ (queue \o more)[i] = queue[i]
  BY <1>1, <1>2, <1>3
<1> QED BY <1>3, <1>4 DEF HasHandler

(* A handler in a queue is still there when another one is taken from it.    *)
LEMMA HasTail ==
    ASSUME NEW queue \in Seq(Handlers), queue # <<>>, NEW h, HasHandler(queue, h),
           Head(queue).h # h
    PROVE  HasHandler(Tail(queue), h)
<1>1. /\ Tail(queue) \in Seq(Handlers) /\ Len(Tail(queue)) = Len(queue) - 1
      /\ \A i \in 1..Len(Tail(queue)) : Tail(queue)[i] = queue[i + 1]
  BY HeadTailProperties
<1>2. /\ DOMAIN queue = 1..Len(queue) /\ Len(queue) \in Nat
      /\ DOMAIN Tail(queue) = 1..(Len(queue) - 1)
  BY <1>1, LenProperties
<1>3. PICK i \in DOMAIN queue : queue[i].h = h
  BY DEF HasHandler
<1>4. i # 1
  BY <1>3
<1>5. i - 1 \in DOMAIN Tail(queue) /\ Tail(queue)[i - 1] = queue[i]
  BY <1>1, <1>2, <1>3, <1>4
<1> QED BY <1>3, <1>5 DEF HasHandler

(* The step of endOrder leaves no order in process and a state machine       *)
(* queued, and takes nothing from the queue it is given.                     *)
LEMMA EndOrderQueues ==
    ASSUME mOrderTimeout \in Nat, NEW queue \in Seq(Handlers), EndOrder(queue)
    PROVE  /\ ~mOrderInProcess'
           /\ Queued("commandStateMachine")'
           /\ \A h : HasHandler(queue, h) => Queued(h)'
<1>1. TimerDone(mOrderTimeout, TRUE) \in Handlers /\ StateMachine \in Handlers
  BY DEF TimerDone, StateMachine, Handlers
<1>2. <<TimerDone(mOrderTimeout, TRUE)>> \in Seq(Handlers)
  BY <1>1, SingletonType
<1>3. Cancelled \in Seq(Handlers)
  <2>1. <<>> \in Seq(Handlers)
    OBVIOUS
  <2> QED BY <1>2, <2>1 DEF Cancelled
<1>4. queue \o Cancelled \in Seq(Handlers)
  BY <1>3, ConcatProperties
<1>5. StateMachine.h = "commandStateMachine"
  BY DEF StateMachine
<1>6. mIos' = Append(queue \o Cancelled, StateMachine) /\ ~mOrderInProcess'
  BY DEF EndOrder
<1>7. HasHandler(mIos', "commandStateMachine")
  BY <1>1, <1>4, <1>5, <1>6, HasAppend
<1>8. ASSUME NEW h, HasHandler(queue, h) PROVE HasHandler(mIos', h)
  BY <1>1, <1>3, <1>4, <1>6, <1>8, HasConcat, HasAppend
<1> QED BY <1>6, <1>7, <1>8 DEF Queued

(* No step loses a wakeup.                                                   *)
LEMMA NextNoLostWakeup == TypeInv /\ NoLostWakeup /\ [Next]_vars => NoLostWakeup'
<1> SUFFICES ASSUME TypeInv, NoLostWakeup, [Next]_vars PROVE NoLostWakeup'
  OBVIOUS
<1> USE DEF engineVars, NoLostWakeup, OrderWillEnd, CommandWillRun
<1>1. /\ mIos \in Seq(Handlers) /\ mOrderTimeout \in Nat /\ reads \in Nat
      /\ mOrderInProcess \in BOOLEAN /\ mCommandInProcess \in BOOLEAN
  BY DEF TypeInv, TypeOK
<1>2. StateMachine \in Handlers /\ StateMachine.h = "commandStateMachine"
  BY DEF StateMachine, Handlers
<1>3. mIos # <<>> => Tail(mIos) \in Seq(Handlers)
  BY <1>1, HeadTailProperties
<1>4. ASSUME UNCHANGED engineVars,
             \A h : HasHandler(mIos, h) => HasHandler(mIos', h)
      PROVE  NoLostWakeup'
  BY <1>4 DEF Queued
<1>5. ASSUME NEW cmd, RegisterCommand(cmd) PROVE NoLostWakeup'
  <2>1. mIos' = Append(mIos, StateMachine)
    BY <1>5 DEF RegisterCommand
  <2>2. /\ Queued("commandStateMachine")'
        /\ \A h : HasHandler(mIos, h) => HasHandler(mIos', h)
    BY <1>1, <1>2, <2>1, HasAppend DEF Queued
  <2>3. UNCHANGED <<mOrderInProcess, mCommandInProcess, mOrderTimeout>>
    BY <1>5 DEF RegisterCommand
  <2> QED BY <2>2, <2>3 DEF Queued
<1>6. CASE UserCommand \/ SendPing \/ ServoPull
  BY <1>5, <1>6 DEF UserCommand, SendPing, ServoPull
<1>7. CASE \/ StartAlreadyOpened \/ StartOpens \/ StartReads \/ StartFails \/ StopThrows \/ Destroy
           \/ WriteFails \/ ParseEnds \/ ParseWithoutOrder \/ Garble
  BY <1>4, <1>7 DEF StartAlreadyOpened, StartOpens, StartReads, StartFails, StopThrows, Destroy,
                    WriteFails, ParseEnds, ParseWithoutOrder, Garble
<1>8. CASE StopReturns
  <2>1. ReadDone(0, TRUE) \in Handlers
    BY DEF ReadDone, Handlers
  <2>2. Aborted \in [1..reads -> Handlers]
    BY <2>1 DEF Aborted
  <2>3. Aborted \in Seq(Handlers)
    BY <1>1, <2>2
  <2>4. \A h : HasHandler(mIos, h) => HasHandler(mIos \o Aborted, h)
    BY <1>1, <2>3, HasConcat
  <2> QED BY <1>4, <1>8, <2>4 DEF StopReturns
<1>9. CASE NoCommand
  <2>1. /\ ~mCommandInProcess' /\ mCommandQueue' = <<>>
        /\ mIos' = Tail(mIos) /\ mIos # <<>> /\ Head(mIos).h = "commandStateMachine"
        /\ UNCHANGED <<mOrderInProcess, mOrderTimeout>>
    BY <1>9 DEF NoCommand, Runs
  <2>2. Queued("endOrder") => Queued("endOrder")'
    BY <1>1, <2>1, HasTail DEF Queued
  <2> QED BY <2>1, <2>2
<1>10. CASE OrderRunning
  <2>1. /\ mOrderInProcess'
        /\ mIos' = Tail(mIos) /\ mIos # <<>> /\ Head(mIos).h = "commandStateMachine"
        /\ UNCHANGED <<mOrderInProcess, mOrderTimeout>>
    BY <1>10 DEF OrderRunning, Runs
  <2>2. Queued("endOrder") => Queued("endOrder")'
    BY <1>1, <2>1, HasTail DEF Queued
  <2> QED BY <2>1, <2>2
<1>11. CASE NextCommand \/ CommandOver
  <2>1. /\ mIos # <<>> /\ Head(mIos).h = "commandStateMachine"
        /\ mIos' = Append(Tail(mIos), StateMachine)
        /\ UNCHANGED <<mOrderInProcess, mOrderTimeout>>
    BY <1>11 DEF NextCommand, CommandOver, Runs
  <2>2. Queued("commandStateMachine")'
    BY <1>2, <1>3, <2>1, HasAppend DEF Queued
  <2>3. Queued("endOrder") => Queued("endOrder")'
    BY <1>1, <1>2, <1>3, <2>1, HasTail, HasAppend DEF Queued
  <2> QED BY <2>1, <2>2, <2>3
<1>12. CASE SendOrder
  <2>1. /\ mOrderInProcess' /\ mOrderTimeout' = Len(wire) + 1
    BY <1>12 DEF SendOrder, StartTimeout
  <2>2. Len(wire) \in Nat
    BY LenProperties DEF TypeInv, TypeOK
  <2> QED BY <2>1, <2>2
<1>13. CASE RunEndOrder
  <2>1. mIos # <<>> /\ EndOrder(Tail(mIos))
    BY <1>13 DEF RunEndOrder, Runs
  <2> QED BY <1>1, <1>3, <2>1, EndOrderQueues
<1>14. CASE ReadFailed \/ ReadReceivedData
  <2>1. /\ mIos # <<>> /\ Head(mIos).h = "readReceivedData" /\ mIos' = Tail(mIos)
        /\ UNCHANGED engineVars
    BY <1>14 DEF ReadFailed, ReadReceivedData, Runs
  <2>2. /\ Queued("endOrder") => Queued("endOrder")'
        /\ Queued("commandStateMachine") => Queued("commandStateMachine")'
    BY <1>1, <2>1, HasTail DEF Queued
  <2> QED BY <2>1, <2>2
<1>15. CASE ParsePacket
  <2>1. EndOrder(mIos) \/ UNCHANGED <<mIos, mOrderInProcess, mOrderTimeout>>
    BY <1>15 DEF ParsePacket, ProcessPacket, ProcessPing, ProcessPull, ProcessPush
  <2>2. UNCHANGED <<mCommandInProcess, mCommandQueue>>
    BY <1>15 DEF ParsePacket
  <2>3. CASE EndOrder(mIos)
    BY <1>1, <2>3, EndOrderQueues
  <2>4. CASE UNCHANGED <<mIos, mOrderInProcess, mOrderTimeout>>
    BY <2>2, <2>4 DEF Queued
  <2> QED BY <2>1, <2>3, <2>4
<1>16. CASE Expire
  <2>1. TimerDone(mOrderTimeout, FALSE) \in Handlers
    BY <1>1 DEF TimerDone, Handlers
  <2>2. TimerDone(mOrderTimeout, FALSE).h = "endOrder"
    BY DEF TimerDone
  <2>3. /\ mIos' = Append(mIos, TimerDone(mOrderTimeout, FALSE))
        /\ UNCHANGED <<mOrderInProcess, mCommandInProcess, mCommandQueue>>
    BY <1>16 DEF Expire
  <2>4. /\ Queued("endOrder")'
        /\ Queued("commandStateMachine") => Queued("commandStateMachine")'
    BY <1>1, <2>1, <2>2, <2>3, HasAppend DEF Queued
  <2> QED BY <2>3, <2>4
<1>17. ASSUME NEW e \in Handlers, mIos' = Append(mIos, e), UNCHANGED engineVars
       PROVE  NoLostWakeup'
  <2>1. \A h : HasHandler(mIos, h) => HasHandler(mIos', h)
    BY <1>1, <1>17, HasAppend
  <2> QED BY <1>4, <1>17, <2>1
<1>18. CASE ReadError
  <2>1. ReadDone(0, TRUE) \in Handlers
    BY DEF ReadDone, Handlers
  <2> QED BY <1>17, <1>18, <2>1 DEF ReadError
<1>19. ASSUME NEW n \in 1..MaxChunk, Receive(n) PROVE NoLostWakeup'
  <2>1. ReadDone(n, FALSE) \in Handlers
    BY DEF ReadDone, Handlers
  <2> QED BY <1>17, <1>19, <2>1 DEF Receive
<1>20. CASE UNCHANGED vars
  BY <1>4, <1>20 DEF vars
<1> QED
  BY <1>6, <1>7, <1>8, <1>9, <1>10, <1>11, <1>12, <1>13, <1>14, <1>15, <1>16,
     <1>18, <1>19, <1>20
  DEF Next, IoThread, CommandStateMachine, ReadHandler, User, Outside, Finished

(* An order in process is always ended by a timer that is pending or by a    *)
(* handler that is queued, and a command that is queued or in process always *)
(* has a state machine to come: through every interleaving of answers,       *)
(* timeouts, errors, restarts and calls of the user.                         *)
THEOREM WakeupKept == Spec => []NoLostWakeup
<1>1. Init => NoLostWakeup
  BY DEF Init, NoLostWakeup, OrderWillEnd, CommandWillRun
<1>2. TypeInv /\ [Next]_vars => TypeInv'
  BY NextReadsFit, NextTypeOK DEF TypeInv
<1> QED BY <1>1, <1>2, InitTypeInv, NextNoLostWakeup, PTL DEF Spec

(* An order in process always ends, by its timer or by a queued endOrder.    *)
THEOREM OrderAlwaysEnds == Spec => []OrderWillEnd
<1>1. NoLostWakeup => OrderWillEnd
  BY DEF NoLostWakeup
<1> QED BY <1>1, WakeupKept, PTL

(* A command in process or queued always has an order in process or a queued *)
(* commandStateMachine.                                                      *)
THEOREM CommandAlwaysRuns == Spec => []CommandWillRun
<1>1. NoLostWakeup => CommandWillRun
  BY DEF NoLostWakeup
<1> QED BY <1>1, WakeupKept, PTL
-----------------------------------------------------------------------------
(* A thread is joinable only over an open port: kept by start, which creates *)
(* it last, and by both outcomes of stop.                                    *)
LEMMA NextThreadHasPort == TypeOK /\ ThreadHasPort /\ [Next]_vars => ThreadHasPort'
<1> SUFFICES ASSUME TypeOK, ThreadHasPort, [Next]_vars PROVE ThreadHasPort'
  OBVIOUS
<1> USE DEF ThreadHasPort
<1>1. ASSUME UNCHANGED <<mPort, mIosThread>> PROVE ThreadHasPort'
  BY <1>1
<1>2. ASSUME NEW cmd, RegisterCommand(cmd) PROVE ThreadHasPort'
  BY <1>1, <1>2 DEF RegisterCommand, portVars
<1>3. CASE UserCommand \/ SendPing \/ ServoPull
  BY <1>2, <1>3 DEF UserCommand, SendPing, ServoPull
<1>4. CASE StartAlreadyOpened \/ Destroy
  BY <1>1, <1>4 DEF StartAlreadyOpened, Destroy, portVars
<1>5. CASE StartOpens \/ StartReads \/ StartFails
  BY <1>5 DEF StartOpens, StartReads, StartFails
<1>6. CASE StopThrows \/ StopReturns
  BY <1>6 DEF StopThrows, StopReturns
<1>7. CASE CommandStateMachine \/ RunEndOrder
  BY <1>1, <1>7 DEF CommandStateMachine, NoCommand, NextCommand, OrderRunning,
                    CommandOver, SendOrder, WriteFails, RunEndOrder, portVars
<1>8. CASE ReadHandler
  BY <1>1, <1>8 DEF ReadHandler, ReadFailed, ReadReceivedData, ParseEnds,
                    ParseWithoutOrder, ParsePacket, portVars
<1>9. CASE Outside
  BY <1>1, <1>9 DEF Outside, Expire, Receive, ReadError, Garble, portVars
<1>10. CASE UNCHANGED vars
  BY <1>1, <1>10 DEF vars, portVars
<1> QED
  BY <1>3, <1>4, <1>5, <1>6, <1>7, <1>8, <1>9, <1>10
  DEF Next, IoThread, User, Finished

(* The thread never runs without its port.                                   *)
THEOREM ThreadKeepsPort == Spec => []ThreadHasPort
<1>1. Init => ThreadHasPort
  BY DEF Init, ThreadHasPort
<1> QED BY <1>1, TypeCorrect, NextThreadHasPort, PTL DEF Spec

(* Every step of a running service keeps a read requested, completed and     *)
(* queued, or being parsed.                                                  *)
LEMMA NextReadLoopAlive ==
    TypeInv /\ ThreadHasPort /\ ReadLoopAlive /\ [Next]_vars => ReadLoopAlive'
<1> SUFFICES ASSUME TypeInv, ThreadHasPort, ReadLoopAlive, [Next]_vars
             PROVE  ReadLoopAlive'
  OBVIOUS
<1> USE DEF ReadLoopAlive, Running
<1>1. /\ mIos \in Seq(Handlers) /\ mOrderTimeout \in Nat /\ reads \in Nat
      /\ mIosStopped \in BOOLEAN
  BY DEF TypeInv, TypeOK
<1>2. mIos # <<>> => Tail(mIos) \in Seq(Handlers)
  BY <1>1, HeadTailProperties
<1>3. StateMachine \in Handlers
  BY DEF StateMachine, Handlers
<1>4. ASSUME Running' => Running, UNCHANGED <<reads, mCommandMutex>>,
             lastCall = "starting" => lastCall' = lastCall,
             Queued("readReceivedData") => Queued("readReceivedData")'
      PROVE  ReadLoopAlive'
  BY <1>4
<1>5. ASSUME mIos' = mIos PROVE Queued("readReceivedData")' = Queued("readReceivedData")
  BY <1>5 DEF Queued
<1>6. ASSUME NEW cmd, RegisterCommand(cmd) PROVE ReadLoopAlive'
  <2>1. /\ mIos' = Append(mIos, StateMachine)
        /\ UNCHANGED <<reads, mCommandMutex, mPort, mIosThread, mIosStopped, process,
                       lastCall>>
    BY <1>6 DEF RegisterCommand, readVars, portVars
  <2>2. Queued("readReceivedData") => Queued("readReceivedData")'
    BY <1>1, <1>3, <2>1, HasAppend DEF Queued
  <2> QED BY <1>4, <2>1, <2>2
<1>7. CASE UserCommand \/ SendPing \/ ServoPull
  BY <1>6, <1>7 DEF UserCommand, SendPing, ServoPull
<1>8. CASE StartAlreadyOpened \/ Garble
  BY <1>4, <1>5, <1>8 DEF StartAlreadyOpened, UserIdle, Garble, readVars, portVars
<1>9. CASE StartOpens \/ StartReads
  BY <1>1, <1>9 DEF StartOpens, StartReads, PrepareAsyncRead
<1>10. CASE StartFails
  <2>1. mIosThread' # "joinable"
    BY <1>10 DEF StartFails, ThreadHasPort
  <2> QED BY <2>1
<1>11. CASE StopThrows \/ StopReturns \/ Destroy \/ WriteFails \/ ParseWithoutOrder
  <2>1. ~Running'
    BY <1>11 DEF StopThrows, StopReturns, Destroy, WriteFails, ParseWithoutOrder
  <2> QED BY <2>1
<1>12. CASE NoCommand \/ OrderRunning
  <2>1. /\ mIos # <<>> /\ Head(mIos).h = "commandStateMachine" /\ mIos' = Tail(mIos)
        /\ UNCHANGED <<reads, mCommandMutex, mPort, mIosThread, mIosStopped, process,
                       lastCall>>
    BY <1>12 DEF NoCommand, OrderRunning, Runs, readVars, portVars
  <2>2. Queued("readReceivedData") => Queued("readReceivedData")'
    BY <1>1, <2>1, HasTail DEF Queued
  <2> QED BY <1>4, <2>1, <2>2
<1>13. CASE NextCommand \/ CommandOver
  <2>1. /\ mIos # <<>> /\ Head(mIos).h = "commandStateMachine"
        /\ mIos' = Append(Tail(mIos), StateMachine)
        /\ UNCHANGED <<reads, mCommandMutex, mPort, mIosThread, mIosStopped, process,
                       lastCall>>
    BY <1>13 DEF NextCommand, CommandOver, Runs, readVars, portVars
  <2>2. Queued("readReceivedData") => Queued("readReceivedData")'
    BY <1>1, <1>2, <1>3, <2>1, HasTail, HasAppend DEF Queued
  <2> QED BY <1>4, <2>1, <2>2
<1>14. TimerDone(mOrderTimeout, TRUE) \in Handlers /\ TimerDone(mOrderTimeout, FALSE) \in Handlers
  BY <1>1 DEF TimerDone, Handlers
<1>15. Cancelled \in Seq(Handlers)
  <2>1. <<TimerDone(mOrderTimeout, TRUE)>> \in Seq(Handlers)
    BY <1>14, SingletonType
  <2>2. <<>> \in Seq(Handlers)
    OBVIOUS
  <2> QED BY <2>1, <2>2 DEF Cancelled
<1>16. CASE SendOrder
  <2>1. /\ mIos # <<>> /\ Head(mIos).h = "commandStateMachine"
        /\ mIos' = Tail(mIos) \o Cancelled
        /\ UNCHANGED <<reads, mCommandMutex, mPort, mIosThread, mIosStopped, process,
                       lastCall>>
    BY <1>16 DEF SendOrder, OrderReady, StartTimeout, Runs, readVars, portVars
  <2>2. Queued("readReceivedData") => Queued("readReceivedData")'
    BY <1>1, <1>2, <1>15, <2>1, HasTail, HasConcat DEF Queued
  <2> QED BY <1>4, <2>1, <2>2
<1>17. CASE RunEndOrder
  <2>1. /\ mIos # <<>> /\ Head(mIos).h = "endOrder" /\ EndOrder(Tail(mIos))
        /\ UNCHANGED <<reads, mCommandMutex, mPort, mIosThread, mIosStopped, process,
                       lastCall>>
    BY <1>17 DEF RunEndOrder, Runs, readVars, portVars
  <2>2. Queued("readReceivedData") => Queued("readReceivedData")'
    BY <1>1, <1>2, <2>1, HasTail, EndOrderQueues DEF Queued
  <2> QED BY <1>4, <2>1, <2>2
<1>18. CASE ReadFailed
  <2>1. process' # "up" \/ reads' = reads + 1
    BY <1>18 DEF ReadFailed, PrepareAsyncRead
  <2> QED BY <1>1, <2>1
<1>19. CASE ReadReceivedData
  BY <1>19 DEF ReadReceivedData
<1>20. CASE ParseEnds
  BY <1>1, <1>20 DEF ParseEnds, PrepareAsyncRead
<1>21. CASE ParsePacket
  <2>1. UNCHANGED <<reads, mCommandMutex, mPort, mIosThread, mIosStopped, process,
                       lastCall>>
    BY <1>21 DEF ParsePacket, portVars
  <2>2. EndOrder(mIos) \/ mIos' = mIos
    BY <1>21 DEF ParsePacket, ProcessPacket, ProcessPing, ProcessPull, ProcessPush
  <2>3. Queued("readReceivedData") => Queued("readReceivedData")'
    BY <1>1, <1>5, <2>2, EndOrderQueues DEF Queued
  <2> QED BY <1>4, <2>1, <2>3
<1>22. CASE Expire
  <2>1. /\ mIos' = Append(mIos, TimerDone(mOrderTimeout, FALSE))
        /\ UNCHANGED <<reads, mCommandMutex, mPort, mIosThread, mIosStopped, process,
                       lastCall>>
    BY <1>22 DEF Expire, readVars, portVars
  <2>2. Queued("readReceivedData") => Queued("readReceivedData")'
    BY <1>1, <1>14, <2>1, HasAppend DEF Queued
  <2> QED BY <1>4, <2>1, <2>2
<1>23. ASSUME NEW n \in Nat, NEW ec \in BOOLEAN, mIos' = Append(mIos, ReadDone(n, ec))
       PROVE  ReadLoopAlive'
  <2>1. ReadDone(n, ec) \in Handlers /\ ReadDone(n, ec).h = "readReceivedData"
    BY DEF ReadDone, Handlers
  <2>2. Queued("readReceivedData")'
    BY <1>1, <1>23, <2>1, HasAppend DEF Queued
  <2> QED BY <2>2
<1>24. CASE ReadError
  BY <1>23, <1>24 DEF ReadError
<1>25. ASSUME NEW n \in 1..MaxChunk, Receive(n) PROVE ReadLoopAlive'
  <2>1. n \in Nat
    OBVIOUS
  <2> QED BY <1>23, <1>25, <2>1 DEF Receive
<1>26. CASE UNCHANGED vars
  BY <1>4, <1>5, <1>26 DEF vars, readVars, portVars
<1> QED
  BY <1>7, <1>8, <1>9, <1>10, <1>11, <1>12, <1>13, <1>16, <1>17, <1>18, <1>19, <1>20,
     <1>21, <1>22, <1>24, <1>25, <1>26
  DEF Next, IoThread, CommandStateMachine, ReadHandler, User, Outside, Finished

(* A running service never goes deaf, and run() never runs out of work:      *)
(* through failed reads, restarts and every parse.                           *)
THEOREM NeverDeaf == Spec => []ReadLoopAlive
<1>1. Init => ReadLoopAlive
  BY DEF Init, ReadLoopAlive, Running
<1>2. TypeInv /\ [Next]_vars => TypeInv'
  BY NextReadsFit, NextTypeOK DEF TypeInv
<1> QED BY <1>1, <1>2, InitTypeInv, ThreadKeepsPort, NextReadLoopAlive, PTL DEF Spec
-----------------------------------------------------------------------------
(* The read handlers of a queue, and how many they are.                      *)
ReadsIn(queue) == {i \in DOMAIN queue : queue[i].h = "readReceivedData"}

NumReads(queue) == Cardinality(ReadsIn(queue))

(* A queue has finitely many read handlers.                                  *)
LEMMA ReadsFinite ==
    ASSUME NEW queue \in Seq(Handlers)
    PROVE  IsFiniteSet(ReadsIn(queue)) /\ NumReads(queue) \in Nat
<1>1. IsFiniteSet(1..Len(queue))
  BY LenProperties, FS_Interval
<1>2. ReadsIn(queue) \subseteq 1..Len(queue)
  BY DEF ReadsIn
<1> QED BY <1>1, <1>2, FS_Subset, FS_CardinalityType DEF NumReads

(* Appending a handler counts it.                                            *)
LEMMA ReadsAppend ==
    ASSUME NEW queue \in Seq(Handlers), NEW e \in Handlers
    PROVE  NumReads(Append(queue, e)) =
              NumReads(queue) + (IF e.h = "readReceivedData" THEN 1 ELSE 0)
<1> DEFINE longer == Append(queue, e)
           last == Len(queue) + 1
<1>1. /\ last \in Nat /\ last \notin ReadsIn(queue)
      /\ DOMAIN longer = 1..last /\ DOMAIN queue = 1..Len(queue)
      /\ longer[last] = e
      /\ \A i \in DOMAIN queue : longer[i] = queue[i]
  BY LenProperties, AppendProperties DEF ReadsIn
<1> HIDE DEF longer
<1>2. CASE e.h = "readReceivedData"
  <2>1. ReadsIn(longer) = ReadsIn(queue) \cup {last}
    BY <1>1, <1>2 DEF ReadsIn
  <2>2. NumReads(longer) = NumReads(queue) + 1
    BY <1>1, <2>1, ReadsFinite, FS_AddElement DEF NumReads
  <2> QED BY <1>2, <2>2 DEF longer
<1>3. CASE e.h # "readReceivedData"
  <2>1. ReadsIn(longer) = ReadsIn(queue)
    BY <1>1, <1>3 DEF ReadsIn
  <2> QED BY <1>3, <2>1, ReadsFinite DEF NumReads, longer
<1> QED BY <1>2, <1>3

(* Taking the head off a queue uncounts it: the others move up by one.       *)
LEMMA ReadsTail ==
    ASSUME NEW queue \in Seq(Handlers), queue # <<>>
    PROVE  NumReads(queue) =
              NumReads(Tail(queue))
                + (IF Head(queue).h = "readReceivedData" THEN 1 ELSE 0)
<1> DEFINE rest == Tail(queue)
           others == ReadsIn(queue) \ {1}
           up == [i \in ReadsIn(rest) |-> i + 1]
<1>1. /\ rest \in Seq(Handlers) /\ Len(rest) = Len(queue) - 1
      /\ \A i \in 1..Len(rest) : rest[i] = queue[i + 1]
      /\ Head(queue) = queue[1] /\ Len(queue) \in Nat \ {0} /\ Len(rest) \in Nat
      /\ DOMAIN queue = 1..Len(queue) /\ DOMAIN rest = 1..Len(rest)
  BY HeadTailProperties, LenProperties, EmptySeq
<1> HIDE DEF rest
<1>2. \A j \in others : j - 1 \in ReadsIn(rest)
  <2>1. TAKE j \in others
  <2>2. j \in 2..Len(queue) /\ queue[j].h = "readReceivedData"
    BY <1>1 DEF ReadsIn
  <2>3. j - 1 \in 1..Len(rest)
    BY <1>1, <2>2
  <2>4. rest[j - 1] = queue[(j - 1) + 1] /\ (j - 1) + 1 = j
    BY <1>1, <2>2, <2>3
  <2> QED BY <1>1, <2>2, <2>3, <2>4 DEF ReadsIn
<1>3. \A i \in ReadsIn(rest) : i + 1 \in others
  BY <1>1 DEF ReadsIn
<1>4. up \in Bijection(ReadsIn(rest), others)
  <2>1. up \in [ReadsIn(rest) -> others]
    BY <1>3
  <2>2. \A i, j \in ReadsIn(rest) : up[i] = up[j] => i = j
    BY <1>1 DEF ReadsIn
  <2>3. \A j \in others : \E i \in ReadsIn(rest) : up[i] = j
    BY <1>1, <1>2 DEF ReadsIn
  <2> HIDE DEF up, others
  <2> QED BY <2>1, <2>2, <2>3, Fun_IsBij, Zenon
<1>5. IsFiniteSet(ReadsIn(rest)) /\ Cardinality(others) = Cardinality(ReadsIn(rest))
  BY <1>1, <1>4, ReadsFinite, FS_Bijection DEF ExistsBijection
<1>6. (1 \in ReadsIn(queue)) = (Head(queue).h = "readReceivedData")
  BY <1>1 DEF ReadsIn
<1>8. NumReads(queue) \in Nat /\ NumReads(rest) \in Nat
  BY <1>1, ReadsFinite
<1>7. Cardinality(others) = IF 1 \in ReadsIn(queue) THEN NumReads(queue) - 1
                                                    ELSE NumReads(queue)
  BY ReadsFinite, FS_RemoveElement DEF NumReads
<1> QED BY <1>5, <1>6, <1>7, <1>8 DEF NumReads, rest

(* Aborting reads counts each of them.                                       *)
LEMMA ReadsAborted ==
    ASSUME NEW queue \in Seq(Handlers), reads \in Nat
    PROVE  NumReads(queue \o Aborted) = NumReads(queue) + reads
<1> DEFINE longer == queue \o Aborted
           new == Len(queue) + 1 .. Len(queue) + reads
<1>1. ReadDone(0, TRUE) \in Handlers /\ ReadDone(0, TRUE).h = "readReceivedData"
  BY DEF ReadDone, Handlers
<1>2. Aborted \in Seq(Handlers) /\ Len(Aborted) = reads
  <2>1. Aborted \in [1..reads -> Handlers]
    BY <1>1 DEF Aborted
  <2> QED BY <2>1
<1>3. \A i \in 1..reads : Aborted[i].h = "readReceivedData"
  BY <1>1 DEF Aborted
<1>4. /\ Len(queue) \in Nat
      /\ DOMAIN longer = 1 .. Len(queue) + reads /\ DOMAIN queue = 1..Len(queue)
      /\ \A i \in 1..Len(queue) : longer[i] = queue[i]
      /\ \A i \in new : longer[i] = Aborted[i - Len(queue)]
  <2>1. Len(queue) \in Nat /\ DOMAIN queue = 1..Len(queue)
    BY LenProperties
  <2>2. Len(longer) = Len(queue) + reads /\ longer \in Seq(Handlers)
    BY <1>2, ConcatProperties
  <2>3. \A i \in 1..Len(longer) :
           longer[i] = IF i <= Len(queue) THEN queue[i] ELSE Aborted[i - Len(queue)]
    BY <1>2, ConcatProperties
  <2>4. DOMAIN longer = 1..Len(longer)
    BY <2>2, LenProperties
  <2> HIDE DEF longer
  <2> QED BY <2>1, <2>2, <2>3, <2>4
<1> HIDE DEF longer
<1>5. \A i \in new : longer[i].h = "readReceivedData"
  BY <1>3, <1>4
<1>6. ReadsIn(longer) = ReadsIn(queue) \cup new /\ ReadsIn(queue) \cap new = {}
  BY <1>4, <1>5 DEF ReadsIn
<1>7. IsFiniteSet(new) /\ Cardinality(new) = reads
  BY <1>4, FS_Interval
<1> HIDE DEF new
<1>8. Cardinality(ReadsIn(queue) \cap new) = 0
  BY <1>6, FS_EmptySet
<1>9. Cardinality(ReadsIn(queue)) \in Nat /\ IsFiniteSet(ReadsIn(queue))
  BY ReadsFinite DEF NumReads
<1>10. Cardinality(ReadsIn(queue) \cup new)
          = Cardinality(ReadsIn(queue)) + reads - 0
  BY <1>7, <1>8, <1>9, FS_Union
<1> QED BY <1>6, <1>9, <1>10 DEF NumReads, longer

(* Cancelling the timer is not a read.                                       *)
LEMMA ReadsCancelled ==
    ASSUME NEW queue \in Seq(Handlers), mOrderTimeout \in Nat
    PROVE  /\ queue \o Cancelled \in Seq(Handlers)
           /\ NumReads(queue \o Cancelled) = NumReads(queue)
<1> DEFINE e == TimerDone(mOrderTimeout, TRUE)
<1>1. e \in Handlers /\ e.h = "endOrder"
  BY DEF TimerDone, Handlers
<1> HIDE DEF e
<1>2. CASE mOrderTimeout = 0
  <2>1. queue \o Cancelled = queue
    BY <1>2, ConcatEmptySeq DEF Cancelled
  <2> QED BY <2>1
<1>3. CASE mOrderTimeout # 0
  <2>1. Cancelled = <<e>>
    BY <1>3 DEF Cancelled, e
  <2>2. queue \o <<e>> = Append(queue, e)
    BY <1>1, AppendIsConcat
  <2>3. NumReads(Append(queue, e)) = NumReads(queue)
    BY <1>1, ReadsAppend, ReadsFinite
  <2>4. Append(queue, e) \in Seq(Handlers)
    BY <1>1, AppendProperties
  <2> QED BY <2>1, <2>2, <2>3, <2>4
<1> QED BY <1>2, <1>3

(* While the process lives, each start has exactly one loop of reads, or is  *)
(* about to begin it: it is what ReadLoopPerStart needs to be kept, and says *)
(* that no loop is lost.                                                     *)
Owed == IF lastCall = "starting" THEN 1 ELSE 0

LoopsInv == ReadLoopPerStart /\ (process = "up" => ReadLoops + Owed = starts)

(* The read handler that runs, suspended at the mutex or parsing.            *)
Held == IF mCommandMutex = "readReceivedData" THEN 1 ELSE 0

(* The loops of reads, counted by where they are.                            *)
LEMMA LoopsType ==
    ASSUME TypeOK
    PROVE  /\ ReadLoops = reads + NumReads(mIos) + Held
           /\ NumReads(mIos) \in Nat /\ reads \in Nat /\ Held \in Nat /\ starts \in Nat
<1>1. ReadHandlers = ReadsIn(mIos)
  BY DEF ReadHandlers, ReadsIn
<1> QED BY <1>1, ReadsFinite DEF TypeOK, ReadLoops, NumReads, Held

(* No step adds a loop of reads but start, and only a death of the process   *)
(* takes one away.                                                           *)
LEMMA NextLoopsInv == TypeInv /\ TypeInv' /\ LoopsInv /\ [Next]_vars => LoopsInv'
<1> SUFFICES ASSUME TypeInv, TypeInv', LoopsInv, [Next]_vars PROVE LoopsInv'
  OBVIOUS
<1> USE DEF portVars, engineVars, readVars, historyVars
<1>1. /\ mIos \in Seq(Handlers) /\ mOrderTimeout \in Nat /\ reads \in Nat
      /\ StateMachine \in Handlers /\ StateMachine.h = "commandStateMachine"
  BY DEF TypeInv, TypeOK, StateMachine, Handlers
<1>2. /\ ReadLoops = reads + NumReads(mIos) + Held
      /\ NumReads(mIos) \in Nat /\ reads \in Nat /\ Held \in Nat /\ starts \in Nat
  BY LoopsType DEF TypeInv
<1>3. /\ ReadLoops' = reads' + NumReads(mIos') + Held'
      /\ NumReads(mIos') \in Nat /\ reads' \in Nat /\ Held' \in Nat /\ starts' \in Nat
  <2>1. mIos' \in Seq(Handlers) /\ reads' \in Nat /\ starts' \in Nat
    BY DEF TypeInv, TypeOK
  <2>2. NumReads(mIos') \in Nat
    BY <2>1, ReadsFinite
  <2>3. ReadLoops' = reads' + NumReads(mIos') + Held'
    BY DEF ReadLoops, ReadHandlers, NumReads, ReadsIn, Held
  <2> QED BY <2>1, <2>2, <2>3 DEF Held
<1>4. ASSUME process = "up",
             ReadLoops + Owed = starts => ReadLoops' + Owed' = starts'
      PROVE  LoopsInv'
  <2>1. ReadLoops + Owed = starts
    BY <1>4 DEF LoopsInv
  <2>2. ReadLoops' \in Int /\ starts' \in Int /\ Owed' \in {0, 1}
    BY <1>3 DEF Owed
  <2>3. ReadLoops' + Owed' = starts'
    BY <1>4, <2>1
  <2>4. ASSUME NEW n \in Int, NEW k \in Int, NEW owed \in {0, 1}, n + owed = k
        PROVE  n <= k
    BY <2>4
  <2>5. ReadLoops' <= starts'
    BY <2>2, <2>3, <2>4
  <2> QED BY <2>3, <2>5 DEF LoopsInv, ReadLoopPerStart
<1>4a. ASSUME lastCall' = lastCall PROVE Owed' = Owed
  BY <1>4a DEF Owed
<1>5. ASSUME process = "up", NumReads(mIos') = NumReads(mIos),
             UNCHANGED <<reads, mCommandMutex, starts>>, Owed' = Owed
      PROVE  LoopsInv'
  BY <1>2, <1>3, <1>4, <1>5 DEF Held
<1>6. mIos # <<>> => /\ Tail(mIos) \in Seq(Handlers)
                     /\ NumReads(mIos) = NumReads(Tail(mIos))
                          + (IF Head(mIos).h = "readReceivedData" THEN 1 ELSE 0)
                     /\ NumReads(Tail(mIos)) \in Nat
  BY <1>1, HeadTailProperties, ReadsTail, ReadsFinite
<1>7. ASSUME NEW queue \in Seq(Handlers)
      PROVE  NumReads(Append(queue, StateMachine)) = NumReads(queue)
  BY <1>1, <1>7, ReadsAppend, ReadsFinite
<1>8. ASSUME NEW queue \in Seq(Handlers), EndOrder(queue)
      PROVE  NumReads(mIos') = NumReads(queue)
  <2>1. queue \o Cancelled \in Seq(Handlers)
        /\ NumReads(queue \o Cancelled) = NumReads(queue)
    BY <1>1, ReadsCancelled
  <2> QED BY <1>7, <1>8, <2>1 DEF EndOrder
<1>9. ASSUME NEW cmd, RegisterCommand(cmd) PROVE LoopsInv'
  BY <1>1, <1>5, <1>7, <1>9 DEF RegisterCommand, Owed
<1>10. CASE UserCommand \/ SendPing \/ ServoPull
  BY <1>9, <1>10 DEF UserCommand, SendPing, ServoPull
<1>11. CASE StartAlreadyOpened \/ StartFails \/ StopThrows \/ Destroy \/ Garble
  <2>1. process = "up" /\ mIos' = mIos /\ UNCHANGED <<reads, mCommandMutex, starts>>
        /\ Owed' = Owed
    BY <1>11 DEF StartAlreadyOpened, StartFails, StopThrows, Destroy, Garble, UserIdle, Owed
  <2> QED BY <1>5, <2>1
<1>12. CASE StartOpens
  <2>1. process = "up" /\ starts' = starts + 1 /\ Owed = 0 /\ Owed' = 1
        /\ mIos' = mIos /\ UNCHANGED <<reads, mCommandMutex>>
    BY <1>12 DEF StartOpens, UserIdle, Owed
  <2> QED BY <1>2, <1>3, <1>4, <2>1 DEF Held
<1>12a. CASE StartReads
  <2>1. process = "up" /\ reads' = reads + 1 /\ Owed = 1 /\ Owed' = 0
        /\ mIos' = mIos /\ UNCHANGED <<starts, mCommandMutex>>
    BY <1>12a DEF StartReads, PrepareAsyncRead, Owed
  <2> QED BY <1>2, <1>3, <1>4, <2>1 DEF Held
<1>13. CASE StopReturns
  <2>1. process = "up" /\ reads' = 0 /\ mIos' = mIos \o Aborted
        /\ UNCHANGED <<mCommandMutex, starts>> /\ Owed' = Owed
    BY <1>13 DEF StopReturns, UserIdle, Owed
  <2>2. NumReads(mIos') = NumReads(mIos) + reads
    BY <1>1, <2>1, ReadsAborted
  <2> QED BY <1>2, <1>3, <1>4, <2>1, <2>2 DEF Held
<1>14. CASE NoCommand \/ OrderRunning
  <2>1. process = "up" /\ mIos # <<>> /\ Head(mIos).h = "commandStateMachine"
        /\ mIos' = Tail(mIos) /\ UNCHANGED <<reads, mCommandMutex, starts, lastCall>>
    BY <1>14 DEF NoCommand, OrderRunning, Runs, Running
  <2> QED BY <1>5, <1>4a, <1>6, <2>1
<1>15. CASE NextCommand \/ CommandOver
  <2>1. process = "up" /\ mIos # <<>> /\ Head(mIos).h = "commandStateMachine"
        /\ mIos' = Append(Tail(mIos), StateMachine)
        /\ UNCHANGED <<reads, mCommandMutex, starts, lastCall>>
    BY <1>15 DEF NextCommand, CommandOver, Runs, Running
  <2>2. NumReads(mIos') = NumReads(Tail(mIos))
    BY <1>6, <1>7, <2>1
  <2> QED BY <1>5, <1>4a, <1>6, <2>1, <2>2
<1>16. CASE SendOrder
  <2>1. process = "up" /\ mIos # <<>> /\ Head(mIos).h = "commandStateMachine"
        /\ mIos' = Tail(mIos) \o Cancelled /\ UNCHANGED <<reads, mCommandMutex, starts, lastCall>>
    BY <1>16 DEF SendOrder, OrderReady, StartTimeout, Runs, Running
  <2>2. NumReads(mIos') = NumReads(Tail(mIos))
    BY <1>1, <1>6, <2>1, ReadsCancelled
  <2> QED BY <1>5, <1>4a, <1>6, <2>1, <2>2
<1>17. CASE WriteFails \/ ParseWithoutOrder
  <2>1. process = "up" /\ mIos' = mIos /\ UNCHANGED <<reads, mCommandMutex, starts, lastCall>>
    BY <1>17 DEF WriteFails, ParseWithoutOrder, PacketNext, Parsing, OrderReady, Runs,
                 Running
  <2> QED BY <1>5, <1>4a, <2>1
<1>18. CASE RunEndOrder
  <2>1. process = "up" /\ mIos # <<>> /\ Head(mIos).h = "endOrder"
        /\ EndOrder(Tail(mIos)) /\ UNCHANGED <<reads, mCommandMutex, starts, lastCall>>
    BY <1>18 DEF RunEndOrder, Runs, Running
  <2>2. NumReads(mIos') = NumReads(Tail(mIos))
    BY <1>6, <1>8, <2>1
  <2> QED BY <1>5, <1>4a, <1>6, <2>1, <2>2
<1>19. CASE ReadFailed
  <2>1. process = "up" /\ mIos # <<>> /\ Head(mIos).h = "readReceivedData"
        /\ mIos' = Tail(mIos) /\ UNCHANGED <<mCommandMutex, starts, lastCall>>
        /\ \/ process' = "terminate" /\ reads' = reads
           \/ reads' = reads + 1
    BY <1>19 DEF ReadFailed, PrepareAsyncRead, Runs, Running
  <2>2. NumReads(mIos') = NumReads(mIos) - 1
    BY <1>2, <1>6, <2>1
  <2>3. CASE reads' = reads + 1
    BY <1>2, <1>3, <1>4, <1>4a, <2>1, <2>2, <2>3 DEF Held
  <2>4. CASE process' = "terminate" /\ reads' = reads
    BY <1>2, <1>3, <2>1, <2>2, <2>4 DEF Held, LoopsInv, ReadLoopPerStart
  <2> QED BY <2>1, <2>3, <2>4
<1>20. CASE ReadReceivedData
  <2>1. process = "up" /\ mIos # <<>> /\ Head(mIos).h = "readReceivedData"
        /\ mIos' = Tail(mIos) /\ UNCHANGED <<reads, starts, lastCall>>
        /\ mCommandMutex = "free" /\ mCommandMutex' = "readReceivedData"
    BY <1>20 DEF ReadReceivedData, Runs, Running
  <2>2. NumReads(mIos') = NumReads(mIos) - 1 /\ Held = 0 /\ Held' = 1
    BY <1>2, <1>6, <2>1 DEF Held
  <2> QED BY <1>2, <1>3, <1>4, <1>4a, <2>1, <2>2
<1>21. CASE ParseEnds
  <2>1. process = "up" /\ mIos' = mIos /\ reads' = reads + 1 /\ UNCHANGED <<starts, lastCall>>
        /\ mCommandMutex = "readReceivedData" /\ mCommandMutex' = "free"
    BY <1>21 DEF ParseEnds, PrepareAsyncRead, Parsing
  <2> QED BY <1>2, <1>3, <1>4, <1>4a, <2>1 DEF Held
<1>22. CASE ParsePacket
  <2>1. process = "up" /\ UNCHANGED <<reads, mCommandMutex, starts, lastCall>>
    BY <1>22 DEF ParsePacket, PacketNext, Parsing
  <2>2. EndOrder(mIos) \/ mIos' = mIos
    BY <1>22 DEF ParsePacket, ProcessPacket, ProcessPing, ProcessPull, ProcessPush
  <2> QED BY <1>1, <1>5, <1>4a, <1>8, <2>1, <2>2
<1>23. CASE Expire
  <2>1. process = "up" /\ mIos' = Append(mIos, TimerDone(mOrderTimeout, FALSE))
        /\ UNCHANGED <<reads, mCommandMutex, starts, lastCall>>
    BY <1>23 DEF Expire, Reactor, Running
  <2>2. TimerDone(mOrderTimeout, FALSE) \in Handlers
        /\ TimerDone(mOrderTimeout, FALSE).h = "endOrder"
    BY <1>1 DEF TimerDone, Handlers
  <2>3. NumReads(Append(mIos, TimerDone(mOrderTimeout, FALSE))) = NumReads(mIos) + 0
    BY <1>1, <2>2, ReadsAppend
  <2>4. NumReads(mIos') = NumReads(mIos)
    <3>1. NumReads(mIos) + 0 = NumReads(mIos)
      BY <1>2
    <3> QED BY <2>1, <2>3, <3>1
  <2> QED BY <1>5, <1>4a, <2>1, <2>4
<1>24. ASSUME NEW n \in Nat, NEW ec \in BOOLEAN, process = "up", reads > 0,
              mIos' = Append(mIos, ReadDone(n, ec)), reads' = reads - 1,
              UNCHANGED <<mCommandMutex, starts, lastCall>>
       PROVE  LoopsInv'
  <2>1. ReadDone(n, ec) \in Handlers /\ ReadDone(n, ec).h = "readReceivedData"
    BY DEF ReadDone, Handlers
  <2>2. NumReads(mIos') = NumReads(mIos) + 1
    BY <1>1, <1>24, <2>1, ReadsAppend
  <2> QED BY <1>2, <1>3, <1>4, <1>4a, <1>24, <2>2 DEF Held
<1>25. CASE ReadError
  BY <1>24, <1>25 DEF ReadError, Reactor, Running
<1>26. ASSUME NEW n \in 1..MaxChunk, Receive(n) PROVE LoopsInv'
  <2>1. n \in Nat
    OBVIOUS
  <2> QED BY <1>24, <1>26, <2>1 DEF Receive, Reactor, Running
<1>27. CASE UNCHANGED vars
  <2>1. UNCHANGED <<mIos, reads, mCommandMutex, starts, process, lastCall>>
    BY <1>27 DEF vars
  <2>2. ReadLoops' = ReadLoops
    BY <2>1 DEF ReadLoops, ReadHandlers
  <2> QED BY <1>4a, <2>1, <2>2 DEF LoopsInv, ReadLoopPerStart
<1> QED
  BY <1>10, <1>11, <1>12, <1>12a, <1>13, <1>14, <1>15, <1>16, <1>17, <1>18, <1>19, <1>20,
     <1>21, <1>22, <1>23, <1>25, <1>26, <1>27
  DEF Next, IoThread, CommandStateMachine, ReadHandler, User, Outside, Finished

(* While the process lives there are exactly as many loops of reads as       *)
(* starts: errors, stops and restarts neither lose one nor add one more.     *)
THEOREM LoopsKept == Spec => []LoopsInv
<1>1. Init => LoopsInv
  <2> SUFFICES ASSUME Init PROVE LoopsInv
    OBVIOUS
  <2>1. ReadHandlers = {}
    BY DEF Init, ReadHandlers
  <2>2. Cardinality(ReadHandlers) = 0
    BY <2>1, FS_EmptySet
  <2> QED BY <2>2 DEF Init, LoopsInv, ReadLoopPerStart, ReadLoops, Owed
<1>2. TypeInv /\ [Next]_vars => TypeInv'
  BY NextReadsFit, NextTypeOK DEF TypeInv
<1> QED BY <1>1, <1>2, InitTypeInv, NextLoopsInv, PTL DEF Spec

(* However often the service is stopped and started, and whatever fails,     *)
(* there are never more loops of reads than starts.                          *)
THEOREM LoopPerStart == Spec => []ReadLoopPerStart
<1>1. LoopsInv => ReadLoopPerStart
  BY DEF LoopsInv
<1> QED BY <1>1, LoopsKept, PTL

(* Until the service is started a second time, a running service has exactly *)
(* one loop of reads: mReadBuffer is never written by two of them.           *)
THEOREM OneLoopUntilRestart == Spec => [](starts <= 1 => SingleReadLoop)
<1>1. TypeInv /\ LoopsInv /\ ReadLoopAlive => (starts <= 1 => SingleReadLoop)
  <2> SUFFICES ASSUME TypeInv, LoopsInv, ReadLoopAlive, starts <= 1, Running
               PROVE  ReadLoops = 1 - Owed
    BY DEF SingleReadLoop, Owed
  <2>1. ReadLoops + Owed = starts
    BY DEF LoopsInv, Running
  <2>2. /\ ReadLoops = reads + NumReads(mIos) + Held /\ mIos \in Seq(Handlers)
        /\ NumReads(mIos) \in Nat /\ reads \in Nat /\ Held \in Nat /\ starts \in Nat
    BY LoopsType DEF TypeInv, TypeOK
  <2>3. Queued("readReceivedData") => NumReads(mIos) # 0
    BY <2>2, ReadsFinite, FS_EmptySet DEF Queued, HasHandler, NumReads, ReadsIn
  <2> QED BY <2>1, <2>2, <2>3 DEF ReadLoopAlive, Held, Owed
<1>2. TypeInv /\ [Next]_vars => TypeInv'
  BY NextReadsFit, NextTypeOK DEF TypeInv
<1> QED BY <1>1, <1>2, InitTypeInv, LoopsKept, NeverDeaf, PTL DEF Spec
-----------------------------------------------------------------------------
(* mOrderCurrent is null exactly before the first order is written, and      *)
(* afterwards it is the last order written.                                  *)
OrderInv ==
    /\ mOrderCurrent = NoOrder <=> wire = <<>>
    /\ wire # <<>> => mOrderCurrent = wire[Len(wire)]
    /\ NoCrashAfterFirstOrder

(* Only SendOrder writes an order, and makes it the current one.             *)
LEMMA NextOrderInv == TypeInv /\ OrderInv /\ [Next]_vars => OrderInv'
<1> SUFFICES ASSUME TypeInv, OrderInv, [Next]_vars PROVE OrderInv'
  OBVIOUS
<1> USE DEF portVars, engineVars, readVars, historyVars
<1>1. ASSUME UNCHANGED <<wire, mOrderCurrent>>, process' = "segv" => wire = <<>>
      PROVE  OrderInv'
  BY <1>1 DEF OrderInv, NoCrashAfterFirstOrder
<1>2. ASSUME UNCHANGED <<wire, mOrderCurrent, process>> PROVE OrderInv'
  BY <1>1, <1>2 DEF OrderInv, NoCrashAfterFirstOrder
<1>3. ASSUME NEW cmd, RegisterCommand(cmd) PROVE OrderInv'
  BY <1>2, <1>3 DEF RegisterCommand
<1>4. CASE UserCommand \/ SendPing \/ ServoPull
  BY <1>3, <1>4 DEF UserCommand, SendPing, ServoPull
<1>5. CASE \/ StartAlreadyOpened \/ StartOpens \/ StartReads \/ StartFails \/ StopThrows \/ StopReturns
  BY <1>2, <1>5 DEF StartAlreadyOpened, StartOpens, StartReads, StartFails, StopThrows, StopReturns
<1>6. CASE Destroy \/ WriteFails
  <2>1. process' # "segv" /\ UNCHANGED <<wire, mOrderCurrent>>
    BY <1>6 DEF Destroy, WriteFails
  <2> QED BY <1>1, <2>1
<1>7. CASE NoCommand \/ NextCommand \/ OrderRunning \/ CommandOver \/ RunEndOrder
  BY <1>2, <1>7 DEF NoCommand, NextCommand, OrderRunning, CommandOver, RunEndOrder
<1>8. CASE SendOrder
  <2> DEFINE order == Head(mCommandCurrent)
  <2>1. /\ mCommandCurrent # <<>> /\ mOrderCurrent' = order
        /\ wire' = Append(wire, order) /\ process = "up" /\ process' = process
    BY <1>8 DEF SendOrder, OrderReady, Runs, Running
  <2>2. order \in Orders /\ wire \in Seq(Orders)
    BY <2>1, HeadTailProperties DEF TypeInv, TypeOK
  <2>3. order # NoOrder
    BY <2>2 DEF Orders, NoOrder, Instructions
  <2> HIDE DEF order
  <2>4. wire' # <<>> /\ wire'[Len(wire')] = order
    BY <2>1, <2>2, AppendProperties, LenProperties
  <2> QED BY <2>1, <2>3, <2>4 DEF OrderInv, NoCrashAfterFirstOrder
<1>9. CASE ReadFailed
  <2>1. process' # "segv" /\ UNCHANGED <<wire, mOrderCurrent>>
    BY <1>9 DEF ReadFailed, Runs, Running
  <2> QED BY <1>1, <2>1
<1>10. CASE ReadReceivedData \/ ParseEnds \/ ParsePacket
  BY <1>2, <1>10 DEF ReadReceivedData, ParseEnds, ParsePacket
<1>11. CASE ParseWithoutOrder
  <2>1. wire = <<>> /\ UNCHANGED <<wire, mOrderCurrent>>
    BY <1>11 DEF ParseWithoutOrder, OrderInv
  <2> QED BY <1>1, <2>1
<1>12. CASE Expire \/ ReadError \/ Garble
  BY <1>2, <1>12 DEF Expire, ReadError, Garble
<1>13. ASSUME NEW n \in 1..MaxChunk, Receive(n) PROVE OrderInv'
  BY <1>2, <1>13 DEF Receive
<1>14. CASE UNCHANGED vars
  BY <1>2, <1>14 DEF vars
<1> QED
  BY <1>4, <1>5, <1>6, <1>7, <1>8, <1>9, <1>10, <1>11, <1>12, <1>13, <1>14
  DEF Next, IoThread, CommandStateMachine, ReadHandler, User, Outside, Finished

(* The order the parser looks at is always the last one written.             *)
THEOREM OrderKept == Spec => []OrderInv
<1>1. Init => OrderInv
  BY DEF Init, OrderInv, NoCrashAfterFirstOrder
<1>2. TypeInv /\ [Next]_vars => TypeInv'
  BY NextReadsFit, NextTypeOK DEF TypeInv
<1> QED BY <1>1, <1>2, InitTypeInv, NextOrderInv, PTL DEF Spec

(* A packet crashes the service only before the very first order.            *)
THEOREM CrashOnlyBeforeOrders == Spec => []NoCrashAfterFirstOrder
<1>1. OrderInv => NoCrashAfterFirstOrder
  BY DEF OrderInv
<1> QED BY <1>1, OrderKept, PTL
-----------------------------------------------------------------------------
(* The command being served, and what makes Backlog inductive: no more       *)
(* commands end than were registered.                                        *)
Served == registered[ended + 1]

BacklogInv == Backlog /\ ended <= Len(registered)

(* Every step keeps the backlog.                                             *)
LEMMA NextBacklog == TypeInv /\ BacklogInv /\ [Next]_vars => BacklogInv'
<1> SUFFICES ASSUME TypeInv, BacklogInv, [Next]_vars PROVE BacklogInv'
  OBVIOUS
<1> DEFINE next == ended + (IF mCommandInProcess THEN 2 ELSE 1)
<1>1. /\ registered \in Seq(Seq(Orders)) /\ Len(registered) \in Nat /\ ended \in Nat
      /\ mCommandInProcess \in BOOLEAN /\ mCommandCurrent \in Seq(Orders)
      /\ mCommandQueue \in Seq(Seq(Orders))
  BY LenProperties DEF TypeInv, TypeOK
<1>2. /\ mCommandQueue = From(registered, next)
      /\ next \in Nat \ {0} /\ next <= Len(registered) + 1
  BY <1>1 DEF BacklogInv, Backlog, From
<1>3. mCommandInProcess =>
         /\ ended < Len(registered)
         /\ Served \in Seq(Orders) /\ Len(Served) \in Nat
         /\ \E p \in 0..Len(Served) : mCommandCurrent = From(Served, p + 1)
  <2>1. mCommandInProcess => Served \in Seq(Orders)
    BY <1>1, ElementOfSeq DEF BacklogInv, Backlog, Served
  <2> QED BY <1>1, <2>1, LenProperties DEF BacklogInv, Backlog, From, Served
<1> HIDE DEF next
<1>4. ASSUME UNCHANGED <<registered, ended, mCommandInProcess, mCommandQueue,
                         mCommandCurrent>>
      PROVE  BacklogInv'
  BY <1>4 DEF BacklogInv, Backlog
<1>5. ASSUME NEW cmd \in Seq(Orders), RegisterCommand(cmd) PROVE BacklogInv'
  <2>1. /\ registered' = Append(registered, cmd)
        /\ mCommandQueue' = Append(mCommandQueue, cmd)
        /\ UNCHANGED <<ended, mCommandInProcess, mCommandCurrent>>
    BY <1>5 DEF RegisterCommand
  <2>2. /\ Len(registered') = Len(registered) + 1
        /\ \A i \in 1..Len(registered) : registered'[i] = registered[i]
    BY <1>1, <2>1, AppendProperties
  <2>3. mCommandQueue' = From(registered', next)
    BY <1>1, <1>2, <2>1, FromAppend
  <2>4. next' = next
    BY <2>1 DEF next
  <2>5. mCommandInProcess' => ended' < Len(registered') /\ Served' = Served
    BY <1>1, <1>3, <2>1, <2>2 DEF Served
  <2>6. mCommandQueue' = SubSeq(registered', next', Len(registered'))
    BY <2>3, <2>4 DEF From
  <2>7. mCommandInProcess' => \E p \in 0..Len(Served') :
              mCommandCurrent' = SubSeq(Served', p + 1, Len(Served'))
    BY <1>3, <2>1, <2>5 DEF From
  <2>8. ended' <= Len(registered')
    BY <1>1, <2>1, <2>2 DEF BacklogInv
  <2> QED BY <2>5, <2>6, <2>7, <2>8 DEF BacklogInv, Backlog, Served, next
<1>6. CASE UserCommand
  BY <1>5, <1>6, CommandsAssumption DEF UserCommand
<1>7. CASE SendPing
  <2>1. PingOrder \in Orders
    BY DEF PingOrder, Orders, Instructions
  <2> QED BY <1>5, <1>7, <2>1, SingletonType DEF SendPing
<1>8. CASE ServoPull
  <2>1. <<>> \in Seq(Orders)
    OBVIOUS
  <2> QED BY <1>5, <1>8, <2>1 DEF ServoPull
<1>9. CASE \/ StartAlreadyOpened \/ StartOpens \/ StartReads \/ StartFails \/ StopThrows
           \/ StopReturns \/ Destroy
  BY <1>4, <1>9 DEF StartAlreadyOpened, StartOpens, StartReads, StartFails, StopThrows, StopReturns,
                    Destroy, engineVars, historyVars
<1>10. CASE NoCommand \/ OrderRunning \/ WriteFails \/ RunEndOrder
  BY <1>4, <1>10 DEF NoCommand, OrderRunning, WriteFails, RunEndOrder, engineVars,
                     historyVars
<1>11. CASE ReadHandler
  BY <1>4, <1>11 DEF ReadHandler, ReadFailed, ReadReceivedData, ParseEnds,
                     ParseWithoutOrder, ParsePacket, engineVars, historyVars
<1>12. CASE Outside
  BY <1>4, <1>12 DEF Outside, Expire, Receive, ReadError, Garble, engineVars, historyVars
<1>13. CASE NextCommand
  <2>1. /\ ~mCommandInProcess /\ mCommandInProcess' /\ mCommandQueue # <<>>
        /\ mCommandCurrent' = Head(mCommandQueue)
        /\ mCommandQueue' = Tail(mCommandQueue)
        /\ UNCHANGED <<registered, ended>>
    BY <1>13 DEF NextCommand, historyVars
  <2>2. next = ended + 1 /\ next' = ended + 2
    BY <2>1 DEF next
  <2>3. /\ ended + 1 <= Len(registered)
        /\ mCommandCurrent' = Served
        /\ mCommandQueue' = From(registered, ended + 2)
    <3>1. /\ ended + 1 \in Nat \ {0} /\ ended + 1 <= Len(registered) + 1
          /\ ended + 1 + 1 = ended + 2 /\ From(registered, ended + 1) # <<>>
      BY <1>1, <1>2, <2>1, <2>2
    <3> QED BY <1>1, <1>2, <2>1, <2>2, <3>1, FromTail DEF Served
  <2>4. Served \in Seq(Orders) /\ Len(Served) \in Nat
    BY <1>1, <2>3, ElementOfSeq, LenProperties DEF Served
  <2>5. Served = SubSeq(Served, 0 + 1, Len(Served)) /\ 0 \in 0..Len(Served)
    BY <2>4, SubSeqFull
  <2>6. Served' = Served
    BY <2>1 DEF Served
  <2>7. \E p \in 0..Len(Served') : mCommandCurrent' = SubSeq(Served', p + 1, Len(Served'))
    BY <2>3, <2>5, <2>6
  <2>8. mCommandQueue' = SubSeq(registered', next', Len(registered'))
    BY <2>1, <2>2, <2>3 DEF From
  <2>9. ended' < Len(registered') /\ ended' <= Len(registered')
    BY <1>1, <2>1, <2>3
  <2> QED BY <2>1, <2>7, <2>8, <2>9 DEF BacklogInv, Backlog, Served, next
<1>14. CASE CommandOver
  <2>1. /\ mCommandInProcess /\ ~mCommandInProcess' /\ ended' = ended + 1
        /\ UNCHANGED <<registered, mCommandQueue>>
    BY <1>14 DEF CommandOver
  <2>2. next' = next
    BY <1>1, <2>1 DEF next
  <2>3. ended' <= Len(registered')
    BY <1>1, <1>3, <2>1
  <2>4. mCommandQueue' = SubSeq(registered', next', Len(registered'))
    BY <1>2, <2>1, <2>2 DEF From
  <2> QED BY <2>1, <2>3, <2>4 DEF BacklogInv, Backlog, next
<1>15. CASE SendOrder
  <2>1. /\ mCommandInProcess /\ mCommandCurrent # <<>>
        /\ mCommandCurrent' = Tail(mCommandCurrent)
        /\ UNCHANGED <<registered, ended, mCommandInProcess, mCommandQueue>>
    BY <1>15 DEF SendOrder, OrderReady
  <2>2. PICK p \in 0..Len(Served) : mCommandCurrent = From(Served, p + 1)
    BY <1>3, <2>1
  <2>3. p + 1 <= Len(Served) /\ mCommandCurrent' = From(Served, p + 1 + 1)
    BY <1>3, <2>1, <2>2, FromTail
  <2>4. p + 1 \in 0..Len(Served) /\ Served' = Served
    BY <1>3, <2>1, <2>3 DEF Served
  <2>5. \E q \in 0..Len(Served') : mCommandCurrent' = SubSeq(Served', q + 1, Len(Served'))
    BY <2>3, <2>4 DEF From
  <2>6. mCommandQueue' = SubSeq(registered', next', Len(registered'))
    BY <1>2, <2>1 DEF From, next
  <2> QED BY <1>1, <1>3, <2>1, <2>5, <2>6 DEF BacklogInv, Backlog, Served, next
<1>16. CASE UNCHANGED vars
  BY <1>4, <1>16 DEF vars, engineVars, historyVars
<1> QED
  BY <1>6, <1>7, <1>8, <1>9, <1>10, <1>11, <1>12, <1>13, <1>14, <1>15, <1>16
  DEF Next, IoThread, CommandStateMachine, User, Finished

(* The backlog is empty at the start.                                        *)
LEMMA InitBacklog == Init => BacklogInv
<1> SUFFICES ASSUME Init PROVE BacklogInv
  OBVIOUS
<1>1. /\ mCommandQueue = <<>> /\ registered = <<>> /\ ended = 0 /\ ~mCommandInProcess
  BY DEF Init
<1>2. SubSeq(<<>>, 1, 0) = <<>>
  BY SubSeqEmpty
<1> QED BY <1>1, <1>2 DEF BacklogInv, Backlog

(* The two queues of the engine hold exactly what was registered and not yet *)
(* sent, in order: no command is lost, repeated or overtaken, across faults  *)
(* and restarts.                                                             *)
THEOREM BacklogKept == Spec => []Backlog
<1>1. TypeInv /\ [Next]_vars => TypeInv'
  BY NextReadsFit, NextTypeOK DEF TypeInv
<1>2. BacklogInv => Backlog
  BY DEF BacklogInv
<1> QED BY InitTypeInv, InitBacklog, NextBacklog, <1>1, <1>2, PTL DEF Spec
-----------------------------------------------------------------------------
(* Every step of the service is a step of the abstract stream or leaves it   *)
(* as it was.                                                                *)
LEMMA StepImplements ==
    TypeInv /\ BacklogInv /\ [Next]_vars => [CS!Next]_(CS!vars)
<1> SUFFICES ASSUME TypeInv, BacklogInv, [Next]_vars PROVE [CS!Next]_(CS!vars)
  OBVIOUS
<1> DEFINE pos == IF mCommandInProcess
                  THEN Len(registered[ended + 1]) - Len(mCommandCurrent) ELSE 0
<1>1. /\ registered \in Seq(Seq(Orders)) /\ Len(registered) \in Nat /\ ended \in Nat
      /\ mCommandInProcess \in BOOLEAN /\ mCommandCurrent \in Seq(Orders)
      /\ Len(mCommandCurrent) \in Nat /\ wire \in Seq(Orders)
  BY LenProperties DEF TypeInv, TypeOK
<1>2. ASSUME mCommandInProcess
      PROVE  /\ ended < Len(registered)
             /\ Served \in Seq(Orders) /\ Len(Served) \in Nat
             /\ \E p \in 0..Len(Served) : mCommandCurrent = From(Served, p + 1)
  <2>1. ended < Len(registered)
    BY <1>2 DEF BacklogInv, Backlog
  <2>2. Served \in Seq(Orders)
    BY <1>1, <2>1, ElementOfSeq DEF Served
  <2> QED BY <1>2, <2>1, <2>2, LenProperties DEF BacklogInv, Backlog, From, Served
<1>3. ASSUME UNCHANGED <<registered, ended, wire, mCommandInProcess, mCommandCurrent>>
      PROVE  UNCHANGED CS!vars
  BY <1>3 DEF CS!vars
<1>4. ASSUME NEW cmd \in Seq(Orders), RegisterCommand(cmd) PROVE CS!Register
  <2>1. /\ registered' = Append(registered, cmd)
        /\ UNCHANGED <<ended, wire, mCommandInProcess, mCommandCurrent>>
    BY <1>4 DEF RegisterCommand
  <2>2. /\ registered' \in Seq(Seq(Orders)) /\ Len(registered') = Len(registered) + 1
        /\ \A i \in 1..Len(registered) : registered'[i] = registered[i]
    BY <1>1, <2>1, AppendProperties
  <2>3. SubSeq(registered', 1, Len(registered)) = registered
    <3> DEFINE r == SubSeq(registered', 1, Len(registered))
    <3>1. \A i \in 1..Len(registered) : registered'[i] \in Seq(Orders)
      BY <1>1, <2>2, ElementOfSeq
    <3>2. /\ r \in Seq(Seq(Orders))
          /\ Len(r) = IF 1 <= Len(registered) THEN Len(registered) - 1 + 1 ELSE 0
          /\ \A i \in 1..Len(registered) - 1 + 1 : r[i] = registered'[1 + i - 1]
      BY <1>1, <3>1, SubSeqProperties
    <3> HIDE DEF r
    <3>3. Len(r) = Len(registered) /\ \A i \in 1..Len(r) : r[i] = registered[i]
      BY <1>1, <2>2, <3>2
    <3>4. r = registered
      BY <1>1, <3>2, <3>3, SeqEqual
    <3> QED BY <3>4 DEF r
  <2>4. pos' = pos
    <3>1. mCommandInProcess => ended + 1 \in 1..Len(registered)
      BY <1>1, <1>2
    <3> QED BY <2>1, <2>2, <3>1
  <2> QED BY <2>1, <2>2, <2>3, <2>4 DEF CS!Register
<1>5. CASE UserCommand
  BY <1>4, <1>5, CommandsAssumption DEF UserCommand, CS!Next
<1>6. CASE SendPing
  <2>1. PingOrder \in Orders
    BY DEF PingOrder, Orders, Instructions
  <2> QED BY <1>4, <1>6, <2>1, SingletonType DEF SendPing, CS!Next
<1>7. CASE ServoPull
  <2>1. <<>> \in Seq(Orders)
    OBVIOUS
  <2> QED BY <1>4, <1>7, <2>1 DEF ServoPull, CS!Next
<1>8. CASE \/ StartAlreadyOpened \/ StartOpens \/ StartReads \/ StartFails \/ StopThrows
           \/ StopReturns \/ Destroy
  BY <1>3, <1>8 DEF StartAlreadyOpened, StartOpens, StartReads, StartFails, StopThrows, StopReturns,
                    Destroy, engineVars, historyVars
<1>9. CASE NoCommand \/ OrderRunning \/ WriteFails \/ RunEndOrder
  BY <1>3, <1>9 DEF NoCommand, OrderRunning, WriteFails, RunEndOrder, engineVars,
                    historyVars
<1>10. CASE ReadHandler
  BY <1>3, <1>10 DEF ReadHandler, ReadFailed, ReadReceivedData, ParseEnds,
                     ParseWithoutOrder, ParsePacket, engineVars, historyVars
<1>11. CASE Outside
  BY <1>3, <1>11 DEF Outside, Expire, Receive, ReadError, Garble, engineVars, historyVars
<1>12. CASE NextCommand
  <2>1. /\ ~mCommandInProcess /\ mCommandInProcess' /\ mCommandQueue # <<>>
        /\ mCommandCurrent' = Head(mCommandQueue)
        /\ UNCHANGED <<registered, ended, wire>>
    BY <1>12 DEF NextCommand, historyVars
  <2>2. mCommandQueue = From(registered, ended + 1)
    BY <2>1 DEF BacklogInv, Backlog, From
  <2>3. ended + 1 <= Len(registered) /\ Head(mCommandQueue) = registered[ended + 1]
    <3>1. ended + 1 \in Nat \ {0} /\ ended + 1 <= Len(registered) + 1
      BY <1>1 DEF BacklogInv
    <3> QED BY <1>1, <2>1, <2>2, <3>1, FromTail
  <2>4. Len(registered[ended + 1]) \in Nat
    <3>1. registered[ended + 1] \in Seq(Orders)
      BY <1>1, <2>3, ElementOfSeq
    <3> QED BY <3>1, LenProperties
  <2>5. pos' = 0 /\ pos = 0
    BY <2>1, <2>3, <2>4
  <2> QED BY <2>1, <2>5 DEF CS!vars
<1>13. CASE CommandOver
  <2>1. /\ mCommandInProcess /\ ~mCommandInProcess' /\ ended' = ended + 1
        /\ mCommandCurrent = <<>>
        /\ UNCHANGED <<registered, wire>>
    BY <1>13 DEF CommandOver
  <2>2. ended < Len(registered) /\ Len(Served) \in Nat
    BY <1>2, <2>1
  <2>3. Len(mCommandCurrent) = 0
    BY <2>1
  <2>4. pos = Len(registered[ended + 1]) /\ pos' = 0
    BY <2>1, <2>2, <2>3 DEF Served
  <2> QED BY <2>1, <2>2, <2>4 DEF CS!Next, CS!Finish, CS!Current
<1>14. CASE SendOrder
  <2>1. /\ mCommandInProcess /\ mCommandCurrent # <<>>
        /\ mCommandCurrent' = Tail(mCommandCurrent)
        /\ wire' = Append(wire, Head(mCommandCurrent))
        /\ UNCHANGED <<registered, ended, mCommandInProcess>>
    BY <1>14 DEF SendOrder, OrderReady
  <2>2. PICK p \in 0..Len(Served) : mCommandCurrent = From(Served, p + 1)
    BY <1>2, <2>1
  <2>3. ended < Len(registered) /\ Served \in Seq(Orders) /\ Len(Served) \in Nat
    BY <1>2, <2>1
  <2>4. p + 1 \in Nat \ {0} /\ p + 1 <= Len(Served) + 1
    BY <2>3
  <2>5. /\ p + 1 <= Len(Served)
        /\ Head(mCommandCurrent) = Served[p + 1]
        /\ Len(mCommandCurrent) = Len(Served) - (p + 1) + 1
    BY <2>1, <2>2, <2>3, <2>4, FromTail, FromType
  <2>6. Len(mCommandCurrent') = Len(mCommandCurrent) - 1
    BY <1>1, <2>1, HeadTailProperties
  <2>7. pos = p /\ pos' = p + 1
    <3>1. /\ pos = Len(Served) - Len(mCommandCurrent)
          /\ pos' = Len(Served) - Len(mCommandCurrent')
      BY <2>1 DEF Served
    <3>2. p \in Int
      OBVIOUS
    <3> HIDE DEF pos
    <3> QED BY <2>3, <2>5, <2>6, <3>1, <3>2
  <2> HIDE DEF pos
  <2>8. /\ pos < Len(registered[ended + 1]) /\ pos' = pos + 1
        /\ wire' = Append(wire, registered[ended + 1][pos + 1])
    BY <2>1, <2>3, <2>5, <2>7 DEF Served
  <2> QED BY <2>1, <2>3, <2>8 DEF pos, CS!Next, CS!Send, CS!Current
<1>15. CASE UNCHANGED vars
  BY <1>3, <1>15 DEF vars, engineVars, historyVars
<1> QED
  BY <1>5, <1>6, <1>7, <1>8, <1>9, <1>10, <1>11, <1>12, <1>13, <1>14, <1>15
  DEF Next, IoThread, CommandStateMachine, User, Finished

(* The service implements the command stream: whatever the interleaving of   *)
(* user, io thread, timer and line, and whatever fails, orders go out in the *)
(* order of registration, each once, and commandEnded is emitted once for    *)
(* each command after its last order.                                        *)
THEOREM ServiceImplementsStream == Spec => ImplementsCommandStream
<1>1. Init => CS!Init
  BY DEF Init, CS!Init
<1>2. TypeInv /\ [Next]_vars => TypeInv'
  BY NextReadsFit, NextTypeOK DEF TypeInv
<1> QED
  BY InitTypeInv, InitBacklog, NextBacklog, StepImplements, <1>1, <1>2, PTL
  DEF Spec, ImplementsCommandStream, CS!Spec
-----------------------------------------------------------------------------
(* What a handler may do: wake the engine, end an order (by the timer, or by *)
(* the packets of a completed read), or neither (a failed read).             *)
Kind(e) ==
    CASE e.h = "commandStateMachine" -> "wake"
      [] e.h = "endOrder" -> "end"
      [] OTHER -> IF e.ec THEN "none" ELSE "end"

(* No handler of kind b is queued behind one of kind a; none of kind a is.   *)
Apart(queue, a, b) ==
    \A i, j \in DOMAIN queue : i < j => ~(Kind(queue[i]) = a /\ Kind(queue[j]) = b)

Without(queue, a) == \A i \in DOMAIN queue : Kind(queue[i]) # a

(* Every timer handler of a queue is that of order n.                        *)
TimersOf(queue, n) ==
    \A i \in DOMAIN queue : queue[i].h = "endOrder" => queue[i].n = n

(* Every handler has one kind, and the handlers that end an order are of     *)
(* kind end.                                                                 *)
LEMMA Kinds ==
    /\ Kind(StateMachine) = "wake"
    /\ \A n \in Nat, ec \in BOOLEAN : Kind(TimerDone(n, ec)) = "end"
    /\ \A n \in Nat : Kind(ReadDone(n, TRUE)) = "none" /\ Kind(ReadDone(n, FALSE)) = "end"
    /\ \A e \in Handlers : e.h = "endOrder" => Kind(e) = "end"
BY DEF Kind, StateMachine, TimerDone, ReadDone, Handlers

(* Running the head of a queue keeps the rest apart; a head of kind a leaves *)
(* no b behind it.                                                           *)
LEMMA TailApart ==
    ASSUME NEW queue \in Seq(Handlers), queue # <<>>, NEW a, NEW b
    PROVE  /\ Apart(queue, a, b) => Apart(Tail(queue), a, b)
           /\ Apart(queue, a, b) /\ Kind(Head(queue)) = a => Without(Tail(queue), b)
           /\ Without(queue, a) => Without(Tail(queue), a)
           /\ \A n : TimersOf(queue, n) => TimersOf(Tail(queue), n)
<1> DEFINE rest == Tail(queue)
<1>1. /\ Len(rest) = Len(queue) - 1 /\ Head(queue) = queue[1]
      /\ Len(queue) \in Nat \ {0} /\ Len(rest) \in Nat
      /\ DOMAIN queue = 1..Len(queue) /\ DOMAIN rest = 1..Len(rest)
  BY HeadTailProperties, LenProperties, EmptySeq
<1>2. \A i \in DOMAIN rest : i + 1 \in DOMAIN queue /\ 1 < i + 1 /\ rest[i] = queue[i + 1]
  BY <1>1, HeadTailProperties
<1>3. 1 \in DOMAIN queue /\ \A i, j \in DOMAIN rest : i < j => i + 1 < j + 1
  BY <1>1
<1> HIDE DEF rest
<1>4. Apart(queue, a, b) => Apart(rest, a, b)
  BY <1>2, <1>3 DEF Apart
<1>5. Apart(queue, a, b) /\ Kind(queue[1]) = a => Without(rest, b)
  BY <1>2, <1>3 DEF Apart, Without
<1>6. Without(queue, a) => Without(rest, a)
  BY <1>2 DEF Without
<1>7. \A n : TimersOf(queue, n) => TimersOf(rest, n)
  BY <1>2 DEF TimersOf
<1> QED BY <1>1, <1>4, <1>5, <1>6, <1>7 DEF rest

(* A handler may be appended when it is not one that must not follow.        *)
LEMMA AppendApart ==
    ASSUME NEW queue \in Seq(Handlers), NEW e \in Handlers, NEW a, NEW b
    PROVE  /\ Apart(queue, a, b) /\ (Kind(e) # b \/ Without(queue, a))
                 => Apart(Append(queue, e), a, b)
           /\ Without(queue, a) /\ Kind(e) # a => Without(Append(queue, e), a)
           /\ \A n : TimersOf(queue, n) /\ (e.h = "endOrder" => e.n = n)
                        => TimersOf(Append(queue, e), n)
<1> DEFINE longer == Append(queue, e)
           last == Len(queue) + 1
<1>1. /\ DOMAIN longer = DOMAIN queue \cup {last}
      /\ longer[last] = e /\ last \in Nat
      /\ \A i \in DOMAIN queue : longer[i] = queue[i] /\ i \in Nat /\ i < last
  BY LenProperties, AppendProperties
<1> HIDE DEF longer, last
<1>2. \A i, j \in DOMAIN longer : i < j => i \in DOMAIN queue
  BY <1>1
<1>3. ASSUME Apart(queue, a, b), Kind(e) # b \/ Without(queue, a) PROVE Apart(longer, a, b)
  BY <1>1, <1>2, <1>3 DEF Apart, Without
<1>4. ASSUME Without(queue, a), Kind(e) # a PROVE Without(longer, a)
  BY <1>1, <1>4 DEF Without
<1>5. \A n : TimersOf(queue, n) /\ (e.h = "endOrder" => e.n = n) => TimersOf(longer, n)
  BY <1>1 DEF TimersOf
<1> QED BY <1>3, <1>4, <1>5 DEF longer

(* The handlers of aborted reads are of no consequence.                      *)
LEMMA AbortedApart ==
    ASSUME NEW queue \in Seq(Handlers), reads \in Nat, NEW a, NEW b
    PROVE  /\ a # "none" /\ b # "none" /\ Apart(queue, a, b)
                 => Apart(queue \o Aborted, a, b)
           /\ a # "none" /\ Without(queue, a) => Without(queue \o Aborted, a)
           /\ \A n : TimersOf(queue, n) => TimersOf(queue \o Aborted, n)
<1> DEFINE longer == queue \o Aborted
<1>1. ReadDone(0, TRUE) \in Handlers /\ Kind(ReadDone(0, TRUE)) = "none"
      /\ ReadDone(0, TRUE).h # "endOrder"
  BY Kinds DEF ReadDone, Handlers
<1>2. Aborted \in [1..reads -> Handlers]
  BY <1>1 DEF Aborted
<1>3. /\ Aborted \in Seq(Handlers) /\ Len(Aborted) = reads
      /\ \A i \in 1..reads : Aborted[i] = ReadDone(0, TRUE)
  <2>1. Aborted \in Seq(Handlers) /\ Len(Aborted) = reads
    BY <1>2
  <2>2. \A i \in 1..reads : Aborted[i] = ReadDone(0, TRUE)
    BY DEF Aborted
  <2> QED BY <2>1, <2>2
<1>4. /\ Len(longer) = Len(queue) + reads /\ longer \in Seq(Handlers) /\ Len(queue) \in Nat
      /\ DOMAIN queue = 1..Len(queue)
      /\ \A i \in 1..Len(longer) :
            longer[i] = IF i <= Len(queue) THEN queue[i] ELSE Aborted[i - Len(queue)]
  BY <1>3, ConcatProperties, LenProperties
<1> HIDE DEF longer
<1>5. DOMAIN longer = 1..Len(longer)
  BY <1>4, LenProperties
<1>6. \A i \in DOMAIN longer :
         \/ i \in DOMAIN queue /\ longer[i] = queue[i]
         \/ longer[i] = ReadDone(0, TRUE)
  <2> SUFFICES ASSUME NEW i \in 1..Len(longer)
               PROVE  \/ i \in DOMAIN queue /\ longer[i] = queue[i]
                      \/ longer[i] = ReadDone(0, TRUE)
    BY <1>5
  <2>1. CASE i <= Len(queue)
    <3>1. longer[i] = queue[i]
      BY <1>4, <2>1
    <3>2. i \in 1..Len(queue)
      BY <1>4, <2>1
    <3> QED BY <1>4, <3>1, <3>2
  <2>2. CASE ~(i <= Len(queue))
    <3>1. longer[i] = Aborted[i - Len(queue)]
      BY <1>4, <2>2
    <3>2. i - Len(queue) \in 1..reads
      BY <1>4, <2>2
    <3> QED BY <1>3, <3>1, <3>2
  <2> QED BY <2>1, <2>2
<1>7. ASSUME a # "none", b # "none", Apart(queue, a, b) PROVE Apart(longer, a, b)
  BY <1>1, <1>6, <1>7 DEF Apart
<1>8. ASSUME a # "none", Without(queue, a) PROVE Without(longer, a)
  BY <1>1, <1>6, <1>8 DEF Without
<1>9. \A n : TimersOf(queue, n) => TimersOf(longer, n)
  BY <1>1, <1>6 DEF TimersOf
<1> QED BY <1>7, <1>8, <1>9 DEF longer

(* The end of an order wakes the engine behind everything that could still   *)
(* end an order.                                                             *)
LEMMA EndOrderApart ==
    ASSUME mOrderTimeout \in Nat, NEW queue \in Seq(Handlers), EndOrder(queue),
           Without(queue, "wake") \/ (mOrderTimeout = 0 /\ Apart(queue, "wake", "end"))
    PROVE  Apart(mIos', "wake", "end")
<1> DEFINE e == TimerDone(mOrderTimeout, TRUE)
           queue2 == queue \o Cancelled
<1>1. e \in Handlers /\ Kind(e) = "end"
  BY Kinds DEF TimerDone, Handlers
<1>2. StateMachine \in Handlers /\ Kind(StateMachine) = "wake"
  BY Kinds DEF StateMachine, Handlers
<1>3. queue2 \in Seq(Handlers)
  BY ReadsCancelled
<1>4. Apart(queue2, "wake", "end")
  <2>1. CASE mOrderTimeout = 0
    <3>1. queue2 = queue
      BY <2>1, ConcatEmptySeq DEF Cancelled
    <3> QED BY <3>1 DEF Apart, Without
  <2>2. CASE mOrderTimeout # 0
    <3>1. queue2 = Append(queue, e) /\ Without(queue, "wake")
      BY <1>1, <2>2, AppendIsConcat DEF Cancelled
    <3>2. Without(Append(queue, e), "wake")
      BY <1>1, <3>1, AppendApart
    <3> QED BY <3>1, <3>2 DEF Apart, Without
  <2> QED BY <2>1, <2>2
<1> HIDE DEF queue2
<1>5. Apart(Append(queue2, StateMachine), "wake", "end")
  BY <1>2, <1>3, <1>4, AppendApart
<1> QED BY <1>5 DEF EndOrder, queue2

(* An order in process has its own timer only, and nothing wakes the engine  *)
(* behind a handler that may end it; between two orders, nothing that may    *)
(* end an order is queued behind a handler that wakes the engine.            *)
ClosedInv ==
    /\ mOrderTimeout # 0 => mOrderInProcess /\ mOrderTimeout = Len(wire)
    /\ mOrderInProcess => mCommandInProcess
    /\ mOrderInProcess => /\ Apart(mIos, "end", "wake")
                          /\ mCommandMutex # "free" => Without(mIos, "wake")
                          /\ TimersOf(mIos, Len(wire))
    /\ ~mOrderInProcess => Apart(mIos, "wake", "end")

(* Closed loop: a step keeps the handlers of two orders apart.               *)
LEMMA NextClosedInv ==
    ASSUME ~OpenLoop, ~LateAnswers
    PROVE  TypeInv /\ ClosedInv /\ [Next]_vars => ClosedInv'
<1> SUFFICES ASSUME TypeInv, ClosedInv, [Next]_vars PROVE ClosedInv'
  OBVIOUS
<1> USE DEF portVars, engineVars, readVars, historyVars
<1>1. /\ mIos \in Seq(Handlers) /\ mOrderTimeout \in Nat /\ reads \in Nat
      /\ StateMachine \in Handlers /\ Kind(StateMachine) = "wake"
      /\ StateMachine.h # "endOrder"
  BY Kinds DEF TypeInv, TypeOK, StateMachine, Handlers
<1>2. mIos # <<>> => Tail(mIos) \in Seq(Handlers) /\ Head(mIos) \in Handlers
  BY <1>1, HeadTailProperties
<1>3. ASSUME UNCHANGED <<mOrderInProcess, mCommandInProcess, mOrderTimeout, wire>>,
             mCommandMutex' # "free" => mCommandMutex # "free",
             Apart(mIos, "end", "wake") => Apart(mIos', "end", "wake"),
             Apart(mIos, "wake", "end") => Apart(mIos', "wake", "end"),
             Without(mIos, "wake") => Without(mIos', "wake"),
             TimersOf(mIos, Len(wire)) => TimersOf(mIos', Len(wire))
      PROVE  ClosedInv'
  BY <1>3 DEF ClosedInv
<1>4. ASSUME UNCHANGED <<mOrderInProcess, mCommandInProcess, mOrderTimeout, wire, mIos>>,
             mCommandMutex' # "free" => mCommandMutex # "free"
      PROVE  ClosedInv'
  BY <1>3, <1>4
<1>5. ASSUME UNCHANGED <<mOrderInProcess, mCommandInProcess, mOrderTimeout, wire>>,
             mCommandMutex' # "free" => mCommandMutex # "free",
             mIos # <<>>, mIos' = Tail(mIos)
      PROVE  ClosedInv'
  BY <1>1, <1>3, <1>5, TailApart
<1>6. ASSUME NEW cmd, RegisterCommand(cmd) PROVE ClosedInv'
  <2>1. /\ ~mOrderInProcess /\ ~mOrderInProcess' /\ mOrderTimeout' = 0
        /\ mIos' = Append(mIos, StateMachine)
    BY <1>6 DEF RegisterCommand, ClosedInv
  <2>2. Apart(mIos', "wake", "end")
    BY <1>1, <2>1, AppendApart DEF ClosedInv
  <2> QED BY <2>1, <2>2 DEF ClosedInv
<1>7. CASE UserCommand \/ SendPing \/ ServoPull
  BY <1>6, <1>7 DEF UserCommand, SendPing, ServoPull
<1>8. CASE \/ StartAlreadyOpened \/ StartOpens \/ StartReads \/ StartFails \/ StopThrows \/ Destroy
           \/ Garble \/ WriteFails \/ ParseEnds \/ ParseWithoutOrder
  BY <1>4, <1>8 DEF StartAlreadyOpened, StartOpens, StartReads, StartFails, StopThrows, Destroy,
                    Garble, WriteFails, ParseEnds, ParseWithoutOrder
<1>9. CASE StopReturns
  BY <1>1, <1>3, <1>9, AbortedApart DEF StopReturns
<1>10. CASE NoCommand \/ OrderRunning \/ ReadFailed
  BY <1>5, <1>10 DEF NoCommand, OrderRunning, ReadFailed, Runs
<1>11. CASE NextCommand \/ CommandOver
  <2>1. /\ mIos # <<>> /\ mIos' = Append(Tail(mIos), StateMachine)
        /\ UNCHANGED <<mOrderInProcess, mOrderTimeout>>
    BY <1>11 DEF NextCommand, CommandOver, Runs
  <2>2. ~mOrderInProcess
    BY <1>11 DEF NextCommand, CommandOver, ClosedInv
  <2>3. Apart(Tail(mIos), "wake", "end")
    BY <1>1, <2>1, <2>2, TailApart DEF ClosedInv
  <2>4. Apart(mIos', "wake", "end")
    BY <1>1, <1>2, <2>1, <2>3, AppendApart
  <2> QED BY <2>1, <2>2, <2>4 DEF ClosedInv
<1>12. CASE SendOrder
  <2>1. /\ mIos # <<>> /\ Head(mIos).h = "commandStateMachine" /\ ~mOrderInProcess
        /\ mCommandInProcess' /\ mCommandMutex' = "free" /\ mOrderInProcess'
        /\ mIos' = Tail(mIos) \o Cancelled /\ mOrderTimeout' = Len(wire) + 1
        /\ wire' = Append(wire, Head(mCommandCurrent)) /\ mCommandCurrent # <<>>
    BY <1>12 DEF SendOrder, OrderReady, StartTimeout, Runs
  <2>2. Len(wire') = Len(wire) + 1
    BY <2>1, AppendProperties, HeadTailProperties DEF TypeInv, TypeOK
  <2>3. mIos' = Tail(mIos)
    <3>1. Cancelled = <<>>
      BY <2>1 DEF ClosedInv, Cancelled
    <3> QED BY <1>2, <2>1, <3>1, ConcatEmptySeq
  <2>4. Without(Tail(mIos), "end")
    <3>1. Kind(Head(mIos)) = "wake"
      BY <2>1 DEF Kind
    <3> QED BY <1>1, <2>1, <3>1, TailApart DEF ClosedInv
  <2>5. Apart(Tail(mIos), "end", "wake")
    BY <2>4 DEF Without, Apart
  <2>6. TimersOf(Tail(mIos), Len(wire'))
    <3>1. \A i \in DOMAIN Tail(mIos) : Tail(mIos)[i] \in Handlers
      BY <1>2, <2>1, ElementOfSeq, LenProperties
    <3> QED BY <2>4, <3>1, Kinds DEF Without, TimersOf
  <2> QED BY <2>1, <2>2, <2>3, <2>5, <2>6 DEF ClosedInv
<1>13. ASSUME NEW queue \in Seq(Handlers), EndOrder(queue),
              mOrderInProcess => Without(queue, "wake"),
              ~mOrderInProcess => Apart(queue, "wake", "end")
       PROVE  ClosedInv'
  <2>1. ~mOrderInProcess => mOrderTimeout = 0
    BY DEF ClosedInv
  <2>2. Apart(mIos', "wake", "end")
    BY <1>1, <1>13, <2>1, EndOrderApart
  <2>3. ~mOrderInProcess' /\ mOrderTimeout' = 0
    BY <1>13 DEF EndOrder
  <2> QED BY <2>2, <2>3 DEF ClosedInv
<1>14. CASE RunEndOrder
  <2>1. mIos # <<>> /\ Head(mIos).h = "endOrder" /\ EndOrder(Tail(mIos))
    BY <1>14 DEF RunEndOrder, Runs
  <2>2. Kind(Head(mIos)) = "end"
    BY <1>2, <2>1, Kinds
  <2>3. mOrderInProcess => Without(Tail(mIos), "wake")
    BY <1>1, <2>1, <2>2, TailApart DEF ClosedInv
  <2>4. ~mOrderInProcess => Apart(Tail(mIos), "wake", "end")
    BY <1>1, <2>1, TailApart DEF ClosedInv
  <2> QED BY <1>2, <1>13, <2>1, <2>3, <2>4
<1>15. CASE ReadReceivedData
  <2>1. /\ mIos # <<>> /\ Head(mIos).h = "readReceivedData" /\ ~Head(mIos).ec
        /\ mIos' = Tail(mIos)
        /\ UNCHANGED <<mOrderInProcess, mCommandInProcess, mOrderTimeout, wire>>
    BY <1>15 DEF ReadReceivedData, Runs
  <2>2. Kind(Head(mIos)) = "end"
    BY <2>1 DEF Kind
  <2>3. mOrderInProcess => Without(mIos', "wake") /\ Apart(mIos', "end", "wake")
                           /\ TimersOf(mIos', Len(wire))
    BY <1>1, <2>1, <2>2, TailApart DEF ClosedInv
  <2>4. ~mOrderInProcess => Apart(mIos', "wake", "end")
    BY <1>1, <2>1, TailApart DEF ClosedInv
  <2> QED BY <2>1, <2>3, <2>4 DEF ClosedInv
<1>16. CASE ParsePacket
  <2>1. mCommandMutex # "free" /\ UNCHANGED <<mCommandMutex, mCommandInProcess, wire>>
    BY <1>16 DEF ParsePacket, PacketNext, Parsing
  <2>2. EndOrder(mIos) \/ UNCHANGED <<mIos, mOrderInProcess, mOrderTimeout>>
    BY <1>16 DEF ParsePacket, ProcessPacket, ProcessPing, ProcessPull, ProcessPush
  <2>3. CASE EndOrder(mIos)
    <3>1. mOrderInProcess => Without(mIos, "wake")
      BY <2>1 DEF ClosedInv
    <3>2. ~mOrderInProcess => Apart(mIos, "wake", "end")
      BY DEF ClosedInv
    <3> QED BY <1>1, <1>13, <2>3, <3>1, <3>2
  <2> QED BY <1>4, <2>1, <2>2, <2>3
<1>17. CASE Expire
  <2> DEFINE e == TimerDone(mOrderTimeout, FALSE)
  <2>1. /\ mOrderTimeout # 0 /\ mOrderTimeout' = 0 /\ mCommandMutex' = "free"
        /\ mIos' = Append(mIos, e)
        /\ UNCHANGED <<mOrderInProcess, mCommandInProcess, wire>>
    BY <1>17 DEF Expire, Reactor
  <2>2. mOrderInProcess /\ e \in Handlers /\ Kind(e) = "end" /\ e.n = Len(wire)
    BY <1>1, <2>1, Kinds DEF ClosedInv, TimerDone, Handlers
  <2> HIDE DEF e
  <2>3. Apart(mIos', "end", "wake") /\ TimersOf(mIos', Len(wire))
    BY <1>1, <2>1, <2>2, AppendApart DEF ClosedInv
  <2> QED BY <2>1, <2>2, <2>3 DEF ClosedInv
<1>18. ASSUME NEW n \in 1..MaxChunk, Receive(n) PROVE ClosedInv'
  <2> DEFINE e == ReadDone(n, FALSE)
  <2>1. /\ mOrderInProcess /\ mCommandMutex' = "free" /\ mIos' = Append(mIos, e)
        /\ UNCHANGED <<mOrderInProcess, mCommandInProcess, mOrderTimeout, wire>>
    BY <1>18 DEF Receive, Reactor
  <2>2. e \in Handlers /\ Kind(e) = "end" /\ e.h # "endOrder"
    <3>1. e \in Handlers /\ e.h # "endOrder" /\ n \in Nat
      BY DEF ReadDone, Handlers
    <3>2. Kind(ReadDone(n, FALSE)) = "end"
      BY <3>1, Kinds
    <3> QED BY <3>1, <3>2
  <2> HIDE DEF e
  <2>3. Apart(mIos', "end", "wake") /\ TimersOf(mIos', Len(wire))
    BY <1>1, <2>1, <2>2, AppendApart DEF ClosedInv
  <2> QED BY <2>1, <2>3 DEF ClosedInv
<1>19. CASE ReadError
  <2> DEFINE e == ReadDone(0, TRUE)
  <2>1. /\ mIos' = Append(mIos, e) /\ mCommandMutex' = mCommandMutex
        /\ UNCHANGED <<mOrderInProcess, mCommandInProcess, mOrderTimeout, wire>>
    BY <1>19 DEF ReadError
  <2>2. e \in Handlers /\ Kind(e) = "none" /\ e.h # "endOrder"
    <3>1. e \in Handlers /\ e.h # "endOrder"
      BY DEF ReadDone, Handlers
    <3>2. Kind(ReadDone(0, TRUE)) = "none"
      BY Kinds
    <3> QED BY <3>1, <3>2
  <2> HIDE DEF e
  <2>3. /\ Apart(mIos, "end", "wake") => Apart(mIos', "end", "wake")
        /\ Apart(mIos, "wake", "end") => Apart(mIos', "wake", "end")
        /\ Without(mIos, "wake") => Without(mIos', "wake")
        /\ TimersOf(mIos, Len(wire)) => TimersOf(mIos', Len(wire))
    BY <1>1, <2>1, <2>2, AppendApart
  <2> QED BY <1>3, <2>1, <2>3
<1>20. CASE UNCHANGED vars
  BY <1>4, <1>20 DEF vars
<1> QED
  BY <1>7, <1>8, <1>9, <1>10, <1>11, <1>12, <1>14, <1>15, <1>16, <1>17, <1>18, <1>19, <1>20
  DEF Next, IoThread, CommandStateMachine, ReadHandler, User, Outside, Finished

(* In a closed loop ClosedInv always holds.                                  *)
LEMMA ClosedKept ==
    ASSUME ~OpenLoop, ~LateAnswers
    PROVE  Spec => []ClosedInv
<1>1. Init => ClosedInv
  BY DEF Init, ClosedInv, Apart
<1>2. TypeInv /\ [Next]_vars => TypeInv'
  BY NextReadsFit, NextTypeOK DEF TypeInv
<1>3. TypeInv /\ ClosedInv /\ [Next]_vars => ClosedInv'
  BY NextClosedInv
<1> QED BY <1>1, <1>2, <1>3, InitTypeInv, PTL DEF Spec

(* When commands are registered one at a time and no answer comes late, an   *)
(* order is never ended by the timer of an earlier one, whatever the port,   *)
(* stop and start do.                                                        *)
THEOREM TimerOfItsOrder ==
    ASSUME ~OpenLoop, ~LateAnswers
    PROVE  Spec => []TimerEndsOnlyItsOrder
<1>1. TypeInv /\ ClosedInv => TimerEndsOnlyItsOrder
  <2> SUFFICES ASSUME TypeInv, ClosedInv, Runs("endOrder"), mOrderInProcess
               PROVE  Head(mIos).n = Len(wire)
    BY DEF TimerEndsOnlyItsOrder
  <2>1. mIos \in Seq(Handlers) /\ mIos # <<>> /\ Head(mIos).h = "endOrder"
    BY DEF Runs, TypeInv, TypeOK
  <2>2. 1 \in DOMAIN mIos /\ Head(mIos) = mIos[1]
    BY <2>1, HeadTailProperties, LenProperties, EmptySeq
  <2> QED BY <2>1, <2>2 DEF ClosedInv, TimersOf
<1>2. TypeInv /\ [Next]_vars => TypeInv'
  BY NextReadsFit, NextTypeOK DEF TypeInv
<1> QED BY <1>1, <1>2, InitTypeInv, ClosedKept, PTL DEF Spec
-----------------------------------------------------------------------------
(* What the last order made the line carry: its echo and the answers to it.  *)
CurrentItems == {e \in Items : e.ins # "Noise" /\ e.order = Len(wire)}

(* Handlers of completed reads whose bytes are all of the last order.        *)
CurrentHandlers ==
    {e \in Handlers : e.h = "readReceivedData" /\ ~e.ec =>
                          \A k \in 1..e.n : mReadBuffer[k] \in CurrentItems}

(* Everything on its way to the parser is of the last order, and the parser  *)
(* leaves nothing behind.                                                    *)
ItemsInv ==
    /\ mOrderInProcess => wire # <<>>
    /\ wire # <<>> => bus \in Seq(CurrentItems)
    /\ mIos \in Seq(CurrentHandlers)
    /\ mParseBuffer \in Seq(CurrentItems)
    /\ mCommandMutex = "free" => mParseBuffer = <<>>

(* A sequence is over any set that holds all its elements.                   *)
LEMMA Retyped ==
    ASSUME NEW S, NEW T, NEW seq \in Seq(S), \A i \in 1..Len(seq) : seq[i] \in T
    PROVE  seq \in Seq(T)
<1>1. seq \in [1..Len(seq) -> T] /\ Len(seq) \in Nat
  BY LenProperties
<1> QED BY <1>1

(* Handlers that carry no bytes are of every order.                          *)
LEMMA HandlersCurrent ==
    /\ CurrentHandlers \subseteq Handlers
    /\ StateMachine \in CurrentHandlers
    /\ ReadDone(0, TRUE) \in CurrentHandlers
    /\ \A n \in Nat, ec \in BOOLEAN : TimerDone(n, ec) \in CurrentHandlers
BY DEF CurrentHandlers, Handlers, StateMachine, ReadDone, TimerDone

(* So is the handler of a cancelled timer.                                   *)
LEMMA CancelledCurrent ==
    ASSUME mOrderTimeout \in Nat PROVE Cancelled \in Seq(CurrentHandlers)
<1>1. <<TimerDone(mOrderTimeout, TRUE)>> \in Seq(CurrentHandlers)
  BY HandlersCurrent, SingletonType
<1>2. <<>> \in Seq(CurrentHandlers)
  OBVIOUS
<1> QED BY <1>1, <1>2 DEF Cancelled

(* The line carries only what the order just written made of it.             *)
LEMMA SentIsCurrent ==
    ASSUME NEW order \in Orders, NEW q \in Replies(order, Len(wire) + 1),
           wire \in Seq(Orders), wire' = Append(wire, order)
    PROVE  /\ q \in Seq(CurrentItems') /\ EchoOf(order, Len(wire) + 1) \in Seq(CurrentItems')
<1> DEFINE n == Len(wire) + 1
<1>1. Len(wire') = n /\ n \in Nat
  BY AppendProperties, LenProperties
<1>2. q \in Seq(CurrentItems')
  <2>1. PICK k \in 0..Cardinality(Servos) : q \in [1..k -> Statuses(order, n)]
    BY DEF Replies
  <2>2. Statuses(order, n) \subseteq CurrentItems'
    BY <1>1 DEF Statuses, Addressed, Items, CurrentItems
  <2>3. k \in Nat /\ q \in [1..k -> CurrentItems']
    BY <2>1, <2>2
  <2> QED BY <2>3
<1>3. EchoOf(order, n) \in Seq(CurrentItems')
  <2> DEFINE echo == [ins |-> order.ins, id |-> order.id, order |-> n]
  <2>1. order.ins \in Instructions /\ order.id \in Servos \cup {BroadcastId}
    BY DEF Orders
  <2>2. echo \in CurrentItems'
    BY <1>1, <2>1 DEF Items, CurrentItems, Instructions
  <2>3. <<echo>> \in Seq(CurrentItems') /\ <<>> \in Seq(CurrentItems')
    BY <2>2
  <2> QED BY <2>3 DEF EchoOf
<1> QED BY <1>2, <1>3

(* Closed loop without noise: a step keeps the line clean of earlier orders. *)
LEMMA NextItemsInv ==
    ASSUME ~OpenLoop, ~LateAnswers, "noise" \notin FaultKinds,
           "write" \notin FaultKinds \/ ~Echo
    PROVE  TypeInv /\ ClosedInv /\ OrderInv /\ ItemsInv /\ [Next]_vars => ItemsInv'
<1> SUFFICES ASSUME TypeInv, ClosedInv, OrderInv, ItemsInv, [Next]_vars PROVE ItemsInv'
  OBVIOUS
<1> USE DEF portVars, engineVars, readVars, historyVars
<1>1. /\ mIos \in Seq(CurrentHandlers) /\ mIos \in Seq(Handlers) /\ mOrderTimeout \in Nat
      /\ reads \in Nat /\ wire \in Seq(Orders) /\ StateMachine \in CurrentHandlers
      /\ mParseBuffer \in Seq(CurrentItems)
  BY HandlersCurrent DEF TypeInv, TypeOK, ItemsInv
<1>2. mIos # <<>> => Tail(mIos) \in Seq(CurrentHandlers) /\ Head(mIos) \in CurrentHandlers
  BY <1>1, HeadTailProperties
<1>3. ASSUME UNCHANGED <<wire, mReadBuffer>>
      PROVE  CurrentItems' = CurrentItems /\ CurrentHandlers' = CurrentHandlers
  BY <1>3 DEF CurrentItems, CurrentHandlers
<1>4. ASSUME UNCHANGED <<wire, mReadBuffer, bus, mParseBuffer, mCommandMutex>>,
             mOrderInProcess' => mOrderInProcess, mIos' \in Seq(CurrentHandlers)
      PROVE  ItemsInv'
  BY <1>3, <1>4 DEF ItemsInv
<1>5. ASSUME UNCHANGED <<wire, mReadBuffer, bus, mParseBuffer, mCommandMutex, mIos,
                         mOrderInProcess>>
      PROVE  ItemsInv'
  BY <1>1, <1>4, <1>5
<1>6. ASSUME NEW cmd, RegisterCommand(cmd) PROVE ItemsInv'
  <2>1. Append(mIos, StateMachine) \in Seq(CurrentHandlers)
    BY <1>1, AppendProperties
  <2> QED BY <1>4, <1>6, <2>1 DEF RegisterCommand
<1>7. CASE UserCommand \/ SendPing \/ ServoPull
  BY <1>6, <1>7 DEF UserCommand, SendPing, ServoPull
<1>8. CASE \/ StartAlreadyOpened \/ StartOpens \/ StartReads \/ StartFails \/ StopThrows \/ Destroy
           \/ WriteFails \/ ParseWithoutOrder
  BY <1>5, <1>8 DEF StartAlreadyOpened, StartOpens, StartReads, StartFails, StopThrows, Destroy,
                    WriteFails, ParseWithoutOrder
<1>9. CASE Garble
  BY <1>9 DEF Garble, Fault
<1>10. CASE StopReturns
  <2>1. ReadDone(0, TRUE) \in CurrentHandlers
    BY HandlersCurrent
  <2>2. Aborted \in [1..reads -> CurrentHandlers]
    BY <2>1 DEF Aborted
  <2>3. Aborted \in Seq(CurrentHandlers)
    BY <1>1, <2>2
  <2>4. mIos \o Aborted \in Seq(CurrentHandlers)
    BY <1>1, <2>3, ConcatProperties
  <2> QED BY <1>4, <1>10, <2>4 DEF StopReturns
<1>11. CASE NoCommand \/ OrderRunning \/ ReadFailed
  BY <1>2, <1>4, <1>11 DEF NoCommand, OrderRunning, ReadFailed, Runs
<1>12. CASE NextCommand \/ CommandOver
  <2>1. mIos # <<>> /\ mIos' = Append(Tail(mIos), StateMachine)
    BY <1>12 DEF NextCommand, CommandOver, Runs
  <2>2. mIos' \in Seq(CurrentHandlers)
    BY <1>1, <1>2, <2>1, AppendProperties
  <2> QED BY <1>4, <1>12, <2>2 DEF NextCommand, CommandOver
<1>13. CASE SendOrder
  <2> DEFINE order == Head(mCommandCurrent)
  <2>1. /\ mIos # <<>> /\ Head(mIos).h = "commandStateMachine" /\ ~mOrderInProcess
        /\ mCommandMutex = "free" /\ mCommandCurrent # <<>>
        /\ mIos' = Tail(mIos) \o Cancelled /\ wire' = Append(wire, order)
        /\ UNCHANGED <<mReadBuffer, mParseBuffer, mCommandMutex>>
    BY <1>13 DEF SendOrder, OrderReady, StartTimeout, Runs
  <2>2. \/ \E q \in Replies(order, Len(wire) + 1) :
              bus' = <<>> \o EchoOf(order, Len(wire) + 1) \o q
        \/ bus' = <<>> \o <<>>
    <3>1. Written(order, Len(wire) + 1)
      BY <1>13 DEF SendOrder
    <3> QED BY <3>1 DEF Written, Fault
  <2>3. order \in Orders
    BY <2>1, HeadTailProperties DEF TypeInv, TypeOK
  <2> HIDE DEF order
  <2>4. bus' \in Seq(CurrentItems')
    <3>1. ASSUME NEW q \in Replies(order, Len(wire) + 1)
          PROVE  <<>> \o EchoOf(order, Len(wire) + 1) \o q \in Seq(CurrentItems')
      <4>1. q \in Seq(CurrentItems') /\ EchoOf(order, Len(wire) + 1) \in Seq(CurrentItems')
        BY <1>1, <2>1, <2>3, <3>1, SentIsCurrent
      <4>2. <<>> \o EchoOf(order, Len(wire) + 1) \in Seq(CurrentItems')
        BY <4>1, ConcatEmptySeq
      <4> QED BY <4>1, <4>2, ConcatProperties
    <3>2. <<>> \o <<>> \in Seq(CurrentItems')
      <4>1. <<>> \in Seq(CurrentItems')
        OBVIOUS
      <4> QED BY <4>1, ConcatEmptySeq
    <3> QED BY <2>2, <3>1, <3>2
  <2>5. mIos' \in Seq(CurrentHandlers')
    <3>1. mIos' = Tail(mIos)
      <4>1. Cancelled = <<>>
        BY <2>1 DEF ClosedInv, Cancelled
      <4> QED BY <1>2, <2>1, <4>1, ConcatEmptySeq
    <3>2. Without(Tail(mIos), "end")
      <4>1. Kind(Head(mIos)) = "wake"
        BY <2>1 DEF Kind
      <4> QED BY <1>1, <2>1, <4>1, TailApart DEF ClosedInv
    <3>3. Tail(mIos) \in Seq(Handlers)
      BY <1>1, <2>1, HeadTailProperties
    <3>4. \A i \in 1..Len(Tail(mIos)) : Tail(mIos)[i] \in CurrentHandlers'
      <4> TAKE i \in 1..Len(Tail(mIos))
      <4>1. Tail(mIos)[i] \in Handlers /\ Kind(Tail(mIos)[i]) # "end"
        BY <3>2, <3>3, ElementOfSeq, LenProperties DEF Without
      <4> HIDE DEF Handlers
      <4> QED BY <4>1 DEF CurrentHandlers, Kind
    <3>5. Tail(mIos) \in Seq(CurrentHandlers')
      BY <3>3, <3>4, Retyped
    <3> QED BY <3>1, <3>5
  <2>6. wire' # <<>> /\ mParseBuffer' = <<>>
    BY <1>1, <2>1, <2>3, AppendProperties DEF ItemsInv
  <2>7. <<>> \in Seq(CurrentItems')
    OBVIOUS
  <2> QED BY <2>4, <2>5, <2>6, <2>7 DEF ItemsInv
<1>14. ASSUME NEW queue \in Seq(CurrentHandlers), EndOrder(queue)
       PROVE  mIos' \in Seq(CurrentHandlers) /\ ~mOrderInProcess'
  <2>1. queue \o Cancelled \in Seq(CurrentHandlers)
    BY <1>1, CancelledCurrent, ConcatProperties
  <2>2. Append(queue \o Cancelled, StateMachine) \in Seq(CurrentHandlers)
    BY <1>1, <2>1, AppendProperties
  <2> QED BY <1>14, <2>2 DEF EndOrder
<1>15. CASE RunEndOrder
  <2>1. EndOrder(Tail(mIos)) /\ mIos # <<>>
    BY <1>15 DEF RunEndOrder, Runs
  <2> QED BY <1>2, <1>4, <1>14, <1>15, <2>1 DEF RunEndOrder
<1>16. CASE ReadReceivedData
  <2> DEFINE n == Head(mIos).n
  <2>1. /\ mIos # <<>> /\ Head(mIos).h = "readReceivedData" /\ ~Head(mIos).ec
        /\ mIos' = Tail(mIos) /\ mCommandMutex = "free" /\ mCommandMutex' # "free"
        /\ mParseBuffer' = mParseBuffer \o SubSeq(mReadBuffer, 1, n)
        /\ UNCHANGED <<mReadBuffer, wire, bus, mOrderInProcess>>
    BY <1>16 DEF ReadReceivedData, Runs, Received
  <2>2. n \in Nat /\ \A k \in 1..n : mReadBuffer[k] \in CurrentItems
    BY <1>2, <2>1 DEF CurrentHandlers, Handlers
  <2> HIDE DEF n
  <2>3. SubSeq(mReadBuffer, 1, n) \in Seq(CurrentItems)
    BY <2>2, SubSeqProperties
  <2>4. mParseBuffer' \in Seq(CurrentItems)
    BY <1>1, <2>1, <2>3, ConcatProperties
  <2> QED BY <1>2, <1>3, <2>1, <2>4 DEF ItemsInv
<1>17. CASE ParseEnds
  <2>1. mParseBuffer = <<>>
    <3>1. ASSUME mParseBuffer # <<>> PROVE Head(mParseBuffer).ins # "Noise"
      BY <1>1, <3>1, HeadTailProperties DEF CurrentItems
    <3> QED BY <1>17, <3>1 DEF ParseEnds
  <2>2. mParseBuffer' = <<>> /\ UNCHANGED <<wire, mReadBuffer, bus, mIos, mOrderInProcess>>
    BY <1>17, <2>1 DEF ParseEnds
  <2> QED BY <1>3, <2>2 DEF ItemsInv
<1>18. CASE ParsePacket
  <2>1. /\ mCommandMutex # "free" /\ mCommandMutex' # "free" /\ mParseBuffer # <<>>
        /\ mParseBuffer' = Tail(mParseBuffer)
        /\ UNCHANGED <<wire, mReadBuffer, bus>>
    BY <1>18 DEF ParsePacket, PacketNext, Parsing
  <2>2. EndOrder(mIos) \/ UNCHANGED <<mIos, mOrderInProcess>>
    BY <1>18 DEF ParsePacket, ProcessPacket, ProcessPing, ProcessPull, ProcessPush
  <2>3. mIos' \in Seq(CurrentHandlers) /\ (mOrderInProcess' => mOrderInProcess)
    BY <1>1, <1>14, <2>2
  <2>4. mParseBuffer' \in Seq(CurrentItems)
    BY <1>1, <2>1, HeadTailProperties
  <2> QED BY <1>3, <2>1, <2>3, <2>4 DEF ItemsInv
<1>19. CASE Expire
  <2>1. Append(mIos, TimerDone(mOrderTimeout, FALSE)) \in Seq(CurrentHandlers)
    BY <1>1, HandlersCurrent, AppendProperties
  <2> QED BY <1>4, <1>19, <2>1 DEF Expire
<1>20. CASE ReadError
  <2>1. Append(mIos, ReadDone(0, TRUE)) \in Seq(CurrentHandlers)
    BY <1>1, HandlersCurrent, AppendProperties
  <2> QED BY <1>4, <1>20, <2>1 DEF ReadError
<1>21. ASSUME NEW n \in 1..MaxChunk, Receive(n) PROVE ItemsInv'
  <2>1. /\ n \in Nat /\ n <= Len(bus) /\ mOrderInProcess /\ wire' = wire
        /\ mReadBuffer' = SubSeq(bus, 1, n) \o SubSeq(mReadBuffer, n + 1, Len(mReadBuffer))
        /\ bus' = SubSeq(bus, n + 1, Len(bus)) /\ mIos' = Append(mIos, ReadDone(n, FALSE))
        /\ UNCHANGED <<mParseBuffer, mCommandMutex, mOrderInProcess>>
    BY <1>21 DEF Receive
  <2>2. /\ bus \in Seq(CurrentItems) /\ mReadBuffer \in Seq(Items)
        /\ Len(bus) \in Nat /\ Len(mReadBuffer) \in Nat
    BY <2>1, LenProperties DEF ItemsInv, TypeInv, TypeOK
  <2>3. CurrentItems' = CurrentItems
    BY <2>1 DEF CurrentItems
  <2>4. bus' \in Seq(CurrentItems)
    BY <2>1, <2>2, SubSeqProperties, ElementOfSeq
  <2> DEFINE a == SubSeq(bus, 1, n)
             b == SubSeq(mReadBuffer, n + 1, Len(mReadBuffer))
  <2>5. /\ a \in Seq(CurrentItems) /\ Len(a) = n
        /\ \A k \in 1..n : a[k] \in CurrentItems
    BY <2>1, <2>2, SubSeqProperties, ElementOfSeq
  <2>6. /\ b \in Seq(Items)
        /\ Len(b) = IF n + 1 <= Len(mReadBuffer) THEN Len(mReadBuffer) - n ELSE 0
        /\ \A k \in 1..Len(mReadBuffer) - n : b[k] = mReadBuffer[n + k]
    BY <2>1, <2>2, SubSeqProperties, ElementOfSeq
  <2>7. a \in Seq(Items)
    <3>1. CurrentItems \subseteq Items
      BY DEF CurrentItems
    <3> QED BY <2>5, <3>1, SeqMonotonic
  <2> HIDE DEF a, b
  <2>8. \A k \in 1..(Len(a) + Len(b)) :
           (a \o b)[k] = IF k <= Len(a) THEN a[k] ELSE b[k - Len(a)]
    BY <2>6, <2>7, ConcatProperties
  <2>9. \A k \in 1..n : (a \o b)[k] \in CurrentItems
    BY <2>1, <2>2, <2>5, <2>6, <2>8
  <2>10. \A k \in n+1..Len(mReadBuffer) : (a \o b)[k] = mReadBuffer[k]
    <3> TAKE k \in n+1..Len(mReadBuffer)
    <3>1. k - n \in 1..Len(mReadBuffer) - n /\ n + (k - n) = k
      BY <2>1, <2>2
    <3>2. k \in 1..(Len(a) + Len(b)) /\ ~(k <= Len(a))
      BY <2>1, <2>2, <2>5, <2>6
    <3>3. (a \o b)[k] = b[k - n]
      BY <2>5, <2>8, <3>2
    <3> QED BY <2>6, <3>1, <3>3
  <2>11. mReadBuffer' = a \o b
    BY <2>1 DEF a, b
  <2>12. \A e \in CurrentHandlers \cap FitHandlers : e \in CurrentHandlers'
    <3> TAKE e \in CurrentHandlers \cap FitHandlers
    <3>1. CASE e.h = "readReceivedData" /\ ~e.ec
      <4>1. \A k \in 1..e.n : mReadBuffer[k] \in CurrentItems
        BY <3>1 DEF CurrentHandlers
      <4>2. e.n \in Nat /\ e.n <= Len(mReadBuffer)
        BY <3>1 DEF FitHandlers, Handlers
      <4>3. \A k \in 1..e.n : k \in 1..n \/ k \in n+1..Len(mReadBuffer)
        BY <2>1, <2>2, <4>2
      <4>4. \A k \in 1..e.n : (a \o b)[k] \in CurrentItems
        BY <2>9, <2>10, <4>1, <4>3
      <4> QED BY <2>3, <2>11, <4>4 DEF CurrentHandlers
    <3>2. CASE ~(e.h = "readReceivedData" /\ ~e.ec)
      BY <3>2 DEF CurrentHandlers
    <3> QED BY <3>1, <3>2
  <2>13. mIos \in Seq(CurrentHandlers')
    <3>1. /\ mIos \in Seq(FitHandlers) /\ Len(mIos) \in Nat
          /\ \A i \in 1..Len(mIos) : mIos[i] \in CurrentHandlers /\ mIos[i] \in FitHandlers
      BY <1>1, ElementOfSeq, LenProperties DEF TypeInv, ReadsFit
    <3>2. \A i \in 1..Len(mIos) : mIos[i] \in CurrentHandlers'
      BY <2>12, <3>1
    <3> QED BY <3>1, <3>2, Retyped
  <2>14. ReadDone(n, FALSE) \in CurrentHandlers'
    BY <2>1, <2>3, <2>9, <2>11 DEF CurrentHandlers, Handlers, ReadDone
  <2>15. mIos' \in Seq(CurrentHandlers')
    BY <2>1, <2>13, <2>14, AppendProperties
  <2> QED BY <2>1, <2>3, <2>4, <2>15 DEF ItemsInv
<1>22. CASE UNCHANGED vars
  BY <1>5, <1>22 DEF vars
<1> QED
  BY <1>7, <1>8, <1>9, <1>10, <1>11, <1>12, <1>13, <1>15, <1>16, <1>17, <1>18, <1>19,
     <1>20, <1>21, <1>22
  DEF Next, IoThread, CommandStateMachine, ReadHandler, User, Outside, Finished

(* In a closed loop without noise, nothing of an earlier order is on its     *)
(* way.                                                                      *)
LEMMA ItemsKept ==
    ASSUME ~OpenLoop, ~LateAnswers, "noise" \notin FaultKinds,
           "write" \notin FaultKinds \/ ~Echo
    PROVE  Spec => []ItemsInv
<1>1. Init => ItemsInv
  BY DEF Init, ItemsInv
<1>2. TypeInv /\ [Next]_vars => TypeInv'
  BY NextReadsFit, NextTypeOK DEF TypeInv
<1>3. TypeInv /\ ClosedInv /\ OrderInv /\ ItemsInv /\ [Next]_vars => ItemsInv'
  BY NextItemsInv
<1> QED BY <1>1, <1>2, <1>3, InitTypeInv, ClosedKept, OrderKept, PTL DEF Spec

(* When commands are registered one at a time, no answer comes late and      *)
(* nothing is garbled, the status that ends a push order answers that order. *)
THEOREM AnswerToItsOrder ==
    ASSUME ~OpenLoop, ~LateAnswers, "noise" \notin FaultKinds,
           "write" \notin FaultKinds \/ ~Echo
    PROVE  Spec => []AnswerEndsOnlyItsOrder
<1>1. ItemsInv => AnswerEndsOnlyItsOrder
  <2> SUFFICES ASSUME ItemsInv, PacketNext PROVE Head(mParseBuffer).order = Len(wire)
    BY DEF AnswerEndsOnlyItsOrder
  <2>1. mParseBuffer \in Seq(CurrentItems) /\ mParseBuffer # <<>>
    BY DEF ItemsInv, PacketNext
  <2> QED BY <2>1, HeadTailProperties DEF CurrentItems
<1> QED BY <1>1, ItemsKept, PTL
-----------------------------------------------------------------------------
(* Only a status of the last ping is added to the ping results.              *)
LEMMA NextPingResultFresh ==
    TypeInv /\ OrderInv /\ ItemsInv /\ PingResultFresh /\ [Next]_vars => PingResultFresh'
<1> SUFFICES ASSUME TypeInv, OrderInv, ItemsInv, PingResultFresh, [Next]_vars
             PROVE  PingResultFresh'
  OBVIOUS
<1> USE DEF portVars, engineVars, readVars, historyVars
<1>1. /\ mPingResult \in Seq(Answer) /\ wire \in Seq(Orders) /\ Len(wire) \in Nat
      /\ DOMAIN wire = 1..Len(wire)
  BY LenProperties DEF TypeInv, TypeOK
<1>2. ASSUME UNCHANGED <<mPingResult, wire>> PROVE PingResultFresh'
  BY <1>2 DEF PingResultFresh, LastPing
<1>3. CASE SendOrder
  <2> DEFINE order == Head(mCommandCurrent)
  <2>1. /\ wire' = Append(wire, order) /\ mCommandCurrent # <<>>
        /\ mPingResult' = IF order.ins = "Ping" THEN <<>> ELSE mPingResult
    BY <1>3 DEF SendOrder, OrderReady, ClearPingResult
  <2>2. order \in Orders
    BY <2>1, HeadTailProperties DEF TypeInv, TypeOK
  <2> HIDE DEF order
  <2>3. CASE order.ins = "Ping"
    BY <2>1, <2>3 DEF PingResultFresh
  <2>4. CASE order.ins # "Ping"
    <3>1. /\ Len(wire') = Len(wire) + 1 /\ wire'[Len(wire) + 1] = order
          /\ DOMAIN wire' = 1..Len(wire) + 1
          /\ \A k \in 1..Len(wire) : wire'[k] = wire[k]
      BY <1>1, <2>1, <2>2, AppendProperties, LenProperties
    <3>2. \A n \in LastPing : n \in LastPing'
      <4> SUFFICES ASSUME NEW n \in 1..Len(wire), wire[n].ins = "Ping",
                          \A k \in n+1..Len(wire) : wire[k].ins # "Ping"
                   PROVE  /\ n \in DOMAIN wire' /\ wire'[n].ins = "Ping"
                          /\ \A k \in n+1..Len(wire') : wire'[k].ins # "Ping"
        BY <1>1 DEF LastPing
      <4>1. n \in DOMAIN wire' /\ wire'[n].ins = "Ping"
        BY <1>1, <3>1
      <4>2. ASSUME NEW k \in n+1..Len(wire) + 1 PROVE wire'[k].ins # "Ping"
        <5>1. CASE k = Len(wire) + 1
          BY <2>4, <3>1, <5>1
        <5>2. CASE k # Len(wire) + 1
          <6>1. k \in n+1..Len(wire) /\ k \in 1..Len(wire)
            BY <1>1, <4>2, <5>2
          <6> QED BY <3>1, <6>1
        <5> QED BY <5>1, <5>2
      <4> QED BY <3>1, <4>1, <4>2
    <3> QED BY <2>1, <2>4, <3>2 DEF PingResultFresh
  <2> QED BY <2>3, <2>4
<1>4. CASE ParsePacket
  <2> DEFINE packet == Head(mParseBuffer)
             answer == [id |-> packet.id, order |-> packet.order]
  <2>1. mParseBuffer # <<>> /\ mOrderCurrent # NoOrder /\ wire' = wire
    BY <1>4 DEF ParsePacket, PacketNext
  <2>2. CASE mPingResult' = mPingResult
    BY <1>2, <2>1, <2>2
  <2>3. CASE /\ mOrderCurrent.ins = "Ping" /\ IsStatus(packet)
             /\ mPingResult' = Append(mPingResult, answer)
    <3>1. packet \in CurrentItems /\ packet \in Items
      BY <2>1, HeadTailProperties DEF ItemsInv, CurrentItems
    <3>2. answer \in Answer /\ answer.order = Len(wire)
      BY <2>3, <3>1 DEF CurrentItems, Items, IsStatus, Answer, Instructions
    <3> HIDE DEF answer
    <3>3. wire # <<>> /\ wire[Len(wire)].ins = "Ping"
      BY <2>1, <2>3 DEF OrderInv
    <3>4. Len(wire) \in LastPing
      <4>1. Len(wire) \in DOMAIN wire /\ \A k \in Len(wire)+1..Len(wire) : FALSE
        BY <1>1, <3>3, EmptySeq
      <4> QED BY <3>3, <4>1 DEF LastPing
    <3>5. /\ DOMAIN mPingResult' = DOMAIN mPingResult \cup {Len(mPingResult) + 1}
          /\ mPingResult'[Len(mPingResult) + 1] = answer
          /\ \A i \in DOMAIN mPingResult : mPingResult'[i] = mPingResult[i]
      BY <1>1, <2>3, <3>2, AppendProperties, LenProperties
    <3>6. LastPing' = LastPing
      BY <2>1 DEF LastPing
    <3> QED BY <3>2, <3>4, <3>5, <3>6 DEF PingResultFresh
  <2>4. \/ mPingResult' = mPingResult
        \/ /\ mOrderCurrent.ins = "Ping" /\ IsStatus(packet)
           /\ mPingResult' = Append(mPingResult, answer)
    BY <1>4 DEF ParsePacket, ProcessPacket, ProcessPing, ProcessPull, ProcessPush
  <2> QED BY <2>2, <2>3, <2>4
<1>5. CASE CommandStateMachine /\ ~SendOrder
  BY <1>2, <1>5 DEF CommandStateMachine, NoCommand, NextCommand, OrderRunning, CommandOver,
                    WriteFails
<1>6. CASE RunEndOrder
  BY <1>2, <1>6 DEF RunEndOrder
<1>7. CASE ReadHandler /\ ~ParsePacket
  BY <1>2, <1>7 DEF ReadHandler, ReadFailed, ReadReceivedData, ParseEnds, ParseWithoutOrder
<1>8. CASE User
  BY <1>2, <1>8 DEF User, UserCommand, SendPing, ServoPull, RegisterCommand,
                    StartAlreadyOpened, StartOpens, StartReads, StartFails, StopThrows, StopReturns,
                    Destroy
<1>9. CASE Outside
  BY <1>2, <1>9 DEF Outside, Expire, Receive, ReadError, Garble
<1>10. CASE UNCHANGED vars
  BY <1>2, <1>10 DEF vars
<1> QED BY <1>3, <1>4, <1>5, <1>6, <1>7, <1>8, <1>9, <1>10 DEF Next, IoThread, Finished

(* In the same setting, getPingResult only ever holds servos that answered   *)
(* the last ping.                                                            *)
THEOREM PingIsFresh ==
    ASSUME ~OpenLoop, ~LateAnswers, "noise" \notin FaultKinds,
           "write" \notin FaultKinds \/ ~Echo
    PROVE  Spec => []PingResultFresh
<1>1. Init => PingResultFresh
  BY DEF Init, PingResultFresh
<1>2. TypeInv /\ [Next]_vars => TypeInv'
  BY NextReadsFit, NextTypeOK DEF TypeInv
<1> QED BY <1>1, <1>2, InitTypeInv, OrderKept, ItemsKept, NextPingResultFresh, PTL DEF Spec
=============================================================================
