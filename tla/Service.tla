------------------------------ MODULE Service ------------------------------
(***************************************************************************)
(* woo::xl320::Service, the host side driver (src/lib/Service.cxx).        *)
(*                                                                         *)
(* One boost io_service thread takes handlers from a FIFO queue and runs   *)
(* them to the end: commandStateMachine, readReceivedData and endOrder.    *)
(* User threads append commands and post a handler; one of them also       *)
(* starts, stops and destroys the service.  The serial port completes      *)
(* asynchronous reads, the deadline timer expires or is cancelled; both    *)
(* only ever append a handler to the queue.                                *)
(*                                                                         *)
(* A packet on the line is a record: what it is, the servo it comes from   *)
(* and, for the properties only, the serial number of the order it         *)
(* answers.  How packets are cut out of bytes is not modelled here: a      *)
(* "Noise" item stands for the bytes that one call of parsePacket throws   *)
(* away.                                                                   *)
(***************************************************************************)
EXTENDS Integers, FiniteSets, SequencesExt

CONSTANTS
    Servos,         \* ids of the servos on the bus
    Commands,       \* the commands a user builds: sequences of orders
    Calls,          \* the operations the user threads use
    FaultKinds,     \* what may go wrong at the serial port
    OpenLoop,       \* TRUE: commands are registered at any time
                    \* FALSE: only when every earlier one has ended (app/test-01)
    LateAnswers,    \* TRUE: an answer may arrive after its order has ended
    Echo,           \* TRUE: RX is wired to TX, what is sent is also received
    StaleAnswers,   \* packets already on the line when the process starts
    MaxPortErrors,  \* Service.h:74
    MaxCommands,    \* bound: commands registered
    MaxStarts,      \* bound: successful calls of start
    MaxFaults,      \* bound: faults of the serial port
    MaxChunk        \* bound: items that complete one asynchronous read

BroadcastId == 254

PushInstructions == {"Write", "SyncWrite"}
SyncInstructions == {"SyncRead", "SyncWrite"}
Instructions == {"Ping", "Read", "Write", "SyncRead", "SyncWrite"}

Orders == [ins : Instructions, id : Servos \cup {BroadcastId}]
PingOrder == [ins |-> "Ping", id |-> BroadcastId]
NoOrder == [ins |-> "none", id |-> BroadcastId]

Answer == [id : Servos, order : Nat]
Items == [ins : Instructions \cup {"Noise"}, id : Servos \cup {BroadcastId}, order : Nat]
         \cup [ins : {"Status"}, id : Servos, order : Nat]
Noise == [ins |-> "Noise", id |-> BroadcastId, order |-> 0]

Handlers == [h : {"commandStateMachine", "readReceivedData", "endOrder"},
             n : Nat, ec : BOOLEAN]
StateMachine == [h |-> "commandStateMachine", n |-> 0, ec |-> FALSE]
ReadDone(n, ec) == [h |-> "readReceivedData", n |-> n, ec |-> ec]
TimerDone(n, ec) == [h |-> "endOrder", n |-> n, ec |-> ec]

ASSUME ServosAssumption == Servos \subseteq 0..252
ASSUME CommandsAssumption == Commands \subseteq Seq(Orders)
ASSUME CallsAssumption ==
    Calls \subseteq {"registerCommand", "sendPing", "pull", "stop", "destroy"}
ASSUME FaultsAssumption == FaultKinds \subseteq {"read", "write", "open", "noise"}
ASSUME StaleAssumption == StaleAnswers \in Seq(Items)
ASSUME BoundsAssumption ==
    /\ MaxPortErrors \in Nat \ {0}
    /\ {MaxCommands, MaxStarts, MaxFaults, MaxChunk} \subseteq Nat
    /\ {OpenLoop, LateAnswers, Echo} \subseteq BOOLEAN
-----------------------------------------------------------------------------
VARIABLES
    \* members of Service
    mPort,             \* "null", "closed" (created, open failed) or "open"
    mIosThread,        \* "none", "joinable" or "joined"
    mPortErrors,
    mReadBuffer,
    mParseBuffer,
    mOrderInProcess,
    mCommandInProcess,
    mCommandQueue,
    mOrderCurrent,
    mCommandCurrent,
    mOrderTimeout,     \* serial of the order whose wait is pending, 0 when none
    mCommandMutex,     \* "free", or "readReceivedData" between two parsePacket
    mPingResult,
    mIos,              \* the handlers queued in the io_service
    mIosStopped,       \* the stop flag of the io_service
    reads,             \* asynchronous reads requested and not complete
    \* the outside
    process,           \* "up", "destroyed", or how it died: "terminate", "segv"
    bus,               \* what is on its way from the servos to the port, in order
    faults, starts,    \* how many faults and successful starts there were
    \* history
    registered,        \* every command registered
    ended,             \* how many times commandEnded was emitted
    wire,              \* every order written to the port
    lastCall           \* how the last call of start or stop ended, or "starting"

portVars == <<mPort, mIosThread, mIosStopped, starts, lastCall>>
engineVars == <<mOrderInProcess, mCommandInProcess, mCommandQueue, mOrderCurrent,
                mCommandCurrent, mOrderTimeout, mPingResult>>
readVars == <<mPortErrors, mReadBuffer, mParseBuffer, mCommandMutex, reads>>
historyVars == <<registered, ended, wire>>
vars == <<portVars, engineVars, readVars, historyVars, mIos, process, bus, faults>>

TypeOK ==
    /\ mPort \in {"null", "closed", "open"}
    /\ mIosThread \in {"none", "joinable", "joined"}
    /\ mPortErrors \in Nat
    /\ mReadBuffer \in Seq(Items)
    /\ mParseBuffer \in Seq(Items)
    /\ mOrderInProcess \in BOOLEAN
    /\ mCommandInProcess \in BOOLEAN
    /\ mCommandQueue \in Seq(Seq(Orders))
    /\ mOrderCurrent \in Orders \cup {NoOrder}
    /\ mCommandCurrent \in Seq(Orders)
    /\ mOrderTimeout \in Nat
    /\ mCommandMutex \in {"free", "readReceivedData"}
    /\ mPingResult \in Seq(Answer)
    /\ mIos \in Seq(Handlers)
    /\ mIosStopped \in BOOLEAN
    /\ reads \in Nat
    /\ process \in {"up", "destroyed", "terminate", "segv"}
    /\ bus \in Seq(Items)
    /\ faults \in Nat /\ starts \in Nat
    /\ registered \in Seq(Seq(Orders))
    /\ ended \in Nat
    /\ wire \in Seq(Orders)
    /\ lastCall \in {"none", "starting", "started", "startThrew", "stopped", "stopThrew"}

Init ==
    /\ mPort = "null" /\ mIosThread = "none" /\ mPortErrors = 0
    /\ mReadBuffer = <<>> /\ mParseBuffer = <<>>
    /\ mOrderInProcess = FALSE /\ mCommandInProcess = FALSE
    /\ mCommandQueue = <<>> /\ mCommandCurrent = <<>>
    /\ mOrderCurrent = NoOrder /\ mOrderTimeout = 0
    /\ mCommandMutex = "free" /\ mPingResult = <<>>
    /\ mIos = <<>> /\ mIosStopped = FALSE /\ reads = 0
    /\ process = "up" /\ bus = StaleAnswers /\ faults = 0 /\ starts = 0
    /\ registered = <<>> /\ ended = 0 /\ wire = <<>> /\ lastCall = "none"
-----------------------------------------------------------------------------
(* The io thread executes handlers: run() is called by start and returns     *)
(* when the io_service is stopped, or when it has no work left (which        *)
(* ReadLoopAlive excludes).                                                  *)
Running ==
    /\ process = "up"
    /\ mPort = "open" /\ mIosThread = "joinable" /\ ~mIosStopped

(* Another fault of the serial port, within the bound. *)
Fault(kind) ==
    /\ kind \in FaultKinds
    /\ faults < MaxFaults
    /\ faults' = faults + 1

(* Mutant of RegisterCommand: the command jumps the queue. *)
RegisterCommand_Front(cmd) ==
    /\ process = "up" /\ mCommandMutex = "free"
    /\ Len(registered) < MaxCommands
    /\ OpenLoop \/ (~mCommandInProcess /\ mCommandQueue = <<>>)
    /\ mCommandQueue' = <<cmd>> \o mCommandQueue
    /\ mIos' = Append(mIos, StateMachine)
    /\ registered' = Append(registered, cmd)
    /\ UNCHANGED <<portVars, readVars, ended, wire, process, bus, faults,
                   mOrderInProcess, mCommandInProcess, mOrderCurrent,
                   mCommandCurrent, mOrderTimeout, mPingResult>>

(* The user side: registerCommand locks mCommandMutex, so it waits for a     *)
(* read handler that holds it.                                               *)
RegisterCommand(cmd) ==
    /\ process = "up" /\ mCommandMutex = "free"
    /\ Len(registered) < MaxCommands
    /\ OpenLoop \/ (~mCommandInProcess /\ mCommandQueue = <<>>)
    /\ mCommandQueue' = Append(mCommandQueue, cmd)
    /\ mIos' = Append(mIos, StateMachine)
    /\ registered' = Append(registered, cmd)
    /\ UNCHANGED <<portVars, readVars, ended, wire, process, bus, faults,
                   mOrderInProcess, mCommandInProcess, mOrderCurrent,
                   mCommandCurrent, mOrderTimeout, mPingResult>>

UserCommand ==
    "registerCommand" \in Calls /\ \E cmd \in Commands : RegisterCommand(cmd)

SendPing == "sendPing" \in Calls /\ RegisterCommand(<<PingOrder>>)

(* Servo::pull, Servo::pullAll and Servo::push: the orders they should build *)
(* are commented out, the command they register is empty.                    *)
ServoPull == "pull" \in Calls /\ RegisterCommand(<<>>)
-----------------------------------------------------------------------------
(* start, stop and the destructor are called by one user thread.  stop joins *)
(* the io thread, so it does not overlap the rest of a handler.              *)
UserIdle == process = "up" /\ mCommandMutex = "free" /\ lastCall # "starting"

PrepareAsyncRead == reads' = reads + 1

StartAlreadyOpened ==
    /\ UserIdle /\ mPort # "null" /\ lastCall # "started"
    /\ lastCall' = "started"
    /\ UNCHANGED <<mPort, mIosThread, mIosStopped, starts, engineVars, readVars,
                   historyVars, mIos, process, bus, faults>>

(* The io thread runs before start has requested a read: handlers left from  *)
(* before a stop, and the commands that other threads register meanwhile.    *)
StartOpens ==
    /\ UserIdle /\ mPort = "null" /\ starts < MaxStarts
    /\ mPort' = "open" /\ mIosThread' = "joinable"
    /\ starts' = starts + 1 /\ lastCall' = "starting"
    /\ UNCHANGED <<mIosStopped, engineVars, readVars, historyVars, mIos, process,
                   bus, faults>>

(* start requests the read, without mCommandMutex: also in the middle of a   *)
(* read handler.                                                             *)
StartReads ==
    /\ process = "up" /\ lastCall = "starting"
    /\ PrepareAsyncRead /\ lastCall' = "started"
    /\ UNCHANGED <<mPort, mIosThread, mIosStopped, starts, engineVars, historyVars,
                   mIos, process, bus, faults, mPortErrors, mReadBuffer,
                   mParseBuffer, mCommandMutex>>

(* Mutant of StartFails: the thread is created before the port is opened. *)
StartFails_ThreadFirst ==
    /\ UserIdle /\ mPort = "null" /\ Fault("open")
    /\ mPort' \in {"closed", "open"} /\ mIosThread' = "joinable"
    /\ lastCall' = "startThrew"
    /\ UNCHANGED <<mIosStopped, starts, engineVars, readVars,
                   historyVars, mIos, process, bus>>

(* open fails, or one of the set_option calls throws after it *)
StartFails ==
    /\ UserIdle /\ mPort = "null" /\ Fault("open")
    /\ mPort' \in {"closed", "open"}
    /\ lastCall' = "startThrew"
    /\ UNCHANGED <<mIosThread, mIosStopped, starts, engineVars, readVars,
                   historyVars, mIos, process, bus>>

Aborted == [i \in 1..reads |-> ReadDone(0, TRUE)]

JoinThrows == mIosThread = "joined"    \* std::thread::join: not joinable any more
CancelThrows == mPort = "closed"       \* bad descriptor

StopThrows ==
    /\ "stop" \in Calls /\ UserIdle
    /\ JoinThrows \/ CancelThrows
    /\ mIosStopped' = TRUE
    /\ mIosThread' = IF mIosThread = "joinable" THEN "joined" ELSE mIosThread
    /\ lastCall' = "stopThrew"
    /\ UNCHANGED <<mPort, starts, engineVars, readVars, historyVars, mIos, process,
                   bus, faults>>

(* cancel completes the reads in progress; their handlers stay in the queue  *)
(* of the io_service, with everything else it holds, until the next start.   *)
StopReturns ==
    /\ "stop" \in Calls /\ UserIdle
    /\ ~JoinThrows /\ ~CancelThrows
    /\ mIosThread' = IF mIosThread = "joinable" THEN "joined" ELSE mIosThread
    /\ mIos' = mIos \o Aborted
    /\ reads' = 0
    /\ mPort' = "null" /\ mIosStopped' = FALSE
    /\ lastCall' = "stopped"
    /\ UNCHANGED <<starts, engineVars, historyVars, process, bus, faults,
                   mPortErrors, mReadBuffer, mParseBuffer, mCommandMutex>>

(* ~Service calls stop, and a destructor must not throw. *)
Destroy ==
    /\ "destroy" \in Calls /\ UserIdle
    /\ process' = IF JoinThrows \/ CancelThrows THEN "terminate" ELSE "destroyed"
    /\ UNCHANGED <<portVars, engineVars, readVars, historyVars, mIos, bus, faults>>
-----------------------------------------------------------------------------
(* The io thread: commandStateMachine.                                       *)
Runs(h) ==
    /\ Running /\ mCommandMutex = "free"
    /\ mIos # <<>> /\ Head(mIos).h = h

(* What cancelling the timer queues: the handler of the pending wait.        *)
Cancelled == IF mOrderTimeout = 0 THEN <<>> ELSE <<TimerDone(mOrderTimeout, TRUE)>>

NoCommand ==
    /\ Runs("commandStateMachine")
    /\ ~mCommandInProcess /\ mCommandQueue = <<>>
    /\ mIos' = Tail(mIos)
    /\ UNCHANGED <<portVars, engineVars, readVars, historyVars, process, bus, faults>>

(* Mutant of NextCommand: the front of the queue is not popped. *)
NextCommand_NoPop ==
    /\ Runs("commandStateMachine")
    /\ ~mCommandInProcess /\ mCommandQueue # <<>>
    /\ mCommandInProcess' = TRUE
    /\ mCommandCurrent' = Head(mCommandQueue)
    /\ mIos' = Append(Tail(mIos), StateMachine)
    /\ UNCHANGED <<portVars, readVars, historyVars, process, bus, faults, mCommandQueue,
                   mOrderInProcess, mOrderCurrent, mOrderTimeout, mPingResult>>

NextCommand ==
    /\ Runs("commandStateMachine")
    /\ ~mCommandInProcess /\ mCommandQueue # <<>>
    /\ mCommandInProcess' = TRUE
    /\ mCommandCurrent' = Head(mCommandQueue)
    /\ mCommandQueue' = Tail(mCommandQueue)
    /\ mIos' = Append(Tail(mIos), StateMachine)
    /\ UNCHANGED <<portVars, readVars, historyVars, process, bus, faults,
                   mOrderInProcess, mOrderCurrent, mOrderTimeout, mPingResult>>

OrderRunning ==
    /\ Runs("commandStateMachine")
    /\ mCommandInProcess /\ mOrderInProcess
    /\ mIos' = Tail(mIos)
    /\ UNCHANGED <<portVars, engineVars, readVars, historyVars, process, bus, faults>>

(* Mutants of CommandOver: no handler is posted for the next command; the    *)
(* last order is released with its command.                                  *)
CommandOver_NoPost ==
    /\ Runs("commandStateMachine")
    /\ mCommandInProcess /\ ~mOrderInProcess /\ mCommandCurrent = <<>>
    /\ mCommandInProcess' = FALSE
    /\ ended' = ended + 1
    /\ mIos' = Tail(mIos)
    /\ UNCHANGED <<portVars, readVars, registered, wire, process, bus, faults,
                   mOrderInProcess, mCommandQueue, mOrderCurrent, mCommandCurrent,
                   mOrderTimeout, mPingResult>>

CommandOver_ReleaseOrder ==
    /\ Runs("commandStateMachine")
    /\ mCommandInProcess /\ ~mOrderInProcess /\ mCommandCurrent = <<>>
    /\ mCommandInProcess' = FALSE /\ mOrderCurrent' = NoOrder
    /\ ended' = ended + 1
    /\ mIos' = Append(Tail(mIos), StateMachine)
    /\ UNCHANGED <<portVars, readVars, registered, wire, process, bus, faults,
                   mOrderInProcess, mCommandQueue, mCommandCurrent,
                   mOrderTimeout, mPingResult>>

CommandOver ==
    /\ Runs("commandStateMachine")
    /\ mCommandInProcess /\ ~mOrderInProcess /\ mCommandCurrent = <<>>
    /\ mCommandInProcess' = FALSE
    /\ ended' = ended + 1
    /\ mIos' = Append(Tail(mIos), StateMachine)
    /\ UNCHANGED <<portVars, readVars, registered, wire, process, bus, faults,
                   mOrderInProcess, mCommandQueue, mOrderCurrent, mCommandCurrent,
                   mOrderTimeout, mPingResult>>

OrderReady ==
    /\ Runs("commandStateMachine")
    /\ mCommandInProcess /\ ~mOrderInProcess /\ mCommandCurrent # <<>>

(* What the servos send back for the n-th order: any of those it addresses   *)
(* may answer, in any order.  buildBuffer of the two synchronous orders is   *)
(* commented out, nothing is written for them.                               *)
Addressed(order) ==
    IF order.ins = "Ping" THEN Servos
    ELSE {s \in Servos : s = order.id /\ order.ins \notin SyncInstructions}

Statuses(order, n) ==
    {[ins |-> "Status", id |-> s, order |-> n] : s \in Addressed(order)}

Replies(order, n) ==
    {q \in UNION {[1..k -> Statuses(order, n)] : k \in 0..Cardinality(Servos)} :
        IsInjective(q)}

EchoOf(order, n) ==
    IF Echo /\ order.ins \notin SyncInstructions
    THEN <<[ins |-> order.ins, id |-> order.id, order |-> n]>>
    ELSE <<>>

(* Mutant of ClearPingResult: the ids of the previous ping are kept. *)
ClearPingResult_Never(order) == UNCHANGED mPingResult

ClearPingResult(order) ==
    mPingResult' = IF order.ins = "Ping" THEN <<>> ELSE mPingResult

(* Mutant of StartTimeout: async_wait is not called. *)
StartTimeout_NoWait(n) == mOrderTimeout' = 0 /\ mIos' = Tail(mIos) \o Cancelled

(* expires_from_now cancels the wait that is pending, if one is *)
StartTimeout(n) == mOrderTimeout' = n /\ mIos' = Tail(mIos) \o Cancelled

(* write_some writes the order, or less of it, and what it returns is not    *)
(* looked at: no servo answers a cut packet, and its echo is noise.          *)
Written(order, n) ==
    LET line == IF LateAnswers THEN bus ELSE <<>> IN
    \/ /\ \E q \in Replies(order, n) : bus' = line \o EchoOf(order, n) \o q
       /\ UNCHANGED faults
    \/ /\ order.ins \notin SyncInstructions /\ Fault("write")
       /\ bus' = line \o (IF Echo THEN <<Noise>> ELSE <<>>)

SendOrder ==
    LET order == Head(mCommandCurrent)
        n == Len(wire) + 1
    IN  /\ OrderReady
        /\ mOrderInProcess' = TRUE
        /\ mOrderCurrent' = order
        /\ mCommandCurrent' = Tail(mCommandCurrent)
        /\ ClearPingResult(order)
        /\ wire' = Append(wire, order)
        /\ StartTimeout(n)
        /\ Written(order, n)
        /\ UNCHANGED <<portVars, readVars, registered, ended, process,
                       mCommandInProcess, mCommandQueue>>

(* write_some throws, and nothing on the io thread catches it *)
WriteFails ==
    /\ OrderReady /\ Fault("write")
    /\ process' = "terminate"
    /\ UNCHANGED <<portVars, engineVars, readVars, historyVars, mIos, bus>>
-----------------------------------------------------------------------------
(* Mutants of EndOrder: the handler is posted before the timer is cancelled; *)
(* no handler is posted.                                                     *)
EndOrder_PostFirst(queue) ==
    /\ mOrderInProcess' = FALSE
    /\ mOrderTimeout' = 0
    /\ mIos' = Append(queue, StateMachine) \o Cancelled

EndOrder_NoPost(queue) ==
    /\ mOrderInProcess' = FALSE
    /\ mOrderTimeout' = 0
    /\ mIos' = queue \o Cancelled

(* The io thread: endOrder, called by the answer of a push order and by the  *)
(* timer, whose handler ignores the error code of an aborted wait.           *)
EndOrder(queue) ==
    /\ mOrderInProcess' = FALSE
    /\ mOrderTimeout' = 0
    /\ mIos' = Append(queue \o Cancelled, StateMachine)

RunEndOrder ==
    /\ Runs("endOrder")
    /\ EndOrder(Tail(mIos))
    /\ UNCHANGED <<portVars, readVars, historyVars, process, bus, faults,
                   mCommandInProcess, mCommandQueue, mOrderCurrent, mCommandCurrent,
                   mPingResult>>

(* The io thread: readReceivedData.  The mutex is held from here to the end  *)
(* of the parse.                                                             *)

(* Mutant of ReadFailed: the read is not restarted after an error.           *)
ReadFailed_NoRestart ==
    /\ Runs("readReceivedData") /\ Head(mIos).ec
    /\ mPortErrors' = mPortErrors + 1
    /\ process' = IF mPortErrors' >= MaxPortErrors THEN "terminate" ELSE "up"
    /\ mIos' = Tail(mIos)
    /\ UNCHANGED <<portVars, engineVars, historyVars, bus, faults,
                   mReadBuffer, mParseBuffer, mCommandMutex, reads>>

(* Mutant of ReadFailed: without its return, the handler goes on and         *)
(* requests a second read at its end.                                        *)
ReadFailed_FallsThrough ==
    /\ Runs("readReceivedData") /\ Head(mIos).ec
    /\ mPortErrors' = mPortErrors + 1
    /\ IF mPortErrors' >= MaxPortErrors
       THEN process' = "terminate" /\ UNCHANGED reads
       ELSE reads' = reads + 2 /\ UNCHANGED process
    /\ mIos' = Tail(mIos)
    /\ UNCHANGED <<portVars, engineVars, historyVars, bus, faults,
                   mReadBuffer, mParseBuffer, mCommandMutex>>

ReadFailed ==
    /\ Runs("readReceivedData") /\ Head(mIos).ec
    /\ mPortErrors' = mPortErrors + 1
    /\ IF mPortErrors' >= MaxPortErrors
       THEN process' = "terminate" /\ UNCHANGED reads
       ELSE PrepareAsyncRead /\ UNCHANGED process
    /\ mIos' = Tail(mIos)
    /\ UNCHANGED <<portVars, engineVars, historyVars, bus, faults,
                   mReadBuffer, mParseBuffer, mCommandMutex>>

(* Mutant of Received: the whole buffer is taken, not the bytes transferred. *)
Received_All(n) == mReadBuffer

Received(n) == SubSeq(mReadBuffer, 1, n)

ReadReceivedData ==
    /\ Runs("readReceivedData") /\ ~Head(mIos).ec
    /\ mParseBuffer' = mParseBuffer \o Received(Head(mIos).n)
    /\ mCommandMutex' = "readReceivedData"
    /\ mIos' = Tail(mIos)
    /\ UNCHANGED <<portVars, engineVars, historyVars, process, bus, faults,
                   mPortErrors, mReadBuffer, reads>>

Parsing == process = "up" /\ mCommandMutex = "readReceivedData"

(* An empty buffer ends the parse; so does a byte that cannot start a        *)
(* packet: it is dropped and the rest of the buffer waits for the next read. *)
ParseEnds ==
    /\ Parsing
    /\ \/ mParseBuffer = <<>> /\ UNCHANGED mParseBuffer
       \/ /\ mParseBuffer # <<>> /\ Head(mParseBuffer).ins = "Noise"
          /\ mParseBuffer' = Tail(mParseBuffer)
    /\ PrepareAsyncRead /\ mCommandMutex' = "free"
    /\ UNCHANGED <<portVars, engineVars, historyVars, mIos, process, bus, faults,
                   mPortErrors, mReadBuffer>>

PacketNext ==
    /\ Parsing
    /\ mParseBuffer # <<>> /\ Head(mParseBuffer).ins # "Noise"

(* processPacket reads mOrderCurrent, which is null before the first order   *)
ParseWithoutOrder ==
    /\ PacketNext /\ mOrderCurrent = NoOrder
    /\ process' = "segv"
    /\ UNCHANGED <<portVars, engineVars, readVars, historyVars, mIos, bus, faults>>

IsStatus(packet) == packet.ins = "Status"

(* Mutant of ProcessPing: the echo of the ping counts as an answer. *)
ProcessPing_Echo(packet) ==
    /\ mPingResult' = Append(mPingResult, [id |-> packet.id, order |-> packet.order])
    /\ UNCHANGED <<mOrderInProcess, mOrderTimeout, mIos>>

ProcessPing(packet) ==
    /\ mPingResult' = IF IsStatus(packet)
                      THEN Append(mPingResult, [id |-> packet.id, order |-> packet.order])
                      ELSE mPingResult
    /\ UNCHANGED <<mOrderInProcess, mOrderTimeout, mIos>>

(* processPacket_Pull: the end of the order is commented out *)
ProcessPull(packet) == UNCHANGED <<mPingResult, mOrderInProcess, mOrderTimeout, mIos>>

ProcessPush(packet) ==
    /\ IF IsStatus(packet) THEN EndOrder(mIos)
       ELSE UNCHANGED <<mOrderInProcess, mOrderTimeout, mIos>>
    /\ UNCHANGED mPingResult

ProcessPacket(packet) ==
    CASE mOrderCurrent.ins = "Ping" -> ProcessPing(packet)
      [] mOrderCurrent.ins \in PushInstructions -> ProcessPush(packet)
      [] OTHER -> ProcessPull(packet)

ParsePacket ==
    /\ PacketNext /\ mOrderCurrent # NoOrder
    /\ ProcessPacket(Head(mParseBuffer))
    /\ mParseBuffer' = Tail(mParseBuffer)
    /\ UNCHANGED <<portVars, historyVars, process, bus, faults,
                   mCommandInProcess, mCommandQueue, mOrderCurrent, mCommandCurrent,
                   mPortErrors, mReadBuffer, mCommandMutex, reads>>
-----------------------------------------------------------------------------
(* The outside: the reactor runs on the io thread between two handlers.      *)
Reactor == Running /\ mCommandMutex = "free"

Expire ==
    /\ Reactor /\ mOrderTimeout # 0
    /\ mIos' = Append(mIos, TimerDone(mOrderTimeout, FALSE))
    /\ mOrderTimeout' = 0
    /\ UNCHANGED <<portVars, readVars, historyVars, process, bus, faults,
                   mOrderInProcess, mCommandInProcess, mCommandQueue, mOrderCurrent,
                   mCommandCurrent, mPingResult>>

(* Every read writes the same mReadBuffer, from its start. *)
Receive(n) ==
    /\ Reactor /\ reads > 0
    /\ LateAnswers \/ mOrderInProcess
    /\ n <= Len(bus)
    /\ mReadBuffer' = SubSeq(bus, 1, n) \o SubSeq(mReadBuffer, n + 1, Len(mReadBuffer))
    /\ bus' = SubSeq(bus, n + 1, Len(bus))
    /\ reads' = reads - 1
    /\ mIos' = Append(mIos, ReadDone(n, FALSE))
    /\ UNCHANGED <<portVars, engineVars, historyVars, process, faults,
                   mPortErrors, mParseBuffer, mCommandMutex>>

ReadError ==
    /\ Reactor /\ reads > 0 /\ Fault("read")
    /\ reads' = reads - 1
    /\ mIos' = Append(mIos, ReadDone(0, TRUE))
    /\ UNCHANGED <<portVars, engineVars, historyVars, process, bus,
                   mPortErrors, mReadBuffer, mParseBuffer, mCommandMutex>>

Garble ==
    /\ process = "up" /\ mCommandMutex = "free" /\ Fault("noise")
    /\ \E i \in 0..Len(bus) :
          bus' = SubSeq(bus, 1, i) \o <<Noise>> \o SubSeq(bus, i + 1, Len(bus))
    /\ UNCHANGED <<portVars, engineVars, readVars, historyVars, mIos, process>>

(* Where the system may rest within the bounds. *)
Finished ==
    /\ process # "up" \/ (ended = Len(registered) /\ ended = MaxCommands)
    /\ UNCHANGED vars
-----------------------------------------------------------------------------
CommandStateMachine ==
    NoCommand \/ NextCommand \/ OrderRunning \/ CommandOver \/ SendOrder \/ WriteFails

ReadHandler ==
    ReadFailed \/ ReadReceivedData \/ ParseEnds \/ ParseWithoutOrder \/ ParsePacket

IoThread == CommandStateMachine \/ RunEndOrder \/ ReadHandler

User ==
    \/ UserCommand \/ SendPing \/ ServoPull
    \/ StartAlreadyOpened \/ StartOpens \/ StartReads \/ StartFails
    \/ StopThrows \/ StopReturns \/ Destroy

Outside == Expire \/ (\E n \in 1..MaxChunk : Receive(n)) \/ ReadError \/ Garble

Next == IoThread \/ User \/ Outside \/ Finished

Spec == Init /\ [][Next]_vars

(* run() executes what is queued, and a deadline timer expires; nothing      *)
(* obliges a servo to answer or a user to call.                              *)
Fairness == WF_vars(IoThread) /\ WF_vars(Expire)

FairSpec == Spec /\ Fairness
-----------------------------------------------------------------------------
HasHandler(queue, h) == \E i \in DOMAIN queue : queue[i].h = h

Queued(h) == HasHandler(mIos, h)

(* An order in process always ends: its timer is pending, or a call of       *)
(* endOrder is queued (Service.cxx:284-286, 594-616).                        *)
OrderWillEnd == mOrderInProcess => mOrderTimeout # 0 \/ Queued("endOrder")

(* No lost wakeup: as long as a command is in process or queued, an order is *)
(* in process or a call of commandStateMachine is queued                     *)
(* (Service.cxx:162, 231, 258, 616).                                         *)
CommandWillRun ==
    (mCommandInProcess \/ mCommandQueue # <<>>) =>
        mOrderInProcess \/ Queued("commandStateMachine")

NoLostWakeup == OrderWillEnd /\ CommandWillRun

(* The promise to the user, as an abstract specification: first come first   *)
(* served, every order sent once, commandEnded once per command.             *)
CS == INSTANCE CommandStream WITH
        served <- ended,
        pos <- IF mCommandInProcess
               THEN Len(registered[ended + 1]) - Len(mCommandCurrent) ELSE 0

ImplementsCommandStream == CS!Spec

(* mCommandCurrent and mCommandQueue hold the orders and the commands that   *)
(* were registered and not yet sent, in order: what makes the mapping right. *)
Backlog ==
    /\ mCommandQueue = SubSeq(registered, ended + (IF mCommandInProcess THEN 2 ELSE 1),
                              Len(registered))
    /\ mCommandInProcess =>
          /\ ended < Len(registered)
          /\ \E p \in 0..Len(registered[ended + 1]) :
                mCommandCurrent = SubSeq(registered[ended + 1], p + 1,
                                         Len(registered[ended + 1]))

ReadHandlers == {i \in DOMAIN mIos : mIos[i].h = "readReceivedData"}
ReadLoops == reads + Cardinality(ReadHandlers)
             + (IF mCommandMutex = "readReceivedData" THEN 1 ELSE 0)

(* The service never goes deaf: while the io thread runs, a read is          *)
(* requested, or start or a handler that will request the next one is queued *)
(* or runs (Service.cxx:99, 351, 368).  It is also what keeps run() from     *)
(* returning: the io_service::work of start is gone when start returns.      *)
ReadLoopAlive ==
    Running => reads > 0 \/ Queued("readReceivedData")
                         \/ mCommandMutex = "readReceivedData"
                         \/ lastCall = "starting"

(* One start, one loop of reads: two reads in progress would write the same  *)
(* mReadBuffer (Service.cxx:98-99, 309).                                     *)
SingleReadLoop ==
    Running => ReadLoops = IF lastCall = "starting" THEN 0 ELSE 1

(* A restart adds a loop of reads, for the aborted read of the loop before   *)
(* it is restarted too (Service.cxx:120, 341-351); never more than that.     *)
ReadLoopPerStart == ReadLoops <= starts

(* stop has nothing left to join when start created no thread, and the       *)
(* thread never runs without its port (Service.cxx:96-99, 113-123).          *)
ThreadHasPort == mIosThread = "joinable" => mPort = "open"

(* The timer ends the order it was started for: no handler of an earlier     *)
(* order, expired or aborted, ends the order that runs now                   *)
(* (Service.cxx:285-286, 609-616).                                           *)
TimerEndsOnlyItsOrder ==
    (Runs("endOrder") /\ mOrderInProcess) => Head(mIos).n = Len(wire)

(* The status that ends a push order is an answer to that order              *)
(* (Service.cxx:591-595).                                                    *)
AnswerEndsOnlyItsOrder ==
    (/\ PacketNext /\ mOrderInProcess /\ mOrderCurrent.ins \in PushInstructions
     /\ IsStatus(Head(mParseBuffer)))
    => Head(mParseBuffer).order = Len(wire)

(* getPingResult holds ids of servos that answered the last ping             *)
(* (Service.cxx:266-272, 524-527).                                           *)
LastPing == {n \in DOMAIN wire : wire[n].ins = "Ping"
                                 /\ \A k \in n+1..Len(wire) : wire[k].ins # "Ping"}
PingResultFresh == \A i \in DOMAIN mPingResult : mPingResult[i].order \in LastPing

(* A packet crashes the service only before the very first order: then       *)
(* mOrderCurrent is null (Service.cxx:264, 478).                             *)
NoCrashAfterFirstOrder == process = "segv" => wire = <<>>

(* Every registered command ends, if the service runs from some time on.     *)
EveryCommandEnds ==
    (<>[]Running) =>
        \A n \in 1..MaxCommands : (Len(registered) >= n) ~> (ended >= n)
-----------------------------------------------------------------------------
(* What comments say of the program and the program does not do.             *)

(* Service.cxx:340: "Check if there are some errors".  Without a fault of    *)
(* the port, nothing counts as an error of the port and the process lives.   *)
OnlyFaultsTerminate == process = "terminate" => faults > 0
=============================================================================
