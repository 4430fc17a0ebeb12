------------------------------- MODULE Sharing -------------------------------
(***************************************************************************)
(* What the threads of the host share (Service.h, Command.h): three        *)
(* mutexes, the members behind them, the port, which is behind none, and   *)
(* the orders that commands point at.  Service.tla takes each handler and  *)
(* each call as one step; here they are taken apart, down to the single    *)
(* access to a shared member.                                              *)
(*                                                                         *)
(* Calls are made by the threads of the user and by the slots that the io  *)
(* thread runs in the middle of a handler.  All orders are pings, those of *)
(* sendPing, and are ended by their timer.  One thread of the user starts  *)
(* and stops the service, and its port opens and does not fail: what fails *)
(* there is in Service.tla.                                                *)
(***************************************************************************)
EXTENDS Integers, SequencesExt

CONSTANTS
    Users,              \* threads of the user
    Owner,              \* the one that starts and stops the service
    Objects,            \* the Command objects the user has
    OrdersOf,           \* OrdersOf[c]: the orders that object c points at
    Servos,             \* ids
    Programs,           \* programs that use the service
    MaxCalls            \* bound: commands registered and starts, together

IoLanes == {"handler", "inner"}     \* a handler, and what it calls
Lanes == Users \cup IoLanes
Mutexes == {"mCommandMutex", "mPingMutex", "mServosMutex"}
Calls == {"registerCommand", "getPingResult", "getServo"}
OwnerCalls == {"start", "stop"}
NoOrder == 0

(* abortedRead is readReceivedData with an error.                            *)
Handlers == {"commandStateMachine", "readReceivedData", "abortedRead", "endOrder"}
SlotKinds == Calls \cup {"nothing", "onCommandFinish"}

ASSUME UsersAssumption ==
    /\ Owner \in Users
    /\ Users \cap (IoLanes \cup {"none"}) = {}
(* What a program connects to the two signals, what its threads call and the *)
(* commands that it registers.                                               *)
ASSUME ProgramsAssumption ==
    /\ Programs \subseteq [commandEnded : SlotKinds, newPingIdReceived : SlotKinds,
                           calls : [Users -> SUBSET (Calls \cup OwnerCalls)],
                           commands : SUBSET Objects]
    /\ \A p \in Programs : \A u \in Users \ {Owner} : p.calls[u] \subseteq Calls
(* Every order is made by one new and appended to one command, once.         *)
ASSUME OrdersAssumption ==
    /\ \A c \in Objects : OrdersOf[c] \in Seq(Nat \ {NoOrder})
    /\ \A c, d \in Objects : \A i \in 1..Len(OrdersOf[c]) :
        \A j \in 1..Len(OrdersOf[d]) :
            OrdersOf[c][i] = OrdersOf[d][j] => c = d /\ i = j

VARIABLES
    holder,             \* who holds each mutex
    frame,              \* the call or handler of each lane, and where it is
    tasks,              \* handlers queued in mIos
    mCommandQueue, mCommandInProcess, mCommandCurrent,
    mOrderInProcess, mOrderCurrent, mOrderTimeout,
    mPingResult, mServos,
    bus,                \* ids of the statuses that reach the port
    reading,            \* how many asynchronous reads are requested
    mPort,              \* there is a port, and it is open
    mIosThread,         \* "null", "joinable" or "joined"
    mIosStopped,        \* the stop flag of mIos
    starts,             \* io threads created
    program,            \* the program, with its slots
    freed,              \* orders that have been deleted
    registered, ended, pos, wire    \* history, as in CommandStream

lockVars == <<holder, frame>>
engineVars == <<mCommandInProcess, mCommandCurrent, mOrderInProcess,
                mOrderCurrent, mOrderTimeout, freed, pos, wire>>
sharedVars == <<mCommandQueue, mPingResult, mServos, registered>>
ioVars == <<tasks, bus, reading>>
startVars == <<mPort, mIosThread, mIosStopped, starts, program>>
vars == <<lockVars, engineVars, sharedVars, ioVars, startVars, ended>>
-----------------------------------------------------------------------------
(* Mutant: the list of ids is not locked by the io thread.                   *)
MutexOf_PingUnlocked(op) ==
    CASE op \in {"registerCommand", "commandStateMachine", "readReceivedData",
                 "abortedRead"} -> "mCommandMutex"
      [] op = "getPingResult" -> "mPingMutex"
      [] op = "getServo" -> "mServosMutex"
      [] OTHER -> "none"

MutexOf(op) ==
    CASE op \in {"registerCommand", "commandStateMachine", "readReceivedData",
                 "abortedRead"} -> "mCommandMutex"
      [] op \in {"getPingResult", "clearPing", "pushPing"} -> "mPingMutex"
      [] op = "getServo" -> "mServosMutex"
      [] OTHER -> "none"

Idle == [op |-> "none", arg |-> 0, at |-> 0]
Frame(op, arg) == [op |-> op, arg |-> arg, at |-> 0]

(* An order was used after it has been deleted: nothing is known any more.   *)
Corrupt == mOrderCurrent \in freed

Busy(l) == frame[l].op # "none"
Runs(l) == /\ Busy(l) /\ (l = "handler" => ~Busy("inner"))
           /\ (l \in IoLanes => ~Corrupt)
In(l, op, at) == Runs(l) /\ frame[l].op = op /\ frame[l].at = at

GoTo(l, at) == frame' = [frame EXCEPT ![l].at = at] /\ UNCHANGED holder

(* The handler goes on at at when inner has returned.                        *)
CallInner(at, inner) ==
    /\ frame' = [frame EXCEPT !["handler"].at = at, !["inner"] = inner]
    /\ UNCHANGED holder

(* The end of a scope unlocks.                                               *)
Leave(l) ==
    /\ frame' = [frame EXCEPT ![l] = Idle]
    /\ holder' = [m \in Mutexes |->
            IF m = MutexOf(frame[l].op) THEN "none" ELSE holder[m]]

(* The start of a scope locks, and waits for that as long as it takes; also  *)
(* for a mutex that the same thread has locked.                              *)
Lock(l) ==
    LET mutex == MutexOf(frame[l].op) IN
    /\ Runs(l) /\ frame[l].at = 0
    /\ mutex \in Mutexes => holder[mutex] = "none"
    /\ holder' = [m \in Mutexes |-> IF m = mutex THEN l ELSE holder[m]]
    /\ frame' = [frame EXCEPT ![l].at = 1]
    /\ UNCHANGED <<engineVars, sharedVars, ioVars, startVars, ended>>

Post(task) == tasks' = Append(tasks, task) /\ UNCHANGED <<bus, reading>>

(* The io thread is in run().                                                *)
Running == mIosThread = "joinable" /\ ~mIosStopped

(* The calls that a thread of the user or a slot may make.                   *)
Requests(kind) ==
    CASE kind = "registerCommand" -> {Frame(kind, c) : c \in program.commands}
      [] kind = "getServo" -> {Frame(kind, id) : id \in Servos}
      [] kind = "nothing" -> {Idle}
      [] OTHER -> {Frame(kind, 0)}
-----------------------------------------------------------------------------
Init ==
    /\ holder = [m \in Mutexes |-> "none"] /\ frame = [l \in Lanes |-> Idle]
    /\ tasks = <<>> /\ bus = <<>> /\ reading = 0
    /\ mPort = FALSE /\ mIosThread = "null" /\ mIosStopped = FALSE /\ starts = 0
    /\ mCommandQueue = <<>> /\ mCommandInProcess = FALSE
    /\ mCommandCurrent = <<>> /\ mOrderInProcess = FALSE
    /\ mOrderCurrent = NoOrder /\ mOrderTimeout = FALSE
    /\ mPingResult = <<>> /\ mServos = <<>> /\ freed = {}
    /\ program \in Programs
    /\ registered = <<>> /\ ended = 0 /\ pos = 0 /\ wire = <<>>

InBounds(kind) ==
    kind \in {"registerCommand", "start"} => Len(registered) + starts < MaxCalls

UserCalls(u) ==
    /\ ~Busy(u)
    /\ \E kind \in program.calls[u] : \E request \in Requests(kind) :
            InBounds(kind) /\ frame' = [frame EXCEPT ![u] = request]
    /\ UNCHANGED <<holder, engineVars, sharedVars, ioVars, startVars, ended>>
-----------------------------------------------------------------------------
(* Mutant: the new command goes to the front.                                *)
PushCommand_Front(l) ==
    /\ In(l, "registerCommand", 1)
    /\ mCommandQueue' = <<frame[l].arg>> \o mCommandQueue
    /\ registered' = Append(registered, frame[l].arg)
    /\ GoTo(l, 2)
    /\ UNCHANGED <<mPingResult, mServos, engineVars, ioVars, startVars, ended>>

(* registerCommand: the queue gets a copy, which points at the same orders.  *)
PushCommand(l) ==
    /\ In(l, "registerCommand", 1)
    /\ mCommandQueue' = Append(mCommandQueue, frame[l].arg)
    /\ registered' = Append(registered, frame[l].arg)
    /\ GoTo(l, 2)
    /\ UNCHANGED <<mPingResult, mServos, engineVars, ioVars, startVars, ended>>

(* Mutant: the state machine is not woken.                                   *)
PostCommand_NoPost(l) ==
    /\ In(l, "registerCommand", 2)
    /\ Leave(l)
    /\ UNCHANGED <<engineVars, sharedVars, ioVars, startVars, ended>>

PostCommand(l) ==
    /\ In(l, "registerCommand", 2)
    /\ Post("commandStateMachine") /\ Leave(l)
    /\ UNCHANGED <<engineVars, sharedVars, startVars, ended>>

(* Mutant: the lock covers the search only.                                  *)
FindServo_Unlocks(l) ==
    /\ In(l, "getServo", 1)
    /\ IF frame[l].arg \in ToSet(mServos) THEN Leave(l)
       ELSE /\ frame' = [frame EXCEPT ![l].at = 2]
            /\ holder' = [holder EXCEPT !["mServosMutex"] = "none"]
    /\ UNCHANGED <<engineVars, sharedVars, ioVars, startVars, ended>>

(* getServo: the servo is there, or it is created.                           *)
FindServo(l) ==
    /\ In(l, "getServo", 1)
    /\ IF frame[l].arg \in ToSet(mServos) THEN Leave(l) ELSE GoTo(l, 2)
    /\ UNCHANGED <<engineVars, sharedVars, ioVars, startVars, ended>>

CreateServo(l) ==
    /\ In(l, "getServo", 2)
    /\ mServos' = Append(mServos, frame[l].arg) /\ Leave(l)
    /\ UNCHANGED <<mCommandQueue, mPingResult, registered, engineVars, ioVars,
                   startVars, ended>>

(* getPingResult copies the list.                                            *)
CopyResult(l) ==
    /\ In(l, "getPingResult", 1) /\ Leave(l)
    /\ UNCHANGED <<engineVars, sharedVars, ioVars, startVars, ended>>
-----------------------------------------------------------------------------
(* start, and stop below, lock nothing.                                      *)
StartAlreadyOpened ==
    /\ In(Owner, "start", 1) /\ mPort /\ Leave(Owner)
    /\ UNCHANGED <<engineVars, sharedVars, ioVars, startVars, ended>>

(* From here on the io thread runs what is queued.                           *)
StartOpens ==
    /\ In(Owner, "start", 1) /\ ~mPort
    /\ mPort' = TRUE /\ mIosThread' = "joinable" /\ starts' = starts + 1
    /\ GoTo(Owner, 2)
    /\ UNCHANGED <<engineVars, sharedVars, ioVars, mIosStopped, program, ended>>

StartReads ==
    /\ In(Owner, "start", 2)
    /\ reading' = reading + 1 /\ Leave(Owner)
    /\ UNCHANGED <<engineVars, sharedVars, tasks, bus, startVars, ended>>

StopsIos ==
    /\ In(Owner, "stop", 1)
    /\ mIosStopped' = TRUE /\ GoTo(Owner, 2)
    /\ UNCHANGED <<engineVars, sharedVars, ioVars, mPort, mIosThread, starts, program,
                   ended>>

(* join waits for the end of a handler, and throws for a thread that has     *)
(* been joined.                                                              *)
StopJoins ==
    /\ In(Owner, "stop", 2)
    /\ IF mIosThread = "joined" THEN Leave(Owner) ELSE GoTo(Owner, 3)
    /\ mIosThread = "joinable" => ~Busy("handler")
    /\ mIosThread' = IF mIosThread = "null" THEN "null" ELSE "joined"
    /\ UNCHANGED <<engineVars, sharedVars, ioVars, mPort, mIosStopped, starts, program,
                   ended>>

Aborted == [i \in 1..reading |-> "abortedRead"]

(* cancel and close end the reads; their handlers stay queued, with the rest *)
(* of the queue.                                                             *)
StopCloses ==
    /\ In(Owner, "stop", 3)
    /\ mPort' = FALSE /\ mIosStopped' = FALSE
    /\ tasks' = tasks \o Aborted /\ reading' = 0 /\ Leave(Owner)
    /\ UNCHANGED <<engineVars, sharedVars, bus, mIosThread, starts, program, ended>>
-----------------------------------------------------------------------------
(* The io thread takes a handler from the queue.                             *)
RunTask ==
    /\ Running /\ ~Busy("handler") /\ tasks # <<>> /\ ~Corrupt
    /\ Head(tasks) # "endOrder"
    /\ frame' = [frame EXCEPT !["handler"] = Frame(Head(tasks), 0)]
    /\ tasks' = Tail(tasks)
    /\ UNCHANGED <<holder, engineVars, sharedVars, bus, reading, startVars, ended>>

(* endOrder locks nothing.  Cancelling a wait queues its handler.            *)
EndOrder ==
    /\ Running /\ ~Busy("handler") /\ tasks # <<>> /\ ~Corrupt
    /\ Head(tasks) = "endOrder"
    /\ mOrderInProcess' = FALSE /\ mOrderTimeout' = FALSE
    /\ tasks' = Tail(tasks)
            \o (IF mOrderTimeout THEN <<"endOrder">> ELSE <<>>)
            \o <<"commandStateMachine">>
    /\ UNCHANGED <<lockVars, mCommandInProcess, mCommandCurrent, mOrderCurrent,
                   freed, pos, wire, sharedVars, bus, reading, startVars, ended>>

Deciding == In("handler", "commandStateMachine", 1)

(* Mutant: the early return forgets to unlock.                               *)
NoMoreCommand_KeepsLock ==
    /\ Deciding /\ ~mCommandInProcess /\ mCommandQueue = <<>>
    /\ frame' = [frame EXCEPT !["handler"] = Idle]
    /\ UNCHANGED <<holder, engineVars, sharedVars, ioVars, startVars, ended>>

NoMoreCommand ==
    /\ Deciding /\ ~mCommandInProcess /\ mCommandQueue = <<>>
    /\ Leave("handler")
    /\ UNCHANGED <<engineVars, sharedVars, ioVars, startVars, ended>>

NextCommand ==
    /\ Deciding /\ ~mCommandInProcess /\ mCommandQueue # <<>>
    /\ mCommandInProcess' = TRUE
    /\ mCommandCurrent' = OrdersOf[Head(mCommandQueue)]
    /\ mCommandQueue' = Tail(mCommandQueue)
    /\ Post("commandStateMachine") /\ Leave("handler")
    /\ UNCHANGED <<mOrderInProcess, mOrderCurrent, mOrderTimeout, freed, pos,
                   wire, mPingResult, mServos, registered, startVars, ended>>

OrderRunning ==
    /\ Deciding /\ mCommandInProcess /\ mOrderInProcess
    /\ Leave("handler")
    /\ UNCHANGED <<engineVars, sharedVars, ioVars, startVars, ended>>

(* The slot of commandEnded runs here, under the lock.                       *)
CommandOver ==
    /\ Deciding /\ mCommandInProcess /\ ~mOrderInProcess
    /\ mCommandCurrent = <<>>
    /\ mCommandInProcess' = FALSE /\ ended' = ended + 1 /\ pos' = 0
    /\ \E request \in Requests(program.commandEnded) : CallInner(2, request)
    /\ UNCHANGED <<mCommandCurrent, mOrderInProcess, mOrderCurrent,
                   mOrderTimeout, freed, wire, sharedVars, ioVars, startVars>>

CommandEnded ==
    /\ In("handler", "commandStateMachine", 2)
    /\ Post("commandStateMachine") /\ Leave("handler")
    /\ UNCHANGED <<engineVars, sharedVars, startVars, ended>>

(* Mutant: extract leaves the order in the command.                          *)
Extracted_Stays == mCommandCurrent

Extracted == Tail(mCommandCurrent)

(* extract wraps the pointer in a new shared_ptr, and the assignment deletes *)
(* the order before.                                                         *)
ExtractOrder ==
    /\ Deciding /\ mCommandInProcess /\ ~mOrderInProcess
    /\ mCommandCurrent # <<>>
    /\ mOrderInProcess' = TRUE
    /\ mOrderCurrent' = Head(mCommandCurrent)
    /\ mCommandCurrent' = Extracted
    /\ freed' = freed \cup ({mOrderCurrent} \ {NoOrder})
    /\ CallInner(3, Frame("clearPing", 0))
    /\ UNCHANGED <<mCommandInProcess, mOrderTimeout, pos, wire, sharedVars,
                   ioVars, startVars, ended>>

ClearPing ==
    /\ In("inner", "clearPing", 1)
    /\ mPingResult' = <<>> /\ Leave("inner")
    /\ UNCHANGED <<mCommandQueue, mServos, registered, engineVars, ioVars,
                   startVars, ended>>

SendOrder ==
    /\ In("handler", "commandStateMachine", 3)
    /\ wire' = Append(wire, mOrderCurrent) /\ pos' = pos + 1
    /\ mOrderTimeout' = TRUE
    /\ Leave("handler")
    /\ UNCHANGED <<mCommandInProcess, mCommandCurrent, mOrderInProcess,
                   mOrderCurrent, freed, sharedVars, ioVars, startVars, ended>>
-----------------------------------------------------------------------------
(* readReceivedData, for one status.                                         *)
ProcessPacket ==
    /\ In("handler", "readReceivedData", 1) /\ bus # <<>>
    /\ CallInner(2, Frame("pushPing", Head(bus)))
    /\ bus' = Tail(bus)
    /\ UNCHANGED <<engineVars, sharedVars, tasks, reading, startVars, ended>>

(* What was read does not complete a status.                                 *)
NoPacket ==
    /\ In("handler", "readReceivedData", 1) /\ bus = <<>>
    /\ GoTo("handler", 3)
    /\ UNCHANGED <<engineVars, sharedVars, ioVars, startVars, ended>>

PushPing ==
    /\ In("inner", "pushPing", 1)
    /\ mPingResult' = Append(mPingResult, frame["inner"].arg)
    /\ Leave("inner")
    /\ UNCHANGED <<mCommandQueue, mServos, registered, engineVars, ioVars,
                   startVars, ended>>

(* The slot of newPingIdReceived runs here, under the lock.                  *)
NewPingIdReceived ==
    /\ In("handler", "readReceivedData", 2)
    /\ \E request \in Requests(program.newPingIdReceived) :
            CallInner(3, request)
    /\ UNCHANGED <<engineVars, sharedVars, ioVars, startVars, ended>>

PrepareAsyncRead ==
    /\ \/ In("handler", "readReceivedData", 3) \/ In("handler", "abortedRead", 1)
    /\ reading' = reading + 1 /\ Leave("handler")
    /\ UNCHANGED <<engineVars, sharedVars, tasks, bus, startVars, ended>>

(* What boost does: a wait that is over or a read that is done queues its    *)
(* handler, behind those that are queued.                                    *)
Expire ==
    /\ mOrderTimeout /\ mOrderTimeout' = FALSE /\ Post("endOrder")
    /\ UNCHANGED <<lockVars, mCommandInProcess, mCommandCurrent,
                   mOrderInProcess, mOrderCurrent, freed, pos, wire,
                   sharedVars, startVars, ended>>

Receive ==
    /\ reading > 0 /\ bus # <<>>
    /\ reading' = reading - 1 /\ tasks' = Append(tasks, "readReceivedData")
    /\ UNCHANGED <<lockVars, engineVars, sharedVars, bus, startVars, ended>>

(* A slot that does something of its own, in two steps.                      *)
OtherSlot ==
    /\ frame["inner"].op = "onCommandFinish"
    /\ \/ In("inner", "onCommandFinish", 1) /\ GoTo("inner", 2)
       \/ In("inner", "onCommandFinish", 2) /\ Leave("inner")
    /\ UNCHANGED <<engineVars, sharedVars, ioVars, startVars, ended>>

(* The servos are heard.                                                     *)
Hear(ids) ==
    /\ bus' = bus \o ids
    /\ UNCHANGED <<lockVars, engineVars, sharedVars, tasks, reading, startVars,
                   ended>>
-----------------------------------------------------------------------------
CallStep(l) == \/ Lock(l) \/ PushCommand(l) \/ PostCommand(l) \/ FindServo(l)
               \/ CreateServo(l) \/ CopyResult(l)

StartStop == \/ StartAlreadyOpened \/ StartOpens \/ StartReads
             \/ StopsIos \/ StopJoins \/ StopCloses

IoThread == \/ RunTask \/ EndOrder \/ NoMoreCommand \/ NextCommand
            \/ OrderRunning \/ CommandOver \/ CommandEnded \/ ExtractOrder
            \/ ClearPing \/ ProcessPacket \/ NoPacket \/ PushPing
            \/ NewPingIdReceived \/ PrepareAsyncRead \/ \E l \in IoLanes : CallStep(l)

Next == \/ StartStop \/ IoThread \/ SendOrder \/ OtherSlot \/ Expire \/ Receive
        \/ \E u \in Users : UserCalls(u) \/ CallStep(u)
        \/ \E ids \in Seq(Servos) : Hear(ids)

Spec == Init /\ [][Next]_vars
-----------------------------------------------------------------------------
(* Properties.                                                               *)

Ops == Handlers \cup SlotKinds \cup OwnerCalls \cup {"none", "clearPing", "pushPing"}
Frames ==
    {f \in [op : Ops, arg : Objects \cup Servos \cup {0}, at : Nat] :
        /\ f.op = "registerCommand" => f.arg \in Objects
        /\ f.op = "getServo" => f.arg \in Servos}

TypeOK ==
    /\ holder \in [Mutexes -> Lanes \cup {"none"}]
    /\ frame \in [Lanes -> Frames]
    /\ tasks \in Seq(Handlers) /\ bus \in Seq(Servos)
    /\ program \in Programs /\ reading \in Nat /\ starts \in Nat
    /\ mCommandQueue \in Seq(Objects) /\ registered \in Seq(Objects)
    /\ mServos \in Seq(Servos) /\ ended \in Nat
    /\ mCommandInProcess \in BOOLEAN

(* The shared members that the next step of a call or handler reads or       *)
(* writes; mPort stands for the object and the buffer of its reads.  The     *)
(* flags of the engine belong to the io thread alone.                        *)
Touches(l) ==
    IF ~Runs(l) \/ frame[l].at = 0 THEN {}
    ELSE CASE frame[l].op = "registerCommand" -> {"mCommandQueue"}
           [] frame[l].op = "commandStateMachine" /\ frame[l].at = 1
                -> {"mCommandQueue"}
           [] frame[l].op \in {"getPingResult", "clearPing", "pushPing"}
                -> {"mPingResult"}
           [] frame[l].op = "getServo" -> {"mServos"}
           [] \/ frame[l].op = "commandStateMachine" /\ frame[l].at = 3
              \/ frame[l].op = "readReceivedData" /\ frame[l].at \in {1, 3}
              \/ frame[l].op = "abortedRead"
              \/ frame[l].op = "start" /\ (frame[l].at = 2 \/ ~mPort)
              \/ frame[l].op = "stop" /\ frame[l].at = 3 -> {"mPort"}
           [] OTHER -> {}

(* A command has been registered before the first start is over, or the      *)
(* service is started again: handlers may run while start is under way.      *)
EarlyHandlers == registered # <<>> \/ starts > 1

(* No two threads are at a member at the same time, with every call at every *)
(* point of every handler, but for one place: when start requests the first  *)
(* read (Service.cxx:99), a handler of the thread just created may be at the *)
(* port.  A program that starts once and registers nothing before has no     *)
(* race at all.                                                              *)
NoDataRace == \A l, k \in Lanes : l # k =>
    \/ Touches(l) \cap Touches(k) = {}
    \/ /\ EarlyHandlers /\ Touches(l) \cap Touches(k) = {"mPort"}
       /\ \/ l = Owner /\ In(l, "start", 2) /\ k = "handler"
          \/ k = Owner /\ In(k, "start", 2) /\ l = "handler"

(* However many threads ask for a servo at once, getServo gives all of them  *)
(* the same one.                                                             *)
OneServoPerId == IsInjective(mServos)

(* The order that is sent, and asked for its kind at each packet, is not     *)
(* deleted, unless its Command object has been registered twice.             *)
OrderIsAlive ==
    Corrupt => ~IsInjective(registered)

(* A thread that waits for a mutex, and a handler that waits for its slot.   *)
Waits(l) == Busy(l) /\ frame[l].at = 0
CanStep(l) == Runs(l) /\ (Waits(l) /\ MutexOf(frame[l].op) \in Mutexes
                            => holder[MutexOf(frame[l].op)] = "none")
SlotRegisters == "registerCommand" \in {program.commandEnded, program.newPingIdReceived}

(* The handler waits for its slot, and the slot for the mutex of the handler.*)
SelfLocked == /\ Waits("inner") /\ MutexOf(frame["inner"].op) \in Mutexes
              /\ holder[MutexOf(frame["inner"].op)] = "handler"

(* Who holds a mutex goes on, at once or when another holder that goes on    *)
(* has left: no cycle of waits.  Only a handler whose slot registers a       *)
(* command waits for ever, once the slot is at the mutex that it has locked. *)
HoldersGoOn ==
    /\ \A m \in Mutexes : holder[m] # "none" =>
          \/ CanStep(holder[m])
          \/ /\ holder[m] = "handler" /\ Busy("inner")
             /\ \/ CanStep("inner")
                \/ SelfLocked
                \/ \E u \in Users : /\ holder[MutexOf(frame["inner"].op)] = u
                                   /\ CanStep(u)
          \/ Corrupt
    /\ SelfLocked => SlotRegisters /\ frame["inner"].op = "registerCommand"

(* The finer steps still serve the commands in order and once.               *)
Stream == INSTANCE CommandStream WITH
    Orders <- Nat,
    registered <- [i \in 1..Len(registered) |-> OrdersOf[registered[i]]],
    served <- ended
ServesStream == Stream!Spec
=============================================================================
