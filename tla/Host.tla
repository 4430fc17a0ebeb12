-------------------------------- MODULE Host ---------------------------------
(***************************************************************************)
(* The process of the host, the bridge and the servos together: an order   *)
(* that the io thread writes goes through the bridge to the servos, and    *)
(* their answers come back through it.  The process is test-01, or any     *)
(* other that calls the service from its threads and slots.                *)
(*                                                                         *)
(* An order and an answer are one token on the line.                       *)
(***************************************************************************)
EXTENDS Sharing

CONSTANT READ_BUFFER_SIZE

ASSUME HostAssumption ==
    /\ Owner = "main"
    /\ READ_BUFFER_SIZE \in Nat \ {0}
    /\ Servos \subseteq Nat /\ IsFiniteSet(Servos)

VARIABLES
    pcIn, xlIn, pcOut, xlOut, ReadBuffer, readSize, at, pcAll, xlAll,
    heard,              \* how many orders the servos have answered or not
    test01,             \* the process is test-01
    state, asioService, actionTimer     \* test-01: its globals

bridgeVars == <<pcIn, xlIn, pcOut, xlOut, ReadBuffer, readSize, at, pcAll, xlAll>>
testVars == <<state, asioService, actionTimer>>
hostVars == <<vars, bridgeVars, heard, test01, testVars>>

TheBridge == INSTANCE Bridge WITH Bytes <- Nat

Test01 ==
    [commandEnded |-> "onCommandFinish", newPingIdReceived |-> "nothing",
     calls |-> [u \in Users |->
                    IF u = "main" THEN {"start", "registerCommand"} ELSE {}],
     commands |-> Objects]

HostInit ==
    /\ Init /\ TheBridge!Init /\ heard = 0
    /\ test01 = (program = Test01)
    /\ state = 0 /\ actionTimer = FALSE
    /\ asioService = IF test01 THEN <<"testMachineState">> ELSE <<>>
-----------------------------------------------------------------------------
(* The main thread of test-01 starts the service, and then runs its own      *)
(* io_service, with the task that it has posted there.                       *)
StartService ==
    /\ test01 /\ ~Busy("main") /\ starts = 0 /\ InBounds("start")
    /\ frame' = [frame EXCEPT !["main"] = Frame("start", 0)]
    /\ UNCHANGED <<holder, engineVars, sharedVars, ioVars, startVars, ended,
                   bridgeVars, heard, test01, testVars>>

MainRuns(task) ==
    /\ test01 /\ starts > 0 /\ ~Busy("main") /\ asioService # <<>>
    /\ Head(asioService) = task /\ asioService' = Tail(asioService)

TestMachineState ==
    /\ MainRuns("testMachineState")
    /\ actionTimer' = (actionTimer \/ state = 0)
    /\ UNCHANGED <<vars, bridgeVars, heard, test01, state>>

ActionTimer ==
    /\ actionTimer /\ actionTimer' = FALSE
    /\ asioService' = Append(asioService, "goPing")
    /\ UNCHANGED <<vars, bridgeVars, heard, test01, state>>

(* sendPing registers a command of its own.                                  *)
GoPing ==
    /\ MainRuns("goPing") /\ InBounds("registerCommand")
    /\ \E request \in Requests("registerCommand") :
            /\ request.arg \notin ToSet(registered)
            /\ Len(OrdersOf[request.arg]) = 1
            /\ frame' = [frame EXCEPT !["main"] = request]
    /\ UNCHANGED <<holder, engineVars, sharedVars, ioVars, startVars, ended,
                   bridgeVars, heard, test01, state, actionTimer>>

(* Mutant: the task is posted before the count.                              *)
OnCommandFinish_PostFirst ==
    /\ OtherSlot
    /\ IF frame["inner"].at = 1
       THEN asioService' = Append(asioService, "testMachineState")
            /\ UNCHANGED state
       ELSE state' = state + 1 /\ UNCHANGED asioService
    /\ UNCHANGED <<bridgeVars, heard, test01, actionTimer>>

(* The slot of test-01, on the io thread.                                    *)
OnCommandFinish ==
    /\ OtherSlot
    /\ IF frame["inner"].at = 1 THEN state' = state + 1 /\ UNCHANGED asioService
       ELSE asioService' = Append(asioService, "testMachineState")
            /\ UNCHANGED state
    /\ UNCHANGED <<bridgeVars, heard, test01, actionTimer>>
-----------------------------------------------------------------------------
OrderLeaves ==
    /\ SendOrder /\ TheBridge!PcReceives(<<mOrderCurrent>>)
    /\ UNCHANGED <<heard, test01, testVars>>

Forward ==
    /\ \/ TheBridge!ReadPc \/ TheBridge!WriteXl \/ TheBridge!SkipPc
       \/ TheBridge!ReadXl \/ TheBridge!SkipXl
    /\ UNCHANGED <<vars, heard, test01, testVars>>

AnswersArrive ==
    /\ TheBridge!WritePc /\ Hear(TheBridge!Held)
    /\ UNCHANGED <<heard, test01, testVars>>

(* Servos answer a ping, some or none of them, in any order.                 *)
ServosAnswer ==
    /\ heard < Len(xlOut) /\ heard' = heard + 1
    /\ \E ids \in UNION {SetToSeqs(who) : who \in SUBSET Servos} :
            TheBridge!XlReceives(ids)
    /\ UNCHANGED <<vars, test01, testVars>>

Silent == UNCHANGED <<bridgeVars, heard, test01, testVars>>

Io == \/ IoThread /\ Silent
      \/ OrderLeaves \/ OnCommandFinish
User(u) == (CallStep(u) \/ (u = "main" /\ StartStop)) /\ Silent
Main == test01 /\ (StartService \/ TestMachineState \/ GoPing \/ User("main"))
Asio == (Expire \/ Receive) /\ Silent
Loop == Forward \/ AnswersArrive

(* Nothing goes on, or cannot go on.                                         *)
Stands == /\ \/ SelfLocked \/ Corrupt
             \/ tasks = <<>> /\ asioService = <<>> /\ ~mOrderTimeout
                    /\ ~actionTimer /\ \A l \in Lanes : ~Busy(l)
          /\ UNCHANGED hostVars

HostNext ==
    \/ Io \/ Asio \/ Loop \/ ServosAnswer \/ Stands
    \/ \E u \in Users : \/ User(u)
                        \/ ~test01 /\ UserCalls(u) /\ Silent
    \/ Main \/ ActionTimer

HostSpec == HostInit /\ [][HostNext]_hostVars

(* Every thread of test-01 runs, boost delivers, and the Arduino loops.      *)
HostFairSpec ==
    /\ HostSpec
    /\ WF_hostVars(test01 /\ Io) /\ WF_hostVars(test01 /\ Asio)
    /\ WF_hostVars(test01 /\ Loop)
    /\ WF_hostVars(Main) /\ WF_hostVars(ActionTimer)
-----------------------------------------------------------------------------
(* Properties.                                                               *)

(* The main thread looks at state, a plain int, only when the slot on the io *)
(* thread is done with it, and finds all the commands that have ended.       *)
StateIsSettled ==
    test01 /\ asioService # <<>> /\ Head(asioService) = "testMachineState"
        => state = ended /\ frame["inner"].op # "onCommandFinish"

(* What the PC sends reaches the servos and what they answer reaches the PC, *)
(* nothing lost, doubled, reordered or turned back by the shared buffer.     *)
BridgeForwards == TheBridge!Forwards

(* test-01 does what it should: one ping has reached the servos, and the     *)
(* main thread has been told that it is over (and waits on, in run()).       *)
TestEnds == test01 ~> (Len(xlOut) = 1 /\ state = 1 /\ asioService = <<>>)
=============================================================================
