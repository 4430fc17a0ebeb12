------------------------------- MODULE MCHost --------------------------------
(* test-01, or a program with other slots, or with none that is started and  *)
(* stopped; a command of two pings and two of a single ping; a servo that    *)
(* answers or not.                                                           *)
EXTENDS Host

TwoThreads == {"main", "other"}
SomeObjects == {1, 2, 3}
SomeOrders == <<<<11>>, <<12>>, <<13, 14>>>>
OneServo == {1}
Program(onEnd, onId, main, other, commands) ==
    [commandEnded |-> onEnd, newPingIdReceived |-> onId,
     calls |-> [u \in TwoThreads |-> IF u = "main" THEN main ELSE other],
     commands |-> commands]
SomePrograms ==
    {Test01,
     Program("registerCommand", "registerCommand", {"start"},
             {"registerCommand", "getPingResult"}, {1, 3}),
     Program("getServo", "getPingResult", {"start"},
             {"registerCommand", "getServo"}, {1, 2}),
     Program("nothing", "nothing", {"start", "stop"}, {"registerCommand"}, {1})}
=============================================================================
