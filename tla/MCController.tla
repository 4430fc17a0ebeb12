---------------------------- MODULE MCController ----------------------------
(* A line of three servos and a buffer that two of their answers to a ping   *)
(* and an echo fill but for two bytes, as nine answers fill the 128 bytes.   *)
EXTENDS Controller

SomeBauds == {115200, 1000000}
ThreeServos == <<1, 2, 3>>

(* A register of one byte and one of two; one value looks like the mark.     *)
SomeRegs == {"Led", "GoalPosition"}
SomeValue == [x \in Byte \X SomeRegs |->
    IF x[2] = "Led" THEN <<x[1]>> ELSE IF x[1] = 2 THEN <<255, 255>>
                                       ELSE <<x[1], 2>>]

SomeSelections == {<<3, 1>>, <<2, 2>>}

Echo == Frame(254, 1, <<>>)
(* A packet whose length makes the sum of upSize zero.                       *)
Endless == Header \o <<0, 9, 249, 255>>

SomeFronts == {<<>>, Echo, <<255>>, Endless}
SilenceOrEcho == {<<>>, Echo}
SomeBacks == {<<>>, <<255>>}
SomeSilences == {{}, {2}, {1, 2, 3}}
SomeChunks == {38}
SomeBytes == {0, 255}
=============================================================================
