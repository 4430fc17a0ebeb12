-------------------------- MODULE MCPacketExchange --------------------------
(* A small instance of PacketExchange for TLC: every register of both tables *)
(* that an order can name, one or two servos.                                *)
EXTENDS PacketExchange

OneOrTwo == {<<1>>, <<1, 252>>}
EveryHostRegister == {i \in DOMAIN RegMap : RegMap[i].size <= 2}
EveryArduinoRegister == DOMAIN RegInfoTable
=============================================================================
