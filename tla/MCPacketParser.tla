--------------------------- MODULE MCPacketParser ---------------------------
(* Small instances of PacketParser for TLC: packets as the servos build them *)
(* and noise of several kinds.                                               *)
EXTENDS PacketParser

P == INSTANCE Packet

PacketPiece(bytes) == [packet |-> TRUE, bytes |-> bytes]
NoisePiece(bytes) == [packet |-> FALSE, bytes |-> bytes]

(* An answer, an answer that holds a header, a ping. *)
SomePackets == {PacketPiece(P!Build(1, P!Status, <<0>>)),
                PacketPiece(P!Build(2, P!Status, <<0>> \o Header)),
                PacketPiece(P!PingOrder)}

(* Bytes that no header holds, pieces of a header, a packet without an       *)
(* instruction, a length that nothing on the line reaches.                   *)
SomeNoise == {NoisePiece(<<0>>), NoisePiece(<<7, 253, 1>>), NoisePiece(<<255>>),
              NoisePiece(<<255, 255, 0>>), NoisePiece(Header \o <<0, 1, 0, 0>>),
              NoisePiece(Header \o <<0, 1, 255, 255>>)}

Mixed == UNION {[1..n -> SomePackets \cup SomeNoise] : n \in 0..3}

(* Every line of eight bytes that starts like a header might.                *)
AnyBytes == {<<NoisePiece(<<255>> \o bytes)>> : bytes \in [1..7 -> {255, 253, 0}]}

SomeLines == Mixed \cup AnyBytes
=============================================================================
