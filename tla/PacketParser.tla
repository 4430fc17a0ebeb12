---------------------------- MODULE PacketParser ----------------------------
(***************************************************************************)
(* How woo::xl320::Service cuts packets out of bytes: readReceivedData     *)
(* appends what a read brought to mParseBuffer and calls parsePacket,      *)
(* which calls itself again after each packet (Service.cxx:325-466).       *)
(*                                                                         *)
(* Service takes what this module establishes for granted: there a packet  *)
(* is one item of the line and noise is one item that a parse throws away. *)
(***************************************************************************)
EXTENDS PacketFrame, Suffix

CONSTANTS
    Lines,      \* what may come over the line: sequences of pieces
    MaxChunk    \* bound: bytes of one read

(* A piece of the line: a packet as a servo builds it, or noise. *)
Pieces == [packet : BOOLEAN, bytes : Seq(Byte)]

Packets(pieces) == [i \in DOMAIN pieces |-> pieces[i].bytes]

BytesOf(pieces) == FlattenSeq(Packets(pieces))

(* A packet is whole and noise is something. *)
IsPiece(piece) ==
    IF piece.packet THEN HasPacket(piece.bytes) /\ PacketSize(piece.bytes) = Len(piece.bytes)
    ELSE piece.bytes # <<>>

ASSUME LinesAssumption ==
    \A l \in Lines : l \in Seq(Pieces) /\ \A i \in DOMAIN l : IsPiece(l[i])
ASSUME ChunkAssumption == MaxChunk \in Nat \ {0}

VARIABLES
    sent,          \* the pieces that come over the line
    stream,        \* their bytes
    line,          \* the bytes still to come
    mParseBuffer,
    parsing,       \* parsePacket runs
    delivered      \* the packets given to processPacket

vars == <<sent, stream, line, mParseBuffer, parsing, delivered>>

TypeOK ==
    /\ sent \in Seq(Pieces)
    /\ stream \in Seq(Byte)
    /\ line \in Seq(Byte)
    /\ mParseBuffer \in Seq(Byte)
    /\ parsing \in BOOLEAN
    /\ delivered \in Seq(Seq(Byte))

Init ==
    /\ sent \in Lines
    /\ stream = BytesOf(sent) /\ line = stream
    /\ mParseBuffer = <<>> /\ parsing = FALSE /\ delivered = <<>>
-----------------------------------------------------------------------------
(* Mutant of Read: the bytes are put in front of those that wait. *)
Read_Front(n) ==
    /\ ~parsing /\ n <= Len(line)
    /\ mParseBuffer' = SubSeq(line, 1, n) \o mParseBuffer
    /\ line' = From(line, n + 1)
    /\ parsing' = TRUE
    /\ UNCHANGED <<sent, stream, delivered>>

(* One read: readReceivedData appends its bytes, then parses.                *)
Read(n) ==
    /\ ~parsing /\ n <= Len(line)
    /\ mParseBuffer' = mParseBuffer \o SubSeq(line, 1, n)
    /\ line' = From(line, n + 1)
    /\ parsing' = TRUE
    /\ UNCHANGED <<sent, stream, delivered>>

(* Mutant of DropHeader: it takes one byte too many. *)
DropHeader_OneMore ==
    /\ parsing
    /\ \E k \in 1..3 :
          BadHeaderAt(mParseBuffer, k) /\ mParseBuffer' = From(mParseBuffer, k + 2)
    /\ parsing' = FALSE
    /\ UNCHANGED <<sent, stream, line, delivered>>

(* The header is wrong: its bytes are erased, up to and with the wrong one,  *)
(* and the parse is over, whatever else is in the buffer.                    *)
DropHeader ==
    /\ parsing
    /\ \E k \in 1..3 :
          BadHeaderAt(mParseBuffer, k) /\ mParseBuffer' = From(mParseBuffer, k + 1)
    /\ parsing' = FALSE
    /\ UNCHANGED <<sent, stream, line, delivered>>

(* Mutant of Wait: an incomplete packet is thrown away. *)
Wait_Drop ==
    /\ parsing
    /\ ~BadHeader(mParseBuffer) /\ ~HasPacket(mParseBuffer)
    /\ mParseBuffer' = <<>>
    /\ parsing' = FALSE
    /\ UNCHANGED <<sent, stream, line, delivered>>

(* The buffer is empty, or upSize finds fewer bytes than the packet needs.   *)
Wait ==
    /\ parsing
    /\ ~BadHeader(mParseBuffer) /\ ~HasPacket(mParseBuffer)
    /\ parsing' = FALSE
    /\ UNCHANGED <<sent, stream, line, mParseBuffer, delivered>>

(* Mutant of Deliver: parsePacket does not call itself again. *)
Deliver_Once ==
    /\ parsing /\ HasPacket(mParseBuffer)
    /\ delivered' = Append(delivered, SubSeq(mParseBuffer, 1, PacketSize(mParseBuffer)))
    /\ mParseBuffer' = From(mParseBuffer, PacketSize(mParseBuffer) + 1)
    /\ parsing' = FALSE
    /\ UNCHANGED <<sent, stream, line>>

Deliver ==
    /\ parsing /\ HasPacket(mParseBuffer)
    /\ delivered' = Append(delivered, SubSeq(mParseBuffer, 1, PacketSize(mParseBuffer)))
    /\ mParseBuffer' = From(mParseBuffer, PacketSize(mParseBuffer) + 1)
    /\ UNCHANGED <<sent, stream, line, parsing>>

(* Where the line may rest: nothing more comes. *)
Silence == ~parsing /\ line = <<>> /\ UNCHANGED vars

ParsePacket == DropHeader \/ Wait \/ Deliver

Next == (\E n \in 1..MaxChunk : Read(n)) \/ ParsePacket \/ Silence

Spec == Init /\ [][Next]_vars
-----------------------------------------------------------------------------
(* The packets among the pieces.                                             *)
PacketsOf(pieces) ==
    FlattenSeq([i \in DOMAIN pieces |->
                   IF pieces[i].packet THEN <<pieces[i].bytes>> ELSE <<>>])

(* Nothing is lost, repeated or reordered between the port and the parser:   *)
(* what is in mParseBuffer and what is still to come is the end of what was  *)
(* sent (Service.cxx:358-362, 409-436, 463).                                 *)
BytesConserved ==
    \E k \in 1..Len(stream) + 1 : mParseBuffer \o line = From(stream, k)

(* What a parse of the whole line in one go would deliver, erasing and       *)
(* parsing on.                                                               *)
WholeLine ==
    LET parse[k \in 1..Len(stream) + 1] ==
            LET rest == From(stream, k)
            IN  IF BadHeader(rest)
                THEN parse[k + (CHOOSE i \in 1..3 : BadHeaderAt(rest, i))]
                ELSE IF HasPacket(rest)
                     THEN <<SubSeq(rest, 1, PacketSize(rest))>> \o parse[k + PacketSize(rest)]
                     ELSE <<>>
    IN  parse[1]

(* How the line is cut into reads never changes which packets are given to   *)
(* processPacket, only when: they are the first ones of a parse of the whole *)
(* line (Service.cxx:374-466).                                               *)
CutDoesNotMatter == IsPrefix(delivered, WholeLine)

(* On a clean line every packet is given to processPacket in the very read   *)
(* that completes it, whatever its parameters hold (Service.cxx:455-466).    *)
Clean == \A i \in DOMAIN sent : sent[i].packet

PromptWhenClean ==
    (Clean /\ ~parsing) =>
        /\ delivered = SubSeq(Packets(sent), 1, Len(delivered))
        /\ \A n \in 0..Len(sent) :
              Len(BytesOf(SubSeq(sent, 1, n))) <= Len(stream) - Len(line)
              => n <= Len(delivered)

(* Noise without a header byte costs time but no packet, and makes none up   *)
(* (Service.cxx:409-436).                                                    *)
HarmlessNoise ==
    \A i \in DOMAIN sent : sent[i].packet \/ \A j \in DOMAIN sent[i].bytes :
                                                 sent[i].bytes[j] # Header[1]

NoiseOnlyDelays ==
    HarmlessNoise => IsPrefix(delivered, PacketsOf(sent))
=============================================================================
