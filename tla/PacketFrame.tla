---------------------------- MODULE PacketFrame ----------------------------
(***************************************************************************)
(* The layout of a packet, the same in src/lib/Packet.cxx and in           *)
(* src/arduino/libraries/XL320/packet.cpp: FF FF FD 00, the id, the length *)
(* of what follows (low byte first), the instruction, its parameters and a *)
(* CRC of two bytes.                                                       *)
(***************************************************************************)
EXTENDS Integers, SequencesExt

Byte == 0..255
Word == {w \in Nat : w < 65536}

WordLoByte(w) == w % 256
WordHiByte(w) == w \div 256
MakeWord(lo, hi) == lo + 256 * hi

Header == <<255, 255, 253>>
Reserve == 0
BroadcastId == 254

getId(pack) == pack[5]
getLength(pack) == MakeWord(pack[6], pack[7])
getInstruction(pack) == pack[8]
getCrc(pack) == MakeWord(pack[Len(pack) - 1], pack[Len(pack)])

(* The parameters; getParameter(n) is the element n + 1.                     *)
Parameters(pack) == SubSeq(pack, 9, 5 + getLength(pack))
-----------------------------------------------------------------------------
(* A byte is looked at only when the ones before it are those of a header.   *)
BadHeaderAt(s, k) ==
    /\ k <= Len(s) /\ s[k] # Header[k]
    /\ \A i \in 1..k-1 : s[i] = Header[i]

BadHeader(s) == \E k \in 1..3 : BadHeaderAt(s, k)

(* The size of the packet that starts s, once its length field is there.     *)
PacketSize(s) == 7 + getLength(s)

HasPacket(s) == ~BadHeader(s) /\ Len(s) >= 7 /\ PacketSize(s) <= Len(s)
=============================================================================
