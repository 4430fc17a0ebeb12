------------------------------- MODULE Bridge --------------------------------
(***************************************************************************)
(* serial-bridge.ino: the Arduino between the PC and the servos.  loop     *)
(* forwards what each serial port has received to the other one, through   *)
(* one buffer for both directions.                                         *)
(***************************************************************************)
EXTENDS Integers, Sequences

CONSTANTS
    READ_BUFFER_SIZE,   \* 128
    Bytes               \* what goes over the lines

(* What the proofs about it assume of these.                                 *)
ReadBufferAssumption == READ_BUFFER_SIZE \in Nat \ {0} /\ 0 \in Bytes

VARIABLES
    pcIn, xlIn,         \* received by PC_SERIAL and XL_SERIAL, not yet read
    pcOut, xlOut,       \* everything written to them
    ReadBuffer, readSize,
    at,                 \* where loop is
    pcAll, xlAll        \* history: everything received by them

vars == <<pcIn, xlIn, pcOut, xlOut, ReadBuffer, readSize, at, pcAll, xlAll>>

Init ==
    /\ pcIn = <<>> /\ xlIn = <<>> /\ pcOut = <<>> /\ xlOut = <<>>
    /\ ReadBuffer = [i \in 1..READ_BUFFER_SIZE |-> 0] /\ readSize = 0
    /\ at = "readPc" /\ pcAll = <<>> /\ xlAll = <<>>

PcReceives(data) ==
    /\ pcIn' = pcIn \o data /\ pcAll' = pcAll \o data
    /\ UNCHANGED <<xlIn, pcOut, xlOut, ReadBuffer, readSize, at, xlAll>>

XlReceives(data) ==
    /\ xlIn' = xlIn \o data /\ xlAll' = xlAll \o data
    /\ UNCHANGED <<pcIn, pcOut, xlOut, ReadBuffer, readSize, at, pcAll>>

ReadSize(available) ==
    IF available > READ_BUFFER_SIZE THEN READ_BUFFER_SIZE ELSE available

(* readBytes: what does not fit would be lost.                               *)
ReadBytes(in) ==
    /\ readSize' = ReadSize(Len(in))
    /\ ReadBuffer' = [i \in 1..READ_BUFFER_SIZE |->
            IF i <= readSize' THEN in[i] ELSE ReadBuffer[i]]

(* Mutant: the whole buffer is written.                                      *)
Held_WholeBuffer == ReadBuffer

Held == [i \in 1..readSize |-> ReadBuffer[i]]

(* A loop that finds nothing on either side changes nothing.                 *)
ReadPc ==
    /\ at = "readPc" /\ pcIn # <<>>
    /\ ReadBytes(pcIn) /\ pcIn' = SubSeq(pcIn, readSize' + 1, Len(pcIn))
    /\ at' = "writeXl" /\ UNCHANGED <<xlIn, pcOut, xlOut, pcAll, xlAll>>

WriteXl ==
    /\ at = "writeXl"
    /\ xlOut' = xlOut \o Held
    /\ at' = "readXl"
    /\ UNCHANGED <<pcIn, xlIn, pcOut, ReadBuffer, readSize, pcAll, xlAll>>

SkipPc ==
    /\ at = "readPc" /\ pcIn = <<>> /\ xlIn # <<>>
    /\ at' = "readXl"
    /\ UNCHANGED <<pcIn, xlIn, pcOut, xlOut, ReadBuffer, readSize, pcAll, xlAll>>

ReadXl ==
    /\ at = "readXl" /\ xlIn # <<>>
    /\ ReadBytes(xlIn) /\ xlIn' = SubSeq(xlIn, readSize' + 1, Len(xlIn))
    /\ at' = "writePc" /\ UNCHANGED <<pcIn, pcOut, xlOut, pcAll, xlAll>>

WritePc ==
    /\ at = "writePc"
    /\ pcOut' = pcOut \o Held
    /\ at' = "readPc"
    /\ UNCHANGED <<pcIn, xlIn, xlOut, ReadBuffer, readSize, pcAll, xlAll>>

SkipXl ==
    /\ at = "readXl" /\ xlIn = <<>>
    /\ at' = "readPc"
    /\ UNCHANGED <<pcIn, xlIn, pcOut, xlOut, ReadBuffer, readSize, pcAll, xlAll>>

Loop == ReadPc \/ WriteXl \/ SkipPc \/ ReadXl \/ WritePc \/ SkipXl

Next == Loop \/ \E data \in Seq(Bytes) : PcReceives(data) \/ XlReceives(data)

Spec == Init /\ [][Next]_vars
-----------------------------------------------------------------------------
TypeOK ==
    /\ {pcIn, xlIn, pcOut, xlOut, pcAll, xlAll} \subseteq Seq(Bytes)
    /\ ReadBuffer \in [1..READ_BUFFER_SIZE -> Bytes]
    /\ readSize \in 0..READ_BUFFER_SIZE
    /\ at \in {"readPc", "writeXl", "readXl", "writePc"}

(* What is in the buffer, if it is on its way to this side.                  *)
Carried(here) == IF at = here THEN Held ELSE <<>>

(* Nothing is lost, doubled or reordered, and nothing of one direction gets  *)
(* into the other, although both use the same buffer.                        *)
Forwards ==
    /\ pcAll = xlOut \o Carried("writeXl") \o pcIn
    /\ xlAll = pcOut \o Carried("writePc") \o xlIn
=============================================================================
