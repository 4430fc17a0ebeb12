----------------------------- MODULE Controller -----------------------------
(***************************************************************************)
(* The controller of the Arduino library XL320 (controller.cpp): a call    *)
(* sends one packet, reads what comes within a second into mRxBuffer and   *)
(* then takes the packets out of the buffer one after the other.           *)
(*                                                                         *)
(* mRxPtr is the distance from the start of mRxBuffer.  It may pass the    *)
(* received bytes, where the buffer still holds those of earlier calls,    *)
(* and even the buffer, where the memory holds anything.                   *)
(*                                                                         *)
(* The line and the servos on it are outside of the code: they answer in   *)
(* the order of the chain, each once or not at all, at any time.           *)
(***************************************************************************)
EXTENDS PacketFrame, FiniteSetsExt

CONSTANTS
    RxBufferSizeMax,    \* 128
    SelectSizeMax,      \* 5, also the size of the arrays of the callers
    Bauds, ServoBaud,   \* speeds that are set, and the one of the servos
    Chain,              \* the ids on the line, in the order of their answers
    Silences,           \* the sets of servos that may stay silent together
    Regs,               \* the registers that are pulled and pushed
    Value,              \* Value[<<id, reg>>]: the bytes of that register
    Selections,         \* what callers select, each at most SelectSizeMax ids
    Fronts, Backs,      \* what the line may carry before and after the answers
    Quiet,              \* those of Fronts that are silence or whole packets
    Chunks,             \* how many bytes arrive at a time
    Beyond,             \* what the memory behind mRxBuffer may hold
    ShortInt,           \* an int has 16 bits, as on an AVR
    MaxCalls            \* bound: calls of the sketch

Status == 85

ASSUME SizesAssumption ==
    /\ RxBufferSizeMax \in Nat \ {0} /\ RxBufferSizeMax < 32768
    /\ SelectSizeMax \in Nat \ {0} /\ SelectSizeMax < 256
ASSUME LineAssumption ==
    /\ Chain \in Seq(0..252) /\ IsInjective(Chain) /\ Beyond \subseteq Byte
    /\ Fronts \subseteq Seq(Byte) /\ Backs \subseteq Seq(Byte)
    /\ \A id \in Byte : \A r \in Regs :
            Value[<<id, r>>] \in Seq(Byte) /\ Len(Value[<<id, r>>]) \in 1..2
    /\ Chunks \subseteq Nat \ {0}

(* What a quiet line may carry besides the answers: a packet that is none.   *)
IsWhole(packet) == /\ Len(packet) \in 8..255 /\ HasPacket(packet)
                   /\ PacketSize(packet) = Len(packet)
ASSUME QuietAssumption ==
    \A front \in Quiet : \/ front = <<>>
                          \/ /\ front \in Fronts /\ IsWhole(front)
                             /\ getInstruction(front) # Status

ASSUME SelectAssumption ==
    \A s \in Selections : s \in Seq(Byte) /\ Len(s) <= SelectSizeMax
ASSUME BaudAssumption == Bauds \subseteq Int /\ ShortInt \in BOOLEAN

VARIABLES
    mXlSerialBaudRate, mSelectIds, mSelectSize,
    mRxBuffer, mRxBufferSize, mRxPtr,
    pc,                 \* "idle", "receive" or "parse"
    call,               \* the operation under way or the last one
    number, ids,        \* answers counted, and the ids ping has stored
    returnVector,       \* the values of pull, one for each selected index
    uart,               \* bytes the serial port has received
    line,               \* bytes still on their way
    calls,              \* calls so far
    answered,           \* history: who answers the call under way
    fresh,              \* history: nothing was on its way when it began
    noisy,              \* history: there is more than packets on the line
    awaited             \* history: the bytes that will arrive for it

selectVars == <<mSelectIds, mSelectSize>>
rxVars == <<mRxBuffer, mRxBufferSize, mRxPtr>>
resultVars == <<number, ids, returnVector>>
history == <<answered, fresh, noisy, awaited>>
vars == <<mXlSerialBaudRate, selectVars, rxVars, pc, call, resultVars, uart,
          line, calls, history>>

PacketError == 42
NoAnswer == 65535      \* the mark of pull for a servo that has not answered
OddAnswer == 100       \* its value for an answer of another size
-----------------------------------------------------------------------------
(* The servos and the line, outside of the code.                             *)

(* A packet of the line; nothing in this library reads its CRC.              *)
Frame(id, instruction, params) ==
    Header \o <<Reserve, id, WordLoByte(Len(params) + 3),
                WordHiByte(Len(params) + 3), instruction>>
           \o params \o <<255, 7>>

StatusFrame(id, params) == Frame(id, Status, <<0>> \o params)

Selected == {mSelectIds[i] : i \in 1..mSelectSize}

(* A broadcast that writes has no answer; an echo is a packet of Fronts.     *)
Asked(op) == IF op = "ping" THEN ToSet(Chain)
             ELSE IF op = "pull" THEN ToSet(Chain) \cap Selected ELSE {}

AnswerOf(id, op, reg) ==
    StatusFrame(id, IF op = "ping" THEN <<94, 1, 29>> ELSE Value[<<id, reg>>])

AnswersOf(who, op, reg) ==
    FlattenSeq([i \in 1..Len(Chain) |->
        IF Chain[i] \in who THEN AnswerOf(Chain[i], op, reg) ELSE <<>>])

(* The order in which they answer.                                           *)
InOrder(who) ==
    FlattenSeq([i \in 1..Len(Chain) |->
        IF Chain[i] \in who THEN <<Chain[i]>> ELSE <<>>])

Arrive ==
    \E n \in Chunks \cup {Len(line)} :
        /\ line # <<>> /\ uart = <<>> /\ n <= Len(line)
        /\ pc # "idle" \/ calls < MaxCalls    \* bound: nothing reads it
        /\ uart' = SubSeq(line, 1, n)
        /\ line' = SubSeq(line, n + 1, Len(line))
        /\ UNCHANGED <<mXlSerialBaudRate, selectVars, rxVars, pc, call,
                       resultVars, calls, history>>
-----------------------------------------------------------------------------
(* The memory that starts with mRxBuffer, if what is behind it is beyond.    *)
At(i, beyond) == IF i < RxBufferSizeMax THEN mRxBuffer[i] ELSE beyond

(* uint16_t left                                                             *)
Left == (mRxBufferSize - mRxPtr) % 65536

(* What the 16 bits of the length field hold, the size in 8 bits once the    *)
(* packet is complete, and its bytes.                                        *)
LengthAt(beyond) ==
    MakeWord(At(mRxPtr + 5, beyond), At(mRxPtr + 6, beyond))
SizeAt(beyond) == (7 + LengthAt(beyond)) % 256
PackAt(beyond) ==
    [i \in 1..SizeAt(beyond) |-> At(mRxPtr + i - 1, beyond)]

(* Byte k of a header is looked at, although upSize has let k bytes pass     *)
(* and not k + 1, and is not what it should be.                              *)
WrongHeader(k, beyond) ==
    /\ k <= Left /\ At(mRxPtr + k, beyond) # Header[k + 1]
    /\ \A j \in 0..k-1 : At(mRxPtr + j, beyond) = Header[j + 1]

GoodHeader(beyond) == \A k \in 0..2 :
    k <= Left /\ At(mRxPtr + k, beyond) = Header[k + 1]

(* size + plus is computed in an int, and wraps where it is short.           *)
UpSizeSum(beyond) ==
    (7 + LengthAt(beyond)) % (IF ShortInt THEN 65536 ELSE 131072)

CompletePacket(beyond) ==
    GoodHeader(beyond) /\ 7 <= Left /\ UpSizeSum(beyond) <= Left

(* The getters of Packet, with their guards on the size.                     *)
GetId(pack) == IF Len(pack) < 5 THEN PacketError ELSE getId(pack)
GetLength(pack) == IF Len(pack) < 7 THEN PacketError ELSE getLength(pack)
isInstructionStatus(pack) == Len(pack) >= 8 /\ getInstruction(pack) = Status
getParameterCount(pack) == (GetLength(pack) - 3) % 65536
getParameter(pack, n) ==
    IF Len(pack) < 9 + n THEN PacketError ELSE pack[9 + n]

(* What pull makes of a status.                                              *)
PulledValue(pack) ==
    LET pcount == getParameterCount(pack) % 256 IN
    CASE pcount = 2 -> getParameter(pack, 1)
      [] pcount = 3 -> MakeWord(getParameter(pack, 1), getParameter(pack, 2))
      [] OTHER -> OddAnswer

(* Mutant: the answers are taken to come in the order of the selection.      *)
FirstIndex_InOrder(id, i) == i \in 1..mSelectSize /\ i = number + 1

(* The first index that has this id selected.                                *)
FirstIndex(id, i) ==
    /\ i \in 1..mSelectSize /\ mSelectIds[i] = id
    /\ \A j \in 1..i-1 : mSelectIds[j] # id
-----------------------------------------------------------------------------
Init ==
    /\ mXlSerialBaudRate = 1000000
    /\ mSelectIds = [i \in 1..SelectSizeMax |-> IF i = 1 THEN 1 ELSE 0]
    /\ mSelectSize = 1
    /\ mRxBuffer = [i \in 0..RxBufferSizeMax-1 |-> 0]
    /\ mRxBufferSize = 0 /\ mRxPtr = 0
    /\ pc = "idle" /\ call = [op |-> "none"]
    /\ number = 0 /\ ids = <<>> /\ returnVector = <<>>
    /\ uart = <<>> /\ line = <<>> /\ calls = 0
    /\ answered = <<>> /\ fresh = TRUE /\ noisy = FALSE /\ awaited = 0

selectServo(selection) ==
    /\ pc = "idle"
    /\ mSelectSize' = Len(selection)
    /\ mSelectIds' = [i \in 1..SelectSizeMax |->
            IF i <= Len(selection) THEN selection[i] ELSE mSelectIds[i]]
    /\ UNCHANGED <<mXlSerialBaudRate, rxVars, pc, call, resultVars, uart,
                   line, calls, history>>

(* end() of the serial port forgets the bytes it has received.               *)
setXlBaudRate(br) ==
    /\ pc = "idle"
    /\ mXlSerialBaudRate' = br /\ uart' = <<>>
    /\ UNCHANGED <<selectVars, rxVars, pc, call, resultVars, line, calls,
                   history>>

(* Mutant: the pointer stays where the last call has left it.                *)
dropRxData_SizeOnly == mRxBufferSize' = 0 /\ UNCHANGED mRxPtr

dropRxData == mRxBufferSize' = 0 /\ mRxPtr' = 0

(* sendBuffer, and the start of receiveData; the servos hear the packet.     *)
Send(op, reg, who, front, back) ==
    LET heard == mXlSerialBaudRate = ServoBaud
        reply == IF heard THEN front \o AnswersOf(who, op, reg) \o back
                          ELSE <<>>
    IN  /\ call' = [op |-> op, reg |-> reg]
        /\ pc' = "receive"
        /\ dropRxData
        /\ line' = line \o reply
        /\ answered' = IF heard THEN InOrder(who) ELSE <<>>
        /\ fresh' = (line = <<>> /\ uart = <<>>)
        /\ noisy' = (heard /\ (front \notin Quiet \/ back # <<>>))
        /\ awaited' = Len(line) + Len(uart) + Len(reply)
        /\ number' = 0 /\ ids' = <<>> /\ returnVector' = <<>>
        /\ UNCHANGED <<mXlSerialBaudRate, selectVars, mRxBuffer, uart>>

(* ping, pull, push, reset, reboot up to receiveData.                        *)
Call(op, reg) ==
    /\ pc = "idle"
    /\ \E silent \in Silences, front \in Fronts, back \in Backs :
        Send(op, reg, Asked(op) \ silent, front, back)
-----------------------------------------------------------------------------
(* Mutants: what is available is read whatever the room, or the last byte of *)
(* the buffer stays free.                                                    *)
ReadSize_Unbounded == Len(uart)
ReadSize_LeavesOne == Min({Len(uart), RxBufferSizeMax - 1 - mRxBufferSize})

ReadSize == Min({Len(uart), RxBufferSizeMax - mRxBufferSize})

(* receiveData: one round of the inner loop.  When the buffer is full it     *)
(* reads no byte at all, and goes on for as long as there are some.          *)
ReceiveRound ==
    /\ pc = "receive" /\ uart # <<>>
    /\ mRxBuffer' = [i \in 0..RxBufferSizeMax-1 |->
            IF i \in mRxBufferSize..mRxBufferSize+ReadSize-1
            THEN uart[i - mRxBufferSize + 1] ELSE mRxBuffer[i]]
    /\ mRxBufferSize' = mRxBufferSize + ReadSize
    /\ uart' = SubSeq(uart, ReadSize + 1, Len(uart))
    /\ UNCHANGED <<mXlSerialBaudRate, selectVars, mRxPtr, pc, call,
                   resultVars, line, calls, history>>

(* The second is over or the buffer is full: push, reset and reboot drop     *)
(* what has come and return, ping and pull begin to parse.                   *)
ReceiveEnds ==
    /\ pc = "receive" /\ uart = <<>>
    /\ returnVector' = IF call.op = "pull"
                       THEN [i \in 1..mSelectSize |-> NoAnswer] ELSE <<>>
    /\ IF call.op \in {"ping", "pull"}
       THEN pc' = "parse" /\ UNCHANGED <<mRxBufferSize, mRxPtr>>
       ELSE pc' = "idle" /\ dropRxData
    /\ UNCHANGED <<mXlSerialBaudRate, selectVars, mRxBuffer, call, number, ids,
                   uart, line, calls, history>>

(* getNextPacket does not find a header: the pointer moves behind the byte   *)
(* that is wrong, also when that byte was never received.                    *)
SkipBytes(beyond) ==
    \E k \in 0..2 :
        /\ pc = "parse" /\ Left > 0
        /\ WrongHeader(k, beyond)
        /\ mRxPtr' = mRxPtr + k + 1
        /\ UNCHANGED <<mXlSerialBaudRate, selectVars, mRxBuffer, mRxBufferSize,
                       pc, call, resultVars, uart, line, calls, history>>

(* ping stores an id wherever the count has led.                             *)
TakeStatus(id, value) ==
    IF call.op = "ping"
    THEN /\ ids' = Append(ids, id) /\ number' = (number + 1) % 256
         /\ UNCHANGED returnVector
    ELSE /\ IF \E i \in 1..mSelectSize : FirstIndex(id, i)
            THEN /\ returnVector' = [i \in 1..mSelectSize |->
                        IF FirstIndex(id, i) THEN value ELSE returnVector[i]]
                 /\ number' = (number + 1) % 256
            ELSE UNCHANGED <<returnVector, number>>
         /\ UNCHANGED ids

(* Mutants: the size without the seven bytes before it, or one byte more.    *)
Consume_LengthOnly(beyond) == mRxPtr' = mRxPtr + LengthAt(beyond)
Consume_OneMore(beyond) == mRxPtr' = mRxPtr + SizeAt(beyond) + 1

(* dropNextPacket: the pointer moves behind the packet.                      *)
Consume(beyond) == mRxPtr' = mRxPtr + SizeAt(beyond)

TakePacket(beyond) ==
    LET pack == PackAt(beyond) IN
    /\ pc = "parse" /\ Left > 0 /\ CompletePacket(beyond)
    /\ Consume(beyond)
    /\ IF isInstructionStatus(pack)
       THEN TakeStatus(GetId(pack), PulledValue(pack))
       ELSE UNCHANGED resultVars
    /\ UNCHANGED <<mXlSerialBaudRate, selectVars, mRxBuffer, mRxBufferSize, pc,
                   call, uart, line, calls, history>>

(* EndOfBuffer: nothing left, or less than a packet.                         *)
Return(beyond) ==
    /\ pc = "parse"
    /\ \/ Left = 0
       \/ ~CompletePacket(beyond) /\ \A k \in 0..2 : ~WrongHeader(k, beyond)
    /\ pc' = "idle"
    /\ UNCHANGED <<mXlSerialBaudRate, selectVars, rxVars, call, resultVars,
                   uart, line, calls, history>>

InBuffer == mRxPtr < RxBufferSizeMax \/ Left = 0

(* The pointer has left the buffer.  What it finds may be a status of        *)
(* anyone, with any value, or end the call.                                  *)
ParseElsewhere ==
    /\ pc = "parse" /\ ~InBuffer
    /\ \/ pc' = "idle" /\ UNCHANGED resultVars
       \/ /\ number <= SelectSizeMax    \* bound: more adds nothing new
          /\ \E id, value \in Beyond : TakeStatus(id, value)
          /\ UNCHANGED pc
    /\ UNCHANGED <<mXlSerialBaudRate, selectVars, rxVars, call, uart, line,
                   calls, history>>

Parse == \/ InBuffer /\ \E beyond \in Beyond :
                SkipBytes(beyond) \/ TakePacket(beyond) \/ Return(beyond)
         \/ ParseElsewhere

Step == ReceiveRound \/ ReceiveEnds \/ Parse

(* A sketch that calls the controller.                                       *)
Sketch ==
    /\ calls < MaxCalls
    /\ \/ \E selection \in Selections : selectServo(selection)
       \/ \E br \in Bauds : setXlBaudRate(br)
       \/ \E op \in {"ping", "push", "reset", "reboot"} :
                Call(op, CHOOSE r \in Regs : TRUE) /\ calls' = calls + 1
       \/ \E reg \in Regs : Call("pull", reg) /\ calls' = calls + 1

(* The sketch has made its calls.                                            *)
Finished == pc = "idle" /\ calls = MaxCalls /\ UNCHANGED vars

Next == Sketch \/ Arrive \/ Step \/ Finished

Spec == Init /\ [][Next]_vars

(* The sketch runs on while a call is under way, and a second passes.  What  *)
(* comes over the line is up to the line.                                    *)
Fairness == WF_vars(ReceiveRound) /\ WF_vars(ReceiveEnds) /\ WF_vars(Parse)
FairSpec == Spec /\ Fairness
-----------------------------------------------------------------------------
(* Properties.                                                               *)

TypeOK ==
    /\ mXlSerialBaudRate \in Int
    /\ mSelectIds \in [1..SelectSizeMax -> Byte]
    /\ mSelectSize \in 0..SelectSizeMax
    /\ mRxBuffer \in [0..RxBufferSizeMax-1 -> Byte]
    /\ mRxBufferSize \in 0..RxBufferSizeMax /\ mRxPtr \in Nat
    /\ pc \in {"idle", "receive", "parse"}
    /\ number \in Byte /\ ids \in Seq(Byte)
    /\ uart \in Seq(Byte) /\ line \in Seq(Byte)

(* The pointer is behind what was received, and the call parses bytes of     *)
(* earlier calls or of other variables.                                      *)
Overrun == mRxPtr > mRxBufferSize

(* getNextPacket looks at a byte that was not received and moves behind it   *)
(* only when the received bytes end inside the FF FF of a header.            *)
OverrunNeedsCutHeader ==
    Overrun => mRxBufferSize > 0 /\ mRxBuffer[mRxBufferSize - 1] = 255

(* Every id that ping stores stands for eight bytes or more of the buffer:   *)
(* what the array of the caller needs, whatever the line carries.            *)
AnswersBound ==
    ~Overrun => 8 * Len(ids) <= mRxPtr

Returns == pc = "parse" /\ pc' = "idle" /\ ~Overrun

(* Everything that was sent for this call, and nothing else, was received.   *)
Complete == ~noisy /\ awaited <= RxBufferSizeMax /\ line = <<>> /\ uart = <<>>

(* What ping returns: no servo that did not answer, none twice, and all of   *)
(* them if no byte came late; noise may hide a servo but not invent one.     *)
PingTold ==
    /\ ToSet(ids) \subseteq ToSet(answered) /\ IsInjective(ids)
    /\ number = Len(ids)
    /\ Complete => ids = answered
PingTellsWho == [][Returns /\ call.op = "ping" /\ fresh => PingTold]_vars

ValueOf(id) == LET bytes == Value[<<id, call.reg>>] IN
    IF Len(bytes) = 1 THEN bytes[1] ELSE MakeWord(bytes[1], bytes[2])

(* What pull returns: at each index the value of the servo selected there,   *)
(* for the register of this call, or the mark of a servo that is silent.     *)
PullTold ==
    /\ number <= mSelectSize
    /\ \A i \in 1..mSelectSize :
          returnVector[i] \in {NoAnswer, ValueOf(mSelectIds[i])}
    /\ Complete => \A i \in 1..mSelectSize :
          (\E j \in 1..Len(answered) :
              answered[j] = mSelectIds[i] /\ FirstIndex(answered[j], i))
          => returnVector[i] = ValueOf(mSelectIds[i])
PullTellsTruth == [][Returns /\ call.op = "pull" /\ fresh => PullTold]_vars

(* A packet of size zero, which a short int makes of the length 65529: the   *)
(* pointer does not move and the call does not end.                          *)
ZeroPacket == \E beyond \in Beyond :
    Left > 0 /\ CompletePacket(beyond) /\ SizeAt(beyond) = 0

(* A call returns if what comes for it fits in the buffer; with one byte     *)
(* more receiveData reads nothing for ever.                                  *)
FittingCallEnds ==
    (pc = "receive" /\ awaited <= RxBufferSizeMax)
        ~> (pc = "idle" \/ Overrun \/ ZeroPacket)
=============================================================================
